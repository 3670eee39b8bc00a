------------------------------ MODULE Surfaces ------------------------------
(***************************************************************************)
(* Pixel buffers and what is done to them: host1x-pixelbuffer.c,           *)
(* host1x-framebuffer.c, the 2D unit's jobs of host1x-gr2d.c, textures and *)
(* their mipmaps of grate-texture.c.  Memory is byte by byte; a byte of a  *)
(* pixel is its colour and which of its bytes it is.                       *)
(*                                                                         *)
(* The 2D unit is outside the repository.  It copies in the order its      *)
(* directions say, one unit after the other; a tile is Tile bytes wide and *)
(* Tile lines high, and tiles follow one another in rows as wide as the    *)
(* pitch (host1x-framebuffer.c:33).  Its jobs are accepted and waited for  *)
(* (JobPromise).                                                           *)
(***************************************************************************)
EXTENDS Images

CONSTANTS Tile,       \* bytes and lines of a tile: 16
          PitchAlign, \* of the pitch of a tiled buffer: 256
          LevelAlign, \* of the pitch of a level of a mipmap: 16
          Guard,      \* PIXBUF_GUARD_AREA_SIZE: 16384
          Word,       \* bytes the 2D unit moves at once, at most: 4
          Formats,    \* [bytes, compressed, align, tw, th] of each pixel format
          Cases,      \* [guard, calls, max]: what callers do
          None

ASSUME SurfacesAssumption ==
  /\ {Tile, PitchAlign, LevelAlign, Guard, Word} \subseteq Nat \ {0}
  /\ PitchAlign % (Tile * Tile) = 0
  /\ {"RGB565", "RGBA8888"} \subseteq DOMAIN Formats
  /\ \A f \in DOMAIN Formats : Formats[f].tw > 0 /\ Formats[f].th > 0 /\ Formats[f].align > 0

VARIABLES case,
          calls,           \* how many were made
          mem,             \* buffer objects: [size, bytes]
          surfaces,        \* framebuffers and textures: [pixbuf, mipmap]
          guard_disabled,  \* pixbuf_guard_disabled
          aborted,         \* host1x_pixelbuffer_check_guard has found a guard smashed
          saved, done      \* see Pictures

vars == <<case, calls, mem, surfaces, guard_disabled, aborted, saved, done>>

AlignTo(n, a) == ((n + a - 1) \div a) * a

\* Bytes that belong to no picture.
Fresh     == <<-1, 0>>
GuardByte == <<-2, 0>>
Wild      == <<-3, 0>>
Torn      == -4

Tiled(pixbuf) == pixbuf.layout = "TILED_16x16"
F(pixbuf)     == Formats[pixbuf.format]

-----------------------------------------------------------------------------
(* The 2D unit.                                                            *)

\* A buffer as a job describes it: [bo, base, pitch, tiled, bytes], where
\* bytes is what is moved at once.
ByteOf(r, x, y, k) ==
  LET xb == x * r.bytes + k
  IN r.base + IF r.tiled
              THEN r.pitch * Tile * (y \div Tile) + Tile * Tile * (xb \div Tile)
                     + Tile * (y % Tile) + (xb % Tile)
              ELSE y * r.pitch + xb

BytesOf(r, x, y) == {ByteOf(r, x, y, k) : k \in 0 .. r.bytes - 1}
KthByte(r, x, y, a) == CHOOSE k \in 0 .. r.bytes - 1 : ByteOf(r, x, y, k) = a

Cell(m, bo, a) == IF a \in DOMAIN m[bo].bytes THEN m[bo].bytes[a] ELSE Wild

\* What is written outside of a buffer extends it.
Put(m, bo, bytes) == [m EXCEPT ![bo].bytes = bytes @@ @]

MoveUnit(m, s, d, sx, sy, dx, dy) ==
  Put(m, d.bo, [a \in BytesOf(d, dx, dy) |-> Cell(m, s.bo, ByteOf(s, sx, sy, KthByte(d, dx, dy, a)))])

FillUnit(m, d, x, y, color) ==
  Put(m, d.bo, [a \in BytesOf(d, x, y) |-> <<color, KthByte(d, x, y, a)>>])

\* w steps in each of n lines: <<step, line>>.
Steps(w, n) == [i \in 1 .. w * n |-> <<(i - 1) % w, (i - 1) \div w>>]

Toward(from, backward, i) == IF backward THEN from - i ELSE from + i

GR2D_Blit(m, s, d, job) ==
  FoldLeft(LAMBDA n, t :
             MoveUnit(n, s, d, Toward(job.sx, job.xdir, t[1]), Toward(job.sy, job.ydir, t[2]),
                      Toward(job.dx, job.xdir, t[1]), Toward(job.dy, job.ydir # job.yflip, t[2])),
           m, Steps(job.w, job.h))

GR2D_Fill(m, d, c) ==
  FoldLeft(LAMBDA n, t : FillUnit(n, d, c.x + t[1], c.y + t[2], c.color), m, Steps(c.w, c.h))

\* The size of the job is a line less than what is written, or two when the
\* filter adds one; hdda and vdda have 12 bits behind the point.  A point that is
\* filtered from two stands for the first of them.
GR2D_Surface(m, s, d, job) ==
  LET Scaled(i, dda) == (i * dda) \div 4096
  IN FoldLeft(LAMBDA n, t :
                MoveUnit(n, s, d, Scaled(t[1], job.hdda), Scaled(t[2], job.vdda),
                         t[1], Toward(0, job.yflip, t[2])),
              m, Steps(job.dst_width, job.dst_height + (IF job.vfen THEN 2 ELSE 1)))

-----------------------------------------------------------------------------
(* Pixel buffers.                                                          *)

\* Mutant: the height of a tiled buffer is taken as it is.
Room_Unaligned(pixbuf) == pixbuf.pitch * pixbuf.height

\* Without its guard areas.
Room(pixbuf) == pixbuf.pitch * IF Tiled(pixbuf) THEN AlignTo(pixbuf.height, Tile) ELSE pixbuf.height

NewBo(m) == CHOOSE b \in 1 .. Cardinality(DOMAIN m) + 1 : b \notin DOMAIN m

\* host1x_pixelbuffer_create, before its memory is allocated.
Pixelbuffer(m, width, height, pitch, format, layout) ==
  [bo |-> NewBo(m), offset |-> IF guard_disabled THEN 0 ELSE Guard, width |-> width,
   height |-> height, pitch |-> IF layout = "TILED_16x16" THEN AlignTo(pitch, PitchAlign) ELSE pitch,
   format |-> format, layout |-> layout, guarded |-> ~guard_disabled]

InGuards(size, a) == a < Guard \/ a >= size - Guard

\* A new object of n bytes and the guards, which are written.
Allocated(m, pixbuf, n) ==
  LET size == n + IF guard_disabled THEN 0 ELSE 2 * Guard
  IN pixbuf.bo :> [size |-> size,
       bytes |-> [a \in 0 .. size - 1 |-> IF pixbuf.guarded /\ InGuards(size, a) THEN GuardByte ELSE Fresh]]
     @@ m

WithPixelbuffer(m, pixbuf) == Allocated(m, pixbuf, Room(pixbuf))

Freed(m, bo) == [b \in DOMAIN m \ {bo} |-> m[b]]

\* host1x_pixelbuffer_check_guard: it aborts unless this holds.
GuardHolds(m, pixbuf) ==
  LET bo == m[pixbuf.bo] IN
  pixbuf.guarded => \A a \in 0 .. bo.size - 1 : InGuards(bo.size, a) => bo.bytes[a] = GuardByte

BufferOf(pixbuf, bytes) ==
  [bo |-> pixbuf.bo, base |-> pixbuf.offset, pitch |-> pixbuf.pitch, tiled |-> Tiled(pixbuf),
   bytes |-> bytes]

-----------------------------------------------------------------------------
(* Jobs: what comes of the memory, and what is refused.                    *)

ClearRefused(pixbuf, c) == c.x + c.w > pixbuf.width \/ c.y + c.h > pixbuf.height

Outside(src, dst, c) ==
  \/ c.sx + c.w > src.width \/ c.dx + c.dw > dst.width
  \/ c.sy + c.h > src.height \/ c.dy + c.dh > dst.height

\* The corner where copying starts, and which way it goes.
Overlap(src, dst, c) ==
  /\ src.bo = dst.bo
  /\ ~(c.sx >= c.dx + c.w \/ c.sx + c.w <= c.dx)
  /\ ~(c.sy >= c.dy + c.h \/ c.sy + c.h <= c.dy)

Corner(xdir, ydir, c) ==
  [xdir |-> xdir, ydir |-> ydir, yflip |-> c.flip, w |-> c.w, h |-> c.h,
   sx |-> IF xdir THEN c.sx + c.w - 1 ELSE c.sx,
   dx |-> IF xdir THEN c.dx + c.w - 1 ELSE c.dx,
   sy |-> IF ydir THEN c.sy + c.h - 1 ELSE c.sy,
   dy |-> IF ydir \/ c.flip THEN c.dy + c.h - 1 ELSE c.dy]

\* Mutant: lines that overlap are copied from left to right.
Directed_LeftToRight(src, dst, c) == Corner(FALSE, Overlap(src, dst, c) /\ c.dy > c.sy, c)

Directed(src, dst, c) ==
  Corner(Overlap(src, dst, c) /\ c.dx > c.sx, Overlap(src, dst, c) /\ c.dy > c.sy, c)

\* Compressed formats are copied by blocks, a block in Word bytes at a time.
InBlocks(f, job) ==
  LET tscale == f.bytes \div Word IN
  [job EXCEPT !.w  = (@ \div f.tw) * tscale, !.h  = @ \div f.th,
              !.sx = (@ \div f.tw) * tscale, !.sy = @ \div f.th,
              !.dx = (@ \div f.tw) * tscale, !.dy = @ \div f.th]

Unaligned(f, job) ==
  /\ f.compressed
  /\ \/ \E n \in {job.sx, job.dx, job.w} : n % f.tw # 0
     \/ \E n \in {job.sy, job.dy, job.h} : n % f.th # 0

BlitRefused(src, dst, c) ==
  \/ F(src).bytes # F(dst).bytes
  \/ Outside(src, dst, c)
  \/ /\ src.bo = dst.bo
     /\ \/ src.offset # dst.offset \/ src.pitch # dst.pitch \/ src.format # dst.format
        \/ src.width # dst.width \/ src.height # dst.height
  \/ Unaligned(F(dst), Directed(src, dst, c))

\* host1x_gr2d_blit of what is not refused.
Blit(m, src, dst, c) ==
  LET f     == F(dst)
      job   == Directed(src, dst, c)
      bytes == IF f.compressed THEN Word ELSE f.bytes
  IN GR2D_Blit(m, BufferOf(src, bytes), BufferOf(dst, bytes), IF f.compressed THEN InBlocks(f, job) ELSE job)

sb_offset(pixbuf, x, y) ==
  LET xb == x * F(pixbuf).bytes
      pixels_per_line == pixbuf.pitch \div F(pixbuf).bytes
  IN IF Tiled(pixbuf)
     THEN Tile * pixels_per_line * (y \div Tile) + Tile * Tile * (xb \div Tile)
            + Tile * (y % Tile) + (xb % Tile)
     ELSE y * pixbuf.pitch + xb

\* Steps in the source for a step in the destination: a ratio, held within 1/4096
\* and 64.
One == 4096
TooFlat(n, m)  == One * AtLeastOne(n - 1) < m - 1
TooSteep(n, m) == m = 1 \/ One * AtLeastOne(n - 1) > (64 * One - 1) * (m - 1)
InvScale(n, m) ==
  CASE TooSteep(n, m) -> <<64 * One - 1, One>>
    [] TooFlat(n, m)  -> <<1, One>>
    [] OTHER          -> <<AtLeastOne(n - 1), m - 1>>

\* The nearest of 18 bits, 12 of them behind the point
FLOAT_TO_FIXED_6_12(r) == ((2 * One * r[1] + r[2]) \div (2 * r[2])) % (64 * One)

SurfaceRefused(src, dst, c) ==
  {src.format, dst.format} \ {"RGBA8888", "BGRA8888"} # {} \/ Outside(src, dst, c)

\* host1x_gr2d_surface_blit of what is not refused.
SurfaceBlit(m, src, dst, c) ==
  LET inv_scale_x == InvScale(c.w, c.dw)
      inv_scale_y == InvScale(c.h, c.dh)
      vfen == ~TooFlat(c.h, c.dh) /\ ~TooSteep(c.h, c.dh) /\ inv_scale_y[1] # inv_scale_y[2]
      less == IF vfen THEN 2 ELSE 1
      job  == [hdda |-> FLOAT_TO_FIXED_6_12(inv_scale_x), vdda |-> FLOAT_TO_FIXED_6_12(inv_scale_y),
               vfen |-> vfen, yflip |-> c.flip,
               dst_width |-> c.dw, dst_height |-> IF c.dh > less THEN c.dh - less ELSE 0]
      s    == BufferOf(src, F(src).bytes)
      d    == BufferOf(dst, F(dst).bytes)
      bottom == IF c.flip THEN dst.pitch * job.dst_height ELSE 0
  IN GR2D_Surface(m, [s EXCEPT !.base = @ + sb_offset(src, c.sx, c.sy)],
                  [d EXCEPT !.base = @ + sb_offset(dst, c.dx, c.dy) + bottom], job)

-----------------------------------------------------------------------------
(* Loading, and the levels of a mipmap.                                    *)

Entire(src, dst) ==
  [sx |-> 0, sy |-> 0, w |-> src.width, h |-> src.height,
   dx |-> 0, dy |-> 0, dw |-> dst.width, dh |-> dst.height, flip |-> FALSE]

Blocks(n, size) == AlignTo(n, size) \div size

\* The file's data, in lines of data_pitch bytes without gaps.
WithData(m, pixbuf, data_pitch, seed) ==
  LET f     == F(pixbuf)
      lines == Blocks(pixbuf.height, f.th)
  IN Put(m, pixbuf.bo, [a \in pixbuf.offset .. pixbuf.offset + data_pitch * lines - 1 |->
       LET at == a - pixbuf.offset
       IN <<seed + (at \div data_pitch) * pixbuf.width + (at % data_pitch) \div f.bytes,
            at % f.bytes>>])

\* host1x_pixelbuffer_load_data by way of another buffer when the pitch or
\* the layout of the data are not the buffer's.
Direct(pixbuf, data_pitch, data_layout) == pixbuf.layout = data_layout /\ pixbuf.pitch = data_pitch

Staging(m, pixbuf, data_pitch, data_layout) ==
  Pixelbuffer(m, pixbuf.width, pixbuf.height, data_pitch, pixbuf.format, data_layout)

LoadRefused(m, pixbuf, data_pitch, data_layout) ==
  LET tmp == Staging(m, pixbuf, data_pitch, data_layout)
  IN ~Direct(pixbuf, data_pitch, data_layout) /\ BlitRefused(tmp, pixbuf, Entire(tmp, pixbuf))

LoadData(m, pixbuf, data_pitch, data_layout, seed) ==
  IF Direct(pixbuf, data_pitch, data_layout) THEN WithData(m, pixbuf, data_pitch, seed)
  ELSE LET tmp == Staging(m, pixbuf, data_pitch, data_layout)
       IN Freed(Blit(WithData(WithPixelbuffer(m, tmp), tmp, data_pitch, seed),
                     tmp, pixbuf, Entire(tmp, pixbuf)), tmp.bo)

LevelSize(mipmap, l) ==
  AlignTo(AtLeastOne(mipmap.width \div 2 ^ l) * F(mipmap).bytes, LevelAlign)
    * AtLeastOne(mipmap.height \div 2 ^ l)

SizeOfLevels(mipmap, n) == FoldLeft(LAMBDA sum, k : sum + LevelSize(mipmap, k - 1), 0, [k \in 1 .. n |-> k])

MaxLod(mipmap) == LET w == Log2(mipmap.width) h == Log2(mipmap.height) IN IF w > h THEN w ELSE h

NewMipmap(m, pixbuf) ==
  LET w == 2 ^ Log2(pixbuf.width)
  IN [bo |-> NewBo(m), offset |-> IF guard_disabled THEN 0 ELSE Guard, width |-> w,
      height |-> 2 ^ Log2(pixbuf.height), pitch |-> w * F(pixbuf).bytes, format |-> pixbuf.format,
      layout |-> pixbuf.layout, guarded |-> ~guard_disabled]

\* setup_lod_pixbuf: it is not guarded, and ends where the next one begins.
Lod(mipmap, l) ==
  LET w == AtLeastOne(mipmap.width \div 2 ^ l)
  IN [mipmap EXCEPT !.offset = @ + SizeOfLevels(mipmap, l), !.width = w,
                    !.height = AtLeastOne(@ \div 2 ^ l),
                    !.pitch = AlignTo(w * F(mipmap).bytes, LevelAlign), !.guarded = FALSE]

-----------------------------------------------------------------------------
(* Calls.                                                                  *)

Init ==
  /\ case \in DOMAIN Cases
  /\ guard_disabled = ~Cases[case].guard
  /\ calls = 0
  /\ mem = <<>> /\ surfaces = <<>>
  /\ aborted = FALSE
  /\ saved = None /\ done = None

\* A new call, and what it returns.
Called    == ~aborted /\ calls < Cases[case].max /\ calls' = calls + 1 /\ UNCHANGED <<case, guard_disabled>>
Refuse    == done' = None /\ UNCHANGED <<mem, surfaces, aborted, saved>>
Change(c, m) == done' = c /\ mem' = m /\ aborted' = aborted /\ UNCHANGED <<surfaces, saved>>
\* A job has finished, and the guards of its destination are looked at.
Finish(c, m, dst) ==
  done' = c /\ mem' = m /\ aborted' = ~GuardHolds(m, dst) /\ UNCHANGED <<surfaces, saved>>

New(c, pitch) ==
  LET pixbuf == Pixelbuffer(mem, c.w, c.h, pitch, c.format, c.layout)
  IN /\ c.s \notin DOMAIN surfaces
     /\ mem' = WithPixelbuffer(mem, pixbuf)
     /\ surfaces' = (c.s :> [pixbuf |-> pixbuf, mipmap |-> None]) @@ surfaces
     /\ done' = c
     /\ UNCHANGED <<aborted, saved>>

TextureFormats == {"S8", "RGBA8888", "D16_LINEAR", "D16_NONLINEAR", "DXT1", "DXT3", "DXT5", "ETC1"}

grate_create_texture(c) ==
  LET f == Formats[c.format]
  IN /\ c.kind = "texture"
     /\ IF c.format \in TextureFormats THEN New(c, AlignTo((f.bytes * c.w) \div f.tw, f.align))
        ELSE Refuse

host1x_framebuffer_create(c) ==
  /\ c.kind = "framebuffer"
  /\ IF c.format \in {"RGB565", "RGBA8888"} THEN New(c, c.w * Formats[c.format].bytes)
     ELSE Refuse

\* grate_texture_free, host1x_framebuffer_free: a mipmap's buffer stays.
texture_free(c) ==
  /\ c.s \in DOMAIN surfaces
  /\ mem' = Freed(mem, surfaces[c.s].pixbuf.bo)
  /\ surfaces' = [s \in DOMAIN surfaces \ {c.s} |-> surfaces[s]]
  /\ done' = c
  /\ UNCHANGED <<aborted, saved>>

host1x_gr2d_clear_rect(c) ==
  /\ c.s \in DOMAIN surfaces
  /\ LET pixbuf == surfaces[c.s].pixbuf
     IN IF ClearRefused(pixbuf, c) THEN Refuse
        ELSE Finish(c, GR2D_Fill(mem, BufferOf(pixbuf, F(pixbuf).bytes), c), pixbuf)

Between(c) == {c.s, c.d} \subseteq DOMAIN surfaces
Source(c)  == surfaces[c.s].pixbuf
Target(c)  == surfaces[c.d].pixbuf

host1x_gr2d_blit(c) ==
  IF BlitRefused(Source(c), Target(c), c) THEN Refuse
  ELSE Finish(c, Blit(mem, Source(c), Target(c), c), Target(c))

host1x_gr2d_surface_blit(c) ==
  IF SurfaceRefused(Source(c), Target(c), c) THEN Refuse
  ELSE Finish(c, SurfaceBlit(mem, Source(c), Target(c), c), Target(c))

\* A height that is negative, flip, is never the source's.
grate_texture_blit(c) ==
  IF c.w = c.dw /\ c.h = c.dh /\ ~c.flip THEN host1x_gr2d_blit(c) ELSE host1x_gr2d_surface_blit(c)

blit(c) ==
  /\ Between(c)
  /\ \/ c.via = "blit" /\ host1x_gr2d_blit(c)
     \/ c.via = "surface_blit" /\ host1x_gr2d_surface_blit(c)
     \/ c.via = "texture_blit" /\ grate_texture_blit(c)

\* grate_texture_load_internal: an image of the size of the texture, linear.
grate_texture_load(c) ==
  /\ c.s \in DOMAIN surfaces
  /\ LET pixbuf == surfaces[c.s].pixbuf
         f      == F(pixbuf)
         pitch  == IF f.compressed THEN Blocks(pixbuf.width, f.tw) * f.bytes
                   ELSE pixbuf.width * Formats["RGBA8888"].bytes
     IN IF LoadRefused(mem, pixbuf, pitch, "LINEAR") THEN Refuse
        ELSE Change(c, LoadData(mem, pixbuf, pitch, "LINEAR", c.seed))

\* alloc_mipmap, if there is none: the memory and the mipmap.
alloc_mipmap(surface) ==
  IF surface.mipmap # None THEN [mem |-> mem, mipmap |-> surface.mipmap]
  ELSE LET mipmap == NewMipmap(mem, surface.pixbuf)
       IN [mem |-> Allocated(mem, mipmap, SizeOfLevels(mipmap, MaxLod(mipmap) + 1)), mipmap |-> mipmap]

WithMipmap(s, mipmap) == surfaces' = [surfaces EXCEPT ![s].mipmap = mipmap]

\* Each level is scaled from the one before; the mipmap stays when refused.
grate_texture_generate_mipmap(c) ==
  /\ c.s \in DOMAIN surfaces
  /\ LET pixbuf == surfaces[c.s].pixbuf
         new    == alloc_mipmap(surfaces[c.s])
         From(l) == IF l = 0 THEN pixbuf ELSE Lod(new.mipmap, l - 1)
         Scale(m, k) == LET dst == Lod(new.mipmap, k - 1)
                        IN SurfaceBlit(m, From(k - 1), dst, Entire(From(k - 1), dst))
         refused == SurfaceRefused(pixbuf, Lod(new.mipmap, 0), Entire(pixbuf, Lod(new.mipmap, 0)))
     IN /\ WithMipmap(c.s, new.mipmap)
        /\ mem' = IF refused THEN new.mem
                  ELSE FoldLeft(Scale, new.mem, [k \in 1 .. MaxLod(new.mipmap) + 1 |-> k])
        /\ done' = IF refused THEN None ELSE c
        /\ UNCHANGED <<aborted, saved>>

grate_texture_load_miplevel(c) ==
  /\ c.s \in DOMAIN surfaces
  /\ LET new   == alloc_mipmap(surfaces[c.s])
         max   == MaxLod(new.mipmap)
         dst   == Lod(new.mipmap, IF c.level < max THEN c.level ELSE max)
         pitch == dst.width * Formats["RGBA8888"].bytes
     IN /\ WithMipmap(c.s, new.mipmap)
        /\ IF LoadRefused(new.mem, dst, pitch, dst.layout) THEN mem' = new.mem /\ done' = None
           ELSE mem' = LoadData(new.mem, dst, pitch, dst.layout, c.seed) /\ done' = c
        /\ UNCHANGED <<aborted, saved>>

\* The colour at (x, y) as a job would see it.
Colour(m, r, x, y) ==
  LET cells == [k \in 0 .. r.bytes - 1 |-> Cell(m, r.bo, ByteOf(r, x, y, k))]
  IN IF \A k \in DOMAIN cells : cells[k] = Fresh THEN 0
     ELSE IF \A k \in DOMAIN cells : cells[k] = <<cells[0][1], k>> THEN cells[0][1]
     ELSE Torn

\* Lines from last to first, from the beginning of the buffer's memory.
host1x_framebuffer_save(c) ==
  /\ c.s \in DOMAIN surfaces
  /\ LET fb  == surfaces[c.s].pixbuf
         tmp == Pixelbuffer(mem, fb.width, fb.height, fb.width * F(fb).bytes, fb.format, "LINEAR")
         m   == Blit(WithPixelbuffer(mem, tmp), fb, tmp, Entire(fb, tmp))
         Row(n, pixbuf) == [p \in Rect(0, 0, fb.width, fb.height) |->
                              Colour(n, [BufferOf(pixbuf, F(fb).bytes) EXCEPT !.base = 0],
                                     p[1], fb.height - p[2] - 1)]
     IN IF fb.format \notin {"RGBA8888", "BGRA8888"} THEN Refuse
        ELSE /\ saved' = IF Tiled(fb) THEN Row(m, tmp) ELSE Row(mem, fb)
             /\ aborted' = (Tiled(fb) /\ ~GuardHolds(m, tmp))
             /\ done' = c
             /\ UNCHANGED <<mem, surfaces>>

Next ==
  /\ Called
  /\ \E c \in Cases[case].calls :
       \/ c.op = "create" /\ (grate_create_texture(c) \/ host1x_framebuffer_create(c))
       \/ c.op = "free" /\ texture_free(c)
       \/ c.op = "clear" /\ host1x_gr2d_clear_rect(c)
       \/ c.op = "blit" /\ blit(c)
       \/ c.op = "load" /\ grate_texture_load(c)
       \/ c.op = "generate" /\ grate_texture_generate_mipmap(c)
       \/ c.op = "level" /\ grate_texture_load_miplevel(c)
       \/ c.op = "save" /\ host1x_framebuffer_save(c)

Spec == Init /\ [][Next]_vars

-----------------------------------------------------------------------------
(* Properties                                                              *)

\* No call writes outside of the buffers it names, nor into the areas before
\* and after them (host1x-pixelbuffer.c:154): no guard is ever found smashed.
GuardsIntact ==
  /\ ~aborted
  /\ \A b \in DOMAIN mem : DOMAIN mem[b].bytes = 0 .. mem[b].size - 1
  /\ \A s \in DOMAIN surfaces :
       /\ GuardHolds(mem, surfaces[s].pixbuf)
       /\ surfaces[s].mipmap # None => GuardHolds(mem, surfaces[s].mipmap)

Image(pixbuf) ==
  LET r == BufferOf(pixbuf, F(pixbuf).bytes)
  IN [p \in Rect(0, 0, pixbuf.width, pixbuf.height) |->
        Colour(mem, r, p[1] \div F(pixbuf).tw, p[2] \div F(pixbuf).th)]

Shown(surface) ==
  [image  |-> Image(surface.pixbuf),
   levels |-> IF surface.mipmap = None THEN <<>>
              ELSE [k \in 1 .. MaxLod(surface.mipmap) + 1 |-> Image(Lod(surface.mipmap, k - 1))],
   texel  |-> <<F(surface.pixbuf).tw, F(surface.pixbuf).th>>]

\* Whatever the layouts, pitches, formats and overlaps, a call does to the
\* pictures what it says, and nothing to those it does not name.
Promise == INSTANCE Pictures WITH
  Calls    <- UNION {Cases[k].calls : k \in DOMAIN Cases},
  Texels   <- [f \in DOMAIN Formats |-> <<Formats[f].tw, Formats[f].th>>],
  pictures <- [s \in DOMAIN surfaces |-> Shown(surfaces[s])]
KeepsPictures == Promise!Spec

=============================================================================
