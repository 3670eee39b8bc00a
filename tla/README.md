# Verification of grate

grate is a set of libraries and tools for reverse engineering and driving NVIDIA Tegra 2/3/4
graphics: a wrapper that is preloaded into an existing program and watches or records what it
asks of the kernel (`src/libwrap`), a tool that replays such a recording (`tools/replay.c`), a
library for the host1x channels (`src/libhost1x`), and on top of it a small 3D library with its
assembler and disassembler (`src/libgrate`, `src/libcgc`, `tools`).

This directory holds TLA+ modules of the parts whose correctness depends on order: what happens
between a call and its hook, between two records, between two descriptors of a file. TLC
checks them on small instances, and TLAPS proves what matters most for every size.

## 1. Inventory

### 1.1 libwrap: file table and system call wrappers (`utils.c`, `syscall.c`)

*State.* A list `files` of `struct file`: a path, a descriptor, eight slots for duplicates, the
operations of the wrapped device. The real state is the kernel's descriptor table, of which the
list is a copy.
*Operations.* `open`/`open64` (kernel, then `file_open` when the path is a known device),
`close` (kernel, then `file_close`), `fcntl(F_DUPFD)` (kernel, then `file_dup`), `ioctl`
(`file_lookup`, enter hook, kernel, leave hook), and `write`.
*Interaction.* Every other part of libwrap is reached through the `struct file` that
`file_lookup` returns.
*Hard.* The kernel's step and the list's step are separate and unlocked; numbers are reused at
once; duplicates are closed in any order; a ninth duplicate is not noted.
*Correct when* a descriptor is found in the list exactly when it refers to a wrapped device, and
then the right one; a `struct file` is released when its last descriptor is closed and not before.

### 1.2 libwrap: DRM hooks (`host1x.c`) and recorder (`recorder.c`, `include/record_replay.h`)

*State.* Per open file a shadow list of buffers (handle, mapping, record id, checksums of its
pages, framebuffer id) and of channels; for the process the recorder's counters and its file.
*Operations.* Enter and leave hooks of GEM_CREATE, CREATE_DUMB, GEM_OPEN, GEM_MMAP, MAP_DUMB,
GEM_CLOSE, DESTROY_DUMB, GEM_SET_FLAGS, ADDFB(2), RMFB, SETCRTC, SETPLANE, PAGE_FLIP,
OPEN_CHANNEL, CLOSE_CHANNEL, SUBMIT; `host1x_file_new` at open, `host1x_file_release` at close.
*Interaction.* Hooks run in the program's threads, under `ioctl_lock`; the kernel's part, open and
close do not. Each `fwrite()` is a step of its own; the file is the only link to the replay.
*Hard.* Hooks in another order than the kernel's calls; records torn apart by an unlocked writer;
a page left out because its checksum is thought to be known; ids of 16 bits; a program that is
killed by an `abort()` in a hook.
*Correct when* the shadow is what the kernel has, the record can be replayed, and a replayed job
finds in its buffers what the program's job found.

### 1.3 replay (`tools/replay.c`)

*State.* Lists of contexts, buffers, framebuffers and job contexts; the framebuffer believed to
be on the screen; the overlay; the compression of the pages.
*Operations.* One handler per record, ended by `assert()` when the record does not fit.
*Correct when* it accepts what the recorder writes and its objects, contents and screen follow
the traced program's.

### 1.4 libwrap: nvhost hooks (`nvhost.c`), command parser (`cdma_parser.c`), disassembler (`disasm.c`)

*State.* Per nvhost file the job under construction (pushbuffers, relocations, the words still
expected) and the nvmap handles; per channel the class and, per unit of the 3D engine, the upload
counters of the disassembler.
*Operations.* `write` of a submit header, command buffers, relocations, shifts; SUBMIT_EXT, FLUSH;
nvmap CREATE, ALLOC, MMAP, WRITE, FREE, PARAM, PIN; parsing of the words of a command buffer.
*Hard.* A job arrives in any number of writes; counts in the data may exceed the buffer; opcodes
that are not known.
*Correct when* the words of a job are attributed to the opcode, class and unit they belong to
and the parser always ends.

### 1.5 libhost1x: buffers and jobs

`host1x.c` is the front (buffers, jobs, pushbuffers, wrapped buffers); `host1x-drm.c`,
`host1x-nvhost.c` with `nvhost*.c`, and `host1x-dummy.c` are back ends.
*State.* Buffers with their mappings (a cache of three pointers per DRM buffer), channels with
syncpoint and last fence, jobs.
*Hard.* Wrapped buffers share the kernel's handle with their original; a submit that fails leaves
the fence of an older one.
*Correct when* every kernel handle and mapping is released exactly once and no earlier than its
last user, and a wait waits for the job that was submitted last.

### 1.6 libhost1x: 2D unit, pixel buffers, framebuffers; libgrate: textures

`host1x-gr2d.c`, `host1x-pixelbuffer.c`, `host1x-framebuffer.c`, `grate-texture.c`.
*State.* Memory with pictures in it: linear or tiled, with a pitch, between guards; mipmaps, whose
levels lie behind one another in one buffer.
*Hard.* Pitch, height, guards and levels are rounded in several places; a copy over itself has a
direction; the 2D unit moves bytes and the caller thinks of pixels.
*Correct when* a call changes the picture it names as it says, and nothing else in memory.

### 1.7 libhost1x: displays; libgrate: showing a framebuffer

KMS in `host1x-drm.c`, `nvhost-display.c`, `x11-display.c`, `dri-display.c`, and `grate.c` with
`display.c` above them.
*State.* Front and back buffer of the framebuffer, what the controller reads, flips under way,
events in the queue.
*Hard.* The controller flips when it likes; waits give up after a second; refused flips become
mode sets; errors are printed or dropped.
*Correct when* the program never draws where the screen is read, and its last frame stays.

### 1.8 libgrate: 3D contexts, programs, drawing

`grate-3d.c`, `grate-3d-ctx.c`, `grate-3d.h`, and the linking of programs in `grate-asm.c` and
`shader.c`.
*State.* The context (program, uniforms, attributes, targets, tests, textures) which a draw turns
into the registers of a job.
*Hard.* Values go through names, slots of half registers, locations, copies and limits; targets 0
and 2 double as depth and stencil buffer; settings come in any order.
*Correct when* the job has what the caller gave last, and no unit touches memory it was not given.

### 1.9 libgrate: assemblers and disassemblers

`vertex_asm.y`, `fragment_asm.y`, `linker_asm.y` with their scanners and headers, `grate-asm.c`,
`vertex_disasm.c`, `fragment_disasm.c`, `linker_disasm.c`.
*State.* Static variables of the parsers: the instruction under way, counters, schedules.
*Hard.* State that outlives an operation; limits of programs and fields; operands that share a
field; floats of 10 and 20 bits.
*Correct when* an accepted text says what is executed, and the disassembler inverts the assembler.

### 1.10 The rest

`libcgc` and `shader-cgc.c` read the container of NVIDIA's compiler; `matrix.c`, `profile.c`,
`grate-font.c`, `tools` compute, measure and convert; `host1x-gr3d.c` has the constant words of the
3D reset; `cgdrv.c` hooks the compiler.

## 2. Plan

| order | module | question | status |
|---|---|---|---|
| 1 | `FileTable`, `FileTableProofs` | does the list follow the kernel's descriptors? | checked, proved |
| 2 | `RecordFormat`, `Recorder`, `Replay`, `RecordReplay`, `RecorderProofs`, `ReplayProofs`, `MemoryProofs` | does the replay follow the program? | checked; proved for one thread |
| 3 | `JobPromise`, `Host1x`, `Host1xProofs` | does libhost1x own what it frees, and does a wait mean what callers think, on DRM and on nvhost? | checked, proved |
| 4 | `CommandChannel`, `NvhostJobs`, `NvhostProofs` | does libwrap report what the channel does, and does every hook end? | checked; all but the ending proved |
| 5 | `VertexAsm`, `FragmentAsm`, `FragmentDisasm`, `LinkerAsm`, `Assemblers` | does an accepted program say what its text says, and is the disassembler the inverse of the assembler? | checked |
| 6 | `Programs`, `Drawing`, `DrawingProofs` | does the job of a draw hold the context's state, within its limits? | checked, proved |
| 7 | `Images`, `Pictures`, `Surfaces` | do clears, blits, loads and mipmaps do what they say, inside the buffers they name? | checked |
| 8 | `Displays`, `DisplaysProofs` | is a buffer ever drawn into while it is shown; do the fallbacks end in the right picture? | checked; the first proved |

*Composition.* `RecordReplay` joins `Recorder` and `Replay`, which share only `RecordFormat`.
`NvhostJobs` carries an instance of `CommandChannel` for each channel: the hardware as envytools
and the driver describe it, which is the reference for what libwrap reports. `Assemblers` has an
instance of each assembler, of which `tools/assembler.c` runs one. `Drawing` extends `Programs`.
`Surfaces` counts on `JobPromise`: its jobs are accepted and waited for.

*Abstract specifications.* `JobPromise` is what callers of `struct host1x_client` rely on; `Host1x`
implements it on all drivers (`KeepsPromise`). `Pictures` is what callers of the 2D unit and of
textures rely on: images, of which a call changes one, all at once; `Surfaces`, byte by byte,
implements it (`KeepsPictures`). For the recorder the promise is the mirror itself: `ObjectsMirrored`,
`JobSeesProgramsMemory` and `DisplayFollows` relate the program's state to the replay's.

None of the modules declares a RECURSIVE operator; recursion is by folds or recursive functions.

## 3. The modules and the code

### 3.1 `FileTable`: `utils.c`, `syscall.c`

`kfd` is the kernel's descriptor table; `files`, `fd`, `dup_fds` are the list, `file->fd` and
`file->dup_fds`; `phase` is the life of a `struct file`; `pc` is where a thread is between its
kernel step and its list step. `OpenDevice` and `file_open`,
`CloseKernel` and `FileCloseHit`/`FileCloseMiss`, `DupKernel`, `DupLookup` and
`FileDup`/`FileDupFull`, `IoctlLookup`, `IoctlKernel` and `IoctlLeave` are the steps of the
wrappers. `unseen` is a ghost: descriptors libwrap was never told of, or had no slot for.

A single list operation is not torn. The code has no lock there, so two threads *inside* one
`list_add` could corrupt it; that is undefined behaviour of the C code and no model of the list
would tell more than that. The interleavings *between* kernel and list are all in the model. The
program does not close a descriptor another of its threads is using, which would be its own race.

### 3.2 `Recorder`, `Replay`, `RecordFormat`, `RecordReplay`: `host1x.c`, `recorder.c`, `replay.c`

`Recorder` holds the program (the ioctls it makes), the kernel (`gem`, `mem`, `kfb`, `crtc`), the
shadow (`bos`, `contexts`) and the recorder (id counters modulo `IdMod`, checksums, `out`: the
records a thread has composed and not yet written). An ioctl is `Enter` under `ioctl_lock`, then
the kernel's step, then the leave hook under `ioctl_lock`; a hook's `fwrite()`s are steps of
their own, and the lock is held until the last. `open()` and `close()` write without the lock.
`Replay` has one operator per record with the assertions of its handler; `Consume` reads header
and payloads. A failed assertion sets `status`, an `abort()` in a hook sets `aborted` to one of `Reasons`.

- `no_fd` has the files whose first descriptor was closed while a duplicate is left (`CloseFd`):
  `file->fd` is -1 then (utils.c:163). GEM_MMAP and MAP_DUMB of a buffer that libwrap has not mapped use
  that -1 and abort the program through `assert(bo->mapped != MAP_FAILED)` (host1x.c:536-543, 709-716);
  buffers mapped before stay usable. How descriptors are found is the matter of `FileTable`.
- `OtherFbs` are the framebuffers of a format other than XRGB8888, XBGR8888 and RGB565. ADDFB and
  ADDFB2 of one succeed in the kernel, and libwrap returns before it notes or records anything
  (host1x.c:773-778, 818-821); the later hooks find no framebuffer with this id.
- A disk that is full (`DiskFull`) may let any `fwrite()` fail, which aborts the program
  (recorder.c:50-54). Nothing is said of the replay of a file that ends inside a record.
- `INFO` names the driver: with DRM there is no /dev/nvhost-ctrl (host1x.c), so `drm` is true, and the
  replay's check of it (replay.c:738) is in `Replay.info`.

- A page is one value; a buffer has one page, or five where only sampled pages are summed.
- The GPU is finished with a job when its submit returns; `rendered` remembers what it wrote.
- The replay reads records as they are written. It is a function of the file, so this loses
  nothing, and it lets the two sides be compared while they stand at the same record.
- The second of two threads that open the first device truncates the file (`fopen(path, "w")`,
  recorder.c:175); it may do so only while the first is still in `record_start`. The replay of
  such a file stops at its magic (replay.c:723). `Starting` explores it; its records are not
  promised to be accepted.
- No GEM call is made while the recorder is starting: a descriptor that can be used has been
  returned by `open()`.

### 3.3 `Host1x`, `JobPromise`: `host1x.c`, `host1x-drm.c`, `host1x-nvhost.c`, `nvhost.c`, `nvhost-nvmap.c`

`bos` are the `struct drm_bo` or `nvhost_bo` with the `struct host1x_bo` at their front; a buffer
wrapped around another is a clone of it with a range of its own. `gem`, `maps` are the kernel's
handles and channel mappings; `queue`, `syncpt`, `max` its channel. A job is built
(`host1x_job_create`, `_append`, pushes), its targets are relocated one by one, then it is
submitted, flushed and waited for. `Setups` gives the driver and the calls that may fail: the old
interface of DRM names handles and copies the words of a job, the new one maps buffers into a
channel, nvhost names handles and gives the fence only at the flush.

- One pushbuffer per job, written to the start of the channel's command buffer, as all users in
  the library do. (With a second one, `host1x-drm.c:968` compares its offset, in bytes, with a sum of
  words.) Wrapped buffers are freed before their original, as their users do.
- An imported buffer has size 0 and cannot be mapped by the library's `mmap`.
- After a wait that failed the next job overwrites words the GPU may not have read. That is the
  caller's risk (`gaveUp`), and `CommandsIntact` says so.
- `drm_bo_free` is modelled as it is: it stops at the first free slot while `drm_bo_map` fills the
  last one first, so mappings stay behind. Nothing in the repository says they should not.
- A wrap of a wrapped buffer starts behind the end of that buffer (`host1x.c:244`), not at its
  beginning as the comment at `host1x.c:215` reads. The model does what the code does. `WrappedInside`
  holds all the same: the check at `host1x.c:229` counts the same term.
- Opening, closing and probing, and how they fail, are not modelled. On nvhost the `write()`s of a
  job and the mmaps succeed; the code looks at the result of neither (`nvhost.c:276`,
  `nvhost-nvmap.c:217`).

### 3.4 `NvhostJobs`, `CommandChannel`: `nvhost.c`, `cdma_parser.c`, `disasm.c`

`program` fixes the jobs and the contents of the command buffers; how many structures go into one
`write()` is free. `job` is the job under construction with the counters of what is still
expected, `hook` the loop in progress (`loop` over structures, `parse` over words), `classid` the
class a channel was left with, `d` the upload state of the disassembler. `CommandChannel` is the
hardware: it executes the words of the whole job when the job is flushed. It is external code,
modelled after the opcodes and registers libwrap itself names. `States` and `GatherStates` are the states it
goes through, word by word and gather by gather.

- Known opcodes only; no `GATHER`; a command buffer ends with the last word of an opcode (`OpcodesAt`); uploads
  start at instruction 0; fewer than 32 linker instructions; handles are not used again, and
  none is imported (`FROM_ID`). The conversion of ALU words for Tegra 3 (`to_114_alu_sched`) and
  all text are left out.

### 3.5 `VertexAsm`, `FragmentAsm`, `FragmentDisasm`, `LinkerAsm`, `Assemblers`

*Vertex* (`vertex_asm.y`, `vertex_disasm.c`, `vpe_vliw.h`). `asm` is the parser's static state: `pst` (what was read and not yet put away) and `instr` (the word
with its 128 bits); `said` are the pieces of text read since the last `;`, `program` the stored
instructions with the pieces each was made from. A piece is EXEC with its end flag, an option, a
vector operation or a scalar operation with destination and sources; `Read` runs the grammar's
actions for it in their order and ends in `Refuse` where they have `PARSE_ERROR`.
`vpe_vliw_disassemble` gives the pieces the disassembler prints for a word, so `Assemble` can read them again.

- `pst.source` stands for `type`, `index`, `swizzle`, `negate` and `absolute`, `relative` for the
  enable bits of relative addresses, `used` for `uniform_used` and `attribute_used`.
- The bits `iaddr` shares with the swizzle of rC are shared in the model too.
- The scanner gives the tokens the pieces stand for; names and constants are in `Programs`.

*Fragment* (`fragment_asm.y`, `fragment_asm.h`, `fragment_disasm.c`). A program is a list of batches,
each a line of PSEQ, MFU, TEX, ALU, the complement and DW in this order. `asm` has the arrays of
all batches and their schedules, as the parser's static variables do; a batch finds its MFU and
ALU instructions through address and count. `FragmentDisasm` cuts the words of a shader into
batches again and prints them as pieces. Numbers are in millionths, as "%f" prints them; `build`
says what a negative float becomes as unsigned, which C leaves open: "wraps" on x86, "saturates" (0)
on Arm. Left out: Tegra114's layout of the ALU schedule.

*Linker* (`linker_asm.y`, `linker_disasm.c`). One LINK line after the other, and its disassembly.

### 3.6 `Programs`, `Drawing`: `grate-asm.c`, `shader.c`, `grate-3d-ctx.c`, `grate-3d.c`

`Programs` reads the lines of the sections of names and constants, with the grammars' checks, and
gives the symbols, the words of constants and the linked program. `Drawing` has the context `ctx` field
by field, every setter as an action, and in `drawn` the registers a draw writes: a job starts
with a reset, so what is not written is not there. `asked` is a ghost: what the caller gave last, in
its own terms (value of a named component, side to cull, buffer of a target).

- The tables of a vertex text are stated by what a line does, not line by line: a text is refused when
  a line has a number beyond the limit or fills a place that a line before it fills
  (`VertexLineRefused`), and else a place holds what its line says (`Filled`). A fragment text may set a
  constant twice, so it is read line by line (`FragmentTables`).
- Two attributes may have one name. The lookup finds the one with the least number, whose buffer is
  what `asked` holds.

- A half register holds the number and which half it belongs to, so a value in the wrong half or
  shifted wrongly is another one.
- Left out: the words of the reset, uniforms of several components in fragment programs (no
  assembler symbol has any; only the first location would be checked, `grate-3d-ctx.c:344`), shaders
  compiled by Cg. A caller that draws has bound a program; a tiled texture is refused only after
  its pointer was pushed (`grate-3d.c:774`) and stays out.

### 3.7 `Images`, `Pictures`, `Surfaces`: `host1x-gr2d.c`, `host1x-pixelbuffer.c`, `host1x-framebuffer.c`, `grate-texture.c`

`mem` is memory byte by byte: a byte of a pixel is its colour and which of its bytes it is, so bytes
that were torn apart or put together wrongly show. `surfaces` are framebuffers and textures with
their pixel buffer and mipmap. The 2D unit is external: it moves one unit after the other in the
order its directions say, which is what makes a copy over itself right or wrong. Each call of the
library is one action; it may be refused by the code's checks.

Left out, because what the unit does is not in the repository: a copy over itself that also turns
the image over, scaling that also does (the base is computed from the reduced height,
`host1x-gr2d.c:554`), scaling of a single line or column. Left out because the code is not
meant for it or refuses it later: tiled and compressed mipmaps, clears of compressed formats,
`surface_blit` to another place of a tiled buffer than its corner (`sb_offset` counts 16 *
`pixels_per_line`, not 16 * `pitch`, `host1x-gr2d.c:425`), colours of BGRA, `grate_texture_set_max_lod`,
loading of S8 and D16. Calls that fail leak: a job (`host1x_gr2d_clear_rect`), a staging buffer
(`load_data`), a mipmap (`grate_texture_free`). Saving is modelled without guards, which the image saved
would begin with (`host1x-framebuffer.c:213`): with `--guard`, and always with `--nodisplay`.

The ratios of a scaling are in 6.12 fixed point, rounded to the nearest, as the unit's registers
hold them (`FLOAT_TO_FIXED_6_12`). From 5 columns to 4 the ratio 4/3 becomes 5461/4096, and the last column is taken
at 3.9998: from column 3, not 4. The promise (`Near`) therefore does not say that the ends of the lines meet. It says that
the point taken covers the place where it would be if they met, give or take half a unit of the last
place for each step, that the first point is taken from the first, and that nothing is off when the
size stays. A point the unit filters from two stands for the first of them. Ratios
at the limits (64 and 1/4096) are in the model but in no case of the run: the rounding error of so many
steps, or the clamped ratio, has nothing to do with a picture any more. `grate_create_texture` refuses
formats outside `TextureFormats` (grate-texture.c:45-58); one caller asks for RGB565.

### 3.8 `Displays`: `grate.c`, `display.c`, `host1x-drm.c`, `nvhost-display.c`, `x11-display.c`

`at` is the kernel call the thread makes next; `shown` is what the controller reads, `pending` the
flips it was asked for, `events` what it has put into the DRM file's queue; `VBlank` is the
controller's step. `front` and `back` are swapped before anything is shown, as in the code. `slipped`
and `failed` are ghosts: the library tells its caller nothing of a call that failed or gave up.

- The kernel finishes a pending flip before `drmModeSetCrtc` returns, refuses a second page flip
  or does not support any, and does flips of tegra_dc in order.
- A `select()` that is interrupted is left out: the library installs no signal handler. (The set
  would be left as it was and `drmHandleEvent` would block.)
- Left out: choice of output, mode and plane, reflection and rotation, DRI2, closing.

## 4. The runs

| run | instance | what is checked |
|---|---|---|
| `file_table` | two threads, four numbers, three device files, two slots: all calls | lookup, leaks, hooks, release |
| `file_table_reuse` | three threads, numbers given out again before `file_close` is through; only open and close | lookup |
| `record_replay_one_thread` | eight kinds of program: the mirror is exact and the memory of a job right | six invariants |
| `record_replay_two_threads` | three kinds of program with two threads: the mirror is exact unless a record is torn | three properties |
| `record_replay_torn` | another thread's `open()` between header and gathers of a job | finding |
| `host1x` | DRM's two interfaces and nvhost, failing calls, wraps and imports | six properties, one of them a refinement |
| `host1x_refused_submit` | a refused submit on the new interface | finding |
| `nvhost_jobs` | 512 streams of commands, and four programs with two channels | three invariants, one liveness property |
| `assemblers` | vertex: every two operations over eleven sources, in both orders; fragment: every field at its boundaries; linker: every form of a line; each up to one instruction more than fits | nine invariants |
| `drawing` | five callers with one or two programs, seven texts that are refused | three invariants |
| `surfaces` | eight callers: copies over themselves, layouts, depths and blocks, scaling, mipmaps with and without guards, saving | one invariant, one refinement |
| `displays` | every display, with and without vsync, two framebuffers, calls that fail or are late | one invariant, one liveness property |

### 4.1 What they show

*The table.* Between calls a descriptor is found exactly when it should be, nothing leaks, and both
hooks of an ioctl see the kernel's file. This depends on one thing the kernel does not promise:
that a number is not handed out again between the kernel's part of `close()` and `file_close`.
With duplicates it is needed. Without them (`file_table_reuse`) it is not: a new file is put at the end of the list, so the
late `file_close` of the old number still meets the old file first.

*The recording.* With one thread every record is accepted, the replay has the program's objects,
and a job finds the program's memory, in spite of ids that wrap, checksums and buffers freed and
created again. Two exceptions are stated in `JobSeesProgramsMemory` because the code makes them:
of a buffer with more than `FewPages` pages only the sampled pages are promised, and a page the
GPU has written may be kept if its checksum is that of an older recording. With two threads only
a record that `open()` or `close()` writes into another one can be refused. A leave hook of GEM_CLOSE that runs
after its handle was given out again (host1x.c:747) drops the older entry of the handle, so the new buffer stays.

libwrap kills a program of one thread that names only handles it has for three reasons
(`Excused`), all of which occur in the run: it maps a buffer for the first time through a duplicate
after it has closed the first descriptor (host1x.c:538 with utils.c:163; the program does nothing wrong); zlib is
given a page that does not compress (recorder.c:302); the recording cannot be written
(recorder.c:50). `ProgramSurvives` says that there is no fourth. The picture of the program is followed while it
shows a framebuffer of a recorded format; while it shows another the replay keeps what it had, and
follows again from the next recorded one (`DisplayFollows`).

*libhost1x.* Handles and mappings have one owner, a job names exactly the objects it was built for
and a wait that succeeds covers every accepted job, on all drivers, except for a submit that fails
on the new interface.

*nvhost.* However a job is cut, libwrap reports the writes the channel makes with their class, shows
the shaders a draw uses, and no hook runs for ever.

*The assemblers.* What an instruction cannot hold (two registers in rC, two constants, two
attributes, two address registers) is refused, every value fits its bits, an operation writes what
its text says, and nothing leaks into the next operation, instruction or batch. The disassembler's
text assembles to the same words. The properties are as strong as the code allows; what they leave
out is what it does not keep, each behaviour seen in the model while the property was being found:

- `VertexModifiersKept` lets a source have a modifier that the source before it had: `abs(r0)`, `-r1`
  is read as `abs(r0)`, `-abs(r1)`, for only a plain source resets them (vertex_asm.y:928). Of two
  operations with a third source it speaks of neither: the later one sets minus, `abs()` and
  swizzle for both.
- `VertexAddressesNamed` speaks of plain sources. The address of one with a modifier is not entered
  (vertex_asm.y:931), and a plain `c[1]` beside `c[A0.x + 1]` becomes relative.
- `VertexReassembles` leaves out the same sources, SFL (no name), SSG and TXL (printed with a source the
  grammar does not take) and bit 120 (not printed): `TakenBack`. A branch target and the swizzle of
  rC overwrite each other, whichever is read later.
- `OperandsNamed` leaves out u32 to u63: the check against 63 lets them through, and they are the
  numbers of the condition registers and of what follows (`Exists`).
- `FragmentReassembles` leaves out full programs, which the disassemblers refuse as too long
  (grate-asm.c:579), constants that lose their last step through "%f" or their sign where a
  negative float becomes 0, modifiers that are or-ed (`x2` and `x4`), a minus or factor on rD, which
  is dropped, and the complement, which is not printed. `alu_buffer_size` and
  `pseq_to_dw_exec_nb` are not among a shader's words and are printed as 1.
- `LinkerReassembles` leaves out `export16`, which becomes `export0`, since the limit is put to the swizzle
  (linker_asm.y:127), and a line of zeroes, which is taken for the end.

*Drawing.* What a caller gives by name reaches the register the text names, half by half and
component by component, and only it; the side culled is the side asked for in every order of calls;
no job has a target, test or attribute without the buffer last given for it. `BuffersBound` says nothing of an
enabled target that was never bound, which is left out of the job.

*Surfaces.* No call writes outside its buffers or into a guard, and every accepted call does to the
picture what it says, whatever the layout, format, overlap or level. One weakness is part of the
promise: a mipmap that is refused may stay, blank (`Refused`).

*Displays.* With two buffers a program draws out of sight, on every display, unless a call failed or
gave up: these errors never reach the program. On tegra_dc and for overlays the next call that succeeds
puts things right. A page flip on KMS that takes more than a second does not: its event stays in the
queue, the wait of each later flip takes the event of the one before, and the program draws one
frame ahead, into the buffer on the screen, until a flip is refused and a mode set waits for it
(host1x-drm.c:434). The last frame is shown all the same.

### 4.2 Findings

1. `open()`/`close()` write records without `ioctl_lock` (recorder.c:538): a job's record is torn.
2. `drm_channel_submit2` returns 0 when the kernel refuses the job (host1x-drm.c:1034).

### 4.3 Bounds

- *FileTable*: two threads are enough for any overlap of two calls; three files and four numbers
  allow a list whose middle is removed, two files with duplicates, and a closed number taken again.
  Two slots let the table overflow (the code has eight).
- *RecordReplay*: ids are modulo 3 instead of 2^16, so they wrap and collide with live objects'
  ids as the real ones would after 65536 calls; `max_ids` bounds how many are given. Two handles,
  two objects, two framebuffers: one to keep, one to free and create again. With one thread a third
  framebuffer is of a format that is not recorded; with two it is one of the two. The five-page buffer
  is above `FewPages` = 4, the code's limit, so the sampling happens. A page has two values, one
  of which does not compress. Of the eight programs with one thread `Rendering`, `Unzipped` and `BigBuffers` run
  jobs, `Displaying` shows framebuffers, `Sharing` has two files and imports, `Mistaken` names handles it does not
  have, `Zipped` compresses with zlib, and `Duplicating` closes first descriptors on a disk that may be full.
- *Host1x*: three buffers are an original, its import or another one, and a wrap; two mapping
  slots are the code's; two mapping ids per channel run out. Sizes are 1 and guards 1, so a wrap may
  begin inside, at and behind the end. Jobs are bounded by `max_jobs` (3, 2, 1 according to the
  driver): two make the fence move, three let a failed wait be followed by two more jobs.
- *NvhostJobs*: every triple of eight pieces, so every piece follows and precedes every other one
  in the same command buffer, the next one and the next job. `Limit` 2 (the code's are the sizes of
  its instruction arrays) lets an upload exceed its array. A `write()` has any number of the job's
  structures.
- *Assemblers*: the eleven vertex sources are two of each kind that may conflict (two registers, two
  constants, two attributes, addresses through several registers), three with modifiers, and one
  undefined. One operation of each form (two sources A and B, A and C, three, none) stands for the
  others, which differ only in name. Fragment texts vary one field at a time, at its limits and next
  to them, and have batches whose instructions all differ. `VertexLimit` 2, `FragmentLimit` 4 and
  `LinkerLimit` 3 are reached and passed (256, 64 and 32 in the code).
- *Drawing*: registers of two components, six for vertices and two for fragments, two attributes,
  three targets (target 2 is the stencil buffer), two textures. A matrix fills two registers, so it
  reaches the limit from a place where a vector does not.
- *Surfaces*: tiles are 2 bytes by 2 lines instead of 16 by 16, pitches are aligned to 4 (256, and 16
  for a level), guards are 2 bytes, pixels have 2 bytes or 1, a compressed block is 2 by 2. Images
  are 2 to 6 pixels wide and odd, so that rounding shows in both directions. Four to six calls (`max`)
  create two surfaces, fill them, copy twice.
- *Displays*: two framebuffers of one buffer or two; `MaxFlips` 2 bounds the queue of tegra_dc, enough
  for a flip that is late behind another.

*Symmetry* is used for values that only occur in equality: threads, descriptors and files in
`FileTable`, objects and threads in `RecordReplay`, buffers, handles, objects, mapping ids and
channels in `Host1x`. No property names one of them, and no run with symmetry has a liveness
property.

*Deadlock* is checked in `FileTable` and `Displays`, whose programs can always go on. Elsewhere the
programs, texts, ids, calls or jobs are bounded and the model may stop.

### 4.4 Fairness

`NvhostJobs` assumes weak fairness of `HookStep(f)` for each channel. A hook runs in the thread that
called `write()`, takes no lock that another hook could keep, and waits for nothing. `Displays` assumes
weak fairness of `Step`, for each kernel call returns and each wait has a timeout, and of `VBlank`, for
a controller that is on goes on; it does not assume that a flip comes in time, nor that the
program ever calls again.
The other modules state safety only: the traced program may stop at any point, the GPU may hang,
and nothing in the code forces either.

## 5. Proofs

Constants have named assumptions in the module that declares them (`NoneAssumption`, `ProgramsAssumption`, ...): types, and that
`None` is none of the values it is compared with. TLC evaluates them in every run.

`FileTableProofs` proves, for any number of threads, numbers, files and slots,

| theorem | statement |
|---|---|
| `InductiveInvariant` | `Spec => []IInv` |
| `TypeCorrect` | `Spec => []TypeOK` |
| `LookupCorrect` | `Spec => []LookupMatchesKernel` |
| `NoEntryLeaks` | `Spec => []ListedFilesAreReachable` |
| `HooksCorrect` | `Spec => []HooksSeeTheKernelsFile` |
| `ReleaseCorrect` | `Spec => ReleasedOnlyWhenClosed` |

from `SlotsAssumption`, `NamesAssumption` and `NoEarlyReuse` (`Reuse` is FALSE, or there is one thread): a number is
not given out while its `close()` is between the kernel and `file_close`. `file_table_reuse` shows
the part that survives without this assumption.

The properties are not inductive: they speak of moments with no call under way, or of one call. What
makes them inductive is how the table differs from the kernel *during* calls. `EntryInv` says an
entry tracks descriptors of its file or one being closed; `KernelInv` that a descriptor of a
device is tracked, unseen, or on its way in; `OneEntryInv` that the order of the list does not
matter; `OpenInv`, `CloseInv`, `UseInv`, `DupInv` what a call under way knows; `ExclusiveInv` that no
two calls create or close the same number. The last needs `NoEarlyReuse`. The proof has one lemma per
action. `file_table` checks the properties; `IInv` itself is not an invariant of a run.

The other proofs are laid out the same way: the inductive invariant is written at the end of the
component's module, TLC finds no violation of it on the instances of section 4, and the proof has one
lemma per action and under it one step per conjunct that the action disturbs.

### 5.1 `Host1xProofs`

For any number of buffers, handles, objects, channels, mapping ids, sizes and guards, all three drivers
and any failing calls:

| theorem | statement |
|---|---|
| `InductiveInvariant`, `TypeCorrect` | `Spec => []IInv`, `Spec => []TypeOK` |
| `OwnershipCorrect` | `Spec => []HandlesOwned` |
| `RememberedCorrect` | `Spec => []CachesTrue` |
| `WrapCorrect` | `Spec => []WrappedInside` |
| `TargetsCorrect` | `Spec => []JobsHitTheirTargets` |
| `CommandsCorrect` | `Spec => []CommandsIntact` |
| `Refinement` | `RefusalsTold` implies `Spec => KeepsPromise` |

`HandleInv` gives every open handle one buffer that is not a clone, and every clone the handle of its original;
`MappingInv` says that two buffers share a channel mapping only if they share a handle, which is why
freeing one of them does not take the other's away; `SyncptInv` and `FenceInv` tie the fence the library
waits for to the length of the queue; `QuietInv` says a channel whose words are not copied has an empty
queue unless its last job is being waited for or a wait was given up. `RefusalsTold` (on the
new interface the kernel refuses no submit) is needed: `host1x_refused_submit` is the counterexample.

### 5.2 `RecorderProofs`, `ReplayProofs`, `MemoryProofs`

`ShadowCorrect` states `Spec => []("bad" \notin program.ops => ShadowFollowsKernel)` for any number of
threads, files, handles and objects. A program with "bad" names handles it does not have. It is left out because
one thread's GEM_CLOSE that the kernel refuses, of a handle that another thread is just given, drops
the other's entry: the leave hook runs whether or not the call succeeded (syscall.c:316). `HandleInv`
is what makes the property inductive: while calls are under way a handle is listed once for its own
buffer and once for each earlier one whose GEM_CLOSE has not come back, and the newest entry is
its own. The hook's search from the old end of the list then always drops one of the others.

`SurvivalCorrect` states `Spec => []ProgramSurvives` for one thread and any number of files, handles, objects and
calls, with any compression, duplicates and a disk that may be full: whatever kills such a program is one of the three reasons of `Excused`,
and each reason comes with what it takes (a first descriptor that is closed, a page that zlib cannot
pack, a full disk). It is stated for one thread because with two one may open a file while
the recorder is half started and get no context (`NullCtx`), or map a handle created again while the
older GEM_CLOSE of it has not come back. `SInv` adds to `ShadowInv` that
what the thread is using is listed and what it has mapped is mapped in libwrap (`UsesInv`, `MappedInv`), and
that every open file has a context (`ContextInv`).

`ReplayProofs` is about both sides. For one thread, and any number of files, handles, objects, framebuffers,
ids, sizes of buffers and calls, it proves

| theorem | statement |
|---|---|
| `ReplayInvariant` | `Spec => []RInv` |
| `ReplayCorrect` | `Spec => []ReplayAccepts` |
| `MirrorCorrect` | `Spec => []ObjectsMirrored` |

Neither property is inductive: a hook changes libwrap's lists at once and its records follow one by one, so
while it writes them the replay lags behind. The invariant therefore speaks of `Unread`, the
records the replay holds without having carried them out and those the thread has still to write.
`MirrorInv` says, of each of the three lists of the replay, that the records of `Unread` which create and
destroy turn it into the live ids of the program (`Mirror`); `RecordsInv` that `Unread` is whole, each
payload behind the header that announces it (`Complete`), and that a record names only what the program
still has (`RecordInv`), so that no `assert()` of a handler can fail; `FbInv` that each framebuffer of the program is in the
replay or about to be. `OpenInv` keeps an id that is free at the start of a call free until its leave hook has given it
out, `StartInv` follows `record_start`, and `SizesInv` says that a buffer has finitely many pages, without
which a capture would not be a list of records at all. The proof has one lemma per handler of the
replay and per hook of libwrap, and two that all of them go through: `ProgramStep`, for what a step of the
program must write, and `MirrorOn`, for what carrying out records leaves to be done. `CompleteJob` says that
the captures, the header, the gathers and the relocations of a job are whole whatever was captured.

`MemoryProofs` proves, for one thread and under the same generality,

| theorem | statement |
|---|---|
| `MemoryInvariant` | `Spec => []MInv` |
| `JobMemoryCorrect` | `Spec => []("bad" \notin program.ops => JobSeesProgramsMemory)` |

`JobSeesProgramsMemory` speaks of the moment at which the replay is about to read a job. Between jobs the memories
differ: the program writes without libwrap seeing it, and the replay has what was recorded at the last capture. What
never changes is that libwrap's checksums say what the replay has. `PagesInv` says so for each page of each
buffer the program has (`Recent`): the replay's page is the one the checksum stands for, or its record is among
`Unread`, or (with checksums) the GPU has written it, or the replay has run the job and the program's has yet to
reach the kernel. While the records of a job are being written out (`Capturing`) the checksums of the promised pages are also those of the
program's memory, because nothing runs between the capture and the job's records but the replay itself.
`ContentsInv` ties the records of `Unread` to the shadow: a creation means that all checksums are
those of empty pages, a page's payload is what its checksum stands for, and nothing is loaded behind a job (`JobLast`). When the
job comes next, no load is left, so the replay's page is the checksum's, which is the program's. `MInv` uses
`IInv` (the entry found for a handle is that of its buffer) and `RInv` (ids are unique, so a record reaches the one buffer).
`NextMemory` has one lemma per action; most go through `SameMemory`, `ShadowMemory` or `EditMemory`, for steps
that leave memory alone, and the capture through `JobContents`, which says what the records of a job hold,
whatever was captured. "bad" is left out as in `ShadowCorrect`. In the model a checksum is the page itself: that two
pages may have one CRC is not modelled.

`MemoryProofs` also proves, for one thread,

| theorem | statement |
|---|---|
| `ScreenInvariant` | `Spec => []DInv` |
| `DisplayCorrect` | `Spec => [](Displayable => DisplayFollows)` |

A framebuffer is known by three names: the kernel's id, libwrap's entry (buffer and context) and the address of the
replay's structure. `KernelFbInv` ties the first two, `ReplayFbInv` the last two up to the one record in `Unread`
that adds or removes a framebuffer, and `ScreenInv` says what is shown: the hook writes DISP_FRAMEBUFFER before the
kernel shows the framebuffer, and DEL_FRAMEBUFFER before the kernel drops it, so during the call replay and
kernel differ. `DisplayFollows` speaks of the moments at which the kernel shows a framebuffer of a recorded format. An address that `calloc()` gives out again cannot be taken for the displayed one because the removal resets the belief
(`destroy_framebuffer`). A framebuffer of a format that is not recorded has the first name alone: its hooks write
nothing, and the invariant is about the others (`OtherFbs`). `ContextIdsInv` follows the ids of contexts. `Displayable` says which programs the theorem is about:
- they have one framebuffer on a buffer and keep its handle: libwrap stores the framebuffer's id in the entry of the
  handle, which a second framebuffer overwrites and GEM_CLOSE drops;
- they name only handles they have;
- if they close files, they open the device at most 65536 times: the replay keeps the framebuffers of a
  context that is gone (`destroy_context` in replay.c does not touch them), so a later context with the same id finds
  them, and TLC then shows the wrong geometry on the overlay.

The theorems rest on a restriction of the model (`Fresh`): an id of a record is not given out while an
object still has it from 65536 ids ago. They are stated for one thread: with two, `ReplayAccepts` fails
(`record_replay_torn`), and `ObjectsMirrored` is only checked (`record_replay_two_threads`). `RInv`,
`MInv` and `DInv` are invariants of the instance of `record_replay_one_thread` as well; the run itself lists only what they imply.

### 5.3 `NvhostProofs`

`JobsCorrect` states `Spec => []JobAsSent` for any programs, handles, channels and jobs, and any cut of a job into
write()s. The invariant says that the structures still to be written, those the hook holds and
the four counters add up to the job (`RestInv`, `CountersInv`), that each array is filled up to its counter
(`ContentsInv`), and that libwrap has the contents of a handle, in its mapping or its copy (`HandlesInv`).
`ProgramsAssumption` says that a command buffer lies inside its handle's contents.

`WritesCorrect` and `ShadersCorrect` state `Spec => []WritesReported` and `Spec => []ShadersShown` for any
programs, channels and sizes of the instruction memories. Both speak of a job that is flushed; the
invariant `ReportsInv` holds between any two words. It says that libwrap has kept, shown and reported what the
channel will have when it has executed the words parsed so far (`Reached`), that the place the
parser is at is the place of an opcode (`ParseInv`), and that what libwrap keeps of an upload is within the
memories (`ChannelOK`). The proof goes from one register write (`WriteStep`) to an opcode with all its
words (`OpcodeRun`) to one lemma per action. libwrap takes an opcode with its words in one go and the
channel one word at a time: `OpcodeRun` is by induction over the words, with `FromZero`.
`LimitAssumption` says that the sizes are numbers. `ProgramsAssumption` says here that a command
buffer consists of whole opcodes other than `GATHER` and leaves the second word of the 32nd linker
instruction alone, as section 3.4 restricts the model.

### 5.4 `DisplaysProofs`

`DrawingHidden` states `Spec => []HiddenWhileDrawn` for any framebuffers, machines and options, and `TypeCorrect`
the type. The property speaks of moments between calls; the invariant adds what is pending while the thread
waits (`WaitInv`), that nothing is while it does not (`QuietInv`), and which display a call belongs
to (`CallInv`).

### 5.5 `DrawingProofs`

`CullCorrect`, `BuffersCorrect` and `ValuesCorrect` state `Spec => []CullsWanted`, `Spec => []BuffersBound` and
`Spec => []ValuesReachRegisters` for any callers and texts and any number of targets, attributes and
registers. `FaceInv` keeps the winding in
step with the side asked for; `TargetsInv` and `AttributesInv` keep each buffer in step with what was given;
`ProgramsInv` says a program is what its text links to, from which `LocationOfName` derives that
the lookup of a name finds the line that declares it.

`ValuesInv` (`InductiveValues`) says that every component and every half register of the context has the value
given last, or the constant of the text, or 0. For a vertex program the lines fill places one by one
(`LinesOfText`); a uniform's words reach the components `at * VectorSize` onwards, which are those of the
vectors it covers (`Component`, `UniformWords`). For a fragment program the proof goes line by line
through the tables the parser builds (`FragmentStates`): a slot has the one line that fills it
(`SlotsFilled`), and a half the number of the last line that sets it (`HalvesGiven`). `HalfOfName` says that
the symbol with the least slot belongs to the first half declared with the name, `PutHalf` that a
write leaves the other half alone.

`CasesAssumption` gives callers the types of the C functions, and texts those of the scanner: numbers are
unsigned (it reads no sign), a layout is one of the two there are (include/host1x.h:149), the lines of a fragment
program are of the five sections, a component is x to w, and `None` is no word and no entry of a table.

### 5.6 What is only model-checked

- `RecordReplay`: `JobSeesProgramsMemory` and `DisplayFollows` for a program that names handles it does not have; and
  with two threads `ObjectsMirrored` and `RefusedOnlyWhenTorn`, whose invariant would have to say where another
  thread's record may land.
- `Assemblers`: its nine invariants, about parsers that are folds over pieces.
- `Surfaces`: `GuardsIntact` and the refinement `KeepsPictures`; the 2D unit is a fold over bytes.
- `FileTable` with `Reuse`: what survives there holds with open and close only.

*Out of the prover's reach*: `HookReturns` and `LastFrameStays` (liveness under fairness), and what the
community modules' folds compute for every input. Induction over numbers is possible where it can be
stated without an operator parameter: `LeastNat` and `LeastNumber` give the least counterexample,
and `FromZero` carries a set of numbers upwards.

## 6. Not modelled

- What only prints or converts: hex dumps, register names, text of disassemblies, PNG and DDS
  loading, compression to ETC1, matrices, profiling, fonts, option parsing, the command line tools.
- `cgdrv.c`: one hook that keeps no state. `host1x-dummy.c`: every call succeeds. `host1x-gr3d.c`: the
  constant words of the reset and a sample triangle.
- `libcgc` and `shader-cgc.c`: a sequential reader of a foreign container, without state between calls.
- Of the modelled libwrap parts: hooks that only print (syncpoints, tiling), the nvhost-ctrl hooks,
  handles freed or imported over nvmap, single stepping of the replay, command words outside the
  known opcodes (7 to 13 have no handler that advances: cdma_parser.c:346), `GATHER`, uploads that do
  not start at instruction 0 (disasm.c:180).
- Opening, closing and probing of the drivers; DRI2; `grate_framebuffer_free` of a framebuffer without
  back buffer, which dereferences NULL (grate.c:305).
- `tests` and the sample shaders, which need the hardware; they were read for how the libraries are used.

Type invariants (`TypeOK`) are stated in the modules; those of `FileTable`, `Host1x` and `Displays` are proved.
