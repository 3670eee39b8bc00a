----------------------------- MODULE MCSurfaces -----------------------------
(***************************************************************************)
(* Instances of Surfaces for TLC: sizes are divided by 4 and more, tiles   *)
(* are 2 bytes by 2 lines; images have odd sizes, so that tiles and        *)
(* alignments matter.                                                      *)
(***************************************************************************)
EXTENDS Surfaces

Format(bytes) == [bytes |-> bytes, compressed |-> FALSE, align |-> 4, tw |-> 1, th |-> 1]
MCFormats == [RGBA8888 |-> Format(2), RGB565 |-> Format(1), S8 |-> Format(1),
              DXT1 |-> [bytes |-> 4, compressed |-> TRUE, align |-> 4, tw |-> 2, th |-> 2]]

Create(s, kind, w, h, format, layout) ==
  [op |-> "create", s |-> s, kind |-> kind, w |-> w, h |-> h, format |-> format, layout |-> layout]
Texture(s, w, h, layout) == Create(s, "texture", w, h, "RGBA8888", layout)
Clear(s, x, y, w, h)     == [op |-> "clear", s |-> s, x |-> x, y |-> y, w |-> w, h |-> h, color |-> 90]
Load(s, seed)            == [op |-> "load", s |-> s, seed |-> seed]
Copy(s, d, sx, sy, dx, dy, w, h, flip) ==
  [op |-> "blit", via |-> "blit", s |-> s, d |-> d, sx |-> sx, sy |-> sy, dx |-> dx, dy |-> dy,
   w |-> w, h |-> h, dw |-> w, dh |-> h, flip |-> flip]
Scale(via, s, d, w, h, dx, dy, dw, dh, flip) ==
  [op |-> "blit", via |-> via, s |-> s, d |-> d, sx |-> 0, sy |-> 0, dx |-> dx, dy |-> dy,
   w |-> w, h |-> h, dw |-> dw, dh |-> dh, flip |-> flip]
Of(op, s)   == [op |-> op, s |-> s]
Level(s, l) == [op |-> "level", s |-> s, level |-> l, seed |-> 60]

Case(guard, made, max) == [guard |-> guard, calls |-> made, max |-> max]

\* Lines and columns moved within one buffer, over themselves.
Within(layout) ==
  Case(TRUE, {Texture("a", 3, 3, layout), Load("a", 10)}
               \cup {Copy("a", "a", sx, sy, dx, dy, 2, 2, FALSE) : sx, sy, dx, dy \in 0 .. 1}, 4)

\* Between layouts, upside down, at the edges and past them.
Layouts ==
  Case(TRUE, {Texture("a", 3, 3, "LINEAR"), Create("b", "framebuffer", 5, 3, "RGBA8888", "TILED_16x16"),
              Load("a", 10), Load("b", 30), Of("free", "a"), Of("free", "b"),
              Copy("a", "b", 0, 0, 0, 0, 3, 3, FALSE), Copy("a", "b", 1, 0, 3, 1, 2, 2, TRUE),
              Copy("b", "a", 2, 1, 0, 0, 3, 2, FALSE), Copy("b", "a", 2, 1, 1, 1, 3, 2, FALSE),
              Clear("a", 1, 2, 2, 1), Clear("b", 4, 1, 1, 3), Clear("b", 3, 1, 2, 2),
              Copy("b", "a", 0, 0, 0, 0, 2, 4, TRUE)}, 5)

\* Bytes for each pixel, and blocks of pixels.
Depths ==
  Case(TRUE, {Create("a", "texture", 4, 4, "DXT1", "LINEAR"), Create("b", "texture", 3, 3, "DXT1", "TILED_16x16"),
              Create("s", "texture", 3, 2, "S8", "TILED_16x16"), Create("s", "framebuffer", 2, 2, "S8", "LINEAR"),
              Load("a", 10), Load("b", 30), Clear("s", 1, 1, 2, 1),
              Copy("a", "b", 0, 2, 0, 0, 2, 2, FALSE), Copy("a", "b", 1, 0, 0, 0, 2, 2, FALSE),
              Copy("a", "a", 0, 0, 2, 2, 2, 2, FALSE), Copy("a", "a", 0, 0, 0, 2, 4, 2, FALSE),
              Copy("b", "a", 0, 0, 2, 2, 2, 2, FALSE), Copy("s", "a", 0, 0, 0, 0, 2, 2, FALSE)}, 5)

\* Larger, smaller, and upside down at its own size.
Scaled ==
  Case(TRUE, {Texture("a", 4, 3, "LINEAR"), Create("b", "framebuffer", 6, 5, "RGBA8888", "LINEAR"),
              Create("b", "framebuffer", 3, 5, "RGBA8888", "TILED_16x16"),
              Create("b", "framebuffer", 6, 5, "RGB565", "LINEAR"), Create("b", "texture", 6, 5, "RGB565", "LINEAR"),
              Load("a", 10),
              Scale("texture_blit", "a", "b", 4, 3, 0, 0, 4, 3, TRUE),
              Scale("texture_blit", "a", "b", 2, 3, 1, 2, 2, 3, FALSE),
              Scale("texture_blit", "a", "b", 3, 3, 0, 0, 3, 5, FALSE),
              Scale("surface_blit", "a", "b", 4, 3, 0, 0, 6, 5, FALSE),
              Scale("surface_blit", "a", "b", 4, 3, 0, 0, 2, 1, FALSE),
              Scale("surface_blit", "a", "b", 4, 3, 0, 0, 3, 6, FALSE)}, 4)

Mipmaps(guard) ==
  Case(guard, {Texture("a", 5, 3, "LINEAR"), Create("s", "texture", 2, 2, "S8", "LINEAR"),
               Load("a", 10), Of("generate", "a"), Of("generate", "s"),
               Level("a", 1), Level("a", 7), Of("free", "a")}, 5)

\* Not with guards: the image that is saved then begins in the guard
\* (host1x-framebuffer.c:213).
Saves ==
  Case(FALSE, {Create("a", "framebuffer", 3, 3, "RGBA8888", "TILED_16x16"),
               Create("b", "framebuffer", 3, 2, "RGBA8888", "LINEAR"),
               Create("c", "framebuffer", 3, 2, "RGB565", "LINEAR"),
               Load("a", 10), Load("b", 30), Of("save", "a"), Of("save", "b"), Of("save", "c")}, 6)

AllCases == <<Within("LINEAR"), Within("TILED_16x16"), Layouts, Depths, Scaled,
              Mipmaps(TRUE), Mipmaps(FALSE), Saves>>
=============================================================================
