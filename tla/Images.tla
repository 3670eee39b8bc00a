------------------------------- MODULE Images -------------------------------
(***************************************************************************)
(* Pictures as functions of positions <<x, y>> to colours.                 *)
(***************************************************************************)
EXTENDS Integers, Sequences, FiniteSets, SequencesExt

AtLeastOne(n) == IF n > 1 THEN n ELSE 1

Rect(x, y, w, h) == (x .. x + w - 1) \X (y .. y + h - 1)
Blank(w, h)      == [p \in Rect(0, 0, w, h) |-> 0]
Width(image)     == Cardinality({p[1] : p \in DOMAIN image})
Height(image)    == Cardinality({p[2] : p \in DOMAIN image})

\* An image with another colour at each of its texels.
Painting(w, h, seed, texel) ==
  [p \in Rect(0, 0, w, h) |-> seed + (p[2] \div texel[2]) * w + p[1] \div texel[1]]

Filled(image, c) ==
  [p \in DOMAIN image |-> IF p \in Rect(c.x, c.y, c.w, c.h) THEN c.color ELSE image[p]]

\* A line of n points is scaled to m, and the point at i shows the one at q: the
\* first shows the first, and q covers the place where i is if the ends of the
\* lines meet, give or take 2^-13 of a point for each step.  Nothing is off when
\* the size stays.
Near(q, i, n, m) ==
  LET place == i * (n - 1) * 2 ^ 13
      point == (m - 1) * 2 ^ 13
      slack == i * (m - 1)
  IN /\ i = 0 \/ n = m => q = i
     /\ q * point <= place + slack /\ place <= (q + 1) * point + slack

\* c.w by c.h points of src put over c.dw by c.dh of dst, upside down when
\* asked, give the image new.
IsCopy(new, src, dst, c) ==
  /\ DOMAIN new = DOMAIN dst
  /\ \A p \in DOMAIN dst :
       IF p \notin Rect(c.dx, c.dy, c.dw, c.dh) THEN new[p] = dst[p]
       ELSE LET x == p[1] - c.dx
                y == IF c.flip THEN c.dh - 1 - (p[2] - c.dy) ELSE p[2] - c.dy
            IN \E q \in Rect(0, 0, c.w, c.h) :
                 /\ Near(q[1], x, c.w, c.dw) /\ Near(q[2], y, c.h, c.dh)
                 /\ new[p] = src[<<c.sx + q[1], c.sy + q[2]>>]

Whole(src, w, h) == [sx |-> 0, sy |-> 0, w |-> Width(src), h |-> Height(src),
                     dx |-> 0, dy |-> 0, dw |-> w, dh |-> h, flip |-> FALSE]

Upright(image) == [p \in DOMAIN image |-> image[<<p[1], Height(image) - 1 - p[2]>>]]

-----------------------------------------------------------------------------
(* Mipmaps: powers of two, each level half of the one before.              *)

Log2(n) == CHOOSE k \in 0 .. n : 2 ^ k <= n /\ n < 2 ^ (k + 1)
LevelWidth(image, l)  == AtLeastOne(2 ^ Log2(Width(image)) \div 2 ^ l)
LevelHeight(image, l) == AtLeastOne(2 ^ Log2(Height(image)) \div 2 ^ l)
MaxLevel(image) == LET w == Log2(Width(image)) h == Log2(Height(image)) IN IF w > h THEN w ELSE h

BlankLevels(image) ==
  [k \in 1 .. MaxLevel(image) + 1 |-> Blank(LevelWidth(image, k - 1), LevelHeight(image, k - 1))]

\* Each level is scaled from the one before.
AreLevels(levels, image) ==
  /\ DOMAIN levels = DOMAIN BlankLevels(image)
  /\ \A k \in DOMAIN levels :
       LET from  == IF k = 1 THEN image ELSE levels[k - 1]
           blank == BlankLevels(image)[k]
       IN IsCopy(levels[k], from, blank, Whole(from, Width(blank), Height(blank)))
=============================================================================
