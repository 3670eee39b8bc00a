------------------------------ MODULE Pictures ------------------------------
(***************************************************************************)
(* What a caller of the 2D unit and of the textures relies on: a surface   *)
(* shows an image and may have smaller ones, its mipmap.  A call changes   *)
(* the pictures it is about, all at once, and no other.                    *)
(***************************************************************************)
EXTENDS Images

CONSTANTS Calls,   \* what may be asked
          Texels,  \* of a format: width and height of a block of one colour
          None

VARIABLES pictures,  \* of each surface: [image, levels, texel]
          saved,     \* the picture that was saved last
          done       \* the call that was accepted last, or None

\* The effect of a call on the pictures.
Shows(s, image) == pictures' = [pictures EXCEPT ![s].image = image]
Has(s, levels)  == pictures' = [pictures EXCEPT ![s].levels = levels]

Effect(c) ==
  CASE c.op = "create" ->
         pictures' = (c.s :> [image |-> Blank(c.w, c.h), levels |-> <<>>, texel |-> Texels[c.format]])
                       @@ pictures
    [] c.op = "free"  -> pictures' = [s \in DOMAIN pictures \ {c.s} |-> pictures[s]]
    [] c.op = "clear" -> Shows(c.s, Filled(pictures[c.s].image, c))
    [] c.op = "blit"  -> LET new == pictures'[c.d].image IN
         Shows(c.d, new) /\ IsCopy(new, pictures[c.s].image, pictures[c.d].image, c)
    [] c.op = "load"  ->
         LET p == pictures[c.s] IN
         Shows(c.s, Painting(Width(p.image), Height(p.image), c.seed, p.texel))
    [] c.op = "generate" -> LET new == pictures'[c.s].levels IN
         Has(c.s, new) /\ AreLevels(new, pictures[c.s].image)
    [] c.op = "level" ->
         LET image  == pictures[c.s].image
             levels == IF pictures[c.s].levels = <<>> THEN BlankLevels(image)
                       ELSE pictures[c.s].levels
             l      == IF c.level > MaxLevel(image) THEN MaxLevel(image) ELSE c.level
         IN Has(c.s, [levels EXCEPT
              ![l + 1] = Painting(LevelWidth(image, l), LevelHeight(image, l), c.seed, <<1, 1>>)])
    [] c.op = "save" -> UNCHANGED pictures

Init == pictures = <<>> /\ saved = None /\ done = None

Call == \E c \in Calls :
          /\ done' = c
          /\ Effect(c)
          /\ saved' = IF c.op = "save" THEN Upright(pictures[c.s].image) ELSE saved

\* A call that is refused leaves every picture; only that of a mipmap may
\* leave one that is still blank.
Refused ==
  /\ done' = None
  /\ UNCHANGED saved
  /\ \/ UNCHANGED pictures
     \/ \E s \in DOMAIN pictures :
          pictures[s].levels = <<>> /\ Has(s, BlankLevels(pictures[s].image))

Next == Call \/ Refused

Spec == Init /\ [][Next]_<<pictures, saved, done>>

=============================================================================
