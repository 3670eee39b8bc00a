----------------------------- MODULE MCDisplays -----------------------------
(***************************************************************************)
(* An instance of Displays for TLC: a framebuffer and another one, each    *)
(* with one buffer or two.                                                 *)
(***************************************************************************)
EXTENDS Displays
=============================================================================
