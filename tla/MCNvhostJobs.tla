---------------------------- MODULE MCNvhostJobs ----------------------------
(***************************************************************************)
(* An instance of NvhostJobs for TLC: every stream of three of the pieces  *)
(* below, cut into two jobs with two and one command buffers, and four     *)
(* programs that use both channels at once.                                *)
(***************************************************************************)
EXTENDS NvhostJobs

CONSTANTS cmds, cmds2, gr2d, gr3d

Two == [u \in Units |-> 2]

Op(op, reg, n) == [op |-> op, reg |-> reg, n |-> n, class |-> 0, mask |-> {}]
SetCl(class, reg, m) == [op |-> "SETCL", reg |-> reg, n |-> 0, class |-> class, mask |-> m]
Mask(reg, m) == [op |-> "MASK", reg |-> reg, n |-> 0, class |-> 0, mask |-> m]

Pieces ==
    {<<SetCl(GR3D, VP_UPLOAD_INST_ID, {0, 1}), Value(0), Value(1)>>,
     <<SetCl(81, 0, {}), Op("IMM", DRAW_PRIMITIVES, 0)>>,
     <<Op("INCR", VP_UPLOAD_INST_ID, 3), Value(0), Value(2), Value(3)>>,
     <<Op("NONINCR", 518, 2), Value(4), Value(5)>>,
     <<Mask(2052, {0, 2}), Value(6), Value(7), Op("CHDONE", 0, 0)>>,
     <<Op("IMM", FP_UPLOAD_INST_ID_COMMON, 0), Op("NONINCR", 1345, 1), Value(1)>>,
     <<Op("INCR", 768, 2), Value(8), Value(9), Op("IMM", CULL_FACE_LINKER_SETUP, 1)>>,
     <<Op("RESTART", 0, 0), Op("EXTEND", 0, 0), Op("IMM", DRAW_PRIMITIVES, 0)>>}

Reloc(n) == [struct |-> "reloc", n |-> n]
Cmdbuf(h, off, n, fill) == [mem |-> h, offset |-> off, words |-> n, fill |-> fill]

\* x \o y is one buffer, z and a draw the next.
Jobs(h, x, y, z) ==
    <<[cmdbufs |-> <<Cmdbuf(h, 0, Len(x), 1), Cmdbuf(h, Len(x), Len(y), 1)>>,
       relocs |-> <<Reloc(1)>>, waitchks |-> 1, version |-> 2],
      [cmdbufs |-> <<Cmdbuf(h, 0, Len(z) + 1, 2)>>, relocs |-> <<Reloc(2), Reloc(3)>>, waitchks |-> 0, version |-> 1]>>
Fills(x, y, z) == <<x \o y, Append(z, Op("IMM", DRAW_PRIMITIVES, 0))>>

Streams == Pieces \X Pieces \X Pieces

OneChannel ==
    {[fills |-> (cmds :> Fills(s[1], s[2], s[3])) @@ (cmds2 :> <<>>),
      mapped |-> {cmds},
      jobs |-> (gr3d :> Jobs(cmds, s[1], s[2], s[3])) @@ (gr2d :> <<>>)] : s \in Streams}

Upload3d == SetCl(GR3D, VP_UPLOAD_INST_ID, {0, 1})
Fill2d == SetCl(81, 517, {1})

TwoChannels ==
    {[fills |-> (cmds :> <<<<Upload3d, Value(0), Value(1)>>>>) @@ (cmds2 :> <<<<Fill2d, Value(2)>>>>),
      mapped |-> m,
      jobs |-> [f \in {gr2d, gr3d} |->
        <<[cmdbufs |-> IF f = gr3d THEN <<Cmdbuf(cmds, 0, 3, 1)>> ELSE <<Cmdbuf(cmds2, 0, 2, 1)>>,
           relocs |-> <<Reloc(1)>>, waitchks |-> 0, version |-> 2]>>]] :
     m \in SUBSET {cmds, cmds2}}

AllPrograms == OneChannel \cup TwoChannels
=============================================================================
