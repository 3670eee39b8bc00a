--------------------------- MODULE CommandChannel ---------------------------
(***************************************************************************)
(* What a host1x channel and the 3D engine behind it do with the words of  *)
(* a command stream: one word after the other, whatever buffers they come  *)
(* from.  Registers have the numbers of include/tgr_3d.xml.h.              *)
(***************************************************************************)
EXTENDS Integers, SequencesExt

CONSTANT Limit      \* words that fit in each instruction memory

GR3D == 96                  \* class 0x60
VP_UPLOAD_INST_ID == 517    \* 0x205
FP_UPLOAD_INST_ID_COMMON == 3618    \* 0xe22
CULL_FACE_LINKER_SETUP == 835       \* 0x343
DRAW_PRIMITIVES == 291      \* 0x123

Linker == 768..831          \* two words for each of LINKER_INSTRUCTION(0..31)

VpUnits == {518}
\* PSEQ, MFU sched, MFU, TEX, ALU sched, ALU, ALU complement, DW
FpUnits == {1345, 1537, 1540, 1793, 2049, 2052, 2054, 2305}
Units == VpUnits \cup FpUnits

ASSUME LimitAssumption == Limit \in [Units -> Nat]

\* Words are records: op, and reg, n, class, mask as the opcode has them.
\* What is left of a word when it is the value of an IMM, or a datum
Value(n) == [op |-> "SETCL", reg |-> 0, n |-> n, class |-> 0, mask |-> {}]

\* class: the engine the registers belong to; op, reg, n, mask: what the next
\* words are; memory, next: the instruction memories and where the next
\* instruction goes; writes, drawn: all it has done
ChannelInit ==
    [class |-> 0, op |-> "none", reg |-> 0, n |-> 0, mask |-> {},
     memory |-> [u \in Units |-> <<>>], next |-> [u \in Units |-> 0],
     linker |-> <<>>, insts |-> 0, writes |-> <<>>, drawn |-> <<>>]

\* The shaders that have been uploaded last.
Loaded(c) ==
    [unit |-> [u \in Units |-> SubSeq(c.memory[u], 1, c.next[u])],
     linker |-> c.linker, insts |-> c.insts]

Rewind(c, units) == [c EXCEPT !.next = [u \in Units |-> IF u \in units THEN 0 ELSE @[u]]]

Upload(c, u, w) ==
    LET k == c.next[u] + 1 IN
    IF k > Limit[u] THEN c
    ELSE [c EXCEPT !.next[u] = k,
                   !.memory[u] = IF k > Len(@) THEN Append(@, w) ELSE [@ EXCEPT ![k] = w]]

\* The 3D engine on a register write.
Engine(c, r, w) ==
    CASE r \in Units -> Upload(c, r, w)
      [] r \in Linker -> [c EXCEPT !.linker = (r :> w) @@ @]
      [] r = CULL_FACE_LINKER_SETUP -> [c EXCEPT !.insts = w.n + 1]
      [] r = VP_UPLOAD_INST_ID -> Rewind(c, VpUnits)
      [] r = FP_UPLOAD_INST_ID_COMMON -> Rewind(c, FpUnits)
      [] r = DRAW_PRIMITIVES -> [c EXCEPT !.drawn = Append(@, Loaded(c))]
      [] OTHER -> c

RegWrite(c, r, w) ==
    LET e == [c EXCEPT !.writes = Append(@, <<c.class, r, w>>)] IN
    IF c.class = GR3D THEN Engine(e, r, w) ELSE e

\* The word is an opcode.
Decode(c, w) ==
    CASE w.op = "SETCL" -> [c EXCEPT !.class = w.class, !.op = "mask", !.reg = w.reg, !.mask = w.mask]
      [] w.op = "MASK" -> [c EXCEPT !.op = "mask", !.reg = w.reg, !.mask = w.mask]
      [] w.op \in {"INCR", "NONINCR"} -> [c EXCEPT !.op = w.op, !.reg = w.reg, !.n = w.n]
      [] w.op = "IMM" -> RegWrite(c, w.reg, Value(w.n))
      [] OTHER -> c

Pending(c) == IF c.op = "mask" THEN c.mask # {} ELSE c.op # "none" /\ c.n > 0

\* The word is the value of a register.
Datum(c, w) ==
    IF c.op = "mask"
    THEN LET i == CHOOSE i \in c.mask : \A k \in c.mask : i <= k
         IN RegWrite([c EXCEPT !.mask = @ \ {i}], c.reg + i, w)
    ELSE RegWrite([c EXCEPT !.n = @ - 1, !.reg = @ + (IF c.op = "INCR" THEN 1 ELSE 0)], c.reg, w)

Word(c, w) == IF Pending(c) THEN Datum(c, w) ELSE Decode(c, w)

\* The states the channel goes through, word after word, and buffer after buffer
States(c, words) ==
    LET state[k \in 0..Len(words)] == IF k = 0 THEN c ELSE Word(state[k - 1], words[k])
    IN state

Executed(c, words) == States(c, words)[Len(words)]

GatherStates(c, gathers) ==
    LET state[k \in 0..Len(gathers)] == IF k = 0 THEN c ELSE Executed(state[k - 1], gathers[k])
    IN state
=============================================================================
