--------------------------- MODULE FragmentDisasm ---------------------------
(***************************************************************************)
(* The disassembler of fragment programs (grate_shader_disasm_fs,          *)
(* fragment_disasm.c) beside the assembler: it finds the words of each     *)
(* unit in the command stream, cuts them into batches by the schedules and *)
(* prints each batch in the language the assembler reads.                  *)
(***************************************************************************)
EXTENDS FragmentAsm, FiniteSets

-----------------------------------------------------------------------------
(* The command stream *)

Upto(f, n) == [i \in 1..n |-> f[i - 1]]

\* grate_shader_parse_fragment_asm: the words of every unit, behind a command that counts them.
\* On a Tegra114 to_114_alu_sched moves the fields of the ALU's schedule, where the disassembler
\* does not look for them: these are the words of the other chips.
Words(s) ==
    [pseq |-> Upto(s.pseq, s.batches), mfu_sched |-> Upto(s.mfu_sched, s.batches), mfu |-> Upto(s.mfu, s.mfu_nb),
     tex |-> Upto(s.tex, s.batches), alu_sched |-> Upto(s.alu_sched, s.batches), alu |-> Upto(s.alu, s.alu_nb),
     complement |-> Upto(s.complement, s.batches), dw |-> Upto(s.dw, s.batches),
     pseq_inst_nb |-> s.batches, discards_fragment |-> s.discards_fragment]

Counted == {"pseq", "mfu_sched", "mfu", "tex", "alu_sched", "alu", "complement", "dw"}

\* A unit is refused when it is full, not when it is over its limit.
StreamRefused(w) == \E unit \in Counted : Len(w[unit]) >= Limit

\* The instructions of batch i, which its schedule names.
SliceOf(all, sched) == SubSeq(all, sched.address + 1, sched.address + sched.instructions_nb)
MfuOf(w, i) == SliceOf(w.mfu, w.mfu_sched[i])
AluOf(w, i) == SliceOf(w.alu, w.alu_sched[i])

-----------------------------------------------------------------------------
(* What is printed *)

\* disassemble_mfu, mfu_mul, mfu_var
ShownDst(n) == CASE n = 1 -> [name |-> "bar", n |-> 0] [] n >= 4 -> [name |-> "row", n |-> n - 4] [] OTHER -> [name |-> "dst", n |-> n]
ShownSrc(n) ==
    CASE n <= 3 -> [name |-> "row", n |-> n]
      [] n = 10 -> [name |-> "sfu", n |-> 0]
      [] n \in {11, 12} -> [name |-> "bar", n |-> n - 11]
      [] n = 13 -> [name |-> "#", n |-> 1]
      [] OTHER -> [name |-> "src", n |-> n]
ShownMul(func, m) == [func |-> func, dst |-> ShownDst(m.dst), src0 |-> ShownSrc(m.src0), src1 |-> ShownSrc(m.src1)]
ShownVar(v) == IF v.opcode = 0 THEN [NoVar EXCEPT !.saturate = v.saturate] ELSE v

disassemble_mfu(m) ==
    [raw |-> None,
     funcs |-> <<[func |-> "sfu", opcode |-> m.opcode, reg |-> m.reg],
                 ShownMul("mul0", m.mul0), ShownMul("mul1", m.mul1),
                 [func |-> "ipl", var |-> [i \in 1..4 |-> ShownVar(m.var[i])]]>>]

disassemble_tex(t) == [raw |-> None, dst |-> 2 * t.dst, src |-> 2 * t.src, sampler |-> t.sampler, bias |-> t.bias]

\* A unit that is not enabled is printed as NOP, which the parser leaves as it is.
disassemble_dw(d) ==
    IF ~d.enable THEN [raw |-> NoDw]
    ELSE [raw |-> None, stencil |-> d.stencil /\ d.target = 2, target |-> d.target, src |-> 2 * d.src]

\* reg_name: the last kind that begins at or before the register.
Kinds == {"row", "global", "alu", "imm", "lowp", "uniform", "cr", "posx", "posy", "pface", "kill"}
reg_name(index, high) ==
    LET kind == CHOOSE k \in Kinds : First[k] <= index /\ \A l \in Kinds : First[l] <= index => First[l] <= First[k]
        id == IF high THEN 1 ELSE 0
    IN  [bank |-> kind,
         n |-> CASE kind = "cr" -> 2 * (index - First.cr) + id [] kind = "lowp" -> id [] OTHER -> index - First[kind]]

\* Mutant: the precision is printed without the half.
ShownPart_LowOnly(r) == IF r.fixed10 THEN "l" ELSE "full"

ShownPart(r) == CASE ~r.fixed10 -> "full" [] r.fixed10 /\ r.high -> "h" [] OTHER -> "l"

\* alu_r
alu_r(r) ==
    LET named == reg_name(r.index, r.high)
        part == IF named.bank \in {"cr", "lowp"} \cup Positions THEN "full" ELSE ShownPart(r)
    IN  [bank |-> named.bank, n |-> named.n, part |-> part, absolute |-> r.absolute,
         minus |-> IF r.minus_one THEN 1 ELSE 0, times |-> IF r.scale_x2 THEN 2 ELSE 1, negate |-> r.negate]

alu_rD(r) ==
    IF ~r.enable THEN None
    ELSE [bank |-> IF r.reg = 0 THEN "rB" ELSE "rC", n |-> 0, part |-> ShownPart(r), absolute |-> r.absolute,
          minus |-> IF r.minus_one THEN 1 ELSE 0, times |-> 1, negate |-> FALSE]

alu_dst(w) ==
    LET named == reg_name(w.dst, w.low)
    IN  [bank |-> named.bank, n |-> IF named.bank = "lowp" THEN 0 ELSE named.n,
         halves |-> (IF w.low THEN {"l"} ELSE {}) \cup (IF w.high THEN {"h"} ELSE {})]

Modifiers(w) ==
    (CASE w.scale = 1 -> {"x2"} [] w.scale = 2 -> {"x4"} [] w.scale = 3 -> {"/2"} [] OTHER -> {})
    \cup (CASE w.cc = 1 -> {"eq"} [] w.cc = 2 -> {"gt"} [] w.cc = 3 -> {"ge"} [] OTHER -> {})
    \cup (IF w.saturate THEN {"sat"} ELSE {}) \cup (IF w.this THEN {"this"} ELSE {})
    \cup (IF w.other THEN {"other"} ELSE {})

disassemble_alu(x, w) ==
    [kind |-> "operation", x |-> x, opcode |-> IF w.addition_disable THEN "MUL" ELSE w.opcode, dst |-> alu_dst(w),
     src |-> <<alu_r(w.rA), alu_r(w.rB), alu_r(w.rC)>>, srcD |-> alu_rD(w.rD), modifiers |-> Modifiers(w)]

\* The constants that the first three operations read: only these are printed.
ConstantUses(i) ==
    LET sources == UNION {{alu_r(i.a[x].rA), alu_r(i.a[x].rB), alu_r(i.a[x].rC)} : x \in 0..2}
    IN  {[n |-> r.n, part |-> r.part] : r \in {q \in sources : q.bank = "imm"}}

\* What is read where a half should be: other bits, when nothing was given or the halves are not swapped.
Half(i, n, h) == IF i.swapped /\ i.imm[n][h] # None THEN i.imm[n][h] ELSE 0

ConstantValue(i, u) ==
    CASE u.part = "full" -> fp20(Half(i, u.n, "l") + 1024 * Half(i, u.n, "h"))
      [] u.part = "l" -> fx10(Half(i, u.n, "l"))
      [] OTHER -> fx10(Half(i, u.n, "h"))

\* disassemble_alu_imm
disassemble_alu_imm(i) ==
    LET uses == SetToSeq({u \in ConstantUses(i) : u.part = "full"}) \o SetToSeq({u \in ConstantUses(i) : u.part # "full"})
    IN  [kind |-> "immediates", x |-> 3,
         constants |-> [k \in DOMAIN uses |-> [n |-> uses[k].n, part |-> uses[k].part, value |-> ConstantValue(i, uses[k])]]]

disassemble_alus(i) ==
    [x \in 1..3 |-> disassemble_alu(x - 1, i.a[x - 1])]
    \o <<IF ConstantUses(i) = {} THEN disassemble_alu(3, i.a[3]) ELSE disassemble_alu_imm(i)>>

\* fragment_pipeline_disassemble: a word that is 0 and the complement are not printed.
fragment_pipeline_disassemble(w, i) ==
    LET line(unit, piece) == <<[unit |-> unit, piece |-> piece]>>
        mfu == MfuOf(w, i)
        alu == AluOf(w, i)
    IN  (IF w.pseq[i] = 0 THEN <<>> ELSE line("pseq", [data |-> w.pseq[i]]))
        \o [j \in DOMAIN mfu |-> [unit |-> "mfu", piece |-> disassemble_mfu(mfu[j])]]
        \o (IF w.tex[i] = NoTex THEN <<>> ELSE line("tex", disassemble_tex(w.tex[i])))
        \o [j \in DOMAIN alu |-> [unit |-> "alu", piece |-> disassemble_alus(alu[j])]]
        \o (IF w.dw[i] = NoDw THEN <<>> ELSE line("dw", disassemble_dw(w.dw[i])))

-----------------------------------------------------------------------------
(* Properties *)

\* The whole of a text, read by a build that does with negative constants what "how" says.
Assemble(lines, how) ==
    FoldLeft(LAMBDA s, batch :
                 LET t == FoldLeft(LAMBDA u, line : IF u.refused THEN u ELSE Read(u, line.unit, line.piece, how), s, batch)
                 IN  [t EXCEPT !.batches = @ + 1],
             Fresh, lines)

\* The schedule of a batch leads to the MFU and ALU instructions that are
\* written in it, in their order, and to no instruction of another batch.
BatchesRunTheirOwn ==
    status = "assembled" =>
        \A i \in 1..asm.batches :
            LET mfus == PiecesOf(said[i], "mfu")
                alus == PiecesOf(said[i], "alu")
                w == Words(asm)
            IN  /\ MfuOf(w, i) = [j \in DOMAIN mfus |-> MfuBody(NoMfu, mfus[j])]
                /\ AluOf(w, i) =
                       [j \in DOMAIN alus |-> FoldLeft(LAMBDA k, o : ALUX_INSTRUCTION(k, o, build), NopAlu, alus[j])]

\* Registers that exist: the parser takes u32 to u63 too, which are the condition registers and what follows.
Exists(r) == r.bank # "uniform" \/ r.n <= 31

Operations(i) == UNION {{os[x] : x \in DOMAIN os} : os \in {PiecesOf(said[i], "alu")[j] : j \in DOMAIN PiecesOf(said[i], "alu")}}
LastOf(os, x) == CHOOSE j \in DOMAIN os : os[j].x = x /\ \A k \in DOMAIN os : os[k].x = x => k <= j

SameRegister(o, r) ==
    LET shown == alu_r(r)
    IN  /\ shown.bank = o.bank /\ (o.bank \in Positions \/ shown.n = o.n)
        /\ shown.absolute = o.absolute /\ shown.negate = o.negate
        /\ shown.minus = o.minus /\ shown.times = o.times
        /\ o.bank \notin {"cr", "lowp"} \cup Positions => shown.part = o.part

\* An operation reads and writes, in the disassembler's eyes, the registers,
\* halves and modifiers that the text names: what the parser does to a
\* number is undone by what the disassembler does to the bits.
OperandsNamed ==
    status = "assembled" =>
        \A i \in 1..asm.batches : \A j \in DOMAIN PiecesOf(said[i], "alu") :
            LET os == PiecesOf(said[i], "alu")[j]
                alu == AluOf(Words(asm), i)[j]
            IN  \A k \in DOMAIN os :
                    (os[k].kind = "operation" /\ k = LastOf(os, os[k].x)) =>
                        LET w == alu.a[os[k].x]
                            dst == alu_dst(w)
                        IN  /\ Exists(os[k].src[1]) => SameRegister(os[k].src[1], w.rA)
                            /\ Exists(os[k].src[2]) => SameRegister(os[k].src[2], w.rB)
                            /\ Exists(os[k].src[3]) => SameRegister(os[k].src[3], w.rC)
                            /\ dst.bank = os[k].dst.bank
                            /\ dst.bank \notin {"lowp", "kill"} => dst.n = os[k].dst.n
                            /\ dst.bank \notin {"cr", "kill"} => dst.halves = os[k].dst.halves

\* Words only hexadecimal text can give: the disassembler has no text for them.
Printable(w, i) ==
    /\ \A j \in DOMAIN MfuOf(w, i) :
           LET m == MfuOf(w, i)[j]
           IN  m.opcode <= 11 /\ \A k \in 1..4 : m.var[k].opcode <= 2 /\ (m.var[k].opcode = 0 => m.var[k].source = 0)
    /\ w.tex[i] = NoTex \/ w.tex[i].enable
    /\ w.dw[i] = NoDw \/ (w.dw[i].enable /\ w.dw[i].unk = 2 /\ (w.dw[i].stencil => (w.dw[i].target = 2 /\ w.dw[i].src = 0)))
    /\ w.complement[i] = 0

\* Constants are given where they are read and read where they are given, in the same form.
ConstantsGiven(alu, os) ==
    LET all == UNION {{os[k].constants[c] : c \in DOMAIN os[k].constants} : k \in {j \in DOMAIN os : os[j].kind = "immediates"}}
        given == {[n |-> c.n, part |-> c.part] : c \in all}
    IN  given = ConstantUses(alu)

\* Where a negative float saturates, no text gives the bits of a negative number.
Writable(alu) ==
    build = "saturates" => \A u \in ConstantUses(alu) : u.part # "full" => Half(alu, u.n, u.part) < 512

TakenBack(w, i) ==
    /\ Printable(w, i)
    /\ \A j \in DOMAIN AluOf(w, i) :
           LET alu == AluOf(w, i)[j]
           IN  /\ ConstantsGiven(alu, PiecesOf(said[i], "alu")[j])
               /\ Writable(alu)
               /\ \A o \in {PiecesOf(said[i], "alu")[j][k] : k \in DOMAIN PiecesOf(said[i], "alu")[j]} :
                      o.kind = "operation" => \A k \in 1..3 : Exists(o.src[k])

\* A constant is printed with six decimals and cut off when it is read: it may lose one step.
SameConstant(i, j, u) ==
    LET value(k) == Half(k, u.n, "l") + 1024 * Half(k, u.n, "h")
        half(k) == Half(k, u.n, u.part)
    IN  IF u.part = "full" THEN value(i) - value(j) \in 0..1
        ELSE (half(i) - half(j)) % 1024 \in {0, 1, 1023}

SameAlu(i, j) ==
    /\ \A x \in 0..2 : i.a[x] = j.a[x]
    /\ IF ConstantUses(i) = {} THEN i.a[3] = j.a[3] ELSE \A u \in ConstantUses(i) : SameConstant(i, j, u)

\* A program that is not full is disassembled, and assembling its text gives
\* the same words again, up to one step of an embedded constant.
Reassembles ==
    (status = "assembled" /\ \A unit \in Counted : Len(Words(asm)[unit]) < Limit) =>
        LET w == Words(asm)
            batches == [i \in 1..asm.batches |-> fragment_pipeline_disassemble(w, i)]
            again == Assemble(batches, build)
            v == Words(again)
        IN  (\A i \in 1..asm.batches : TakenBack(w, i)) =>
                /\ ~StreamRefused(w)
                /\ ~again.refused
                /\ [v EXCEPT !.alu = <<>>] = [w EXCEPT !.alu = <<>>]
                /\ Len(v.alu) = Len(w.alu)
                /\ \A j \in DOMAIN w.alu : SameAlu(w.alu[j], v.alu[j])
=============================================================================
