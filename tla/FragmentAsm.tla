---------------------------- MODULE FragmentAsm ----------------------------
(***************************************************************************)
(* The assembler of fragment programs (libgrate/fragment_asm.y,            *)
(* grate-asm.c) and its disassembler (fragment_disasm.c).  A program is a  *)
(* list of batches; a batch is a line of each of the units PSEQ, TEX, DW   *)
(* and up to three instructions each for MFU and ALU, which are kept in    *)
(* arrays of their own and found through a schedule.                       *)
(*                                                                         *)
(* A piece of text is one reduction of the grammar.  The sections of names *)
(* and constants are in Programs.                                          *)
(***************************************************************************)
EXTENDS Integers, Sequences, SequencesExt

CONSTANTS
    Texts,      \* sequences, for each batch [pseq, mfu, tex, alu, complement, dw]: of the first
                \* piece of the kind the set of what it may be, of the second, and so on
    Limit,      \* 64: instructions that fit into an array
    None        \* nothing is written for a unit; half of a constant that was not given

VARIABLES
    text,       \* member of Texts
    build,      \* what the build makes of a negative float that becomes unsigned: "wraps" or "saturates"
    asm,        \* fragment_asm.y's static state
    at,         \* the first unit that may still be written, 0 between batches
    said,       \* the pieces of each batch, the last one under way
    status      \* "parsing", "refused", "assembled"

vars == <<text, build, asm, at, said, status>>

PerBatch == 3

Units == <<"pseq", "mfu", "tex", "alu", "complement", "dw">>

\* Of a bit field, the bits that fit.
Bits(n, w) == n % 2^w

-----------------------------------------------------------------------------
(* Numbers *)

\* A float of the text is in millionths: six decimals are what the disassembler prints.
Magnitude(f) == IF f < 0 THEN -f ELSE f

\* A quotient to six decimals, as "%f" rounds it.
Rounded(a, b) ==
    LET q == a \div b
        r == a % b
    IN  IF 2 * r > b \/ (2 * r = b /\ q % 2 = 1) THEN q + 1 ELSE q

\* 2^e <= |f| < 2^(e+1)
Exponent(f) ==
    CHOOSE e \in -20..3 :
        IF e >= 0 THEN Magnitude(f) \div 2^e \in 1000000..1999999
        ELSE Magnitude(f) > 999999 \div 2^(-e) /\ Magnitude(f) <= 1999999 \div 2^(-e)

\* One bit of sign, six of exponent, thirteen of mantissa; what is finer is cut off.
float_to_fp20(f) ==
    IF f = 0 THEN 0
    ELSE LET e == Exponent(f)
             scaled == IF e >= 0 THEN (Magnitude(f) * 128) \div (15625 * 2^e)
                       ELSE (Magnitude(f) * 2^(-e) * 128) \div 15625
         IN  (IF f < 0 THEN 2^19 ELSE 0) + 2^13 * Bits(e + 31, 6) + (scaled - 2^13)

\* fp20, printed.
fp20(v) ==
    LET e == ((v \div 2^13) % 64) - 31
        significand == (2^13 + (v % 2^13)) * 15625
        f == CASE e < -21 -> 0
               [] e \in -21..-1 -> Rounded(significand, 128 * 2^(-e))
               [] OTHER -> Rounded(significand * 2^e, 128)
    IN  IF v >= 2^19 THEN -f ELSE f

\* Units of 1/256. Negative to unsigned is undefined in C: Arm saturates, x86 wraps.
float_to_fx10(f, how) ==
    LET n == (Magnitude(f) * 4) \div 15625
    IN  IF f >= 0 THEN Bits(n, 10) ELSE IF how = "saturates" THEN 0 ELSE Bits(-n, 10)

\* fx10, printed.
fx10(v) == IF v >= 512 THEN -Rounded((1024 - v) * 15625, 4) ELSE Rounded(v * 15625, 4)

-----------------------------------------------------------------------------
(* The words of the units *)

NoMul == [dst |-> 0, src0 |-> 0, src1 |-> 0]
NoVar == [saturate |-> FALSE, opcode |-> 0, source |-> 0]
NoMfu == [mul0 |-> NoMul, mul1 |-> NoMul, var |-> [i \in 1..4 |-> NoVar], opcode |-> 0, reg |-> 0]

NoTex == [enable |-> FALSE, dst |-> 0, sampler |-> 0, src |-> 0, bias |-> FALSE]
NoDw == [enable |-> FALSE, target |-> 0, stencil |-> FALSE, src |-> 0, unk |-> 0]

\* fragment_asm.h: the first register of each kind, and the highest number the parser takes.
First == [row |-> 0, global |-> 16, alu |-> 24, imm |-> 28, lowp |-> 31, uniform |-> 32,
          cr |-> 64, posx |-> 72, posy |-> 73, pface |-> 75, kill |-> 76]
MaxSource == [row |-> 15, global |-> 7, alu |-> 3, imm |-> 2, uniform |-> 63, cr |-> 15]
MaxDestination == [row |-> 15, global |-> 7, uniform |-> 7, cr |-> 15]

NoOperand ==
    [index |-> 0, fixed10 |-> FALSE, high |-> FALSE, absolute |-> FALSE,
     minus_one |-> FALSE, scale_x2 |-> FALSE, negate |-> FALSE]
OneZero(high) == [NoOperand EXCEPT !.index = First.lowp, !.fixed10 = TRUE, !.high = high]
NoRD == [enable |-> FALSE, reg |-> 0, fixed10 |-> FALSE, high |-> FALSE, absolute |-> FALSE, minus_one |-> FALSE]

Nop(high, writes) ==
    [opcode |-> "MAD", addition_disable |-> FALSE, dst |-> First.lowp, low |-> writes, high |-> writes,
     cc |-> 0, saturate |-> FALSE, scale |-> 0, this |-> FALSE, other |-> FALSE,
     rA |-> OneZero(high), rB |-> OneZero(FALSE), rC |-> OneZero(FALSE), rD |-> NoRD]

NoConstants == [n \in 0..2 |-> [l |-> None, h |-> None]]

\* Of four operations the fourth may hold constants; then its halves are swapped.
NopAlu == [a |-> [x \in 0..3 |-> Nop(TRUE, TRUE)], imm |-> NoConstants, swapped |-> FALSE]

NoSched == [instructions_nb |-> 0, address |-> 0]

\* reset_fragment_asm_parser_state. The last element is the one behind the arrays.
Fresh ==
    LET all(x) == [i \in 0..Limit |-> x]
    IN  [refused |-> FALSE, pseq |-> all(0), mfu |-> all(NoMfu), tex |-> all(NoTex), alu |-> all(NopAlu),
         complement |-> all(0), dw |-> all(NoDw), mfu_sched |-> all(NoSched), alu_sched |-> all(NoSched),
         batches |-> 0, mfu_nb |-> 0, alu_nb |-> 0, discards_fragment |-> FALSE]

Refuse(s) == [s EXCEPT !.refused = TRUE]

-----------------------------------------------------------------------------
(* PSEQ, MFU, TEX, DW *)

PSEQ_INSTRUCTION(s, o) == [s EXCEPT !.pseq[s.batches] = o.data]

\* MFU_MUL_DST, MFU_MUL_SRC: a number is taken as it is and cut to the field.
MulDst(o) == CASE o.name = "dst" -> Bits(o.n, 3) [] o.name = "bar" -> 1 [] OTHER -> 4 + o.n
MulSrc(o) ==
    CASE o.name = "src" -> Bits(o.n, 4) [] o.name = "sfu" -> 10 [] o.name = "bar" -> 11 + o.n
      [] o.name = "#" -> 13 [] OTHER -> o.n
MulRefused(o) ==
    \/ \E x \in {o.dst, o.src0, o.src1} : x.name = "row" /\ x.n > 3
    \/ \E x \in {o.src0, o.src1} : x.name = "#" /\ x.n # 1

\* MFU_FUNC
MFU_FUNC(m, o) ==
    CASE o.func \in {"mul0", "mul1"} ->
           [m EXCEPT ![o.func] = [dst |-> MulDst(o.dst), src0 |-> MulSrc(o.src0), src1 |-> MulSrc(o.src1)]]
      [] o.func = "ipl" -> [m EXCEPT !.var = o.var]
      [] OTHER -> [m EXCEPT !.opcode = o.opcode, !.reg = Bits(o.reg, 6)]

FuncRefused(o) ==
    \/ o.func \in {"mul0", "mul1"} /\ MulRefused(o)
    \/ o.func = "ipl" /\ \E i \in 1..4 : o.var[i].source > 15

\* MFU_INSTRUCTION: hexadecimal words, NOP or one to four functions.
MfuBody(m, o) == IF o.raw = None THEN FoldLeft(MFU_FUNC, m, o.funcs) ELSE o.raw
MfuRefused(o) == o.raw = None /\ \E i \in DOMAIN o.funcs : FuncRefused(o.funcs[i])

\* Mutant: the schedule points at the instruction before the first of its batch.
Address_OneBefore(nb, n) == IF nb > n THEN nb - n ELSE 0

Address(nb, n) == IF nb > 0 THEN nb - n + 1 ELSE 0

\* MFU_INSTRUCTIONS, ALU_INSTRUCTION: the instruction is in its array, the schedule follows.
Scheduled(s, sched, count) ==
    LET n == s[sched][s.batches].instructions_nb + 1
        address == Address(s[count], n)
    IN  IF n > PerBatch \/ address + n > Limit THEN Refuse(s)
        ELSE [s EXCEPT ![sched][s.batches] = [instructions_nb |-> n, address |-> address], ![count] = @ + 1]

MFU_INSTRUCTIONS(s, o) ==
    IF MfuRefused(o) THEN Refuse(s)
    ELSE Scheduled([s EXCEPT !.mfu[s.mfu_nb] = MfuBody(@, o)], "mfu_sched", "mfu_nb")

\* "r0, r1" or "r2, r3", and the sources that go on from there.
Pair(first) == first \div 2
PairRefused(first) == first \notin {0, 2}

TEX_INSTRUCTION(s, o) ==
    CASE o.raw # None -> [s EXCEPT !.tex[s.batches] = o.raw]
      [] o.raw = None /\ (PairRefused(o.dst) \/ PairRefused(o.src) \/ o.sampler > 15) -> Refuse(s)
      [] OTHER -> [s EXCEPT !.tex[s.batches] =
                      [@ EXCEPT !.enable = TRUE, !.dst = Pair(o.dst), !.src = Pair(o.src), !.sampler = o.sampler,
                                !.bias = @ \/ o.bias]]

DW_INSTRUCTION(s, o) ==
    CASE o.raw # None -> [s EXCEPT !.dw[s.batches] = o.raw]
      [] o.raw = None /\ o.stencil ->
           [s EXCEPT !.dw[s.batches] = [enable |-> TRUE, target |-> 2, stencil |-> TRUE, src |-> @.src, unk |-> 2]]
      [] o.raw = None /\ ~o.stencil /\ (PairRefused(o.src) \/ o.target > 15) -> Refuse(s)
      [] OTHER -> [s EXCEPT !.dw[s.batches] =
                      [@ EXCEPT !.enable = TRUE, !.target = o.target, !.src = Pair(o.src), !.unk = 2]]

-----------------------------------------------------------------------------
(* ALU *)

Positions == {"posx", "posy", "pface"}

\* Mutant: a condition register is not the half of a register.
Register_Whole(o) == First[o.bank] + o.n

\* Condition registers are the halves of eight registers.
Register(o) ==
    CASE o.bank = "cr" -> First.cr + o.n \div 2
      [] o.bank \in Positions \cup {"lowp", "kill"} -> First[o.bank]
      [] OTHER -> First[o.bank] + o.n

IsRD(o) == o.bank \in {"rB", "rC"}

\* ALU_REG, ALU_SRC_FLOAT_TYPE, ALU_REG_ABS, ALU_REG_x2, ALU_SRC_REG_MODIFIED, ALU_SRC
Operand(o) ==
    [index |-> IF IsRD(o) THEN IF o.bank = "rB" THEN 0 ELSE 1 ELSE Register(o),
     fixed10 |-> o.bank \in {"cr", "lowp"} \/ o.part # "full",
     high |-> IF o.bank \in {"cr", "lowp"} THEN o.n % 2 = 1 ELSE o.part = "h",
     absolute |-> o.absolute, minus_one |-> o.minus = 1, scale_x2 |-> o.times = 2, negate |-> o.negate]

OperandRefused(o) ==
    \/ o.bank \in DOMAIN MaxSource /\ o.n > MaxSource[o.bank]
    \/ o.times \notin {1, 2}
    \/ o.minus \notin {0, 1}

\* ALU_SRC_D: rB or rC of this operation, or #1 for none.
SourceD(o) ==
    IF o = None \/ o.bank = "lowp" THEN NoRD
    ELSE LET r == Operand(o)
         IN  [enable |-> TRUE, reg |-> r.index, fixed10 |-> r.fixed10, high |-> r.high,
              absolute |-> r.absolute, minus_one |-> r.minus_one]
SourceDRefused(o) ==
    /\ o # None
    /\ OperandRefused(o) \/ ~(IsRD(o) \/ (o.bank = "lowp" /\ o.n = 1))

\* ALU_DST, ALU_DST_REG, ALU_DST_LOW_HIGH
Halves(d) ==
    CASE d.bank = "cr" -> [low |-> d.n % 2 = 1, high |-> d.n % 2 = 1]
      [] d.bank = "kill" -> [low |-> TRUE, high |-> TRUE]
      [] OTHER -> [low |-> "l" \in d.halves, high |-> "h" \in d.halves]

\* ALU_MODIFIERS: the values of several are combined by "or".
Combined(m, low, high) ==
    (IF low \cap m # {} THEN 1 ELSE 0) + (IF high \cap m # {} THEN 2 ELSE 0)

\* ALU_OPERATIONS, ALU_OPCODE
ALU_OPERATION(o) ==
    [opcode |-> IF o.opcode = "MUL" THEN "MAD" ELSE o.opcode, addition_disable |-> o.opcode = "MUL",
     dst |-> Register(o.dst), low |-> Halves(o.dst).low, high |-> Halves(o.dst).high,
     cc |-> Combined(o.modifiers, {"eq", "ge"}, {"gt", "ge"}), saturate |-> "sat" \in o.modifiers,
     scale |-> Combined(o.modifiers, {"x2", "/2"}, {"x4", "/2"}),
     this |-> "this" \in o.modifiers, other |-> "other" \in o.modifiers,
     rA |-> Operand(o.src[1]), rB |-> Operand(o.src[2]), rC |-> Operand(o.src[3]), rD |-> SourceD(o.srcD)]

OperationRefused(o) ==
    \/ o.dst.bank \in DOMAIN MaxDestination /\ o.dst.n > MaxDestination[o.dst.bank]
    \/ \E i \in 1..3 : OperandRefused(o.src[i]) \/ IsRD(o.src[i])
    \/ SourceDRefused(o.srcD)

\* ALU_IMMEDIATE: a constant of 20 bits, or half of one.
ALU_IMMEDIATE(imm, c, how) ==
    CASE c.part = "full" ->
           [imm EXCEPT ![c.n] = [l |-> float_to_fp20(c.value) % 1024, h |-> float_to_fp20(c.value) \div 1024]]
      [] c.part = "l" -> [imm EXCEPT ![c.n].l = float_to_fx10(c.value, how)]
      [] OTHER -> [imm EXCEPT ![c.n].h = float_to_fx10(c.value, how)]

ALUX_INSTRUCTION(i, o, how) ==
    CASE o.kind = "immediates" ->
           [i EXCEPT !.imm = FoldLeft(LAMBDA m, c : ALU_IMMEDIATE(m, c, how), @, o.constants), !.swapped = ~@]
      [] o.kind = "nop" -> [i EXCEPT !.a[o.x] = Nop(FALSE, FALSE), !.imm = IF o.x = 3 THEN NoConstants ELSE @]
      [] o.kind = "raw" -> [i EXCEPT !.a[o.x] = o.raw, !.imm = IF o.x = 3 THEN NoConstants ELSE @]
      [] OTHER -> [i EXCEPT !.a[o.x] = ALU_OPERATION(o), !.imm = IF o.x = 3 THEN NoConstants ELSE @]

AluxRefused(o) ==
    \/ o.kind = "immediates" /\ (o.x # 3 \/ \E c \in DOMAIN o.constants : o.constants[c].n > 2)
    \/ o.kind = "operation" /\ OperationRefused(o)

Kills(o) == o.kind = "operation" /\ o.dst.bank = "kill"

ALU_INSTRUCTION(s, os, how) ==
    LET body == FoldLeft(LAMBDA i, o : ALUX_INSTRUCTION(i, o, how), s.alu[s.alu_nb], os)
    IN  IF \E i \in DOMAIN os : AluxRefused(os[i]) THEN Refuse(s)
        ELSE Scheduled([s EXCEPT !.alu[s.alu_nb] = body,
                                 !.discards_fragment = @ \/ \E i \in DOMAIN os : Kills(os[i])],
                       "alu_sched", "alu_nb")

\* ALU_COMPLEMENT: one word for each batch, 0 when nothing is written.
ALU_COMPLEMENT(s, o) == [s EXCEPT !.complement[s.batches] = o.data]

-----------------------------------------------------------------------------
(* The parser *)

Read(s, unit, piece, how) ==
    CASE unit = "pseq" -> PSEQ_INSTRUCTION(s, piece)
      [] unit = "mfu" -> MFU_INSTRUCTIONS(s, piece)
      [] unit = "tex" -> TEX_INSTRUCTION(s, piece)
      [] unit = "alu" -> ALU_INSTRUCTION(s, piece, how)
      [] unit = "complement" -> ALU_COMPLEMENT(s, piece)
      [] OTHER -> DW_INSTRUCTION(s, piece)

Init ==
    /\ text \in Texts
    /\ build \in {"wraps", "saturates"}
    /\ asm = Fresh
    /\ at = 0
    /\ said = <<>>
    /\ status = "parsing"

Parsing == status = "parsing"

EXEC ==
    /\ Parsing /\ at = 0 /\ Len(said) < Len(text)
    /\ at' = 1
    /\ said' = Append(said, <<>>)
    /\ UNCHANGED <<text, build, asm, status>>

Repeats(unit) == unit \in {"mfu", "alu"}

PiecesOf(batch, unit) ==
    LET lines == SelectSeq(batch, LAMBDA line : line.unit = unit)
    IN  [j \in DOMAIN lines |-> lines[j].piece]

\* A unit's line; the units come in their order, MFU and ALU any number of times.
Line(u) ==
    LET pieces == text[Len(said)][Units[u]]
        n == Len(PiecesOf(Last(said), Units[u])) + 1
    IN  /\ Parsing /\ at \in 1..u
        /\ n \in DOMAIN pieces
        /\ \E piece \in pieces[n] :
               /\ asm' = Read(asm, Units[u], piece, build)
               /\ said' = [said EXCEPT ![Len(said)] = Append(@, [unit |-> Units[u], piece |-> piece])]
        /\ at' = IF Repeats(Units[u]) THEN u ELSE u + 1
        /\ status' = IF asm'.refused THEN "refused" ELSE status
        /\ UNCHANGED <<text, build>>

PSEQ == Line(1)
MFU == Line(2)
TEX == Line(3)
ALU == Line(4)
COMPLEMENT == Line(5)
DW == Line(6)

\* The ";".
EXEC_PIPELINE_BATCH ==
    /\ Parsing /\ at # 0
    /\ asm' = [asm EXCEPT !.batches = @ + 1, !.refused = @ \/ asm.batches + 1 > Limit]
    /\ at' = 0
    /\ status' = IF asm'.refused THEN "refused" ELSE status
    /\ UNCHANGED <<text, build, said>>

\* grate_shader_parse_fragment_asm after the parser.
Assembled ==
    /\ Parsing /\ at = 0
    /\ status' = IF asm.batches = 0 THEN "refused" ELSE "assembled"
    /\ UNCHANGED <<text, build, asm, at, said>>

Next == EXEC \/ PSEQ \/ MFU \/ TEX \/ ALU \/ COMPLEMENT \/ DW \/ EXEC_PIPELINE_BATCH \/ Assembled

Spec == Init /\ [][Next]_vars
=============================================================================
