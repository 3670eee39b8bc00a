----------------------------- MODULE VertexAsm -----------------------------
(***************************************************************************)
(* The assembler of vertex programs (libgrate/vertex_asm.y, grate-asm.c)   *)
(* and its disassembler (vertex_disasm.c).  An instruction has a vector    *)
(* and a scalar operation that share the third source, one constant, one   *)
(* attribute and one address register; the parser fills the fields while   *)
(* it reads and has to refuse what does not fit into one instruction.      *)
(*                                                                         *)
(* A text is read in pieces, each a reduction of the grammar: EXEC,        *)
(* options, one or two operations, ";".  The names and constants of the    *)
(* other sections are left out.                                            *)
(***************************************************************************)
EXTENDS Integers, Sequences, SequencesExt

CONSTANTS
    Texts,      \* what may be written: sequences, for each instruction
                \* of a program [ends, options, vectors, scalars]
    Limit,      \* instructions that fit into asm_vs_instructions
    None        \* no relative address; the address register as destination

VARIABLES
    text,       \* member of Texts
    asm,        \* [pst, instr, refused], vertex_asm.y's static state
    said,       \* pieces of the instruction that is being read
    program,    \* asm_vs_instructions, each with the pieces it was made from
    status      \* "parsing", "refused", "assembled"

vars == <<text, asm, said, program, status>>

Components == 0..3
Swizzles == [1..4 -> Components]
XYZW == <<0, 1, 2, 3>>

\* The sources each operation takes, by the register that holds them.
VectorSources ==
    [NOP |-> <<>>, MOV |-> <<"A">>, MUL |-> <<"A", "B">>, ADD |-> <<"A", "C">>, MAD |-> <<"A", "B", "C">>,
     DP3 |-> <<"A", "B">>, DPH |-> <<"A", "B">>, DP4 |-> <<"A", "B">>, DST |-> <<"A", "B">>, MIN |-> <<"A", "B">>,
     MAX |-> <<"A", "B">>, SLT |-> <<"A", "B">>, SGE |-> <<"A", "B">>, ARL |-> <<"A">>, FRC |-> <<"A">>,
     FLR |-> <<"A">>, SEQ |-> <<"A", "B">>, SFL |-> <<>>, SGT |-> <<"A", "B">>, SLE |-> <<"A", "B">>,
     SNE |-> <<"A", "B">>, STR |-> <<>>, SSG |-> <<>>, ARR |-> <<"A">>, ARA |-> <<>>, TXL |-> <<>>,
     PUSHA |-> <<>>, POPA |-> <<>>]
ScalarSources ==
    [NOP |-> <<>>, MOV |-> <<"C">>, RCP |-> <<"C">>, RCC |-> <<"C">>, RSQ |-> <<"C">>, EXP |-> <<"C">>,
     LOG |-> <<"C">>, LIT |-> <<"C">>, BRA |-> <<>>, CAL |-> <<>>, RET |-> <<>>, LG2 |-> <<"C">>,
     EX2 |-> <<"C">>, SIN |-> <<"C">>, COS |-> <<"C">>, PUSHA |-> <<>>, POPA |-> <<>>]
NoDestination == {"NOP", "PUSHA", "POPA", "BRA", "CAL", "RET"}
Branches == {"BRA", "CAL"}

-----------------------------------------------------------------------------
(* The parser's state *)

NoSource == [type |-> "undefined", index |-> 0, swizzle |-> XYZW, negate |-> FALSE, absolute |-> FALSE]

\* reset_instruction
Fresh ==
    [refused |-> FALSE,
     pst |-> [source |-> [NoSource EXCEPT !.swizzle = <<0, 0, 0, 0>>],
              rC_used |-> FALSE, used |-> {}, rD |-> 0, writes |-> {},
              address_register_select |-> 0, relative |-> {}],
     instr |-> [end_of_program |-> FALSE, flags |-> {}, condition_register |-> 0, predicate |-> XYZW,
                export_write_index |-> 31, export_vector |-> FALSE,
                relative |-> {}, address_register_select |-> 0,
                fetch |-> [attribute |-> 0, uniform |-> 0],
                rA |-> NoSource, rB |-> NoSource, rC |-> NoSource,
                vector |-> [op |-> "NOP", rD |-> 0, writes |-> {}],
                scalar |-> [op |-> "NOP", rD |-> 0, writes |-> {}]]]

Refuse(s) == [s EXCEPT !.refused = TRUE]

\* The number of a branch is in the bits of the swizzle of rC (vpe_vliw.h).
iaddr(instr) == LET w == instr.rC.swizzle IN 64 * w[1] + 16 * w[2] + 4 * w[3] + w[4]
SwizzleOf(n) == <<n \div 64, (n \div 16) % 4, (n \div 4) % 4, n % 4>>

Relative(type, o) == IF o.rel = None THEN {} ELSE {type}

MaxIndex == [undefined |-> 31, temporary |-> 31, attribute |-> 15, uniform |-> 1023]

Fetched == {"attribute", "uniform"}

-----------------------------------------------------------------------------
(* Options *)

EXPORT_REG(instr, o) ==
    [instr EXCEPT !.relative = (@ \ {"export"}) \cup Relative("export", o),
                  !.address_register_select = IF o.rel = None THEN @ ELSE o.rel,
                  !.export_write_index = o.index, !.export_vector = o.vector]

OPTION(s, o) ==
    CASE o.option = "flag" -> [s EXCEPT !.instr.flags = @ \cup {o.flag}]
      [] o.option = "p" -> [s EXCEPT !.instr.predicate = o.swizzle]
      [] o.option = "cr" -> IF o.n > 1 THEN Refuse(s) ELSE [s EXCEPT !.instr.condition_register = o.n]
      [] o.option = "export" ->
           IF o.index > 15 /\ o.index # 31 THEN Refuse(s) ELSE [s EXCEPT !.instr = EXPORT_REG(@, o)]

-----------------------------------------------------------------------------
(* Sources *)

\* CONSTANT_REG, ATTRIBUTE_REG: an address in brackets.
Addressed(pst, o) ==
    [pst EXCEPT !.relative = @ \cup Relative(o.type, o),
                !.address_register_select = IF o.rel = None THEN @ ELSE o.rel]

\* An instruction fetches one constant and one attribute.
FetchConflict(s, o) == o.type \in s.pst.used /\ o.index # s.instr.fetch[o.type]

\* Mutant: the number of a temporary register is not checked.
InvalidIndex_Fetched(o) == o.type \in Fetched /\ o.index > MaxIndex[o.type]

InvalidIndex(o) == o.index > MaxIndex[o.type]

REGISTER_SRC_SWIZZLED(s, o) ==
    LET index == IF o.type \in Fetched THEN 0 ELSE o.index
        pst == IF o.type \in Fetched THEN Addressed(s.pst, o) ELSE s.pst
        read == [s EXCEPT
                   !.pst = [pst EXCEPT !.source.type = o.type, !.source.index = index, !.source.swizzle = o.swizzle,
                                       !.used = @ \cup ({o.type} \cap Fetched)],
                   !.instr.fetch = [t \in Fetched |-> IF t = o.type THEN o.index ELSE @[t]]]
    IN  IF InvalidIndex(o) \/ FetchConflict(s, o) THEN Refuse(s) ELSE read

\* Mutant: only two addresses of the same kind are compared.
AddressConflict_SameKind(pst, instr) ==
    /\ instr.relative \cap pst.relative # {}
    /\ pst.address_register_select # instr.address_register_select

\* An instruction has one address register.
AddressConflict(pst, instr) ==
    /\ instr.relative # {} /\ pst.relative # {}
    /\ pst.address_register_select # instr.address_register_select

\* Mutant: the modifiers are left to the next source.
Unmodified_Kept(src) == src

Unmodified(src) == [src EXCEPT !.negate = FALSE, !.absolute = FALSE]

Plain(s) ==
    LET relative == s.instr.relative \cup s.pst.relative
    IN  [s EXCEPT !.instr.relative = relative,
                  !.instr.address_register_select =
                      IF relative \cap Fetched # {} THEN s.pst.address_register_select ELSE @,
                  !.pst.source = Unmodified(@)]

\* A source with a modifier goes without the check, the addresses and the reset of a plain one.
Modified(s, o) ==
    [s EXCEPT !.pst.source.negate = @ \/ o.negate, !.pst.source.absolute = @ \/ o.absolute]

REGISTER_SRC(s, o) ==
    LET read == REGISTER_SRC_SWIZZLED(s, o)
    IN  CASE read.refused -> read
          [] ~read.refused /\ (o.negate \/ o.absolute) -> Modified(read, o)
          [] OTHER -> IF AddressConflict(read.pst, read.instr) THEN Refuse(read) ELSE Plain(read)

\* Mutant: the number of the third source is not compared.
SharedConflict_TypeOnly(s) == s.pst.rC_used /\ s.pst.source.type # s.instr.rC.type

\* The two operations have one third source.
SharedConflict(s) ==
    /\ s.pst.rC_used
    /\ \/ s.pst.source.type # s.instr.rC.type
       \/ s.pst.source.type = "temporary" /\ s.pst.source.index # s.instr.rC.index

\* REGISTER_SRC_A, REGISTER_SRC_B, REGISTER_SRC_C
SourceRegister(s, o, reg) ==
    LET read == REGISTER_SRC(s, o)
    IN  CASE read.refused -> read
          [] ~read.refused /\ reg = "A" -> [read EXCEPT !.instr.rA = read.pst.source]
          [] ~read.refused /\ reg = "B" -> [read EXCEPT !.instr.rB = read.pst.source]
          [] OTHER ->
               IF SharedConflict(read) THEN Refuse(read)
               ELSE [read EXCEPT !.pst.rC_used = TRUE, !.instr.rC = read.pst.source]

-----------------------------------------------------------------------------
(* Operations *)

\* REGISTER_DST_MASKED, ADDRESS_DST_MASKED
Destination(s, dst) ==
    LET read == [s EXCEPT !.pst.writes = dst.writes]
    IN  CASE dst.index = None -> [read EXCEPT !.pst.rD = 0]
          [] dst.index # None /\ dst.index > 31 /\ dst.index # 63 -> Refuse(read)
          [] OTHER -> [read EXCEPT !.pst.rD = dst.index]

\* An operation without destination; RET leaves pst.rD as it is.
NoDst(s, o) ==
    CASE o.op \in {"NOP"} \cup Branches -> [s EXCEPT !.pst.rD = 63]
      [] o.op \in {"PUSHA", "POPA"} -> [s EXCEPT !.pst.rD = 0]
      [] OTHER -> s

Operands(s, o, regs) ==
    FoldLeft(LAMBDA t, i : IF t.refused THEN t ELSE SourceRegister(t, o.src[i], regs[i]),
             IF o.op \in NoDestination THEN NoDst(s, o) ELSE Destination(s, o.dst),
             [i \in DOMAIN regs |-> i])

Target(s, o) ==
    CASE o.op \notin Branches -> s
      [] o.op \in Branches /\ o.target > 255 -> Refuse(s)
      [] OTHER -> [s EXCEPT !.instr.rC.swizzle = SwizzleOf(o.target)]

\* Mutant: the write mask is left to the other operation.
Cleared_Not(pst) == pst

Cleared(pst) == [pst EXCEPT !.writes = {}]

Field(s, o) == [op |-> o.op, rD |-> s.pst.rD, writes |-> s.pst.writes]

POST_VECTOR_OPCODE(s, o) ==
    LET read == Operands(s, o, VectorSources[o.op])
    IN  IF read.refused THEN read
        ELSE [read EXCEPT !.instr.vector = Field(read, o), !.pst = Cleared(@)]

POST_SCALAR_OPCODE(s, o) ==
    LET read == Target(Operands(s, o, ScalarSources[o.op]), o)
    IN  IF read.refused THEN read
        ELSE [read EXCEPT !.instr.scalar = Field(read, o), !.pst = Cleared(@)]

\* One piece of an instruction.
Read(s, piece) ==
    CASE s.refused -> s
      [] ~s.refused /\ piece.kind = "exec" -> [s EXCEPT !.instr.end_of_program = piece.end]
      [] ~s.refused /\ piece.kind = "option" -> OPTION(s, piece)
      [] ~s.refused /\ piece.kind = "vector" -> POST_VECTOR_OPCODE(s, piece)
      [] OTHER -> POST_SCALAR_OPCODE(s, piece)

-----------------------------------------------------------------------------
Init ==
    /\ text \in Texts
    /\ asm = Fresh
    /\ said = <<>>
    /\ program = <<>>
    /\ status = "parsing"

ReadAll(pieces) ==
    /\ asm' = FoldLeft(Read, asm, pieces)
    /\ said' = said \o pieces
    /\ status' = IF asm'.refused THEN "refused" ELSE status
    /\ UNCHANGED <<text, program>>

HasRead(kind) == \E i \in DOMAIN said : said[i].kind = kind

Between == status = "parsing" /\ said = <<>>
Inside == status = "parsing" /\ said # <<>>

Written == text[Len(program) + 1]

\* EXEC_PREAMBLE OPTIONS
EXEC_PREAMBLE ==
    /\ Between
    /\ Len(program) < Len(text)
    /\ \E options \in Written.options, end \in Written.ends : ReadAll(<<[kind |-> "exec", end |-> end]>> \o options)

VECTOR_OPCODE == Inside /\ ~HasRead("vector") /\ \E o \in Written.vectors : ReadAll(<<o>>)
SCALAR_OPCODE == Inside /\ ~HasRead("scalar") /\ \E o \in Written.scalars : ReadAll(<<o>>)

\* VLIW_INSTRUCTION: the ";".
EndsInstruction == Inside /\ (HasRead("vector") \/ HasRead("scalar"))

VLIW_INSTRUCTION ==
    /\ EndsInstruction
    /\ Len(program) < Limit
    /\ program' = Append(program, [instr |-> asm.instr, said |-> said])
    /\ asm' = Fresh
    /\ said' = <<>>
    /\ UNCHANGED <<text, status>>

OverLimit ==
    /\ EndsInstruction
    /\ Len(program) = Limit
    /\ status' = "refused"
    /\ UNCHANGED <<text, asm, said, program>>

\* The end of the text, and the rest of grate_shader_parse_vertex_asm.
Assembled ==
    /\ Between
    /\ program # <<>>
    /\ status' = "assembled"
    /\ program' = [program EXCEPT ![Len(program)].instr.end_of_program = TRUE]
    /\ UNCHANGED <<text, asm, said>>

NoInstructions ==
    /\ Between
    /\ program = <<>>
    /\ status' = "refused"
    /\ UNCHANGED <<text, asm, said, program>>

Next ==
    \/ EXEC_PREAMBLE \/ VECTOR_OPCODE \/ SCALAR_OPCODE
    \/ VLIW_INSTRUCTION \/ OverLimit \/ Assembled \/ NoInstructions

Spec == Init /\ [][Next]_vars

-----------------------------------------------------------------------------
(* vpe_vliw_disassemble: the pieces it prints *)

Flags == {"saturate", "cs", "cc", "cwr", "lt", "eq", "gt", "bit120"}

\* Mutant: the flag of another kind of address is looked at.
Address_Other(instr, type) == IF instr.relative = {} THEN None ELSE instr.address_register_select

Address(instr, type) == IF type \in instr.relative THEN instr.address_register_select ELSE None

\* r()
Shown(instr, reg) ==
    LET r == CASE reg = "A" -> instr.rA [] reg = "B" -> instr.rB [] OTHER -> instr.rC
    IN  [type |-> r.type,
         index |-> CASE r.type = "temporary" -> r.index [] r.type \in Fetched -> instr.fetch[r.type] [] OTHER -> 0,
         rel |-> Address(instr, r.type), swizzle |-> r.swizzle, negate |-> r.negate, absolute |-> r.absolute]

\* vec_rD, sca_rD
ShownOperation(instr, kind, field, regs) ==
    [kind |-> kind, op |-> field.op, dst |-> [index |-> field.rD, writes |-> field.writes],
     src |-> [i \in DOMAIN regs |-> Shown(instr, regs[i])], target |-> iaddr(instr)]

ShownExport(instr) ==
    [kind |-> "option", option |-> "export", rel |-> Address(instr, "export"),
     index |-> instr.export_write_index, vector |-> instr.export_vector]

vpe_vliw_disassemble(instr) ==
    <<[kind |-> "exec", end |-> instr.end_of_program], ShownExport(instr),
      [kind |-> "option", option |-> "cr", n |-> instr.condition_register]>>
    \o SetToSeq({[kind |-> "option", option |-> "flag", flag |-> f] : f \in instr.flags \ {"bit120"}})
    \o <<[kind |-> "option", option |-> "p", swizzle |-> instr.predicate],
         ShownOperation(instr, "vector", instr.vector, VectorSources[instr.vector.op]),
         ShownOperation(instr, "scalar", instr.scalar, ScalarSources[instr.scalar.op])>>

Assemble(pieces) == FoldLeft(Read, Fresh, pieces)

-----------------------------------------------------------------------------
(* Properties *)

Instructions == {program[i] : i \in DOMAIN program}
Said(p, kind) == {p.said[i] : i \in {j \in DOMAIN p.said : p.said[j].kind = kind}}

\* The sources of the text, each with the register it is put into.
UsesOf(p, kind, forms) ==
    UNION {{[reg |-> forms[o.op][i], src |-> o.src[i]] : i \in DOMAIN forms[o.op]} : o \in Said(p, kind)}
Uses(p) == UsesOf(p, "vector", VectorSources) \cup UsesOf(p, "scalar", ScalarSources)

IsPlain(o) == ~o.negate /\ ~o.absolute

\* Both operations of an instruction read the registers, the constant and the
\* attribute the text names: what cannot be shared was refused.
SourcesNamed ==
    \A p \in Instructions : \A u \in Uses(p) :
        LET shown == Shown(p.instr, u.reg)
        IN  shown.type = u.src.type /\ shown.index = u.src.index

\* A minus or abs() of the text is in the instruction, and a source without
\* any has none, whatever was read before it. The third source is the
\* exception: of two operations the later one decides.
ModifiersKept ==
    \A p \in Instructions : \A u \in Uses(p) :
        LET shown == Shown(p.instr, u.reg)
        IN  \/ u.reg = "C" /\ \E v \in Uses(p) : v.reg = "C" /\ v # u
            \/ /\ IF IsPlain(u.src) THEN IsPlain(shown) ELSE TRUE
               /\ u.src.negate => shown.negate
               /\ u.src.absolute => shown.absolute

\* Every relative address of an instruction, of a plain source or the
\* export, goes through the address register the text names: there is one
\* for all, and a second one was refused.
LastExport(p) ==
    LET at == {i \in DOMAIN p.said : p.said[i].kind = "option" /\ p.said[i].option = "export"}
    IN  {p.said[i] : i \in {j \in at : \A k \in at : k <= j}}
AddressesNamed ==
    \A p \in Instructions :
        /\ \A u \in Uses(p) : (IsPlain(u.src) /\ u.src.rel # None) => Address(p.instr, u.src.type) = u.src.rel
        /\ \A o \in LastExport(p) : o.rel # None => Address(p.instr, "export") = o.rel

\* An operation writes what the text says it writes, and an operation
\* that has no destination, or is not there, writes nothing.
WritesNamed ==
    \A p \in Instructions :
        /\ p.instr.vector.writes = UNION {o.dst.writes : o \in {v \in Said(p, "vector") : v.op \notin NoDestination}}
        /\ p.instr.scalar.writes = UNION {o.dst.writes : o \in {v \in Said(p, "scalar") : v.op \notin NoDestination}}

\* The fields that mean something: an operation without destination has no
\* rD, and without a relative address no address register is selected.
Effective(instr) ==
    LET field(f) == IF f.op \in NoDestination THEN [f EXCEPT !.rD = 0] ELSE f
    IN  [instr EXCEPT !.vector = field(@), !.scalar = field(@),
                      !.address_register_select = IF instr.relative = {} THEN 0 ELSE @]

\* What the grammar takes back: the disassembler has no name for SFL, prints
\* a source for SSG and TXL and leaves bit 120 out; the parser does not
\* give the address of a modified source to the instruction.
TakenBack(p) ==
    /\ p.instr.vector.op \notin {"SFL", "SSG", "TXL"}
    /\ "bit120" \notin p.instr.flags
    /\ \A u \in Uses(p) : IsPlain(u.src)

\* The text the disassembler makes of an instruction is accepted by the
\* assembler and gives the same instruction.
Reassembles ==
    \A p \in Instructions : TakenBack(p) =>
        LET again == Assemble(vpe_vliw_disassemble(p.instr))
        IN  ~again.refused /\ Effective(again.instr) = Effective(p.instr)
=============================================================================
