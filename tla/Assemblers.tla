----------------------------- MODULE Assemblers -----------------------------
(***************************************************************************)
(* The three assemblers as tools/assembler.c runs them: each reads a text, *)
(* gives the words of a shader and prints them disassembled.  Nothing is   *)
(* shared between them, so a behaviour is one of any of the three.         *)
(***************************************************************************)
EXTENDS Integers

CONSTANTS
    VertexTexts, FragmentTexts, LinkerTexts,        \* what may be written
    VertexLimit, FragmentLimit, LinkerLimit,        \* 256, 64 and 32: instructions that fit
    None

ASSUME LimitAssumption == VertexLimit \in Nat \ {0} /\ FragmentLimit \in Nat \ {0} /\ LinkerLimit \in Nat \ {0}

VARIABLES
    shader,                     \* which of the three is assembled
    text, asm, said, status,    \* of each assembler
    program,                    \* of the vertex assembler
    build, at                   \* of the fragment assembler

vars == <<shader, text, asm, said, status, program, build, at>>

Vertex == INSTANCE VertexAsm WITH Texts <- VertexTexts, Limit <- VertexLimit
Fragment == INSTANCE FragmentDisasm WITH Texts <- FragmentTexts, Limit <- FragmentLimit
Linker == INSTANCE LinkerAsm WITH Texts <- LinkerTexts, Limit <- LinkerLimit

Init ==
    \/ shader = "vertex" /\ Vertex!Init /\ build = None /\ at = 0
    \/ shader = "fragment" /\ Fragment!Init /\ program = <<>>
    \/ shader = "linker" /\ Linker!Init /\ program = <<>> /\ build = None /\ at = 0

VertexStep == shader = "vertex" /\ Vertex!Next /\ UNCHANGED <<shader, build, at>>
FragmentStep == shader = "fragment" /\ Fragment!Next /\ UNCHANGED <<shader, program>>
LinkerStep == shader = "linker" /\ Linker!Next /\ UNCHANGED <<shader, program, build, at>>

Next == VertexStep \/ FragmentStep \/ LinkerStep

Spec == Init /\ [][Next]_vars

-----------------------------------------------------------------------------
(* Properties: what each module states of its assembler *)

\* Both operations of a vertex instruction read the registers, the constant
\* and the attribute that the text names (REGISTER_SRC_A to _C, vertex_asm.y).
VertexSourcesNamed == shader = "vertex" => Vertex!SourcesNamed

\* A minus or abs() of the text is in the vertex instruction, whatever was
\* read before it (REGISTER_SRC, vertex_asm.y).
VertexModifiersKept == shader = "vertex" => Vertex!ModifiersKept

\* Relative addresses of a vertex instruction go through the address register
\* that the text names (REGISTER_SRC, EXPORT_REG, vertex_asm.y).
VertexAddressesNamed == shader = "vertex" => Vertex!AddressesNamed

\* A vertex operation writes what the text says, and nothing is left over
\* from the operation before (POST_VECTOR_OPCODE, vertex_asm.y).
VertexWritesNamed == shader = "vertex" => Vertex!WritesNamed

\* vpe_vliw_disassemble's text assembles to the same vertex instruction.
VertexReassembles == shader = "vertex" => Vertex!Reassembles

\* The schedules of a fragment program lead each batch to its own MFU and ALU
\* instructions (MFU_INSTRUCTIONS, ALU_INSTRUCTION, fragment_asm.y).
BatchesRunTheirOwn == shader = "fragment" => Fragment!BatchesRunTheirOwn

\* A fragment operation reads and writes, in the disassembler's eyes, what the
\* text names (ALU_REG, ALU_DST, fragment_asm.y; alu_r, fragment_disasm.c).
OperandsNamed == shader = "fragment" => Fragment!OperandsNamed

\* The text grate_shader_disasm_fs prints assembles to the same fragment program.
FragmentReassembles == shader = "fragment" => Fragment!Reassembles

\* grate_shader_disasm_linker prints the lines the linker program was written in.
LinkerReassembles == shader = "linker" => Linker!Reassembles
=============================================================================
