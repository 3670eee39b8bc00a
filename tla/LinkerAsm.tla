----------------------------- MODULE LinkerAsm -----------------------------
(***************************************************************************)
(* The assembler of linker programs (libgrate/linker_asm.y, grate-asm.c)   *)
(* and its disassembler (linker_disasm.c).  A LINK instruction takes a     *)
(* vector the vertex shader exports into a row of the TRAM, from where the *)
(* fragment shader interpolates its components.                            *)
(***************************************************************************)
EXTENDS Integers, Sequences, SequencesExt

CONSTANTS
    Texts,      \* sequences of sets of LINK lines: [columns, row, swizzle, export, z]
    Limit       \* 32: instructions that fit

VARIABLES
    text,       \* member of Texts
    asm,        \* [refused, instructions, used_tram_rows_nb], linker_asm.y's static state
    said,       \* the lines that were read
    status      \* "parsing", "refused", "assembled"

vars == <<text, asm, said, status>>

Fresh == [refused |-> FALSE, instructions |-> <<>>, used_tram_rows_nb |-> 1]

Types == <<"NOP", "fx10.l", "fx10.h", "fp20">>

NoColumn == [type |-> 0, cw |-> FALSE, cl |-> FALSE, dis |-> FALSE]

\* link_instr when its 64 bits are 0.
NoLink ==
    [columns |-> [c \in 1..4 |-> NoColumn], row |-> 0, swizzle |-> <<0, 0, 0, 0>>, export |-> 0, z |-> FALSE]

\* COLUMN, TYPE, MODIFIERS
COLUMN(o) ==
    [type |-> CHOOSE t \in 0..3 : Types[t + 1] = o.type,
     cw |-> "cw" \in o.modifiers, cl |-> "cl" \in o.modifiers, dis |-> "dis" \in o.modifiers]

\* The second limit is put to the first component of the swizzle, not to the export.
LineRefused(o) == o.row > 15 \/ o.swizzle[1] > 15

\* Mutant: the last row is not counted.
UsedRows_OneLess(n, row) == IF row > n THEN row ELSE n

UsedRows(n, row) == IF row >= n THEN row + 1 ELSE n

\* Of the export four bits are kept.
LinkOf(o) ==
    [columns |-> [c \in 1..4 |-> COLUMN(o.columns[c])], row |-> o.row, swizzle |-> o.swizzle,
     export |-> o.export % 16, z |-> o.z]

\* instructions, instruction
Read(s, o) ==
    IF LineRefused(o) \/ Len(s.instructions) = Limit THEN [s EXCEPT !.refused = TRUE]
    ELSE [s EXCEPT !.instructions = Append(@, LinkOf(o)), !.used_tram_rows_nb = UsedRows(@, o.row)]

Init ==
    /\ text \in Texts
    /\ asm = Fresh
    /\ said = <<>>
    /\ status = "parsing"

LINK ==
    /\ status = "parsing" /\ Len(said) < Len(text)
    /\ \E o \in text[Len(said) + 1] :
           /\ asm' = Read(asm, o)
           /\ said' = Append(said, o)
    /\ status' = IF asm'.refused THEN "refused" ELSE status
    /\ UNCHANGED text

\* grate_shader_parse_linker_asm after the parser: a program may be empty.
Assembled ==
    /\ status = "parsing"
    /\ status' = "assembled"
    /\ UNCHANGED <<text, asm, said>>

Next == LINK \/ Assembled

-----------------------------------------------------------------------------
(* The disassembler *)

\* tram_component, tram_swizzle, linker_instruction_disassemble
linker_instruction_disassemble(i) ==
    [columns |-> [c \in 1..4 |->
         [type |-> Types[i.columns[c].type + 1],
          modifiers |-> (IF i.columns[c].dis THEN {"dis"} ELSE {}) \cup (IF i.columns[c].cl THEN {"cl"} ELSE {})
                        \cup (IF i.columns[c].cw THEN {"cw"} ELSE {})]],
     row |-> i.row, swizzle |-> i.swizzle, export |-> i.export, z |-> i.z]

\* grate_shader_disasm_linker: a full program is refused, an instruction of all zeroes is not printed.
StreamRefused(instructions) == 2 * Len(instructions) >= 2 * Limit

disasm_linker(instructions) ==
    LET shown == SelectSeq(instructions, LAMBDA i : i # NoLink)
    IN  [n \in DOMAIN shown |-> linker_instruction_disassemble(shown[n])]

-----------------------------------------------------------------------------
(* Properties *)

\* The disassembler prints the very lines the program was written in, but for
\* those that are all zeroes, and these lines use as many rows of the TRAM as
\* the program: what the 3D context divides the TRAM by. An export above 15
\* is out: it is cut to four bits instead of being refused.
Reassembles ==
    (status = "assembled" /\ Len(said) < Limit /\ \A n \in DOMAIN said : said[n].export <= 15) =>
        LET shown == disasm_linker(asm.instructions)
            again == FoldLeft(Read, Fresh, shown)
        IN  /\ ~StreamRefused(asm.instructions)
            /\ shown = SelectSeq(said, LAMBDA o : LinkOf(o) # NoLink)
            /\ ~again.refused
            /\ again.used_tram_rows_nb = asm.used_tram_rows_nb
            /\ \A n \in DOMAIN said : said[n].row < asm.used_tram_rows_nb
=============================================================================
