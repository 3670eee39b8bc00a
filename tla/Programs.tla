------------------------------ MODULE Programs ------------------------------
(***************************************************************************)
(* The named parts of a program: the sections .attributes, .exports,       *)
(* .uniforms and .constants of an assembler text, the symbols that         *)
(* libgrate/grate-asm.c makes of them and the program that                 *)
(* grate_program_link makes of the symbols.  A text is the sequence of its *)
(* lines; an instruction is left out (VertexAsm, FragmentAsm), but for     *)
(* whether one of the fragment program's kills.                            *)
(***************************************************************************)
EXTENDS Integers, Sequences, FiniteSets, SequencesExt

CONSTANTS None,
          VectorSize,        \* components of a vertex register: 4
          VertexRegisters,   \* constants and uniforms of a vertex program: 256
          FragmentRegisters, \* of a fragment program: 32
          Attributes         \* vertex attributes, and exports: 16

ASSUME ProgramsAssumption ==
  /\ VectorSize \in 1..4
  /\ \A n \in {VertexRegisters, FragmentRegisters, Attributes} : n \in Nat \ {0}

Upto(n) == 0 .. (n - 1)

-----------------------------------------------------------------------------
(* Words.  A fragment register is a word of two halves of ten bits: an     *)
(* FX10 number fills one, an FP20 number both.  v is the number.           *)

Half(v, k) == IF v = 0 THEN 0 ELSE 10 * v + k
NoWord     == [low |-> 0, high |-> 0]

float_to_fp20(v) == [low |-> Half(v, 1), high |-> Half(v, 2)]
float_to_fx10(v) == Half(v, 3)

\* Mutant: setting a half clears the other one.
Put_ClearsOther(word, part, v) ==
  IF part = "fp20" THEN float_to_fp20(v)
  ELSE [h \in {"low", "high"} |-> IF h = part THEN float_to_fx10(v) ELSE 0]

\* The word a register holds after one of its halves, or both, are set.
Put(word, part, v) ==
  CASE part = "fp20" -> float_to_fp20(v)
    [] part = "low"  -> [word EXCEPT !.low = float_to_fx10(v)]
    [] part = "high" -> [word EXCEPT !.high = float_to_fx10(v)]

-----------------------------------------------------------------------------
(* The sections of a vertex program.                                       *)

Limit == [attributes |-> Attributes, exports |-> Attributes,
          uniforms |-> VertexRegisters, constants |-> VertexRegisters]

\* The entry of a table, or component of a constant, that a line fills.
Place(l) == IF l.in = "constants" THEN <<l.in, l.i, l.c>> ELSE <<l.in, l.i>>

\* A line with a number beyond the limit, or for a place that a line before it fills
VertexLineRefused(text, k) ==
  \/ text[k].i >= Limit[text[k].in]
  \/ \E j \in 1..(k - 1) : Place(text[j]) = Place(text[k])

\* What the line for a place says, which is field "of" of it; None without such a line
Filled(text, place, of) ==
  LET lines == {l \in Range(text) : Place(l) = place}
  IN IF lines = {} THEN None ELSE (CHOOSE l \in lines : TRUE)[of]

VertexTables(text) ==
  IF \E k \in DOMAIN text : VertexLineRefused(text, k) THEN None
  ELSE [attributes |-> [i \in Upto(Attributes) |-> Filled(text, <<"attributes", i>>, "name")],
        exports    |-> [i \in Upto(Attributes) |-> Filled(text, <<"exports", i>>, "name")],
        uniforms   |-> [i \in Upto(VertexRegisters) |-> Filled(text, <<"uniforms", i>>, "name")],
        constants  |-> [i \in Upto(VertexRegisters) |->
                          [c \in Upto(VectorSize) |-> Filled(text, <<"constants", i, c>>, "word")]]]

-----------------------------------------------------------------------------
(* The sections of a fragment program.  A slot of the uniforms is half a   *)
(* register: 2i its low half, or all of it, and 2i+1 its high half.        *)

NoFragmentTables ==
  [uniforms  |-> [s \in Upto(2 * FragmentRegisters) |-> None],
   constants |-> [i \in Upto(FragmentRegisters) |-> NoWord],
   alu_buffer_size |-> 1, pseq_to_dw_exec_nb |-> 1, discards |-> FALSE]

Slots(i, part) == (IF part # "high" THEN {2 * i} ELSE {})
                  \cup (IF part # "low" THEN {2 * i + 1} ELSE {})

FragmentLineRefused(t, l) ==
  CASE l.in = "alu_buffer_size" -> l.n # 0 /\ l.n > 4
    [] l.in \in {"pseq_to_dw_exec_nb", "asm"} -> FALSE
    [] l.in = "constants" -> l.i >= FragmentRegisters
    [] l.in = "uniforms" -> IF l.i >= FragmentRegisters THEN TRUE
                            ELSE \E s \in Slots(l.i, l.part) : t.uniforms[s] # None

\* A constant may be set again.  One that is given in hexadecimal is cut to
\* the halves it sets, and is the word in this model that has these halves.
FragmentLine(t, l) ==
  CASE l.in = "alu_buffer_size"    -> [t EXCEPT !.alu_buffer_size = l.n]
    [] l.in = "pseq_to_dw_exec_nb" -> [t EXCEPT !.pseq_to_dw_exec_nb = l.n]
    [] l.in = "asm"                -> [t EXCEPT !.discards = @ \/ l.kills]
    [] l.in = "constants" -> [t EXCEPT !.constants[l.i] = Put(@, l.part, l.number)]
    [] l.in = "uniforms"  ->
         [t EXCEPT !.uniforms = [s \in DOMAIN @ |-> IF s \in Slots(l.i, l.part)
                                                    THEN [name |-> l.name, part |-> l.part]
                                                    ELSE @[s]]]

\* The tables after each of the lines, None from a refused one on
FragmentStates(text) ==
  LET t[k \in 0..Len(text)] ==
        IF k = 0 THEN NoFragmentTables
        ELSE IF t[k - 1] = None THEN None
        ELSE IF FragmentLineRefused(t[k - 1], text[k]) THEN None
        ELSE FragmentLine(t[k - 1], text[k])
  IN t

FragmentTables(text) == FragmentStates(text)[Len(text)]

-----------------------------------------------------------------------------
(* The symbols of a shader, and the program of two shaders.  Where a       *)
(* symbol stands in its table is the order of the locations, so the first  *)
(* one of a name is the one with the least location.                       *)

Named(table) == {[name |-> table[i], at |-> i] : i \in {j \in DOMAIN table : table[j] # None}}

UniformSymbols(uniforms) ==
  {[name |-> uniforms[s].name, at |-> s, lowp |-> uniforms[s].part # "fp20"] :
     s \in {k \in DOMAIN uniforms : /\ uniforms[k] # None
                                    /\ ~(k % 2 = 1 /\ uniforms[k].part = "fp20")}}

IsConstant(vector) == \E c \in DOMAIN vector : vector[c] # None

VertexConstants(constants) ==
  [k \in Upto(VectorSize * VertexRegisters) |->
     LET v == constants[k \div VectorSize]
     IN IF IsConstant(v) /\ v[k % VectorSize] # None THEN v[k % VectorSize] ELSE 0]

\* grate_program_link.  A fragment constant of value 0 has no symbol; the
\* program's constants start as zeroes.  text is not in the program: it is
\* what the properties compare the program with.
grate_program_link(vs, fs, text) ==
  [attributes   |-> Named(vs.attributes),
   inputs       |-> {s.at : s \in Named(vs.attributes)},
   outputs      |-> {s.at : s \in Named(vs.exports)},
   vs_uniforms  |-> Named(vs.uniforms),
   fs_uniforms  |-> UniformSymbols(fs.uniforms),
   vs_constants |-> VertexConstants(vs.constants),
   fs_constants |-> fs.constants,
   alu_buf_size |-> fs.alu_buffer_size,
   pseq_to_dw_nb |-> fs.pseq_to_dw_exec_nb,
   discards_fragment |-> fs.discards,
   text         |-> text]

\* The first symbol of a name, or None: the functions return -1.
Location(symbols, name) ==
  LET S == {s \in symbols : s.name = name}
  IN IF S = {} THEN None ELSE (CHOOSE s \in S : \A o \in S : s.at <= o.at).at

=============================================================================
