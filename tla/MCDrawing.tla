----------------------------- MODULE MCDrawing -----------------------------
(***************************************************************************)
(* Callers of Drawing: each has some texts and makes some of the calls, in *)
(* every order and as often as it likes.                                   *)
(***************************************************************************)
EXTENDS Drawing

Caller(texts, calls) == [texts |-> texts, calls |-> calls \cup
  {[op |-> "bind_program", program |-> p] : p \in 1..2} \cup
  {[op |-> "draw", primitive |-> "TRIANGLES", index_mode |-> "UINT16", indices |-> "indices"]}]

Text(vertex, fragment) == [vertex |-> vertex, fragment |-> fragment]
Uniform(i, name)       == [in |-> "uniforms", i |-> i, name |-> name]
Attribute(i, name)     == [in |-> "attributes", i |-> i, name |-> name]
Export(i, name)        == [in |-> "exports", i |-> i, name |-> name]
Constant(i, c, word)   == [in |-> "constants", i |-> i, c |-> c, word |-> word]
FUniform(i, part, name)    == [in |-> "uniforms", i |-> i, part |-> part, name |-> name]
FConstant(i, part, number) == [in |-> "constants", i |-> i, part |-> part, number |-> number]

\* Halves of one register with a constant in the other half or below, a
\* register of both halves, a matrix next to a vector, and the same names at
\* other places in the second program.
Matrices == <<
  Text(<<Uniform(1, "mvp"), Uniform(2, "tint"), Constant(0, 1, 7), Constant(2, 0, 8), Constant(5, 1, 9)>>,
       <<FConstant(0, "high", 3), FUniform(0, "low", "day"), FConstant(1, "fp20", 4),
         FUniform(1, "fp20", "night"), [in |-> "pseq_to_dw_exec_nb", n |-> 2]>>),
  Text(<<Uniform(0, "tint"), Uniform(2, "mvp"), Uniform(5, "last")>>,
       <<FUniform(0, "fp20", "night"), FUniform(1, "high", "day"), FUniform(1, "low", "dusk"),
         [in |-> "alu_buffer_size", n |-> 4], [in |-> "asm", kills |-> TRUE]>>)>>

UniformCalls ==
  {[op |-> "vertex_uniform", name |-> n, words |-> w] : n \in {"tint", "last"}, w \in {<<1, 2>>, <<3, 0>>}}
  \cup {[op |-> "vertex_uniform", name |-> "mvp", words |-> <<4, 5, 6, 0>>]}
  \cup {[op |-> "fragment_uniform", name |-> n, number |-> v] : n \in {"day", "night", "dusk"}, v \in 0..1}

\* Texts that are refused: one name over another, a half over the whole
\* register, a component set twice, numbers one too large.
Refused == {
  <<Text(<<Uniform(1, "tint"), Uniform(1, "mvp")>>, <<>>)>>,
  <<Text(<<Constant(1, 1, 5), Constant(1, 1, 5)>>, <<>>)>>,
  <<Text(<<Constant(6, 1, 5)>>, <<>>)>>,
  <<Text(<<>>, <<FUniform(0, "fp20", "day"), FUniform(0, "high", "dusk")>>)>>,
  <<Text(<<>>, <<FUniform(2, "low", "day")>>)>>,
  <<Text(<<>>, <<FConstant(2, "low", 1)>>)>>,
  <<Text(<<>>, <<[in |-> "alu_buffer_size", n |-> 5]>>)>>}

FaceCalls ==
  {[op |-> "front_cw", on |-> b] : b \in BOOLEAN}
  \cup {[op |-> "cull_face", face |-> f] : f \in Sides \cup {"NONE", "BOTH"}}

Pixbuf(format, layout) == [format |-> format, layout |-> layout]
Color   == Pixbuf("RGBA8888", "TILED_16x16")
Depth   == Pixbuf("D16_LINEAR", "TILED_16x16")
Stencil == Pixbuf("S8", "LINEAR")
Packed  == Pixbuf("ETC1", "LINEAR")

TargetCalls ==
  {[op |-> "bind_target", at |-> i, pixbuf |-> b] : i \in {0, 2}, b \in {Color, Stencil}}
  \cup {[op |-> "bind_target", at |-> 1, pixbuf |-> Color]}
  \cup {[op |-> "bind_target", at |-> i, pixbuf |-> Packed] : i \in {1, 3}}
  \cup {[op |-> "bind_depth", pixbuf |-> b] : b \in {Depth, Color}}
  \cup {[op |-> "bind_stencil", pixbuf |-> b] : b \in {Stencil, Depth}}
  \cup {[op |-> "enable_target", at |-> i, on |-> b] : i \in 0..2, b \in BOOLEAN}
  \cup {[op |-> o, on |-> b] : o \in {"depth_test", "stencil_test"}, b \in BOOLEAN}

Fed == <<Text(<<Attribute(0, "position"), Attribute(1, "color"), Export(0, "out")>>, <<>>),
         Text(<<Attribute(1, "position"), Export(1, "out")>>, <<[in |-> "asm", kills |-> TRUE]>>)>>

AttributeCalls ==
  {[op |-> "attrib_pointer", name |-> n, bo |-> b, type |-> "FLOAT32"] :
     n \in {"position", "color"}, b \in {"bo1", "bo2"}}
  \cup {[op |-> "enable_attrib", at |-> i, on |-> b] : i \in 0..2, b \in BOOLEAN}

Image(layout) == [pixbuf |-> Pixbuf("RGBA8888", layout), mipmap_pixbuf |-> None, mipmap_enabled |-> FALSE]

\* The rest of the calls.
OtherCalls ==
  {[op |-> "depth_func", func |-> 3], [op |-> "depth_write", on |-> TRUE], [op |-> "stencil_test", on |-> TRUE],
   [op |-> "bind_texture", at |-> 0, texture |-> Image("LINEAR")],
   [op |-> "bind_texture", at |-> 1, texture |-> [Image("LINEAR") EXCEPT !.mipmap_enabled = TRUE]],
   [op |-> "bind_texture", at |-> 0, texture |-> None],
   [op |-> "parameter", parameter |-> "scissor", number |-> 1],
   [op |-> "dither_target", at |-> 1, on |-> TRUE],
   [op |-> "stencil_func", face |-> "FRONT", func |-> 1, ref |-> 2, mask |-> 3],
   [op |-> "stencil_func", face |-> "BOTH", func |-> 2, ref |-> 1, mask |-> 3],
   [op |-> "stencil_ops", face |-> "BACK", ops |-> <<1, 2, 3>>]}

AllCases ==
  {Caller(Matrices, UniformCalls), Caller(Fed, AttributeCalls),
   Caller(<<Fed[1]>>, FaceCalls), Caller(<<Fed[1]>>, TargetCalls), Caller(<<Fed[2]>>, OtherCalls)}
  \cup {Caller(t, {}) : t \in Refused}

=============================================================================
