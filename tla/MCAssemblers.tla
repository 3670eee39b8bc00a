---------------------------- MODULE MCAssemblers ----------------------------
(***************************************************************************)
(* An instance of Assemblers for TLC.                                      *)
(*                                                                         *)
(* Vertex: single instructions with every two operations from a small set  *)
(* of each form, in both orders, over sources that can and that cannot     *)
(* share an instruction; programs of up to one instruction more than fit.  *)
(* Fragment: each text varies one thing, over its boundary values; the     *)
(* batches of a text differ, so that a wrong schedule shows.  Linker: every *)
(* form of a line, up to one line more than fits.                          *)
(***************************************************************************)
EXTENDS Assemblers

\* The forms of the assemblers' texts, apart from what is written in them.
VertexForms == INSTANCE VertexAsm WITH Texts <- {}, Limit <- VertexLimit
FragmentForms == INSTANCE FragmentDisasm WITH Texts <- {}, Limit <- FragmentLimit

-----------------------------------------------------------------------------
(* Vertex programs *)

Src(t, i, rel) == [type |-> t, index |-> i, rel |-> rel, swizzle |-> VertexForms!XYZW, negate |-> FALSE, absolute |-> FALSE]
Neg(o) == [o EXCEPT !.negate = TRUE]
Abs(o) == [o EXCEPT !.absolute = TRUE]

r0 == Src("temporary", 0, None)
r1 == [Src("temporary", 1, None) EXCEPT !.swizzle = <<3, 2, 1, 0>>]
Few == {r0, r1, Src("attribute", 0, None), Src("attribute", 1, 2), Src("uniform", 1, None), Src("uniform", 1, 3)}
VertexSources == Few \cup {Neg(r1), Abs(r0), Neg(Src("uniform", 1, 0)), Src("uniform", 2, 3), Src("undefined", 0, None)}
TooFar == {Src("temporary", 70, None), Src("attribute", 16, None), Src("uniform", 1024, None)}

Dst(i, w) == [index |-> i, writes |-> w]
Vector(op, dst, src) == [kind |-> "vector", op |-> op, dst |-> dst, src |-> src, target |-> 0]
Scalar(op, dst, src, n) == [kind |-> "scalar", op |-> op, dst |-> dst, src |-> src, target |-> n]

VectorAlone == {Vector(op, Dst(0, {}), <<>>) : op \in {"NOP", "PUSHA", "POPA"}}
ScalarAlone == {Scalar(op, Dst(0, {}), <<>>, 0) : op \in {"NOP", "RET", "PUSHA", "POPA"}}
Vectors(S) ==
    {Vector("MUL", Dst(2, {1}), <<x, y>>) : x, y \in S}
    \cup {Vector("ADD", Dst(63, {4}), <<x, y>>) : x, y \in S}
Mads(S) == {Vector("MAD", Dst(3, {1, 2, 3, 4}), <<x, y, z>>) : x, y, z \in S}
Scalars(S) == {Scalar("RCP", Dst(4, {3}), <<x>>, 0) : x \in S} \cup {Scalar("BRA", Dst(0, {}), <<>>, n) : n \in {0, 27, 255}}

Flag(f) == [kind |-> "option", option |-> "flag", flag |-> f]
Cr(n) == [kind |-> "option", option |-> "cr", n |-> n]
P(s) == [kind |-> "option", option |-> "p", swizzle |-> s]
Export(i, rel, v) == [kind |-> "option", option |-> "export", rel |-> rel, index |-> i, vector |-> v]

Exports == {<<Export(7, None, TRUE)>>, <<Export(0, 3, FALSE)>>}
MoreExports == {<<Export(0, 3, FALSE), Export(2, None, TRUE)>>}
MoreOptions ==
    {<<Flag(f), Cr(1), P(<<3, 3, 0, 1>>)>> : f \in VertexForms!Flags} \cup {<<Cr(2)>>, <<Export(16, None, TRUE)>>}

\* Every two operations, of which the sources may conflict.
Pairs == [ends |-> {FALSE}, options |-> Exports, vectors |-> Vectors(VertexSources), scalars |-> Scalars(VertexSources)]
Triples == [ends |-> {TRUE}, options |-> {<<>>}, vectors |-> Mads(Few \cup {Abs(r0), Neg(Src("uniform", 1, 0))}), scalars |-> Scalars({r0, Abs(r0), Neg(r1)})]

\* Operations without destination or sources, every option, what is refused.
Others ==
    [ends |-> BOOLEAN, options |-> MoreOptions \cup MoreExports,
     vectors |-> VectorAlone \cup Vectors(TooFar \cup {r1}) \cup {Vector("MOV", Dst(1, {1, 2}), <<r1>>)}
         \cup {Vector(op, Dst(None, {2}), <<r1>>) : op \in {"ARL", "ARR"}} \cup {Vector("ARA", Dst(None, {2}), <<>>)}
         \cup {Vector(op, Dst(5, {2}), <<>>) : op \in {"STR", "SFL", "SSG", "TXL"}}
         \cup {Vector("MOV", Dst(32, {1}), <<r0>>)},
     scalars |-> ScalarAlone \cup Scalars({r1}) \cup {Scalar("CAL", Dst(0, {}), <<>>, 256)}]

\* What the instructions before leave behind.
Brief(S) ==
    [ends |-> BOOLEAN, options |-> {<<>>, <<Export(0, 3, FALSE)>>}, vectors |-> {Vector("ADD", Dst(2, {1}), <<x, y>>) : x, y \in S},
     scalars |-> {Scalar("BRA", Dst(0, {}), <<>>, 27)}]

AllVertexTexts ==
    {<<Pairs>>, <<Triples>>, <<Others>>, <<Brief(Few), Brief({r1, Abs(r0)})>>, <<Brief({r0}), Brief({r1}), Brief({r0})>>}

-----------------------------------------------------------------------------
(* Fragment programs *)

Plain(bank, n, part) ==
    [bank |-> bank, n |-> n, part |-> part, absolute |-> FALSE, minus |-> 0, times |-> 1, negate |-> FALSE]
Reg(bank, n) == Plain(bank, n, "full")
One == Reg("lowp", 1)
Zero == Reg("lowp", 0)
To(bank, n, halves) == [bank |-> bank, n |-> n, halves |-> halves]
Both == {"l", "h"}

Op(x, dst, a, b, c, d, modifiers) ==
    [kind |-> "operation", x |-> x, opcode |-> IF x = 1 THEN "MUL" ELSE "CSEL", dst |-> dst, src |-> <<a, b, c>>,
     srcD |-> d, modifiers |-> modifiers]
Simple(a) == Op(0, To("row", 2, Both), a, One, Zero, None, {})

Boundaries ==
    {<<"row", 0>>, <<"row", 15>>, <<"row", 16>>, <<"global", 0>>, <<"global", 7>>, <<"global", 8>>, <<"alu", 3>>,
     <<"alu", 4>>, <<"uniform", 0>>, <<"uniform", 31>>, <<"uniform", 32>>, <<"uniform", 44>>, <<"uniform", 64>>}
Fixed == {Reg("cr", 0), Reg("cr", 15), Reg("cr", 16), One, Zero, Reg("posx", 0), Reg("posy", 0), Reg("pface", 0)}
Registers == {Plain(r[1], r[2], part) : r \in Boundaries, part \in {"full", "l", "h"}} \cup Fixed
Modified ==
    {[Reg("row", 3) EXCEPT !.absolute = a, !.minus = m, !.times = t, !.negate = n] :
        a, n \in BOOLEAN, m \in 0..1, t \in {1, 2, 4}}
SourcesD ==
    {None, One, Zero, Reg("row", 1)} \cup {Plain(b, 0, part) : b \in {"rB", "rC"}, part \in {"full", "l", "h"}}
    \cup {[Reg("rC", 0) EXCEPT !.absolute = TRUE, !.minus = 1]}
Destinations ==
    {To(b[1], b[2], h) : b \in {<<"row", 0>>, <<"row", 15>>, <<"row", 16>>, <<"global", 7>>, <<"uniform", 7>>, <<"uniform", 8>>},
                         h \in SUBSET Both}
    \cup {To("cr", n, {}) : n \in {0, 15, 16}} \cup {To("kill", 0, {}), To("lowp", 0, {})}

Sources1 == {<<Simple(o)>> : o \in Registers \cup Modified}
Sources23 ==
    {<<Op(1, To("row", 1, {"h"}), One, o, Reg("row", 2), Reg("rB", 0), {})>> : o \in Registers}
    \cup {<<Op(2, To("row", 1, {"l"}), One, Reg("row", 2), o, Reg("rC", 0), {})>> : o \in Registers}
Others4 ==
    {<<Op(3, To("row", 0, Both), One, Zero, One, d, {})>> : d \in SourcesD}
    \cup {<<Op(0, d, One, Zero, One, None, {"sat"})>> : d \in Destinations}
    \cup {<<Op(0, To("row", 0, Both), One, Zero, One, None, m)>> :
             m \in UNION {{{}, {f}, {f, "this"}, {f, "eq"}, {f, "other"}} : f \in {"x2", "x4", "/2", "gt", "ge", "sat"}}
                   \cup {{"x2", "x4"}, {"eq", "gt"}}}
    \cup {<<[kind |-> "nop", x |-> 0], Simple(One)>>, <<Simple(One), [kind |-> "nop", x |-> 0]>>,
          <<Op(3, To("row", 0, Both), One, Zero, One, None, {}), [kind |-> "nop", x |-> 3]>>,
          <<[kind |-> "raw", x |-> 1, raw |-> FragmentForms!Nop(TRUE, FALSE)]>>}

Constants(cs) == [kind |-> "immediates", x |-> 3, constants |-> cs]
C(n, part, value) == [n |-> n, part |-> part, value |-> value]
Floats == {0, 1, 100000, 123456, 500000, 999999, 1000000, 1996094, 2000000, 3500001, 7999999}
Given ==
    {<<Simple(Plain("imm", 1, part)), Constants(<<C(1, part, v)>>)>> :
        part \in {"full", "l", "h"}, v \in Floats \cup {-f : f \in Floats}}
    \cup {<<Simple(Plain("imm", 2, "l")), Op(1, To("row", 1, {"h"}), Plain("imm", 0, "full"), Plain("imm", 2, "h"), One, None, {}),
            Constants(<<C(2, "h", -250000), C(0, "full", -1500000), C(2, "l", 750000)>>)>>,
          <<Simple(Reg("imm", 0)), Constants(<<C(1, "l", 250000)>>)>>,
          <<Simple(Reg("imm", 0))>>, <<Constants(<<C(0, "l", 250000)>>)>>, <<Constants(<<C(3, "l", 250000)>>)>>,
          <<[Simple(Reg("imm", 3)) EXCEPT !.x = 1]>>}

Mul(f, d, a, b) == [func |-> f, dst |-> d, src0 |-> a, src1 |-> b]
N(name, n) == [name |-> name, n |-> n]
Ipl(t, o, i) == [func |-> "ipl", var |-> [v \in 1..4 |-> [saturate |-> v = 2, opcode |-> IF v = t THEN o ELSE 0, source |-> IF v = t THEN i ELSE 0]]]
Sfu(o, r) == [func |-> "sfu", opcode |-> o, reg |-> r]
Mfu(funcs) == [raw |-> None, funcs |-> funcs]
MfuSources == {N("row", 3), N("row", 4), N("src", 4), N("src", 17), N("sfu", 0), N("bar", 1), N("#", 1), N("#", 0)}
MfuLines ==
    {Mfu(<<>>), Mfu(<<Sfu(9, 63)>>), Mfu(<<Sfu(11, 64)>>), Mfu(<<Sfu(1, 2), Mul("mul0", N("bar", 0), N("sfu", 0), N("row", 1)), Ipl(2, 1, 5)>>),
     [raw |-> [FragmentForms!NoMfu EXCEPT !.opcode = 14]]}
    \cup {Mfu(<<Mul("mul0", d, N("row", 0), s)>>) : d \in {N("row", 0), N("dst", 3), N("dst", 9), N("bar", 0)}, s \in MfuSources}
    \cup {Mfu(<<Mul("mul1", N("row", 2), s, N("#", 1))>>) : s \in MfuSources}
    \cup {Mfu(<<Ipl(v, o, i)>>) : v \in 1..4, o \in 1..2, i \in {0, 15, 16}}

Pseqs == {[data |-> 0], [data |-> 1]}
Texs ==
    {[raw |-> None, dst |-> d, src |-> s, sampler |-> i, bias |-> b] : d, s \in {0, 1, 2}, i \in {0, 15, 16}, b \in BOOLEAN}
    \cup {[raw |-> FragmentForms!NoTex]}
Dws ==
    {[raw |-> None, stencil |-> s, target |-> t, src |-> r] : s \in BOOLEAN, t \in {1, 2, 15, 16}, r \in {0, 1, 2}}
    \cup {[raw |-> FragmentForms!NoDw]}

Batch(mfu, alu) == [pseq |-> <<>>, mfu |-> mfu, tex |-> <<>>, alu |-> alu, complement |-> <<>>, dw |-> <<>>]
Units == [Batch(<<>>, <<>>) EXCEPT !.pseq = <<Pseqs>>, !.tex = <<Texs>>, !.complement = <<Pseqs>>, !.dw = <<Dws>>]
M(n) == {Mfu(<<Sfu(1, n)>>)}
A(n) == {<<Simple(Reg("row", n))>>}

AllFragmentTexts ==
    {<<Batch(<<>>, <<Sources1>>)>>, <<Batch(<<>>, <<Sources23>>)>>, <<Batch(<<>>, <<Others4>>)>>,
     <<Batch(<<>>, <<Given>>)>>, <<Batch(<<MfuLines>>, <<>>)>>, <<Units>>,
     <<Batch(<<M(1), M(2)>>, <<A(1)>>), Batch(<<M(3)>>, <<A(3), A(4)>>), Batch(<<M(5), M(6)>>, <<A(5)>>)>>,
     <<Batch(<<M(1), M(2), M(3), M(4)>>, <<>>)>>, <<Batch(<<>>, <<A(1), A(2), A(3), A(4)>>), Batch(<<>>, <<A(5), A(6)>>)>>,
     [b \in 1..5 |-> Batch(<<M(b)>>, <<>>)]}

-----------------------------------------------------------------------------
(* Linker programs *)

Column(t, m) == [type |-> t, modifiers |-> m]
Link(c, row, swizzle, export, z) ==
    [columns |-> [i \in 1..4 |-> IF i <= 2 THEN c ELSE Column("NOP", {})], row |-> row, swizzle |-> swizzle, export |-> export, z |-> z]
AnyLink ==
    {Link(Column(t, m), 3, <<3, 0, 1, 2>>, 7, FALSE) : t \in {"NOP", "fx10.l", "fx10.h", "fp20"}, m \in SUBSET {"cw", "cl", "dis"}}
    \cup {Link(Column("fp20", {}), row, <<0, 1, 2, 3>>, e, z) : row \in {0, 1, 15, 16}, e \in {0, 15, 16}, z \in BOOLEAN}
    \cup {Link(Column("NOP", {}), 0, <<0, 0, 0, 0>>, 0, FALSE)}

AllLinkerTexts == {<<AnyLink, AnyLink, {Link(Column("fp20", {}), 2, <<0, 0, 0, 0>>, 1, FALSE)}>>}
=============================================================================
