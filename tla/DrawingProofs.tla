----------------------------- MODULE DrawingProofs -----------------------------
(***************************************************************************)
(* Proofs about Drawing: the job of a draw culls the side that was asked   *)
(* for and has the buffers that were given last, in whichever order the    *)
(* setters are called.                                                     *)
(***************************************************************************)
EXTENDS Drawing, SequenceTheorems, WellFoundedInduction, TLAPS

\* The fields of the state.
LEMMA InitialFields ==
  /\ DOMAIN EmptyContext = ContextFields
  /\ DOMAIN NothingAsked = AskedFields
BY DEF EmptyContext, NothingAsked, ContextFields, AskedFields

\* A step that leaves alone what the invariant speaks of, but for what it is about.
LEMMA SetterStep ==
  ASSUME IInv, drawn' = None, UNCHANGED <<case, programs>>,
         DOMAIN ctx' = ContextFields, DOMAIN asked' = AskedFields
  PROVE  /\ FieldsInv' /\ DrawnInv'
         /\ (ctx'.program = ctx.program => ProgramsInv')
         /\ (UNCHANGED <<ctx.cull_face, ctx.tri_face_front_cw, asked.face>> => FaceInv')
         /\ (UNCHANGED <<ctx.render_targets, ctx.targets_enabled, asked.targets>> => TargetsInv')
         /\ (UNCHANGED <<ctx.vtx_attributes, asked.attributes>> => AttributesInv')
<1>1. FieldsInv'
  BY DEF FieldsInv
<1>2. DrawnInv'
  BY DEF DrawnInv
<1>3. ASSUME ctx'.program = ctx.program
      PROVE  ProgramsInv'
  BY <1>3 DEF IInv, ProgramsInv, Bound, Linked
<1>4. ASSUME UNCHANGED <<ctx.cull_face, ctx.tri_face_front_cw, asked.face>>
      PROVE  FaceInv'
  BY <1>4 DEF IInv, FaceInv
<1>5. ASSUME UNCHANGED <<ctx.render_targets, ctx.targets_enabled, asked.targets>>
      PROVE  TargetsInv'
  BY <1>5 DEF IInv, TargetsInv
<1>6. ASSUME UNCHANGED <<ctx.vtx_attributes, asked.attributes>>
      PROVE  AttributesInv'
  BY <1>6 DEF IInv, AttributesInv
<1> QED
  BY <1>1, <1>2, <1>3, <1>4, <1>5, <1>6

LEMMA PlainStep ==
  ASSUME IInv, drawn' = None, UNCHANGED <<case, programs>>,
         DOMAIN ctx' = ContextFields, asked' = asked, ctx'.program = ctx.program,
         UNCHANGED <<ctx.cull_face, ctx.tri_face_front_cw, ctx.render_targets,
                     ctx.targets_enabled, ctx.vtx_attributes>>
  PROVE  IInv'
<1>1. DOMAIN asked' = AskedFields
  BY DEF IInv, FieldsInv
<1> QED
  BY <1>1, SetterStep DEF IInv

-----------------------------------------------------------------------------
(* Setters that are not about faces or buffers                             *)

LEMMA ParameterSteps ==
  ASSUME IInv,
         \/ EnableVertexAttribArray \/ SetDepthFunc \/ DepthTest \/ DepthWrite \/ StencilTest
         \/ SetStencilFunc \/ SetStencilOps \/ BindTexture \/ SetParameter
  PROVE  IInv'
<1>1. DOMAIN ctx = ContextFields
  BY DEF IInv, FieldsInv
<1>2. /\ drawn' = None /\ UNCHANGED <<case, programs>> /\ asked' = asked
      /\ DOMAIN ctx' = ContextFields /\ ctx'.program = ctx.program
      /\ ctx'.cull_face = ctx.cull_face /\ ctx'.tri_face_front_cw = ctx.tri_face_front_cw
      /\ ctx'.render_targets = ctx.render_targets /\ ctx'.targets_enabled = ctx.targets_enabled
      /\ ctx'.vtx_attributes = ctx.vtx_attributes
  <2>1. CASE EnableVertexAttribArray \/ SetDepthFunc \/ DepthTest \/ DepthWrite \/ StencilTest
    BY <1>1, <2>1 DEF EnableVertexAttribArray, SetDepthFunc, DepthTest, DepthWrite, StencilTest, Sets,
                      ContextFields
  <2>2. CASE SetStencilFunc
    BY <1>1, <2>2 DEF SetStencilFunc, Sets, ContextFields
  <2>3. CASE SetStencilOps
    BY <1>1, <2>3 DEF SetStencilOps, Sets, ContextFields
  <2>4. CASE BindTexture \/ SetParameter
    BY <1>1, <2>4 DEF BindTexture, SetParameter, Sets, ContextFields
  <2> QED
    BY <2>1, <2>2, <2>3, <2>4
<1> QED
  BY <1>2, PlainStep

\* Uniforms leave the buffers alone.
LEMMA UniformSteps ==
  ASSUME IInv, SetVertexUniform \/ SetFragmentUniform
  PROVE  IInv'
<1>1. DOMAIN ctx = ContextFields /\ DOMAIN asked = AskedFields
  BY DEF IInv, FieldsInv
<1>2. CASE SetVertexUniform
  <2>1. PICK v, m : Sets([ctx EXCEPT !.vs_uniforms = v], [asked EXCEPT !.vertex = m])
    BY <1>2, Zenon DEF SetVertexUniform
  <2> QED
    BY <1>1, <2>1, SetterStep DEF IInv, Sets, ContextFields, AskedFields
<1>3. CASE SetFragmentUniform
  <2>1. PICK i, v, m : Sets([ctx EXCEPT !.fs_uniforms[i] = v], [asked EXCEPT !.fragment = m])
    BY <1>3, Zenon DEF SetFragmentUniform
  <2> QED
    BY <1>1, <2>1, SetterStep DEF IInv, Sets, ContextFields, AskedFields
<1> QED
  BY <1>2, <1>3

-----------------------------------------------------------------------------
(* Faces                                                                   *)

\* Turning the front round turns the winding of both sides.
LEMMA WindingTurns ==
  ASSUME NEW side \in Sides, NEW cw \in BOOLEAN, NEW on \in BOOLEAN
  PROVE  /\ Winding(side, cw) \in {"CW", "CCW"}
         /\ cw # on => Winding(side, on) = Other(Winding(side, cw))
BY DEF Winding, Other

LEMMA FaceSteps ==
  ASSUME IInv, SetFrontDirectionIsCw \/ SetCullFace
  PROVE  IInv'
<1>1. DOMAIN ctx = ContextFields /\ DOMAIN asked = AskedFields /\ case \in Cases
  BY DEF IInv, FieldsInv, ProgramsInv
<1>2. /\ drawn' = None /\ UNCHANGED <<case, programs>>
      /\ DOMAIN ctx' = ContextFields /\ DOMAIN asked' = AskedFields /\ ctx'.program = ctx.program
      /\ ctx'.render_targets = ctx.render_targets /\ ctx'.targets_enabled = ctx.targets_enabled
      /\ ctx'.vtx_attributes = ctx.vtx_attributes
      /\ asked'.targets = asked.targets /\ asked'.attributes = asked.attributes
  BY <1>1 DEF SetFrontDirectionIsCw, SetCullFace, Sets, ContextFields, AskedFields
<1>3. FaceInv
  BY DEF IInv
<1>4. CASE SetFrontDirectionIsCw
  <2>1. PICK c \in Calls("front_cw") :
          /\ ctx' = [ctx EXCEPT !.cull_face = IF @ \in {"CW", "CCW"} /\ ctx.tri_face_front_cw # c.on
                                              THEN Other(@) ELSE @,
                                !.tri_face_front_cw = c.on]
          /\ asked' = asked
    BY <1>4 DEF SetFrontDirectionIsCw, Sets
  <2>2. c.on \in BOOLEAN
    BY <1>1, <2>1, CasesAssumption DEF Calls
  <2>3. /\ ctx'.tri_face_front_cw = c.on
        /\ ctx'.cull_face = IF ctx.cull_face \in {"CW", "CCW"} /\ ctx.tri_face_front_cw # c.on
                            THEN Other(ctx.cull_face) ELSE ctx.cull_face
    BY <1>1, <2>1 DEF ContextFields
  <2>4. FaceInv'
    <3>1. CASE asked.face \in Sides
      BY <1>3, <2>1, <2>2, <2>3, <3>1, WindingTurns DEF FaceInv
    <3>2. CASE asked.face \notin Sides
      BY <1>3, <2>1, <2>2, <2>3, <3>2 DEF FaceInv
    <3> QED
      BY <3>1, <3>2
  <2> QED
    BY <1>2, <2>4, SetterStep DEF IInv
<1>5. CASE SetCullFace
  <2>1. PICK c \in Calls("cull_face") :
          /\ ctx' = [ctx EXCEPT !.cull_face = IF c.face \in Sides THEN Winding(c.face, ctx.tri_face_front_cw)
                                              ELSE c.face]
          /\ asked' = [asked EXCEPT !.face = c.face]
    BY <1>5 DEF SetCullFace, Sets
  <2>2. c.face \in Sides \cup {"NONE", "BOTH"}
    BY <1>1, <2>1, CasesAssumption DEF Calls
  <2>3. FaceInv'
    BY <1>1, <1>3, <2>1, <2>2 DEF FaceInv, ContextFields, AskedFields
  <2> QED
    BY <1>2, <2>3, SetterStep DEF IInv
<1> QED
  BY <1>4, <1>5

-----------------------------------------------------------------------------
(* Render targets                                                          *)

\* The buffer of one target, and what was asked for it, change together.
LEMMA TargetStep ==
  ASSUME IInv, NEW i, NEW b, i \in {0, 2} \/ (b.format \in Drawable /\ b.layout \in Layouts),
         Sets([ctx EXCEPT !.render_targets[i].pixbuf = b], [asked EXCEPT !.targets[i] = b])
  PROVE  IInv'
<1>1. DOMAIN ctx = ContextFields /\ DOMAIN asked = AskedFields /\ TargetsInv
  BY DEF IInv, FieldsInv
<1>2. /\ drawn' = None /\ UNCHANGED <<case, programs>>
      /\ DOMAIN ctx' = ContextFields /\ DOMAIN asked' = AskedFields /\ ctx'.program = ctx.program
      /\ ctx'.cull_face = ctx.cull_face /\ ctx'.tri_face_front_cw = ctx.tri_face_front_cw
      /\ asked'.face = asked.face
      /\ ctx'.vtx_attributes = ctx.vtx_attributes /\ asked'.attributes = asked.attributes
      /\ ctx'.targets_enabled = ctx.targets_enabled
      /\ ctx'.render_targets = [ctx.render_targets EXCEPT ![i].pixbuf = b]
      /\ asked'.targets = [asked.targets EXCEPT ![i] = b]
  BY <1>1 DEF Sets, ContextFields, AskedFields
<1>3. TargetsInv'
  <2>1. /\ DOMAIN ctx'.render_targets = Upto(Targets) /\ DOMAIN asked'.targets = Upto(Targets)
        /\ ctx'.targets_enabled \subseteq Upto(Targets)
    BY <1>1, <1>2 DEF TargetsInv
  <2>2. ASSUME NEW k \in Upto(Targets)
        PROVE  LET t == ctx'.render_targets[k] IN
               /\ DOMAIN t = {"pixbuf", "dither"} /\ t.dither \in BOOLEAN
               /\ t.pixbuf = asked'.targets[k]
               /\ t.pixbuf # None /\ k \notin {0, 2} =>
                    t.pixbuf.format \in Drawable /\ t.pixbuf.layout \in Layouts
    <3>1. CASE k = i
      <4>1. /\ ctx'.render_targets[k] = [ctx.render_targets[k] EXCEPT !.pixbuf = b]
            /\ asked'.targets[k] = b
        BY <1>1, <1>2, <3>1 DEF TargetsInv
      <4> QED
        BY <1>1, <3>1, <4>1 DEF TargetsInv
    <3>2. CASE k # i
      <4>1. ctx'.render_targets[k] = ctx.render_targets[k] /\ asked'.targets[k] = asked.targets[k]
        BY <1>1, <1>2, <3>2 DEF TargetsInv
      <4> QED
        BY <1>1, <4>1 DEF TargetsInv
    <3> QED
      BY <3>1, <3>2
  <2> QED
    BY <2>1, <2>2 DEF TargetsInv
<1> QED
  BY <1>2, <1>3, SetterStep DEF IInv

LEMMA BindSteps ==
  ASSUME IInv, BindRenderTarget \/ BindDepthBuffer \/ BindStencilBuffer
  PROVE  IInv'
<1>1. CASE BindRenderTarget
  <2>1. \A c \in Calls("bind_target") : c.pixbuf.layout \in Layouts
    BY CasesAssumption DEF Calls, IInv, ProgramsInv
  <2>2. PICK i, b : /\ b.format \in Drawable /\ b.layout \in Layouts
                    /\ Sets([ctx EXCEPT !.render_targets[i].pixbuf = b], [asked EXCEPT !.targets[i] = b])
    BY <1>1, <2>1, Zenon DEF BindRenderTarget
  <2>3. i \in {0, 2} \/ (b.format \in Drawable /\ b.layout \in Layouts)
    BY <2>2
  <2>4. Sets([ctx EXCEPT !.render_targets[i].pixbuf = b], [asked EXCEPT !.targets[i] = b])
    BY <2>2
  <2> QED
    BY <2>3, <2>4, TargetStep
<1>2. CASE BindDepthBuffer \/ BindStencilBuffer
  <2>1. PICK i \in {0, 2} : \E formats, pixbuf : BufferBound(i, formats, pixbuf)
    BY <1>2 DEF BindDepthBuffer, BindStencilBuffer
  <2>2. PICK b : Sets([ctx EXCEPT !.render_targets[i].pixbuf = b], [asked EXCEPT !.targets[i] = b])
    BY <2>1, Zenon DEF BufferBound
  <2>3. i \in {0, 2} \/ (b.format \in Drawable /\ b.layout \in Layouts)
    BY <2>1
  <2> QED
    BY <2>2, <2>3, TargetStep
<1> QED
  BY <1>1, <1>2

LEMMA EnableSteps ==
  ASSUME IInv, SetRenderTargetDither \/ EnableRenderTarget
  PROVE  IInv'
<1>1. DOMAIN ctx = ContextFields /\ DOMAIN asked = AskedFields /\ TargetsInv /\ case \in Cases
  BY DEF IInv, FieldsInv, ProgramsInv
<1>2. CASE SetRenderTargetDither
  <2>1. PICK c \in Calls("dither_target") : Sets([ctx EXCEPT !.render_targets[c.at].dither = c.on], asked)
    BY <1>2 DEF SetRenderTargetDither
  <2>2. c.on \in BOOLEAN
    BY <1>1, <2>1, CasesAssumption DEF Calls
  <2>3. /\ drawn' = None /\ UNCHANGED <<case, programs>> /\ asked' = asked
        /\ DOMAIN ctx' = ContextFields /\ ctx'.program = ctx.program
        /\ ctx'.cull_face = ctx.cull_face /\ ctx'.tri_face_front_cw = ctx.tri_face_front_cw
        /\ ctx'.vtx_attributes = ctx.vtx_attributes
        /\ ctx'.targets_enabled = ctx.targets_enabled
        /\ ctx'.render_targets = [ctx.render_targets EXCEPT ![c.at].dither = c.on]
    BY <1>1, <2>1 DEF Sets, ContextFields
  <2>4. ASSUME NEW k \in Upto(Targets)
        PROVE  LET t == ctx'.render_targets[k] IN
               /\ DOMAIN t = {"pixbuf", "dither"} /\ t.dither \in BOOLEAN
               /\ t.pixbuf = asked'.targets[k]
               /\ t.pixbuf # None /\ k \notin {0, 2} =>
                    t.pixbuf.format \in Drawable /\ t.pixbuf.layout \in Layouts
    <3>1. CASE k = c.at
      <4>1. ctx'.render_targets[k] = [ctx.render_targets[k] EXCEPT !.dither = c.on]
        BY <1>1, <2>3, <3>1 DEF TargetsInv
      <4> QED
        BY <1>1, <2>2, <2>3, <4>1 DEF TargetsInv
    <3>2. CASE k # c.at
      <4>1. ctx'.render_targets[k] = ctx.render_targets[k]
        BY <1>1, <2>3, <3>2 DEF TargetsInv
      <4> QED
        BY <1>1, <2>3, <4>1 DEF TargetsInv
    <3> QED
      BY <3>1, <3>2
  <2>5. TargetsInv'
    <3>1. DOMAIN ctx'.render_targets = Upto(Targets)
      BY <1>1, <2>3 DEF TargetsInv
    <3> QED
      BY <1>1, <2>3, <2>4, <3>1 DEF TargetsInv
  <2> QED
    BY <1>1, <2>3, <2>5, SetterStep DEF IInv
<1>3. CASE EnableRenderTarget
  <2>1. PICK c \in Calls("enable_target") :
          /\ c.at < Targets
          /\ Sets([ctx EXCEPT !.targets_enabled = IF c.on THEN @ \cup {c.at} ELSE @ \ {c.at}], asked)
    BY <1>3 DEF EnableRenderTarget
  <2>2. c.at \in Upto(Targets)
    <3>1. c.at \in Nat
      BY <1>1, <2>1, CasesAssumption DEF Calls
    <3> QED
      BY <2>1, <3>1, DrawingAssumption DEF Upto
  <2>3. /\ drawn' = None /\ UNCHANGED <<case, programs>> /\ asked' = asked
        /\ DOMAIN ctx' = ContextFields /\ ctx'.program = ctx.program
        /\ ctx'.cull_face = ctx.cull_face /\ ctx'.tri_face_front_cw = ctx.tri_face_front_cw
        /\ ctx'.vtx_attributes = ctx.vtx_attributes
        /\ ctx'.render_targets = ctx.render_targets
        /\ ctx'.targets_enabled = IF c.on THEN ctx.targets_enabled \cup {c.at}
                                  ELSE ctx.targets_enabled \ {c.at}
    BY <1>1, <2>1 DEF Sets, ContextFields
  <2>4. TargetsInv'
    BY <1>1, <2>2, <2>3 DEF TargetsInv
  <2> QED
    BY <1>1, <2>3, <2>4, SetterStep DEF IInv
<1> QED
  BY <1>2, <1>3

-----------------------------------------------------------------------------
(* Attributes                                                              *)

\* A set of numbers has a least one.
LEMMA LeastNumber ==
  ASSUME NEW S \in SUBSET Nat, S # {}
  PROVE  \E n \in S : \A m \in S : n <= m
<1>1. IsWellFoundedOn(OpToRel(<, Nat), Nat)
  BY NatLessThanWellFounded
<1>2. PICK n \in S : \A m \in S : ~(<<m, n>> \in OpToRel(<, Nat))
  BY <1>1, WFMin
<1>3. \A m \in S : ~(m < n)
  BY <1>2 DEF OpToRel
<1> QED
  BY <1>3

\* What holds of 0, and of a number after one it holds of, holds of all: T are the
\* numbers it holds of.
LEMMA FromZero ==
  ASSUME NEW n \in Nat, NEW T, 0 \in T, \A k \in 0..n - 1 : k \in T => k + 1 \in T
  PROVE  \A k \in 0..n : k \in T
<1> DEFINE bad == {k \in 0..n : k \notin T}
<1> SUFFICES ASSUME bad # {}
             PROVE  FALSE
  OBVIOUS
<1>1. bad \in SUBSET Nat
  OBVIOUS
<1>2. PICK m \in bad : \A k \in bad : m <= k
  BY <1>1, LeastNumber
<1>3. m \in 0..n /\ m # 0 /\ m \notin T
  BY <1>2
<1>4. m - 1 \in 0..n - 1 /\ ~(m <= m - 1) /\ (m - 1) + 1 = m
  BY <1>3
<1>5. m - 1 \in T
  BY <1>2, <1>4
<1> QED
  BY <1>3, <1>4, <1>5

\* What CasesAssumption says of the texts of a program, and the table of a section with names
VertexText(text) ==
  /\ text \in Seq(Range(text))
  /\ \A k \in DOMAIN text :
       /\ text[k].i \in Nat
       /\ text[k].in = "constants" => text[k].c \in Upto(VectorSize) /\ text[k].word # None
FragmentText(text) ==
  /\ text \in Seq(Range(text))
  /\ \A k \in DOMAIN text :
       \/ text[k].in \in {"alu_buffer_size", "pseq_to_dw_exec_nb", "asm"}
       \/ /\ text[k].in \in {"constants", "uniforms"}
          /\ text[k].i \in Nat /\ text[k].part \in {"low", "high", "fp20"}
          /\ text[k].in = "uniforms" => None # [name |-> text[k].name, part |-> text[k].part]
NamesOf(text, section) == [i \in Upto(Limit[section]) |-> Filled(text, <<section, i>>, "name")]

\* A program that is linked is what the tables of its two texts say.
LEMMA LinkedProgram ==
  ASSUME IInv, NEW p, Linked(p)
  PROVE  LET vertex   == p.text.vertex
             fragment == p.text.fragment
         IN /\ VertexText(vertex) /\ VertexTables(vertex) # None
            /\ p.attributes = Named(NamesOf(vertex, "attributes"))
            /\ p.inputs = {s.at : s \in p.attributes}
            /\ p.vs_uniforms = Named(NamesOf(vertex, "uniforms"))
            /\ p.vs_constants = VertexConstants(VertexTables(vertex).constants)
            /\ FragmentText(fragment) /\ FragmentTables(fragment) # None
            /\ p.fs_uniforms = UniformSymbols(FragmentTables(fragment).uniforms)
            /\ p.fs_constants = FragmentTables(fragment).constants
<1>1. PICK n \in DOMAIN case.texts :
        LET text == case.texts[n]
            vs   == VertexTables(text.vertex)
            fs   == FragmentTables(text.fragment)
        IN vs # None /\ fs # None /\ p = grate_program_link(vs, fs, text)
  BY Zenon DEF Linked
<1> DEFINE text     == case.texts[n]
           vertex   == text.vertex
           fragment == text.fragment
           vs       == VertexTables(vertex)
           fs       == FragmentTables(fragment)
<1>2. VertexText(vertex) /\ FragmentText(fragment)
  <2>1. case \in Cases
    BY DEF IInv, ProgramsInv
  <2> QED
    BY <2>1, CasesAssumption, Zenon DEF VertexText, FragmentText
<1>3. vs.attributes = NamesOf(vertex, "attributes") /\ vs.uniforms = NamesOf(vertex, "uniforms")
  BY <1>1 DEF VertexTables, NamesOf, Limit
<1>4. vs # None /\ fs # None /\ p = grate_program_link(vs, fs, text)
  BY <1>1, Zenon
<1> HIDE DEF vs, fs, text
<1>5. /\ p.text = text /\ p.attributes = Named(vs.attributes)
      /\ p.inputs = {s.at : s \in Named(vs.attributes)} /\ p.vs_uniforms = Named(vs.uniforms)
      /\ p.vs_constants = VertexConstants(vs.constants)
      /\ p.fs_uniforms = UniformSymbols(fs.uniforms) /\ p.fs_constants = fs.constants
  BY <1>4 DEF grate_program_link
<1> QED
  BY <1>2, <1>3, <1>4, <1>5, Zenon DEF vs, fs

\* A line of a text that is accepted fills a place below the limit, and no other line does.
LEMMA LinesOfText ==
  ASSUME NEW text, VertexText(text), VertexTables(text) # None
  PROVE  /\ \A l \in Range(text) : l.in \in {"attributes", "uniforms", "constants"} =>
              l.i \in Upto(Limit[l.in])
         /\ \A l, d \in Range(text) : Place(l) = Place(d) => l = d
<1>1. \A k \in DOMAIN text : ~VertexLineRefused(text, k)
  BY DEF VertexTables
<1>2. ASSUME NEW l \in Range(text), l.in \in {"attributes", "uniforms", "constants"}
      PROVE  l.i \in Upto(Limit[l.in])
  <2>1. PICK k \in DOMAIN text : l = text[k]
    BY DEF Range
  <2>2. ~(l.i >= Limit[l.in]) /\ l.i \in Nat
    BY <1>1, <1>2, <2>1 DEF VertexLineRefused, VertexText
  <2>3. Limit[l.in] \in Nat
    BY <1>2, ProgramsAssumption DEF Limit
  <2> QED
    BY <2>2, <2>3 DEF Upto
<1>3. ASSUME NEW l \in Range(text), NEW d \in Range(text), Place(l) = Place(d)
      PROVE  l = d
  <2>1. PICK k \in DOMAIN text, j \in DOMAIN text : l = text[k] /\ d = text[j]
    BY DEF Range
  <2>2. DOMAIN text = 1..Len(text) /\ Len(text) \in Nat
    BY DEF VertexText
  <2>3. ~(j \in 1..(k - 1)) /\ ~(k \in 1..(j - 1))
    BY <1>1, <1>3, <2>1 DEF VertexLineRefused
  <2>4. k = j
    BY <2>2, <2>3
  <2> QED
    BY <2>1, <2>4
<1> QED
  BY <1>2, <1>3

\* The symbols of a program's attributes, and of its vertex uniforms, are the lines that
\* declare them.
LEMMA NamedSymbols ==
  ASSUME NEW text, VertexText(text), VertexTables(text) # None,
         NEW section \in {"attributes", "uniforms"},
         NEW symbols, symbols = Named(NamesOf(text, section))
  PROVE  /\ \A s \in symbols : /\ s.at \in Upto(Limit[section])
                               /\ \E l \in Range(text) : l.in = section /\ l.i = s.at /\ l.name = s.name
         /\ \A l \in Range(text) : l.in = section /\ l.name # None =>
              [name |-> l.name, at |-> l.i] \in symbols
<1> DEFINE table == NamesOf(text, section)
<1>1. symbols = Named(table)
  OBVIOUS
<1>2. \A i \in Upto(Limit[section]) : table[i] = Filled(text, <<section, i>>, "name")
  BY DEF NamesOf
<1>3. DOMAIN table = Upto(Limit[section])
  BY DEF NamesOf
<1> HIDE DEF table
<1>4. ASSUME NEW s \in symbols
      PROVE  /\ s.at \in Upto(Limit[section])
             /\ \E l \in Range(text) : l.in = section /\ l.i = s.at /\ l.name = s.name
  <2>1. PICK i \in Upto(Limit[section]) : table[i] # None /\ s = [name |-> table[i], at |-> i]
    BY <1>1, <1>3 DEF Named
  <2>2. PICK l \in Range(text) : Place(l) = <<section, i>> /\ table[i] = l.name
    <3> DEFINE L == {l \in Range(text) : Place(l) = <<section, i>>}
    <3>1. L # {} /\ table[i] = (CHOOSE l \in L : TRUE).name
      BY <1>2, <2>1 DEF Filled
    <3>2. (CHOOSE l \in L : TRUE) \in L
      BY <3>1
    <3> QED
      BY <3>1, <3>2
  <2>3. l.in = section /\ l.i = i
    BY <2>2 DEF Place
  <2> QED
    BY <2>1, <2>2, <2>3
<1>5. ASSUME NEW l \in Range(text), l.in = section, l.name # None
      PROVE  [name |-> l.name, at |-> l.i] \in symbols
  <2>1. l.i \in Upto(Limit[section])
    BY <1>5, LinesOfText
  <2>2. Place(l) = <<section, l.i>>
    BY <1>5 DEF Place
  <2>3. {d \in Range(text) : Place(d) = <<section, l.i>>} = {l}
    BY <2>2, LinesOfText
  <2>4. Filled(text, <<section, l.i>>, "name") = l.name
    BY <2>3 DEF Filled
  <2>5. table[l.i] = l.name
    BY <1>2, <2>1, <2>4
  <2> QED
    BY <1>1, <1>3, <1>5, <2>1, <2>5 DEF Named
<1> QED
  BY <1>4, <1>5

\* The lookup of a name finds the number of the first line that declares it.
LEMMA LocationOfName ==
  ASSUME NEW text, VertexText(text), VertexTables(text) # None,
         NEW section \in {"attributes", "uniforms"},
         NEW symbols, symbols = Named(NamesOf(text, section)),
         NEW name, Location(symbols, name) # None
  PROVE  LET l == FirstOf(Declared(text, section, name))
         IN Location(symbols, name) = l.i /\ l.i \in Upto(Limit[section])
<1> DEFINE S     == {s \in symbols : s.name = name}
           names == Declared(text, section, name)
           l     == FirstOf(names)
           first == CHOOSE s \in S : \A o \in S : s.at <= o.at
           N     == Upto(Limit[section])
<1>1. S # {} /\ Location(symbols, name) = first.at
  BY DEF Location
<1>2. names = {d \in Range(text) : d.in = section /\ d.name = name}
  BY DEF Declared, Range
<1>3. \A s \in S : s.at \in N /\ \E d \in names : d.i = s.at
  BY <1>2, NamedSymbols
<1>4. name # None
  <2>1. PICK s \in S : TRUE
    BY <1>1
  <2>2. s.name # None
    BY <2>1 DEF Named
  <2> QED
    BY <2>2
<1>5. \A d \in names : d.i \in N /\ \E s \in S : s.at = d.i
  <2> SUFFICES ASSUME NEW d \in names
               PROVE  d.i \in N /\ \E s \in S : s.at = d.i
    OBVIOUS
  <2>1. d \in Range(text) /\ d.in = section /\ d.name = name
    BY <1>2
  <2>2. [name |-> d.name, at |-> d.i] \in S
    BY <1>4, <2>1, NamedSymbols
  <2>3. d.i \in N
    BY <2>1, LinesOfText
  <2> QED
    BY <2>2, <2>3
<1>6. N \subseteq Nat
  BY ProgramsAssumption DEF Upto, Limit
<1> HIDE DEF N
<1>7. PICK n : (\E s \in S : s.at = n) /\ n \in Nat /\ \A s \in S : n <= s.at
  <2> DEFINE M == {s.at : s \in S}
  <2>1. M \subseteq Nat /\ M # {}
    BY <1>1, <1>3, <1>6
  <2>2. PICK m \in M : \A k \in M : m <= k
    BY <2>1, LeastNumber
  <2> QED
    BY <2>1, <2>2
<1>8. first \in S /\ \A o \in S : first.at <= o.at
  BY <1>7
<1>9. l \in names /\ \A e \in names : l.i <= e.i
  <2>1. PICK d \in names : d.i = n
    BY <1>3, <1>7
  <2>2. \A e \in names : d.i <= e.i
    BY <1>5, <1>7, <2>1
  <2> QED
    BY <2>2 DEF FirstOf
<1> HIDE DEF S, names, l, first
<1>10. first.at <= l.i /\ l.i <= first.at
  BY <1>3, <1>5, <1>8, <1>9
<1>11. first.at \in Nat /\ l.i \in Nat /\ l.i \in N
  BY <1>3, <1>5, <1>6, <1>8, <1>9
<1>12. first.at = l.i
  BY <1>10, <1>11
<1> QED
  BY <1>1, <1>11, <1>12 DEF names, l, N

LEMMA PointerStep ==
  ASSUME IInv, VertexAttribPointer
  PROVE  IInv'
<1>1. DOMAIN ctx = ContextFields /\ DOMAIN asked = AskedFields /\ AttributesInv
  BY DEF IInv, FieldsInv
<1>2. PICK i, b, type :
        /\ i \in Upto(Attributes)
        /\ Sets([ctx EXCEPT !.vtx_attributes[i] = [bo |-> b, type |-> type]],
                [asked EXCEPT !.attributes[i] = b])
  <2>1. PICK c \in Calls("attrib_pointer") :
          /\ ctx.program # None /\ Location(Bound.attributes, c.name) # None
          /\ LET at == Location(Bound.attributes, c.name)
                 l  == FirstOf(Declared(Bound.text.vertex, "attributes", c.name))
             IN Sets([ctx EXCEPT !.vtx_attributes[at] = [bo |-> c.bo, type |-> c.type]],
                     [asked EXCEPT !.attributes[l.i] = c.bo])
    BY Zenon DEF VertexAttribPointer
  <2> DEFINE text    == Bound.text.vertex
             symbols == Bound.attributes
             name    == c.name
             l       == FirstOf(Declared(text, "attributes", name))
  <2>2. Linked(Bound)
    BY <2>1 DEF IInv, ProgramsInv, Bound
  <2>3. /\ VertexText(text) /\ VertexTables(text) # None
        /\ symbols = Named(NamesOf(text, "attributes"))
    BY <2>2, LinkedProgram, Zenon
  <2>4. Location(symbols, name) # None /\ Limit["attributes"] = Attributes
    BY <2>1 DEF Limit
  <2> HIDE DEF text, symbols, name
  <2>5. Location(symbols, name) = l.i /\ l.i \in Upto(Attributes)
    BY <2>3, <2>4, LocationOfName
  <2> QED
    BY <2>1, <2>5, Zenon DEF text, symbols, name
<1>3. /\ drawn' = None /\ UNCHANGED <<case, programs>>
      /\ DOMAIN ctx' = ContextFields /\ DOMAIN asked' = AskedFields /\ ctx'.program = ctx.program
      /\ ctx'.cull_face = ctx.cull_face /\ ctx'.tri_face_front_cw = ctx.tri_face_front_cw
      /\ ctx'.render_targets = ctx.render_targets /\ ctx'.targets_enabled = ctx.targets_enabled
      /\ asked'.face = asked.face /\ asked'.targets = asked.targets
      /\ ctx'.vtx_attributes = [ctx.vtx_attributes EXCEPT ![i] = [bo |-> b, type |-> type]]
      /\ asked'.attributes = [asked.attributes EXCEPT ![i] = b]
  BY <1>1, <1>2 DEF Sets, ContextFields, AskedFields
<1>4. AttributesInv'
  BY <1>1, <1>2, <1>3 DEF AttributesInv
<1> QED
  BY <1>3, <1>4, SetterStep DEF IInv

-----------------------------------------------------------------------------
(* Programs                                                                *)

LEMMA ProgramStep ==
  ASSUME IInv, BindProgram
  PROVE  IInv'
<1>1. DOMAIN ctx = ContextFields /\ DOMAIN asked = AskedFields /\ ProgramsInv
  BY DEF IInv, FieldsInv
<1>2. PICK n, v, f, vg, fg :
        /\ n \in DOMAIN programs /\ programs[n] # None
        /\ Sets([ctx EXCEPT !.program = n, !.vs_uniforms = v, !.fs_uniforms = f],
                [asked EXCEPT !.vertex = vg, !.fragment = fg])
  BY Zenon DEF BindProgram
<1>3. /\ drawn' = None /\ UNCHANGED <<case, programs>>
      /\ DOMAIN ctx' = ContextFields /\ DOMAIN asked' = AskedFields /\ ctx'.program = n
      /\ ctx'.cull_face = ctx.cull_face /\ ctx'.tri_face_front_cw = ctx.tri_face_front_cw
      /\ ctx'.render_targets = ctx.render_targets /\ ctx'.targets_enabled = ctx.targets_enabled
      /\ ctx'.vtx_attributes = ctx.vtx_attributes
      /\ asked'.face = asked.face /\ asked'.targets = asked.targets
      /\ asked'.attributes = asked.attributes
  BY <1>1, <1>2 DEF Sets, ContextFields, AskedFields
<1>4. ProgramsInv'
  BY <1>1, <1>2, <1>3 DEF ProgramsInv, Bound, Linked
<1> QED
  BY <1>3, <1>4, SetterStep DEF IInv

\* A job is made of the context and its program alone.
LEMMA JobKept ==
  ASSUME NEW primitive, NEW indices, NEW index_mode, ctx' = ctx, Bound' = Bound
  PROVE  Job(primitive, indices, index_mode)' = Job(primitive, indices, index_mode)
<1>1. /\ FedAttributes' = FedAttributes /\ TargetsOfJob' = TargetsOfJob
      /\ \A i, pixbuf : TargetParams(i, pixbuf)' = TargetParams(i, pixbuf)
      /\ TexturesOfJob' = TexturesOfJob
  BY DEF FedAttributes, TargetsOfJob, TargetParams, Wanted, TexturesOfJob
<1>2. /\ CullRegister' = CullRegister /\ ViewRegisters' = ViewRegisters
      /\ RasterRegisters' = RasterRegisters /\ AluBuffer' = AluBuffer /\ PseqDw' = PseqDw
      /\ LateTest' = LateTest /\ DepthRegisters' = DepthRegisters
      /\ StencilRegisters' = StencilRegisters
      /\ DrawParams(primitive, index_mode)' = DrawParams(primitive, index_mode)
  BY DEF CullRegister, ViewRegisters, RasterRegisters, AluBuffer, PseqDw, LateTest, DepthRegisters,
         StencilRegisters, DrawParams
<1> QED
  BY <1>1, <1>2, Zenon DEF Job

\* A program that is linked has the attributes of its text, and leaves the others as they are.
LEMMA LinkStep ==
  ASSUME IInv, LinkProgram
  PROVE  IInv'
<1>1. ProgramsInv /\ case \in Cases /\ UNCHANGED <<case, ctx, drawn, asked>>
  BY DEF IInv, ProgramsInv, LinkProgram
<1> DEFINE n    == Len(programs) + 1
           text == case.texts[n]
           vs   == VertexTables(text.vertex)
           fs   == FragmentTables(text.fragment)
           p    == IF vs = None \/ fs = None THEN None ELSE grate_program_link(vs, fs, text)
<1>2. Len(programs) < Len(case.texts) /\ programs' = Append(programs, p)
  BY DEF LinkProgram
<1>3. programs \in Seq(Range(programs)) /\ case.texts \in Seq(Range(case.texts))
  BY <1>1, CasesAssumption DEF ProgramsInv
<1>4. n \in DOMAIN case.texts
  BY <1>2, <1>3
<1>5. p # None => Linked(p)
  <2> SUFFICES ASSUME p # None
               PROVE  Linked(p)
    OBVIOUS
  <2>1. vs # None /\ fs # None /\ p = grate_program_link(vs, fs, text)
    OBVIOUS
  <2> QED
    BY <1>4, <2>1, Zenon DEF Linked
<1> HIDE DEF p
<1>6. /\ DOMAIN programs = 1..Len(programs) /\ Len(programs) \in Nat
      /\ DOMAIN programs' = 1..n
      /\ \A k \in DOMAIN programs : programs'[k] = programs[k]
      /\ programs'[n] = p
  <2> DEFINE R == Range(programs) \cup {p}
  <2>1. programs \in Seq(R) /\ p \in R
    BY <1>3 DEF Range
  <2> HIDE DEF R
  <2> QED
    BY <1>2, <2>1
<1>7. ProgramsInv'
  <2>1. programs' \in Seq(Range(programs'))
    <3> DEFINE R == Range(programs) \cup {p}
    <3>1. programs \in Seq(R) /\ p \in R
      BY <1>3 DEF Range
    <3> HIDE DEF R
    <3>2. programs' \in Seq(R)
      BY <1>2, <3>1
    <3> QED
      BY <3>2 DEF Range
  <2>3. \A k \in DOMAIN programs' : programs'[k] # None => Linked(programs'[k])
    BY <1>1, <1>5, <1>6 DEF ProgramsInv
  <2>4. (\A k \in DOMAIN programs : programs[k] # None => Linked(programs[k]))'
    BY <1>1, <2>3 DEF Linked
  <2>5. ctx.program # None => ctx.program \in DOMAIN programs' /\ programs'[ctx.program] = Bound /\ Bound # None
    BY <1>1, <1>6 DEF ProgramsInv, Bound
  <2> QED
    BY <1>1, <2>1, <2>4, <2>5 DEF ProgramsInv, Bound
<1>8. ctx.program # None => Bound' = Bound
  BY <1>1, <1>6 DEF Bound, ProgramsInv
<1>9. DrawnInv'
  <2> SUFFICES ASSUME drawn # None
               PROVE  DrawnInv'
    BY <1>1 DEF DrawnInv
  <2>1. PICK c \in Calls("draw") : ctx.program # None /\ drawn = Job(c.primitive, c.indices, c.index_mode)
    BY DEF IInv, DrawnInv
  <2>2. c \in Calls("draw")'
    BY <1>1, <2>1 DEF Calls
  <2> DEFINE primitive  == c.primitive
             indices    == c.indices
             index_mode == c.index_mode
  <2>3. Job(primitive, indices, index_mode)' = Job(primitive, indices, index_mode)
    BY <1>1, <1>8, <2>1, JobKept
  <2> QED
    BY <1>1, <2>1, <2>2, <2>3 DEF DrawnInv
<1>10. FieldsInv' /\ FaceInv' /\ TargetsInv' /\ AttributesInv'
  BY <1>1 DEF IInv, FieldsInv, FaceInv, TargetsInv, AttributesInv
<1> QED
  BY <1>7, <1>9, <1>10 DEF IInv

-----------------------------------------------------------------------------
(* The theorems                                                            *)

\* A step that leaves the context alone, and leaves a job that is one of this context.
LEMMA QuietStep ==
  ASSUME IInv, UNCHANGED <<case, programs, ctx, asked>>,
         \/ drawn' = drawn
         \/ /\ ctx.program # None
            /\ \E c \in Calls("draw") : drawn' = Job(c.primitive, c.indices, c.index_mode)
  PROVE  IInv'
<1>1. DrawnInv'
  <2> SUFFICES ASSUME drawn' # None
               PROVE  DrawnInv'
    BY DEF DrawnInv
  <2>1. PICK c \in Calls("draw") :
          ctx.program # None /\ drawn' = Job(c.primitive, c.indices, c.index_mode)
    BY DEF IInv, DrawnInv
  <2> DEFINE primitive  == c.primitive
             indices    == c.indices
             index_mode == c.index_mode
  <2>2. Job(primitive, indices, index_mode)' = Job(primitive, indices, index_mode)
    BY JobKept DEF Bound
  <2> QED
    BY <2>1, <2>2 DEF DrawnInv, Calls
<1>2. FieldsInv' /\ ProgramsInv' /\ FaceInv' /\ TargetsInv' /\ AttributesInv'
  BY DEF IInv, FieldsInv, ProgramsInv, FaceInv, TargetsInv, AttributesInv, Bound, Linked
<1> QED
  BY <1>1, <1>2 DEF IInv

LEMMA DrawStep ==
  ASSUME IInv, DrawElements
  PROVE  IInv'
BY QuietStep, Zenon DEF DrawElements

LEMMA InitialInvariant == Init => IInv
<1> SUFFICES ASSUME Init
             PROVE  IInv
  OBVIOUS
<1>1. FieldsInv
  BY InitialFields DEF Init, FieldsInv
<1>2. ProgramsInv
  BY DEF Init, ProgramsInv, EmptyContext
<1>3. FaceInv
  BY DEF Init, FaceInv, EmptyContext, NothingAsked, Sides
<1>4. TargetsInv
  BY DEF Init, TargetsInv, EmptyContext, NothingAsked
<1>5. AttributesInv
  BY DEF Init, AttributesInv, EmptyContext, NothingAsked
<1>6. DrawnInv
  BY DEF Init, DrawnInv
<1> QED
  BY <1>1, <1>2, <1>3, <1>4, <1>5, <1>6 DEF IInv

\* Whatever is called, in whichever order: the context's winding is that of the side asked
\* for, its buffers are those given last, and its programs have the attributes of their texts.
THEOREM InductiveInvariant == Spec => []IInv
<1>1. IInv /\ [Next]_vars => IInv'
  <2> SUFFICES ASSUME IInv, [Next]_vars
               PROVE  IInv'
    OBVIOUS
  <2>1. CASE LinkProgram
    BY <2>1, LinkStep
  <2>2. CASE BindProgram
    BY <2>2, ProgramStep
  <2>3. CASE SetVertexUniform \/ SetFragmentUniform
    BY <2>3, UniformSteps
  <2>4. CASE VertexAttribPointer
    BY <2>4, PointerStep
  <2>5. CASE BindRenderTarget \/ BindDepthBuffer \/ BindStencilBuffer
    BY <2>5, BindSteps
  <2>6. CASE SetRenderTargetDither \/ EnableRenderTarget
    BY <2>6, EnableSteps
  <2>7. CASE SetFrontDirectionIsCw \/ SetCullFace
    BY <2>7, FaceSteps
  <2>8. CASE \/ EnableVertexAttribArray \/ SetDepthFunc \/ DepthTest \/ DepthWrite \/ StencilTest
             \/ SetStencilFunc \/ SetStencilOps \/ BindTexture \/ SetParameter
    BY <2>8, ParameterSteps
  <2>9. CASE DrawElements
    BY <2>9, DrawStep
  <2>10. CASE UNCHANGED vars
    BY <2>10, QuietStep DEF vars
  <2> QED
    BY <2>1, <2>2, <2>3, <2>4, <2>5, <2>6, <2>7, <2>8, <2>9, <2>10, Zenon DEF Next
<1> QED
  BY <1>1, InitialInvariant, PTL DEF Spec

\* The registers of the last job that are about values, faces and buffers
LEMMA DrawnFields ==
  ASSUME IInv, drawn # None
  PROVE  /\ ctx.program # None
         /\ drawn.cull = CullRegister /\ drawn.stencil = StencilRegisters
         /\ drawn.vp_const = ctx.vs_uniforms /\ drawn.fp_const = ctx.fs_uniforms
         /\ drawn.attributes = [i \in FedAttributes |-> ctx.vtx_attributes[i]]
         /\ drawn.targets = [i \in TargetsOfJob |->
                               [bo |-> ctx.render_targets[i].pixbuf,
                                params |-> TargetParams(i, ctx.render_targets[i].pixbuf)]]
         /\ drawn.depth_buffer = (ctx.depth_test /\ 0 \in TargetsOfJob)
<1>1. PICK c \in Calls("draw") : ctx.program # None /\ drawn = Job(c.primitive, c.indices, c.index_mode)
  BY DEF IInv, DrawnInv
<1> DEFINE attributes == [i \in FedAttributes |-> ctx.vtx_attributes[i]]
           targets    == [i \in TargetsOfJob |->
                            [bo |-> ctx.render_targets[i].pixbuf,
                             params |-> TargetParams(i, ctx.render_targets[i].pixbuf)]]
           images      == [i \in TexturesOfJob |-> TextureImage(ctx.textures[i])]
           descriptors == [i \in TexturesOfJob |-> TextureDescriptor(ctx.textures[i])]
           depth       == ctx.depth_test /\ 0 \in TargetsOfJob
<1>2. drawn = [cull |-> CullRegister, view |-> ViewRegisters, raster |-> RasterRegisters,
               vp_const |-> ctx.vs_uniforms, fp_const |-> ctx.fs_uniforms,
               attributes |-> attributes, out_mask |-> Bound.outputs, targets |-> targets,
               depth_buffer |-> depth, depth |-> DepthRegisters, stencil |-> StencilRegisters,
               late_test |-> LateTest, textures |-> images, descriptors |-> descriptors,
               alu_buffer |-> AluBuffer, pseq_to_dw |-> PseqDw,
               draw |-> DrawParams(c.primitive, c.index_mode),
               indices |-> Indices(c.indices, c.index_mode)]
  BY <1>1, Zenon DEF Job
<1> HIDE DEF attributes, targets, images, descriptors, depth
<1>3. /\ drawn.cull = CullRegister /\ drawn.stencil = StencilRegisters
      /\ drawn.vp_const = ctx.vs_uniforms /\ drawn.fp_const = ctx.fs_uniforms
      /\ drawn.attributes = attributes /\ drawn.targets = targets
  BY <1>2
<1>4. drawn.depth_buffer = depth
  BY <1>2
<1> QED
  BY <1>1, <1>3, <1>4, Zenon DEF attributes, targets, depth

\* A job culls the side the caller asked for, in whichever order the side and the direction
\* of the front were set.
THEOREM CullCorrect == Spec => []CullsWanted
<1>1. IInv => CullsWanted
  <2> SUFFICES ASSUME IInv, drawn # None
               PROVE  CullsWanted
    BY DEF CullsWanted
  <2>1. drawn.cull = CullRegister
    BY DrawnFields
  <2> QED
    BY <2>1 DEF IInv, FaceInv, CullsWanted, CullRegister
<1> QED
  BY <1>1, InductiveInvariant, PTL

\* Every unit of a job has the buffer that was given for it last, whatever was refused before.
THEOREM BuffersCorrect == Spec => []BuffersBound
<1>1. IInv => BuffersBound
  <2> SUFFICES ASSUME IInv, drawn # None
               PROVE  BuffersBound
    BY DEF BuffersBound
  <2>1. TargetsInv /\ AttributesInv /\ ctx.program # None
    BY DrawnFields DEF IInv
  <2>2. /\ DOMAIN drawn.targets = TargetsOfJob
        /\ \A i \in TargetsOfJob :
             /\ drawn.targets[i].bo = ctx.render_targets[i].pixbuf
             /\ drawn.targets[i].params = TargetParams(i, ctx.render_targets[i].pixbuf)
    <3> DEFINE bo(i)     == ctx.render_targets[i].pixbuf
               params(i) == TargetParams(i, ctx.render_targets[i].pixbuf)
    <3>1. drawn.targets = [i \in TargetsOfJob |-> [bo |-> bo(i), params |-> params(i)]]
      BY DrawnFields, Zenon
    <3> HIDE DEF bo, params
    <3>2. /\ DOMAIN drawn.targets = TargetsOfJob
          /\ \A i \in TargetsOfJob : drawn.targets[i].bo = bo(i) /\ drawn.targets[i].params = params(i)
      BY <3>1
    <3> QED
      BY <3>2, Zenon DEF bo, params
  <2>3. Wanted \subseteq Upto(Targets)
    BY <2>1, DrawingAssumption DEF Wanted, TargetsInv, Upto
  <2>4. \A i \in DOMAIN drawn.targets : drawn.targets[i].bo = asked.targets[i]
    BY <2>1, <2>2, <2>3 DEF TargetsInv, TargetsOfJob
  <2>5. \A i \in TargetsOfJob : TargetParams(i, ctx.render_targets[i].pixbuf) # None
    BY DEF TargetsOfJob
  <2>6. drawn.depth_buffer => drawn.targets[0].params.format \in Depths
    <3> SUFFICES ASSUME ctx.depth_test, 0 \in TargetsOfJob
                 PROVE  drawn.targets[0].params.format \in Depths
      BY DrawnFields
    <3> DEFINE pixbuf == ctx.render_targets[0].pixbuf
    <3>1. TargetParams(0, pixbuf) # None /\ drawn.targets[0].params = TargetParams(0, pixbuf)
      BY <2>2, <2>5
    <3> HIDE DEF pixbuf
    <3> QED
      BY <3>1 DEF TargetParams
  <2>7. drawn.stencil.test /\ 2 \in DOMAIN drawn.targets => drawn.targets[2].params.format = "S8"
    <3> SUFFICES ASSUME ctx.stencil_test, 2 \in TargetsOfJob
                 PROVE  drawn.targets[2].params.format = "S8"
      <4>1. drawn.stencil.test = ctx.stencil_test
        BY DrawnFields DEF StencilRegisters
      <4> QED
        BY <2>2, <4>1
    <3> DEFINE pixbuf == ctx.render_targets[2].pixbuf
    <3>1. TargetParams(2, pixbuf) # None /\ drawn.targets[2].params = TargetParams(2, pixbuf)
      BY <2>2, <2>5
    <3> HIDE DEF pixbuf
    <3> QED
      BY <3>1 DEF TargetParams
  <2>8. ctx.targets_enabled \ {0, 2} \subseteq
          DOMAIN drawn.targets \cup {i \in Upto(Targets) : asked.targets[i] = None}
    <3> SUFFICES ASSUME NEW i \in ctx.targets_enabled, i \notin {0, 2}, asked.targets[i] # None
                 PROVE  i \in TargetsOfJob
      BY <2>1, <2>2 DEF TargetsInv
    <3> DEFINE pixbuf == ctx.render_targets[i].pixbuf
    <3>1. /\ i \in Upto(Targets) /\ pixbuf # None
          /\ pixbuf.format \in Drawable /\ pixbuf.layout \in Layouts
          /\ ctx.render_targets[i].dither \in BOOLEAN
      BY <2>1 DEF TargetsInv
    <3>2. i \in Wanted
      BY DEF Wanted
    <3> HIDE DEF pixbuf
    <3>3. TargetParams(i, pixbuf) # None
      <4>1. TargetParams(i, pixbuf) = [format |-> pixbuf.format, tiled |-> pixbuf.layout = "TILED_16x16",
                                       dither |-> ctx.render_targets[i].dither]
        BY <3>1 DEF TargetParams
      <4>2. TargetParams(i, pixbuf) \in [format : Drawable, tiled : BOOLEAN, dither : BOOLEAN]
        BY <3>1, <4>1
      <4> QED
        BY <4>2, NoneAssumption
    <3> QED
      BY <3>1, <3>2, <3>3 DEF TargetsOfJob, pixbuf
  <2>9. ASSUME NEW i \in DOMAIN drawn.attributes
        PROVE  /\ drawn.attributes[i].bo = asked.attributes[i]
               /\ \E l \in Range(Bound.text.vertex) : l.in = "attributes" /\ l.i = i
    <3>1. /\ i \in Bound.inputs /\ ctx.vtx_attributes[i] # None
          /\ drawn.attributes[i] = ctx.vtx_attributes[i]
      BY DrawnFields DEF FedAttributes
    <3> DEFINE text    == Bound.text.vertex
               symbols == Bound.attributes
    <3>2. Linked(Bound)
      BY <2>1 DEF IInv, ProgramsInv, Bound
    <3>3. /\ VertexText(text) /\ VertexTables(text) # None
          /\ symbols = Named(NamesOf(text, "attributes"))
          /\ Bound.inputs = {s.at : s \in symbols}
      BY <3>2, LinkedProgram, Zenon
    <3> HIDE DEF text, symbols
    <3>4. PICK s \in symbols : s.at = i
      BY <3>1, <3>3
    <3>5. i \in Upto(Attributes) /\ \E l \in Range(text) : l.in = "attributes" /\ l.i = i
      <4>1. Limit["attributes"] = Attributes
        BY DEF Limit
      <4> QED
        BY <3>3, <3>4, <4>1, NamedSymbols
    <3> QED
      BY <2>1, <3>1, <3>5 DEF AttributesInv, text
  <2> QED
    BY <2>4, <2>6, <2>7, <2>8, <2>9, Zenon DEF BuffersBound
<1> QED
  BY <1>1, InductiveInvariant, PTL

-----------------------------------------------------------------------------
(* Values of vertex registers                                              *)

\* Components are numbered through the vectors.
LEMMA Component ==
  ASSUME NEW i \in Int, NEW k \in Upto(VectorSize), NEW j \in Int
  PROVE  /\ (i * VectorSize + k) \div VectorSize = i /\ (i * VectorSize + k) % VectorSize = k
         /\ i * VectorSize + k = j <=> i = j \div VectorSize /\ k = j % VectorSize
<1>1. CASE VectorSize = 1
  BY <1>1 DEF Upto
<1>2. CASE VectorSize = 2
  BY <1>2 DEF Upto
<1>3. CASE VectorSize = 3
  BY <1>3 DEF Upto
<1>4. CASE VectorSize = 4
  BY <1>4 DEF Upto
<1> QED
  BY <1>1, <1>2, <1>3, <1>4, ProgramsAssumption

\* ... and no vector has the component of another, or lies beyond the registers.
LEMMA ComponentsOfRegisters ==
  ASSUME NEW i \in Upto(VertexRegisters), NEW k \in Upto(VectorSize)
  PROVE  i * VectorSize + k \in Upto(VectorSize * VertexRegisters)
<1>1. i \in Nat /\ VertexRegisters \in Nat /\ i <= VertexRegisters - 1 /\ k \in 0..VectorSize - 1
  BY ProgramsAssumption DEF Upto
<1>2. CASE VectorSize = 1
  BY <1>1, <1>2 DEF Upto
<1>3. CASE VectorSize = 2
  BY <1>1, <1>3 DEF Upto
<1>4. CASE VectorSize = 3
  BY <1>1, <1>4 DEF Upto
<1>5. CASE VectorSize = 4
  BY <1>1, <1>5 DEF Upto
<1> QED
  BY <1>2, <1>3, <1>4, <1>5, ProgramsAssumption

\* The constants of a program are the words of its text's lines, and zeroes.
LEMMA VertexConstantsGiven ==
  ASSUME NEW text, VertexText(text), VertexTables(text) # None,
         NEW i \in Upto(VertexRegisters), NEW k \in Upto(VectorSize)
  PROVE  VertexConstants(VertexTables(text).constants)[i * VectorSize + k] =
           IF <<i, k>> \in DOMAIN VertexGiven(text) THEN VertexGiven(text)[<<i, k>>] ELSE 0
<1> DEFINE constants == VertexTables(text).constants
           place     == <<"constants", i, k>>
           word      == Filled(text, place, "word")
           lines     == {l \in Range(text) : Place(l) = place}
           n         == i * VectorSize + k
<1>1. constants[i][k] = word /\ DOMAIN constants[i] = Upto(VectorSize)
  BY DEF VertexTables
<1>2. n \in Upto(VectorSize * VertexRegisters) /\ n \div VectorSize = i /\ n % VectorSize = k
  <2>1. i \in Int
    BY DEF Upto
  <2> QED
    BY <2>1, Component, ComponentsOfRegisters
<1> HIDE DEF constants, n
<1>3. VertexConstants(constants)[n] = IF constants[i][k] # None THEN constants[i][k] ELSE 0
  BY <1>1, <1>2 DEF VertexConstants, IsConstant
<1>4. DOMAIN VertexGiven(text) = {<<l.i, l.c>> : l \in Constants(text)}
  BY DEF VertexGiven
<1>5. \A l \in Range(text) : Place(l) = place <=> l \in Constants(text) /\ <<l.i, l.c>> = <<i, k>>
  <2> SUFFICES ASSUME NEW l \in Range(text)
               PROVE  Place(l) = place <=> l \in Constants(text) /\ <<l.i, l.c>> = <<i, k>>
    OBVIOUS
  <2>1. CASE l.in = "constants"
    BY <2>1 DEF Place, Constants
  <2>2. CASE l.in # "constants"
    BY <2>2 DEF Place, Constants
  <2> QED
    BY <2>1, <2>2
<1>6. CASE lines = {}
  <2>1. word = None /\ <<i, k>> \notin DOMAIN VertexGiven(text)
    BY <1>4, <1>5, <1>6 DEF Filled, Constants
  <2> QED
    BY <1>1, <1>3, <2>1 DEF constants, n
<1>7. CASE lines # {}
  <2>1. PICK l \in Range(text) : Place(l) = place
    BY <1>7
  <2>2. lines = {l}
    BY <2>1, LinesOfText
  <2>3. word = l.word
    BY <2>2 DEF Filled
  <2>4. {d \in Constants(text) : <<d.i, d.c>> = <<i, k>>} = {l}
    BY <1>5, <2>2 DEF Constants
  <2>5. (CHOOSE d \in Constants(text) : <<d.i, d.c>> = <<i, k>>) = l
    BY <2>4
  <2>6. <<i, k>> \in DOMAIN VertexGiven(text) /\ VertexGiven(text)[<<i, k>>] = l.word
    BY <1>4, <2>4, <2>5 DEF VertexGiven
  <2>7. l.word # None
    <3>1. PICK j \in DOMAIN text : l = text[j]
      BY <2>1 DEF Range
    <3>2. l.in = "constants"
      BY <1>5, <2>1 DEF Constants
    <3> QED
      BY <3>1, <3>2 DEF VertexText
  <2> QED
    BY <1>1, <1>3, <2>3, <2>6, <2>7 DEF constants, n
<1> QED
  BY <1>6, <1>7

\* What the setter of a vertex uniform makes of the context's components and of what was asked
WordsSet(old, at, words) ==
  [k \in DOMAIN old |-> IF k \in at * VectorSize .. at * VectorSize + Len(words) - 1
                        THEN words[k - at * VectorSize + 1] ELSE old[k]]
WordsAsked(given, at, words) ==
  Over([p \in {<<at + k \div VectorSize, k % VectorSize>> : k \in Upto(Len(words))} |->
          words[(p[1] - at) * VectorSize + p[2] + 1]], given)

\* The words that a uniform is set to reach the components they are meant for, and no others.
LEMMA UniformWords ==
  ASSUME NEW at \in Nat, NEW words, Len(words) \in Nat, NEW old, NEW given,
         NEW i \in Upto(VertexRegisters), NEW k \in Upto(VectorSize),
         DOMAIN old = Upto(VectorSize * VertexRegisters),
         old[i * VectorSize + k] = IF <<i, k>> \in DOMAIN given THEN given[<<i, k>>] ELSE 0
  PROVE  WordsSet(old, at, words)[i * VectorSize + k] =
           IF <<i, k>> \in DOMAIN WordsAsked(given, at, words)
           THEN WordsAsked(given, at, words)[<<i, k>>] ELSE 0
<1> DEFINE nb    == Len(words)
           new   == WordsSet(old, at, words)
           ask   == WordsAsked(given, at, words)
           n     == i * VectorSize + k
           c     == (i - at) * VectorSize + k
           set   == {<<at + d \div VectorSize, d % VectorSize>> : d \in Upto(nb)}
           asked_words == [p \in set |-> words[(p[1] - at) * VectorSize + p[2] + 1]]
<1>1. n \in DOMAIN old
  BY ComponentsOfRegisters
<1>2. /\ n - at * VectorSize = c /\ c \in Int /\ at * VectorSize \in Int /\ n \in Int
      /\ i \in Int /\ k \in Int /\ i - at \in Int
  <2>1. i \in Int /\ k \in Int /\ VectorSize \in Int
    BY ProgramsAssumption DEF Upto
  <2> QED
    BY <2>1
<1>3. n \in at * VectorSize .. at * VectorSize + nb - 1 <=> c \in Upto(nb)
  <2> DEFINE m == at * VectorSize
  <2>1. n - m = c /\ c \in Int /\ m \in Int /\ n \in Int
    BY <1>2
  <2> HIDE DEF m, n, c
  <2>2. n \in m .. m + nb - 1 <=> c \in Upto(nb)
    BY <2>1 DEF Upto
  <2> QED
    BY <2>2 DEF m
<1>4. <<i, k>> \in set <=> c \in Upto(nb)
  <2>1. ASSUME c \in Upto(nb)
        PROVE  <<i, k>> \in set
    <3>1. c \div VectorSize = i - at /\ c % VectorSize = k
      BY <1>2, Component
    <3> HIDE DEF c
    <3>2. i = at + c \div VectorSize
      BY <1>2, <3>1
    <3> QED
      BY <2>1, <3>1, <3>2
  <2>2. ASSUME NEW d \in Upto(nb), <<i, k>> = <<at + d \div VectorSize, d % VectorSize>>
        PROVE  c \in Upto(nb)
    <3>1. d \in Int /\ d \div VectorSize \in Int
      BY ProgramsAssumption DEF Upto
    <3>2. i - at = d \div VectorSize /\ k = d % VectorSize
      BY <1>2, <2>2, <3>1
    <3>3. c = d
      BY <1>2, <3>1, <3>2, Component
    <3> QED
      BY <3>3
  <2> QED
    BY <2>1, <2>2
<1> HIDE DEF set, n
<1>5. <<i, k>> \in set => asked_words[<<i, k>>] = words[c + 1]
  OBVIOUS
<1>6. DOMAIN asked_words = set
  OBVIOUS
<1> HIDE DEF asked_words, c
<1>7. /\ ask = Over(asked_words, given)
      /\ DOMAIN ask = set \cup DOMAIN given
      /\ \A p \in DOMAIN ask : ask[p] = IF p \in set THEN asked_words[p] ELSE given[p]
  <2>1. ask = Over(asked_words, given)
    BY Zenon DEF WordsAsked, set, asked_words
  <2> HIDE DEF ask
  <2> QED
    BY <1>6, <2>1 DEF Over
<1>8. new[n] = IF n \in at * VectorSize .. at * VectorSize + nb - 1
               THEN words[n - at * VectorSize + 1] ELSE old[n]
  BY <1>1 DEF WordsSet
<1> HIDE DEF new, ask
<1>9. new[n] = IF <<i, k>> \in DOMAIN ask THEN ask[<<i, k>>] ELSE 0
  BY <1>1, <1>2, <1>3, <1>4, <1>5, <1>7, <1>8 DEF n
<1> QED
  BY <1>9 DEF n, new, ask

-----------------------------------------------------------------------------
(* Values of fragment registers                                            *)

\* The tables after each of the lines of a text
LEMMA FragmentStatesAre ==
  ASSUME NEW text, Len(text) \in Nat
  PROVE  /\ FragmentStates(text)[0] = NoFragmentTables
         /\ \A k \in 0..Len(text) - 1 :
              FragmentStates(text)[k + 1] =
                IF FragmentStates(text)[k] = None THEN None
                ELSE IF FragmentLineRefused(FragmentStates(text)[k], text[k + 1]) THEN None
                ELSE FragmentLine(FragmentStates(text)[k], text[k + 1])
<1> DEFINE After(t, l) == IF t = None THEN None
                          ELSE IF FragmentLineRefused(t, l) THEN None ELSE FragmentLine(t, l)
           G(g, n) == g = [k \in 0..n |-> IF k = 0 THEN NoFragmentTables ELSE After(g[k - 1], text[k])]
           T == {n \in Nat : \E g : G(g, n)}
           N == Len(text)
           s == FragmentStates(text)
<1>0. (\E g : G(g, N)) => G(s, N)
  BY DEF FragmentStates
<1> HIDE DEF After, s
<1>1. 0 \in T
  <2> DEFINE g == [k \in 0..0 |-> NoFragmentTables]
  <2>1. G(g, 0)
    OBVIOUS
  <2> QED
    BY <2>1
<1>2. ASSUME NEW n \in 0..N - 1, n \in T
      PROVE  n + 1 \in T
  <2>1. PICK g : G(g, n)
    BY <1>2
  <2> DEFINE h == [k \in 0..n + 1 |-> IF k <= n THEN g[k] ELSE After(g[n], text[n + 1])]
  <2>2. \A k \in 0..n + 1 : h[k] = IF k = 0 THEN NoFragmentTables ELSE After(h[k - 1], text[k])
    <3> SUFFICES ASSUME NEW k \in 0..n + 1
                 PROVE  h[k] = IF k = 0 THEN NoFragmentTables ELSE After(h[k - 1], text[k])
      OBVIOUS
    <3>1. CASE k = 0
      BY <2>1, <3>1
    <3>2. CASE k # 0 /\ k <= n
      <4>1. k - 1 \in 0..n /\ k \in 0..n /\ h[k] = g[k] /\ h[k - 1] = g[k - 1]
        BY <3>2
      <4>2. g[k] = After(g[k - 1], text[k])
        BY <2>1, <3>2, <4>1
      <4> QED
        BY <3>2, <4>1, <4>2
    <3>3. CASE k = n + 1
      <4>1. k - 1 = n /\ h[k] = After(g[n], text[k]) /\ h[k - 1] = g[n] /\ k # 0
        BY <3>3
      <4> QED
        BY <4>1
    <3> QED
      BY <3>1, <3>2, <3>3
  <2>3. h = [k \in 0..n + 1 |-> h[k]]
    OBVIOUS
  <2> HIDE DEF h
  <2>4. G(h, n + 1)
    BY <2>2, <2>3
  <2> QED
    BY <2>4
<1> HIDE DEF T
<1>3. N \in T
  <2>1. N \in Nat /\ \A k \in 0..N - 1 : k \in T => k + 1 \in T
    BY <1>2
  <2> HIDE DEF N
  <2>2. \A k \in 0..N : k \in T
    BY <1>1, <2>1, FromZero
  <2> QED
    BY <2>1, <2>2
<1>4. s = [k \in 0..N |-> IF k = 0 THEN NoFragmentTables ELSE After(s[k - 1], text[k])]
  BY <1>0, <1>3 DEF T
<1>5. s[0] = NoFragmentTables
  BY <1>4
<1>6. ASSUME NEW k \in 0..N - 1
      PROVE  s[k + 1] = After(s[k], text[k + 1])
  <2>1. k + 1 \in 0..N /\ k + 1 # 0 /\ (k + 1) - 1 = k
    OBVIOUS
  <2> QED
    BY <1>4, <2>1
<1> QED
  BY <1>5, <1>6, Zenon DEF s, After

\* No line of a text that is accepted is refused.
LEMMA LinesAccepted ==
  ASSUME NEW text, Len(text) \in Nat, FragmentTables(text) # None,
         NEW k \in 0..Len(text) - 1
  PROVE  /\ ~FragmentLineRefused(FragmentStates(text)[k], text[k + 1])
         /\ FragmentStates(text)[k + 1] = FragmentLine(FragmentStates(text)[k], text[k + 1])
<1> DEFINE s == FragmentStates(text)
           N == Len(text)
           T(m) == {j \in 0..N - m : s[m + j] = None}
<1>1. ASSUME NEW m \in 0..N, s[m] = None
      PROVE  FALSE
  <2>1. 0 \in T(m)
    BY <1>1
  <2>2. ASSUME NEW j \in 0..(N - m) - 1, j \in T(m)
        PROVE  j + 1 \in T(m)
    <3>1. m + j \in 0..N - 1 /\ (m + j) + 1 = m + (j + 1) /\ s[m + j] = None
      BY <2>2
    <3>2. s[(m + j) + 1] = None
      BY <3>1, FragmentStatesAre, Zenon
    <3> QED
      BY <2>2, <3>1, <3>2
  <2>3. N - m \in Nat
    OBVIOUS
  <2> HIDE DEF T
  <2>4. \A j \in 0..N - m : j \in T(m)
    BY <2>1, <2>2, <2>3, FromZero
  <2>5. N - m \in 0..N - m /\ m + (N - m) = N
    OBVIOUS
  <2> QED
    BY <2>4, <2>5 DEF T, FragmentTables
<1>2. s[k] # None /\ s[k + 1] # None
  <2>1. k \in 0..N /\ k + 1 \in 0..N
    OBVIOUS
  <2> QED
    BY <1>1, <2>1
<1> QED
  BY <1>2, FragmentStatesAre, Zenon

\* A word has two halves.
Halves     == {"low", "high"}
IsWord(w)  == w = [h \in Halves |-> w[h]]

\* Setting one part of a word leaves the other halves as they are.
LEMMA PutHalf ==
  ASSUME NEW word, IsWord(word), NEW part \in {"low", "high", "fp20"}, NEW v,
         NEW i, NEW h \in Halves
  PROVE  /\ IsWord(Put(word, part, v))
         /\ Put(word, part, v)[h] = IF <<i, h>> \in Parts(i, part) THEN WordOf(part, v)[h] ELSE word[h]
<1>1. DOMAIN word = Halves
  BY DEF IsWord
<1>2. CASE part = "fp20"
  BY <1>2 DEF Put, IsWord, WordOf, Parts, Halves, float_to_fp20
<1>3. CASE part = "low"
  BY <1>1, <1>3 DEF Put, IsWord, WordOf, Parts, Halves
<1>4. CASE part = "high"
  BY <1>1, <1>4 DEF Put, IsWord, WordOf, Parts, Halves
<1> QED
  BY <1>2, <1>3, <1>4

\* What the tables hold after m lines: a slot, the name of the one line that fills it; a
\* half of a constant, the number of the last line that sets it, or 0.
Entry(l)      == [name |-> l.name, part |-> l.part]
Fills(l, s)   == l.in = "uniforms" /\ s \in Slots(l.i, l.part)
Gives(l, i, h) == l.in = "constants" /\ <<i, h>> \in Parts(l.i, l.part)

TablesShape(t) ==
  /\ DOMAIN t = DOMAIN NoFragmentTables
  /\ DOMAIN t.uniforms = Upto(2 * FragmentRegisters)
  /\ DOMAIN t.constants = Upto(FragmentRegisters)
  /\ \A i \in Upto(FragmentRegisters) : IsWord(t.constants[i])
SlotsFilled(text, m, t) ==
  /\ \A s \in Upto(2 * FragmentRegisters) : t.uniforms[s] # None =>
       \E k \in 1..m : Fills(text[k], s) /\ t.uniforms[s] = Entry(text[k])
  /\ \A k \in 1..m : text[k].in = "uniforms" =>
       /\ text[k].i \in Upto(FragmentRegisters)
       /\ \A s \in Slots(text[k].i, text[k].part) : t.uniforms[s] = Entry(text[k])
  /\ \A k, j \in 1..m : (\E s : Fills(text[k], s) /\ Fills(text[j], s)) => k = j
HalvesGiven(text, m, t) ==
  \A i \in Upto(FragmentRegisters), h \in Halves :
    /\ (\A k \in 1..m : ~Gives(text[k], i, h)) => t.constants[i][h] = 0
    /\ \A k \in 1..m : Gives(text[k], i, h) /\ (\A j \in 1..m : Gives(text[j], i, h) => j <= k) =>
         t.constants[i][h] = WordOf(text[k].part, text[k].number)[h]

\* The slots of a line with a number of a register are slots.
LEMMA SlotsOfRegister ==
  ASSUME NEW i \in Upto(FragmentRegisters), NEW part, NEW s \in Slots(i, part)
  PROVE  s \in Upto(2 * FragmentRegisters)
BY ProgramsAssumption DEF Slots, Upto

LEMMA NoTables ==
  ASSUME NEW text
  PROVE  /\ TablesShape(NoFragmentTables)
         /\ SlotsFilled(text, 0, NoFragmentTables)
         /\ HalvesGiven(text, 0, NoFragmentTables)
<1> DEFINE u == [s \in Upto(2 * FragmentRegisters) |-> None]
           c == [i \in Upto(FragmentRegisters) |-> NoWord]
<1>1. NoFragmentTables.uniforms = u /\ NoFragmentTables.constants = c
  BY DEF NoFragmentTables
<1>2. IsWord(NoWord) /\ \A h \in Halves : NoWord[h] = 0
  BY DEF IsWord, NoWord, Halves
<1>3. TablesShape(NoFragmentTables)
  BY <1>1, <1>2 DEF TablesShape
<1>4. SlotsFilled(text, 0, NoFragmentTables)
  BY <1>1 DEF SlotsFilled
<1>5. HalvesGiven(text, 0, NoFragmentTables)
  BY <1>1, <1>2 DEF HalvesGiven
<1> QED
  BY <1>3, <1>4, <1>5

\* A line that is no uniform and no constant leaves both tables alone.
LEMMA OtherLine ==
  ASSUME NEW text, NEW m \in Nat, NEW t, NEW u,
         TablesShape(t), SlotsFilled(text, m, t), HalvesGiven(text, m, t),
         text[m + 1].in \notin {"constants", "uniforms"},
         DOMAIN u = DOMAIN t, u.uniforms = t.uniforms, u.constants = t.constants
  PROVE  TablesShape(u) /\ SlotsFilled(text, m + 1, u) /\ HalvesGiven(text, m + 1, u)
<1>1. \A s, i, h : ~Fills(text[m + 1], s) /\ ~Gives(text[m + 1], i, h)
  BY DEF Fills, Gives
<1>2. 1..m + 1 = 1..m \cup {m + 1}
  OBVIOUS
<1>3. TablesShape(u)
  BY DEF TablesShape
<1>4. SlotsFilled(text, m + 1, u)
  <2>1. \A s \in Upto(2 * FragmentRegisters) : u.uniforms[s] # None =>
          \E k \in 1..m + 1 : Fills(text[k], s) /\ u.uniforms[s] = Entry(text[k])
    BY <1>2 DEF SlotsFilled
  <2>2. \A k \in 1..m + 1 : text[k].in = "uniforms" =>
          /\ text[k].i \in Upto(FragmentRegisters)
          /\ \A s \in Slots(text[k].i, text[k].part) : u.uniforms[s] = Entry(text[k])
    BY <1>2 DEF SlotsFilled
  <2>3. \A k, j \in 1..m + 1 : (\E s : Fills(text[k], s) /\ Fills(text[j], s)) => k = j
    BY <1>1, <1>2 DEF SlotsFilled
  <2> QED
    BY <2>1, <2>2, <2>3 DEF SlotsFilled
<1>5. HalvesGiven(text, m + 1, u)
  BY <1>1, <1>2 DEF HalvesGiven
<1> QED
  BY <1>3, <1>4, <1>5

LEMMA UniformLine ==
  ASSUME NEW text, NEW m \in Nat, NEW t, NEW u,
         TablesShape(t), SlotsFilled(text, m, t), HalvesGiven(text, m, t),
         text[m + 1].in = "uniforms", text[m + 1].i \in Upto(FragmentRegisters),
         None # Entry(text[m + 1]),
         \A k \in 1..m : text[k].in = "uniforms" => None # Entry(text[k]),
         \A s \in Slots(text[m + 1].i, text[m + 1].part) : t.uniforms[s] = None,
         u = [t EXCEPT !.uniforms = [s \in DOMAIN @ |-> IF s \in Slots(text[m + 1].i, text[m + 1].part)
                                                        THEN Entry(text[m + 1]) ELSE @[s]]]
  PROVE  TablesShape(u) /\ SlotsFilled(text, m + 1, u) /\ HalvesGiven(text, m + 1, u)
<1> DEFINE l == text[m + 1]
           S == Slots(l.i, l.part)
<1>1. /\ DOMAIN u = DOMAIN t /\ u.constants = t.constants
      /\ u.uniforms = [s \in DOMAIN t.uniforms |-> IF s \in S THEN Entry(l) ELSE t.uniforms[s]]
  BY DEF TablesShape, NoFragmentTables
<1>2. S \subseteq DOMAIN t.uniforms /\ \A s : Fills(l, s) <=> s \in S
  BY SlotsOfRegister DEF TablesShape, Fills
<1>3. 1..m + 1 = 1..m \cup {m + 1} /\ m + 1 \notin 1..m
  OBVIOUS
<1>4. \A i, h : ~Gives(l, i, h)
  BY DEF Gives
<1>5. \A k \in 1..m, s \in S : ~Fills(text[k], s)
  BY DEF SlotsFilled, Fills
<1> HIDE DEF S
<1>6. TablesShape(u)
  BY <1>1 DEF TablesShape
<1>7. SlotsFilled(text, m + 1, u)
  <2>1. ASSUME NEW s \in Upto(2 * FragmentRegisters), u.uniforms[s] # None
        PROVE  \E k \in 1..m + 1 : Fills(text[k], s) /\ u.uniforms[s] = Entry(text[k])
    <3>1. CASE s \in S
      BY <1>1, <1>2, <1>3, <3>1
    <3>2. CASE s \notin S
      BY <1>1, <1>3, <2>1, <3>2 DEF SlotsFilled, TablesShape
    <3> QED
      BY <3>1, <3>2
  <2>2. ASSUME NEW k \in 1..m + 1, text[k].in = "uniforms"
        PROVE  /\ text[k].i \in Upto(FragmentRegisters)
               /\ \A s \in Slots(text[k].i, text[k].part) : u.uniforms[s] = Entry(text[k])
    <3>1. CASE k = m + 1
      BY <1>1, <1>2, <3>1 DEF S
    <3>2. CASE k \in 1..m
      <4>1. text[k].i \in Upto(FragmentRegisters)
        BY <2>2, <3>2 DEF SlotsFilled
      <4>2. ASSUME NEW s \in Slots(text[k].i, text[k].part)
            PROVE  u.uniforms[s] = Entry(text[k])
        <5>1. Fills(text[k], s) /\ s \in DOMAIN t.uniforms
          BY <2>2, <4>1, SlotsOfRegister DEF Fills, TablesShape
        <5>2. s \notin S
          BY <1>5, <3>2, <5>1
        <5>3. t.uniforms[s] = Entry(text[k])
          BY <2>2, <3>2 DEF SlotsFilled
        <5> QED
          BY <1>1, <5>1, <5>2, <5>3
      <4> QED
        BY <4>1, <4>2
    <3> QED
      BY <1>3, <3>1, <3>2
  <2>3. ASSUME NEW k \in 1..m + 1, NEW j \in 1..m + 1, NEW s, Fills(text[k], s), Fills(text[j], s)
        PROVE  k = j
    <3>1. CASE k \in 1..m /\ j \in 1..m
      BY <2>3, <3>1 DEF SlotsFilled
    <3>2. CASE k = m + 1 \/ j = m + 1
      BY <1>2, <1>3, <1>5, <2>3, <3>2
    <3> QED
      BY <1>3, <3>1, <3>2
  <2> QED
    BY <2>1, <2>2, <2>3 DEF SlotsFilled
<1>8. HalvesGiven(text, m + 1, u)
  BY <1>1, <1>3, <1>4 DEF HalvesGiven
<1> QED
  BY <1>6, <1>7, <1>8

LEMMA ConstantLine ==
  ASSUME NEW text, NEW m \in Nat, NEW t, NEW u,
         TablesShape(t), SlotsFilled(text, m, t), HalvesGiven(text, m, t),
         text[m + 1].in = "constants", text[m + 1].i \in Upto(FragmentRegisters),
         text[m + 1].part \in {"low", "high", "fp20"},
         u = [t EXCEPT !.constants[text[m + 1].i] = Put(@, text[m + 1].part, text[m + 1].number)]
  PROVE  TablesShape(u) /\ SlotsFilled(text, m + 1, u) /\ HalvesGiven(text, m + 1, u)
<1> DEFINE l == text[m + 1]
           r == l.i
           w == Put(t.constants[r], l.part, l.number)
<1>1. /\ DOMAIN u = DOMAIN t /\ u.uniforms = t.uniforms
      /\ u.constants = [t.constants EXCEPT ![r] = w]
  BY DEF TablesShape, NoFragmentTables
<1>2. /\ IsWord(w)
      /\ \A h \in Halves : w[h] = IF <<r, h>> \in Parts(r, l.part) THEN WordOf(l.part, l.number)[h]
                                  ELSE t.constants[r][h]
  <2> DEFINE part   == l.part
             number == l.number
             old    == t.constants[r]
  <2>1. IsWord(old) /\ part \in {"low", "high", "fp20"}
    BY DEF TablesShape
  <2> HIDE DEF part, old, number, r
  <2>2. IsWord(Put(old, part, number))
    BY <2>1, PutHalf DEF Halves
  <2>3. ASSUME NEW h \in Halves
        PROVE  Put(old, part, number)[h] =
                 IF <<r, h>> \in Parts(r, part) THEN WordOf(part, number)[h] ELSE old[h]
    BY <2>1, PutHalf
  <2> QED
    BY <2>2, <2>3 DEF part, old, number
<1>3. 1..m + 1 = 1..m \cup {m + 1} /\ m + 1 \notin 1..m /\ \A k \in 1..m : k <= m + 1 /\ ~(m + 1 <= k)
  OBVIOUS
<1>4. \A s : ~Fills(l, s)
  BY DEF Fills
<1>5. \A i, h : Gives(l, i, h) <=> i = r /\ <<r, h>> \in Parts(r, l.part)
  BY DEF Gives, Parts
<1>6. /\ DOMAIN t.constants = Upto(FragmentRegisters) /\ r \in Upto(FragmentRegisters)
      /\ u.constants[r] = w
      /\ \A i \in Upto(FragmentRegisters) : i # r => u.constants[i] = t.constants[i]
  BY <1>1 DEF TablesShape
<1> HIDE DEF w, r
<1>7. TablesShape(u)
  BY <1>1, <1>2, <1>6 DEF TablesShape
<1>8. SlotsFilled(text, m + 1, u)
  <2>1. \A s \in Upto(2 * FragmentRegisters) : u.uniforms[s] # None =>
          \E k \in 1..m + 1 : Fills(text[k], s) /\ u.uniforms[s] = Entry(text[k])
    BY <1>1, <1>3 DEF SlotsFilled
  <2>2. \A k \in 1..m + 1 : text[k].in = "uniforms" =>
          /\ text[k].i \in Upto(FragmentRegisters)
          /\ \A s \in Slots(text[k].i, text[k].part) : u.uniforms[s] = Entry(text[k])
    BY <1>1, <1>3 DEF SlotsFilled
  <2>3. \A k, j \in 1..m + 1 : (\E s : Fills(text[k], s) /\ Fills(text[j], s)) => k = j
    BY <1>3, <1>4 DEF SlotsFilled
  <2> QED
    BY <2>1, <2>2, <2>3 DEF SlotsFilled
<1>9. HalvesGiven(text, m + 1, u)
  <2> SUFFICES ASSUME NEW i \in Upto(FragmentRegisters), NEW h \in Halves
               PROVE  /\ (\A k \in 1..m + 1 : ~Gives(text[k], i, h)) => u.constants[i][h] = 0
                      /\ \A k \in 1..m + 1 : Gives(text[k], i, h)
                                             /\ (\A j \in 1..m + 1 : Gives(text[j], i, h) => j <= k) =>
                           u.constants[i][h] = WordOf(text[k].part, text[k].number)[h]
    BY DEF HalvesGiven
  <2>1. CASE Gives(l, i, h)
    <3>1. i = r /\ <<r, h>> \in Parts(r, l.part) /\ u.constants[i] = w
      BY <1>5, <1>6, <2>1
    <3>2. u.constants[i][h] = WordOf(l.part, l.number)[h]
      BY <1>2, <3>1, Zenon
    <3>3. \A k \in 1..m + 1 : (\A j \in 1..m + 1 : Gives(text[j], i, h) => j <= k) => k = m + 1
      BY <1>3, <2>1
    <3> QED
      BY <1>3, <2>1, <3>2, <3>3
  <2>2. CASE ~Gives(l, i, h)
    <3>1. u.constants[i][h] = t.constants[i][h]
      BY <1>2, <1>5, <1>6, <2>2
    <3> QED
      BY <1>3, <2>2, <3>1 DEF HalvesGiven
  <2> QED
    BY <2>1, <2>2
<1> QED
  BY <1>7, <1>8, <1>9

\* The tables of a text that is accepted hold what its lines say.
LEMMA TablesOfText ==
  ASSUME NEW text, FragmentText(text), FragmentTables(text) # None
  PROVE  /\ TablesShape(FragmentTables(text))
         /\ SlotsFilled(text, Len(text), FragmentTables(text))
         /\ HalvesGiven(text, Len(text), FragmentTables(text))
<1> DEFINE s == FragmentStates(text)
           N == Len(text)
           Holds(m) == TablesShape(s[m]) /\ SlotsFilled(text, m, s[m]) /\ HalvesGiven(text, m, s[m])
           T == {m \in 0..N : Holds(m)}
<1>1. N \in Nat /\ DOMAIN text = 1..N
  BY DEF FragmentText
<1>2. 0 \in T
  <2>1. s[0] = NoFragmentTables
    BY <1>1, FragmentStatesAre, Zenon
  <2>2. Holds(0)
    BY <2>1, NoTables, Zenon
  <2> QED
    BY <1>1, <2>2
<1>3. ASSUME NEW m \in 0..N - 1, m \in T
      PROVE  m + 1 \in T
  <2> DEFINE l == text[m + 1]
             t == s[m]
             u == s[m + 1]
  <2>1. ~FragmentLineRefused(t, l) /\ u = FragmentLine(t, l)
    BY <1>1, LinesAccepted, Zenon
  <2>2. Holds(m)
    BY <1>3
  <2>3. m \in Nat /\ m + 1 \in 0..N /\ m + 1 \in 1..N /\ \A k \in 1..m : k \in 1..N
    BY <1>1
  <2>4. \A k \in 1..N :
          \/ text[k].in \in {"alu_buffer_size", "pseq_to_dw_exec_nb", "asm"}
          \/ /\ text[k].in \in {"constants", "uniforms"}
             /\ text[k].i \in Nat /\ text[k].part \in {"low", "high", "fp20"}
             /\ text[k].in = "uniforms" => None # Entry(text[k])
    BY <1>1 DEF FragmentText, Entry
  <2> HIDE DEF s, N, Holds
  <2>5. TablesShape(t) /\ SlotsFilled(text, m, t) /\ HalvesGiven(text, m, t)
    BY <2>2 DEF Holds
  <2> HIDE DEF t, u
  <2>6. TablesShape(u) /\ SlotsFilled(text, m + 1, u) /\ HalvesGiven(text, m + 1, u)
    <3>1. CASE l.in \in {"alu_buffer_size", "pseq_to_dw_exec_nb", "asm"}
      <4>1. DOMAIN u = DOMAIN t /\ u.uniforms = t.uniforms /\ u.constants = t.constants
        BY <2>1, <2>5, <3>1 DEF FragmentLine, TablesShape, NoFragmentTables
      <4> QED
        BY <2>3, <2>5, <3>1, <4>1, OtherLine
    <3>2. CASE l.in = "constants"
      <4>1. l.i \in Upto(FragmentRegisters) /\ l.part \in {"low", "high", "fp20"}
        BY <2>1, <2>3, <2>4, <3>2, ProgramsAssumption DEF FragmentLineRefused, Upto
      <4>2. u = [t EXCEPT !.constants[l.i] = Put(@, l.part, l.number)]
        BY <2>1, <3>2 DEF FragmentLine
      <4> QED
        BY <2>3, <2>5, <3>2, <4>1, <4>2, ConstantLine
    <3>3. CASE l.in = "uniforms"
      <4>1. l.i \in Upto(FragmentRegisters) /\ \A slot \in Slots(l.i, l.part) : t.uniforms[slot] = None
        BY <2>1, <2>3, <2>4, <3>3, ProgramsAssumption DEF FragmentLineRefused, Upto
      <4>2. u = [t EXCEPT !.uniforms = [slot \in DOMAIN @ |-> IF slot \in Slots(l.i, l.part)
                                                              THEN Entry(l) ELSE @[slot]]]
        BY <2>1, <3>3 DEF FragmentLine, Entry
      <4> QED
        BY <2>3, <2>4, <2>5, <3>3, <4>1, <4>2, UniformLine
    <3> QED
      BY <2>3, <2>4, <3>1, <3>2, <3>3
  <2> QED
    BY <2>3, <2>6 DEF Holds, t, u
<1> HIDE DEF T
<1>4. \A m \in 0..N : m \in T
  BY <1>1, <1>2, <1>3, FromZero
<1>5. N \in T
  BY <1>1, <1>4
<1> QED
  BY <1>5 DEF T, FragmentTables

\* The constants of a program are the numbers that its text's lines give last, and zeroes.
LEMMA FragmentConstantsGiven ==
  ASSUME NEW text, FragmentText(text), FragmentTables(text) # None,
         NEW i \in Upto(FragmentRegisters), NEW h \in Halves
  PROVE  FragmentTables(text).constants[i][h] =
           IF <<i, h>> \in DOMAIN FragmentGiven(text) THEN FragmentGiven(text)[<<i, h>>] ELSE 0
<1> DEFINE t == FragmentTables(text)
           p == <<i, h>>
           N == Len(text)
           G == Giving(text, p)
           last == CHOOSE k \in G : \A j \in G : j <= k
<1>1. N \in Nat /\ DOMAIN text = 1..N
  BY DEF FragmentText
<1>2. G = {k \in 1..N : Gives(text[k], i, h)}
  BY <1>1 DEF Giving, Gives
<1>3. HalvesGiven(text, N, t)
  BY TablesOfText
<1>4. p \in DOMAIN FragmentGiven(text) <=> G # {}
  <2>1. DOMAIN FragmentGiven(text) = UNION {Parts(l.i, l.part) : l \in Constants(text)}
    BY DEF FragmentGiven
  <2>2. p \in DOMAIN FragmentGiven(text) <=> \E l \in Constants(text) : p \in Parts(l.i, l.part)
    BY <2>1
  <2>3. Constants(text) = {l \in {text[k] : k \in 1..N} : l.in = "constants"}
    BY <1>1 DEF Constants, Range
  <2> QED
    BY <1>2, <2>2, <2>3 DEF Gives
<1> HIDE DEF t, N, G
<1>5. CASE G = {}
  BY <1>2, <1>3, <1>4, <1>5 DEF HalvesGiven, t
<1>6. CASE G # {}
  <2>1. last \in G /\ \A j \in G : j <= last
    <3> DEFINE back == {N - k : k \in G}
    <3>1. back \in SUBSET Nat /\ back # {}
      BY <1>1, <1>2, <1>6
    <3>2. PICK n \in back : \A m \in back : n <= m
      BY <3>1, LeastNumber
    <3>3. PICK k \in G : n = N - k
      BY <3>2
    <3>4. \A j \in G : j <= k
      <4> SUFFICES ASSUME NEW j \in G
                   PROVE  j <= k
        OBVIOUS
      <4>1. N - k <= N - j
        BY <3>2, <3>3
      <4>2. j \in Int /\ k \in Int
        BY <1>2
      <4> QED
        BY <1>1, <4>1, <4>2
    <3> QED
      BY <3>3, <3>4
  <2>2. FragmentGiven(text)[p] = WordOf(text[last].part, text[last].number)[h]
    <3>1. p \in DOMAIN FragmentGiven(text) /\ p[2] = h
      BY <1>4, <1>6
    <3>2. LastGiving(text, p) = text[last]
      BY DEF LastGiving, G
    <3> HIDE DEF last
    <3>3. FragmentGiven(text)[p] = WordOf(LastGiving(text, p).part, LastGiving(text, p).number)[p[2]]
      BY <3>1 DEF FragmentGiven
    <3> QED
      BY <3>1, <3>2, <3>3
  <2> HIDE DEF last
  <2>3. t.constants[i][h] = WordOf(text[last].part, text[last].number)[h]
    BY <1>2, <1>3, <2>1 DEF HalvesGiven
  <2> QED
    BY <1>4, <1>6, <2>2, <2>3 DEF t
<1> QED
  BY <1>5, <1>6

\* The slot of the symbol that a line makes
SlotOf(l) == 2 * l.i + (IF l.part = "high" THEN 1 ELSE 0)

LEMMA UniformLines ==
  ASSUME NEW text, FragmentText(text), FragmentTables(text) # None,
         NEW l \in Range(text), l.in = "uniforms"
  PROVE  /\ l.i \in Upto(FragmentRegisters) /\ l.i \in Nat
         /\ l.part \in {"low", "high", "fp20"}
         /\ Fills(l, SlotOf(l)) /\ SlotOf(l) \in Upto(2 * FragmentRegisters)
         /\ FragmentTables(text).uniforms[SlotOf(l)] = Entry(l) /\ Entry(l) # None
         /\ \A d \in Range(text) : Fills(d, SlotOf(l)) => d = l
<1> DEFINE t == FragmentTables(text)
           N == Len(text)
<1>1. N \in Nat /\ DOMAIN text = 1..N /\ Range(text) = {text[k] : k \in 1..N}
  BY DEF FragmentText, Range
<1>2. PICK k \in 1..N : l = text[k]
  BY <1>1
<1>3. SlotsFilled(text, N, t)
  BY TablesOfText
<1>4. l.i \in Nat /\ l.part \in {"low", "high", "fp20"} /\ None # Entry(l)
  BY <1>1, <1>2 DEF FragmentText, Entry
<1> HIDE DEF t, N
<1>5. l.i \in Upto(FragmentRegisters) /\ \A s \in Slots(l.i, l.part) : t.uniforms[s] = Entry(l)
  BY <1>2, <1>3 DEF SlotsFilled
<1>6. SlotOf(l) \in Slots(l.i, l.part)
  BY <1>4 DEF SlotOf, Slots
<1>7. \A d \in Range(text) : Fills(d, SlotOf(l)) => d = l
  BY <1>1, <1>2, <1>3, <1>6 DEF SlotsFilled, Fills
<1>8. SlotOf(l) \in Upto(2 * FragmentRegisters)
  BY <1>5, <1>6, SlotsOfRegister
<1> QED
  BY <1>4, <1>5, <1>6, <1>7, <1>8 DEF Fills, t

\* The symbols of a program's fragment uniforms are the lines that declare them.
LEMMA HalfSymbols ==
  ASSUME NEW text, FragmentText(text), FragmentTables(text) # None,
         NEW symbols, symbols = UniformSymbols(FragmentTables(text).uniforms)
  PROVE  /\ \A s \in symbols : \E l \in Range(text) :
              l.in = "uniforms" /\ l.name = s.name /\ SlotOf(l) = s.at /\ s.lowp = (l.part # "fp20")
         /\ \A l \in Range(text) : l.in = "uniforms" =>
              [name |-> l.name, at |-> SlotOf(l), lowp |-> l.part # "fp20"] \in symbols
<1> DEFINE uniforms == FragmentTables(text).uniforms
           lowp(s)  == uniforms[s].part # "fp20"
           kept     == {k \in DOMAIN uniforms : /\ uniforms[k] # None
                                                /\ ~(k % 2 = 1 /\ uniforms[k].part = "fp20")}
<1>1. symbols = {[name |-> uniforms[s].name, at |-> s, lowp |-> lowp(s)] : s \in kept}
  BY Zenon DEF UniformSymbols
<1>2. DOMAIN uniforms = Upto(2 * FragmentRegisters)
  BY TablesOfText DEF TablesShape
<1>3. ASSUME NEW s \in symbols
      PROVE  \E l \in Range(text) :
               l.in = "uniforms" /\ l.name = s.name /\ SlotOf(l) = s.at /\ s.lowp = (l.part # "fp20")
  <2>1. PICK n \in kept : s = [name |-> uniforms[n].name, at |-> n, lowp |-> lowp(n)]
    BY <1>1, Zenon
  <2>2. n \in Upto(2 * FragmentRegisters) /\ uniforms[n] # None
    BY <1>2
  <2>3. PICK k \in 1..Len(text) : Fills(text[k], n) /\ uniforms[n] = Entry(text[k])
    BY <2>2, TablesOfText DEF SlotsFilled
  <2>4. text[k] \in Range(text) /\ text[k].in = "uniforms" /\ n \in Slots(text[k].i, text[k].part)
    BY <2>3 DEF FragmentText, Range, Fills
  <2>5. uniforms[n].name = text[k].name /\ uniforms[n].part = text[k].part
    BY <2>3 DEF Entry
  <2>6. ~(n % 2 = 1 /\ text[k].part = "fp20")
    BY <2>5
  <2>7. SlotOf(text[k]) = n
    <3>1. text[k].i \in Nat /\ text[k].part \in {"low", "high", "fp20"}
      BY <2>4, UniformLines
    <3> QED
      BY <2>4, <2>6, <3>1 DEF SlotOf, Slots
  <2>8. lowp(n) = (text[k].part # "fp20")
    BY <2>5
  <2> HIDE DEF lowp, uniforms
  <2>9. s.name = text[k].name /\ s.at = n /\ s.lowp = lowp(n)
    BY <2>1, <2>5
  <2> QED
    BY <2>4, <2>7, <2>8, <2>9
<1>4. ASSUME NEW l \in Range(text), l.in = "uniforms"
      PROVE  [name |-> l.name, at |-> SlotOf(l), lowp |-> l.part # "fp20"] \in symbols
  <2> DEFINE n == SlotOf(l)
  <2>1. n \in DOMAIN uniforms /\ uniforms[n] = Entry(l) /\ uniforms[n] # None
    BY <1>2, <1>4, UniformLines
  <2>2. uniforms[n].name = l.name /\ uniforms[n].part = l.part
    BY <2>1 DEF Entry
  <2>3. ~(n % 2 = 1 /\ l.part = "fp20")
    BY <1>4, UniformLines DEF SlotOf
  <2>4. n \in kept
    BY <2>1, <2>2, <2>3
  <2>5. lowp(n) = (l.part # "fp20")
    BY <2>2
  <2> HIDE DEF kept, uniforms, n, lowp
  <2>6. [name |-> uniforms[n].name, at |-> n, lowp |-> lowp(n)] \in symbols
    BY <1>1, <2>4
  <2> QED
    BY <2>2, <2>5, <2>6, Zenon DEF n
<1> QED
  BY <1>3, <1>4

\* The lookup of a name finds the half, or the word, that the first line which declares it
\* names.
LEMMA HalfOfName ==
  ASSUME NEW text, FragmentText(text), FragmentTables(text) # None,
         NEW symbols, symbols = UniformSymbols(FragmentTables(text).uniforms),
         NEW name, Location(symbols, name) # None,
         NEW s \in symbols, s.at = Location(symbols, name)
  PROVE  LET l == FirstHalfOf(Declared(text, "uniforms", name))
         IN /\ l.i \in Upto(FragmentRegisters) /\ l.part \in {"low", "high", "fp20"}
            /\ s.at \div 2 = l.i
            /\ l.part = IF ~s.lowp THEN "fp20" ELSE IF s.at % 2 = 1 THEN "high" ELSE "low"
<1> DEFINE S     == {o \in symbols : o.name = name}
           names == Declared(text, "uniforms", name)
           l     == FirstHalfOf(names)
           first == CHOOSE o \in S : \A q \in S : o.at <= q.at
           n     == s.at
<1>1. S # {} /\ n = first.at
  BY DEF Location
<1>2. names = {d \in Range(text) : d.in = "uniforms" /\ d.name = name}
  BY DEF Declared, Range
<1>3. \A o \in S : \E d \in names : SlotOf(d) = o.at
  BY <1>2, HalfSymbols
<1>4. \A d \in names : /\ d.i \in Nat /\ d.i \in Upto(FragmentRegisters)
                       /\ d.part \in {"low", "high", "fp20"}
                       /\ SlotOf(d) \in Nat
                       /\ \A e \in names : SlotOf(e) = SlotOf(d) => e = d
  <2> SUFFICES ASSUME NEW d \in names
               PROVE  /\ d.i \in Nat /\ d.i \in Upto(FragmentRegisters)
                      /\ d.part \in {"low", "high", "fp20"}
                      /\ SlotOf(d) \in Nat
                      /\ \A e \in names : SlotOf(e) = SlotOf(d) => e = d
    OBVIOUS
  <2>1. d \in Range(text) /\ d.in = "uniforms"
    BY <1>2
  <2>2. \A e \in names : Fills(e, SlotOf(e)) /\ e \in Range(text)
    BY <1>2, UniformLines
  <2>3. SlotOf(d) \in Nat
    BY <2>1, UniformLines DEF SlotOf
  <2> QED
    BY <2>1, <2>2, <2>3, UniformLines
<1>5. \A d \in names : \E o \in S : o.at = SlotOf(d)
  <2> SUFFICES ASSUME NEW d \in names
               PROVE  \E o \in S : o.at = SlotOf(d)
    OBVIOUS
  <2> DEFINE o == [name |-> d.name, at |-> SlotOf(d), lowp |-> d.part # "fp20"]
  <2>1. o \in symbols
    BY <1>2, HalfSymbols, Zenon
  <2>2. o.name = name /\ o.at = SlotOf(d)
    BY <1>2
  <2> QED
    BY <2>1, <2>2
<1>6. \A o \in S : o.at \in Nat
  BY <1>3, <1>4
<1>7. first \in S /\ \A o \in S : first.at <= o.at
  <2> DEFINE M == {o.at : o \in S}
  <2>1. M \subseteq Nat /\ M # {}
    BY <1>1, <1>6
  <2>2. PICK m \in M : \A k \in M : m <= k
    BY <2>1, LeastNumber
  <2> QED
    BY <2>2
<1>8. (\A d \in names : n <= SlotOf(d)) /\ \E d \in names : SlotOf(d) = n
  <2> HIDE DEF first, S
  <2> QED
    BY <1>1, <1>3, <1>5, <1>7
<1>9. PICK d \in names : SlotOf(d) = n
  BY <1>8
<1>10. \E h \in Range(text) : h.in = "uniforms" /\ SlotOf(h) = n /\ s.lowp = (h.part # "fp20")
  BY HalfSymbols
<1> HIDE DEF S, names, first, n
<1>11. \A e \in names : d.i < e.i \/ (d.i = e.i /\ (d = e \/ d.part # "high"))
  <2> SUFFICES ASSUME NEW e \in names
               PROVE  d.i < e.i \/ (d.i = e.i /\ (d = e \/ d.part # "high"))
    OBVIOUS
  <2>1. SlotOf(d) <= SlotOf(e)
    BY <1>8, <1>9, <1>8, <1>9
  <2>2. d.i \in Nat /\ e.i \in Nat
    BY <1>4, <1>8, <1>9
  <2>3. d.i <= e.i
    BY <2>1, <2>2 DEF SlotOf
  <2>4. d.i = e.i /\ d.part = "high" => SlotOf(d) = SlotOf(e)
    BY <2>1, <2>2 DEF SlotOf
  <2>5. SlotOf(d) = SlotOf(e) => d = e
    BY <1>4, <1>8, <1>9
  <2> QED
    BY <2>2, <2>3, <2>4, <2>5
<1>12. l = d
  <2>1. l \in names /\ \A e \in names : l.i < e.i \/ (l.i = e.i /\ (l = e \/ l.part # "high"))
    BY <1>8, <1>9, <1>11 DEF FirstHalfOf
  <2> HIDE DEF l
  <2>2. l.i \in Nat /\ d.i \in Nat /\ SlotOf(d) <= SlotOf(l)
    BY <1>4, <1>8, <1>9, <2>1
  <2>3. ~(l.i < d.i)
    BY <2>2 DEF SlotOf
  <2>4. l = d \/ (l.i = d.i /\ l.part # "high")
    BY <1>8, <1>9, <2>1, <2>3
  <2>5. l.i = d.i /\ l.part # "high" => SlotOf(l) = SlotOf(d)
    BY <2>2 DEF SlotOf
  <2> QED
    BY <1>4, <1>8, <1>9, <2>1, <2>4, <2>5
<1>13. s.lowp = (d.part # "fp20")
  <2>1. PICK h \in Range(text) : h.in = "uniforms" /\ SlotOf(h) = n /\ s.lowp = (h.part # "fp20")
    BY <1>10
  <2>2. d \in Range(text) /\ d.in = "uniforms" /\ Fills(h, SlotOf(h))
    BY <1>2, <1>8, <1>9, <2>1, UniformLines
  <2>3. h = d
    BY <1>8, <1>9, <2>1, <2>2, UniformLines
  <2> QED
    BY <2>1, <2>3
<1>14. d.i \in Nat /\ d.i \in Upto(FragmentRegisters) /\ d.part \in {"low", "high", "fp20"}
  BY <1>4, <1>8, <1>9
<1>15. n \div 2 = d.i /\ (n % 2 = 1 <=> d.part = "high")
  BY <1>8, <1>9, <1>14 DEF SlotOf
<1> QED
  BY <1>12, <1>13, <1>14, <1>15 DEF n, names

\* Steps that set no uniform and bind no program leave the values alone.
LEMMA ValuesStay ==
  ASSUME ValuesInv, UNCHANGED <<ctx.vs_uniforms, ctx.fs_uniforms, asked.vertex, asked.fragment>>
  PROVE  ValuesInv'
BY DEF ValuesInv

LEMMA OtherSetters ==
  ASSUME IInv, ValuesInv,
         \/ LinkProgram \/ VertexAttribPointer \/ EnableVertexAttribArray
         \/ BindRenderTarget \/ SetRenderTargetDither \/ EnableRenderTarget
         \/ BindDepthBuffer \/ BindStencilBuffer
         \/ SetFrontDirectionIsCw \/ SetCullFace
         \/ SetDepthFunc \/ DepthTest \/ DepthWrite \/ StencilTest
         \/ SetStencilFunc \/ SetStencilOps \/ BindTexture \/ SetParameter
         \/ DrawElements \/ UNCHANGED vars
  PROVE  ValuesInv'
<1>1. DOMAIN ctx = ContextFields /\ DOMAIN asked = AskedFields
  BY DEF IInv, FieldsInv
<1>2. CASE LinkProgram \/ DrawElements \/ UNCHANGED vars
  BY <1>2, ValuesStay DEF LinkProgram, DrawElements, vars
<1>3. CASE VertexAttribPointer
  <2>1. PICK i, b, j, c : Sets([ctx EXCEPT !.vtx_attributes[i] = b], [asked EXCEPT !.attributes[j] = c])
    BY <1>3, Zenon DEF VertexAttribPointer
  <2> QED
    BY <1>1, <2>1, ValuesStay DEF Sets, ContextFields, AskedFields
<1>4. CASE BindRenderTarget \/ BindDepthBuffer \/ BindStencilBuffer
  <2>1. PICK i, b : Sets([ctx EXCEPT !.render_targets[i].pixbuf = b], [asked EXCEPT !.targets[i] = b])
    BY <1>4, Zenon DEF BindRenderTarget, BindDepthBuffer, BindStencilBuffer, BufferBound
  <2> QED
    BY <1>1, <2>1, ValuesStay DEF Sets, ContextFields, AskedFields
<1>5. CASE SetRenderTargetDither \/ EnableRenderTarget \/ EnableVertexAttribArray
  BY <1>1, <1>5, ValuesStay DEF SetRenderTargetDither, EnableRenderTarget, EnableVertexAttribArray, Sets,
                                ContextFields
<1>6. CASE SetFrontDirectionIsCw \/ SetCullFace
  BY <1>1, <1>6, ValuesStay DEF SetFrontDirectionIsCw, SetCullFace, Sets, ContextFields, AskedFields
<1>7. CASE SetDepthFunc \/ DepthTest \/ DepthWrite \/ StencilTest
  BY <1>1, <1>7, ValuesStay DEF SetDepthFunc, DepthTest, DepthWrite, StencilTest, Sets, ContextFields
<1>8. CASE SetStencilFunc \/ SetStencilOps
  <2>1. PICK x : Sets([ctx EXCEPT !.stencil = x], asked)
    BY <1>8, Zenon DEF SetStencilFunc, SetStencilOps
  <2> QED
    BY <1>1, <2>1, ValuesStay DEF Sets, ContextFields
<1>9. CASE BindTexture \/ SetParameter
  BY <1>1, <1>9, ValuesStay DEF BindTexture, SetParameter, Sets, ContextFields
<1> QED
  BY <1>2, <1>3, <1>4, <1>5, <1>6, <1>7, <1>8, <1>9

\* A program that is bound comes with the constants of its text, and zeroes.
LEMMA BindValues ==
  ASSUME IInv, ValuesInv, BindProgram
  PROVE  ValuesInv'
<1>1. DOMAIN ctx = ContextFields /\ DOMAIN asked = AskedFields /\ ProgramsInv
  BY DEF IInv, FieldsInv
<1>2. PICK n \in DOMAIN programs :
        /\ programs[n] # None
        /\ Sets([ctx EXCEPT !.program = n, !.vs_uniforms = programs[n].vs_constants,
                            !.fs_uniforms = programs[n].fs_constants],
                [asked EXCEPT !.vertex = VertexGiven(programs[n].text.vertex),
                              !.fragment = FragmentGiven(programs[n].text.fragment)])
  BY Zenon DEF BindProgram
<1> DEFINE p        == programs[n]
           vertex   == p.text.vertex
           fragment == p.text.fragment
<1>3. /\ VertexText(vertex) /\ VertexTables(vertex) # None
      /\ p.vs_constants = VertexConstants(VertexTables(vertex).constants)
      /\ FragmentText(fragment) /\ FragmentTables(fragment) # None
      /\ p.fs_constants = FragmentTables(fragment).constants
  <2>1. Linked(p)
    BY <1>1, <1>2 DEF ProgramsInv
  <2> QED
    BY <2>1, LinkedProgram, Zenon
<1> HIDE DEF p, vertex, fragment
<1>4. /\ ctx'.vs_uniforms = VertexConstants(VertexTables(vertex).constants)
      /\ ctx'.fs_uniforms = FragmentTables(fragment).constants
      /\ asked'.vertex = VertexGiven(vertex) /\ asked'.fragment = FragmentGiven(fragment)
  BY <1>1, <1>2, <1>3 DEF Sets, ContextFields, AskedFields, p, vertex, fragment
<1>5. \A i \in Upto(VertexRegisters), k \in Upto(VectorSize) :
        ctx'.vs_uniforms[i * VectorSize + k] =
          IF <<i, k>> \in DOMAIN asked'.vertex THEN asked'.vertex[<<i, k>>] ELSE 0
  <2> SUFFICES ASSUME NEW i \in Upto(VertexRegisters), NEW k \in Upto(VectorSize)
               PROVE  VertexConstants(VertexTables(vertex).constants)[i * VectorSize + k] =
                        IF <<i, k>> \in DOMAIN VertexGiven(vertex) THEN VertexGiven(vertex)[<<i, k>>] ELSE 0
    BY <1>4, Zenon
  <2> QED
    BY <1>3, VertexConstantsGiven
<1>6. DOMAIN ctx'.vs_uniforms = Upto(VectorSize * VertexRegisters)
  BY <1>4 DEF VertexConstants
<1>7. /\ DOMAIN ctx'.fs_uniforms = Upto(FragmentRegisters)
      /\ \A i \in Upto(FragmentRegisters) : IsWord(ctx'.fs_uniforms[i])
  BY <1>3, <1>4, TablesOfText DEF TablesShape
<1>8. ASSUME NEW i \in Upto(FragmentRegisters)
      PROVE  ctx'.fs_uniforms[i] =
               [h \in {"low", "high"} |->
                  IF <<i, h>> \in DOMAIN asked'.fragment THEN asked'.fragment[<<i, h>>] ELSE 0]
  <2>1. ASSUME NEW h \in Halves
        PROVE  ctx'.fs_uniforms[i][h] =
                 IF <<i, h>> \in DOMAIN asked'.fragment THEN asked'.fragment[<<i, h>>] ELSE 0
    <3>1. FragmentTables(fragment).constants[i][h] =
            IF <<i, h>> \in DOMAIN FragmentGiven(fragment) THEN FragmentGiven(fragment)[<<i, h>>] ELSE 0
      BY <1>3, FragmentConstantsGiven
    <3> QED
      BY <1>4, <3>1, Zenon
  <2>2. ctx'.fs_uniforms[i] = [h \in Halves |-> ctx'.fs_uniforms[i][h]]
    BY <1>7 DEF IsWord
  <2> QED
    BY <2>1, <2>2 DEF Halves
<1> QED
  BY <1>5, <1>6, <1>7, <1>8 DEF ValuesInv

\* The program that is bound
LEMMA BoundIsLinked ==
  ASSUME IInv, ctx.program # None
  PROVE  Linked(Bound)
BY DEF IInv, ProgramsInv, Bound

\* A vertex uniform reaches its components.
LEMMA VertexValues ==
  ASSUME IInv, ValuesInv, SetVertexUniform
  PROVE  ValuesInv'
<1>1. DOMAIN ctx = ContextFields /\ DOMAIN asked = AskedFields /\ case \in Cases
  BY DEF IInv, FieldsInv, ProgramsInv
<1>2. PICK c \in Calls("vertex_uniform") :
        /\ ctx.program # None
        /\ LET at == Location(Bound.vs_uniforms, c.name)
               nb == Len(c.words)
           IN /\ at # None
              /\ Sets([ctx EXCEPT !.vs_uniforms =
                         [k \in DOMAIN @ |-> IF k \in at * VectorSize .. at * VectorSize + nb - 1
                                             THEN c.words[k - at * VectorSize + 1] ELSE @[k]]],
                      [asked EXCEPT !.vertex =
                         LET l == FirstOf(Declared(Bound.text.vertex, "uniforms", c.name))
                         IN Over([p \in {<<l.i + k \div VectorSize, k % VectorSize>> : k \in Upto(nb)} |->
                                    c.words[(p[1] - l.i) * VectorSize + p[2] + 1]], @)])
  BY Zenon DEF SetVertexUniform
<1> DEFINE text  == Bound.text.vertex
           at    == Location(Bound.vs_uniforms, c.name)
           l     == FirstOf(Declared(text, "uniforms", c.name))
           words == c.words
           old   == ctx.vs_uniforms
           given == asked.vertex
           new   == WordsSet(old, at, words)
           ask   == WordsAsked(given, at, words)
<1>3. at = l.i /\ at \in Nat
  <2>1. /\ VertexText(text) /\ VertexTables(text) # None
        /\ Bound.vs_uniforms = Named(NamesOf(text, "uniforms"))
    BY <1>2, BoundIsLinked, LinkedProgram, Zenon
  <2>2. at # None
    BY <1>2
  <2>3. at = l.i /\ l.i \in Upto(Limit["uniforms"])
    BY <2>1, <2>2, LocationOfName
  <2> QED
    BY <2>3 DEF Upto
<1>4. Len(words) \in Nat
  <2>1. words \in Seq(Range(words))
    BY <1>1, <1>2, CasesAssumption DEF Calls
  <2> QED
    BY <2>1
<1>5. /\ ctx'.vs_uniforms = new /\ ctx'.fs_uniforms = ctx.fs_uniforms
      /\ asked'.vertex = ask /\ asked'.fragment = asked.fragment
  <2>1. /\ ctx' = [ctx EXCEPT !.vs_uniforms = new]
        /\ asked' = [asked EXCEPT !.vertex = ask]
    BY <1>2, <1>3, Zenon DEF Sets, WordsSet, WordsAsked
  <2> HIDE DEF new, ask
  <2> QED
    BY <1>1, <2>1 DEF ContextFields, AskedFields
<1> HIDE DEF at, words, old, given
<1>6. ASSUME NEW i \in Upto(VertexRegisters), NEW k \in Upto(VectorSize)
      PROVE  new[i * VectorSize + k] = IF <<i, k>> \in DOMAIN ask THEN ask[<<i, k>>] ELSE 0
  <2>1. /\ DOMAIN old = Upto(VectorSize * VertexRegisters)
        /\ old[i * VectorSize + k] = IF <<i, k>> \in DOMAIN given THEN given[<<i, k>>] ELSE 0
    BY DEF ValuesInv, old, given
  <2> QED
    BY <1>3, <1>4, <2>1, UniformWords
<1>7. DOMAIN new = Upto(VectorSize * VertexRegisters)
  BY DEF ValuesInv, WordsSet, old
<1> HIDE DEF new, ask
<1> QED
  BY <1>5, <1>6, <1>7 DEF ValuesInv

\* A fragment uniform reaches its half, or its word, and leaves the other half alone.
LEMMA FragmentValues ==
  ASSUME IInv, ValuesInv, SetFragmentUniform
  PROVE  ValuesInv'
<1>1. DOMAIN ctx = ContextFields /\ DOMAIN asked = AskedFields
  BY DEF IInv, FieldsInv
<1>2. PICK c \in Calls("fragment_uniform"), s \in Bound.fs_uniforms :
        /\ ctx.program # None /\ Location(Bound.fs_uniforms, c.name) # None
        /\ s.at = Location(Bound.fs_uniforms, c.name)
        /\ LET part == IF ~s.lowp THEN "fp20" ELSE IF s.at % 2 = 1 THEN "high" ELSE "low"
               l    == FirstHalfOf(Declared(Bound.text.fragment, "uniforms", c.name))
           IN Sets([ctx EXCEPT !.fs_uniforms[s.at \div 2] = Put(@, part, c.number)],
                   [asked EXCEPT !.fragment = Given(@, Parts(l.i, l.part), WordOf(l.part, c.number))])
  BY Zenon DEF SetFragmentUniform
<1> DEFINE text == Bound.text.fragment
           l    == FirstHalfOf(Declared(text, "uniforms", c.name))
           r    == l.i
           part == l.part
           v    == c.number
           word == Put(ctx.fs_uniforms[r], part, v)
           ask  == Given(asked.fragment, Parts(r, part), WordOf(part, v))
<1>3. /\ r \in Upto(FragmentRegisters) /\ part \in {"low", "high", "fp20"}
      /\ s.at \div 2 = r
      /\ part = IF ~s.lowp THEN "fp20" ELSE IF s.at % 2 = 1 THEN "high" ELSE "low"
  <2>1. /\ FragmentText(text) /\ FragmentTables(text) # None
        /\ Bound.fs_uniforms = UniformSymbols(FragmentTables(text).uniforms)
    BY <1>2, BoundIsLinked, LinkedProgram, Zenon
  <2> DEFINE symbols == Bound.fs_uniforms
             name    == c.name
  <2>2. Location(symbols, name) # None /\ s \in symbols /\ s.at = Location(symbols, name)
    BY <1>2
  <2> HIDE DEF symbols, name, text
  <2> QED
    BY <2>1, <2>2, HalfOfName DEF symbols, name
<1>4. /\ ctx'.vs_uniforms = ctx.vs_uniforms /\ ctx'.fs_uniforms = [ctx.fs_uniforms EXCEPT ![r] = word]
      /\ asked'.vertex = asked.vertex /\ asked'.fragment = ask
  <2>1. /\ ctx' = [ctx EXCEPT !.fs_uniforms[r] = word]
        /\ asked' = [asked EXCEPT !.fragment = ask]
    BY <1>2, <1>3, Zenon DEF Sets
  <2> HIDE DEF r, word, ask
  <2> QED
    BY <1>1, <2>1 DEF ContextFields, AskedFields
<1> HIDE DEF r, part, v
<1>5. /\ DOMAIN ctx.fs_uniforms = Upto(FragmentRegisters)
      /\ \A i \in Upto(FragmentRegisters) :
           ctx.fs_uniforms[i] =
             [h \in Halves |->
                IF <<i, h>> \in DOMAIN asked.fragment THEN asked.fragment[<<i, h>>] ELSE 0]
  BY DEF ValuesInv, Halves
<1>6. IsWord(ctx.fs_uniforms[r])
  BY <1>3, <1>5 DEF IsWord
<1>7. /\ DOMAIN ask = Parts(r, part) \cup DOMAIN asked.fragment
      /\ \A p \in DOMAIN ask : ask[p] = IF p \in Parts(r, part) THEN WordOf(part, v)[p[2]]
                                        ELSE asked.fragment[p]
  <2> DEFINE f == [p \in Parts(r, part) |-> WordOf(part, v)[p[2]]]
  <2>1. ask = Over(f, asked.fragment)
    BY DEF Given
  <2>2. DOMAIN f = Parts(r, part) /\ \A p \in Parts(r, part) : f[p] = WordOf(part, v)[p[2]]
    OBVIOUS
  <2> HIDE DEF f, ask
  <2>3. /\ DOMAIN ask = DOMAIN f \cup DOMAIN asked.fragment
        /\ \A p \in DOMAIN ask : ask[p] = IF p \in DOMAIN f THEN f[p] ELSE asked.fragment[p]
    BY <2>1 DEF Over
  <2> QED
    BY <2>2, <2>3
<1>8. /\ DOMAIN ctx'.fs_uniforms = Upto(FragmentRegisters)
      /\ ctx'.fs_uniforms[r] = word
      /\ \A i \in Upto(FragmentRegisters) : i # r => ctx'.fs_uniforms[i] = ctx.fs_uniforms[i]
  BY <1>3, <1>4, <1>5
<1>9. IsWord(word) /\ \A h \in Halves :
        word[h] = IF <<r, h>> \in Parts(r, part) THEN WordOf(part, v)[h] ELSE ctx.fs_uniforms[r][h]
  <2> DEFINE old == ctx.fs_uniforms[r]
  <2> HIDE DEF old
  <2>1. IsWord(old) /\ part \in {"low", "high", "fp20"}
    BY <1>3, <1>6 DEF old
  <2>2. IsWord(Put(old, part, v))
    BY <2>1, PutHalf DEF Halves
  <2>3. ASSUME NEW h \in Halves
        PROVE  Put(old, part, v)[h] = IF <<r, h>> \in Parts(r, part) THEN WordOf(part, v)[h] ELSE old[h]
    BY <2>1, PutHalf
  <2> QED
    BY <2>2, <2>3 DEF old
<1> HIDE DEF word, ask
<1>10. ASSUME NEW i \in Upto(FragmentRegisters)
       PROVE  ctx'.fs_uniforms[i] =
                [h \in Halves |-> IF <<i, h>> \in DOMAIN ask THEN ask[<<i, h>>] ELSE 0]
  <2>1. IsWord(ctx'.fs_uniforms[i])
    BY <1>5, <1>8, <1>9 DEF IsWord
  <2>2. ASSUME NEW h \in Halves
        PROVE  ctx'.fs_uniforms[i][h] = IF <<i, h>> \in DOMAIN ask THEN ask[<<i, h>>] ELSE 0
    <3>1. <<i, h>>[2] = h /\ (i # r => <<i, h>> \notin Parts(r, part))
      BY DEF Parts
    <3>2. ctx.fs_uniforms[i][h] =
            IF <<i, h>> \in DOMAIN asked.fragment THEN asked.fragment[<<i, h>>] ELSE 0
      BY <1>5
    <3>3. CASE <<i, h>> \in Parts(r, part)
      BY <1>7, <1>8, <1>9, <3>1, <3>3
    <3>4. CASE <<i, h>> \notin Parts(r, part)
      <4>1. ctx'.fs_uniforms[i][h] = ctx.fs_uniforms[i][h]
        BY <1>8, <1>9, <3>4
      <4> QED
        BY <1>7, <3>2, <3>4, <4>1
    <3> QED
      BY <3>3, <3>4
  <2> QED
    BY <2>1, <2>2 DEF IsWord
<1> QED
  BY <1>4, <1>8, <1>10 DEF ValuesInv, Halves

\* Whatever is set by name, bound or refused, in whichever order: every component and every
\* half of the context has the value that was given for it last, or 0.
THEOREM InductiveValues == Spec => []ValuesInv
<1>1. Init => ValuesInv
  <2> SUFFICES ASSUME Init
               PROVE  ValuesInv
    OBVIOUS
  <2>1. /\ ctx.vs_uniforms = [k \in Upto(VectorSize * VertexRegisters) |-> 0]
        /\ ctx.fs_uniforms = [i \in Upto(FragmentRegisters) |-> NoWord]
        /\ asked.vertex = <<>> /\ asked.fragment = <<>>
    BY DEF Init, EmptyContext, NothingAsked
  <2>2. \A i \in Upto(VertexRegisters), k \in Upto(VectorSize) :
          i * VectorSize + k \in Upto(VectorSize * VertexRegisters)
    BY ComponentsOfRegisters
  <2>3. NoWord = [h \in {"low", "high"} |-> 0]
    BY DEF NoWord
  <2>4. \A i, k : <<i, k>> \notin DOMAIN asked.vertex /\ <<i, k>> \notin DOMAIN asked.fragment
    BY <2>1
  <2>5. \A i \in Upto(VertexRegisters), k \in Upto(VectorSize) :
          ctx.vs_uniforms[i * VectorSize + k] = 0
    BY <2>1, <2>2
  <2> QED
    BY <2>1, <2>3, <2>4, <2>5 DEF ValuesInv
<1>2. IInv /\ ValuesInv /\ [Next]_vars => ValuesInv'
  <2> SUFFICES ASSUME IInv, ValuesInv, [Next]_vars
               PROVE  ValuesInv'
    OBVIOUS
  <2>1. CASE BindProgram
    BY <2>1, BindValues
  <2>2. CASE SetVertexUniform
    BY <2>2, VertexValues
  <2>3. CASE SetFragmentUniform
    BY <2>3, FragmentValues
  <2> QED
    BY <2>1, <2>2, <2>3, OtherSetters, Zenon DEF Next
<1> QED
  BY <1>1, <1>2, InductiveInvariant, PTL DEF Spec

\* Whatever an instruction of a job reads by register is what the caller gave last by name
\* since it bound the program, or the constant of the text.
THEOREM ValuesCorrect == Spec => []ValuesReachRegisters
<1>1. IInv /\ ValuesInv => ValuesReachRegisters
  <2> SUFFICES ASSUME IInv, ValuesInv, drawn # None
               PROVE  ValuesReachRegisters
    BY DEF ValuesReachRegisters
  <2>1. drawn.vp_const = ctx.vs_uniforms /\ drawn.fp_const = ctx.fs_uniforms
    BY DrawnFields
  <2>2. ASSUME NEW i \in Upto(FragmentRegisters), NEW h \in {"low", "high"}
        PROVE  ctx.fs_uniforms[i][h] =
                 IF <<i, h>> \in DOMAIN asked.fragment THEN asked.fragment[<<i, h>>] ELSE 0
    <3>1. ctx.fs_uniforms[i] =
            [k \in {"low", "high"} |->
               IF <<i, k>> \in DOMAIN asked.fragment THEN asked.fragment[<<i, k>>] ELSE 0]
      BY DEF ValuesInv
    <3> QED
      BY <3>1
  <2> QED
    BY <2>1, <2>2 DEF ValuesInv, ValuesReachRegisters
<1> QED
  BY <1>1, InductiveInvariant, InductiveValues, PTL
=============================================================================
