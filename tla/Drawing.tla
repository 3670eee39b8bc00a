------------------------------- MODULE Drawing -------------------------------
(***************************************************************************)
(* The 3D context of libgrate (grate-3d-ctx.c) and the job that            *)
(* grate_3d_draw_elements makes of it (grate-3d.c).  A caller sets the     *)
(* context in calls of any order and draws; drawn holds the registers that *)
(* the job writes, until the context changes.                              *)
(*                                                                         *)
(* A job starts with host1x_push_gr3d_reset, which gives no buffer to any  *)
(* unit: what a job does not write itself, it does not have.               *)
(***************************************************************************)
EXTENDS Programs

CONSTANTS Targets,   \* render targets: 16
          Textures,  \* texture units: 16
          Cases      \* the texts a caller has, and the calls it makes

ASSUME DrawingAssumption == Targets \in Nat /\ Targets > 2 /\ Textures \in Nat

Depths   == {"D16_LINEAR", "D16_NONLINEAR"}
Drawable == {"A8", "L8", "S8", "LA88", "RGB565", "RGBA5551", "RGBA4444", "RGBA8888",
             "BGRA8888", "RGBA_FP32"} \cup Depths
Compressed == {"ETC1", "DXT1", "DXT3", "DXT5"}
Layouts  == {"LINEAR", "TILED_16x16"}
Sides    == {"FRONT", "BACK"}
\* Whether a type is normalised is left out.
AttributeTypes == {"UBYTE", "SBYTE", "USHORT", "SSHORT", "FIXED16", "FLOAT16", "UINT", "SINT",
                   "FLOAT32"}

\* Targets, attributes and units have unsigned numbers, a pixel buffer has one of the
\* layouts there are, a switch is on or off.  The scanner reads no sign, so the lines of
\* a text have unsigned numbers, too; the parts of a register are those there are.
ASSUME CasesAssumption ==
  \A q \in Cases :
    /\ \A c \in q.calls :
         /\ c.op \in {"bind_target", "dither_target", "enable_target", "enable_attrib"} => c.at \in Nat
         /\ c.op \in {"dither_target", "enable_target", "front_cw"} => c.on \in BOOLEAN
         /\ c.op = "bind_target" => c.pixbuf.layout \in Layouts
         /\ c.op = "vertex_uniform" => c.words \in Seq(Range(c.words))
         /\ c.op = "cull_face" => c.face \in Sides \cup {"NONE", "BOTH"}
    /\ q.texts \in Seq(Range(q.texts))
    /\ \A n \in DOMAIN q.texts : LET lines == q.texts[n].vertex IN
         /\ lines \in Seq(Range(lines))
         /\ \A k \in DOMAIN lines :
              /\ lines[k].i \in Nat
              /\ lines[k].in = "constants" => lines[k].c \in Upto(VectorSize) /\ lines[k].word # None
    /\ \A n \in DOMAIN q.texts : LET lines == q.texts[n].fragment IN
         /\ lines \in Seq(Range(lines))
         /\ \A k \in DOMAIN lines :
              \/ lines[k].in \in {"alu_buffer_size", "pseq_to_dw_exec_nb", "asm"}
              \/ /\ lines[k].in \in {"constants", "uniforms"}
                 /\ lines[k].i \in Nat /\ lines[k].part \in {"low", "high", "fp20"}
                 /\ lines[k].in = "uniforms" => None # [name |-> lines[k].name, part |-> lines[k].part]

ASSUME NoneAssumption == None \notin [format : Drawable, tiled : BOOLEAN, dither : BOOLEAN]

VARIABLES case,      \* the caller
          programs,  \* the programs it has linked
          ctx,       \* struct grate_3d_ctx
          drawn,     \* the registers of the last job, or None
          asked      \* what the caller has asked for, in its own terms

vars == <<case, programs, ctx, drawn, asked>>

NoStencil == [func |-> 0, ref |-> 0, mask |-> 0, ops |-> <<0, 0, 0>>]

EmptyContext ==
  [program |-> None,
   vs_uniforms |-> [k \in Upto(VectorSize * VertexRegisters) |-> 0],
   fs_uniforms |-> [i \in Upto(FragmentRegisters) |-> NoWord],
   vtx_attributes |-> [i \in Upto(Attributes) |-> None], attributes_enabled |-> {},
   render_targets |-> [i \in Upto(Targets) |-> [pixbuf |-> None, dither |-> FALSE]],
   targets_enabled |-> {},
   cull_face |-> "NONE", tri_face_front_cw |-> FALSE,
   depth_func |-> 0, depth_test |-> FALSE, depth_write |-> FALSE, stencil_test |-> FALSE,
   stencil |-> [side \in Sides |-> NoStencil],
   textures |-> [i \in Upto(Textures) |-> None],
   parameters |-> [p \in {"depth_range", "dither", "viewport", "point", "line", "guardband",
                          "scissor", "point_coord_range", "polygon_offset", "provoking_vtx_last"}
                     |-> 0]]

-----------------------------------------------------------------------------
(* What the caller asked for.  vertex and fragment: the value of every     *)
(* component and every half a named thing covers; face: what to cull;      *)
(* targets, attributes: the buffers given, by the number in the text for   *)
(* an attribute; of two with one name the first is meant.                  *)

NothingAsked == [vertex |-> <<>>, fragment |-> <<>>, face |-> "NONE",
                 targets |-> [i \in Upto(Targets) |-> None],
                 attributes |-> [i \in Upto(Attributes) |-> None]]

\* A program that is bound comes with the constants of its text: the last
\* line for a part decides.
Parts(i, part) == IF part = "fp20" THEN {<<i, "low">>, <<i, "high">>} ELSE {<<i, part>>}
WordOf(part, v) == IF part = "fp20" THEN float_to_fp20(v)
                   ELSE [low |-> float_to_fx10(v), high |-> float_to_fx10(v)]
Over(f, m) == [p \in DOMAIN f \cup DOMAIN m |-> IF p \in DOMAIN f THEN f[p] ELSE m[p]]
Given(m, parts, word) == Over([p \in parts |-> word[p[2]]], m)

Constants(text) == {l \in Range(text) : l.in = "constants"}

VertexGiven(text) ==
  [p \in {<<l.i, l.c>> : l \in Constants(text)} |->
     (CHOOSE l \in Constants(text) : <<l.i, l.c>> = p).word]

Giving(text, p) ==
  {k \in DOMAIN text : text[k].in = "constants" /\ p \in Parts(text[k].i, text[k].part)}
LastGiving(text, p) == text[CHOOSE k \in Giving(text, p) : \A j \in Giving(text, p) : j <= k]

FragmentGiven(text) ==
  [p \in UNION {Parts(l.i, l.part) : l \in Constants(text)} |->
     WordOf(LastGiving(text, p).part, LastGiving(text, p).number)[p[2]]]

\* The line of a text that declares a uniform or attribute.
Declared(text, section, name) ==
  {text[k] : k \in {j \in DOMAIN text : text[j].in = section /\ text[j].name = name}}

\* The first of some lines, by the number they give
FirstOf(lines) == CHOOSE d \in lines : \A e \in lines : d.i <= e.i

\* ... of halves: the low half comes before the high one
FirstHalfOf(lines) ==
  CHOOSE d \in lines : \A e \in lines : d.i < e.i \/ (d.i = e.i /\ (d = e \/ d.part # "high"))

-----------------------------------------------------------------------------
(* Programs.                                                               *)

Calls(op) == {c \in case.calls : c.op = op}

Init == /\ case \in Cases
        /\ programs = <<>>
        /\ ctx = EmptyContext
        /\ drawn = None
        /\ asked = NothingAsked

\* The caller assembles its next two texts and links the program; a text
\* that is refused gives none.
LinkProgram ==
  /\ Len(programs) < Len(case.texts)
  /\ LET text == case.texts[Len(programs) + 1]
         vs   == VertexTables(text.vertex)
         fs   == FragmentTables(text.fragment)
     IN programs' = Append(programs, IF vs = None \/ fs = None THEN None
                                     ELSE grate_program_link(vs, fs, text))
  /\ UNCHANGED <<case, ctx, drawn, asked>>

Bound == programs[ctx.program]

\* A setter changes the context and what was asked; the last job's registers
\* are no longer those of the context.
Sets(context, ask) ==
  /\ ctx' = context
  /\ asked' = ask
  /\ drawn' = None
  /\ UNCHANGED <<case, programs>>

BindProgram ==
  \E c \in Calls("bind_program") :
    /\ c.program \in DOMAIN programs
    /\ LET p == programs[c.program]
       IN /\ p # None
          /\ Sets([ctx EXCEPT !.program = c.program, !.vs_uniforms = p.vs_constants,
                              !.fs_uniforms = p.fs_constants],
                  [asked EXCEPT !.vertex = VertexGiven(p.text.vertex),
                                !.fragment = FragmentGiven(p.text.fragment)])

-----------------------------------------------------------------------------
(* Uniforms, by the location the program has for a name.                   *)

\* The limit is put to registers and components alike.
UniformOutside(location, nb) ==
  location >= VertexRegisters \/ location + nb > VertexRegisters

\* nb is one vector's components for a vec4 and as many vectors for a mat4.
SetVertexUniform ==
  \E c \in Calls("vertex_uniform") :
    /\ ctx.program # None
    /\ LET at == Location(Bound.vs_uniforms, c.name)
           nb == Len(c.words)
       IN /\ at # None
          /\ ~UniformOutside(at, nb)
          /\ Sets([ctx EXCEPT !.vs_uniforms =
                     [k \in DOMAIN @ |-> IF k \in at * VectorSize .. at * VectorSize + nb - 1
                                         THEN c.words[k - at * VectorSize + 1] ELSE @[k]]],
                  [asked EXCEPT !.vertex =
                     LET l == FirstOf(Declared(Bound.text.vertex, "uniforms", c.name))
                     IN Over([p \in {<<l.i + k \div VectorSize, k % VectorSize>> : k \in Upto(nb)} |->
                                c.words[(p[1] - l.i) * VectorSize + p[2] + 1]], @)])

\* One component, which is all that a symbol of the assembler names
\* (grate-asm.c:508); a register near the end has no further one.
SetFragmentUniform ==
  \E c \in Calls("fragment_uniform") :
    /\ ctx.program # None
    /\ Location(Bound.fs_uniforms, c.name) # None
    /\ \E s \in Bound.fs_uniforms :
         /\ s.at = Location(Bound.fs_uniforms, c.name)
         /\ LET part == IF ~s.lowp THEN "fp20" ELSE IF s.at % 2 = 1 THEN "high" ELSE "low"
            IN Sets([ctx EXCEPT !.fs_uniforms[s.at \div 2] = Put(@, part, c.number)],
                    [asked EXCEPT !.fragment =
                       LET l == FirstHalfOf(Declared(Bound.text.fragment, "uniforms", c.name))
                       IN Given(@, Parts(l.i, l.part), WordOf(l.part, c.number))])

-----------------------------------------------------------------------------
(* Attributes.                                                             *)

VertexAttribPointer ==
  \E c \in Calls("attrib_pointer") :
    /\ ctx.program # None
    /\ LET at == Location(Bound.attributes, c.name)
       IN /\ c.type \in AttributeTypes
          /\ at # None
          /\ Sets([ctx EXCEPT !.vtx_attributes[at] = [bo |-> c.bo, type |-> c.type]],
                  LET l == FirstOf(Declared(Bound.text.vertex, "attributes", c.name))
                  IN [asked EXCEPT !.attributes[l.i] = c.bo])

EnableVertexAttribArray ==
  \E c \in Calls("enable_attrib") :
    /\ c.at < Attributes
    /\ Sets([ctx EXCEPT !.attributes_enabled = IF c.on THEN @ \cup {c.at} ELSE @ \ {c.at}], asked)

-----------------------------------------------------------------------------
(* Render targets.  Number 0 is also the depth buffer, number 2 the        *)
(* stencil buffer: binding one of these first unbinds what is there.       *)

BindRenderTarget ==
  \E c \in Calls("bind_target") :
    /\ c.pixbuf.format \in Drawable
    /\ c.at < Targets
    /\ Sets([ctx EXCEPT !.render_targets[c.at].pixbuf = c.pixbuf],
            [asked EXCEPT !.targets[c.at] = c.pixbuf])

SetRenderTargetDither ==
  \E c \in Calls("dither_target") :
    /\ c.at < Targets
    /\ Sets([ctx EXCEPT !.render_targets[c.at].dither = c.on], asked)

EnableRenderTarget ==
  \E c \in Calls("enable_target") :
    /\ c.at < Targets
    /\ Sets([ctx EXCEPT !.targets_enabled = IF c.on THEN @ \cup {c.at} ELSE @ \ {c.at}], asked)

BufferBound(at, formats, pixbuf) ==
  LET b == IF pixbuf.format \in formats /\ pixbuf.layout \in Layouts THEN pixbuf ELSE None
  IN Sets([ctx EXCEPT !.render_targets[at].pixbuf = b], [asked EXCEPT !.targets[at] = b])

BindDepthBuffer   == \E c \in Calls("bind_depth")   : BufferBound(0, Depths, c.pixbuf)
BindStencilBuffer == \E c \in Calls("bind_stencil") : BufferBound(2, {"S8"}, c.pixbuf)

-----------------------------------------------------------------------------
(* Faces.  The context keeps the winding that is culled, so the side that  *)
(* was asked for has to follow when the front changes its winding.         *)

Other(winding) == IF winding = "CW" THEN "CCW" ELSE "CW"
Winding(side, front_cw) == IF (side = "FRONT") = front_cw THEN "CW" ELSE "CCW"

\* Mutant: the direction of the front changes alone.
SetFrontDirectionIsCw_KeepsFace ==
  \E c \in Calls("front_cw") : Sets([ctx EXCEPT !.tri_face_front_cw = c.on], asked)

SetFrontDirectionIsCw ==
  \E c \in Calls("front_cw") :
    Sets([ctx EXCEPT !.cull_face = IF @ \in {"CW", "CCW"} /\ ctx.tri_face_front_cw # c.on
                                   THEN Other(@) ELSE @,
                     !.tri_face_front_cw = c.on], asked)

SetCullFace ==
  \E c \in Calls("cull_face") :
    Sets([ctx EXCEPT !.cull_face = IF c.face \in Sides THEN Winding(c.face, ctx.tri_face_front_cw)
                                   ELSE c.face],
         [asked EXCEPT !.face = c.face])

-----------------------------------------------------------------------------
(* Depth, stencil, textures and the parameters that are only passed on.    *)

SetDepthFunc  == \E c \in Calls("depth_func")  : Sets([ctx EXCEPT !.depth_func = c.func], asked)
DepthTest     == \E c \in Calls("depth_test")  : Sets([ctx EXCEPT !.depth_test = c.on], asked)
DepthWrite    == \E c \in Calls("depth_write") : Sets([ctx EXCEPT !.depth_write = c.on], asked)
StencilTest   == \E c \in Calls("stencil_test") : Sets([ctx EXCEPT !.stencil_test = c.on], asked)
BindTexture   == \E c \in Calls("bind_texture") :
                   /\ c.at < Textures
                   /\ Sets([ctx EXCEPT !.textures[c.at] = c.texture], asked)
SetParameter  == \E c \in Calls("parameter") :
                   Sets([ctx EXCEPT !.parameters[c.parameter] = c.number], asked)

\* A face is a side or both.
SidesOf(face) == IF face = "BOTH" THEN Sides ELSE {face}

SetStencilFunc ==
  \E c \in Calls("stencil_func") :
    Sets([ctx EXCEPT !.stencil = [s \in Sides |-> IF s \in SidesOf(c.face)
                                    THEN [@[s] EXCEPT !.func = c.func, !.ref = c.ref, !.mask = c.mask]
                                    ELSE @[s]]], asked)

SetStencilOps ==
  \E c \in Calls("stencil_ops") :
    Sets([ctx EXCEPT !.stencil = [s \in Sides |-> IF s \in SidesOf(c.face)
                                    THEN [@[s] EXCEPT !.ops = c.ops] ELSE @[s]]], asked)

-----------------------------------------------------------------------------
(* The job.                                                                *)

\* An attribute that the program reads and the caller enabled and gave.
FedAttributes == {i \in Bound.inputs \cap ctx.attributes_enabled : ctx.vtx_attributes[i] # None}

\* The tests pull in their buffers whether or not these are enabled.
Wanted == ctx.targets_enabled \cup (IF ctx.depth_test THEN {0} ELSE {})
                              \cup (IF ctx.stencil_test THEN {2} ELSE {})

\* Mutant: the formats that the tests need are not checked.
TargetParams_AnyFormat(i, pixbuf) ==
  IF pixbuf.format \notin Drawable \/ pixbuf.layout \notin Layouts THEN None
  ELSE [format |-> pixbuf.format, tiled |-> pixbuf.layout = "TILED_16x16",
        dither |-> ctx.render_targets[i].dither]

TargetParams(i, pixbuf) ==
  IF \/ pixbuf.format \notin Drawable
     \/ i = 0 /\ ctx.depth_test /\ pixbuf.format \notin Depths
     \/ i = 2 /\ ctx.stencil_test /\ pixbuf.format # "S8"
     \/ pixbuf.layout \notin Layouts
  THEN None
  ELSE [format |-> pixbuf.format, tiled |-> pixbuf.layout = "TILED_16x16",
        dither |-> ctx.render_targets[i].dither]

\* A target whose parameters are refused is left out of the job.
TargetsOfJob ==
  {i \in Wanted : IF ctx.render_targets[i].pixbuf = None THEN FALSE
                  ELSE TargetParams(i, ctx.render_targets[i].pixbuf) # None}

\* The image of a texture is its mipmap when its filter asks for one.  Its
\* pointer is written first: a texture of another format or layout than the
\* descriptor has a code for gets the pointer alone.
TextureImage(t) == IF t = None THEN None ELSE IF t.mipmap_enabled THEN t.mipmap_pixbuf ELSE t.pixbuf
TexturesOfJob   == {i \in Upto(Textures) : TextureImage(ctx.textures[i]) # None}

TextureDescriptor(t) ==
  LET image == TextureImage(t)
  IN IF image.format \notin Drawable \cup Compressed \/ image.layout # "LINEAR" THEN None
     ELSE [format |-> image.format, compressed |-> image.format \in Compressed,
           mipmap |-> t.mipmap_enabled]

CullRegister == [front_cw |-> ctx.tri_face_front_cw, face |-> ctx.cull_face]
ViewRegisters == [p \in {"depth_range", "dither", "viewport", "point", "line", "guardband"} |->
                    ctx.parameters[p]]
RasterRegisters == [p \in {"scissor", "point_coord_range", "polygon_offset"} |-> ctx.parameters[p]]

\* The divisor is the size that the text gives (a size of 0 has no job).
AluBuffer == [size |-> Bound.alu_buf_size - 1, sizex4 |-> 299 \div (Bound.alu_buf_size * 4)]
PseqDw    == Bound.pseq_to_dw_nb
LateTest  == IF Bound.discards_fragment /\ ctx.stencil_test THEN 96 ELSE 72

DepthRegisters   == [func |-> ctx.depth_func, test |-> ctx.depth_test, write |-> ctx.depth_write]
StencilRegisters == [side |-> ctx.stencil, test |-> ctx.stencil_test,
                     write_early |-> ~Bound.discards_fragment]

DrawParams(primitive, index_mode) ==
  [primitive |-> primitive, index_mode |-> index_mode,
   provoking_vtx_last |-> ctx.parameters["provoking_vtx_last"]]

Indices(indices, index_mode) == IF index_mode = "NONE" THEN None ELSE indices

Job(primitive, indices, index_mode) ==
  [cull        |-> CullRegister,
   view        |-> ViewRegisters,
   raster      |-> RasterRegisters,
   vp_const    |-> ctx.vs_uniforms,
   fp_const    |-> ctx.fs_uniforms,
   attributes  |-> [i \in FedAttributes |-> ctx.vtx_attributes[i]],
   out_mask    |-> Bound.outputs,
   targets     |-> [i \in TargetsOfJob |-> [bo |-> ctx.render_targets[i].pixbuf,
                                            params |-> TargetParams(i, ctx.render_targets[i].pixbuf)]],
   depth_buffer |-> ctx.depth_test /\ 0 \in TargetsOfJob,
   depth       |-> DepthRegisters,
   stencil     |-> StencilRegisters,
   late_test   |-> LateTest,
   textures    |-> [i \in TexturesOfJob |-> TextureImage(ctx.textures[i])],
   descriptors |-> [i \in TexturesOfJob |-> TextureDescriptor(ctx.textures[i])],
   alu_buffer  |-> AluBuffer,
   pseq_to_dw  |-> PseqDw,
   draw        |-> DrawParams(primitive, index_mode),
   indices     |-> Indices(indices, index_mode)]

\* grate_3d_draw_elements: the job is submitted and waited for.
DrawElements ==
  \E c \in Calls("draw") :
    /\ ctx.program # None
    /\ c.primitive \in {"POINTS", "LINES", "LINE_STRIP", "LINE_LOOP", "TRIANGLES",
                        "TRIANGLE_STRIP", "TRIANGLE_FAN"}
    /\ c.index_mode \in {"NONE", "UINT8", "UINT16"}
    /\ drawn' = Job(c.primitive, c.indices, c.index_mode)
    /\ UNCHANGED <<case, programs, ctx, asked>>

Next == \/ LinkProgram \/ BindProgram \/ SetVertexUniform \/ SetFragmentUniform
        \/ VertexAttribPointer \/ EnableVertexAttribArray
        \/ BindRenderTarget \/ SetRenderTargetDither \/ EnableRenderTarget
        \/ BindDepthBuffer \/ BindStencilBuffer
        \/ SetFrontDirectionIsCw \/ SetCullFace
        \/ SetDepthFunc \/ DepthTest \/ DepthWrite \/ StencilTest
        \/ SetStencilFunc \/ SetStencilOps \/ BindTexture \/ SetParameter
        \/ DrawElements

Spec == Init /\ [][Next]_vars

-----------------------------------------------------------------------------
(* Properties.                                                             *)

\* Whatever an instruction reads by register is what the caller last gave by
\* name since it bound the program, or else the constant of the text: through
\* the slots of halves, the symbols and their location bits, the lookup, the
\* copy at binding, the limits and the upload.  The two halves of a register
\* and the components of a matrix do not disturb one another.
ValuesReachRegisters ==
  drawn # None =>
    /\ \A i \in Upto(VertexRegisters), k \in Upto(VectorSize) :
         drawn.vp_const[i * VectorSize + k] =
           IF <<i, k>> \in DOMAIN asked.vertex THEN asked.vertex[<<i, k>>] ELSE 0
    /\ \A i \in Upto(FragmentRegisters), h \in {"low", "high"} :
         drawn.fp_const[i][h] =
           IF <<i, h>> \in DOMAIN asked.fragment THEN asked.fragment[<<i, h>>] ELSE 0

\* The job culls the side the caller asked for, in whichever order the side
\* and the direction of the front were set.
CullsWanted ==
  drawn # None =>
    drawn.cull.face = IF asked.face \in Sides THEN Winding(asked.face, drawn.cull.front_cw)
                      ELSE asked.face

\* Every unit that reads or writes memory in a job has the buffer last given
\* for it: no target without a buffer, no depth or stencil test on a buffer
\* of another format, none that a refused bind has replaced, and no attribute
\* but the ones the program reads.
BuffersBound ==
  drawn # None =>
    /\ \A i \in DOMAIN drawn.targets : drawn.targets[i].bo = asked.targets[i]
    /\ drawn.depth_buffer => drawn.targets[0].params.format \in Depths
    /\ drawn.stencil.test /\ 2 \in DOMAIN drawn.targets => drawn.targets[2].params.format = "S8"
    /\ ctx.targets_enabled \ {0, 2} \subseteq
         DOMAIN drawn.targets \cup {i \in Upto(Targets) : asked.targets[i] = None}
    /\ \A i \in DOMAIN drawn.attributes :
         /\ drawn.attributes[i].bo = asked.attributes[i]
         /\ \E l \in Range(Bound.text.vertex) : l.in = "attributes" /\ l.i = i

-----------------------------------------------------------------------------
(* The inductive invariant of CullsWanted and BuffersBound.                *)

ContextFields ==
  {"program", "vs_uniforms", "fs_uniforms", "vtx_attributes", "attributes_enabled",
   "render_targets", "targets_enabled", "cull_face", "tri_face_front_cw", "depth_func",
   "depth_test", "depth_write", "stencil_test", "stencil", "textures", "parameters"}
AskedFields == {"vertex", "fragment", "face", "targets", "attributes"}
FieldsInv == DOMAIN ctx = ContextFields /\ DOMAIN asked = AskedFields

\* A program is what its text says.
Linked(p) ==
  \E n \in DOMAIN case.texts :
    LET text == case.texts[n]
        vs   == VertexTables(text.vertex)
        fs   == FragmentTables(text.fragment)
    IN vs # None /\ fs # None /\ p = grate_program_link(vs, fs, text)

ProgramsInv ==
  /\ case \in Cases
  /\ programs \in Seq(Range(programs))
  /\ \A k \in DOMAIN programs : programs[k] # None => Linked(programs[k])
  /\ ctx.program # None => ctx.program \in DOMAIN programs /\ Bound # None

\* The winding culled is that of the side asked for.
FaceInv ==
  /\ ctx.tri_face_front_cw \in BOOLEAN
  /\ asked.face \in Sides \cup {"NONE", "BOTH"}
  /\ ctx.cull_face = IF asked.face \in Sides THEN Winding(asked.face, ctx.tri_face_front_cw)
                     ELSE asked.face

\* Each target has the buffer given last; what is not depth or stencil buffer has
\* parameters.
TargetsInv ==
  /\ DOMAIN ctx.render_targets = Upto(Targets) /\ DOMAIN asked.targets = Upto(Targets)
  /\ ctx.targets_enabled \subseteq Upto(Targets)
  /\ \A i \in Upto(Targets) : LET t == ctx.render_targets[i] IN
       /\ DOMAIN t = {"pixbuf", "dither"} /\ t.dither \in BOOLEAN
       /\ t.pixbuf = asked.targets[i]
       /\ t.pixbuf # None /\ i \notin {0, 2} =>
            t.pixbuf.format \in Drawable /\ t.pixbuf.layout \in Layouts

AttributesInv ==
  /\ DOMAIN ctx.vtx_attributes = Upto(Attributes) /\ DOMAIN asked.attributes = Upto(Attributes)
  /\ \A i \in Upto(Attributes) :
       ctx.vtx_attributes[i] # None => ctx.vtx_attributes[i].bo = asked.attributes[i]

\* Every register has the value given last.
ValuesInv ==
  /\ \A i \in Upto(VertexRegisters), k \in Upto(VectorSize) :
       ctx.vs_uniforms[i * VectorSize + k] =
         IF <<i, k>> \in DOMAIN asked.vertex THEN asked.vertex[<<i, k>>] ELSE 0
  /\ DOMAIN ctx.vs_uniforms = Upto(VectorSize * VertexRegisters)
  /\ DOMAIN ctx.fs_uniforms = Upto(FragmentRegisters)
  /\ \A i \in Upto(FragmentRegisters) :
       ctx.fs_uniforms[i] =
         [h \in {"low", "high"} |->
            IF <<i, h>> \in DOMAIN asked.fragment THEN asked.fragment[<<i, h>>] ELSE 0]

\* The last job is that of the context.
DrawnInv ==
  drawn # None =>
    /\ ctx.program # None
    /\ \E c \in Calls("draw") : drawn = Job(c.primitive, c.indices, c.index_mode)

IInv == FieldsInv /\ ProgramsInv /\ FaceInv /\ TargetsInv /\ AttributesInv /\ DrawnInv

=============================================================================
