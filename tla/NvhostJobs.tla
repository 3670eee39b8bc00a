----------------------------- MODULE NvhostJobs -----------------------------
(***************************************************************************)
(* What libwrap makes of the jobs a program hands to an nvhost channel     *)
(* (libwrap/nvhost.c, cdma_parser.c, disasm.c): it keeps the nvmap handles *)
(* and their contents, puts a job together from the structures the program *)
(* passes to write() in any number of calls, parses the words of each      *)
(* command buffer, and collects the shaders that are uploaded until        *)
(* something is drawn.                                                     *)
(*                                                                         *)
(* Module CommandChannel is the hardware, which reads word after word and  *)
(* knows neither buffers nor opcode handlers.                              *)
(*                                                                         *)
(* The programs here end no command buffer in the middle of an opcode's    *)
(* words (CmdbufOf), upload every shader from its first instruction on     *)
(* (Rewind), and use fewer than 32 linker instructions (OpcodeOf).         *)
(***************************************************************************)
EXTENDS CommandChannel

CONSTANTS
    Handles,    \* nvmap handles, none of which is given out twice
    Channels,   \* open files of /dev/nvhost-gr2d and /dev/nvhost-gr3d
    Programs,   \* [fills, mapped, jobs]: the contents each handle has one after
                \* the other, the handles that are mapped, each channel's jobs
    None        \* a NULL pointer

\* The numbers of a set in ascending order
InOrder(S) == CHOOSE s \in [1..Cardinality(S) -> S] :
    Range(s) = S /\ \A i, k \in DOMAIN s : i < k => s[i] < s[k]

\* offset + i for every bit i of the mask
Masked(w) == LET bits == InOrder(w.mask) IN [i \in DOMAIN bits |-> w.reg + bits[i]]

\* The registers that an opcode's words are for
Registers(w) ==
    CASE w.op \in {"SETCL", "MASK"} -> Masked(w)
      [] w.op = "INCR" -> [i \in 1..w.n |-> w.reg + i - 1]
      [] w.op = "NONINCR" -> [i \in 1..w.n |-> w.reg]
      [] w.op = "IMM" -> <<w.reg>>
      [] w.op \in {"RESTART", "EXTEND", "CHDONE"} -> <<>>

\* An opcode with a handler, but GATHER, that does not write the second word of the
\* last linker instruction
OpcodeOf(w) ==
    /\ w.op \in {"SETCL", "MASK", "INCR", "NONINCR", "IMM", "RESTART", "EXTEND", "CHDONE"}
    /\ w.reg \in Nat /\ w.n \in Nat /\ w.mask \subseteq 0..15
    /\ w.op = "SETCL" => w.mask \subseteq 0..5
    /\ \A i \in DOMAIN Registers(w) : Registers(w)[i] # 831

\* How many words after the opcode are its own
Data(w) == IF w.op = "IMM" THEN 0 ELSE Len(Registers(w))

\* S are the places of the opcodes among the words, and their end.
OpcodesAt(words, S) ==
    /\ 0 \in S /\ S \subseteq 0..Len(words)
    /\ \A p \in S : p # Len(words) =>
          OpcodeOf(words[p + 1]) /\ p + 1 + Data(words[p + 1]) \in S

\* A command buffer lies in the contents it is to run on.
CmdbufOf(q, c) ==
    /\ c.mem \in Handles
    /\ c.fill \in 1..Len(q.fills[c.mem])
    /\ c.offset \in Nat /\ c.words \in Nat
    /\ c.offset + c.words <= Len(q.fills[c.mem][c.fill])
    /\ \E S \in SUBSET (0..c.words) :
          OpcodesAt(SubSeq(q.fills[c.mem][c.fill], c.offset + 1, c.offset + c.words), S)

JobOf(q, j) ==
    /\ j.cmdbufs \in Seq(Range(j.cmdbufs)) /\ j.relocs \in Seq(Range(j.relocs))
    /\ j.waitchks \in Nat /\ j.version \in Nat
    /\ \A i \in DOMAIN j.cmdbufs : CmdbufOf(q, j.cmdbufs[i])

ASSUME ProgramsAssumption ==
    \A q \in Programs :
        /\ \A h \in Handles : \A i \in 1..Len(q.fills[h]) : q.fills[h][i] \in Seq(Range(q.fills[h][i]))
        /\ DOMAIN q.jobs = Channels
        /\ \A f \in Channels : /\ q.jobs[f] \in Seq(Range(q.jobs[f]))
                               /\ \A i \in DOMAIN q.jobs[f] : JobOf(q, q.jobs[f][i])

VARIABLES
    program,    \* never changes
    mem,        \* words in the memory of each handle
    filled,     \* how many of the fills of each handle are done
    todo,       \* jobs of each channel that are not flushed
    unsent,     \* structures of the open job still to be written; None: no open job
    \* libwrap
    handles,    \* nvmap->handles
    job,        \* nvhost->job
    hook,       \* write() hook of each channel
    classid,    \* nvhost->classid
    d,          \* nvhost->d
    writes,     \* register writes the parser has reported
    shown,      \* shaders disasm_dump has printed
    \* the hardware
    channel

told == <<program, mem, filled, todo, unsent>>
parsed == <<classid, d, writes, shown>>
vars == <<told, handles, job, hook, parsed, channel>>

NoHook == [at |-> "none"]
NoShaders == [unit |-> [u \in Units |-> <<>>], linker |-> <<>>, insts |-> 0]

Init ==
    /\ program \in Programs
    /\ mem = [h \in Handles |-> <<>>]
    /\ filled = [h \in Handles |-> 0]
    /\ todo = program.jobs
    /\ unsent = [f \in Channels |-> None]
    /\ handles = <<>>
    /\ job = [f \in Channels |-> None]
    /\ hook = [f \in Channels |-> NoHook]
    /\ classid = [f \in Channels |-> 0]
    /\ d = [f \in Channels |-> NoShaders]
    /\ writes = [f \in Channels |-> <<>>]
    /\ shown = [f \in Channels |-> <<>>]
    /\ channel = [f \in Channels |-> ChannelInit]

-----------------------------------------------------------------------------
(* nvmap: the handles and their contents *)

\* nvmap_file_lookup_handle
Known(h) == \E i \in DOMAIN handles : handles[i].id = h
lookup(h) == CHOOSE i \in DOMAIN handles :
    handles[i].id = h /\ \A k \in 1..(i - 1) : handles[k].id # h

\* NVMAP_IOCTL_CREATE; the hook runs after the kernel.
Create(h) ==
    /\ ~Known(h)
    /\ handles' = Append(handles, [id |-> h, mapped |-> FALSE, buffer |-> <<>>])
    /\ UNCHANGED <<told, job, hook, parsed, channel>>

\* NVMAP_IOCTL_MMAP
Mmap(h) ==
    /\ Known(h) /\ h \in program.mapped /\ ~handles[lookup(h)].mapped
    /\ handles' = [handles EXCEPT ![lookup(h)].mapped = TRUE]
    /\ UNCHANGED <<told, job, hook, parsed, channel>>

\* No job that is not flushed is to run on what the handle holds now.
Spent(h) == \A f \in Channels : \A i \in DOMAIN todo[f] :
    \A c \in Range(todo[f][i].cmdbufs) : c.mem = h => c.fill > filled[h]

\* The program stores the next contents through its mapping, or has them copied
\* by NVMAP_IOCTL_WRITE, whose hook copies them too.
Fill(h) ==
    /\ Known(h) /\ filled[h] < Len(program.fills[h])
    /\ h \in program.mapped => handles[lookup(h)].mapped
    /\ Spent(h)
    /\ filled' = [filled EXCEPT ![h] = @ + 1]
    /\ mem' = [mem EXCEPT ![h] = program.fills[h][filled[h] + 1]]
    /\ handles' = IF h \in program.mapped THEN handles
                  ELSE [handles EXCEPT ![lookup(h)].buffer = mem'[h]]
    /\ UNCHANGED <<program, todo, unsent, job, hook, parsed, channel>>

\* handle->mapped, or else handle->buffer
Contents(h) == IF handles[lookup(h)].mapped THEN mem[h] ELSE handles[lookup(h)].buffer

-----------------------------------------------------------------------------
(* Jobs: SUBMIT_EXT, any number of write()s, FLUSH *)

\* struct nvhost_waitchk and struct nvhost_reloc_shift, which are only counted
Waitchk == [struct |-> "waitchk"]
Shift == [struct |-> "reloc_shift"]
Shifts(j) == IF j.version >= 2 THEN Len(j.relocs) ELSE 0

\* The structures of a job, in the order the kernel reads them.
Structs(j) ==
    j.cmdbufs \o j.relocs \o [i \in 1..j.waitchks |-> Waitchk]
        \o [i \in 1..Shifts(j) |-> Shift]

Structures(j) == Range(j.cmdbufs) \cup Range(j.relocs) \cup {Waitchk, Shift}

ASSUME NoneAssumption ==
    /\ None # <<>>
    /\ \A q \in Programs : \A f \in Channels : \A i \in DOMAIN q.jobs[f] :
          None \notin Seq(Structures(q.jobs[f][i]))

Null(n) == [i \in 1..n |-> None]

\* nvhost_job_new
nvhost_job_new(j) ==
    [num_pushbufs |-> Len(j.cmdbufs), num_relocs |-> Len(j.relocs),
     cmdbufs_left |-> Len(j.cmdbufs), relocs_left |-> Len(j.relocs),
     waitchks_left |-> j.waitchks,
     shifts_left |-> Shifts(j),
     pushbufs |-> Null(Len(j.cmdbufs)), relocs |-> Null(Len(j.relocs))]

\* NVHOST_IOCTL_CHANNEL_SUBMIT_EXT: the job before is freed.
Submit(f) ==
    /\ todo[f] # <<>> /\ unsent[f] = None
    /\ \A c \in Range(Head(todo[f]).cmdbufs) : filled[c.mem] = c.fill
    /\ unsent' = [unsent EXCEPT ![f] = Structs(Head(todo[f]))]
    /\ job' = [job EXCEPT ![f] = nvhost_job_new(Head(todo[f]))]
    /\ UNCHANGED <<program, mem, filled, todo, handles, hook, parsed, channel>>

\* write() of any number of structures: its hook runs before the kernel.
WriteCall(f) ==
    /\ hook[f] = NoHook /\ unsent[f] # None
    /\ \E n \in DOMAIN unsent[f] :
        /\ hook' = [hook EXCEPT ![f] = [at |-> "loop", buffer |-> SubSeq(unsent[f], 1, n)]]
        /\ unsent' = [unsent EXCEPT ![f] = SubSeq(@, n + 1, Len(@))]
    /\ UNCHANGED <<program, mem, filled, todo, handles, job, parsed, channel>>

InLoop(f) == hook[f].at = "loop" /\ hook[f].buffer # <<>>
Advance(f) == hook' = [hook EXCEPT ![f].buffer = Tail(@)]

\* nvhost_job_add_pushbuf
AddPushbuf(f) ==
    LET c == Head(hook[f].buffer)
        index == job[f].num_pushbufs - job[f].cmdbufs_left + 1
        commands == SubSeq(Contents(c.mem), c.offset + 1, Len(Contents(c.mem)))
    IN
    /\ InLoop(f) /\ job[f].cmdbufs_left > 0
    /\ IF Known(c.mem)
       THEN /\ job' = [job EXCEPT ![f].cmdbufs_left = @ - 1,
                                  ![f].pushbufs[index] = SubSeq(commands, 1, c.words)]
            /\ hook' = [hook EXCEPT ![f] =
                 [at |-> "parse", buffer |-> Tail(@.buffer), words |-> commands,
                  num_words |-> c.words, position |-> 0, class |-> classid[f]]]
       ELSE job' = [job EXCEPT ![f].cmdbufs_left = @ - 1] /\ Advance(f)
    /\ UNCHANGED <<told, handles, parsed, channel>>

\* Mutant: the index is not counted up, as in the branch of the shifts.
RelocIndex_First(f) == 1

RelocIndex(f) == job[f].num_relocs - job[f].relocs_left + 1

\* nvhost_job_add_reloc
AddReloc(f) ==
    /\ InLoop(f) /\ job[f].cmdbufs_left = 0 /\ job[f].relocs_left > 0
    /\ job' = [job EXCEPT ![f].relocs_left = @ - 1,
                          ![f].relocs[RelocIndex(f)] = Head(hook[f].buffer)]
    /\ Advance(f)
    /\ UNCHANGED <<told, handles, parsed, channel>>

\* nvhost_job_add_wait_check, which only prints
AddWaitCheck(f) ==
    /\ InLoop(f) /\ job[f].cmdbufs_left = 0 /\ job[f].relocs_left = 0
    /\ job[f].waitchks_left > 0
    /\ job' = [job EXCEPT ![f].waitchks_left = @ - 1]
    /\ Advance(f)
    /\ UNCHANGED <<told, handles, parsed, channel>>

\* nvhost_job_add_shift, which only prints
AddShift(f) ==
    /\ InLoop(f) /\ job[f].cmdbufs_left = 0 /\ job[f].relocs_left = 0
    /\ job[f].waitchks_left = 0 /\ job[f].shifts_left > 0
    /\ job' = [job EXCEPT ![f].shifts_left = @ - 1]
    /\ Advance(f)
    /\ UNCHANGED <<told, handles, parsed, channel>>

\* The loop ends with the buffer; what the kernel does with the structures is
\* part of Flush.
WriteReturns(f) ==
    /\ hook[f].at = "loop" /\ hook[f].buffer = <<>>
    /\ hook' = [hook EXCEPT ![f] = NoHook]
    /\ UNCHANGED <<told, handles, job, parsed, channel>>

\* NVHOST_IOCTL_CHANNEL_FLUSH: the hook only prints, the hardware executes the
\* command buffers, and the program waits for it.
Flush(f) ==
    /\ unsent[f] = <<>> /\ hook[f] = NoHook
    /\ LET cs == Head(todo[f]).cmdbufs
           gathers == [i \in DOMAIN cs |->
                         SubSeq(mem[cs[i].mem], cs[i].offset + 1, cs[i].offset + cs[i].words)]
       IN channel' = [channel EXCEPT ![f] = GatherStates(@, gathers)[Len(cs)]]
    /\ todo' = [todo EXCEPT ![f] = Tail(@)]
    /\ unsent' = [unsent EXCEPT ![f] = None]
    /\ UNCHANGED <<program, mem, filled, handles, job, hook, parsed>>
-----------------------------------------------------------------------------
(* The disassembler: disasm.c *)

\* disasm_reset_vp, disasm_reset_fp
Reset(s, units) == [s EXCEPT !.unit = [u \in Units |-> IF u \in units THEN <<>> ELSE @[u]]]

\* Mutant: the shaders of the vertex and the fragment unit are reset together.
FpReset_All == Units

FpReset == FpUnits

Full(s, u) == Len(s.unit[u]) = Limit[u]

\* case TGR3D_LINKER_INSTRUCTION(0) ... TGR3D_LINKER_INSTRUCTION(31), which leaves
\* out the second word of the last one
LinkerKept == 768..830

\* disasm_write_reg but for the dump, for a register of the 3D engine
Keep(s, r, w) ==
    CASE r \in Units -> IF Full(s, r) THEN s ELSE [s EXCEPT !.unit[r] = Append(@, w)]
      [] r \in LinkerKept -> [s EXCEPT !.linker = (r :> w) @@ @]
      [] r = CULL_FACE_LINKER_SETUP -> [s EXCEPT !.insts = w.n + 1]
      [] r = VP_UPLOAD_INST_ID -> Reset(s, VpUnits)
      [] r = FP_UPLOAD_INST_ID_COMMON -> Reset(s, FpReset)
      [] OTHER -> s

\* disasm_write_reg on x = <<class, register, value>>; p is the shaders kept, those
\* shown and the writes reported
disasm_write_reg(p, x) ==
    IF x[1] # GR3D THEN p
    ELSE [p EXCEPT !.kept = Keep(@, x[2], x[3]),
                   !.shown = IF x[2] = DRAW_PRIMITIVES THEN Append(@, p.kept) ELSE @]

-----------------------------------------------------------------------------
(* cdma_parse_commands: one step per opcode *)

\* the k-th word after the opcode
After(f, k) == hook[f].words[hook[f].position + 1 + k]
Opcode(f) == After(f, 0)

cdma_register_write(p, x) == [disasm_write_reg(p, x) EXCEPT !.writes = Append(@, x)]

\* What p becomes, one after the other of the writes xs
Reports(p, xs) ==
    LET state[k \in 0..Len(xs)] == IF k = 0 THEN p ELSE cdma_register_write(state[k - 1], xs[k])
    IN state

\* The handler reports the values vs to the registers rs of class c and goes on n
\* words further.
Report(f, c, rs, vs, n) ==
    LET xs == [i \in DOMAIN rs |-> <<c, rs[i], vs[i]>>]
        p == Reports([kept |-> d[f], shown |-> shown[f], writes |-> writes[f]], xs)[Len(rs)]
    IN
    /\ d' = [d EXCEPT ![f] = p.kept]
    /\ shown' = [shown EXCEPT ![f] = p.shown]
    /\ writes' = [writes EXCEPT ![f] = p.writes]
    /\ hook' = [hook EXCEPT ![f].position = @ + n, ![f].class = c]
    /\ UNCHANGED <<told, handles, job, classid, channel>>

Parses(f, op) ==
    /\ hook[f].at = "parse"
    /\ hook[f].position < hook[f].num_words
    /\ Opcode(f).op = op

Following(f, n) == [i \in 1..n |-> After(f, i)]

\* The words of the registers follow the opcode.
Handled(f, op, class) ==
    LET w == Opcode(f) rs == Registers(w) IN
    Parses(f, op) /\ Report(f, class, rs, Following(f, Len(rs)), 1 + Len(rs))

setcl(f)   == Handled(f, "SETCL", Opcode(f).class)
incr(f)    == Handled(f, "INCR", hook[f].class)
nonincr(f) == Handled(f, "NONINCR", hook[f].class)
mask(f)    == Handled(f, "MASK", hook[f].class)

imm(f) ==
    LET w == Opcode(f) IN
    Parses(f, "IMM") /\ Report(f, hook[f].class, Registers(w), <<Value(w.n)>>, 1)

\* Mutant: the opcode is not skipped, as with those that have no handler.
Skip_Not(f) == 0

Skip(f) == 1

\* restart, extend and chdone only print; gather, which brings in words of another
\* buffer, is in no command buffer of the programs.  An opcode without a handler has no
\* step: the loop does not get past it.
NoWrites(f) ==
    /\ \E op \in {"RESTART", "EXTEND", "CHDONE"} : Parses(f, op)
    /\ Report(f, hook[f].class, <<>>, <<>>, Skip(f))

\* Mutant: every command buffer starts without a class.
NextClass_Zero(f) == 0

NextClass(f) == hook[f].class

\* The end of the words; the class goes on to the next command buffer.
ParseEnds(f) ==
    /\ hook[f].at = "parse"
    /\ hook[f].position >= hook[f].num_words
    /\ classid' = [classid EXCEPT ![f] = NextClass(f)]
    /\ hook' = [hook EXCEPT ![f] = [at |-> "loop", buffer |-> @.buffer]]
    /\ UNCHANGED <<told, handles, job, d, writes, shown, channel>>

-----------------------------------------------------------------------------
HookStep(f) ==
    \/ AddPushbuf(f) \/ AddReloc(f) \/ AddWaitCheck(f) \/ AddShift(f) \/ WriteReturns(f)
    \/ setcl(f) \/ incr(f) \/ nonincr(f) \/ mask(f) \/ imm(f) \/ NoWrites(f) \/ ParseEnds(f)

Next ==
    \/ \E h \in Handles : Create(h) \/ Mmap(h) \/ Fill(h)
    \/ \E f \in Channels : Submit(f) \/ WriteCall(f) \/ Flush(f) \/ HookStep(f)

\* A hook runs in the thread that called write(), and nothing blocks it.
Spec == Init /\ [][Next]_vars /\ \A f \in Channels : WF_vars(HookStep(f))

-----------------------------------------------------------------------------
(* Properties *)

TypeOK ==
    /\ program \in Programs
    /\ \A i \in DOMAIN handles : handles[i].id \in Handles /\ handles[i].mapped \in BOOLEAN
    /\ \A f \in Channels :
        /\ hook[f].at \in {"none", "loop", "parse"}
        /\ hook[f].at # "none" => job[f] # None
        /\ \A u \in Units : Len(d[f].unit[u]) <= Limit[u]
        /\ d[f].insts \in Nat

\* Once a job is flushed, libwrap has reported the register writes the channel
\* has made, in their order and with their class, however the job was cut into
\* command buffers and write()s (nvhost_job_add_pushbuf, cdma_parse_commands).
Flushed(f) == unsent[f] = None
WritesReported ==
    \A f \in Channels : Flushed(f) =>
        /\ writes[f] = channel[f].writes
        /\ classid[f] = channel[f].class

\* The shaders shown at a draw are those the channel draws with
\* (disasm_write_reg, disasm_dump).
ShadersShown == \A f \in Channels : Flushed(f) => shown[f] = channel[f].drawn

\* When the last structure of a job has been seen the job is what the program
\* sent, and nothing is left to be counted (nvhost_file_write).
JobAsSent ==
    \A f \in Channels : unsent[f] = <<>> /\ hook[f] = NoHook =>
        LET j == Head(todo[f]) IN
        /\ job[f].relocs = j.relocs
        /\ \A i \in DOMAIN j.cmdbufs : LET c == j.cmdbufs[i] IN
              job[f].pushbufs[i] = SubSeq(mem[c.mem], c.offset + 1, c.offset + c.words)
        /\ <<job[f].cmdbufs_left, job[f].relocs_left, job[f].waitchks_left, job[f].shifts_left>>
              = <<0, 0, 0, 0>>

\* A hook comes to its end: the loop over the structures never finds a structure
\* it does not expect, the loop over the words goes past every opcode
\* (nvhost_file_write, cdma_parse_commands).
HookReturns == \A f \in Channels : hook[f] # NoHook ~> hook[f] = NoHook

-----------------------------------------------------------------------------
(* The inductive invariant of JobAsSent *)

\* What the program does: its handles have the contents it filled in last, and the
\* jobs still to come are its jobs.
ProgramInv ==
    /\ program \in Programs
    /\ filled \in [Handles -> Nat] /\ \A h \in Handles : filled[h] <= Len(program.fills[h])
    /\ mem = [h \in Handles |-> IF filled[h] = 0 THEN <<>> ELSE program.fills[h][filled[h]]]
    /\ DOMAIN todo = Channels /\ \A f \in Channels : todo[f] \in Seq(Range(program.jobs[f]))

\* libwrap lists every handle once and has its contents, in the mapping or in a copy.
HandlesInv ==
    /\ handles \in Seq([id : Handles, mapped : BOOLEAN,
                        buffer : {<<>>} \cup UNION {Range(program.fills[h]) : h \in Handles}])
    /\ \A i, k \in DOMAIN handles : handles[i].id = handles[k].id => i = k
    /\ \A i \in DOMAIN handles : handles[i].mapped \/ handles[i].buffer = mem[handles[i].id]
    /\ \A h \in Handles : Known(h) \/ filled[h] = 0

HookInv ==
    /\ DOMAIN unsent = Channels /\ DOMAIN job = Channels /\ DOMAIN hook = Channels
    /\ \A f \in Channels :
        \/ hook[f] = NoHook
        \/ /\ unsent[f] # None
           /\ \/ hook[f] = [at |-> "loop", buffer |-> hook[f].buffer]
              \/ hook[f] = [at |-> "parse", buffer |-> hook[f].buffer, words |-> hook[f].words,
                            num_words |-> hook[f].num_words, position |-> hook[f].position,
                            class |-> hook[f].class]

\* The structures of the write() under way that have not been looked at, and how
\* many of the job's the kernel or libwrap have still to see.
InHook(f) == IF hook[f] = NoHook THEN <<>> ELSE hook[f].buffer
Left(b) == b.cmdbufs_left + b.relocs_left + b.waitchks_left + b.shifts_left
\* The counters of a job that is made for j.
CountersInv(j, b) ==
    /\ b = [num_pushbufs |-> Len(j.cmdbufs), num_relocs |-> Len(j.relocs),
            cmdbufs_left |-> b.cmdbufs_left, relocs_left |-> b.relocs_left,
            waitchks_left |-> b.waitchks_left, shifts_left |-> b.shifts_left,
            pushbufs |-> b.pushbufs, relocs |-> b.relocs]
    /\ b.cmdbufs_left \in 0..Len(j.cmdbufs) /\ b.relocs_left \in 0..Len(j.relocs)
    /\ b.waitchks_left \in 0..j.waitchks /\ b.shifts_left \in 0..Shifts(j)
    /\ b.relocs_left # Len(j.relocs) => b.cmdbufs_left = 0
    /\ b.waitchks_left # j.waitchks => b.cmdbufs_left = 0 /\ b.relocs_left = 0
    /\ b.shifts_left # Shifts(j) => b.cmdbufs_left = 0 /\ b.relocs_left = 0 /\ b.waitchks_left = 0

\* What has been seen of j is in its job.
Sent(c) == SubSeq(program.fills[c.mem][c.fill], c.offset + 1, c.offset + c.words)
ContentsInv(j, b) ==
    /\ b.pushbufs = [i \in 1..Len(j.cmdbufs) |-> b.pushbufs[i]]
    /\ b.relocs = [i \in 1..Len(j.relocs) |-> b.relocs[i]]
    /\ \A i \in 1..Len(j.cmdbufs) - b.cmdbufs_left : b.pushbufs[i] = Sent(j.cmdbufs[i])
    /\ \A i \in 1..Len(j.relocs) - b.relocs_left : b.relocs[i] = j.relocs[i]

\* The rest of j is what the counters say.
RestInv(j, b, buffer, rest) ==
    /\ buffer \in Seq(Structures(j)) /\ rest \in Seq(Structures(j))
    /\ Len(buffer) + Len(rest) = Left(b)
    /\ \A i \in 1..Len(buffer) : buffer[i] = Structs(j)[Len(Structs(j)) - Left(b) + i]
    /\ \A i \in 1..Len(rest) : rest[i] = Structs(j)[Len(Structs(j)) - Len(rest) + i]

OpenInv(f) ==
    LET j == Head(todo[f]) IN
    /\ todo[f] # <<>>
    /\ \A i \in DOMAIN j.cmdbufs : filled[j.cmdbufs[i].mem] = j.cmdbufs[i].fill
    /\ CountersInv(j, job[f])
    /\ ContentsInv(j, job[f])
    /\ RestInv(j, job[f], InHook(f), unsent[f])

IInv == ProgramInv /\ HandlesInv /\ HookInv /\ \A f \in Channels : unsent[f] # None => OpenInv(f)

-----------------------------------------------------------------------------
(* The inductive invariant of WritesReported and ShadersShown *)

\* The channel, when it will have executed the words that libwrap has parsed
Taken(f) == Len(Head(todo[f]).cmdbufs) - job[f].cmdbufs_left
Gathers(f) == LET cs == Head(todo[f]).cmdbufs IN [i \in DOMAIN cs |-> Sent(cs[i])]
Reached(f) ==
    IF unsent[f] = None THEN channel[f]
    ELSE IF hook[f].at # "parse" THEN GatherStates(channel[f], Gathers(f))[Taken(f)]
    ELSE States(GatherStates(channel[f], Gathers(f))[Taken(f) - 1], Gathers(f)[Taken(f)])[hook[f].position]

\* A channel's instruction memories, filled up to next and never beyond the limit
ChannelOK(c) ==
    /\ DOMAIN c = DOMAIN ChannelInit
    /\ DOMAIN c.memory = Units /\ DOMAIN c.next = Units
    /\ \A u \in Units : /\ c.memory[u] \in Seq(Range(c.memory[u]))
                        /\ c.next[u] \in 0..Limit[u] /\ c.next[u] <= Len(c.memory[u])

\* libwrap has what the channel has.
Follows(p, c) == p = [kept |-> Loaded(c), shown |-> c.drawn, writes |-> c.writes]

ParseInv(f) ==
    LET words == Gathers(f)[Taken(f)] IN
    /\ Taken(f) >= 1 /\ hook[f].num_words = Len(words)
    /\ \A i \in 1..Len(words) : hook[f].words[i] = words[i]
    /\ \E S \in SUBSET (0..Len(words)) : OpcodesAt(words, S) /\ hook[f].position \in S

ReportedInv(f) ==
    LET c == Reached(f) IN
    /\ hook[f].at = "parse" => ParseInv(f)
    /\ ChannelOK(c) /\ ~Pending(c)
    /\ Follows([kept |-> d[f], shown |-> shown[f], writes |-> writes[f]], c)
    /\ c.class = IF hook[f].at = "parse" THEN hook[f].class ELSE classid[f]

ReportsInv ==
    /\ DOMAIN d = Channels /\ DOMAIN shown = Channels /\ DOMAIN writes = Channels
    /\ DOMAIN classid = Channels /\ DOMAIN channel = Channels
    /\ \A f \in Channels : ReportedInv(f)
=============================================================================
