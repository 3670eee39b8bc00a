---------------------------- MODULE NvhostProofs ----------------------------
(***************************************************************************)
(* Proof that libwrap puts every nvhost job together as the program sent   *)
(* it, for any number of channels, handles and jobs, however the           *)
(* structures of a job are cut into write()s and whatever the hooks of     *)
(* other channels do in between; and that it then reports the register     *)
(* writes the channel makes, and shows the shaders it draws with, for any  *)
(* programs, command buffers and limits of the instruction memories.       *)
(*                                                                         *)
(* The parts are, in this order: the jobs; recursion over numbers, which   *)
(* gives the states of the channel and of the parser one after the other;  *)
(* one register write (WriteStep); one opcode with its words (OpcodeRun);  *)
(* and one step of the program or of libwrap for each action of            *)
(* NvhostJobs.                                                             *)
(***************************************************************************)
EXTENDS NvhostJobs, SequenceTheorems, FiniteSetTheorems, WellFoundedInduction, TLAPS

-----------------------------------------------------------------------------
(* The jobs *)

\* The elements of two sequences one after the other.
LEMMA ConcatParts ==
  ASSUME NEW S, NEW s \in Seq(S), NEW t \in Seq(S)
  PROVE  /\ s \o t \in Seq(S)
         /\ Len(s) \in Nat /\ Len(t) \in Nat /\ Len(s \o t) = Len(s) + Len(t)
         /\ \A i \in 1..Len(s) : i \in 1..Len(s \o t) /\ (s \o t)[i] = s[i]
         /\ \A i \in 1..Len(t) : Len(s) + i \in 1..Len(s \o t) /\ (s \o t)[Len(s) + i] = t[i]
<1>1. Len(s) \in Nat /\ Len(t) \in Nat
  OBVIOUS
<1>2. s \o t \in Seq(S) /\ Len(s \o t) = Len(s) + Len(t)
  BY ConcatProperties
<1>3. \A i \in 1 .. Len(s) + Len(t) : (s \o t)[i] = IF i <= Len(s) THEN s[i] ELSE t[i - Len(s)]
  BY ConcatProperties
<1>4. \A i \in 1..Len(s) : i \in 1..Len(s) + Len(t) /\ i <= Len(s)
  BY <1>1
<1>5. \A i \in 1..Len(t) : Len(s) + i \in 1..Len(s) + Len(t) /\ ~(Len(s) + i <= Len(s)) /\ (Len(s) + i) - Len(s) = i
  BY <1>1
<1> QED
  BY <1>1, <1>2, <1>3, <1>4, <1>5

\* The structures of a job: the command buffers, the relocations, and what is
\* only counted.
LEMMA StructsOf ==
  ASSUME NEW q, NEW j, JobOf(q, j)
  PROVE  /\ Structs(j) \in Seq(Structures(j))
         /\ {Len(j.cmdbufs), Len(j.relocs), j.waitchks, Shifts(j)} \subseteq Nat
         /\ Len(Structs(j)) = Len(j.cmdbufs) + Len(j.relocs) + j.waitchks + Shifts(j)
         /\ \A i \in 1..Len(j.cmdbufs) : Structs(j)[i] = j.cmdbufs[i]
         /\ \A i \in 1..Len(j.relocs) : Structs(j)[Len(j.cmdbufs) + i] = j.relocs[i]
<1> DEFINE S == Structures(j)
           W == [i \in 1..j.waitchks |-> Waitchk]
           V == [i \in 1..Shifts(j) |-> Shift]
           CR == j.cmdbufs \o j.relocs
<1>1. j.cmdbufs \in Seq(Range(j.cmdbufs)) /\ j.relocs \in Seq(Range(j.relocs)) /\ j.waitchks \in Nat
  BY DEF JobOf
<1>2. Len(j.cmdbufs) \in Nat /\ Len(j.relocs) \in Nat /\ Shifts(j) \in Nat
  BY <1>1 DEF Shifts
<1>3. j.cmdbufs \in Seq(S) /\ j.relocs \in Seq(S)
  BY <1>1 DEF Structures
<1>4. W \in Seq(S) /\ Len(W) = j.waitchks
  BY <1>1 DEF Structures
<1>5. V \in Seq(S) /\ Len(V) = Shifts(j)
  BY <1>2 DEF Structures
<1> HIDE DEF S, W, V
<1>6. /\ CR \in Seq(S) /\ Len(CR) = Len(j.cmdbufs) + Len(j.relocs)
      /\ \A i \in 1..Len(j.cmdbufs) : i \in 1..Len(CR) /\ CR[i] = j.cmdbufs[i]
      /\ \A i \in 1..Len(j.relocs) : Len(j.cmdbufs) + i \in 1..Len(CR) /\ CR[Len(j.cmdbufs) + i] = j.relocs[i]
  <2>1. ASSUME NEW s \in Seq(S), NEW t \in Seq(S)
        PROVE  /\ s \o t \in Seq(S) /\ Len(s \o t) = Len(s) + Len(t)
               /\ \A i \in 1..Len(s) : i \in 1..Len(s \o t) /\ (s \o t)[i] = s[i]
               /\ \A i \in 1..Len(t) : Len(s) + i \in 1..Len(s \o t) /\ (s \o t)[Len(s) + i] = t[i]
    BY ConcatParts
  <2> QED
    BY <1>3, <2>1
<1> HIDE DEF CR
<1>7. /\ (CR \o W) \in Seq(S) /\ Len(CR \o W) = Len(CR) + Len(W)
      /\ \A i \in 1..Len(CR) : i \in 1..Len(CR \o W) /\ (CR \o W)[i] = CR[i]
  <2>1. CR \in Seq(S) /\ W \in Seq(S)
    BY <1>4, <1>6
  <2> QED
    BY <2>1, ConcatParts
<1>8. /\ ((CR \o W) \o V) \in Seq(S) /\ Len((CR \o W) \o V) = Len(CR \o W) + Len(V)
      /\ \A i \in 1..Len(CR \o W) : ((CR \o W) \o V)[i] = (CR \o W)[i]
  BY <1>5, <1>7, ConcatParts
<1>9. Structs(j) = (CR \o W) \o V
  BY DEF Structs, CR, W, V
<1>10. Len(Structs(j)) = Len(j.cmdbufs) + Len(j.relocs) + j.waitchks + Shifts(j)
  BY <1>1, <1>2, <1>4, <1>5, <1>6, <1>7, <1>8, <1>9
<1>11. \A i \in 1..Len(CR) : Structs(j)[i] = CR[i]
  BY <1>7, <1>8, <1>9
<1> QED
  BY <1>1, <1>2, <1>6, <1>8, <1>9, <1>10, <1>11 DEF S

\* A sequence without its head.
LEMMA TailOf ==
  ASSUME NEW S, NEW s \in Seq(S), s # <<>>
  PROVE  /\ Tail(s) \in Seq(S) /\ Head(s) = s[1] /\ Len(s) \in Nat \ {0} /\ Len(Tail(s)) = Len(s) - 1
         /\ \A i \in 1..Len(Tail(s)) : Tail(s)[i] = s[i + 1]
<1>1. Len(s) \in Nat \ {0}
  BY EmptySeq
<1> QED
  BY <1>1, HeadTailProperties

-----------------------------------------------------------------------------
(* Jobs. *)

\* The job at the head of those to come is one of the program's.
LEMMA CurrentJob ==
  ASSUME ProgramInv, NEW f \in Channels, todo[f] # <<>>
  PROVE  /\ \E i \in DOMAIN program.jobs[f] : Head(todo[f]) = program.jobs[f][i]
         /\ JobOf(program, Head(todo[f]))
         /\ None \notin Seq(Structures(Head(todo[f])))
<1>1. Head(todo[f]) \in Range(program.jobs[f])
  BY EmptySeq, HeadTailProperties DEF ProgramInv
<1>2. PICK i \in DOMAIN program.jobs[f] : Head(todo[f]) = program.jobs[f][i]
  BY <1>1 DEF Range
<1> QED
  BY <1>2, ProgramsAssumption, NoneAssumption DEF ProgramInv

\* Contents of a handle that is not empty.
LEMMA FilledMem ==
  ASSUME ProgramInv, NEW c, CmdbufOf(program, c), filled[c.mem] = c.fill
  PROVE  /\ mem[c.mem] = program.fills[c.mem][c.fill]
         /\ mem[c.mem] \in Seq(Range(mem[c.mem]))
         /\ Len(mem[c.mem]) \in Nat /\ c.offset + c.words <= Len(mem[c.mem])
         /\ Sent(c) = SubSeq(mem[c.mem], c.offset + 1, c.offset + c.words)
<1>1. c.mem \in Handles /\ c.fill # 0 /\ c.fill \in 1..Len(program.fills[c.mem])
  BY DEF CmdbufOf
<1>2. mem[c.mem] = program.fills[c.mem][c.fill]
  BY <1>1 DEF ProgramInv
<1>3. mem[c.mem] \in Seq(Range(mem[c.mem]))
  BY <1>1, <1>2, ProgramsAssumption DEF ProgramInv
<1> QED
  BY <1>2, <1>3 DEF CmdbufOf, Sent

\* A handle that is known is where nvmap_file_lookup_handle finds it.
LEMMA Lookup ==
  ASSUME HandlesInv, NEW h \in Handles, Known(h)
  PROVE  /\ lookup(h) \in DOMAIN handles /\ handles[lookup(h)].id = h
         /\ Contents(h) = mem[h]
<1>1. PICK i \in DOMAIN handles : handles[i].id = h
  BY DEF Known
<1>2. \A k \in 1..(i - 1) : k \in DOMAIN handles /\ k # i
  BY DEF HandlesInv
<1>3. \A k \in 1..(i - 1) : handles[k].id # h
  BY <1>1, <1>2 DEF HandlesInv
<1>4. lookup(h) \in DOMAIN handles /\ handles[lookup(h)].id = h
  BY <1>1, <1>3 DEF lookup
<1> QED
  BY <1>4 DEF HandlesInv, Contents

-----------------------------------------------------------------------------
(* One structure is looked at. *)

LEMMA CountDown ==
  ASSUME NEW C \in Nat, NEW R \in Nat, NEW W \in Nat, NEW V \in Nat,
         NEW c \in 0..C, NEW r \in 0..R, NEW w \in 0..W, NEW v \in 0..V,
         r # R => c = 0, w # W => c = 0 /\ r = 0, v # V => c = 0 /\ r = 0 /\ w = 0
  PROVE  /\ c \in Nat /\ r \in Nat /\ w \in Nat /\ v \in Nat
         /\ c + r + w + v \in Nat /\ c + r + w + v <= C + R + W + V
         /\ c # 0 => (C + R + W + V) - (c + r + w + v) = C - c
         /\ c = 0 /\ r # 0 => (C + R + W + V) - (c + r + w + v) = C + (R - r)
OBVIOUS

LEMMA CounterTypes ==
  ASSUME NEW q, NEW j, JobOf(q, j), NEW b, CountersInv(j, b)
  PROVE  /\ {b.cmdbufs_left, b.relocs_left, b.waitchks_left, b.shifts_left, Left(b)} \subseteq Nat
         /\ b.num_pushbufs = Len(j.cmdbufs) /\ b.num_relocs = Len(j.relocs)
         /\ Left(b) <= Len(Structs(j))
         /\ b.cmdbufs_left # 0 => Len(Structs(j)) - Left(b) = Len(j.cmdbufs) - b.cmdbufs_left
         /\ b.cmdbufs_left = 0 /\ b.relocs_left # 0 =>
              Len(Structs(j)) - Left(b) = Len(j.cmdbufs) + (Len(j.relocs) - b.relocs_left)
<1>1. /\ {Len(j.cmdbufs), Len(j.relocs), j.waitchks, Shifts(j)} \subseteq Nat
      /\ Len(Structs(j)) = Len(j.cmdbufs) + Len(j.relocs) + j.waitchks + Shifts(j)
  BY StructsOf
<1>2. b.num_pushbufs = Len(j.cmdbufs) /\ b.num_relocs = Len(j.relocs)
  BY DEF CountersInv
<1>3. /\ b.cmdbufs_left \in 0..Len(j.cmdbufs) /\ b.relocs_left \in 0..Len(j.relocs)
      /\ b.waitchks_left \in 0..j.waitchks /\ b.shifts_left \in 0..Shifts(j)
      /\ b.relocs_left # Len(j.relocs) => b.cmdbufs_left = 0
      /\ b.waitchks_left # j.waitchks => b.cmdbufs_left = 0 /\ b.relocs_left = 0
      /\ b.shifts_left # Shifts(j) => b.cmdbufs_left = 0 /\ b.relocs_left = 0 /\ b.waitchks_left = 0
  BY DEF CountersInv
<1> DEFINE C == Len(j.cmdbufs)  R == Len(j.relocs)  W == j.waitchks  V == Shifts(j)
           k == b.cmdbufs_left  r == b.relocs_left  w == b.waitchks_left  v == b.shifts_left
<1>4. /\ C \in Nat /\ R \in Nat /\ W \in Nat /\ V \in Nat
      /\ k \in 0..C /\ r \in 0..R /\ w \in 0..W /\ v \in 0..V
  BY <1>1, <1>3
<1>5. /\ r # R => k = 0
      /\ w # W => k = 0 /\ r = 0
      /\ v # V => k = 0 /\ r = 0 /\ w = 0
  BY <1>3
<1>6. Left(b) = k + r + w + v
  BY DEF Left
<1> HIDE DEF C, R, W, V, k, r, w, v
<1>7. /\ k \in Nat /\ r \in Nat /\ w \in Nat /\ v \in Nat
      /\ k + r + w + v \in Nat /\ k + r + w + v <= C + R + W + V
      /\ k # 0 => (C + R + W + V) - (k + r + w + v) = C - k
      /\ k = 0 /\ r # 0 => (C + R + W + V) - (k + r + w + v) = C + (R - r)
  BY <1>4, <1>5, CountDown
<1> QED
  BY <1>1, <1>2, <1>6, <1>7 DEF C, R, W, V, k, r, w, v

\* The loop goes on by one structure, and one of the counters by one.
LEMMA RestAdvances ==
  ASSUME NEW q, NEW j, JobOf(q, j), NEW b, CountersInv(j, b), NEW c, Left(c) = Left(b) - 1,
         NEW buffer, NEW rest, RestInv(j, b, buffer, rest), buffer # <<>>
  PROVE  /\ RestInv(j, c, Tail(buffer), rest)
         /\ Head(buffer) = Structs(j)[Len(Structs(j)) - Left(b) + 1]
<1>1. Left(b) \in Nat /\ Len(Structs(j)) \in Nat
  BY CounterTypes, StructsOf
<1>2. buffer \in Seq(Structures(j)) /\ rest \in Seq(Structures(j)) /\ Len(rest) \in Nat
  BY DEF RestInv
<1>3. /\ Tail(buffer) \in Seq(Structures(j)) /\ Head(buffer) = buffer[1]
      /\ Len(buffer) \in Nat \ {0} /\ Len(Tail(buffer)) = Len(buffer) - 1
      /\ \A i \in 1..Len(Tail(buffer)) : Tail(buffer)[i] = buffer[i + 1]
  BY <1>2, TailOf
<1>4. Len(Tail(buffer)) + Len(rest) = Left(c)
  BY <1>1, <1>2, <1>3 DEF RestInv
<1>5. \A i \in 1..Len(buffer) : buffer[i] = Structs(j)[Len(Structs(j)) - Left(b) + i]
  BY DEF RestInv
<1>6. ASSUME NEW i \in 1..Len(Tail(buffer))
      PROVE  Tail(buffer)[i] = Structs(j)[Len(Structs(j)) - Left(c) + i]
  <2>1. i + 1 \in 1..Len(buffer) /\ Tail(buffer)[i] = buffer[i + 1]
    BY <1>3, <1>6
  <2>2. Len(Structs(j)) - Left(b) + (i + 1) = Len(Structs(j)) - Left(c) + i
    BY <1>1, <1>6, <1>3
  <2> QED
    BY <1>5, <2>1, <2>2
<1>7. 1 \in 1..Len(buffer)
  BY <1>3
<1> QED
  BY <1>2, <1>3, <1>4, <1>5, <1>6, <1>7 DEF RestInv

-----------------------------------------------------------------------------
(* The parts of the invariant and the steps. *)

LEMMA InitInv == Init => IInv
<1> SUFFICES ASSUME Init PROVE IInv
  OBVIOUS
<1> USE DEF Init
<1>1. ProgramInv
  <2>1. filled \in [Handles -> Nat] /\ \A h \in Handles : filled[h] <= Len(program.fills[h])
    BY ProgramsAssumption
  <2>2. \A f \in Channels : todo[f] \in Seq(Range(program.jobs[f]))
    BY ProgramsAssumption
  <2>3. mem = [h \in Handles |-> IF filled[h] = 0 THEN <<>> ELSE program.fills[h][filled[h]]]
    OBVIOUS
  <2> QED
    BY <2>1, <2>2, <2>3, ProgramsAssumption DEF ProgramInv
<1>2. HandlesInv
  BY DEF HandlesInv, Known
<1>3. HookInv
  BY DEF HookInv
<1> QED
  BY <1>1, <1>2, <1>3 DEF IInv

\* A step that changes nothing of a channel's open job.
LEMMA OpenSame ==
  ASSUME NEW f \in Channels, OpenInv(f), UNCHANGED program,
         todo'[f] = todo[f], job'[f] = job[f], unsent'[f] = unsent[f], (InHook(f))' = InHook(f),
         \A i \in DOMAIN Head(todo[f]).cmdbufs :
            filled'[Head(todo[f]).cmdbufs[i].mem] = filled[Head(todo[f]).cmdbufs[i].mem]
  PROVE  OpenInv(f)'
<1>1. /\ todo'[f] # <<>> /\ Head(todo'[f]) = Head(todo[f])
      /\ \A i \in DOMAIN Head(todo[f]).cmdbufs :
           filled'[Head(todo[f]).cmdbufs[i].mem] = Head(todo[f]).cmdbufs[i].fill
  BY DEF OpenInv
<1>2. /\ CountersInv(Head(todo[f]), job'[f])
      /\ RestInv(Head(todo[f]), job'[f], (InHook(f))', unsent'[f])
  BY DEF OpenInv
<1>3. ContentsInv(Head(todo[f]), job[f]) /\ program' = program
  BY DEF OpenInv
<1>4. (ContentsInv(Head(todo[f]), job[f]))'
  BY <1>3 DEF ContentsInv, Sent
<1> QED
  BY <1>1, <1>2, <1>4 DEF OpenInv

\* The handles are those of before.
LEMMA HandlesSame ==
  ASSUME HandlesInv, UNCHANGED <<program, handles, mem, filled>>
  PROVE  HandlesInv'
BY DEF HandlesInv, Known

LEMMA ProgramSame ==
  ASSUME ProgramInv, UNCHANGED <<program, filled, mem, todo>>
  PROVE  ProgramInv'
BY DEF ProgramInv

\* What is known of a channel whose hook has not returned.
LEMMA HookOf ==
  ASSUME IInv, NEW f \in Channels, hook[f] # NoHook
  PROVE  /\ unsent[f] # None /\ OpenInv(f) /\ InHook(f) = hook[f].buffer
         /\ hook[f].at \in {"loop", "parse"}
         /\ hook[f].at = "loop" => hook[f] = [at |-> "loop", buffer |-> hook[f].buffer]
         /\ hook[f].at = "parse" =>
              hook[f] = [at |-> "parse", buffer |-> hook[f].buffer, words |-> hook[f].words,
                         num_words |-> hook[f].num_words, position |-> hook[f].position,
                         class |-> hook[f].class]
BY DEF IInv, HookInv, InHook

\* A step of one channel that leaves the handles and the jobs to come.
LEMMA ChannelStep ==
  ASSUME IInv, NEW f \in Channels, UNCHANGED <<program, mem, filled, todo, handles>>,
         DOMAIN unsent' = Channels, DOMAIN job' = Channels, DOMAIN hook' = Channels,
         \A g \in Channels \ {f} : unsent'[g] = unsent[g] /\ job'[g] = job[g] /\ hook'[g] = hook[g],
         \/ hook'[f] = NoHook
         \/ /\ unsent'[f] # None
            /\ \/ hook'[f] = [at |-> "loop", buffer |-> hook'[f].buffer]
               \/ hook'[f] = [at |-> "parse", buffer |-> hook'[f].buffer, words |-> hook'[f].words,
                              num_words |-> hook'[f].num_words, position |-> hook'[f].position,
                              class |-> hook'[f].class],
         unsent'[f] # None => OpenInv(f)'
  PROVE  IInv'
<1>1. ProgramInv'
  BY ProgramSame DEF IInv
<1>2. HandlesInv'
  BY HandlesSame DEF IInv
<1>3. ASSUME NEW g \in Channels \ {f}
      PROVE  \/ hook'[g] = NoHook
             \/ /\ unsent'[g] # None
                /\ \/ hook'[g] = [at |-> "loop", buffer |-> hook'[g].buffer]
                   \/ hook'[g] = [at |-> "parse", buffer |-> hook'[g].buffer, words |-> hook'[g].words,
                                  num_words |-> hook'[g].num_words, position |-> hook'[g].position,
                                  class |-> hook'[g].class]
  BY <1>3 DEF IInv, HookInv
<1>4. HookInv'
  BY <1>3 DEF HookInv
<1>5. ASSUME NEW g \in Channels \ {f}, unsent'[g] # None
      PROVE  OpenInv(g)'
  <2>1. OpenInv(g)
    BY <1>5 DEF IInv
  <2>2. (InHook(g))' = InHook(g)
    BY DEF InHook
  <2> QED
    BY <2>1, <2>2, OpenSame
<1> QED
  BY <1>1, <1>2, <1>4, <1>5 DEF IInv

\* A structure of the open job is looked at, and is kept where it belongs.
LEMMA LookedAt ==
  ASSUME IInv, NEW f \in Channels, hook[f].at = "loop", hook[f].buffer # <<>>,
         UNCHANGED <<program, mem, filled, todo, unsent, handles>>,
         DOMAIN job' = Channels, DOMAIN hook' = Channels,
         \A g \in Channels \ {f} : job'[g] = job[g] /\ hook'[g] = hook[g],
         Left(job'[f]) = Left(job[f]) - 1, CountersInv(Head(todo[f]), job'[f]),
         (ContentsInv(Head(todo[f]), job[f]))',
         \/ hook'[f] = [at |-> "loop", buffer |-> Tail(hook[f].buffer)]
         \/ hook'[f] = [at |-> "parse", buffer |-> Tail(hook[f].buffer), words |-> hook'[f].words,
                        num_words |-> hook'[f].num_words, position |-> hook'[f].position,
                        class |-> hook'[f].class]
  PROVE  IInv'
<1>1. /\ hook[f] # NoHook /\ unsent[f] # None /\ OpenInv(f)
      /\ InHook(f) = hook[f].buffer
  <2>1. hook[f] # NoHook
    BY DEF NoHook
  <2> QED
    BY <2>1, HookOf
<1>2. (InHook(f))' = Tail(hook[f].buffer) /\ hook'[f].buffer = Tail(hook[f].buffer) /\ hook'[f] # NoHook
  <2>1. hook'[f].at \in {"loop", "parse"} /\ hook'[f].buffer = Tail(hook[f].buffer)
    <3>1. CASE hook'[f] = [at |-> "loop", buffer |-> Tail(hook[f].buffer)]
      <4> DEFINE k == hook'[f]  t == Tail(hook[f].buffer)
      <4>1. k = [at |-> "loop", buffer |-> t]
        BY <3>1
      <4> HIDE DEF k, t
      <4>2. k.at = "loop" /\ k.buffer = t
        BY <4>1
      <4> QED
        BY <4>2 DEF k, t
    <3>2. CASE hook'[f] = [at |-> "parse", buffer |-> Tail(hook[f].buffer), words |-> hook'[f].words,
                           num_words |-> hook'[f].num_words, position |-> hook'[f].position,
                           class |-> hook'[f].class]
      <4> DEFINE k == hook'[f]  t == Tail(hook[f].buffer)
      <4>1. k = [at |-> "parse", buffer |-> t, words |-> k.words, num_words |-> k.num_words,
                 position |-> k.position, class |-> k.class]
        BY <3>2
      <4> HIDE DEF k, t
      <4>2. k.at = "parse" /\ k.buffer = t
        BY <4>1
      <4> QED
        BY <4>2 DEF k, t
    <3> QED
      BY <3>1, <3>2
  <2>2. hook'[f] # NoHook
    BY <2>1 DEF NoHook
  <2> QED
    BY <2>1, <2>2 DEF InHook
<1>3. JobOf(program, Head(todo[f])) /\ todo[f] # <<>>
  BY <1>1, CurrentJob DEF IInv, OpenInv
<1>4. RestInv(Head(todo[f]), job[f], hook[f].buffer, unsent[f]) /\ CountersInv(Head(todo[f]), job[f])
  BY <1>1 DEF OpenInv
<1>5. RestInv(Head(todo[f]), job'[f], Tail(hook[f].buffer), unsent[f])
  BY <1>3, <1>4, RestAdvances
<1>6. OpenInv(f)'
  BY <1>1, <1>2, <1>3, <1>5 DEF OpenInv
<1>7. DOMAIN unsent' = Channels /\ \A g \in Channels \ {f} : unsent'[g] = unsent[g]
  BY DEF IInv, HookInv
<1>8. \/ hook'[f] = [at |-> "loop", buffer |-> hook'[f].buffer]
      \/ hook'[f] = [at |-> "parse", buffer |-> hook'[f].buffer, words |-> hook'[f].words,
                     num_words |-> hook'[f].num_words, position |-> hook'[f].position,
                     class |-> hook'[f].class]
  BY <1>2
<1> QED
  BY <1>1, <1>6, <1>7, <1>8, ChannelStep

\* What AddPushbuf, AddReloc, AddWaitCheck and AddShift have in common.
LEMMA NextStructure ==
  ASSUME IInv, NEW f \in Channels, InLoop(f)
  PROVE  /\ hook[f].at = "loop" /\ hook[f].buffer # <<>>
         /\ hook[f] = [at |-> "loop", buffer |-> hook[f].buffer]
         /\ OpenInv(f) /\ todo[f] # <<>> /\ JobOf(program, Head(todo[f]))
         /\ CountersInv(Head(todo[f]), job[f]) /\ ContentsInv(Head(todo[f]), job[f])
         /\ DOMAIN job = Channels /\ DOMAIN hook = Channels
         /\ Head(hook[f].buffer) =
              Structs(Head(todo[f]))[Len(Structs(Head(todo[f]))) - Left(job[f]) + 1]
<1>1. hook[f].at = "loop" /\ hook[f] # NoHook /\ hook[f].buffer # <<>>
  BY DEF InLoop, NoHook
<1>2. OpenInv(f) /\ InHook(f) = hook[f].buffer /\ hook[f] = [at |-> "loop", buffer |-> hook[f].buffer]
  BY <1>1, HookOf
<1>3. todo[f] # <<>> /\ JobOf(program, Head(todo[f]))
  BY <1>2, CurrentJob DEF IInv, OpenInv
<1>4. /\ CountersInv(Head(todo[f]), job[f]) /\ ContentsInv(Head(todo[f]), job[f])
      /\ RestInv(Head(todo[f]), job[f], hook[f].buffer, unsent[f])
  BY <1>2 DEF OpenInv
<1>5. RestInv(Head(todo[f]), job[f], hook[f].buffer, unsent[f])
        => Head(hook[f].buffer) =
              Structs(Head(todo[f]))[Len(Structs(Head(todo[f]))) - Left(job[f]) + 1]
  <2> SUFFICES ASSUME RestInv(Head(todo[f]), job[f], hook[f].buffer, unsent[f])
               PROVE  Head(hook[f].buffer) =
                        Structs(Head(todo[f]))[Len(Structs(Head(todo[f]))) - Left(job[f]) + 1]
    OBVIOUS
  <2>1. hook[f].buffer \in Seq(Structures(Head(todo[f])))
    BY DEF RestInv
  <2>2. Head(hook[f].buffer) = hook[f].buffer[1] /\ 1 \in 1..Len(hook[f].buffer)
    BY <1>1, <2>1, TailOf
  <2> QED
    BY <2>2 DEF RestInv
<1> QED
  BY <1>1, <1>2, <1>3, <1>4, <1>5 DEF IInv, HookInv

-----------------------------------------------------------------------------
(* The structures. *)

\* The part of the contents the command buffer stands for.
LEMMA CommandsOf ==
  ASSUME NEW S, NEW m \in Seq(S), NEW o \in Nat, NEW n \in Nat, o + n <= Len(m)
  PROVE  /\ SubSeq(SubSeq(m, o + 1, Len(m)), 1, n) = SubSeq(m, o + 1, o + n)
         /\ Len(SubSeq(m, o + 1, o + n)) = n
         /\ \A i \in 1..n : SubSeq(m, o + 1, Len(m))[i] = SubSeq(m, o + 1, o + n)[i]
<1>1. Len(m) \in Nat
  OBVIOUS
<1>2. SubSeq(SubSeq(m, o + 1, Len(m)), 1, n) = SubSeq(m, o + 1, o + n)
  BY <1>1
<1>3. Len(SubSeq(m, o + 1, o + n)) = n
  BY <1>1
<1>4. \A i \in 1..n : SubSeq(m, o + 1, Len(m))[i] = SubSeq(m, o + 1, o + n)[i]
  BY <1>1
<1> QED
  BY <1>2, <1>3, <1>4

\* The command buffer looked at is the next one of the job, and its handle has its words.
LEMMA NextPushbuf ==
  ASSUME IInv, NEW f \in Channels, AddPushbuf(f)
  PROVE  LET j == Head(todo[f])
             n == Len(j.cmdbufs) - job[f].cmdbufs_left + 1
             c == Head(hook[f].buffer)
             commands == SubSeq(Contents(c.mem), c.offset + 1, Len(Contents(c.mem)))
         IN
         /\ hook[f].at = "loop" /\ hook[f].buffer # <<>>
         /\ hook[f] = [at |-> "loop", buffer |-> hook[f].buffer]
         /\ OpenInv(f) /\ todo[f] # <<>> /\ JobOf(program, j)
         /\ CountersInv(j, job[f]) /\ ContentsInv(j, job[f])
         /\ job[f].cmdbufs_left \in 1..Len(j.cmdbufs)
         /\ n \in 1..Len(j.cmdbufs) /\ c = j.cmdbufs[n] /\ CmdbufOf(program, c)
         /\ c.words \in Nat /\ Len(Sent(c)) = c.words
         /\ \A i \in 1..c.words : commands[i] = Sent(c)[i]
         /\ UNCHANGED <<program, mem, filled, todo, unsent, handles, parsed, channel>>
         /\ job' = [job EXCEPT ![f].cmdbufs_left = @ - 1, ![f].pushbufs[n] = Sent(c)]
         /\ hook' = [hook EXCEPT ![f] =
              [at |-> "parse", buffer |-> Tail(@.buffer), words |-> commands,
               num_words |-> c.words, position |-> 0, class |-> classid[f]]]
<1> DEFINE j == Head(todo[f])
           b == job[f]
           n == Len(j.cmdbufs) - b.cmdbufs_left + 1
           c == Head(hook[f].buffer)
           commands == SubSeq(Contents(c.mem), c.offset + 1, Len(Contents(c.mem)))
<1>1. /\ InLoop(f) /\ b.cmdbufs_left > 0
      /\ UNCHANGED <<program, mem, filled, todo, unsent, handles>>
  BY DEF AddPushbuf, told
<1>2. /\ hook[f].at = "loop" /\ hook[f].buffer # <<>>
      /\ hook[f] = [at |-> "loop", buffer |-> hook[f].buffer]
      /\ OpenInv(f) /\ todo[f] # <<>> /\ JobOf(program, j)
      /\ CountersInv(j, b) /\ ContentsInv(j, b)
      /\ DOMAIN job = Channels /\ DOMAIN hook = Channels
      /\ c = Structs(j)[Len(Structs(j)) - Left(b) + 1]
  BY <1>1, NextStructure
<1>3. /\ b.cmdbufs_left \in 1..Len(j.cmdbufs) /\ Len(j.cmdbufs) \in Nat
      /\ b.relocs_left = Len(j.relocs) /\ b.waitchks_left = j.waitchks /\ b.shifts_left = Shifts(j)
      /\ b.num_pushbufs = Len(j.cmdbufs)
      /\ b.relocs_left \in Nat /\ b.waitchks_left \in Nat /\ b.shifts_left \in Nat
      /\ n = Len(Structs(j)) - Left(b) + 1
  <2>1. /\ b.cmdbufs_left \in 0..Len(j.cmdbufs)
        /\ b.relocs_left = Len(j.relocs) /\ b.waitchks_left = j.waitchks /\ b.shifts_left = Shifts(j)
    BY <1>1, <1>2 DEF CountersInv
  <2>2. /\ Len(j.cmdbufs) \in Nat /\ Len(j.relocs) \in Nat /\ j.waitchks \in Nat /\ Shifts(j) \in Nat
    BY <1>2, StructsOf
  <2>3. /\ b.cmdbufs_left \in Nat /\ b.num_pushbufs = Len(j.cmdbufs)
        /\ b.cmdbufs_left # 0 => Len(Structs(j)) - Left(b) = Len(j.cmdbufs) - b.cmdbufs_left
    BY <1>2, CounterTypes
  <2> HIDE DEF j, b
  <2> QED
    BY <1>1, <2>1, <2>2, <2>3
<1>4. n \in 1..Len(j.cmdbufs) /\ c = j.cmdbufs[n]
  <2>1. n \in 1..Len(j.cmdbufs)
    <3>1. b.cmdbufs_left \in 1..Len(j.cmdbufs) /\ Len(j.cmdbufs) \in Nat
      BY <1>3
    <3> HIDE DEF j, b
    <3> QED
      BY ONLY <3>1
  <2>2. \A i \in 1..Len(j.cmdbufs) : Structs(j)[i] = j.cmdbufs[i]
    <3>1. JobOf(program, j)
      BY <1>2
    <3> HIDE DEF j
    <3> QED
      BY <3>1, StructsOf
  <2> QED
    BY <1>2, <1>3, <2>1, <2>2
<1>5. CmdbufOf(program, c) /\ filled[c.mem] = c.fill
  <2>1. n \in DOMAIN j.cmdbufs
    BY <1>2, <1>4 DEF JobOf
  <2> QED
    BY <1>2, <1>4, <2>1 DEF JobOf, OpenInv
<1>6. /\ mem[c.mem] \in Seq(Range(mem[c.mem])) /\ c.offset + c.words <= Len(mem[c.mem])
      /\ Sent(c) = SubSeq(mem[c.mem], c.offset + 1, c.offset + c.words)
      /\ c.offset \in Nat /\ c.words \in Nat /\ c.mem \in Handles /\ c.fill # 0
  <2>1. ProgramInv
    BY DEF IInv
  <2>2. /\ mem[c.mem] \in Seq(Range(mem[c.mem])) /\ c.offset + c.words <= Len(mem[c.mem])
        /\ Sent(c) = SubSeq(mem[c.mem], c.offset + 1, c.offset + c.words)
    <3>1. CmdbufOf(program, c) /\ filled[c.mem] = c.fill
      BY <1>5
    <3> HIDE DEF c
    <3> QED
      BY <2>1, <3>1, FilledMem
  <2>3. c.offset \in Nat /\ c.words \in Nat /\ c.mem \in Handles /\ c.fill # 0
    <3>1. CmdbufOf(program, c)
      BY <1>5
    <3> HIDE DEF c
    <3> QED
      BY <3>1 DEF CmdbufOf
  <2> QED
    BY <2>2, <2>3
<1>7. Known(c.mem) /\ Contents(c.mem) = mem[c.mem]
  <2>1. Known(c.mem)
    BY <1>5, <1>6 DEF IInv, HandlesInv
  <2> QED
    BY <1>6, <2>1, Lookup DEF IInv
<1>8. /\ SubSeq(commands, 1, c.words) = Sent(c)
      /\ Len(Sent(c)) = c.words /\ \A i \in 1..c.words : commands[i] = Sent(c)[i]
  <2> DEFINE m == mem[c.mem]  o == c.offset  w == c.words
  <2>1. /\ commands = SubSeq(m, o + 1, Len(m)) /\ Sent(c) = SubSeq(m, o + 1, o + w)
        /\ m \in Seq(Range(m)) /\ o \in Nat /\ w \in Nat /\ o + w <= Len(m)
    BY <1>6, <1>7
  <2> HIDE DEF m, o, w
  <2>2. /\ SubSeq(SubSeq(m, o + 1, Len(m)), 1, w) = SubSeq(m, o + 1, o + w)
        /\ Len(SubSeq(m, o + 1, o + w)) = w
        /\ \A i \in 1..w : SubSeq(m, o + 1, Len(m))[i] = SubSeq(m, o + 1, o + w)[i]
    <3> DEFINE R == Range(m)
    <3>1. m \in Seq(R)
      BY <2>1
    <3> HIDE DEF R
    <3> QED
      BY <2>1, <3>1, CommandsOf
  <2> QED
    BY <2>1, <2>2 DEF w
<1>9. /\ job' = [job EXCEPT ![f].cmdbufs_left = @ - 1, ![f].pushbufs[n] = Sent(c)]
      /\ hook' = [hook EXCEPT ![f] =
           [at |-> "parse", buffer |-> Tail(@.buffer), words |-> commands,
            num_words |-> c.words, position |-> 0, class |-> classid[f]]]
  BY <1>3, <1>7, <1>8 DEF AddPushbuf
<1>11. UNCHANGED <<parsed, channel>>
  BY DEF AddPushbuf
<1> QED
  BY <1>1, <1>2, <1>3, <1>4, <1>5, <1>6, <1>8, <1>9, <1>11

LEMMA AddPushbufStep ==
  ASSUME IInv, NEW f \in Channels, AddPushbuf(f)
  PROVE  IInv'
<1> DEFINE j == Head(todo[f])
           b == job[f]
           n == Len(j.cmdbufs) - b.cmdbufs_left + 1
           c == Head(hook[f].buffer)
           commands == SubSeq(Contents(c.mem), c.offset + 1, Len(Contents(c.mem)))
<1>1. UNCHANGED <<program, mem, filled, todo, unsent, handles>>
  BY DEF AddPushbuf, told
<1>2. /\ hook[f].at = "loop" /\ hook[f].buffer # <<>>
      /\ hook[f] = [at |-> "loop", buffer |-> hook[f].buffer]
      /\ OpenInv(f) /\ todo[f] # <<>> /\ JobOf(program, j)
      /\ CountersInv(j, b) /\ ContentsInv(j, b)
      /\ DOMAIN job = Channels /\ DOMAIN hook = Channels
  BY NextPushbuf DEF IInv, HookInv
<1>3. b.cmdbufs_left \in 1..Len(j.cmdbufs) /\ Len(j.cmdbufs) \in Nat
  <2>1. b.cmdbufs_left \in 1..Len(j.cmdbufs)
    BY NextPushbuf
  <2>2. Len(j.cmdbufs) \in Nat
    BY <1>2, StructsOf
  <2> QED
    BY <2>1, <2>2
<1>4. n \in 1..Len(j.cmdbufs) /\ c = j.cmdbufs[n]
  BY NextPushbuf
<1>9. /\ job' = [job EXCEPT ![f].cmdbufs_left = @ - 1, ![f].pushbufs[n] = Sent(c)]
      /\ hook' = [hook EXCEPT ![f] =
           [at |-> "parse", buffer |-> Tail(@.buffer), words |-> commands,
            num_words |-> c.words, position |-> 0, class |-> classid[f]]]
  BY NextPushbuf
<1> HIDE DEF commands
<1>10. /\ DOMAIN job' = Channels /\ DOMAIN hook' = Channels
       /\ \A g \in Channels \ {f} : job'[g] = job[g] /\ hook'[g] = hook[g]
       /\ hook'[f] = [at |-> "parse", buffer |-> Tail(hook[f].buffer), words |-> commands,
                      num_words |-> c.words, position |-> 0, class |-> classid[f]]
       /\ job'[f] = [b EXCEPT !.cmdbufs_left = @ - 1, !.pushbufs[n] = Sent(c)]
  BY <1>2, <1>9
<1>11. hook'[f] = [at |-> "parse", buffer |-> Tail(hook[f].buffer), words |-> hook'[f].words,
                   num_words |-> hook'[f].num_words, position |-> hook'[f].position,
                   class |-> hook'[f].class]
  <2> DEFINE k == hook'[f]  t == Tail(hook[f].buffer)  w == c.words  l == classid[f]
  <2>1. k = [at |-> "parse", buffer |-> t, words |-> commands, num_words |-> w,
             position |-> 0, class |-> l]
    BY <1>10
  <2> HIDE DEF k, t, w, l
  <2>2. k = [at |-> "parse", buffer |-> t, words |-> k.words, num_words |-> k.num_words,
             position |-> k.position, class |-> k.class]
    BY <2>1
  <2> QED
    BY <2>2 DEF k, t
<1> DEFINE e == job'[f]
<1>12. /\ e = [num_pushbufs |-> e.num_pushbufs, num_relocs |-> e.num_relocs,
               cmdbufs_left |-> e.cmdbufs_left, relocs_left |-> e.relocs_left,
               waitchks_left |-> e.waitchks_left, shifts_left |-> e.shifts_left,
               pushbufs |-> e.pushbufs, relocs |-> e.relocs]
       /\ e.cmdbufs_left = b.cmdbufs_left - 1 /\ e.relocs_left = b.relocs_left
       /\ e.waitchks_left = b.waitchks_left /\ e.shifts_left = b.shifts_left
       /\ e.num_pushbufs = b.num_pushbufs /\ e.num_relocs = b.num_relocs
       /\ e.pushbufs = [b.pushbufs EXCEPT ![n] = Sent(c)] /\ e.relocs = b.relocs
  <2> DEFINE x == Sent(c)
  <2>1. b = [num_pushbufs |-> Len(j.cmdbufs), num_relocs |-> Len(j.relocs),
             cmdbufs_left |-> b.cmdbufs_left, relocs_left |-> b.relocs_left,
             waitchks_left |-> b.waitchks_left, shifts_left |-> b.shifts_left,
             pushbufs |-> b.pushbufs, relocs |-> b.relocs]
    BY <1>2 DEF CountersInv
  <2>2. e = [b EXCEPT !.cmdbufs_left = @ - 1, !.pushbufs[n] = x]
    BY <1>10
  <2> HIDE DEF b, j, n, c, e, x
  <2> QED
    BY <2>1, <2>2 DEF x
<1>13. e.num_pushbufs = Len(j.cmdbufs) /\ e.num_relocs = Len(j.relocs)
  <2>1. b.num_pushbufs = Len(j.cmdbufs) /\ b.num_relocs = Len(j.relocs)
    BY <1>2 DEF CountersInv
  <2> QED
    BY <1>12, <2>1
<1>14. Left(e) = Left(b) - 1
  <2>1. b.relocs_left \in Nat /\ b.waitchks_left \in Nat /\ b.shifts_left \in Nat
    <3>1. CountersInv(j, b) /\ JobOf(program, j)
      BY <1>2
    <3> HIDE DEF j, b
    <3> QED
      BY <3>1, CounterTypes
  <2> HIDE DEF e, b, j
  <2> QED
    BY <1>3, <1>12, <2>1 DEF Left
<1>15. CountersInv(j, e)
  <2>1. e = [num_pushbufs |-> Len(j.cmdbufs), num_relocs |-> Len(j.relocs),
             cmdbufs_left |-> e.cmdbufs_left, relocs_left |-> e.relocs_left,
             waitchks_left |-> e.waitchks_left, shifts_left |-> e.shifts_left,
             pushbufs |-> e.pushbufs, relocs |-> e.relocs]
    BY <1>12, <1>13
  <2> HIDE DEF e, b, j, n, c
  <2>2. e.cmdbufs_left \in 0..Len(j.cmdbufs)
    BY <1>3, <1>12
  <2> QED
    BY <1>2, <1>3, <1>12, <2>1, <2>2 DEF CountersInv
<1>16. ContentsInv(j, e)
  <2>1. /\ b.pushbufs = [i \in 1..Len(j.cmdbufs) |-> b.pushbufs[i]]
        /\ b.relocs = [i \in 1..Len(j.relocs) |-> b.relocs[i]]
        /\ \A i \in 1..Len(j.cmdbufs) - b.cmdbufs_left : b.pushbufs[i] = Sent(j.cmdbufs[i])
        /\ \A i \in 1..Len(j.relocs) - b.relocs_left : b.relocs[i] = j.relocs[i]
    BY <1>2 DEF ContentsInv
  <2>2. e.pushbufs[n] = Sent(j.cmdbufs[n]) /\ \A i \in 1..Len(j.cmdbufs) : i # n => e.pushbufs[i] = b.pushbufs[i]
    <3> HIDE DEF e, b, j, n, c
    <3> QED
      BY <1>4, <1>12, <2>1
  <2>3. e.pushbufs = [i \in 1..Len(j.cmdbufs) |-> e.pushbufs[i]]
    <3> HIDE DEF e, b, j, n, c
    <3> QED
      BY <1>12, <2>1
  <2>4. ASSUME NEW i \in 1..Len(j.cmdbufs) - e.cmdbufs_left
        PROVE  e.pushbufs[i] = Sent(j.cmdbufs[i])
    <3> DEFINE C == Len(j.cmdbufs)  k == b.cmdbufs_left
    <3>0. C \in Nat /\ k \in 1..C /\ n = C - k + 1 /\ i \in 1..C - (k - 1)
      BY <1>3, <1>12, <2>4
    <3> HIDE DEF C, k, n
    <3>1. i = n \/ i \in 1..C - k
      BY <3>0
    <3>2. i \in 1..C /\ (i \in 1..C - k => i # n)
      BY <3>0
    <3> HIDE DEF e, b, j, c
    <3> QED
      BY <2>1, <2>2, <3>1, <3>2 DEF C, k
  <2> HIDE DEF e, b, j, n, c
  <2> QED
    BY <1>12, <2>1, <2>3, <2>4 DEF ContentsInv
<1>17. (ContentsInv(Head(todo[f]), job[f]))'
  <2>1. todo' = todo /\ program' = program
    BY <1>1
  <2> QED
    BY <1>16, <2>1 DEF ContentsInv, Sent
<1> QED
  BY <1>1, <1>2, <1>10, <1>11, <1>14, <1>15, <1>17, LookedAt

LEMMA AddRelocStep ==
  ASSUME IInv, NEW f \in Channels, AddReloc(f)
  PROVE  IInv'
<1> DEFINE j == Head(todo[f])
           b == job[f]
           n == Len(j.relocs) - b.relocs_left + 1
           c == Head(hook[f].buffer)
<1>1. /\ InLoop(f) /\ b.cmdbufs_left = 0 /\ b.relocs_left > 0
      /\ UNCHANGED <<program, mem, filled, todo, unsent, handles>>
  BY DEF AddReloc, told
<1>2. /\ hook[f].at = "loop" /\ hook[f].buffer # <<>>
      /\ hook[f] = [at |-> "loop", buffer |-> hook[f].buffer]
      /\ OpenInv(f) /\ todo[f] # <<>> /\ JobOf(program, j)
      /\ CountersInv(j, b) /\ ContentsInv(j, b)
      /\ DOMAIN job = Channels /\ DOMAIN hook = Channels
      /\ c = Structs(j)[Len(Structs(j)) - Left(b) + 1]
  BY <1>1, NextStructure
<1>3. /\ b.relocs_left \in 1..Len(j.relocs) /\ Len(j.relocs) \in Nat /\ Len(j.cmdbufs) \in Nat
      /\ b.waitchks_left = j.waitchks /\ b.shifts_left = Shifts(j)
      /\ b.num_relocs = Len(j.relocs)
      /\ b.waitchks_left \in Nat /\ b.shifts_left \in Nat
      /\ Len(j.cmdbufs) + n = Len(Structs(j)) - Left(b) + 1
  <2>1. /\ b.relocs_left \in 0..Len(j.relocs)
        /\ b.waitchks_left = j.waitchks /\ b.shifts_left = Shifts(j)
    BY <1>1, <1>2 DEF CountersInv
  <2>2. /\ Len(j.cmdbufs) \in Nat /\ Len(j.relocs) \in Nat /\ j.waitchks \in Nat /\ Shifts(j) \in Nat
    BY <1>2, StructsOf
  <2>3. /\ b.relocs_left \in Nat /\ b.num_relocs = Len(j.relocs)
        /\ b.cmdbufs_left = 0 /\ b.relocs_left # 0 =>
              Len(Structs(j)) - Left(b) = Len(j.cmdbufs) + (Len(j.relocs) - b.relocs_left)
    BY <1>2, CounterTypes
  <2> HIDE DEF j, b
  <2> QED
    BY <1>1, <2>1, <2>2, <2>3
<1>4. n \in 1..Len(j.relocs) /\ c = j.relocs[n]
  <2>1. n \in 1..Len(j.relocs)
    <3>1. b.relocs_left \in 1..Len(j.relocs) /\ Len(j.relocs) \in Nat
      BY <1>3
    <3> HIDE DEF b, j
    <3> QED
      BY <3>1
  <2>2. \A i \in 1..Len(j.relocs) : Structs(j)[Len(j.cmdbufs) + i] = j.relocs[i]
    <3>1. JobOf(program, j)
      BY <1>2
    <3> HIDE DEF j
    <3> QED
      BY <3>1, StructsOf
  <2> QED
    BY <1>2, <1>3, <2>1, <2>2
<1>5. /\ job' = [job EXCEPT ![f].relocs_left = @ - 1, ![f].relocs[n] = c]
      /\ hook' = [hook EXCEPT ![f].buffer = Tail(@)]
  BY <1>3 DEF AddReloc, Advance, RelocIndex
<1>6. /\ DOMAIN job' = Channels /\ DOMAIN hook' = Channels
      /\ \A g \in Channels \ {f} : job'[g] = job[g] /\ hook'[g] = hook[g]
      /\ hook'[f] = [hook[f] EXCEPT !.buffer = Tail(@)]
      /\ job'[f] = [b EXCEPT !.relocs_left = @ - 1, !.relocs[n] = c]
  BY <1>2, <1>5
<1>7. hook'[f] = [at |-> "loop", buffer |-> Tail(hook[f].buffer)]
  BY <1>2, <1>6
<1> DEFINE e == job'[f]
<1>8. /\ e = [num_pushbufs |-> e.num_pushbufs, num_relocs |-> e.num_relocs,
              cmdbufs_left |-> e.cmdbufs_left, relocs_left |-> e.relocs_left,
              waitchks_left |-> e.waitchks_left, shifts_left |-> e.shifts_left,
              pushbufs |-> e.pushbufs, relocs |-> e.relocs]
      /\ e.cmdbufs_left = b.cmdbufs_left /\ e.relocs_left = b.relocs_left - 1
      /\ e.waitchks_left = b.waitchks_left /\ e.shifts_left = b.shifts_left
      /\ e.num_pushbufs = b.num_pushbufs /\ e.num_relocs = b.num_relocs
      /\ e.pushbufs = b.pushbufs /\ e.relocs = [b.relocs EXCEPT ![n] = c]
  <2>1. b = [num_pushbufs |-> Len(j.cmdbufs), num_relocs |-> Len(j.relocs),
             cmdbufs_left |-> b.cmdbufs_left, relocs_left |-> b.relocs_left,
             waitchks_left |-> b.waitchks_left, shifts_left |-> b.shifts_left,
             pushbufs |-> b.pushbufs, relocs |-> b.relocs]
    BY <1>2 DEF CountersInv
  <2>2. e = [b EXCEPT !.relocs_left = @ - 1, !.relocs[n] = c]
    BY <1>6
  <2> HIDE DEF b, j, n, c, e
  <2> QED
    BY <2>1, <2>2
<1>9. e.num_pushbufs = Len(j.cmdbufs) /\ e.num_relocs = Len(j.relocs)
  <2>1. b.num_pushbufs = Len(j.cmdbufs) /\ b.num_relocs = Len(j.relocs)
    BY <1>2 DEF CountersInv
  <2> QED
    BY <1>8, <2>1
<1>10. Left(e) = Left(b) - 1
  <2> HIDE DEF e, b, j
  <2> QED
    BY <1>1, <1>3, <1>8 DEF Left
<1>11. CountersInv(j, e)
  <2>1. e = [num_pushbufs |-> Len(j.cmdbufs), num_relocs |-> Len(j.relocs),
             cmdbufs_left |-> e.cmdbufs_left, relocs_left |-> e.relocs_left,
             waitchks_left |-> e.waitchks_left, shifts_left |-> e.shifts_left,
             pushbufs |-> e.pushbufs, relocs |-> e.relocs]
    BY <1>8, <1>9
  <2> HIDE DEF e, b, j, n, c
  <2>2. e.relocs_left \in 0..Len(j.relocs) /\ e.cmdbufs_left \in 0..Len(j.cmdbufs)
    BY <1>1, <1>3, <1>8
  <2> QED
    BY <1>1, <1>2, <1>3, <1>8, <2>1, <2>2 DEF CountersInv
<1>12. ContentsInv(j, e)
  <2>1. /\ b.pushbufs = [i \in 1..Len(j.cmdbufs) |-> b.pushbufs[i]]
        /\ b.relocs = [i \in 1..Len(j.relocs) |-> b.relocs[i]]
        /\ \A i \in 1..Len(j.cmdbufs) - b.cmdbufs_left : b.pushbufs[i] = Sent(j.cmdbufs[i])
        /\ \A i \in 1..Len(j.relocs) - b.relocs_left : b.relocs[i] = j.relocs[i]
    BY <1>2 DEF ContentsInv
  <2>2. e.relocs[n] = j.relocs[n] /\ \A i \in 1..Len(j.relocs) : i # n => e.relocs[i] = b.relocs[i]
    <3> HIDE DEF e, b, j, n, c
    <3> QED
      BY <1>4, <1>8, <2>1
  <2>3. e.relocs = [i \in 1..Len(j.relocs) |-> e.relocs[i]]
    <3> HIDE DEF e, b, j, n, c
    <3> QED
      BY <1>8, <2>1
  <2>4. ASSUME NEW i \in 1..Len(j.relocs) - e.relocs_left
        PROVE  e.relocs[i] = j.relocs[i]
    <3> DEFINE C == Len(j.relocs)  k == b.relocs_left
    <3>0. C \in Nat /\ k \in 1..C /\ n = C - k + 1 /\ i \in 1..C - (k - 1)
      BY <1>3, <1>8, <2>4
    <3> HIDE DEF C, k, n
    <3>1. i = n \/ i \in 1..C - k
      BY <3>0
    <3>2. i \in 1..C /\ (i \in 1..C - k => i # n)
      BY <3>0
    <3> HIDE DEF e, b, j, c
    <3> QED
      BY <2>1, <2>2, <3>1, <3>2 DEF C, k
  <2> HIDE DEF e, b, j, n, c
  <2> QED
    BY <1>8, <2>1, <2>3, <2>4 DEF ContentsInv
<1>13. (ContentsInv(Head(todo[f]), job[f]))'
  <2>1. todo' = todo /\ program' = program
    BY <1>1
  <2> QED
    BY <1>12, <2>1 DEF ContentsInv, Sent
<1> QED
  BY <1>1, <1>2, <1>6, <1>7, <1>10, <1>11, <1>13, LookedAt

\* Wait checks and shifts are only counted.
LEMMA CountedOnly ==
  ASSUME IInv, NEW f \in Channels, InLoop(f), job[f].cmdbufs_left = 0, job[f].relocs_left = 0,
         \/ /\ job[f].waitchks_left > 0
            /\ job' = [job EXCEPT ![f].waitchks_left = @ - 1]
         \/ /\ job[f].waitchks_left = 0 /\ job[f].shifts_left > 0
            /\ job' = [job EXCEPT ![f].shifts_left = @ - 1],
         Advance(f), UNCHANGED <<program, mem, filled, todo, unsent, handles>>
  PROVE  IInv'
<1> DEFINE j == Head(todo[f])
           b == job[f]
           e == job'[f]
<1>2. /\ hook[f].at = "loop" /\ hook[f].buffer # <<>>
      /\ hook[f] = [at |-> "loop", buffer |-> hook[f].buffer]
      /\ OpenInv(f) /\ todo[f] # <<>> /\ JobOf(program, j)
      /\ CountersInv(j, b) /\ ContentsInv(j, b)
      /\ DOMAIN job = Channels /\ DOMAIN hook = Channels
  BY NextStructure
<1>3. /\ DOMAIN job' = Channels /\ DOMAIN hook' = Channels
      /\ \A g \in Channels \ {f} : job'[g] = job[g] /\ hook'[g] = hook[g]
      /\ hook'[f] = [hook[f] EXCEPT !.buffer = Tail(@)]
      /\ \/ b.waitchks_left > 0 /\ e = [b EXCEPT !.waitchks_left = @ - 1]
         \/ b.waitchks_left = 0 /\ b.shifts_left > 0 /\ e = [b EXCEPT !.shifts_left = @ - 1]
  BY <1>2 DEF Advance
<1>4. hook'[f] = [at |-> "loop", buffer |-> Tail(hook[f].buffer)]
  BY <1>2, <1>3
<1>5. b = [num_pushbufs |-> Len(j.cmdbufs), num_relocs |-> Len(j.relocs),
           cmdbufs_left |-> b.cmdbufs_left, relocs_left |-> b.relocs_left,
           waitchks_left |-> b.waitchks_left, shifts_left |-> b.shifts_left,
           pushbufs |-> b.pushbufs, relocs |-> b.relocs]
  BY <1>2 DEF CountersInv
<1>6. /\ e = [num_pushbufs |-> Len(j.cmdbufs), num_relocs |-> Len(j.relocs),
              cmdbufs_left |-> e.cmdbufs_left, relocs_left |-> e.relocs_left,
              waitchks_left |-> e.waitchks_left, shifts_left |-> e.shifts_left,
              pushbufs |-> e.pushbufs, relocs |-> e.relocs]
      /\ e.cmdbufs_left = b.cmdbufs_left /\ e.relocs_left = b.relocs_left
      /\ e.pushbufs = b.pushbufs /\ e.relocs = b.relocs
      /\ \/ /\ b.waitchks_left > 0 /\ e.waitchks_left = b.waitchks_left - 1
            /\ e.shifts_left = b.shifts_left
         \/ /\ b.waitchks_left = 0 /\ b.shifts_left > 0
            /\ e.waitchks_left = 0 /\ e.shifts_left = b.shifts_left - 1
  <2> HIDE DEF b, e, j
  <2> QED
    BY <1>3, <1>5
<1>7. /\ b.waitchks_left \in 0..j.waitchks /\ b.shifts_left \in 0..Shifts(j)
      /\ j.waitchks \in Nat /\ Shifts(j) \in Nat
      /\ b.shifts_left # Shifts(j) => b.waitchks_left = 0
  <2>1. j.waitchks \in Nat /\ Shifts(j) \in Nat
    BY <1>2, StructsOf
  <2> QED
    BY <1>2, <2>1 DEF CountersInv
<1>8. Left(e) = Left(b) - 1
  <2>1. b.cmdbufs_left = 0 /\ b.relocs_left = 0
    OBVIOUS
  <2> HIDE DEF e, b, j
  <2>2. b.waitchks_left \in Int /\ b.shifts_left \in Int
    BY <1>7
  <2>3. e.waitchks_left \in Int /\ e.shifts_left \in Int
    BY <1>6, <2>2
  <2>4. e.waitchks_left + e.shifts_left = b.waitchks_left + b.shifts_left - 1
    BY <1>6, <2>2
  <2>5. e.cmdbufs_left = 0 /\ e.relocs_left = 0
    BY <1>6, <2>1
  <2> QED
    BY <2>1, <2>2, <2>3, <2>4, <2>5 DEF Left
<1>9. CountersInv(j, e)
  <2>1. e.cmdbufs_left = 0 /\ e.relocs_left = 0
    BY <1>6
  <2> HIDE DEF e
  <2>2. e.waitchks_left \in 0..j.waitchks /\ e.shifts_left \in 0..Shifts(j)
    BY <1>6, <1>7
  <2>3. e.shifts_left # Shifts(j) => e.waitchks_left = 0
    BY <1>6, <1>7
  <2>4. e.cmdbufs_left \in 0..Len(j.cmdbufs) /\ e.relocs_left \in 0..Len(j.relocs)
    BY <1>2, <1>6 DEF CountersInv
  <2> HIDE DEF b, j
  <2> QED
    BY <1>6, <2>1, <2>2, <2>3, <2>4 DEF CountersInv
<1>10. ContentsInv(j, e)
  BY <1>2, <1>6 DEF ContentsInv
<1>11. (ContentsInv(Head(todo[f]), job[f]))'
  <2>1. todo' = todo /\ program' = program
    OBVIOUS
  <2> QED
    BY <1>10, <2>1 DEF ContentsInv, Sent
<1> QED
  BY <1>2, <1>3, <1>4, <1>8, <1>9, <1>11, LookedAt

-----------------------------------------------------------------------------
(* The other steps of a channel. *)

\* A hook goes on without looking at a structure, or returns when there is none left.
LEMMA HookMoves ==
  ASSUME IInv, NEW f \in Channels, hook[f] # NoHook,
         UNCHANGED <<program, mem, filled, todo, unsent, handles, job>>,
         DOMAIN hook' = Channels, \A g \in Channels \ {f} : hook'[g] = hook[g],
         \/ hook'[f] = NoHook /\ hook[f].buffer = <<>>
         \/ /\ hook'[f] # NoHook /\ hook'[f].buffer = hook[f].buffer
            /\ \/ hook'[f] = [at |-> "loop", buffer |-> hook'[f].buffer]
               \/ hook'[f] = [at |-> "parse", buffer |-> hook'[f].buffer, words |-> hook'[f].words,
                              num_words |-> hook'[f].num_words, position |-> hook'[f].position,
                              class |-> hook'[f].class]
  PROVE  IInv'
<1>1. OpenInv(f) /\ unsent[f] # None /\ InHook(f) = hook[f].buffer
  BY HookOf
<1>2. (InHook(f))' = InHook(f)
  BY <1>1 DEF InHook
<1>3. OpenInv(f)'
  BY <1>1, <1>2, OpenSame
<1>4. DOMAIN unsent' = Channels /\ DOMAIN job' = Channels
  BY DEF IInv, HookInv
<1> QED
  BY <1>1, <1>3, <1>4, ChannelStep

LEMMA WriteReturnsStep ==
  ASSUME IInv, NEW f \in Channels, WriteReturns(f)
  PROVE  IInv'
<1>1. /\ hook[f].at = "loop" /\ hook[f].buffer = <<>>
      /\ hook' = [hook EXCEPT ![f] = NoHook]
      /\ UNCHANGED <<program, mem, filled, todo, unsent, handles, job>>
  BY DEF WriteReturns, told
<1>2. hook[f] # NoHook
  BY <1>1 DEF NoHook
<1>3. DOMAIN hook' = Channels /\ hook'[f] = NoHook /\ \A g \in Channels \ {f} : hook'[g] = hook[g]
  BY <1>1 DEF IInv, HookInv
<1> QED
  BY <1>1, <1>2, <1>3, HookMoves

LEMMA ReportStep ==
  ASSUME IInv, NEW f \in Channels, NEW c, NEW rs, NEW vs, NEW n,
         hook[f].at = "parse", Report(f, c, rs, vs, n)
  PROVE  IInv'
<1>1. /\ hook' = [hook EXCEPT ![f].position = @ + n, ![f].class = c]
      /\ UNCHANGED <<program, mem, filled, todo, unsent, handles, job>>
  BY DEF Report, told
<1>2. hook[f] # NoHook
  BY DEF NoHook
<1>3. hook[f] = [at |-> "parse", buffer |-> hook[f].buffer, words |-> hook[f].words,
                 num_words |-> hook[f].num_words, position |-> hook[f].position,
                 class |-> hook[f].class]
  BY <1>2, HookOf
<1>4. /\ DOMAIN hook' = Channels /\ \A g \in Channels \ {f} : hook'[g] = hook[g]
      /\ hook'[f] = [hook[f] EXCEPT !.position = @ + n, !.class = c]
  BY <1>1 DEF IInv, HookInv
<1>5. /\ hook'[f] = [at |-> "parse", buffer |-> hook'[f].buffer, words |-> hook'[f].words,
                     num_words |-> hook'[f].num_words, position |-> hook'[f].position,
                     class |-> hook'[f].class]
      /\ hook'[f].buffer = hook[f].buffer /\ hook'[f].at = "parse"
  <2> DEFINE a == hook[f]  b == hook'[f]  x == a.position + n
  <2>1. /\ a = [at |-> "parse", buffer |-> a.buffer, words |-> a.words, num_words |-> a.num_words,
                position |-> a.position, class |-> a.class]
        /\ b = [a EXCEPT !.position = x, !.class = c]
    BY <1>3, <1>4
  <2> HIDE DEF a, b, x
  <2>2. b.at = a.at /\ b.buffer = a.buffer
    BY <2>1
  <2>3. b = [at |-> b.at, buffer |-> b.buffer, words |-> b.words, num_words |-> b.num_words,
             position |-> b.position, class |-> b.class]
    BY <2>1
  <2>4. a.at = "parse"
    BY <2>1
  <2> QED
    BY <2>2, <2>3, <2>4 DEF a, b
<1>6. hook'[f] # NoHook
  BY <1>5 DEF NoHook
<1> QED
  BY <1>1, <1>2, <1>4, <1>5, <1>6, HookMoves

LEMMA ParseStep ==
  ASSUME IInv, NEW f \in Channels,
         setcl(f) \/ incr(f) \/ nonincr(f) \/ mask(f) \/ imm(f) \/ NoWrites(f)
  PROVE  IInv'
<1>1. CASE setcl(f)
  BY <1>1, ReportStep DEF setcl, Handled, Parses
<1>2. CASE incr(f)
  BY <1>2, ReportStep DEF incr, Handled, Parses
<1>3. CASE nonincr(f)
  BY <1>3, ReportStep DEF nonincr, Handled, Parses
<1>4. CASE mask(f)
  BY <1>4, ReportStep DEF mask, Handled, Parses
<1>5. CASE imm(f)
  BY <1>5, ReportStep DEF imm, Parses
<1>6. CASE NoWrites(f)
  BY <1>6, ReportStep DEF NoWrites, Parses
<1> QED
  BY <1>1, <1>2, <1>3, <1>4, <1>5, <1>6

LEMMA ParseEndsStep ==
  ASSUME IInv, NEW f \in Channels, ParseEnds(f)
  PROVE  IInv'
<1>1. /\ hook[f].at = "parse"
      /\ hook' = [hook EXCEPT ![f] = [at |-> "loop", buffer |-> @.buffer]]
      /\ UNCHANGED <<program, mem, filled, todo, unsent, handles, job>>
  BY DEF ParseEnds, told
<1>2. hook[f] # NoHook
  BY <1>1 DEF NoHook
<1>3. /\ DOMAIN hook' = Channels /\ \A g \in Channels \ {f} : hook'[g] = hook[g]
      /\ hook'[f] = [at |-> "loop", buffer |-> hook[f].buffer]
  BY <1>1 DEF IInv, HookInv
<1>4. /\ hook'[f] # NoHook /\ hook'[f].buffer = hook[f].buffer
      /\ hook'[f] = [at |-> "loop", buffer |-> hook'[f].buffer]
  <2> DEFINE b == hook'[f]  t == hook[f].buffer
  <2>1. b = [at |-> "loop", buffer |-> t]
    BY <1>3
  <2> HIDE DEF b, t
  <2>2. b.at = "loop" /\ b.buffer = t /\ b = [at |-> "loop", buffer |-> b.buffer]
    BY <2>1
  <2>3. b # NoHook
    BY <2>2 DEF NoHook
  <2> QED
    BY <2>2, <2>3 DEF b, t
<1> QED
  BY <1>1, <1>2, <1>3, <1>4, HookMoves

\* write() takes the structures that come first.
LEMMA SplitAt ==
  ASSUME NEW S, NEW s \in Seq(S), NEW n \in 1..Len(s)
  PROVE  /\ SubSeq(s, 1, n) \in Seq(S) /\ SubSeq(s, n + 1, Len(s)) \in Seq(S)
         /\ Len(s) \in Nat /\ Len(SubSeq(s, 1, n)) = n /\ Len(SubSeq(s, n + 1, Len(s))) = Len(s) - n
         /\ \A i \in 1..n : SubSeq(s, 1, n)[i] = s[i]
         /\ \A i \in 1..Len(s) - n : SubSeq(s, n + 1, Len(s))[i] = s[n + i]
<1>1. Len(s) \in Nat /\ n \in Nat /\ n <= Len(s)
  OBVIOUS
<1>2. SubSeq(s, 1, n) \in Seq(S) /\ Len(SubSeq(s, 1, n)) = n /\ \A i \in 1..n : SubSeq(s, 1, n)[i] = s[i]
  BY <1>1
<1>3. /\ SubSeq(s, n + 1, Len(s)) \in Seq(S) /\ Len(SubSeq(s, n + 1, Len(s))) = Len(s) - n
      /\ \A i \in 1..Len(s) - n : SubSeq(s, n + 1, Len(s))[i] = s[n + i]
  BY <1>1
<1> QED
  BY <1>1, <1>2, <1>3

LEMMA WriteCallStep ==
  ASSUME IInv, NEW f \in Channels, WriteCall(f)
  PROVE  IInv'
<1> DEFINE j == Head(todo[f])
<1>1. /\ hook[f] = NoHook /\ unsent[f] # None
      /\ UNCHANGED <<program, mem, filled, todo, handles, job>>
  BY DEF WriteCall
<1>2. PICK n \in DOMAIN unsent[f] :
        /\ hook' = [hook EXCEPT ![f] = [at |-> "loop", buffer |-> SubSeq(unsent[f], 1, n)]]
        /\ unsent' = [unsent EXCEPT ![f] = SubSeq(@, n + 1, Len(@))]
  BY DEF WriteCall
<1>3. /\ DOMAIN unsent' = Channels /\ DOMAIN job' = Channels /\ DOMAIN hook' = Channels
      /\ \A g \in Channels \ {f} : unsent'[g] = unsent[g] /\ job'[g] = job[g] /\ hook'[g] = hook[g]
      /\ hook'[f] = [at |-> "loop", buffer |-> SubSeq(unsent[f], 1, n)]
      /\ unsent'[f] = SubSeq(unsent[f], n + 1, Len(unsent[f]))
  BY <1>1, <1>2 DEF IInv, HookInv
<1>4. OpenInv(f) /\ InHook(f) = <<>> /\ todo[f] # <<>>
  BY <1>1 DEF IInv, InHook, OpenInv
<1>5. JobOf(program, j) /\ None \notin Seq(Structures(j))
  BY <1>4, CurrentJob DEF IInv
<1>6. CountersInv(j, job[f]) /\ RestInv(j, job[f], <<>>, unsent[f])
  BY <1>4 DEF OpenInv
<1>7. /\ unsent[f] \in Seq(Structures(j)) /\ Left(job[f]) = Len(unsent[f])
      /\ \A i \in 1..Len(unsent[f]) :
            unsent[f][i] = Structs(j)[Len(Structs(j)) - Len(unsent[f]) + i]
  <2>1. Len(<<>>) = 0
    OBVIOUS
  <2>2. unsent[f] \in Seq(Structures(j)) /\ Len(<<>>) + Len(unsent[f]) = Left(job[f])
    BY <1>6 DEF RestInv
  <2>3. Len(unsent[f]) \in Nat
    BY <2>2
  <2>4. Left(job[f]) = Len(unsent[f])
    BY <2>1, <2>2, <2>3
  <2> QED
    BY <1>6, <2>2, <2>4 DEF RestInv
<1>8. n \in 1..Len(unsent[f]) /\ Len(Structs(j)) \in Nat
  BY <1>5, <1>7, StructsOf
<1> DEFINE u == unsent[f]  x == SubSeq(u, 1, n)  y == SubSeq(u, n + 1, Len(u))
<1>9. /\ x \in Seq(Structures(j)) /\ y \in Seq(Structures(j))
      /\ Len(u) \in Nat /\ Len(x) = n /\ Len(y) = Len(u) - n
      /\ \A i \in 1..n : x[i] = u[i]
      /\ \A i \in 1..Len(u) - n : y[i] = u[n + i]
  <2>1. u \in Seq(Structures(j)) /\ n \in 1..Len(u)
    BY <1>7, <1>8
  <2> HIDE DEF u, j
  <2> QED
    BY <2>1, SplitAt
<1> HIDE DEF j, u, x, y
<1>10. RestInv(j, job[f], x, y)
  <2>1. Left(job[f]) = Len(u) /\ \A i \in 1..Len(u) : u[i] = Structs(j)[Len(Structs(j)) - Len(u) + i]
    BY <1>7 DEF u
  <2>2. n \in 1..Len(u) /\ Len(Structs(j)) \in Nat
    BY <1>8 DEF u
  <2>3. Len(x) + Len(y) = Left(job[f])
    BY <1>9, <2>1, <2>2
  <2>4. ASSUME NEW i \in 1..Len(x)
        PROVE  x[i] = Structs(j)[Len(Structs(j)) - Left(job[f]) + i]
    <3>1. i \in 1..Len(u) /\ i \in 1..n
      BY <1>9, <2>2
    <3> QED
      BY <1>9, <2>1, <3>1
  <2>5. ASSUME NEW i \in 1..Len(y)
        PROVE  y[i] = Structs(j)[Len(Structs(j)) - Len(y) + i]
    <3>1. n + i \in 1..Len(u) /\ i \in 1..Len(u) - n
      BY <1>9, <2>2
    <3>2. Len(Structs(j)) - Len(u) + (n + i) = Len(Structs(j)) - Len(y) + i
      BY <1>9, <2>2
    <3> QED
      BY <1>9, <2>1, <3>1, <3>2
  <2> QED
    BY <1>9, <2>3, <2>4, <2>5 DEF RestInv
<1>11. /\ hook'[f] # NoHook /\ hook'[f].buffer = x /\ hook'[f] = [at |-> "loop", buffer |-> hook'[f].buffer]
       /\ (InHook(f))' = x
  <2> DEFINE k == hook'[f]
  <2>1. k = [at |-> "loop", buffer |-> x]
    BY <1>3 DEF x, u
  <2> HIDE DEF k
  <2>2. k.at = "loop" /\ k.buffer = x /\ k = [at |-> "loop", buffer |-> k.buffer]
    BY <2>1
  <2>3. k # NoHook
    BY <2>2 DEF NoHook
  <2> QED
    BY <2>2, <2>3 DEF k, InHook
<1>12. unsent'[f] = y /\ unsent'[f] # None
  BY <1>3, <1>5, <1>9 DEF y, u
<1>13. OpenInv(f)'
  <2>1. (ContentsInv(Head(todo[f]), job[f]))'
    <3>1. ContentsInv(Head(todo[f]), job[f]) /\ todo' = todo /\ program' = program /\ job' = job
      BY <1>1, <1>4 DEF OpenInv
    <3> QED
      BY <3>1 DEF ContentsInv, Sent
  <2>2. /\ todo'[f] # <<>> /\ Head(todo'[f]) = j
        /\ \A i \in DOMAIN j.cmdbufs : filled'[j.cmdbufs[i].mem] = j.cmdbufs[i].fill
        /\ CountersInv(j, job'[f]) /\ RestInv(j, job'[f], x, y)
    BY <1>1, <1>4, <1>10 DEF OpenInv, j
  <2> QED
    BY <1>11, <1>12, <2>1, <2>2 DEF OpenInv
<1> QED
  BY <1>1, <1>3, <1>11, <1>12, <1>13, ChannelStep

LEMMA SubmitStep ==
  ASSUME IInv, NEW f \in Channels, Submit(f)
  PROVE  IInv'
<1> DEFINE j == Head(todo[f])
           b == nvhost_job_new(j)
<1>1. /\ todo[f] # <<>> /\ unsent[f] = None
      /\ \A c \in Range(j.cmdbufs) : filled[c.mem] = c.fill
      /\ unsent' = [unsent EXCEPT ![f] = Structs(j)]
      /\ job' = [job EXCEPT ![f] = b]
      /\ UNCHANGED <<program, mem, filled, todo, handles, hook>>
  BY DEF Submit
<1>2. hook[f] = NoHook
  BY <1>1 DEF IInv, HookInv
<1>3. /\ DOMAIN unsent' = Channels /\ DOMAIN job' = Channels /\ DOMAIN hook' = Channels
      /\ \A g \in Channels \ {f} : unsent'[g] = unsent[g] /\ job'[g] = job[g] /\ hook'[g] = hook[g]
      /\ hook'[f] = NoHook /\ unsent'[f] = Structs(j) /\ job'[f] = b
  BY <1>1, <1>2 DEF IInv, HookInv
<1>4. JobOf(program, j)
  BY <1>1, CurrentJob DEF IInv
<1>5. /\ Structs(j) \in Seq(Structures(j))
      /\ Len(j.cmdbufs) \in Nat /\ Len(j.relocs) \in Nat /\ j.waitchks \in Nat /\ Shifts(j) \in Nat
      /\ Len(Structs(j)) = Len(j.cmdbufs) + Len(j.relocs) + j.waitchks + Shifts(j)
  <2> HIDE DEF j
  <2> QED
    BY <1>4, StructsOf
<1>6. b = [num_pushbufs |-> Len(j.cmdbufs), num_relocs |-> Len(j.relocs),
           cmdbufs_left |-> Len(j.cmdbufs), relocs_left |-> Len(j.relocs),
           waitchks_left |-> j.waitchks, shifts_left |-> Shifts(j),
           pushbufs |-> Null(Len(j.cmdbufs)), relocs |-> Null(Len(j.relocs))]
  BY DEF nvhost_job_new
<1> HIDE DEF j, b
<1>7. CountersInv(j, b)
  BY <1>5, <1>6 DEF CountersInv
<1>8. ContentsInv(j, b)
  <2>1. b.pushbufs = Null(Len(j.cmdbufs)) /\ b.relocs = Null(Len(j.relocs))
    BY <1>6
  <2>2. ASSUME NEW n \in Nat PROVE Null(n) = [i \in 1..n |-> Null(n)[i]]
    BY DEF Null
  <2>3. \A i \in 1..Len(j.cmdbufs) - b.cmdbufs_left : FALSE
    BY <1>5, <1>6
  <2>4. \A i \in 1..Len(j.relocs) - b.relocs_left : FALSE
    BY <1>5, <1>6
  <2> QED
    BY <1>5, <2>1, <2>2, <2>3, <2>4 DEF ContentsInv
<1>9. RestInv(j, b, <<>>, Structs(j))
  <2>1. Left(b) = Len(Structs(j))
    BY <1>5, <1>6 DEF Left
  <2>2. <<>> \in Seq(Structures(j)) /\ Len(<<>>) = 0 /\ Len(Structs(j)) \in Nat
    <3>1. <<>> \in Seq(Structures(j))
      OBVIOUS
    <3>2. Len(<<>>) = 0
      OBVIOUS
    <3>3. \A s \in Seq(Structures(j)) : Len(s) \in Nat
      OBVIOUS
    <3>4. Len(Structs(j)) \in Nat
      BY <1>5, <3>3
    <3> QED
      BY <3>1, <3>2, <3>4
  <2>3. Len(<<>>) + Len(Structs(j)) = Left(b)
    BY <2>1, <2>2
  <2>4. \A i \in 1..Len(Structs(j)) : Structs(j)[i] = Structs(j)[Len(Structs(j)) - Len(Structs(j)) + i]
    BY <2>2
  <2>5. \A i \in 1..Len(<<>>) : FALSE
    BY <2>2
  <2> QED
    BY <1>5, <2>2, <2>3, <2>4, <2>5 DEF RestInv
<1>10. /\ \A i \in DOMAIN j.cmdbufs : filled[j.cmdbufs[i].mem] = j.cmdbufs[i].fill
  BY <1>1 DEF Range, j
<1>11. OpenInv(f)'
  <2>1. (InHook(f))' = <<>>
    BY <1>3 DEF InHook
  <2>2. (ContentsInv(Head(todo[f]), job[f]))'
    <3>1. ContentsInv(j, job'[f]) /\ todo' = todo /\ program' = program
      BY <1>1, <1>3, <1>8
    <3> QED
      BY <3>1 DEF ContentsInv, Sent, j
  <2>3. /\ todo'[f] # <<>> /\ Head(todo'[f]) = j
        /\ \A i \in DOMAIN j.cmdbufs : filled'[j.cmdbufs[i].mem] = j.cmdbufs[i].fill
        /\ CountersInv(j, job'[f]) /\ RestInv(j, job'[f], <<>>, unsent'[f])
    BY <1>1, <1>3, <1>7, <1>9, <1>10 DEF j
  <2> QED
    BY <2>1, <2>2, <2>3 DEF OpenInv
<1> QED
  BY <1>1, <1>3, <1>11, ChannelStep

\* The job at the head is done.
LEMMA FlushStep ==
  ASSUME IInv, NEW f \in Channels, Flush(f)
  PROVE  IInv'
<1>1. /\ unsent[f] = <<>> /\ hook[f] = NoHook
      /\ todo' = [todo EXCEPT ![f] = Tail(@)]
      /\ unsent' = [unsent EXCEPT ![f] = None]
      /\ UNCHANGED <<program, mem, filled, handles, job, hook>>
  BY DEF Flush
<1>2. /\ DOMAIN todo = Channels /\ DOMAIN unsent = Channels
      /\ \A g \in Channels : todo[g] \in Seq(Range(program.jobs[g]))
  BY DEF IInv, ProgramInv, HookInv
<1>3. todo[f] # <<>>
  BY <1>1, NoneAssumption DEF IInv, OpenInv
<1>4. Tail(todo[f]) \in Seq(Range(program.jobs[f]))
  BY <1>2, <1>3, TailOf
<1>5. /\ DOMAIN todo' = Channels /\ todo'[f] = Tail(todo[f])
      /\ DOMAIN unsent' = Channels /\ unsent'[f] = None
      /\ \A g \in Channels \ {f} : todo'[g] = todo[g] /\ unsent'[g] = unsent[g]
  BY <1>1, <1>2
<1>6. ProgramInv'
  <2>1. \A g \in Channels : todo'[g] \in Seq(Range(program'.jobs[g]))
    BY <1>1, <1>2, <1>4, <1>5
  <2> QED
    BY <1>1, <1>5, <2>1 DEF IInv, ProgramInv
<1>7. HandlesInv'
  BY <1>1, HandlesSame DEF IInv
<1>8. HookInv'
  <2>1. hook' = hook /\ job' = job
    BY <1>1
  <2>2. \A g \in Channels : hook[g] # NoHook => g \in Channels \ {f}
    BY <1>1
  <2> QED
    BY <1>5, <2>1, <2>2 DEF IInv, HookInv
<1>9. ASSUME NEW g \in Channels, unsent'[g] # None
      PROVE  OpenInv(g)'
  <2>1. g # f /\ OpenInv(g)
    BY <1>5, <1>9 DEF IInv
  <2>2. (InHook(g))' = InHook(g)
    BY <1>1 DEF InHook
  <2> QED
    BY <1>1, <1>5, <2>1, <2>2, OpenSame
<1> QED
  BY <1>6, <1>7, <1>8, <1>9 DEF IInv

-----------------------------------------------------------------------------
(* The handles. *)

\* A step of nvmap that leaves the jobs alone.
LEMMA HandleStep ==
  ASSUME IInv, ProgramInv', HandlesInv', UNCHANGED <<program, todo, unsent, job, hook>>,
         \A f \in Channels : unsent[f] # None =>
           \A i \in DOMAIN Head(todo[f]).cmdbufs :
             filled'[Head(todo[f]).cmdbufs[i].mem] = filled[Head(todo[f]).cmdbufs[i].mem]
  PROVE  IInv'
<1>1. HookInv'
  BY DEF IInv, HookInv
<1>2. ASSUME NEW f \in Channels, unsent'[f] # None
      PROVE  OpenInv(f)'
  <2>1. OpenInv(f) /\ (InHook(f))' = InHook(f)
    BY <1>2 DEF IInv, InHook
  <2> QED
    BY <1>2, <2>1, OpenSame
<1> QED
  BY <1>1, <1>2 DEF IInv

LEMMA CreateStep ==
  ASSUME IInv, NEW h \in Handles, Create(h)
  PROVE  IInv'
<1> DEFINE T == [id : Handles, mapped : BOOLEAN,
                 buffer : {<<>>} \cup UNION {Range(program.fills[g]) : g \in Handles}]
           x == [id |-> h, mapped |-> FALSE, buffer |-> <<>>]
           n == Len(handles)
<1>1. /\ ~Known(h) /\ handles' = Append(handles, x)
      /\ UNCHANGED <<program, mem, filled, todo, unsent, job, hook>>
  BY DEF Create, told
<1>2. /\ handles \in Seq(T)
      /\ \A i, k \in DOMAIN handles : handles[i].id = handles[k].id => i = k
      /\ \A i \in DOMAIN handles : handles[i].mapped \/ handles[i].buffer = mem[handles[i].id]
      /\ \A g \in Handles : Known(g) \/ filled[g] = 0
  BY DEF IInv, HandlesInv
<1>3. x \in T
  OBVIOUS
<1>4. mem[h] = <<>>
  BY <1>1, <1>2 DEF IInv, ProgramInv
<1>5. x.id = h /\ x.buffer = <<>>
  OBVIOUS
<1> HIDE DEF T, x
<1>6. /\ handles' \in Seq(T) /\ n \in Nat /\ DOMAIN handles = 1..n /\ DOMAIN handles' = 1..n + 1
      /\ handles'[n + 1] = x /\ \A i \in 1..n : handles'[i] = handles[i]
  BY <1>1, <1>2, <1>3
<1>7. \A i \in 1..n : handles[i].id # h
  BY <1>1, <1>6 DEF Known
<1>8. \A i \in DOMAIN handles' : i \in 1..n \/ i = n + 1
  BY <1>6
<1>9. \A i, k \in DOMAIN handles' : handles'[i].id = handles'[k].id => i = k
  BY <1>2, <1>5, <1>6, <1>7, <1>8
<1>10. \A i \in DOMAIN handles' : handles'[i].mapped \/ handles'[i].buffer = mem'[handles'[i].id]
  BY <1>1, <1>2, <1>4, <1>5, <1>6, <1>8
<1>11. ASSUME NEW g \in Handles
       PROVE  (Known(g))' \/ filled'[g] = 0
  <2>1. CASE filled[g] = 0
    BY <1>1, <2>1
  <2>2. CASE Known(g)
    <3>1. PICK i \in DOMAIN handles : handles[i].id = g
      BY <2>2 DEF Known
    <3>2. i \in DOMAIN handles' /\ handles'[i].id = g
      BY <1>6, <3>1
    <3> QED
      BY <3>2 DEF Known
  <2> QED
    BY <1>2, <2>1, <2>2
<1>12. HandlesInv'
  BY <1>1, <1>6, <1>9, <1>10, <1>11 DEF HandlesInv, T
<1>13. ProgramInv'
  BY <1>1, ProgramSame DEF IInv
<1> QED
  BY <1>1, <1>12, <1>13, HandleStep

\* One handle changes, and stays what it is called.
LEMMA OneHandle ==
  ASSUME HandlesInv, NEW h \in Handles, Known(h), program' = program,
         NEW x, handles' = [handles EXCEPT ![lookup(h)] = x],
         x \in [id : {h}, mapped : BOOLEAN,
                buffer : {<<>>} \cup UNION {Range(program.fills[g]) : g \in Handles}],
         x.mapped \/ x.buffer = mem'[h],
         \A g \in Handles \ {h} : mem'[g] = mem[g] /\ filled'[g] = filled[g]
  PROVE  HandlesInv'
<1> DEFINE B == {<<>>} \cup UNION {Range(program.fills[g]) : g \in Handles}
           T == [id : Handles, mapped : BOOLEAN, buffer : B]
           n == lookup(h)
<1>1. n \in DOMAIN handles /\ handles[n].id = h
  BY Lookup
<1>2. x \in T /\ x.id = h
  OBVIOUS
<1>3. /\ handles \in Seq(T)
      /\ \A i, k \in DOMAIN handles : handles[i].id = handles[k].id => i = k
      /\ \A i \in DOMAIN handles : handles[i].mapped \/ handles[i].buffer = mem[handles[i].id]
      /\ \A g \in Handles : Known(g) \/ filled[g] = 0
  BY DEF HandlesInv
<1> HIDE DEF B, T, n
<1>4. \A i \in DOMAIN handles : handles[i].id \in Handles
  <2>1. \A i \in DOMAIN handles : handles[i] \in T
    BY <1>3
  <2> QED
    BY <2>1 DEF T
<1>5. /\ handles' \in Seq(T) /\ DOMAIN handles' = DOMAIN handles
      /\ handles'[n] = x /\ \A i \in DOMAIN handles : i # n => handles'[i] = handles[i]
  <2>1. handles' = [handles EXCEPT ![n] = x]
    BY DEF n
  <2>2. n \in 1..Len(handles)
    BY <1>1, <1>3
  <2>3. handles' \in Seq(T)
    <3>1. ASSUME NEW s \in Seq(T), NEW i \in 1..Len(s) PROVE [s EXCEPT ![i] = x] \in Seq(T)
      BY <1>2, ExceptSeq
    <3>2. handles \in Seq(T)
      BY <1>3
    <3>3. [handles EXCEPT ![n] = x] \in Seq(T)
      BY <2>2, <3>1, <3>2, Zenon
    <3> QED
      BY <2>1, <3>3, Zenon
  <2>4. DOMAIN handles' = DOMAIN handles
    BY <2>1
  <2>5. handles'[n] = x /\ \A i \in DOMAIN handles : i # n => handles'[i] = handles[i]
    BY <1>1, <2>1
  <2> QED
    BY <2>3, <2>4, <2>5
<1>6. \A i \in DOMAIN handles : handles'[i].id = handles[i].id /\ (i # n => handles[i].id # h)
  BY <1>1, <1>2, <1>3, <1>5
<1>7. ASSUME NEW i \in DOMAIN handles
      PROVE  handles'[i].mapped \/ handles'[i].buffer = mem'[handles'[i].id]
  <2>1. CASE i = n
    BY <1>2, <1>5, <2>1
  <2>2. CASE i # n
    BY <1>3, <1>4, <1>5, <1>6, <2>2
  <2> QED
    BY <2>1, <2>2
<1>8. ASSUME NEW g \in Handles
      PROVE  (Known(g))' \/ filled'[g] = 0
  <2>1. CASE g = h
    BY <1>1, <1>5, <1>6, <2>1 DEF Known
  <2>2. CASE g # h /\ filled[g] = 0
    BY <2>2
  <2>3. CASE Known(g)
    BY <1>5, <1>6, <2>3 DEF Known
  <2> QED
    BY <1>3, <2>1, <2>2, <2>3
<1> QED
  BY <1>3, <1>5, <1>6, <1>7, <1>8 DEF HandlesInv, T, B

LEMMA MmapStep ==
  ASSUME IInv, NEW h \in Handles, Mmap(h)
  PROVE  IInv'
<1> DEFINE B == {<<>>} \cup UNION {Range(program.fills[g]) : g \in Handles}
           a == handles[lookup(h)]
           x == [a EXCEPT !.mapped = TRUE]
<1>1. /\ Known(h) /\ handles' = [handles EXCEPT ![lookup(h)].mapped = TRUE]
      /\ UNCHANGED <<program, mem, filled, todo, unsent, job, hook>>
  BY DEF Mmap, told
<1>2. lookup(h) \in DOMAIN handles /\ a.id = h
  BY <1>1, Lookup DEF IInv
<1>3. a \in [id : Handles, mapped : BOOLEAN, buffer : B]
  <2> DEFINE T == [id : Handles, mapped : BOOLEAN, buffer : B]
  <2>1. handles \in Seq(T)
    BY DEF IInv, HandlesInv
  <2> HIDE DEF T
  <2>2. a \in T
    BY <1>2, <2>1
  <2> QED
    BY <2>2 DEF T
<1>4. x \in [id : {h}, mapped : BOOLEAN, buffer : B] /\ x.mapped
  <2> HIDE DEF a, B
  <2> QED
    BY <1>2, <1>3
<1>5. handles' = [handles EXCEPT ![lookup(h)] = x]
  BY <1>1
<1> HIDE DEF x, a
<1>6. HandlesInv'
  BY <1>1, <1>4, <1>5, OneHandle DEF IInv
<1>7. ProgramInv'
  BY <1>1, ProgramSame DEF IInv
<1> QED
  BY <1>1, <1>6, <1>7, HandleStep

\* No open job runs on the contents that are replaced.
LEMMA FillStep ==
  ASSUME IInv, NEW h \in Handles, Fill(h)
  PROVE  IInv'
<1> DEFINE next == program.fills[h][filled[h] + 1]
<1>1. /\ Known(h) /\ filled[h] < Len(program.fills[h]) /\ Spent(h)
      /\ h \in program.mapped => handles[lookup(h)].mapped
      /\ filled' = [filled EXCEPT ![h] = @ + 1]
      /\ mem' = [mem EXCEPT ![h] = next]
      /\ handles' = IF h \in program.mapped THEN handles
                    ELSE [handles EXCEPT ![lookup(h)].buffer = mem'[h]]
      /\ UNCHANGED <<program, todo, unsent, job, hook>>
  BY DEF Fill
<1>2. /\ program \in Programs
      /\ filled \in [Handles -> Nat] /\ \A g \in Handles : filled[g] <= Len(program.fills[g])
      /\ mem = [g \in Handles |-> IF filled[g] = 0 THEN <<>> ELSE program.fills[g][filled[g]]]
  BY DEF IInv, ProgramInv
<1>3. \A g \in Handles : Len(program.fills[g]) \in Nat
  <2>1. ASSUME NEW g \in Handles PROVE filled[g] <= Len(program.fills[g])
    BY <1>2
  <2> QED
    BY <1>2, ProgramsAssumption
<1>4. /\ filled[h] \in Nat /\ filled' \in [Handles -> Nat] /\ filled'[h] = filled[h] + 1
      /\ \A g \in Handles \ {h} : filled'[g] = filled[g] /\ mem'[g] = mem[g]
      /\ mem'[h] = next /\ filled[h] + 1 \in 1..Len(program.fills[h])
  BY <1>1, <1>2, <1>3
<1>5. ProgramInv'
  <2>1. mem' = [g \in Handles |-> IF filled'[g] = 0 THEN <<>> ELSE program'.fills[g][filled'[g]]]
    <3>1. mem' = [g \in Handles |-> mem'[g]]
      BY <1>1, <1>2
    <3>2. \A g \in Handles : mem'[g] = IF filled'[g] = 0 THEN <<>> ELSE program'.fills[g][filled'[g]]
      BY <1>1, <1>2, <1>4
    <3> QED
      BY <3>1, <3>2
  <2>2. \A g \in Handles : filled'[g] <= Len(program'.fills[g])
    BY <1>1, <1>2, <1>3, <1>4
  <2> QED
    BY <1>1, <1>4, <2>1, <2>2 DEF IInv, ProgramInv
<1>6. lookup(h) \in DOMAIN handles /\ handles[lookup(h)].id = h
  BY <1>1, Lookup DEF IInv
<1> DEFINE B == {<<>>} \cup UNION {Range(program.fills[g]) : g \in Handles}
           a == handles[lookup(h)]
<1>7. a \in [id : Handles, mapped : BOOLEAN, buffer : B]
  <2> DEFINE T == [id : Handles, mapped : BOOLEAN, buffer : B]
  <2>1. handles \in Seq(T)
    BY DEF IInv, HandlesInv
  <2> HIDE DEF T
  <2>2. a \in T
    BY <1>6, <2>1
  <2> QED
    BY <2>2 DEF T
<1>8. next \in B
  <2>1. next \in Range(program.fills[h])
    BY <1>2, <1>4 DEF Range
  <2> QED
    BY <2>1
<1> HIDE DEF B, next
<1>9. HandlesInv'
  <2>1. CASE h \in program.mapped
    <3>1. handles' = [handles EXCEPT ![lookup(h)] = a]
      <4> DEFINE T == [id : Handles, mapped : BOOLEAN, buffer : B]
      <4>1. handles \in Seq(T) /\ handles' = handles
        BY <1>1, <2>1 DEF IInv, HandlesInv, B
      <4> HIDE DEF T
      <4>2. handles = [i \in 1..Len(handles) |-> handles[i]]
        BY <4>1
      <4> QED
        BY <4>1, <4>2
    <3>2. a \in [id : {h}, mapped : BOOLEAN, buffer : B] /\ a.mapped
      <4>1. a.mapped /\ a.id = h
        BY <1>1, <1>6, <2>1
      <4> HIDE DEF a
      <4> QED
        BY <1>7, <4>1
    <3> HIDE DEF a
    <3> QED
      BY <1>1, <1>4, <3>1, <3>2, OneHandle DEF IInv, B
  <2>2. CASE h \notin program.mapped
    <3> DEFINE x == [a EXCEPT !.buffer = next]
    <3>1. handles' = [handles EXCEPT ![lookup(h)] = x]
      <4>1. handles' = [handles EXCEPT ![lookup(h)].buffer = mem'[h]]
        BY <1>1, <2>2
      <4>2. [handles EXCEPT ![lookup(h)].buffer = mem'[h]] =
               [handles EXCEPT ![lookup(h)] = [a EXCEPT !.buffer = mem'[h]]]
        OBVIOUS
      <4> HIDE DEF a
      <4> QED
        BY <1>4, <4>1, <4>2
    <3>2. x \in [id : {h}, mapped : BOOLEAN, buffer : B] /\ x.buffer = next
      <4>1. a.id = h
        BY <1>6
      <4> HIDE DEF a
      <4> QED
        BY <1>7, <1>8, <4>1
    <3> HIDE DEF a, x
    <3> QED
      BY <1>1, <1>4, <3>1, <3>2, OneHandle DEF IInv, B
  <2> QED
    BY <2>1, <2>2
<1>10. ASSUME NEW f \in Channels, unsent[f] # None,
              NEW i \in DOMAIN Head(todo[f]).cmdbufs
       PROVE  filled'[Head(todo[f]).cmdbufs[i].mem] = filled[Head(todo[f]).cmdbufs[i].mem]
  <2> DEFINE c == Head(todo[f]).cmdbufs[i]
  <2>1. todo[f] # <<>> /\ filled[c.mem] = c.fill
    BY <1>10 DEF IInv, OpenInv
  <2>2. c.mem \in Handles
    BY <2>1, CurrentJob DEF IInv, JobOf, CmdbufOf
  <2>3. Head(todo[f]) = todo[f][1] /\ 1 \in DOMAIN todo[f]
    <3>1. todo[f] \in Seq(Range(program.jobs[f]))
      BY DEF IInv, ProgramInv
    <3>2. Head(todo[f]) = todo[f][1] /\ Len(todo[f]) \in Nat \ {0}
      BY <2>1, <3>1, TailOf
    <3> QED
      BY <3>1, <3>2
  <2>4. c \in Range(todo[f][1].cmdbufs)
    BY <2>3 DEF Range
  <2>5. c.mem = h => c.fill > filled[h]
    BY <1>1, <2>3, <2>4 DEF Spent
  <2>6. c.mem # h
    BY <1>4, <2>1, <2>5
  <2> QED
    BY <1>4, <2>2, <2>6
<1> QED
  BY <1>1, <1>5, <1>9, <1>10, HandleStep

-----------------------------------------------------------------------------
(* The theorems. *)

LEMMA NextInv == IInv /\ [Next]_vars => IInv'
<1> SUFFICES ASSUME IInv, [Next]_vars
             PROVE  IInv'
  OBVIOUS
<1>1. ASSUME NEW h \in Handles, Create(h) \/ Mmap(h) \/ Fill(h)
      PROVE  IInv'
  BY <1>1, CreateStep, MmapStep, FillStep
<1>2. ASSUME NEW f \in Channels, Submit(f) \/ WriteCall(f) \/ Flush(f)
      PROVE  IInv'
  BY <1>2, SubmitStep, WriteCallStep, FlushStep
<1>3. ASSUME NEW f \in Channels, HookStep(f)
      PROVE  IInv'
  <2>1. CASE AddPushbuf(f)
    BY <2>1, AddPushbufStep
  <2>2. CASE AddReloc(f)
    BY <2>2, AddRelocStep
  <2>3. CASE AddWaitCheck(f) \/ AddShift(f)
    BY <2>3, CountedOnly DEF AddWaitCheck, AddShift, told
  <2>4. CASE WriteReturns(f)
    BY <2>4, WriteReturnsStep
  <2>5. CASE setcl(f) \/ incr(f) \/ nonincr(f) \/ mask(f) \/ imm(f) \/ NoWrites(f)
    BY <2>5, ParseStep
  <2>6. CASE ParseEnds(f)
    BY <2>6, ParseEndsStep
  <2> QED
    BY <1>3, <2>1, <2>2, <2>3, <2>4, <2>5, <2>6 DEF HookStep
<1>4. CASE UNCHANGED vars
  <2>1. UNCHANGED <<program, mem, filled, todo, unsent, handles, job, hook>>
    BY <1>4 DEF vars, told
  <2>2. ProgramInv' /\ HandlesInv'
    BY <2>1, ProgramSame, HandlesSame DEF IInv
  <2> QED
    BY <2>1, <2>2, HandleStep
<1> QED
  BY <1>1, <1>2, <1>3, <1>4 DEF Next

\* The handles, their contents, the hooks and the open jobs always agree, for every
\* set of programs, channels and handles (nvhost_file_write, nvmap_file_ioctl).
THEOREM InductiveInvariant == Spec => []IInv
<1> QED
  BY InitInv, NextInv, PTL DEF Spec

LEMMA SentJobs == IInv => JobAsSent
<1> SUFFICES ASSUME IInv, NEW f \in Channels, unsent[f] = <<>>, hook[f] = NoHook
             PROVE  LET j == Head(todo[f]) IN
                    /\ job[f].relocs = j.relocs
                    /\ \A i \in DOMAIN j.cmdbufs : LET c == j.cmdbufs[i] IN
                          job[f].pushbufs[i] = SubSeq(mem[c.mem], c.offset + 1, c.offset + c.words)
                    /\ <<job[f].cmdbufs_left, job[f].relocs_left, job[f].waitchks_left, job[f].shifts_left>>
                          = <<0, 0, 0, 0>>
  BY DEF JobAsSent
<1> DEFINE j == Head(todo[f])
           b == job[f]
<1>1. OpenInv(f) /\ InHook(f) = <<>>
  BY NoneAssumption DEF IInv, InHook
<1>2. /\ todo[f] # <<>> /\ CountersInv(j, b) /\ ContentsInv(j, b)
      /\ RestInv(j, b, <<>>, <<>>)
      /\ \A i \in DOMAIN j.cmdbufs : filled[j.cmdbufs[i].mem] = j.cmdbufs[i].fill
  BY <1>1 DEF OpenInv
<1>3. JobOf(program, j)
  BY <1>2, CurrentJob DEF IInv
<1>4. Left(b) = 0
  <2>1. Len(<<>>) = 0
    OBVIOUS
  <2>2. Len(<<>>) + Len(<<>>) = Left(b)
    BY <1>2 DEF RestInv
  <2> QED
    BY <2>1, <2>2
<1>5. b.cmdbufs_left = 0 /\ b.relocs_left = 0 /\ b.waitchks_left = 0 /\ b.shifts_left = 0
  <2>1. /\ b.cmdbufs_left \in Nat /\ b.relocs_left \in Nat
        /\ b.waitchks_left \in Nat /\ b.shifts_left \in Nat
    <3> HIDE DEF j, b
    <3> QED
      BY <1>2, <1>3, CounterTypes
  <2>2. \A k, r, w, v \in Nat : k + r + w + v = 0 => k = 0 /\ r = 0 /\ w = 0 /\ v = 0
    OBVIOUS
  <2>3. b.cmdbufs_left + b.relocs_left + b.waitchks_left + b.shifts_left = 0
    BY <1>4 DEF Left
  <2> HIDE DEF b
  <2> QED
    BY <2>1, <2>2, <2>3
<1>6. /\ j.cmdbufs \in Seq(Range(j.cmdbufs)) /\ j.relocs \in Seq(Range(j.relocs))
      /\ \A i \in DOMAIN j.cmdbufs : CmdbufOf(program, j.cmdbufs[i])
  BY <1>3 DEF JobOf
<1>7. /\ b.relocs = [i \in 1..Len(j.relocs) |-> b.relocs[i]]
      /\ \A i \in 1..Len(j.cmdbufs) - b.cmdbufs_left : b.pushbufs[i] = Sent(j.cmdbufs[i])
      /\ \A i \in 1..Len(j.relocs) - b.relocs_left : b.relocs[i] = j.relocs[i]
  BY <1>2 DEF ContentsInv
<1> HIDE DEF j, b
<1>8. b.relocs = j.relocs
  <2>1. Len(j.relocs) - b.relocs_left = Len(j.relocs)
    BY <1>5, <1>6
  <2>2. \A i \in 1..Len(j.relocs) : b.relocs[i] = j.relocs[i]
    BY <1>7, <2>1
  <2>3. j.relocs = [i \in 1..Len(j.relocs) |-> j.relocs[i]]
    BY <1>6
  <2> QED
    BY <1>7, <2>2, <2>3
<1>9. ASSUME NEW i \in DOMAIN j.cmdbufs
      PROVE  b.pushbufs[i] =
               SubSeq(mem[j.cmdbufs[i].mem], j.cmdbufs[i].offset + 1,
                      j.cmdbufs[i].offset + j.cmdbufs[i].words)
  <2>1. i \in 1..Len(j.cmdbufs) - b.cmdbufs_left
    BY <1>5, <1>6
  <2>2. ProgramInv /\ CmdbufOf(program, j.cmdbufs[i]) /\ filled[j.cmdbufs[i].mem] = j.cmdbufs[i].fill
    BY <1>2, <1>6 DEF IInv
  <2>3. Sent(j.cmdbufs[i]) =
           SubSeq(mem[j.cmdbufs[i].mem], j.cmdbufs[i].offset + 1,
                  j.cmdbufs[i].offset + j.cmdbufs[i].words)
    BY <2>2, FilledMem
  <2> QED
    BY <1>7, <2>1, <2>3
<1> QED
  BY <1>5, <1>8, <1>9 DEF j, b

\* When the last structure of a job has been seen, the job libwrap has put together
\* is the one the program sent, and nothing is left to be counted: for any number of
\* structures, cut into write()s in any way, and whatever is done meanwhile to other
\* handles and on other channels (nvhost_file_write, nvhost_job_add_pushbuf,
\* nvhost_job_add_reloc).
THEOREM JobsCorrect == Spec => []JobAsSent
<1> QED
  BY InductiveInvariant, SentJobs, PTL

-----------------------------------------------------------------------------
(* Recursion over numbers *)

\* A set of numbers has a least one.
LEMMA LeastNumber ==
  ASSUME NEW S \in SUBSET Nat, S # {}
  PROVE  \E n \in S : \A m \in S : n <= m
<1>1. IsWellFoundedOn(OpToRel(<, Nat), Nat)
  BY NatLessThanWellFounded
<1>2. PICK n \in S : \A m \in S : ~(<<m, n>> \in OpToRel(<, Nat))
  BY <1>1, WFMin
<1>3. \A m \in S : ~(m < n)
  BY <1>2 DEF OpToRel
<1> QED
  BY <1>3

\* What holds of 0, and of a number after one it holds of, holds of all: T are the
\* numbers it holds of.
LEMMA FromZero ==
  ASSUME NEW n \in Nat, NEW T, 0 \in T, \A k \in 0..n - 1 : k \in T => k + 1 \in T
  PROVE  \A k \in 0..n : k \in T
<1> DEFINE bad == {k \in 0..n : k \notin T}
<1> SUFFICES ASSUME bad # {}
             PROVE  FALSE
  OBVIOUS
<1>1. bad \in SUBSET Nat
  OBVIOUS
<1>2. PICK m \in bad : \A k \in bad : m <= k
  BY <1>1, LeastNumber
<1>3. m \in 0..n /\ m # 0 /\ m \notin T
  BY <1>2
<1>4. m - 1 \in 0..n - 1 /\ ~(m <= m - 1) /\ (m - 1) + 1 = m
  BY <1>3
<1>5. m - 1 \in T
  BY <1>2, <1>4
<1> QED
  BY <1>3, <1>4, <1>5

\* The states of a channel after each of some words
LEMMA StatesOf ==
  ASSUME NEW c, NEW words, Len(words) \in Nat
  PROVE  /\ States(c, words)[0] = c
         /\ \A k \in 0..Len(words) - 1 : States(c, words)[k + 1] = Word(States(c, words)[k], words[k + 1])
<1> DEFINE G(g, n) == g = [k \in 0..n |-> IF k = 0 THEN c ELSE Word(g[k - 1], words[k])]
           T == {n \in Nat : \E g : G(g, n)}
           N == Len(words)
<1>1. 0 \in T
  <2> DEFINE g == [k \in 0..0 |-> c]
  <2>1. G(g, 0)
    OBVIOUS
  <2> QED
    BY <2>1
<1>2. ASSUME NEW n \in 0..N - 1, n \in T
      PROVE  n + 1 \in T
  <2>1. PICK g : G(g, n)
    BY <1>2
  <2> DEFINE h == [k \in 0..n + 1 |-> IF k <= n THEN g[k] ELSE Word(g[n], words[n + 1])]
  <2>2. \A k \in 0..n + 1 : h[k] = IF k = 0 THEN c ELSE Word(h[k - 1], words[k])
    <3> SUFFICES ASSUME NEW k \in 0..n + 1
                 PROVE  h[k] = IF k = 0 THEN c ELSE Word(h[k - 1], words[k])
      OBVIOUS
    <3>1. CASE k = 0
      BY <2>1, <3>1
    <3>2. CASE k # 0 /\ k <= n
      <4>1. k - 1 \in 0..n /\ k \in 0..n /\ h[k] = g[k] /\ h[k - 1] = g[k - 1]
        BY <3>2
      <4>2. g[k] = Word(g[k - 1], words[k])
        BY <2>1, <3>2, <4>1
      <4> QED
        BY <3>2, <4>1, <4>2
    <3>3. CASE k = n + 1
      <4>1. k - 1 = n /\ h[k] = Word(g[n], words[k]) /\ h[k - 1] = g[n] /\ k # 0
        BY <3>3
      <4> QED
        BY <4>1
    <3> QED
      BY <3>1, <3>2, <3>3
  <2>3. h = [k \in 0..n + 1 |-> h[k]]
    OBVIOUS
  <2> HIDE DEF h
  <2>4. G(h, n + 1)
    BY <2>2, <2>3
  <2> QED
    BY <2>4
<1> HIDE DEF T
<1>3. N \in T
  <2>1. N \in Nat /\ \A k \in 0..N - 1 : k \in T => k + 1 \in T
    BY <1>2
  <2> HIDE DEF N
  <2>2. \A k \in 0..N : k \in T
    BY <1>1, <2>1, FromZero
  <2> QED
    BY <2>1, <2>2
<1>4. PICK g : G(g, N)
  BY <1>3 DEF T
<1> DEFINE s == States(c, words)
<1>5. s = [k \in 0..N |-> IF k = 0 THEN c ELSE Word(s[k - 1], words[k])]
  BY <1>4 DEF States
<1> HIDE DEF s
<1>6. s[0] = c
  BY <1>5
<1>7. ASSUME NEW k \in 0..N - 1
      PROVE  s[k + 1] = Word(s[k], words[k + 1])
  <2>1. k + 1 \in 0..N /\ k + 1 # 0 /\ (k + 1) - 1 = k
    OBVIOUS
  <2> QED
    BY <1>5, <2>1
<1> QED
  BY <1>6, <1>7 DEF s

\* ... after each of some command buffers
LEMMA GatherStatesOf ==
  ASSUME NEW c, NEW gathers, Len(gathers) \in Nat
  PROVE  /\ GatherStates(c, gathers)[0] = c
         /\ \A k \in 0..Len(gathers) - 1 :
              GatherStates(c, gathers)[k + 1] = Executed(GatherStates(c, gathers)[k], gathers[k + 1])
<1> DEFINE G(g, n) == g = [k \in 0..n |-> IF k = 0 THEN c ELSE Executed(g[k - 1], gathers[k])]
           T == {n \in Nat : \E g : G(g, n)}
           N == Len(gathers)
<1>1. 0 \in T
  <2> DEFINE g == [k \in 0..0 |-> c]
  <2>1. G(g, 0)
    OBVIOUS
  <2> QED
    BY <2>1
<1>2. ASSUME NEW n \in 0..N - 1, n \in T
      PROVE  n + 1 \in T
  <2>1. PICK g : G(g, n)
    BY <1>2
  <2> DEFINE h == [k \in 0..n + 1 |-> IF k <= n THEN g[k] ELSE Executed(g[n], gathers[n + 1])]
  <2>2. \A k \in 0..n + 1 : h[k] = IF k = 0 THEN c ELSE Executed(h[k - 1], gathers[k])
    <3> SUFFICES ASSUME NEW k \in 0..n + 1
                 PROVE  h[k] = IF k = 0 THEN c ELSE Executed(h[k - 1], gathers[k])
      OBVIOUS
    <3>1. CASE k = 0
      BY <2>1, <3>1
    <3>2. CASE k # 0 /\ k <= n
      <4>1. k - 1 \in 0..n /\ k \in 0..n /\ h[k] = g[k] /\ h[k - 1] = g[k - 1]
        BY <3>2
      <4>2. g[k] = Executed(g[k - 1], gathers[k])
        BY <2>1, <3>2, <4>1
      <4> QED
        BY <3>2, <4>1, <4>2
    <3>3. CASE k = n + 1
      <4>1. k - 1 = n /\ h[k] = Executed(g[n], gathers[k]) /\ h[k - 1] = g[n] /\ k # 0
        BY <3>3
      <4> QED
        BY <4>1
    <3> QED
      BY <3>1, <3>2, <3>3
  <2>3. h = [k \in 0..n + 1 |-> h[k]]
    OBVIOUS
  <2> HIDE DEF h
  <2>4. G(h, n + 1)
    BY <2>2, <2>3
  <2> QED
    BY <2>4
<1> HIDE DEF T
<1>3. N \in T
  <2>1. N \in Nat /\ \A k \in 0..N - 1 : k \in T => k + 1 \in T
    BY <1>2
  <2> HIDE DEF N
  <2>2. \A k \in 0..N : k \in T
    BY <1>1, <2>1, FromZero
  <2> QED
    BY <2>1, <2>2
<1>4. PICK g : G(g, N)
  BY <1>3 DEF T
<1> DEFINE s == GatherStates(c, gathers)
<1>5. s = [k \in 0..N |-> IF k = 0 THEN c ELSE Executed(s[k - 1], gathers[k])]
  BY <1>4 DEF GatherStates
<1> HIDE DEF s
<1>6. s[0] = c
  BY <1>5
<1>7. ASSUME NEW k \in 0..N - 1
      PROVE  s[k + 1] = Executed(s[k], gathers[k + 1])
  <2>1. k + 1 \in 0..N /\ k + 1 # 0 /\ (k + 1) - 1 = k
    OBVIOUS
  <2> QED
    BY <1>5, <2>1
<1> QED
  BY <1>6, <1>7 DEF s

\* What libwrap has kept, shown and reported after each of some writes
LEMMA ReportsOf ==
  ASSUME NEW q, NEW xs, Len(xs) \in Nat
  PROVE  /\ Reports(q, xs)[0] = q
         /\ \A k \in 0..Len(xs) - 1 : Reports(q, xs)[k + 1] = cdma_register_write(Reports(q, xs)[k], xs[k + 1])
<1> DEFINE G(g, n) == g = [k \in 0..n |-> IF k = 0 THEN q ELSE cdma_register_write(g[k - 1], xs[k])]
           T == {n \in Nat : \E g : G(g, n)}
           N == Len(xs)
<1>1. 0 \in T
  <2> DEFINE g == [k \in 0..0 |-> q]
  <2>1. G(g, 0)
    OBVIOUS
  <2> QED
    BY <2>1
<1>2. ASSUME NEW n \in 0..N - 1, n \in T
      PROVE  n + 1 \in T
  <2>1. PICK g : G(g, n)
    BY <1>2
  <2> DEFINE h == [k \in 0..n + 1 |-> IF k <= n THEN g[k] ELSE cdma_register_write(g[n], xs[n + 1])]
  <2>2. \A k \in 0..n + 1 : h[k] = IF k = 0 THEN q ELSE cdma_register_write(h[k - 1], xs[k])
    <3> SUFFICES ASSUME NEW k \in 0..n + 1
                 PROVE  h[k] = IF k = 0 THEN q ELSE cdma_register_write(h[k - 1], xs[k])
      OBVIOUS
    <3>1. CASE k = 0
      BY <2>1, <3>1
    <3>2. CASE k # 0 /\ k <= n
      <4>1. k - 1 \in 0..n /\ k \in 0..n /\ h[k] = g[k] /\ h[k - 1] = g[k - 1]
        BY <3>2
      <4>2. g[k] = cdma_register_write(g[k - 1], xs[k])
        BY <2>1, <3>2, <4>1
      <4> QED
        BY <3>2, <4>1, <4>2
    <3>3. CASE k = n + 1
      <4>1. k - 1 = n /\ h[k] = cdma_register_write(g[n], xs[k]) /\ h[k - 1] = g[n] /\ k # 0
        BY <3>3
      <4> QED
        BY <4>1
    <3> QED
      BY <3>1, <3>2, <3>3
  <2>3. h = [k \in 0..n + 1 |-> h[k]]
    OBVIOUS
  <2> HIDE DEF h
  <2>4. G(h, n + 1)
    BY <2>2, <2>3
  <2> QED
    BY <2>4
<1> HIDE DEF T
<1>3. N \in T
  <2>1. N \in Nat /\ \A k \in 0..N - 1 : k \in T => k + 1 \in T
    BY <1>2
  <2> HIDE DEF N
  <2>2. \A k \in 0..N : k \in T
    BY <1>1, <2>1, FromZero
  <2> QED
    BY <2>1, <2>2
<1>4. PICK g : G(g, N)
  BY <1>3 DEF T
<1> DEFINE s == Reports(q, xs)
<1>5. s = [k \in 0..N |-> IF k = 0 THEN q ELSE cdma_register_write(s[k - 1], xs[k])]
  BY <1>4 DEF Reports
<1> HIDE DEF s
<1>6. s[0] = q
  BY <1>5
<1>7. ASSUME NEW k \in 0..N - 1
      PROVE  s[k + 1] = cdma_register_write(s[k], xs[k + 1])
  <2>1. k + 1 \in 0..N /\ k + 1 # 0 /\ (k + 1) - 1 = k
    OBVIOUS
  <2> QED
    BY <1>5, <2>1
<1> QED
  BY <1>6, <1>7 DEF s

-----------------------------------------------------------------------------
(* Opcodes *)

\* The bits of a mask can be put in order.
LEMMA Ordered ==
  ASSUME NEW S \in SUBSET (0..15)
  PROVE  LET s == InOrder(S) n == Cardinality(S) IN
         /\ n \in Nat /\ s \in [1..n -> S] /\ Range(s) = S
         /\ \A i, k \in 1..n : i < k => s[i] < s[k]
<1> DEFINE Sorts(s, R) == /\ s \in [1..Cardinality(R) -> R] /\ Range(s) = R
                          /\ \A i, k \in DOMAIN s : i < k => s[i] < s[k]
           T == {n \in Nat : \A R \in SUBSET (0..15) : Cardinality(R) = n => \E s : Sorts(s, R)}
<1>1. \A R \in SUBSET (0..15) : IsFiniteSet(R) /\ Cardinality(R) \in Nat
  <2> DEFINE I == 0..15
  <2>1. IsFiniteSet(I)
    <3> DEFINE a == 0
               b == 15
    <3>1. a \in Int /\ b \in Int
      OBVIOUS
    <3> HIDE DEF a, b
    <3>2. IsFiniteSet(a..b)
      BY <3>1, FS_Interval
    <3> QED
      BY <3>2 DEF a, b
  <2> HIDE DEF I
  <2>2. \A R \in SUBSET I : IsFiniteSet(R)
    BY <2>1, FS_Subset
  <2>3. \A R \in SUBSET I : Cardinality(R) \in Nat
    BY <2>2, FS_CardinalityType
  <2> QED
    BY <2>2, <2>3 DEF I
<1>2. 0 \in T
  <2> SUFFICES ASSUME NEW R \in SUBSET (0..15), Cardinality(R) = 0
               PROVE  \E s : Sorts(s, R)
    OBVIOUS
  <2>1. R = {}
    BY <1>1, FS_EmptySet
  <2> DEFINE s == [i \in 1..0 |-> 0]
  <2>2. Sorts(s, R)
    BY <2>1 DEF Range
  <2> QED
    BY <2>2
<1>3. ASSUME NEW n \in Nat, n \in T
      PROVE  n + 1 \in T
  <2> SUFFICES ASSUME NEW R \in SUBSET (0..15), Cardinality(R) = n + 1
               PROVE  \E s : Sorts(s, R)
    OBVIOUS
  <2>1. R # {}
    BY FS_EmptySet
  <2>2. PICK x \in R : \A y \in R : y <= x
    <3> DEFINE U == {15 - y : y \in R}
    <3>1. U \in SUBSET Nat /\ U # {}
      <4>1. \A y \in R : y \in 0..15 /\ 15 - y \in Nat
        OBVIOUS
      <4> QED
        BY <2>1, <4>1
    <3>2. PICK m \in U : \A k \in U : m <= k
      BY <3>1, LeastNumber
    <3>3. PICK x \in R : m = 15 - x
      BY <3>2
    <3>4. \A y \in R : 15 - x <= 15 - y
      BY <3>2, <3>3
    <3>5. \A y \in R : y <= x
      BY <3>4
    <3> QED
      BY <3>5
  <2> DEFINE Q == R \ {x}
  <2>3. Q \in SUBSET (0..15) /\ Cardinality(Q) = n
    BY <1>1, FS_RemoveElement
  <2>4. PICK s : Sorts(s, Q)
    BY <1>3, <2>3
  <2> DEFINE t == [i \in 1..n + 1 |-> IF i <= n THEN s[i] ELSE x]
  <2>5. s \in [1..n -> Q] /\ Range(s) = Q /\ \A i, k \in 1..n : i < k => s[i] < s[k]
    BY <2>3, <2>4
  <2>6. \A i \in 1..n : t[i] = s[i] /\ s[i] \in Q
    BY <2>5
  <2>7. t[n + 1] = x /\ DOMAIN t = 1..n + 1
    OBVIOUS
  <2> HIDE DEF t
  <2>8. \A i \in 1..n + 1 : t[i] \in R
    BY <2>6, <2>7
  <2>9. t \in [1..Cardinality(R) -> R]
    <3>1. t = [i \in 1..n + 1 |-> t[i]]
      BY DEF t
    <3> QED
      BY <2>8, <3>1
  <2>10. Range(t) = R
    <3>1. ASSUME NEW y \in R
          PROVE  \E i \in 1..n + 1 : t[i] = y
      <4>1. CASE y = x
        BY <2>7, <4>1
      <4>2. CASE y # x
        <5>1. y \in Range(s) /\ DOMAIN s = 1..n
          BY <2>5, <4>2
        <5> QED
          BY <2>6, <5>1 DEF Range
      <4> QED
        BY <4>1, <4>2
    <3> QED
      BY <2>7, <2>8, <3>1 DEF Range
  <2>11. ASSUME NEW i \in 1..n + 1, NEW k \in 1..n + 1, i < k
         PROVE  t[i] < t[k]
    <3>1. i \in 1..n
      BY <2>11
    <3>2. CASE k \in 1..n
      BY <2>5, <2>6, <2>11, <3>1, <3>2
    <3>3. CASE k = n + 1
      <4>1. t[i] \in Q /\ t[k] = x
        BY <2>6, <2>7, <3>1, <3>3
      <4>2. t[i] <= x /\ t[i] # x /\ t[i] \in 0..15 /\ x \in 0..15
        BY <2>2, <2>3, <4>1
      <4> QED
        BY <4>1, <4>2
    <3> QED
      BY <3>2, <3>3
  <2> QED
    BY <2>7, <2>9, <2>10, <2>11
<1> HIDE DEF T
<1>4. Cardinality(S) \in T
  <2> DEFINE n == Cardinality(S)
  <2>1. n \in Nat /\ \A k \in 0..n - 1 : k \in T => k + 1 \in T
    BY <1>1, <1>3
  <2> HIDE DEF n
  <2>2. \A k \in 0..n : k \in T
    BY <1>2, <2>1, FromZero
  <2>3. n \in T
    BY <2>1, <2>2
  <2> QED
    BY <2>3 DEF n
<1>5. \E s : Sorts(s, S)
  BY <1>4 DEF T
<1>6. Sorts(InOrder(S), S)
  BY <1>5 DEF InOrder
<1> QED
  BY <1>1, <1>6

\* A sequence is one of its own elements.
LEMMA OwnElements ==
  ASSUME NEW S, NEW s \in Seq(S)
  PROVE  s \in Seq(Range(s))
<1>1. Len(s) \in Nat /\ s \in [1..Len(s) -> S]
  OBVIOUS
<1>2. \A i \in 1..Len(s) : s[i] \in Range(s)
  BY <1>1 DEF Range
<1>3. s \in [1..Len(s) -> Range(s)]
  BY <1>1, <1>2
<1> QED
  BY <1>1, <1>3

\* One instruction more, after the first k - 1 of those in a memory
LEMMA Instruction ==
  ASSUME NEW S, NEW m \in Seq(S), NEW w, NEW k \in 1..Len(m) + 1
  PROVE  LET m2 == IF k > Len(m) THEN Append(m, w) ELSE [m EXCEPT ![k] = w] IN
         /\ m2 \in Seq(Range(m2)) /\ k <= Len(m2)
         /\ SubSeq(m2, 1, k) = Append(SubSeq(m, 1, k - 1), w)
<1> DEFINE m2 == IF k > Len(m) THEN Append(m, w) ELSE [m EXCEPT ![k] = w]
           R == S \cup {w}
<1>1. Len(m) \in Nat /\ m \in [1..Len(m) -> S] /\ m \in Seq(R)
  OBVIOUS
<1>2. m2 \in Seq(R) /\ k <= Len(m2) /\ m2[k] = w /\ \A i \in 1..k - 1 : m2[i] = m[i]
  <2>1. CASE k > Len(m)
    <3>1. k = Len(m) + 1 /\ m2 = Append(m, w)
      BY <1>1, <2>1
    <3> HIDE DEF m2
    <3> QED
      BY <1>1, <3>1
  <2>2. CASE ~(k > Len(m))
    <3>1. m2 = [m EXCEPT ![k] = w] /\ k \in 1..Len(m)
      BY <1>1, <2>2
    <3> HIDE DEF m2
    <3>2. m2 \in [1..Len(m) -> R] /\ m2[k] = w /\ \A i \in 1..k - 1 : m2[i] = m[i]
      BY <1>1, <3>1
    <3>3. m2 \in Seq(R) /\ Len(m2) = Len(m)
      BY <1>1, <3>2
    <3> QED
      BY <1>1, <3>1, <3>2, <3>3
  <2> QED
    BY <2>1, <2>2
<1> HIDE DEF m2
<1>3. m2 \in Seq(Range(m2))
  BY <1>2, OwnElements
<1> DEFINE a == SubSeq(m2, 1, k)
           b == Append(SubSeq(m, 1, k - 1), w)
<1>4. a \in Seq(R) /\ Len(a) = k /\ \A i \in 1..k : a[i] = m2[i]
  <2>1. \A i \in 1..k : m2[i] \in R
    BY <1>2
  <2> QED
    BY <2>1, SubSeqProperties
<1>5. b \in Seq(R) /\ Len(b) = k /\ b[k] = w /\ \A i \in 1..k - 1 : b[i] = m[i]
  <2> DEFINE o == SubSeq(m, 1, k - 1)
  <2>1. o \in Seq(R) /\ Len(o) = k - 1 /\ \A i \in 1..k - 1 : o[i] = m[i]
    BY <1>1
  <2> HIDE DEF o
  <2>2. b = Append(o, w)
    BY DEF o
  <2> HIDE DEF b
  <2> QED
    BY <2>1, <2>2
<1> HIDE DEF a, b
<1>6. \A i \in 1..k : a[i] = b[i]
  <2> SUFFICES ASSUME NEW i \in 1..k PROVE a[i] = b[i]
    OBVIOUS
  <2>1. i = k \/ i \in 1..k - 1
    OBVIOUS
  <2> QED
    BY <1>2, <1>4, <1>5, <2>1
<1>7. a = b
  BY <1>4, <1>5, <1>6
<1> QED
  BY <1>2, <1>3, <1>7 DEF m2, a, b

\* The fields of a channel
LEMMA ChannelFields ==
  DOMAIN ChannelInit = {"class", "op", "reg", "n", "mask", "memory", "next", "linker", "insts",
                        "writes", "drawn"}
BY DEF ChannelInit

\* A channel whose fields other than op, reg, n, mask and class are those of another
LEMMA SameMemories ==
  ASSUME NEW c, ChannelOK(c), NEW e, DOMAIN e = DOMAIN c,
         e.memory = c.memory, e.next = c.next, e.linker = c.linker, e.insts = c.insts,
         e.drawn = c.drawn, e.writes = c.writes
  PROVE  ChannelOK(e) /\ Loaded(e) = Loaded(c) /\ \A q : Follows(q, c) => Follows(q, e)
BY DEF ChannelOK, Loaded, Follows

\* The 3D engine uploads a word when libwrap's array has room for it.
LEMMA UploadStep ==
  ASSUME NEW c, ChannelOK(c), NEW u \in Units, NEW w
  PROVE  LET e == Upload(c, u, w) s == Loaded(c) IN
         /\ ChannelOK(e) /\ DOMAIN e = DOMAIN c
         /\ e.class = c.class /\ e.op = c.op /\ e.reg = c.reg /\ e.n = c.n /\ e.mask = c.mask
         /\ e.drawn = c.drawn /\ e.writes = c.writes
         /\ Loaded(e) = IF Full(s, u) THEN s ELSE [s EXCEPT !.unit[u] = Append(@, w)]
<1> DEFINE k == c.next[u] + 1
           m == c.memory[u]
           fields == {"class", "op", "reg", "n", "mask", "memory", "next", "linker", "insts", "writes", "drawn"}
<1>1. DOMAIN c = fields
  BY ChannelFields DEF ChannelOK
<1>2. /\ Limit[u] \in Nat /\ c.next[u] \in 0..Limit[u] /\ c.next[u] <= Len(m) /\ Len(m) \in Nat
      /\ m \in Seq(Range(m)) /\ k \in Nat \ {0}
  BY LimitAssumption DEF ChannelOK
<1>3. Loaded(c).unit[u] = SubSeq(m, 1, k - 1) /\ Len(Loaded(c).unit[u]) = k - 1
  <2>1. Loaded(c).unit[u] = SubSeq(m, 1, c.next[u])
    BY DEF Loaded
  <2> QED
    BY <1>2, <2>1
<1>4. CASE k > Limit[u]
  BY <1>2, <1>3, <1>4 DEF Upload, Full
<1>5. CASE ~(k > Limit[u])
  <2> DEFINE m2 == IF k > Len(m) THEN Append(m, w) ELSE [m EXCEPT ![k] = w]
             e  == Upload(c, u, w)
  <2>1. e = [c EXCEPT !.next[u] = k, !.memory[u] = m2]
    BY <1>5 DEF Upload
  <2>2. /\ m2 \in Seq(Range(m2)) /\ Len(m2) \in Nat /\ k <= Len(m2)
        /\ SubSeq(m2, 1, k) = Append(SubSeq(m, 1, k - 1), w)
    <3> HIDE DEF m, k
    <3>1. k \in 1..Len(m) + 1
      BY <1>2 DEF k
    <3>2. m2 \in Seq(Range(m2)) /\ k <= Len(m2) /\ SubSeq(m2, 1, k) = Append(SubSeq(m, 1, k - 1), w)
      BY <1>2, <3>1, Instruction
    <3>3. \A t : t \in Seq(Range(t)) => Len(t) \in Nat
      BY LenProperties
    <3>4. Len(m2) \in Nat
      <4> HIDE DEF m2
      <4> QED
        BY <3>2, <3>3
    <3> QED
      BY ONLY <3>2, <3>4
  <2> HIDE DEF m2, k
  <2>3. /\ DOMAIN e = DOMAIN c
        /\ e.class = c.class /\ e.op = c.op /\ e.reg = c.reg /\ e.n = c.n /\ e.mask = c.mask
        /\ e.drawn = c.drawn /\ e.writes = c.writes /\ e.linker = c.linker /\ e.insts = c.insts
        /\ e.next = [c.next EXCEPT ![u] = k] /\ e.memory = [c.memory EXCEPT ![u] = m2]
    BY <1>1, <2>1
  <2> HIDE DEF e
  <2>4. ChannelOK(e)
    <3>1. DOMAIN c.memory = Units /\ DOMAIN c.next = Units
      BY DEF ChannelOK
    <3>2. DOMAIN e.memory = Units /\ DOMAIN e.next = Units /\ e.memory[u] = m2 /\ e.next[u] = k
      BY <2>3, <3>1
    <3>3. ASSUME NEW v \in Units
          PROVE  /\ e.memory[v] \in Seq(Range(e.memory[v]))
                 /\ e.next[v] \in 0..Limit[v] /\ e.next[v] <= Len(e.memory[v])
      <4>1. CASE v = u
        <5>1. k \in 0..Limit[u]
          BY <1>2, <1>5 DEF k
        <5> QED
          BY <2>2, <3>2, <4>1, <5>1
      <4>2. CASE v # u
        <5>1. e.memory[v] = c.memory[v] /\ e.next[v] = c.next[v]
          BY <2>3, <3>1, <4>2
        <5> QED
          BY <5>1 DEF ChannelOK
      <4> QED
        BY <4>1, <4>2
    <3>4. DOMAIN c = DOMAIN ChannelInit
      BY DEF ChannelOK
    <3> QED
      BY <2>3, <3>2, <3>3, <3>4 DEF ChannelOK
  <2>5. Loaded(e) = [Loaded(c) EXCEPT !.unit[u] = Append(@, w)]
    <3>1. DOMAIN c.memory = Units /\ DOMAIN c.next = Units
      BY DEF ChannelOK
    <3> DEFINE s == Loaded(c)
               x == Append(s.unit[u], w)
    <3>2. /\ s = [unit |-> s.unit, linker |-> c.linker, insts |-> c.insts]
          /\ s.unit = [v \in Units |-> SubSeq(c.memory[v], 1, c.next[v])]
      BY DEF Loaded
    <3>3. SubSeq(e.memory[u], 1, e.next[u]) = x
      BY <1>3, <2>2, <2>3, <3>1
    <3>4. \A v \in Units : v # u => SubSeq(e.memory[v], 1, e.next[v]) = SubSeq(c.memory[v], 1, c.next[v])
      BY <2>3, <3>1
    <3> HIDE DEF s, x
    <3>5. [v \in Units |-> SubSeq(e.memory[v], 1, e.next[v])] = [s.unit EXCEPT ![u] = x]
      BY <3>2, <3>3, <3>4
    <3>6. Loaded(e) = [unit |-> [s.unit EXCEPT ![u] = x], linker |-> c.linker, insts |-> c.insts]
      BY <2>3, <3>5 DEF Loaded
    <3>7. Loaded(e) = [s EXCEPT !.unit[u] = x]
      BY <3>2, <3>6
    <3> QED
      BY <3>7 DEF s, x
  <2>6. ~Full(Loaded(c), u)
    BY <1>2, <1>3, <1>5 DEF Full, k
  <2> QED
    BY <2>3, <2>4, <2>5, <2>6 DEF e
<1> QED
  BY <1>4, <1>5

Commands == {CULL_FACE_LINKER_SETUP, VP_UPLOAD_INST_ID, FP_UPLOAD_INST_ID_COMMON,
             DRAW_PRIMITIVES}

\* The registers the 3D engine does something about are not one another.
LEMMA Apart ==
  ASSUME NEW r
  PROVE  /\ r \in Units => r \notin Linker /\ r \notin Commands
         /\ r \in Linker => r \notin Commands
         /\ r \in Linker => (r \in LinkerKept \/ r = 831)
         /\ r \in LinkerKept => r \in Linker
         /\ r = CULL_FACE_LINKER_SETUP =>
              r \notin {VP_UPLOAD_INST_ID, FP_UPLOAD_INST_ID_COMMON, DRAW_PRIMITIVES}
         /\ r = VP_UPLOAD_INST_ID => r \notin {FP_UPLOAD_INST_ID_COMMON, DRAW_PRIMITIVES}
         /\ r = FP_UPLOAD_INST_ID_COMMON => r # DRAW_PRIMITIVES
BY DEF Commands, Units, VpUnits, FpUnits, Linker, LinkerKept, CULL_FACE_LINKER_SETUP, VP_UPLOAD_INST_ID,
       FP_UPLOAD_INST_ID_COMMON, DRAW_PRIMITIVES

\* The 3D engine starts with the first instruction of some memories again.
LEMMA RewindStep ==
  ASSUME NEW c, ChannelOK(c), NEW units
  PROVE  LET e == Rewind(c, units) IN
         /\ ChannelOK(e) /\ DOMAIN e = DOMAIN c
         /\ e.class = c.class /\ e.op = c.op /\ e.reg = c.reg /\ e.n = c.n /\ e.mask = c.mask
         /\ e.drawn = c.drawn /\ e.writes = c.writes
         /\ Loaded(e) = Reset(Loaded(c), units)
<1> DEFINE x == [u \in Units |-> IF u \in units THEN 0 ELSE c.next[u]]
           e == Rewind(c, units)
<1>1. DOMAIN c = {"class", "op", "reg", "n", "mask", "memory", "next", "linker", "insts", "writes", "drawn"}
  BY ChannelFields DEF ChannelOK
<1>2. e = [c EXCEPT !.next = x]
  BY DEF Rewind
<1>3. DOMAIN x = Units /\ \A u \in Units : x[u] = IF u \in units THEN 0 ELSE c.next[u]
  OBVIOUS
<1> HIDE DEF e, x
<1>4. /\ DOMAIN e = DOMAIN c
      /\ e.class = c.class /\ e.op = c.op /\ e.reg = c.reg /\ e.n = c.n /\ e.mask = c.mask
      /\ e.drawn = c.drawn /\ e.writes = c.writes /\ e.linker = c.linker /\ e.insts = c.insts
      /\ e.memory = c.memory /\ e.next = x
  BY <1>1, <1>2
<1>5. ChannelOK(e)
  <2>1. DOMAIN c.memory = Units /\ DOMAIN c = DOMAIN ChannelInit
    BY DEF ChannelOK
  <2>2. ASSUME NEW u \in Units
        PROVE  /\ c.memory[u] \in Seq(Range(c.memory[u]))
               /\ x[u] \in 0..Limit[u] /\ x[u] <= Len(c.memory[u])
    <3>1. c.memory[u] \in Seq(Range(c.memory[u])) /\ c.next[u] \in 0..Limit[u] /\ c.next[u] <= Len(c.memory[u])
      BY DEF ChannelOK
    <3>2. Len(c.memory[u]) \in Nat /\ Limit[u] \in Nat
      BY <3>1, LenProperties, LimitAssumption
    <3> QED
      BY <1>3, <3>1, <3>2
  <2> QED
    BY <1>3, <1>4, <2>1, <2>2 DEF ChannelOK
<1>6. Loaded(e) = Reset(Loaded(c), units)
  <2> DEFINE y == [u \in Units |-> SubSeq(c.memory[u], 1, x[u])]
             s == Loaded(c)
             z == [u \in Units |-> IF u \in units THEN <<>> ELSE s.unit[u]]
  <2>1. Loaded(e) = [unit |-> y, linker |-> c.linker, insts |-> c.insts]
    BY <1>4 DEF Loaded
  <2>2. /\ s = [unit |-> s.unit, linker |-> c.linker, insts |-> c.insts]
        /\ s.unit = [u \in Units |-> SubSeq(c.memory[u], 1, c.next[u])]
    BY DEF Loaded
  <2>3. \A u \in Units : SubSeq(c.memory[u], 1, x[u]) = IF u \in units THEN <<>> ELSE s.unit[u]
    <3>1. \A u \in Units : SubSeq(c.memory[u], 1, 0) = <<>>
      BY SubSeqEmpty
    <3> HIDE DEF s
    <3> QED
      BY <1>3, <2>2, <3>1
  <2>4. y = z
    BY <2>3
  <2> HIDE DEF y, s, z
  <2>5. [s EXCEPT !.unit = z] = [unit |-> z, linker |-> c.linker, insts |-> c.insts]
    BY <2>2
  <2>6. Reset(s, units) = [s EXCEPT !.unit = z]
    BY DEF Reset, z
  <2> QED
    BY <2>1, <2>4, <2>5, <2>6 DEF s
<1> QED
  BY <1>4, <1>5, <1>6 DEF e

\* What the 3D engine keeps of a register write is what libwrap keeps.
LEMMA EngineStep ==
  ASSUME NEW c, ChannelOK(c), NEW r, r # 831, NEW w
  PROVE  LET e == Engine(c, r, w) IN
         /\ ChannelOK(e)
         /\ e.class = c.class /\ e.op = c.op /\ e.reg = c.reg /\ e.n = c.n /\ e.mask = c.mask
         /\ e.writes = c.writes
         /\ e.drawn = IF r = DRAW_PRIMITIVES THEN Append(c.drawn, Loaded(c)) ELSE c.drawn
         /\ Loaded(e) = Keep(Loaded(c), r, w)
<1> DEFINE e == Engine(c, r, w)
           s == Loaded(c)
<1>0. DOMAIN c = {"class", "op", "reg", "n", "mask", "memory", "next", "linker", "insts", "writes", "drawn"}
  BY ChannelFields DEF ChannelOK
<1>1. CASE r \in Units
  <2>1. e = Upload(c, r, w) /\ r # DRAW_PRIMITIVES
    BY <1>1, Apart DEF Engine, Commands
  <2>2. Keep(s, r, w) = IF Full(s, r) THEN s ELSE [s EXCEPT !.unit[r] = Append(@, w)]
    BY <1>1, Apart DEF Keep, Commands
  <2> QED
    BY <1>1, <2>1, <2>2, UploadStep
<1>2. CASE r \in Linker
  <2> DEFINE x == (r :> w) @@ c.linker
  <2>1. e = [c EXCEPT !.linker = x] /\ r # DRAW_PRIMITIVES
    BY <1>2, Apart DEF Engine, Commands
  <2>2. Keep(s, r, w) = [s EXCEPT !.linker = (r :> w) @@ s.linker]
    BY <1>2, Apart DEF Keep, Commands
  <2>3. s.linker = c.linker
    BY DEF Loaded
  <2>4. Keep(s, r, w) = [s EXCEPT !.linker = x]
    BY <2>2, <2>3
  <2> HIDE DEF x, e
  <2>5. /\ DOMAIN e = DOMAIN c
        /\ e.class = c.class /\ e.op = c.op /\ e.reg = c.reg /\ e.n = c.n /\ e.mask = c.mask
        /\ e.drawn = c.drawn /\ e.writes = c.writes /\ e.linker = x /\ e.insts = c.insts
        /\ e.memory = c.memory /\ e.next = c.next
    BY <1>0, <2>1
  <2>6. ChannelOK(e)
    BY <2>5 DEF ChannelOK
  <2>7. Loaded(e) = [s EXCEPT !.linker = x]
    <3>1. s = [unit |-> s.unit, linker |-> c.linker, insts |-> c.insts]
      BY DEF Loaded
    <3>2. Loaded(e) = [unit |-> s.unit, linker |-> x, insts |-> c.insts]
      BY <2>5 DEF Loaded
    <3> HIDE DEF s
    <3> QED
      BY <3>1, <3>2
  <2> QED
    BY <2>1, <2>4, <2>5, <2>6, <2>7 DEF e
<1>3. CASE r = CULL_FACE_LINKER_SETUP
  <2> DEFINE x == w.n + 1
  <2>1. e = [c EXCEPT !.insts = x] /\ r # DRAW_PRIMITIVES
    BY <1>3, Apart DEF Engine, Commands
  <2>2. Keep(s, r, w) = [s EXCEPT !.insts = x]
    BY <1>3, Apart DEF Keep, Commands
  <2> HIDE DEF x, e
  <2>5. /\ DOMAIN e = DOMAIN c
        /\ e.class = c.class /\ e.op = c.op /\ e.reg = c.reg /\ e.n = c.n /\ e.mask = c.mask
        /\ e.drawn = c.drawn /\ e.writes = c.writes /\ e.linker = c.linker /\ e.insts = x
        /\ e.memory = c.memory /\ e.next = c.next
    BY <1>0, <2>1
  <2>6. ChannelOK(e)
    BY <2>5 DEF ChannelOK
  <2>7. Loaded(e) = [s EXCEPT !.insts = x]
    <3>1. s = [unit |-> s.unit, linker |-> c.linker, insts |-> c.insts]
      BY DEF Loaded
    <3>2. Loaded(e) = [unit |-> s.unit, linker |-> c.linker, insts |-> x]
      BY <2>5 DEF Loaded
    <3> HIDE DEF s
    <3> QED
      BY <3>1, <3>2
  <2> QED
    BY <2>1, <2>2, <2>5, <2>6, <2>7 DEF e
<1>4. CASE r = VP_UPLOAD_INST_ID
  <2>1. e = Rewind(c, VpUnits) /\ r # DRAW_PRIMITIVES /\ Keep(s, r, w) = Reset(s, VpUnits)
    BY <1>4, Apart DEF Engine, Keep
  <2> QED
    BY <2>1, RewindStep
<1>5. CASE r = FP_UPLOAD_INST_ID_COMMON
  <2>1. e = Rewind(c, FpUnits) /\ r # DRAW_PRIMITIVES /\ Keep(s, r, w) = Reset(s, FpUnits)
    BY <1>5, Apart DEF Engine, Keep, FpReset
  <2> QED
    BY <2>1, RewindStep
<1>6. CASE r = DRAW_PRIMITIVES
  <2> DEFINE x == Append(c.drawn, s)
  <2>1. e = [c EXCEPT !.drawn = x]
    BY <1>6, Apart DEF Engine, Commands
  <2>2. Keep(s, r, w) = s
    BY <1>6, Apart DEF Keep, Commands
  <2> HIDE DEF x, e
  <2>5. /\ DOMAIN e = DOMAIN c
        /\ e.class = c.class /\ e.op = c.op /\ e.reg = c.reg /\ e.n = c.n /\ e.mask = c.mask
        /\ e.drawn = x /\ e.writes = c.writes /\ e.linker = c.linker /\ e.insts = c.insts
        /\ e.memory = c.memory /\ e.next = c.next
    BY <1>0, <2>1
  <2>6. ChannelOK(e)
    BY <2>5 DEF ChannelOK
  <2>7. Loaded(e) = s
    BY <2>5 DEF Loaded
  <2> QED
    BY <1>6, <2>1, <2>2, <2>5, <2>6, <2>7 DEF e, x
<1>7. CASE r \notin Units \cup Linker \cup Commands
  <2>0. /\ r \notin Units /\ r \notin Linker /\ r \notin LinkerKept /\ r # CULL_FACE_LINKER_SETUP
        /\ r # VP_UPLOAD_INST_ID /\ r # FP_UPLOAD_INST_ID_COMMON /\ r # DRAW_PRIMITIVES
    BY <1>7, Apart DEF Commands
  <2>1. e = c
    BY <2>0 DEF Engine
  <2>2. Keep(s, r, w) = s
    <3> HIDE DEF s
    <3> QED
      BY <2>0, Zenon DEF Keep
  <2> QED
    BY <1>7, <2>1, <2>2 DEF Commands
<1> QED
  BY <1>1, <1>2, <1>3, <1>4, <1>5, <1>6, <1>7 DEF Commands

\* libwrap still has what the channel has, when both have made a register write.
LEMMA WriteStep ==
  ASSUME NEW c, NEW q, ChannelOK(c), Follows(q, c), NEW r, r # 831, NEW w
  PROVE  LET e == RegWrite(c, r, w) IN
         /\ ChannelOK(e) /\ Follows(cdma_register_write(q, <<c.class, r, w>>), e)
         /\ e.class = c.class /\ e.op = c.op /\ e.reg = c.reg /\ e.n = c.n /\ e.mask = c.mask
<1> DEFINE x == <<c.class, r, w>>
           y == Append(c.writes, x)
           b == [c EXCEPT !.writes = y]
           e == RegWrite(c, r, w)
           s == Loaded(c)
<1>0. DOMAIN c = {"class", "op", "reg", "n", "mask", "memory", "next", "linker", "insts", "writes", "drawn"}
  BY ChannelFields DEF ChannelOK
<1>1. /\ DOMAIN b = DOMAIN c
      /\ b.class = c.class /\ b.op = c.op /\ b.reg = c.reg /\ b.n = c.n /\ b.mask = c.mask
      /\ b.drawn = c.drawn /\ b.writes = y /\ b.linker = c.linker /\ b.insts = c.insts
      /\ b.memory = c.memory /\ b.next = c.next
  <2> HIDE DEF y
  <2> QED
    BY <1>0
<1>2. e = IF c.class = GR3D THEN Engine(b, r, w) ELSE b
  BY DEF RegWrite
<1>3. q = [kept |-> s, shown |-> c.drawn, writes |-> c.writes]
  BY DEF Follows
<1>4. x[1] = c.class /\ x[2] = r /\ x[3] = w
  OBVIOUS
<1> HIDE DEF b, x, s, e
<1>5. ChannelOK(b) /\ Loaded(b) = s
  BY <1>1 DEF ChannelOK, Loaded, s
<1>6. CASE c.class = GR3D
  <2> DEFINE z == IF r = DRAW_PRIMITIVES THEN Append(c.drawn, s) ELSE c.drawn
             k == Keep(s, r, w)
  <2>1. /\ ChannelOK(e) /\ e.class = c.class /\ e.op = c.op /\ e.reg = c.reg /\ e.n = c.n /\ e.mask = c.mask
        /\ e.writes = y /\ e.drawn = z /\ Loaded(e) = k
    <3>1. e = Engine(b, r, w)
      BY <1>2, <1>6
    <3> HIDE DEF y
    <3> QED
      BY <1>1, <1>5, <3>1, EngineStep
  <2>2. disasm_write_reg(q, x) = [kept |-> k, shown |-> z, writes |-> c.writes]
    <3>1. q.kept = s /\ q.shown = c.drawn
      BY <1>3
    <3>2. disasm_write_reg(q, x) =
            [q EXCEPT !.kept = Keep(q.kept, r, w),
                      !.shown = IF r = DRAW_PRIMITIVES THEN Append(q.shown, q.kept) ELSE q.shown]
      BY <1>4, <1>6 DEF disasm_write_reg
    <3>3. disasm_write_reg(q, x) = [q EXCEPT !.kept = k, !.shown = z]
      BY <3>1, <3>2
    <3> HIDE DEF k, z
    <3> QED
      BY <1>3, <3>3
  <2>3. cdma_register_write(q, x) = [kept |-> k, shown |-> z, writes |-> y]
    <3> DEFINE g == disasm_write_reg(q, x)
    <3>1. cdma_register_write(q, x) = [g EXCEPT !.writes = Append(g.writes, x)]
      BY DEF cdma_register_write
    <3>2. g = [kept |-> k, shown |-> z, writes |-> c.writes]
      BY <2>2
    <3> HIDE DEF g, k, z
    <3>3. [g EXCEPT !.writes = Append(g.writes, x)] = [kept |-> k, shown |-> z, writes |-> Append(c.writes, x)]
      BY ONLY <3>2
    <3> QED
      BY ONLY <3>1, <3>3
  <2> HIDE DEF k, z, y
  <2>4. Follows(cdma_register_write(q, x), e)
    BY <2>1, <2>3 DEF Follows
  <2> QED
    BY <2>1, <2>4 DEF x, e
<1>7. CASE c.class # GR3D
  <2>1. e = b
    BY <1>2, <1>7
  <2>2. cdma_register_write(q, x) = [q EXCEPT !.writes = Append(q.writes, x)]
    BY <1>4, <1>7 DEF cdma_register_write, disasm_write_reg
  <2>3. cdma_register_write(q, x) = [kept |-> s, shown |-> c.drawn, writes |-> y]
    BY <1>3, <2>2
  <2> HIDE DEF y
  <2>4. Follows(cdma_register_write(q, x), e)
    BY <1>1, <1>5, <2>1, <2>3 DEF Follows
  <2> QED
    BY <1>1, <1>5, <2>1, <2>4 DEF x, e
<1> QED
  BY <1>6, <1>7

-----------------------------------------------------------------------------
(* An opcode and its words *)

\* The registers of an opcode are those the channel will write.
LEMMA RegistersOf ==
  ASSUME NEW o, OpcodeOf(o)
  PROVE  LET rs == Registers(o) n == Len(rs) IN
         /\ n \in Nat /\ DOMAIN rs = 1..n /\ Data(o) = IF o.op = "IMM" THEN 0 ELSE n
         /\ o.op \in {"SETCL", "MASK"} =>
               n = Cardinality(o.mask) /\ \A i \in 1..n : rs[i] = o.reg + InOrder(o.mask)[i]
         /\ o.op = "INCR" => n = o.n /\ \A i \in 1..n : rs[i] = o.reg + i - 1
         /\ o.op = "NONINCR" => n = o.n /\ \A i \in 1..n : rs[i] = o.reg
         /\ o.op = "IMM" => n = 1 /\ rs[1] = o.reg
         /\ o.op \in {"RESTART", "EXTEND", "CHDONE"} => n = 0
<1> DEFINE rs == Registers(o)
<1>0. /\ o.op \in {"SETCL", "MASK", "INCR", "NONINCR", "IMM", "RESTART", "EXTEND", "CHDONE"}
      /\ o.reg \in Nat /\ o.n \in Nat /\ o.mask \in SUBSET (0..15)
  BY DEF OpcodeOf
<1>1. \A n \in Nat : \A g : DOMAIN g = 1..n => Len(g) = n
  OBVIOUS
<1>2. CASE o.op \in {"SETCL", "MASK"}
  <2> DEFINE b == InOrder(o.mask)
             m == Cardinality(o.mask)
  <2>1. m \in Nat /\ b \in [1..m -> o.mask]
    BY <1>0, Ordered
  <2>2. rs = [i \in DOMAIN b |-> o.reg + b[i]]
    BY <1>2 DEF Registers, Masked
  <2> HIDE DEF b, m, rs
  <2>3. DOMAIN rs = 1..m /\ \A i \in 1..m : rs[i] = o.reg + b[i]
    BY <2>1, <2>2
  <2>4. Len(rs) = m
    BY <1>1, <2>1, <2>3
  <2> QED
    BY <1>2, <2>1, <2>3, <2>4 DEF Data, rs, b, m
<1>3. CASE o.op = "INCR"
  <2>1. rs = [i \in 1..o.n |-> o.reg + i - 1]
    BY <1>3 DEF Registers
  <2> HIDE DEF rs
  <2>2. DOMAIN rs = 1..o.n /\ Len(rs) = o.n
    BY <1>0, <1>1, <2>1
  <2> QED
    BY <1>0, <1>3, <2>1, <2>2 DEF Data, rs
<1>4. CASE o.op = "NONINCR"
  <2>1. rs = [i \in 1..o.n |-> o.reg]
    BY <1>4 DEF Registers
  <2> HIDE DEF rs
  <2>2. DOMAIN rs = 1..o.n /\ Len(rs) = o.n
    BY <1>0, <1>1, <2>1
  <2> QED
    BY <1>0, <1>4, <2>1, <2>2 DEF Data, rs
<1>5. CASE o.op = "IMM"
  <2>1. rs = <<o.reg>>
    BY <1>5 DEF Registers
  <2> HIDE DEF rs
  <2> QED
    BY <1>5, <2>1 DEF Data, rs
<1>6. CASE o.op \in {"RESTART", "EXTEND", "CHDONE"}
  <2>1. rs = <<>>
    BY <1>6 DEF Registers
  <2> HIDE DEF rs
  <2> QED
    BY <1>6, <2>1 DEF Data, rs
<1> QED
  BY <1>0, <1>2, <1>3, <1>4, <1>5, <1>6

\* What the channel expects when k of the words of o have come
Expects(c, o, k) ==
    LET rs == Registers(o) IN
    CASE o.op \in {"SETCL", "MASK"} ->
             /\ c.op = "mask" /\ c.reg = o.reg
             /\ c.mask = {InOrder(o.mask)[i] : i \in k + 1..Len(rs)}
      [] o.op = "INCR" -> c.op = "INCR" /\ c.reg = o.reg + k /\ c.n = o.n - k
      [] o.op = "NONINCR" -> c.op = "NONINCR" /\ c.reg = o.reg /\ c.n = o.n - k
      [] OTHER -> FALSE

Carries(o) == o.op \in {"SETCL", "MASK", "INCR", "NONINCR"}

\* The channel expects no more when all have come.
LEMMA AllCame ==
  ASSUME NEW o, OpcodeOf(o), Carries(o), NEW c, Expects(c, o, Len(Registers(o)))
  PROVE  ~Pending(c)
<1> DEFINE n == Len(Registers(o))
<1>1. n \in Nat /\ (o.op \in {"INCR", "NONINCR"} => n = o.n) /\ n + 1..n = {}
  <2>1. n \in Nat /\ (o.op \in {"INCR", "NONINCR"} => n = o.n)
    BY RegistersOf
  <2> HIDE DEF n
  <2> QED
    BY <2>1
<1>2. Expects(c, o, n)
  OBVIOUS
<1>3. CASE o.op \in {"SETCL", "MASK"}
  <2>1. c.op = "mask" /\ c.mask = {InOrder(o.mask)[i] : i \in n + 1..n}
    BY <1>2, <1>3 DEF Expects
  <2> HIDE DEF n
  <2> QED
    BY <1>1, <2>1 DEF Pending
<1>4. CASE o.op = "INCR"
  <2>1. c.op = "INCR" /\ c.n = o.n - n
    BY <1>2, <1>4 DEF Expects
  <2> HIDE DEF n
  <2> QED
    BY <1>1, <1>4, <2>1 DEF Pending
<1>5. CASE o.op = "NONINCR"
  <2>1. c.op = "NONINCR" /\ c.n = o.n - n
    BY <1>2, <1>5 DEF Expects
  <2> HIDE DEF n
  <2> QED
    BY <1>1, <1>5, <2>1 DEF Pending
<1> QED
  BY <1>3, <1>4, <1>5 DEF Carries

\* One of the words comes.
LEMMA DataStep ==
  ASSUME NEW o, OpcodeOf(o), Carries(o), NEW k \in 0..Len(Registers(o)) - 1,
         NEW c, ChannelOK(c), Expects(c, o, k), NEW q, Follows(q, c), NEW w
  PROVE  LET e == Word(c, w) IN
         /\ ChannelOK(e) /\ Expects(e, o, k + 1) /\ e.class = c.class
         /\ Follows(cdma_register_write(q, <<c.class, Registers(o)[k + 1], w>>), e)
<1> DEFINE rs == Registers(o)
           n == Len(rs)
           r == rs[k + 1]
           e == Word(c, w)
<1>0. DOMAIN c = {"class", "op", "reg", "n", "mask", "memory", "next", "linker", "insts", "writes", "drawn"}
  BY ChannelFields DEF ChannelOK
<1>1. /\ n \in Nat /\ DOMAIN rs = 1..n /\ k \in 0..n - 1 /\ k + 1 \in 1..n /\ k \in Nat
      /\ o.reg \in Nat /\ o.n \in Nat /\ o.mask \in SUBSET (0..15)
  <2>1. n \in Nat /\ DOMAIN rs = 1..n /\ k \in 0..n - 1
    BY RegistersOf
  <2>2. o.reg \in Nat /\ o.n \in Nat /\ o.mask \in SUBSET (0..15)
    BY DEF OpcodeOf
  <2> HIDE DEF n, rs
  <2> QED
    BY <2>1, <2>2
<1>2. r # 831
  BY <1>1 DEF OpcodeOf
<1>3. ASSUME NEW b, DOMAIN b = DOMAIN c, b.memory = c.memory, b.next = c.next, b.linker = c.linker,
             b.insts = c.insts, b.drawn = c.drawn, b.writes = c.writes, b.class = c.class,
             e = RegWrite(b, r, w), Expects(b, o, k + 1)
      PROVE  /\ ChannelOK(e) /\ Expects(e, o, k + 1) /\ e.class = c.class
             /\ Follows(cdma_register_write(q, <<c.class, r, w>>), e)
  <2>1. ChannelOK(b) /\ Follows(q, b)
    BY <1>3, SameMemories
  <2> HIDE DEF r, e
  <2>2. /\ ChannelOK(e) /\ Follows(cdma_register_write(q, <<b.class, r, w>>), e)
        /\ e.class = b.class /\ e.op = b.op /\ e.reg = b.reg /\ e.n = b.n /\ e.mask = b.mask
    BY <1>2, <1>3, <2>1, WriteStep
  <2>3. Expects(e, o, k + 1)
    BY <1>3, <2>2 DEF Expects
  <2> QED
    BY <1>3, <2>2, <2>3
<1>4. CASE o.op \in {"SETCL", "MASK"}
  <2> DEFINE s == InOrder(o.mask)
             i == CHOOSE i \in c.mask : \A x \in c.mask : i <= x
             b == [c EXCEPT !.mask = @ \ {i}]
  <2>1. n = Cardinality(o.mask) /\ r = o.reg + s[k + 1]
    <3>1. n = Cardinality(o.mask) /\ \A x \in 1..n : rs[x] = o.reg + s[x]
      BY <1>4, RegistersOf
    <3> HIDE DEF n, rs, s
    <3> QED
      BY <1>1, <3>1
  <2>2. s \in [1..n -> o.mask] /\ \A x, y \in 1..n : x < y => s[x] < s[y]
    BY <1>1, <2>1, Ordered
  <2>3. c.op = "mask" /\ c.reg = o.reg /\ c.mask = {s[x] : x \in k + 1..n}
    BY <1>4 DEF Expects
  <2> HIDE DEF s, n, rs
  <2>11. \A x \in 1..n : s[x] \in Nat
    <3>1. \A x \in 1..n : s[x] \in o.mask
      BY <2>2
    <3>2. \A z \in o.mask : z \in Nat
      BY <1>1
    <3> QED
      BY <3>1, <3>2
  <2>4. s[k + 1] \in c.mask /\ \A x \in c.mask : s[k + 1] <= x
    <3>1. ASSUME NEW x \in k + 1..n
          PROVE  s[k + 1] <= s[x]
      <4>1. x \in 1..n /\ (x = k + 1 \/ k + 1 < x)
        BY <1>1
      <4>2. s[x] \in Nat /\ s[k + 1] \in Nat
        BY <1>1, <2>11, <4>1
      <4> QED
        BY <1>1, <2>2, <4>1, <4>2
    <3> QED
      BY <1>1, <2>3, <3>1
  <2>5. i = s[k + 1]
    <3>1. \A x \in c.mask : x \in Nat
      <4>1. \A x \in k + 1..n : x \in 1..n
        BY <1>1
      <4> QED
        BY <2>3, <2>11, <4>1
    <3>2. i \in c.mask /\ \A x \in c.mask : i <= x
      BY <2>4
    <3> HIDE DEF i
    <3> QED
      BY <2>4, <3>1, <3>2
  <2>6. c.mask \ {i} = {s[x] : x \in (k + 1) + 1..n}
    <3>1. ASSUME NEW x \in (k + 1) + 1..n
          PROVE  s[x] # s[k + 1] /\ x \in k + 1..n
      <4>1. x \in 1..n /\ k + 1 < x /\ x \in k + 1..n
        BY <1>1
      <4>2. s[x] \in Nat /\ s[k + 1] \in Nat
        BY <1>1, <2>11, <4>1
      <4> QED
        BY <1>1, <2>2, <4>1, <4>2
    <3>2. \A x \in k + 1..n : x = k + 1 \/ x \in (k + 1) + 1..n
      BY <1>1
    <3> HIDE DEF i
    <3> QED
      BY <2>3, <2>5, <3>1, <3>2
  <2>7. Pending(c) /\ e = RegWrite(b, c.reg + i, w)
    <3>1. Pending(c)
      BY <2>3, <2>4 DEF Pending
    <3> QED
      BY <2>3, <3>1 DEF Word, Datum
  <2>8. /\ DOMAIN b = DOMAIN c /\ b.memory = c.memory /\ b.next = c.next /\ b.linker = c.linker
        /\ b.insts = c.insts /\ b.drawn = c.drawn /\ b.writes = c.writes /\ b.class = c.class
        /\ b.op = c.op /\ b.reg = c.reg /\ b.mask = c.mask \ {i}
    <3> HIDE DEF i
    <3> QED
      BY <1>0
  <2> HIDE DEF b, i, e, r
  <2>9. e = RegWrite(b, r, w)
    BY <2>1, <2>3, <2>5, <2>7
  <2>10. Expects(b, o, k + 1)
    <3>1. b.op = "mask" /\ b.reg = o.reg /\ b.mask = {s[x] : x \in (k + 1) + 1..n}
      BY <2>3, <2>6, <2>8
    <3> QED
      BY <1>4, <3>1 DEF Expects, s, n, rs
  <2> QED
    BY <1>3, <2>8, <2>9, <2>10 DEF e, r, rs
<1>5. CASE o.op \in {"INCR", "NONINCR"}
  <2> DEFINE inc == IF o.op = "INCR" THEN 1 ELSE 0
             x == c.n - 1
             y == c.reg + inc
             b == [c EXCEPT !.n = x, !.reg = y]
  <2>1. /\ c.op = o.op /\ c.n = o.n - k /\ c.reg = o.reg + (IF o.op = "INCR" THEN k ELSE 0)
        /\ n = o.n
    <3>1. c.op = o.op /\ c.n = o.n - k /\ c.reg = IF o.op = "INCR" THEN o.reg + k ELSE o.reg
      BY <1>5 DEF Expects
    <3>2. n = o.n
      BY <1>5, RegistersOf
    <3> HIDE DEF n
    <3> QED
      BY <1>1, <3>1, <3>2
  <2>2. r = c.reg
    <3>1. CASE o.op = "INCR"
      <4>1. \A z \in 1..n : rs[z] = o.reg + z - 1
        BY <3>1, RegistersOf
      <4> HIDE DEF n, rs
      <4> QED
        BY <1>1, <2>1, <3>1, <4>1
    <3>2. CASE o.op = "NONINCR"
      <4>1. \A z \in 1..n : rs[z] = o.reg
        BY <3>2, RegistersOf
      <4> HIDE DEF n, rs
      <4> QED
        BY <1>1, <2>1, <3>2, <4>1
    <3> QED
      BY <1>5, <3>1, <3>2
  <2> HIDE DEF n, rs
  <2>3. Pending(c)
    BY <1>1, <1>5, <2>1 DEF Pending
  <2>4. e = RegWrite(b, c.reg, w)
    BY <1>5, <2>1, <2>3 DEF Word, Datum
  <2>5. x = o.n - (k + 1) /\ y = IF o.op = "INCR" THEN o.reg + (k + 1) ELSE o.reg
    BY <1>1, <1>5, <2>1
  <2> HIDE DEF x, y
  <2>6. /\ DOMAIN b = DOMAIN c /\ b.memory = c.memory /\ b.next = c.next /\ b.linker = c.linker
        /\ b.insts = c.insts /\ b.drawn = c.drawn /\ b.writes = c.writes /\ b.class = c.class
        /\ b.op = c.op /\ b.reg = y /\ b.n = x
    BY <1>0
  <2> HIDE DEF b, e, r
  <2>7. Expects(b, o, k + 1)
    BY <1>5, <2>1, <2>5, <2>6 DEF Expects
  <2> QED
    BY <1>3, <2>2, <2>4, <2>6, <2>7 DEF e, r, rs
<1> QED
  BY <1>4, <1>5 DEF Carries

\* The class after an opcode, and what its handler reports
ClassAfter(c, o) == IF o.op = "SETCL" THEN o.class ELSE c.class
Reported(o, class, vs) == [i \in DOMAIN Registers(o) |-> <<class, Registers(o)[i], vs[i]>>]

\* The opcode comes.
LEMMA DecodeStep ==
  ASSUME NEW o, OpcodeOf(o), Carries(o), NEW c, ChannelOK(c), ~Pending(c), NEW q, Follows(q, c)
  PROVE  LET e == Word(c, o) IN
         ChannelOK(e) /\ Expects(e, o, 0) /\ e.class = ClassAfter(c, o) /\ Follows(q, e)
<1> DEFINE e == Word(c, o)
           rs == Registers(o)
           n == Len(rs)
<1>0. /\ DOMAIN c = {"class", "op", "reg", "n", "mask", "memory", "next", "linker", "insts", "writes", "drawn"}
      /\ o.reg \in Nat /\ o.n \in Nat /\ o.mask \in SUBSET (0..15)
  BY ChannelFields DEF ChannelOK, OpcodeOf
<1>1. e = Decode(c, o)
  BY DEF Word
<1>2. CASE o.op \in {"SETCL", "MASK"}
  <2> DEFINE class == ClassAfter(c, o)
  <2>1. n \in Nat /\ n = Cardinality(o.mask)
    BY <1>2, RegistersOf
  <2>2. o.mask = {InOrder(o.mask)[i] : i \in 0 + 1..n}
    <3> DEFINE s == InOrder(o.mask)
    <3>1. s \in [1..n -> o.mask] /\ Range(s) = o.mask
      BY <1>0, <2>1, Ordered
    <3> HIDE DEF s, n
    <3>2. DOMAIN s = 1..n /\ 0 + 1 = 1
      BY <3>1
    <3> QED
      BY <3>1, <3>2 DEF Range, s
  <2>3. e.op = "mask" /\ e.reg = o.reg /\ e.mask = o.mask /\ e.class = class
    <3>1. CASE o.op = "SETCL"
      <4>1. e = [c EXCEPT !.class = o.class, !.op = "mask", !.reg = o.reg, !.mask = o.mask]
        BY <1>1, <3>1 DEF Decode
      <4>2. class = o.class
        BY <3>1 DEF ClassAfter
      <4> HIDE DEF e, class
      <4> QED
        BY <1>0, <4>1, <4>2
    <3>2. CASE o.op = "MASK"
      <4>1. e = [c EXCEPT !.op = "mask", !.reg = o.reg, !.mask = o.mask]
        BY <1>1, <3>2 DEF Decode
      <4>2. class = c.class
        BY <3>2 DEF ClassAfter
      <4> HIDE DEF e, class
      <4> QED
        BY <1>0, <4>1, <4>2
    <3> QED
      BY <1>2, <3>1, <3>2
  <2>4. /\ DOMAIN e = DOMAIN c /\ e.memory = c.memory /\ e.next = c.next /\ e.linker = c.linker
        /\ e.insts = c.insts /\ e.drawn = c.drawn /\ e.writes = c.writes
    <3>1. CASE o.op = "SETCL"
      <4>1. e = [c EXCEPT !.class = o.class, !.op = "mask", !.reg = o.reg, !.mask = o.mask]
        BY <1>1, <3>1 DEF Decode
      <4> HIDE DEF e
      <4> QED
        BY <1>0, <4>1
    <3>2. CASE o.op = "MASK"
      <4>1. e = [c EXCEPT !.op = "mask", !.reg = o.reg, !.mask = o.mask]
        BY <1>1, <3>2 DEF Decode
      <4> HIDE DEF e
      <4> QED
        BY <1>0, <4>1
    <3> QED
      BY <1>2, <3>1, <3>2
  <2> HIDE DEF e
  <2>5. ChannelOK(e) /\ Follows(q, e)
    BY <2>4, SameMemories
  <2>6. Expects(e, o, 0)
    BY <1>2, <2>2, <2>3 DEF Expects
  <2> QED
    BY <2>3, <2>5, <2>6 DEF e
<1>3. CASE o.op \in {"INCR", "NONINCR"}
  <2>1. e = [c EXCEPT !.op = o.op, !.reg = o.reg, !.n = o.n]
    BY <1>1, <1>3 DEF Decode
  <2> HIDE DEF e
  <2>2. e.op = o.op /\ e.reg = o.reg /\ e.n = o.n /\ e.class = c.class
    BY <1>0, <2>1
  <2>3. /\ DOMAIN e = DOMAIN c /\ e.memory = c.memory /\ e.next = c.next /\ e.linker = c.linker
        /\ e.insts = c.insts /\ e.drawn = c.drawn /\ e.writes = c.writes
    BY <1>0, <2>1
  <2>4. ChannelOK(e) /\ Follows(q, e)
    BY <2>3, SameMemories
  <2>5. Expects(e, o, 0)
    <3>1. o.reg + 0 = o.reg /\ o.n - 0 = o.n
      BY <1>0
    <3> QED
      BY <1>3, <2>2, <3>1 DEF Expects
  <2>6. ClassAfter(c, o) = c.class
    BY <1>3 DEF ClassAfter
  <2> QED
    BY <2>2, <2>4, <2>5, <2>6 DEF e
<1> QED
  BY <1>2, <1>3 DEF Carries

\* The channel goes through the states st with o and its words, which are the values vs.
Runs(c, o, vs, st) ==
    /\ st[0] = c /\ st[1] = Word(c, o)
    /\ \A k \in 1..Data(o) : st[k + 1] = Word(st[k], vs[k])
    /\ o.op = "IMM" => vs[1] = Value(o.n)

\* Once the channel has executed an opcode and its words it expects no more, and
\* libwrap has what the channel has when the handler has reported the registers.
LEMMA OpcodeRun ==
  ASSUME NEW o, OpcodeOf(o), NEW c, ChannelOK(c), ~Pending(c), NEW q, Follows(q, c),
         NEW vs, NEW st, Runs(c, o, vs, st)
  PROVE  LET xs == Reported(o, ClassAfter(c, o), vs)
             e  == st[1 + Data(o)]
         IN /\ ChannelOK(e) /\ ~Pending(e) /\ e.class = ClassAfter(c, o)
            /\ Follows(Reports(q, xs)[Len(Registers(o))], e)
<1> DEFINE rs == Registers(o)
           n == Len(rs)
           cls == ClassAfter(c, o)
           xs == Reported(o, cls, vs)
           rep == Reports(q, xs)
<1>0. /\ st[0] = c /\ st[1] = Word(c, o)
      /\ \A k \in 1..Data(o) : st[k + 1] = Word(st[k], vs[k])
      /\ o.op = "IMM" => vs[1] = Value(o.n)
  BY DEF Runs
<1>1. n \in Nat /\ DOMAIN rs = 1..n
  BY RegistersOf
<1>2. Len(xs) = n /\ \A i \in 1..n : xs[i] = <<cls, rs[i], vs[i]>>
  <2>1. xs = [i \in 1..n |-> <<cls, rs[i], vs[i]>>]
    BY <1>1 DEF Reported
  <2> HIDE DEF n, xs, rs, cls
  <2> QED
    BY <1>1, <2>1
<1>3. rep[0] = q /\ \A k \in 0..n - 1 : rep[k + 1] = cdma_register_write(rep[k], xs[k + 1])
  <2> HIDE DEF n, xs
  <2> QED
    BY <1>1, <1>2, ReportsOf
<1>4. CASE Carries(o)
  <2> DEFINE T == {k \in Nat : k <= n => /\ ChannelOK(st[k + 1]) /\ Expects(st[k + 1], o, k)
                                         /\ st[k + 1].class = cls /\ Follows(rep[k], st[k + 1])}
  <2>0. Data(o) = n
    BY <1>4, RegistersOf DEF Carries
  <2>1. 0 \in T
    <3>1. ChannelOK(st[1]) /\ Expects(st[1], o, 0) /\ st[1].class = cls /\ Follows(q, st[1])
      BY <1>0, <1>4, DecodeStep
    <3>2. 0 + 1 = 1
      OBVIOUS
    <3> QED
      BY <1>3, <3>1, <3>2
  <2>2. ASSUME NEW k \in 0..n - 1, k \in T
        PROVE  k + 1 \in T
    <3> DEFINE b == st[k + 1]
               e == st[(k + 1) + 1]
               w == vs[k + 1]
    <3>1. k \in Nat /\ k <= n /\ k + 1 \in 1..n
      BY <1>1
    <3>2. ChannelOK(b) /\ Expects(b, o, k) /\ b.class = cls /\ Follows(rep[k], b)
      BY <2>2, <3>1
    <3>3. e = Word(b, w)
      BY <1>0, <2>0, <3>1
    <3> HIDE DEF b, w, e, rep
    <3>4. /\ ChannelOK(e) /\ Expects(e, o, k + 1) /\ e.class = b.class
          /\ Follows(cdma_register_write(rep[k], <<b.class, rs[k + 1], w>>), e)
      BY <1>4, <3>2, <3>3, DataStep
    <3>5. rep[k + 1] = cdma_register_write(rep[k], <<cls, rs[k + 1], w>>)
      BY <1>2, <1>3, <3>1 DEF w
    <3>6. Follows(rep[k + 1], e)
      BY <3>2, <3>4, <3>5
    <3> QED
      BY <3>1, <3>2, <3>4, <3>6 DEF e
  <2>3. n \in T
    <3> HIDE DEF T, n
    <3>1. \A k \in 0..n : k \in T
      BY <1>1, <2>1, <2>2, FromZero
    <3> QED
      BY <1>1, <3>1
  <2>4. 1 + Data(o) = n + 1 /\ n <= n
    BY <1>1, <2>0
  <2>5. ChannelOK(st[n + 1]) /\ Expects(st[n + 1], o, n) /\ st[n + 1].class = cls /\ Follows(rep[n], st[n + 1])
    BY <2>3, <2>4
  <2>6. ~Pending(st[n + 1])
    BY <1>4, <2>5, AllCame
  <2> QED
    BY <2>4, <2>5, <2>6
<1>5. CASE o.op = "IMM"
  <2> DEFINE e == st[1]
             w == Value(o.n)
  <2>1. n = 1 /\ Data(o) = 0 /\ rs[1] = o.reg /\ cls = c.class /\ vs[1] = w
    BY <1>0, <1>5, RegistersOf DEF ClassAfter
  <2>2. e = RegWrite(c, o.reg, w)
    BY <1>0, <1>5 DEF Word, Decode
  <2>3. o.reg # 831
    BY <1>1, <2>1 DEF OpcodeOf
  <2> HIDE DEF e, w, cls, xs, rs, n, rep
  <2>4. /\ ChannelOK(e) /\ Follows(cdma_register_write(q, <<c.class, o.reg, w>>), e)
        /\ e.class = c.class /\ e.op = c.op /\ e.reg = c.reg /\ e.n = c.n /\ e.mask = c.mask
    BY <2>2, <2>3, WriteStep
  <2>5. rep[1] = cdma_register_write(q, <<c.class, o.reg, w>>)
    <3>1. 0 \in 0..n - 1 /\ 0 + 1 = 1 /\ 1 \in 1..n
      BY <2>1
    <3>2. rep[1] = cdma_register_write(q, xs[1]) /\ xs[1] = <<cls, rs[1], vs[1]>>
      BY <1>2, <1>3, <3>1
    <3> QED
      BY <2>1, <3>2
  <2>6. ~Pending(e)
    BY <2>4 DEF Pending
  <2>7. 1 + Data(o) = 1
    BY <2>1
  <2> QED
    BY <2>1, <2>4, <2>5, <2>6, <2>7 DEF e, rep, n, cls, xs, rs
<1>6. CASE o.op \in {"RESTART", "EXTEND", "CHDONE"}
  <2>1. n = 0 /\ Data(o) = 0 /\ cls = c.class
    BY <1>6, RegistersOf DEF ClassAfter
  <2>2. st[1] = c
    BY <1>0, <1>6 DEF Word, Decode
  <2>3. 1 + Data(o) = 1
    BY <2>1
  <2> QED
    BY <1>3, <2>1, <2>2, <2>3
<1> QED
  BY <1>4, <1>5, <1>6 DEF OpcodeOf, Carries

-----------------------------------------------------------------------------
(* The inductive invariant *)

\* A step leaves all that is said of a channel.
Alone(f) ==
    /\ unsent'[f] = unsent[f] /\ todo'[f] = todo[f] /\ job'[f] = job[f] /\ hook'[f] = hook[f]
    /\ d'[f] = d[f] /\ shown'[f] = shown[f] /\ writes'[f] = writes[f]
    /\ classid'[f] = classid[f] /\ channel'[f] = channel[f]

LEMMA GathersSame ==
  ASSUME NEW f \in Channels, program' = program, todo'[f] = todo[f]
  PROVE  (Gathers(f))' = Gathers(f)
BY DEF Gathers, Sent

LEMMA AloneStep ==
  ASSUME NEW f \in Channels, program' = program, Alone(f), ReportedInv(f)
  PROVE  ReportedInv(f)'
<1>1. (Gathers(f))' = Gathers(f)
  BY GathersSame DEF Alone
<1>2. (Taken(f))' = Taken(f)
  BY DEF Alone, Taken
<1>3. (Reached(f))' = Reached(f)
  BY <1>1, <1>2 DEF Alone, Reached
<1>4. hook[f].at = "parse" => ParseInv(f)'
  <2>1. hook[f].at = "parse" => ParseInv(f)
    BY DEF ReportedInv
  <2> QED
    BY <1>1, <1>2, <2>1 DEF Alone, ParseInv
<1> QED
  BY <1>3, <1>4 DEF Alone, ReportedInv

\* A step of one channel.
LEMMA OneChannel ==
  ASSUME IInv, ReportsInv, NEW f \in Channels, program' = program, ReportedInv(f)',
         DOMAIN d' = Channels, DOMAIN shown' = Channels, DOMAIN writes' = Channels,
         DOMAIN classid' = Channels, DOMAIN channel' = Channels,
         \A g \in Channels \ {f} : Alone(g)
  PROVE  ReportsInv'
<1>1. ASSUME NEW g \in Channels
      PROVE  ReportedInv(g)'
  <2>1. CASE g = f
    BY <2>1
  <2>2. CASE g # f
    BY <2>2, AloneStep DEF ReportsInv
  <2> QED
    BY <2>1, <2>2
<1> QED
  BY <1>1 DEF ReportsInv

\* A step of a hook in the loop over the structures.
LEMMA LoopStep ==
  ASSUME NEW f \in Channels, ReportedInv(f), hook'[f].at # "parse",
         d'[f] = d[f], shown'[f] = shown[f], writes'[f] = writes[f],
         (Reached(f))' = Reached(f), classid'[f] = Reached(f).class
  PROVE  ReportedInv(f)'
BY DEF ReportedInv

\* The words of the job that is open, or else the next one.
LEMMA GathersOf ==
  ASSUME IInv, NEW f \in Channels, todo[f] # <<>>
  PROVE  LET cs == Head(todo[f]).cmdbufs IN
         /\ JobOf(program, Head(todo[f])) /\ Len(cs) \in Nat /\ DOMAIN cs = 1..Len(cs)
         /\ Len(Gathers(f)) = Len(cs) /\ \A i \in 1..Len(cs) : Gathers(f)[i] = Sent(cs[i])
<1> DEFINE cs == Head(todo[f]).cmdbufs
           G == Gathers(f)
<1>1. JobOf(program, Head(todo[f]))
  BY CurrentJob DEF IInv
<1>2. cs \in Seq(Range(cs))
  BY <1>1 DEF JobOf
<1>3. G = [i \in DOMAIN cs |-> Sent(cs[i])]
  BY DEF Gathers
<1> HIDE DEF G, cs
<1>4. Len(cs) \in Nat /\ DOMAIN cs = 1..Len(cs)
  <2> DEFINE R == Range(cs)
  <2>1. cs \in Seq(R)
    BY <1>2
  <2> HIDE DEF R
  <2> QED
    BY <2>1
<1>5. Len(G) = Len(cs)
  BY <1>3, <1>4
<1> QED
  BY <1>1, <1>3, <1>4, <1>5 DEF G, cs

LEMMA ReportsInit == Init => ReportsInv
<1> SUFFICES ASSUME Init, NEW f \in Channels
             PROVE  ReportedInv(f)
  BY DEF Init, ReportsInv
<1>1. /\ hook[f].at = "none" /\ unsent[f] = None /\ channel[f] = ChannelInit /\ classid[f] = 0
      /\ d[f] = NoShaders /\ shown[f] = <<>> /\ writes[f] = <<>>
  BY DEF Init, NoHook
<1>2. Reached(f) = ChannelInit
  BY <1>1 DEF Reached
<1>3. /\ ChannelInit.op = "none" /\ ChannelInit.class = 0
      /\ ChannelInit.memory = [u \in Units |-> <<>>] /\ ChannelInit.next = [u \in Units |-> 0]
      /\ ChannelInit.linker = <<>> /\ ChannelInit.insts = 0
      /\ ChannelInit.writes = <<>> /\ ChannelInit.drawn = <<>>
  BY DEF ChannelInit
<1>4. ChannelOK(ChannelInit)
  <2>1. \A u \in Units : Limit[u] \in Nat
    BY LimitAssumption
  <2>2. <<>> \in Seq(Range(<<>>)) /\ Len(<<>>) = 0
    OBVIOUS
  <2> QED
    BY <1>3, <2>1, <2>2 DEF ChannelOK
<1>5. Loaded(ChannelInit) = NoShaders
  <2> DEFINE c == ChannelInit
  <2>1. \A u \in Units : SubSeq(c.memory[u], 1, c.next[u]) = <<>>
    <3>1. SubSeq(<<>>, 1, 0) = <<>>
      BY SubSeqEmpty
    <3> QED
      BY <1>3, <3>1
  <2> HIDE DEF c
  <2>2. [u \in Units |-> SubSeq(c.memory[u], 1, c.next[u])] = [u \in Units |-> <<>>]
    BY <2>1
  <2> QED
    BY <1>3, <2>2 DEF Loaded, NoShaders, c
<1>6. Follows([kept |-> d[f], shown |-> shown[f], writes |-> writes[f]], ChannelInit)
  BY <1>1, <1>3, <1>5 DEF Follows
<1>7. ~Pending(ChannelInit)
  BY <1>3 DEF Pending
<1> QED
  BY <1>1, <1>2, <1>3, <1>4, <1>6, <1>7 DEF ReportedInv

\* A job is opened: the channel has executed none of it.
LEMMA SubmitReports ==
  ASSUME IInv, ReportsInv, NEW f \in Channels, Submit(f)
  PROVE  ReportsInv'
<1> DEFINE j == Head(todo[f])
<1>1. /\ todo[f] # <<>> /\ unsent[f] = None
      /\ unsent' = [unsent EXCEPT ![f] = Structs(j)]
      /\ job' = [job EXCEPT ![f] = nvhost_job_new(j)]
      /\ UNCHANGED <<program, mem, filled, todo, handles, hook, classid, d, writes, shown, channel>>
  BY DEF Submit, parsed
<1>2. hook[f] = NoHook
  BY <1>1 DEF IInv, HookInv
<1>3. JobOf(program, j) /\ None \notin Seq(Structures(j))
  BY <1>1, CurrentJob DEF IInv
<1>4. Structs(j) # None
  <2>1. Structs(j) \in Seq(Structures(j))
    <3> HIDE DEF j
    <3> QED
      BY <1>3, StructsOf
  <2> QED
    BY <1>3, <2>1
<1>5. /\ unsent'[f] # None /\ job'[f].cmdbufs_left = Len(j.cmdbufs)
      /\ \A g \in Channels \ {f} : Alone(g)
  <2>1. DOMAIN unsent = Channels /\ DOMAIN job = Channels
    BY DEF IInv, HookInv
  <2>2. unsent'[f] = Structs(j) /\ job'[f] = nvhost_job_new(j)
    BY <1>1, <2>1
  <2>3. nvhost_job_new(j).cmdbufs_left = Len(j.cmdbufs)
    BY DEF nvhost_job_new
  <2>4. \A g \in Channels \ {f} : unsent'[g] = unsent[g] /\ job'[g] = job[g]
    BY <1>1, <2>1
  <2> QED
    BY <1>1, <1>4, <2>2, <2>3, <2>4 DEF Alone
<1>6. (Reached(f))' = channel[f]
  <2>1. Len(j.cmdbufs) \in Nat /\ Len(Gathers(f)) = Len(j.cmdbufs)
    BY <1>1, GathersOf
  <2>2. (Gathers(f))' = Gathers(f)
    BY <1>1, GathersSame
  <2>3. (Taken(f))' = 0
    <3>1. (Taken(f))' = Len(j.cmdbufs) - job'[f].cmdbufs_left
      BY <1>1 DEF Taken
    <3> HIDE DEF j
    <3> QED
      BY <1>5, <2>1, <3>1
  <2>4. GatherStates(channel[f], Gathers(f))[0] = channel[f]
    <3> DEFINE G == Gathers(f)
    <3>1. Len(G) \in Nat
      BY <2>1
    <3> HIDE DEF G
    <3> QED
      BY <3>1, GatherStatesOf DEF G
  <2>5. hook'[f].at # "parse" /\ channel'[f] = channel[f]
    BY <1>1, <1>2 DEF NoHook
  <2>6. (Reached(f))' = GatherStates(channel'[f], (Gathers(f))')[(Taken(f))']
    BY <1>5, <2>5 DEF Reached
  <2> QED
    BY <2>2, <2>3, <2>4, <2>5, <2>6
<1>7. Reached(f) = channel[f]
  BY <1>1 DEF Reached
<1>8. ReportedInv(f)'
  <2>1. hook[f].at # "parse" /\ ReportedInv(f)
    BY <1>2 DEF NoHook, ReportsInv
  <2>2. classid'[f] = Reached(f).class
    BY <1>1, <2>1 DEF ReportedInv
  <2> QED
    BY <1>1, <1>6, <1>7, <2>1, <2>2, LoopStep
<1> QED
  BY <1>1, <1>5, <1>8, OneChannel DEF ReportsInv

\* A step that neither hands words to the channel nor to the parser.
LEMMA NoWords ==
  ASSUME IInv, ReportsInv, NEW f \in Channels,
         UNCHANGED <<program, todo, classid, d, writes, shown, channel>>,
         unsent[f] # None, unsent'[f] # None, hook[f].at # "parse", hook'[f].at # "parse",
         job'[f].cmdbufs_left = job[f].cmdbufs_left,
         \A g \in Channels \ {f} : unsent'[g] = unsent[g] /\ job'[g] = job[g] /\ hook'[g] = hook[g]
  PROVE  ReportsInv'
<1>1. (Reached(f))' = Reached(f)
  <2>1. (Gathers(f))' = Gathers(f)
    BY GathersSame
  <2>2. (Taken(f))' = Taken(f)
    BY DEF Taken
  <2> QED
    BY <2>1, <2>2 DEF Reached
<1>2. ReportedInv(f) /\ classid'[f] = Reached(f).class
  BY DEF ReportsInv, ReportedInv
<1>3. ReportedInv(f)'
  BY <1>1, <1>2, LoopStep
<1>4. \A g \in Channels \ {f} : Alone(g)
  BY DEF Alone
<1> QED
  BY <1>3, <1>4, OneChannel DEF ReportsInv

LEMMA WriteCallReports ==
  ASSUME IInv, IInv', ReportsInv, NEW f \in Channels, WriteCall(f)
  PROVE  ReportsInv'
<1>1. /\ hook[f] = NoHook /\ unsent[f] # None
      /\ UNCHANGED <<program, todo, job, classid, d, writes, shown, channel>>
  BY DEF WriteCall, parsed
<1>2. PICK n \in DOMAIN unsent[f] :
        /\ hook' = [hook EXCEPT ![f] = [at |-> "loop", buffer |-> SubSeq(unsent[f], 1, n)]]
        /\ unsent' = [unsent EXCEPT ![f] = SubSeq(@, n + 1, Len(@))]
  BY DEF WriteCall
<1>3. /\ \A g \in Channels \ {f} : unsent'[g] = unsent[g] /\ job'[g] = job[g] /\ hook'[g] = hook[g]
      /\ hook'[f] = [at |-> "loop", buffer |-> SubSeq(unsent[f], 1, n)]
  BY <1>1, <1>2 DEF IInv, HookInv
<1>4. hook'[f].at = "loop" /\ hook[f].at # "parse"
  BY <1>1, <1>3 DEF NoHook
<1>5. unsent'[f] # None
  <2>1. hook'[f] # NoHook
    BY <1>4 DEF NoHook
  <2> QED
    BY <2>1 DEF IInv, HookInv
<1> QED
  BY <1>1, <1>3, <1>4, <1>5, NoWords

LEMMA WriteReturnsReports ==
  ASSUME IInv, ReportsInv, NEW f \in Channels, WriteReturns(f)
  PROVE  ReportsInv'
<1>1. /\ hook[f].at = "loop" /\ hook' = [hook EXCEPT ![f] = NoHook]
      /\ UNCHANGED <<program, todo, unsent, job, classid, d, writes, shown, channel>>
  BY DEF WriteReturns, told, parsed
<1>2. hook[f] # NoHook
  BY <1>1 DEF NoHook
<1>3. unsent[f] # None /\ DOMAIN hook = Channels
  BY <1>2, HookOf DEF IInv, HookInv
<1>4. hook'[f].at # "parse" /\ hook[f].at # "parse" /\ \A g \in Channels \ {f} : hook'[g] = hook[g]
  BY <1>1, <1>3 DEF NoHook
<1> QED
  BY <1>1, <1>3, <1>4, NoWords

\* The structures that are no command buffers
LEMMA OtherStructures ==
  ASSUME IInv, ReportsInv, NEW f \in Channels, AddReloc(f) \/ AddWaitCheck(f) \/ AddShift(f)
  PROVE  ReportsInv'
<1>1. InLoop(f) /\ Advance(f) /\ UNCHANGED <<program, todo, unsent, classid, d, writes, shown, channel>>
  BY DEF AddReloc, AddWaitCheck, AddShift, told, parsed
<1>2. /\ hook[f].at = "loop" /\ hook[f] = [at |-> "loop", buffer |-> hook[f].buffer]
      /\ CountersInv(Head(todo[f]), job[f]) /\ DOMAIN job = Channels /\ DOMAIN hook = Channels
  BY <1>1, NextStructure
<1>3. hook[f] # NoHook
  BY <1>2 DEF NoHook
<1>4. unsent[f] # None
  BY <1>3, HookOf
<1>5. hook'[f].at = "loop" /\ \A g \in Channels \ {f} : hook'[g] = hook[g]
  <2> DEFINE a == hook[f]  t == Tail(hook[f].buffer)
  <2>1. hook'[f] = [a EXCEPT !.buffer = t] /\ \A g \in Channels \ {f} : hook'[g] = hook[g]
    BY <1>1, <1>2 DEF Advance
  <2>2. a.at = "loop" /\ a = [at |-> "loop", buffer |-> a.buffer]
    BY <1>2
  <2> HIDE DEF a, t
  <2> QED
    BY <2>1, <2>2
<1>6. job'[f].cmdbufs_left = job[f].cmdbufs_left /\ \A g \in Channels \ {f} : job'[g] = job[g]
  <2> DEFINE b == job[f]
  <2>1. "cmdbufs_left" \in DOMAIN b
    <3>1. b = [num_pushbufs |-> Len(Head(todo[f]).cmdbufs), num_relocs |-> Len(Head(todo[f]).relocs),
               cmdbufs_left |-> b.cmdbufs_left, relocs_left |-> b.relocs_left,
               waitchks_left |-> b.waitchks_left, shifts_left |-> b.shifts_left,
               pushbufs |-> b.pushbufs, relocs |-> b.relocs]
      BY <1>2 DEF CountersInv
    <3> HIDE DEF b
    <3> QED
      BY <3>1
  <2>2. CASE AddReloc(f)
    <3> DEFINE x == b.relocs_left - 1
               i == RelocIndex(f)
               h == Head(hook[f].buffer)
    <3>1. job' = [job EXCEPT ![f].relocs_left = @ - 1, ![f].relocs[i] = h]
      BY <2>2 DEF AddReloc
    <3> HIDE DEF i, h
    <3>2. job'[f] = [b EXCEPT !.relocs_left = x, !.relocs[i] = h] /\ \A g \in Channels \ {f} : job'[g] = job[g]
      BY <1>2, <3>1
    <3> HIDE DEF x, b
    <3>3. job'[f].cmdbufs_left = b.cmdbufs_left
      BY <2>1, <3>2
    <3> QED
      BY <3>2, <3>3 DEF b
  <2>3. CASE AddWaitCheck(f)
    <3> DEFINE x == b.waitchks_left - 1
    <3>1. job' = [job EXCEPT ![f].waitchks_left = @ - 1]
      BY <2>3 DEF AddWaitCheck
    <3>2. job'[f] = [b EXCEPT !.waitchks_left = x] /\ \A g \in Channels \ {f} : job'[g] = job[g]
      BY <1>2, <3>1
    <3> HIDE DEF x, b
    <3>3. job'[f].cmdbufs_left = b.cmdbufs_left
      BY <2>1, <3>2
    <3> QED
      BY <3>2, <3>3 DEF b
  <2>4. CASE AddShift(f)
    <3> DEFINE x == b.shifts_left - 1
    <3>1. job' = [job EXCEPT ![f].shifts_left = @ - 1]
      BY <2>4 DEF AddShift
    <3>2. job'[f] = [b EXCEPT !.shifts_left = x] /\ \A g \in Channels \ {f} : job'[g] = job[g]
      BY <1>2, <3>1
    <3> HIDE DEF x, b
    <3>3. job'[f].cmdbufs_left = b.cmdbufs_left
      BY <2>1, <3>2
    <3> QED
      BY <3>2, <3>3 DEF b
  <2> QED
    BY <2>2, <2>3, <2>4
<1> QED
  BY <1>1, <1>2, <1>4, <1>5, <1>6, NoWords

\* The words of a command buffer
LEMMA WordsOf ==
  ASSUME IInv, NEW f \in Channels, todo[f] # <<>>, NEW i \in 1..Len(Head(todo[f]).cmdbufs)
  PROVE  /\ Len(Gathers(f)[i]) \in Nat
         /\ \E S \in SUBSET (0..Len(Gathers(f)[i])) : OpcodesAt(Gathers(f)[i], S)
<1> DEFINE cs == Head(todo[f]).cmdbufs
           c == cs[i]
           m == program.fills[c.mem][c.fill]
<1>1. /\ JobOf(program, Head(todo[f])) /\ DOMAIN cs = 1..Len(cs) /\ Gathers(f)[i] = Sent(c)
      /\ i \in 1..Len(cs)
  BY GathersOf
<1>2. CmdbufOf(program, c)
  BY <1>1 DEF JobOf
<1>3. Sent(c) = SubSeq(m, c.offset + 1, c.offset + c.words)
  BY DEF Sent
<1> HIDE DEF c
<1>4. /\ c.mem \in Handles /\ c.fill \in 1..Len(program.fills[c.mem])
      /\ c.offset \in Nat /\ c.words \in Nat /\ c.offset + c.words <= Len(m)
      /\ \E S \in SUBSET (0..c.words) : OpcodesAt(Sent(c), S)
  BY <1>2, <1>3, Zenon DEF CmdbufOf
<1>5. m \in Seq(Range(m))
  BY <1>4, ProgramsAssumption DEF IInv, ProgramInv
<1>6. Len(Sent(c)) = c.words
  <2> DEFINE o == c.offset  w == c.words  R == Range(m)
  <2>1. m \in Seq(R) /\ o \in Nat /\ w \in Nat /\ o + w <= Len(m) /\ Sent(c) = SubSeq(m, o + 1, o + w)
    BY <1>3, <1>4, <1>5
  <2> HIDE DEF m, o, w, R
  <2>2. Len(SubSeq(m, o + 1, o + w)) = w
    BY <2>1, CommandsOf
  <2> QED
    BY <2>1, <2>2 DEF w
<1> QED
  BY <1>1, <1>4, <1>6

\* A command buffer goes to the parser: the channel has executed those before.
LEMMA AddPushbufReports ==
  ASSUME IInv, ReportsInv, NEW f \in Channels, AddPushbuf(f)
  PROVE  ReportsInv'
<1> DEFINE j == Head(todo[f])
           n == Len(j.cmdbufs) - job[f].cmdbufs_left + 1
           c == Head(hook[f].buffer)
           commands == SubSeq(Contents(c.mem), c.offset + 1, Len(Contents(c.mem)))
           G == Gathers(f)
           st == GatherStates(channel[f], G)
<1>1. /\ hook[f].at = "loop" /\ todo[f] # <<>> /\ CountersInv(j, job[f])
      /\ job[f].cmdbufs_left \in 1..Len(j.cmdbufs)
      /\ n \in 1..Len(j.cmdbufs) /\ c = j.cmdbufs[n]
      /\ Len(Sent(c)) = c.words /\ c.words \in Nat /\ \A i \in 1..c.words : commands[i] = Sent(c)[i]
  BY NextPushbuf
<1>2. /\ UNCHANGED <<program, todo, unsent, classid, d, writes, shown, channel>>
      /\ job' = [job EXCEPT ![f].cmdbufs_left = @ - 1, ![f].pushbufs[n] = Sent(c)]
      /\ hook' = [hook EXCEPT ![f] =
              [at |-> "parse", buffer |-> Tail(@.buffer), words |-> commands,
               num_words |-> c.words, position |-> 0, class |-> classid[f]]]
  <2>1. UNCHANGED <<program, todo, unsent, parsed, channel>>
    BY NextPushbuf
  <2>2. /\ job' = [job EXCEPT ![f].cmdbufs_left = @ - 1, ![f].pushbufs[n] = Sent(c)]
        /\ hook' = [hook EXCEPT ![f] =
              [at |-> "parse", buffer |-> Tail(@.buffer), words |-> commands,
               num_words |-> c.words, position |-> 0, class |-> classid[f]]]
    BY NextPushbuf
  <2> QED
    BY <2>1, <2>2 DEF parsed
<1>3. unsent[f] # None
  <2>1. hook[f] # NoHook
    BY <1>1 DEF NoHook
  <2> QED
    BY <2>1, HookOf
<1> HIDE DEF commands
<1>4. /\ \A g \in Channels \ {f} : hook'[g] = hook[g] /\ job'[g] = job[g]
      /\ hook'[f].at = "parse" /\ hook'[f].words = commands /\ hook'[f].num_words = c.words
      /\ hook'[f].position = 0 /\ hook'[f].class = classid[f]
      /\ job'[f] = [job[f] EXCEPT !.cmdbufs_left = @ - 1, !.pushbufs[n] = Sent(c)]
  BY <1>2 DEF IInv, HookInv
<1>5. job'[f].cmdbufs_left = job[f].cmdbufs_left - 1
  <2> DEFINE b == job[f]  x == Sent(c)  y == b.cmdbufs_left - 1
  <2>1. b = [num_pushbufs |-> Len(j.cmdbufs), num_relocs |-> Len(j.relocs),
             cmdbufs_left |-> b.cmdbufs_left, relocs_left |-> b.relocs_left,
             waitchks_left |-> b.waitchks_left, shifts_left |-> b.shifts_left,
             pushbufs |-> b.pushbufs, relocs |-> b.relocs]
    BY <1>1 DEF CountersInv
  <2>2. job'[f] = [b EXCEPT !.cmdbufs_left = y, !.pushbufs[n] = x]
    BY <1>4
  <2> HIDE DEF b, x, y, n, j
  <2>3. job'[f].cmdbufs_left = y
    BY <2>1, <2>2
  <2> QED
    BY <2>3 DEF y, b
<1>6. /\ Len(j.cmdbufs) \in Nat /\ Len(G) = Len(j.cmdbufs) /\ G[n] = Sent(c)
      /\ \E S \in SUBSET (0..Len(G[n])) : OpcodesAt(G[n], S)
  <2>1. /\ Len(j.cmdbufs) \in Nat /\ Len(G) = Len(j.cmdbufs)
        /\ \A i \in 1..Len(j.cmdbufs) : G[i] = Sent(j.cmdbufs[i])
    BY <1>1, GathersOf
  <2>2. \E S \in SUBSET (0..Len(G[n])) : OpcodesAt(G[n], S)
    <3> HIDE DEF n, G
    <3> QED
      BY <1>1, WordsOf DEF G
  <2> QED
    BY <1>1, <2>1, <2>2
<1>7. (Gathers(f))' = G
  BY <1>2, GathersSame
<1>8. Taken(f) = n - 1 /\ (Taken(f))' = n /\ n >= 1
  <2> DEFINE C == Len(j.cmdbufs)  k == job[f].cmdbufs_left
  <2>1. C \in Nat /\ k \in 1..C /\ n = C - k + 1 /\ Taken(f) = C - k /\ (Taken(f))' = C - (k - 1)
    BY <1>1, <1>2, <1>5, <1>6 DEF Taken
  <2> HIDE DEF C, k, n
  <2> QED
    BY <2>1
<1>9. Reached(f) = st[n - 1]
  BY <1>1, <1>3, <1>8 DEF Reached
<1>10. (Reached(f))' = States(st[n - 1], G[n])[0]
  <2>1. (Reached(f))' =
           States(GatherStates(channel'[f], (Gathers(f))')[(Taken(f))' - 1],
                  (Gathers(f))'[(Taken(f))'])[hook'[f].position]
    BY <1>2, <1>3, <1>4 DEF Reached
  <2> HIDE DEF n, G
  <2> QED
    BY <1>2, <1>4, <1>7, <1>8, <2>1
<1>11. (Reached(f))' = Reached(f)
  <2> DEFINE w == G[n]  x == st[n - 1]
  <2>1. Len(w) \in Nat
    BY <1>1, <1>6
  <2> HIDE DEF w, x
  <2>2. States(x, w)[0] = x
    BY <2>1, StatesOf
  <2> QED
    BY <1>9, <1>10, <2>2 DEF w, x
<1>12. ParseInv(f)'
  <2>1. hook'[f].num_words = Len(G[n]) /\ \A i \in 1..Len(G[n]) : hook'[f].words[i] = G[n][i]
    <3> HIDE DEF n, G, c
    <3> QED
      BY <1>1, <1>4, <1>6
  <2>2. \E S \in SUBSET (0..Len(G[n])) : OpcodesAt(G[n], S) /\ hook'[f].position \in S
    <3> HIDE DEF n, G
    <3> QED
      BY <1>4, <1>6 DEF OpcodesAt
  <2> HIDE DEF n, G
  <2> QED
    BY <1>7, <1>8, <2>1, <2>2 DEF ParseInv
<1>13. ReportedInv(f)'
  <2>1. /\ ChannelOK(Reached(f)) /\ ~Pending(Reached(f))
        /\ Follows([kept |-> d[f], shown |-> shown[f], writes |-> writes[f]], Reached(f))
        /\ Reached(f).class = classid[f]
    BY <1>1 DEF ReportsInv, ReportedInv
  <2> QED
    BY <1>2, <1>4, <1>11, <1>12, <2>1 DEF ReportedInv
<1>14. \A g \in Channels \ {f} : Alone(g)
  BY <1>2, <1>4 DEF Alone
<1> QED
  BY <1>2, <1>13, <1>14, OneChannel DEF ReportsInv

\* While a command buffer is parsed
LEMMA Parsing ==
  ASSUME IInv, ReportsInv, NEW f \in Channels, hook[f].at = "parse"
  PROVE  LET words == Gathers(f)[Taken(f)]
             st == States(GatherStates(channel[f], Gathers(f))[Taken(f) - 1], words)
         IN
         /\ unsent[f] # None /\ todo[f] # <<>> /\ Len(Gathers(f)) \in Nat
         /\ Taken(f) \in 1..Len(Gathers(f)) /\ Len(words) \in Nat
         /\ Reached(f) = st[hook[f].position] /\ ParseInv(f)
<1> DEFINE cs == Head(todo[f]).cmdbufs
<1>1. hook[f] # NoHook
  BY DEF NoHook
<1>2. unsent[f] # None /\ OpenInv(f)
  BY <1>1, HookOf
<1>3. todo[f] # <<>> /\ CountersInv(Head(todo[f]), job[f])
  BY <1>2 DEF OpenInv
<1>4. Len(cs) \in Nat /\ Len(Gathers(f)) = Len(cs)
  BY <1>3, GathersOf
<1>5. ParseInv(f)
  BY DEF ReportsInv, ReportedInv
<1>6. Taken(f) \in 1..Len(cs)
  <2>1. job[f].cmdbufs_left \in 0..Len(cs) /\ Taken(f) = Len(cs) - job[f].cmdbufs_left /\ Taken(f) >= 1
    BY <1>3, <1>5 DEF CountersInv, Taken, ParseInv
  <2> HIDE DEF cs
  <2> QED
    BY <1>4, <2>1
<1>7. Len(Gathers(f)[Taken(f)]) \in Nat
  BY <1>3, <1>6, WordsOf
<1>8. Reached(f) =
         States(GatherStates(channel[f], Gathers(f))[Taken(f) - 1], Gathers(f)[Taken(f)])[hook[f].position]
  BY <1>2 DEF Reached
<1> QED
  BY <1>2, <1>3, <1>4, <1>5, <1>6, <1>7, <1>8

\* The handler of an opcode reports what the channel does with it and its words.
LEMMA OpcodeReports ==
  ASSUME IInv, ReportsInv, NEW f \in Channels, NEW vs, hook[f].at = "parse",
         hook[f].position < hook[f].num_words,
         \A k \in 1..Data(Opcode(f)) : vs[k] = After(f, k),
         Opcode(f).op = "IMM" => vs[1] = Value(Opcode(f).n),
         Report(f, IF Opcode(f).op = "SETCL" THEN Opcode(f).class ELSE hook[f].class,
                Registers(Opcode(f)), vs, 1 + Data(Opcode(f)))
  PROVE  ReportsInv'
<1> DEFINE words == Gathers(f)[Taken(f)]
           run == States(GatherStates(channel[f], Gathers(f))[Taken(f) - 1], words)
           p == hook[f].position
           o == words[p + 1]
           n == Data(o)
           c == Reached(f)
           q == [kept |-> d[f], shown |-> shown[f], writes |-> writes[f]]
           cls == ClassAfter(c, o)
           xs == Reported(o, cls, vs)
           rep == Reports(q, xs)[Len(Registers(o))]
           e == run[p + (1 + n)]
<1>1. /\ unsent[f] # None /\ Len(words) \in Nat /\ c = run[p] /\ ParseInv(f)
  BY Parsing
<1>2. PICK S \in SUBSET (0..Len(words)) : OpcodesAt(words, S) /\ p \in S
  BY <1>1 DEF ParseInv
<1>3. /\ hook[f].num_words = Len(words) /\ \A i \in 1..Len(words) : hook[f].words[i] = words[i]
      /\ Taken(f) >= 1
  BY <1>1 DEF ParseInv
<1>4. p \in 0..Len(words) /\ p # Len(words) /\ p + 1 \in 1..Len(words) /\ p \in 0..Len(words) - 1
  <2>1. p < Len(words) /\ p \in 0..Len(words)
    BY <1>2, <1>3
  <2> HIDE DEF p, words
  <2> QED
    BY <1>1, <2>1
<1>5. OpcodeOf(o) /\ p + 1 + n \in S
  <2> HIDE DEF p, words, n
  <2> QED
    BY <1>2, <1>4 DEF OpcodesAt, n
<1>6. n \in Nat /\ DOMAIN Registers(o) = 1..Len(Registers(o))
  BY <1>5, RegistersOf
<1>7. p + (1 + n) \in S /\ p + (1 + n) \in 0..Len(words)
  <2>1. p + 1 + n \in 0..Len(words) /\ p + (1 + n) = p + 1 + n
    <3>1. p + 1 + n \in 0..Len(words)
      BY <1>2, <1>5
    <3> HIDE DEF p, n, words
    <3> QED
      BY <1>4, <1>6, <3>1
  <2> QED
    BY <1>5, <2>1
<1>8. Opcode(f) = o /\ \A k \in 1..n : vs[k] = words[p + 1 + k]
  <2>1. Opcode(f) = o
    <3>1. p + 1 + 0 = p + 1
      BY <1>4
    <3>2. Opcode(f) = hook[f].words[p + 1 + 0]
      BY DEF Opcode, After
    <3> QED
      BY <1>3, <1>4, <3>1, <3>2
  <2>2. ASSUME NEW k \in 1..n
        PROVE  vs[k] = words[p + 1 + k]
    <3>1. p + 1 + k \in 1..Len(words)
      <4> HIDE DEF p, words, n
      <4> QED
        BY <1>1, <1>4, <1>6, <1>7
    <3>2. vs[k] = hook[f].words[p + 1 + k]
      BY <2>1 DEF After
    <3> QED
      BY <1>3, <3>1, <3>2
  <2> QED
    BY <2>1, <2>2
<1>9. /\ ChannelOK(c) /\ ~Pending(c) /\ Follows(q, c) /\ c.class = hook[f].class
  BY DEF ReportsInv, ReportedInv
<1>10. /\ ChannelOK(e) /\ ~Pending(e) /\ e.class = cls /\ Follows(rep, e)
  <2> DEFINE st == [k \in 0..n + 1 |-> run[p + k]]
  <2>1. \A k \in 0..Len(words) - 1 : run[k + 1] = Word(run[k], words[k + 1])
    <3> DEFINE g == GatherStates(channel[f], Gathers(f))[Taken(f) - 1]
    <3> HIDE DEF g, words
    <3> QED
      BY <1>1, StatesOf DEF g
  <2>2. st[0] = c /\ st[1] = Word(c, o)
    <3>1. 0 \in 0..n + 1 /\ 1 \in 0..n + 1 /\ p + 0 = p
      BY <1>4, <1>6
    <3>2. st[0] = run[p] /\ st[1] = run[p + 1]
      BY <3>1
    <3> HIDE DEF st, run
    <3> QED
      BY <1>1, <1>4, <2>1, <3>2
  <2>3. ASSUME NEW k \in 1..n
        PROVE  st[k + 1] = Word(st[k], vs[k])
    <3>1. /\ k + 1 \in 0..n + 1 /\ k \in 0..n + 1 /\ p + k \in 0..Len(words) - 1
          /\ p + (k + 1) = (p + k) + 1 /\ p + 1 + k = (p + k) + 1
      <4> HIDE DEF p, words, n
      <4> QED
        BY <1>1, <1>4, <1>6, <1>7
    <3>2. st[k + 1] = run[p + (k + 1)] /\ st[k] = run[p + k]
      BY <3>1
    <3>3. run[(p + k) + 1] = Word(run[p + k], words[(p + k) + 1])
      <4> HIDE DEF run, words
      <4> QED
        BY <2>1, <3>1
    <3>4. vs[k] = words[(p + k) + 1]
      BY <1>8, <3>1
    <3> HIDE DEF st, run, words, p
    <3> QED
      BY <3>1, <3>2, <3>3, <3>4
  <2>4. st[1 + n] = e
    <3>1. 1 + n \in 0..n + 1
      BY <1>6
    <3> QED
      BY <3>1
  <2>5. o.op = "IMM" => vs[1] = Value(o.n)
    BY <1>8
  <2> HIDE DEF st, c, q, o, e
  <2>6. Runs(c, o, vs, st)
    BY <2>2, <2>3, <2>5 DEF Runs
  <2>7. LET ys == Reported(o, ClassAfter(c, o), vs)
            b  == st[1 + Data(o)]
        IN /\ ChannelOK(b) /\ ~Pending(b) /\ b.class = ClassAfter(c, o)
           /\ Follows(Reports(q, ys)[Len(Registers(o))], b)
    <3> HIDE DEF n
    <3> QED
      BY <1>5, <1>9, <2>6, OpcodeRun
  <2> QED
    BY <2>4, <2>7
<1>11. /\ d' = [d EXCEPT ![f] = rep.kept] /\ shown' = [shown EXCEPT ![f] = rep.shown]
       /\ writes' = [writes EXCEPT ![f] = rep.writes]
       /\ hook' = [hook EXCEPT ![f].position = @ + (1 + n), ![f].class = cls]
       /\ UNCHANGED <<program, todo, unsent, job, classid, channel>>
  <2>1. cls = IF Opcode(f).op = "SETCL" THEN Opcode(f).class ELSE hook[f].class
    BY <1>8, <1>9 DEF ClassAfter
  <2>2. Report(f, cls, Registers(o), vs, 1 + n)
    BY <1>8, <2>1
  <2> HIDE DEF cls, o, n
  <2> QED
    BY <2>2 DEF Report, Reported, told, cls, o, n, rep, xs, q
<1>12. rep = [kept |-> rep.kept, shown |-> rep.shown, writes |-> rep.writes]
  <2> HIDE DEF rep, e
  <2>1. rep = [kept |-> Loaded(e), shown |-> e.drawn, writes |-> e.writes]
    BY <1>10 DEF Follows
  <2> QED
    BY <2>1
<1> HIDE DEF rep, e, cls, xs, q, o, n
<1>13. /\ DOMAIN d' = Channels /\ DOMAIN shown' = Channels /\ DOMAIN writes' = Channels
       /\ DOMAIN classid' = Channels /\ DOMAIN channel' = Channels
       /\ d'[f] = rep.kept /\ shown'[f] = rep.shown /\ writes'[f] = rep.writes
       /\ \A g \in Channels \ {f} : Alone(g)
  <2>1. /\ DOMAIN d = Channels /\ DOMAIN shown = Channels /\ DOMAIN writes = Channels
        /\ DOMAIN classid = Channels /\ DOMAIN channel = Channels /\ DOMAIN hook = Channels
    BY DEF ReportsInv, IInv, HookInv
  <2> QED
    BY <1>11, <2>1 DEF Alone
<1>14. /\ hook'[f].at = "parse" /\ hook'[f].words = hook[f].words /\ hook'[f].num_words = hook[f].num_words
       /\ hook'[f].position = p + (1 + n) /\ hook'[f].class = cls
  <2> DEFINE a == hook[f]  b == hook'[f]  x == p + (1 + n)
  <2>1. a = [at |-> "parse", buffer |-> a.buffer, words |-> a.words, num_words |-> a.num_words,
             position |-> a.position, class |-> a.class]
    <3>1. hook[f] # NoHook
      BY DEF NoHook
    <3> QED
      BY <3>1, HookOf
  <2>2. b = [a EXCEPT !.position = x, !.class = cls]
    BY <1>11 DEF IInv, HookInv
  <2> HIDE DEF a, b, x
  <2>3. b.at = "parse" /\ b.words = a.words /\ b.num_words = a.num_words /\ b.position = x /\ b.class = cls
    BY <2>1, <2>2
  <2> QED
    BY <2>3 DEF a, b, x
<1>15. (Gathers(f))' = Gathers(f) /\ (Taken(f))' = Taken(f)
  <2>1. (Gathers(f))' = Gathers(f)
    BY <1>11, GathersSame
  <2> QED
    BY <1>11, <2>1 DEF Taken
<1>16. (Reached(f))' = e
  <2>1. (Reached(f))' =
           States(GatherStates(channel'[f], (Gathers(f))')[(Taken(f))' - 1],
                  (Gathers(f))'[(Taken(f))'])[hook'[f].position]
    BY <1>1, <1>11, <1>14 DEF Reached
  <2> QED
    BY <1>11, <1>14, <1>15, <2>1 DEF e
<1>17. ParseInv(f)'
  <2>1. p + (1 + n) \in S
    BY <1>7
  <2> HIDE DEF p, words
  <2> QED
    BY <1>2, <1>3, <1>14, <1>15, <2>1 DEF ParseInv, words
<1>18. ReportedInv(f)'
  BY <1>10, <1>12, <1>13, <1>14, <1>16, <1>17 DEF ReportedInv
<1> QED
  BY <1>11, <1>13, <1>18, OneChannel

LEMMA OpcodesReport ==
  ASSUME IInv, ReportsInv, NEW f \in Channels,
         setcl(f) \/ incr(f) \/ nonincr(f) \/ mask(f) \/ imm(f) \/ NoWrites(f)
  PROVE  ReportsInv'
<1> DEFINE w == Opcode(f)
           rs == Registers(w)
           vs == Following(f, Len(rs))
           p == hook[f].position
<1>1. hook[f].at = "parse" /\ hook[f].position < hook[f].num_words
  BY DEF setcl, incr, nonincr, mask, imm, NoWrites, Handled, Parses
<1>2. OpcodeOf(w)
  <2> DEFINE words == Gathers(f)[Taken(f)]
  <2>1. Len(words) \in Nat /\ ParseInv(f)
    BY <1>1, Parsing
  <2>2. PICK S \in SUBSET (0..Len(words)) : OpcodesAt(words, S) /\ p \in S
    BY <2>1 DEF ParseInv
  <2>3. hook[f].num_words = Len(words) /\ \A k \in 1..Len(words) : hook[f].words[k] = words[k]
    BY <2>1 DEF ParseInv
  <2>4. p # Len(words) /\ p + 1 \in 1..Len(words) /\ p + 1 + 0 = p + 1
    <3>1. p < Len(words) /\ p \in 0..Len(words)
      BY <1>1, <2>2, <2>3
    <3> HIDE DEF p, words
    <3> QED
      BY <2>1, <3>1
  <2>5. OpcodeOf(words[p + 1])
    <3> HIDE DEF p, words
    <3> QED
      BY <2>2, <2>4 DEF OpcodesAt
  <2>6. w = hook[f].words[p + 1 + 0]
    BY DEF Opcode, After
  <2>7. w = words[p + 1]
    BY <2>3, <2>4, <2>6
  <2> QED
    BY <2>5, <2>7
<1>3. Len(rs) \in Nat /\ Data(w) = (IF w.op = "IMM" THEN 0 ELSE Len(rs))
  <2> HIDE DEF w
  <2> QED
    BY <1>2, RegistersOf
<1>4. \A k \in 1..Len(rs) : vs[k] = After(f, k)
  BY DEF Following
<1>5. CASE setcl(f) \/ incr(f) \/ nonincr(f) \/ mask(f)
  <2>1. /\ Report(f, IF w.op = "SETCL" THEN w.class ELSE hook[f].class, rs, vs, 1 + Len(rs))
        /\ w.op # "IMM"
    BY <1>5 DEF setcl, incr, nonincr, mask, Handled, Parses
  <2>2. Data(w) = Len(rs)
    BY <1>3, <2>1
  <2> HIDE DEF vs
  <2> QED
    BY <1>1, <1>4, <2>1, <2>2, OpcodeReports
<1>6. CASE imm(f)
  <2> DEFINE us == <<Value(w.n)>>
  <2>1. Report(f, IF w.op = "SETCL" THEN w.class ELSE hook[f].class, rs, us, 1) /\ w.op = "IMM"
    BY <1>6 DEF imm, Parses
  <2>2. Data(w) = 0 /\ us[1] = Value(w.n) /\ 1 + 0 = 1
    BY <1>3, <2>1
  <2>3. \A k \in 1..Data(w) : us[k] = After(f, k)
    BY <2>2
  <2> HIDE DEF us
  <2> QED
    BY <1>1, <2>1, <2>2, <2>3, OpcodeReports
<1>7. CASE NoWrites(f)
  <2> DEFINE us == <<>>
  <2>1. /\ Report(f, hook[f].class, <<>>, us, 1)
        /\ w.op \in {"RESTART", "EXTEND", "CHDONE"}
    BY <1>7 DEF NoWrites, Parses, Skip
  <2>2. rs = <<>> /\ Data(w) = 0 /\ 1 + 0 = 1
    BY <1>3, <2>1 DEF Registers
  <2>3. \A k \in 1..Data(w) : us[k] = After(f, k)
    BY <2>2
  <2>4. Report(f, IF w.op = "SETCL" THEN w.class ELSE hook[f].class, rs, us, 1 + Data(w)) /\ w.op # "IMM"
    BY <2>1, <2>2
  <2> HIDE DEF us
  <2> QED
    BY <1>1, <2>3, <2>4, OpcodeReports
<1> QED
  BY <1>5, <1>6, <1>7

\* The channel has executed one command buffer more.
LEMMA ParseEndsReports ==
  ASSUME IInv, ReportsInv, NEW f \in Channels, ParseEnds(f)
  PROVE  ReportsInv'
<1> DEFINE G == Gathers(f)
           t == Taken(f)
           words == G[t]
           gs == GatherStates(channel[f], G)
           p == hook[f].position
<1>1. /\ hook[f].at = "parse" /\ p >= hook[f].num_words
      /\ classid' = [classid EXCEPT ![f] = hook[f].class]
      /\ hook' = [hook EXCEPT ![f] = [at |-> "loop", buffer |-> @.buffer]]
      /\ UNCHANGED <<program, todo, unsent, job, d, writes, shown, channel>>
  BY DEF ParseEnds, told, NextClass
<1>2. /\ unsent[f] # None /\ Len(G) \in Nat /\ t \in 1..Len(G) /\ Len(words) \in Nat
      /\ Reached(f) = States(gs[t - 1], words)[p] /\ ParseInv(f)
  BY <1>1, Parsing
<1>3. p = Len(words)
  <2>1. p \in 0..Len(words) /\ p >= Len(words)
    BY <1>1, <1>2 DEF ParseInv
  <2> HIDE DEF p, words
  <2> QED
    BY <1>2, <2>1
<1>4. gs[t] = Executed(gs[t - 1], words)
  <2>1. t - 1 \in 0..Len(G) - 1 /\ (t - 1) + 1 = t
    <3> HIDE DEF t, G
    <3> QED
      BY <1>2
  <2> HIDE DEF G, t
  <2>2. \A k \in 0..Len(G) - 1 : gs[k + 1] = Executed(gs[k], G[k + 1])
    BY <1>2, GatherStatesOf
  <2> QED
    BY <2>1, <2>2
<1>5. gs[t] = Reached(f)
  BY <1>2, <1>3, <1>4 DEF Executed
<1>6. /\ hook'[f].at = "loop" /\ classid'[f] = hook[f].class
      /\ DOMAIN classid' = Channels
      /\ \A g \in Channels \ {f} : Alone(g)
  <2>1. DOMAIN hook = Channels /\ DOMAIN classid = Channels
    BY DEF IInv, HookInv, ReportsInv
  <2> QED
    BY <1>1, <2>1 DEF Alone
<1>7. (Reached(f))' = Reached(f)
  <2>1. (Gathers(f))' = G
    BY <1>1, GathersSame
  <2>2. (Taken(f))' = t
    BY <1>1 DEF Taken
  <2>3. (Reached(f))' = GatherStates(channel'[f], (Gathers(f))')[(Taken(f))']
    BY <1>1, <1>2, <1>6 DEF Reached
  <2> QED
    BY <1>1, <1>5, <2>1, <2>2, <2>3
<1>8. ReportedInv(f)'
  <2>1. ReportedInv(f) /\ Reached(f).class = hook[f].class
    BY <1>1 DEF ReportsInv, ReportedInv
  <2> QED
    BY <1>1, <1>6, <1>7, <2>1, LoopStep
<1> QED
  BY <1>1, <1>6, <1>8, OneChannel DEF ReportsInv

\* The channel executes the job: libwrap has been there before.
LEMMA FlushReports ==
  ASSUME IInv, ReportsInv, NEW f \in Channels, Flush(f)
  PROVE  ReportsInv'
<1> DEFINE cs == Head(todo[f]).cmdbufs
           G == Gathers(f)
<1>1. /\ unsent[f] = <<>> /\ hook[f] = NoHook
      /\ channel' = [channel EXCEPT ![f] =
           GatherStates(@, [i \in DOMAIN cs |->
              SubSeq(mem[cs[i].mem], cs[i].offset + 1, cs[i].offset + cs[i].words)])[Len(cs)]]
      /\ todo' = [todo EXCEPT ![f] = Tail(@)]
      /\ unsent' = [unsent EXCEPT ![f] = None]
      /\ UNCHANGED <<program, job, hook, classid, d, writes, shown>>
  BY DEF Flush, parsed
<1>2. unsent[f] # None /\ OpenInv(f)
  BY <1>1, NoneAssumption DEF IInv
<1>3. todo[f] # <<>> /\ \A i \in DOMAIN cs : filled[cs[i].mem] = cs[i].fill
  BY <1>2 DEF OpenInv
<1>4. JobOf(program, Head(todo[f])) /\ Len(cs) \in Nat
  BY <1>3, GathersOf
<1>5. G = [i \in DOMAIN cs |-> SubSeq(mem[cs[i].mem], cs[i].offset + 1, cs[i].offset + cs[i].words)]
  <2>1. ASSUME NEW i \in DOMAIN cs
        PROVE  Sent(cs[i]) = SubSeq(mem[cs[i].mem], cs[i].offset + 1, cs[i].offset + cs[i].words)
    <3> DEFINE c == cs[i]
    <3>1. CmdbufOf(program, c) /\ filled[c.mem] = c.fill
      BY <1>3, <1>4 DEF JobOf
    <3> HIDE DEF c
    <3>2. Sent(c) = SubSeq(mem[c.mem], c.offset + 1, c.offset + c.words)
      BY <3>1, FilledMem DEF IInv
    <3> QED
      BY <3>2 DEF c
  <2>2. G = [i \in DOMAIN cs |-> Sent(cs[i])]
    BY DEF Gathers
  <2> HIDE DEF cs, G
  <2> QED
    BY <2>1, <2>2
<1>6. Taken(f) = Len(cs)
  <2>1. <<job[f].cmdbufs_left, job[f].relocs_left, job[f].waitchks_left, job[f].shifts_left>> = <<0, 0, 0, 0>>
    BY <1>1, SentJobs DEF JobAsSent
  <2>2. job[f].cmdbufs_left = 0
    BY <2>1
  <2>3. Taken(f) = Len(cs) - job[f].cmdbufs_left
    BY DEF Taken
  <2> HIDE DEF cs
  <2> QED
    BY <1>4, <2>2, <2>3
<1>7. hook[f].at # "parse"
  <2>1. hook[f] = NoHook
    BY <1>1
  <2> QED
    BY <2>1 DEF NoHook
<1>8. Reached(f) = GatherStates(channel[f], G)[Len(cs)]
  BY <1>2, <1>6, <1>7 DEF Reached
<1>9. /\ channel'[f] = Reached(f) /\ unsent'[f] = None /\ DOMAIN channel' = Channels
      /\ \A g \in Channels \ {f} : Alone(g)
  <2>1. DOMAIN channel = Channels /\ DOMAIN todo = Channels /\ DOMAIN unsent = Channels
    BY DEF IInv, HookInv, ProgramInv, ReportsInv
  <2>2. channel' = [channel EXCEPT ![f] = GatherStates(channel[f], G)[Len(cs)]]
    BY <1>1, <1>5
  <2>3. channel'[f] = Reached(f) /\ DOMAIN channel' = Channels
    BY <1>8, <2>1, <2>2
  <2>4. \A g \in Channels \ {f} : channel'[g] = channel[g] /\ todo'[g] = todo[g] /\ unsent'[g] = unsent[g]
    BY <1>1, <2>1, <2>2
  <2> QED
    BY <1>1, <2>1, <2>3, <2>4 DEF Alone
<1>10. (Reached(f))' = Reached(f)
  BY <1>9 DEF Reached
<1>11. ReportedInv(f)'
  <2>1. ReportedInv(f) /\ classid'[f] = Reached(f).class
    BY <1>1, <1>7 DEF ReportsInv, ReportedInv
  <2> QED
    BY <1>1, <1>7, <1>10, <2>1, LoopStep
<1> QED
  BY <1>1, <1>9, <1>11, OneChannel DEF ReportsInv

\* A step that is not of a channel
LEMMA OtherSteps ==
  ASSUME ReportsInv, UNCHANGED <<program, todo, unsent, job, hook, classid, d, writes, shown, channel>>
  PROVE  ReportsInv'
<1>1. \A f \in Channels : Alone(f) /\ ReportedInv(f)
  BY DEF Alone, ReportsInv
<1>2. \A f \in Channels : ReportedInv(f)'
  BY <1>1, AloneStep
<1> QED
  BY <1>2 DEF ReportsInv

LEMMA ReportsNext == IInv /\ IInv' /\ ReportsInv /\ [Next]_vars => ReportsInv'
<1> SUFFICES ASSUME IInv, IInv', ReportsInv, [Next]_vars
             PROVE  ReportsInv'
  OBVIOUS
<1>1. ASSUME NEW h \in Handles, Create(h) \/ Mmap(h) \/ Fill(h)
      PROVE  ReportsInv'
  <2>1. UNCHANGED <<program, todo, unsent, job, hook, classid, d, writes, shown, channel>>
    BY <1>1 DEF Create, Mmap, Fill, told, parsed
  <2> QED
    BY <2>1, OtherSteps
<1>2. ASSUME NEW f \in Channels, Submit(f) \/ WriteCall(f) \/ Flush(f)
      PROVE  ReportsInv'
  BY <1>2, SubmitReports, WriteCallReports, FlushReports
<1>3. ASSUME NEW f \in Channels, HookStep(f)
      PROVE  ReportsInv'
  <2>1. CASE AddPushbuf(f)
    BY <2>1, AddPushbufReports
  <2>2. CASE AddReloc(f) \/ AddWaitCheck(f) \/ AddShift(f)
    BY <2>2, OtherStructures
  <2>3. CASE WriteReturns(f)
    BY <2>3, WriteReturnsReports
  <2>4. CASE setcl(f) \/ incr(f) \/ nonincr(f) \/ mask(f) \/ imm(f) \/ NoWrites(f)
    BY <2>4, OpcodesReport
  <2>5. CASE ParseEnds(f)
    BY <2>5, ParseEndsReports
  <2> QED
    BY <1>3, <2>1, <2>2, <2>3, <2>4, <2>5 DEF HookStep
<1>4. CASE UNCHANGED vars
  <2>1. UNCHANGED <<program, todo, unsent, job, hook, classid, d, writes, shown, channel>>
    BY <1>4 DEF vars, told, parsed
  <2> QED
    BY <2>1, OtherSteps
<1> QED
  BY <1>1, <1>2, <1>3, <1>4 DEF Next

\* At every moment libwrap has kept, shown and reported what the channel will have
\* uploaded, drawn and written when it will have executed the words parsed so far, for
\* every set of programs and channels (nvhost_job_add_pushbuf, cdma_parse_commands).
THEOREM InductiveReports == Spec => []ReportsInv
<1>1. Init => ReportsInv
  BY ReportsInit
<1>2. Spec => []IInv
  BY InductiveInvariant
<1>3. IInv /\ IInv' /\ ReportsInv /\ [Next]_vars => ReportsInv'
  BY ReportsNext
<1> QED
  BY <1>1, <1>2, <1>3, PTL DEF Spec

LEMMA ReportsSuffice == IInv /\ ReportsInv => WritesReported /\ ShadersShown
<1> SUFFICES ASSUME IInv, ReportsInv, NEW f \in Channels, Flushed(f)
             PROVE  /\ writes[f] = channel[f].writes /\ classid[f] = channel[f].class
                    /\ shown[f] = channel[f].drawn
  BY DEF WritesReported, ShadersShown
<1>1. unsent[f] = None
  BY DEF Flushed
<1>2. hook[f].at # "parse"
  <2>1. hook[f] = NoHook
    BY <1>1 DEF IInv, HookInv
  <2> QED
    BY <2>1 DEF NoHook
<1>3. Reached(f) = channel[f]
  BY <1>1 DEF Reached
<1>4. /\ Follows([kept |-> d[f], shown |-> shown[f], writes |-> writes[f]], channel[f])
      /\ channel[f].class = classid[f]
  BY <1>2, <1>3 DEF ReportsInv, ReportedInv
<1>5. shown[f] = channel[f].drawn /\ writes[f] = channel[f].writes
  <2> DEFINE c == channel[f]  x == d[f]  y == shown[f]  z == writes[f]
  <2>1. [kept |-> x, shown |-> y, writes |-> z] = [kept |-> Loaded(c), shown |-> c.drawn, writes |-> c.writes]
    BY <1>4 DEF Follows
  <2> HIDE DEF c, x, y, z
  <2>2. y = c.drawn /\ z = c.writes
    BY <2>1
  <2> QED
    BY <2>2 DEF c, y, z
<1> QED
  BY <1>4, <1>5

\* Once a job is flushed libwrap has reported the register writes the channel has made,
\* in their order and with their class, for any contents of the command buffers that end
\* with the words of an opcode, in any number of command buffers and write()s
\* (cdma_parse_commands).
THEOREM WritesCorrect == Spec => []WritesReported
<1> QED
  BY InductiveInvariant, InductiveReports, ReportsSuffice, PTL

\* The shaders libwrap has shown are those the channel has drawn with, for any limits
\* of the instruction memories and any uploads (disasm_write_reg, disasm_dump).
THEOREM ShadersCorrect == Spec => []ShadersShown
<1> QED
  BY InductiveInvariant, InductiveReports, ReportsSuffice, PTL
=============================================================================
