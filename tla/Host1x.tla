------------------------------- MODULE Host1x -------------------------------
(***************************************************************************)
(* libhost1x (libhost1x/host1x.c) on its drivers: the old and the new      *)
(* interface of DRM (host1x-drm.c), and nvhost (host1x-nvhost.c, nvhost.c, *)
(* nvhost-nvmap.c).  Buffer objects, buffers wrapped around a part of      *)
(* another one, their mappings into the two channels, and jobs that are    *)
(* built, submitted and waited for.  One thread uses the library; the      *)
(* kernel and the GPU go on beside it, and the kernel may refuse a call.   *)
(*                                                                         *)
(* host1x_open has opened both channels, and each has a mapped buffer for  *)
(* commands, into whose beginning every job is written.                    *)
(***************************************************************************)
EXTENDS Integers, FiniteSets, Sequences

CONSTANTS
    Bos,        \* addresses of struct drm_bo or nvhost_bo
    Handles,    \* GEM or nvmap handles
    Objs,       \* kernel buffer objects
    Chans,      \* the channels of gr2d and gr3d
    MapIds,     \* mapping ids of a channel
    Sizes,      \* sizes the program asks for
    Guards,     \* guard areas: 0, or PIXBUF_GUARD_AREA_SIZE around a pixelbuffer
    Setups,     \* [driver, refuses, max_jobs]: the interface, the calls that may
                \* fail, and the bound of the model on the jobs
    None        \* a NULL pointer, a free slot or id

ASSUME SizesAssumption == Sizes \subseteq Nat \ {0} /\ Guards \subseteq Nat
ASSUME SetupsAssumption ==
    \A s \in Setups :
        /\ s.driver \in {"drm", "drm2", "nvhost"}
        /\ s.refuses \subseteq {"map", "submit", "flush", "wait"}
        /\ s.max_jobs \in Nat

Slots == 1..2

\* struct drm_bo, and struct nvhost_bo with the pointer of its handle.
DrmBo ==
    [handle : Handles, wrapped : Bos \cup {None}, offset : Nat, size : Nat, ptr : Objs \cup {None},
     mappings : [Slots -> [channel : Chans \cup {None}, id : MapIds \cup {None}]]]
NvhostBo ==
    [handle : Handles, wrapped : Bos \cup {None}, offset : Nat, size : Nat, ptr : Objs \cup {None},
     mapped : Objs \cup {None}]

ASSUME NoneAssumption ==
    /\ None \notin Bos \cup Objs \cup Chans \cup MapIds
    /\ None \notin Nat /\ None \notin DrmBo /\ None \notin NvhostBo

VARIABLES
    setup,      \* never changes
    \* the kernel
    gem,        \* object of each handle
    maps,       \* object of each mapping of each channel
    queue,      \* jobs of each channel that are not finished
    syncpt,     \* value of the channel's syncpoint
    max,        \* value it will have when the queue is empty
    \* libhost1x
    bos,        \* struct drm_bo or nvhost_bo, with its struct host1x_bo
    fence,      \* struct drm_channel; nvhost keeps none
    cmds,       \* the job whose words are in the channel's command buffer
    call,       \* the job under construction, being submitted or waited for
    jobs,       \* jobs built
    \* what the caller has been told
    accepted, answered,
    gaveUp      \* channels on which a wait has failed

kernel == <<gem, maps, queue, syncpt, max>>
told == <<accepted, answered, gaveUp>>
vars == <<setup, kernel, bos, fence, cmds, call, jobs, told>>

Live(b) == bos[b] # None
Orig(b) == IF bos[b].wrapped = None THEN b ELSE bos[b].wrapped
Object(b) == gem[bos[b].handle]
NoCall == [op |-> "none"]
Idle == call = NoCall

\* HOST1X_CLIENT_SUBMIT on the new interface of DRM.
NewUapi == setup.driver = "drm2"
Nvhost  == setup.driver = "nvhost"

Init ==
    /\ setup \in Setups
    /\ gem = [h \in Handles |-> None]
    /\ maps = [c \in Chans |-> [i \in MapIds |-> None]]
    /\ queue = [c \in Chans |-> <<>>]
    /\ syncpt = [c \in Chans |-> 0] /\ max = [c \in Chans |-> 0]
    /\ bos = [b \in Bos |-> None]
    /\ fence = [c \in Chans |-> 0]
    /\ cmds = [c \in Chans |-> 0]
    /\ call = NoCall
    /\ jobs = 0
    /\ accepted = [c \in Chans |-> 0] /\ answered = [c \in Chans |-> 0]
    /\ gaveUp = {}

-----------------------------------------------------------------------------
(* Buffer objects *)

\* The kernel keeps an object for a handle, a mapping or a job that needs it.
InKernel(o) ==
    \/ \E h \in Handles : gem[h] = o
    \/ \E c \in Chans, i \in MapIds : maps[c][i] = o
    \/ \E c \in Chans : \E k \in DOMAIN queue[c] : o \in queue[c][k].objs

\* With the mappings into the channels, of the new interface.
drm_bo(h, n, off) ==
    [handle |-> h, wrapped |-> None, offset |-> off, size |-> n, ptr |-> None,
     mappings |-> [s \in Slots |-> [channel |-> None, id |-> None]]]

\* With handle->ptr, which the clones share: it is that of the original.
nvhost_bo(h, n, off) ==
    [handle |-> h, wrapped |-> None, offset |-> off, size |-> n, ptr |-> None, mapped |-> None]

\* host1x_bo_create; host1x_pixelbuffer_create puts a guard area on either side.
\* When the kernel refuses, nothing is left.
bo_create(b, h, o, n, g) ==
    /\ Idle /\ ~Live(b)
    /\ gem[h] = None /\ ~InKernel(o)
    /\ gem' = [gem EXCEPT ![h] = o]
    /\ bos' = [bos EXCEPT ![b] = IF Nvhost THEN nvhost_bo(h, n + 2 * g, g) ELSE drm_bo(h, n + 2 * g, g)]
    /\ UNCHANGED <<setup, maps, queue, syncpt, max, fence, cmds, call, jobs, told>>

\* host1x_bo_import of the name host1x_bo_export gave: another handle of the
\* object; the size stays 0.  On nvhost there is neither.
bo_import(b, h, src) ==
    /\ Idle /\ ~Live(b) /\ Live(src) /\ ~Nvhost
    /\ gem[h] = None
    /\ gem' = [gem EXCEPT ![h] = Object(src)]
    /\ bos' = [bos EXCEPT ![b] = drm_bo(h, 0, 0)]
    /\ UNCHANGED <<setup, maps, queue, syncpt, max, fence, cmds, call, jobs, told>>

\* Mutant: the size of the wrapped buffer is left out of the check.
WrapEnd_NoSize(b, off, n) == bos[b].offset + off + n

\* End of the part of the original that host1x_bo_wrap(b, off, n) asks for.
WrapEnd(b, off, n) ==
    bos[b].offset + (IF bos[b].wrapped # None THEN bos[b].size ELSE 0) + off + n

\* The new struct is a clone, mappings included, with an address range of its own.
bo_wrap(w, b, off, n) ==
    /\ Idle /\ ~Live(w) /\ Live(b)
    /\ WrapEnd(b, off, n) <= bos[Orig(b)].size
    /\ bos' = [bos EXCEPT ![w] =
         [bos[b] EXCEPT !.offset = @ + (IF bos[b].wrapped # None THEN bos[b].size ELSE 0) + off,
                        !.wrapped = Orig(b), !.size = n, !.ptr = None]]
    /\ UNCHANGED <<setup, kernel, fence, cmds, call, jobs, told>>

\* The mapping is made once and noted in the original; mmap() of 0 bytes fails.
drm_bo_mmap(b) ==
    LET o == Orig(b)
        p == IF bos[o].ptr # None THEN bos[o].ptr ELSE Object(b)
    IN /\ ~Nvhost
       /\ bos[o].ptr # None \/ bos[o].size > 0
       /\ bos' = [x \in Bos |-> IF x \in {o, b} THEN [bos[x] EXCEPT !.ptr = p] ELSE bos[x]]

\* Noted in the handle: the original does not learn of it.
nvhost_bo_mmap(b) ==
    LET o == Orig(b)
        p == IF bos[o].mapped # None THEN bos[o].mapped ELSE Object(b)
        Noted == [bos EXCEPT ![o].mapped = p]
    IN /\ Nvhost
       /\ bos' = [Noted EXCEPT ![b].ptr = p]

bo_mmap(b) ==
    /\ Idle /\ Live(b)
    /\ drm_bo_mmap(b) \/ nvhost_bo_mmap(b)
    /\ UNCHANGED <<setup, kernel, fence, cmds, call, jobs, told>>

\* Mutant: the mappings and the handle of a wrapped buffer are released with it.
OwnsKernelObjects_Always(b) == TRUE

OwnsKernelObjects(b) == bos[b].wrapped = None

\* The slots drm_bo_free looks at: it stops at the first one that is free.
Unmapped(b) ==
    {s \in Slots : \A r \in 1..s : bos[b].mappings[r].id # None}

Closed(b) == [gem EXCEPT ![bos[b].handle] = None]

drm_bo_free(b) ==
    /\ ~Nvhost
    /\ IF OwnsKernelObjects(b)
       THEN /\ gem' = Closed(b)
            /\ maps' = [c \in Chans |-> [i \in MapIds |->
                 IF \E s \in Unmapped(b) : bos[b].mappings[s] = [channel |-> c, id |-> i]
                 THEN None ELSE maps[c][i]]]
       ELSE UNCHANGED <<gem, maps>>

nvhost_bo_free(b) ==
    /\ Nvhost
    /\ gem' = IF OwnsKernelObjects(b) THEN Closed(b) ELSE gem
    /\ UNCHANGED maps

\* The program frees the buffers wrapped around a part of b first.
bo_free(b) ==
    /\ Idle /\ Live(b)
    /\ \A w \in Bos : Live(w) => bos[w].wrapped # b
    /\ bos' = [bos EXCEPT ![b] = None]
    /\ drm_bo_free(b) \/ nvhost_bo_free(b)
    /\ UNCHANGED <<setup, queue, syncpt, max, fence, cmds, call, jobs, told>>

-----------------------------------------------------------------------------
(* Jobs: host1x_job_create, _append, _push and _relocate; then submit,     *)
(* flush and wait, as in host1x_gr2d_clear_rect and grate_3d_draw_elements *)

\* The job's words go to the beginning of the channel's command buffer.
Build(c, T) ==
    /\ Idle
    /\ jobs < setup.max_jobs
    /\ jobs' = jobs + 1
    /\ cmds' = [cmds EXCEPT ![c] = jobs + 1]
    /\ call' = [op |-> "submit", chan |-> c, job |-> jobs + 1,
                wanted |-> {Object(b) : b \in T}, todo |-> T, objs |-> {}]
    /\ UNCHANGED <<setup, kernel, bos, fence, told>>

Refuses(what) == what \in setup.refuses
Failed == call' = NoCall

\* The old interface, and nvhost, name the target's handle.
Target(b) ==
    /\ ~NewUapi
    /\ call' = [call EXCEPT !.todo = @ \ {b}, !.objs = @ \cup {Object(b)}]
    /\ UNCHANGED <<setup, kernel, bos, fence, cmds, jobs, told>>

\* Mutant: any mapping of the buffer will do.
Cached_AnyChannel(b, c) ==
    {s \in Slots : bos[b].mappings[s].id # None /\
                    \A r \in 1..(s - 1) : bos[b].mappings[r].id = None}

\* the slot of the mapping into channel c
Cached(b, c) == {s \in Slots : bos[b].mappings[s].channel = c}

\* the slot drm_bo_map fills: the last free one
FreeSlot(b) ==
    {s \in Slots : /\ bos[b].mappings[s].id = None
                   /\ \A r \in Slots : r > s => bos[b].mappings[r].id # None}

\* drm_bo_map: the new interface names the mapping of the target into the
\* channel, which is made the first time.
bo_map(b) ==
    LET c == call.chan IN
    /\ NewUapi
    /\ \/ \E s \in Cached(b, c) :
            /\ call' = [call EXCEPT !.todo = @ \ {b},
                                    !.objs = @ \cup {maps[c][bos[b].mappings[s].id]}]
            /\ UNCHANGED <<bos, maps>>
       \/ /\ Cached(b, c) = {}
          /\ \E s \in FreeSlot(b), i \in MapIds :
               /\ maps[c][i] = None
               /\ maps' = [maps EXCEPT ![c][i] = Object(b)]
               /\ bos' = [bos EXCEPT ![b].mappings[s] = [channel |-> c, id |-> i]]
               /\ call' = [call EXCEPT !.todo = @ \ {b}, !.objs = @ \cup {Object(b)}]
       \/ /\ Cached(b, c) = {}
          /\ Refuses("map") \/ FreeSlot(b) = {} \/ \A i \in MapIds : maps[c][i] # None
          /\ Failed
          /\ UNCHANGED <<bos, maps>>
    /\ UNCHANGED <<setup, gem, queue, syncpt, max, fence, cmds, jobs, told>>

Relocate(b) == call.op = "submit" /\ b \in call.todo /\ (Target(b) \/ bo_map(b))

Told(c) == accepted' = [accepted EXCEPT ![c] = @ + 1] /\ call' = [op |-> "flush", chan |-> c]

\* Mutant: the fence is not stored.
Fence_Not(c) == fence

\* channel->fence = args.fence
Fence(c) == [fence EXCEPT ![c] = max'[c]]

\* The kernel takes the job; its words are those given here, or those the GPU
\* will find in the command buffer.
Enqueue(c, words) ==
    /\ max' = [max EXCEPT ![c] = @ + 1]
    /\ queue' = [queue EXCEPT ![c] = Append(@,
         [job |-> call.job, wanted |-> call.wanted, objs |-> call.objs, words |-> words])]

drm_channel_submit(c)   == setup.driver = "drm"  /\ Enqueue(c, None)    /\ fence' = Fence(c)
drm_channel_submit2(c)  == setup.driver = "drm2" /\ Enqueue(c, cmds[c]) /\ fence' = Fence(c)
nvhost_client_submit(c) == Nvhost /\ Enqueue(c, None) /\ UNCHANGED fence

Submit ==
    LET c == call.chan IN
    /\ call.op = "submit" /\ call.todo = {}
    /\ None \notin call.objs
    /\ drm_channel_submit(c) \/ drm_channel_submit2(c) \/ nvhost_client_submit(c)
    /\ Told(c)
    /\ UNCHANGED <<setup, gem, maps, syncpt, bos, cmds, jobs, answered, gaveUp>>

\* drm_channel_submit and nvhost_client_submit return the error of the ioctl,
\* drm_channel_submit2 returns 0.
SubmitRefused ==
    /\ call.op = "submit" /\ call.todo = {}
    /\ Refuses("submit") \/ None \in call.objs
    /\ IF NewUapi THEN Told(call.chan) ELSE Failed /\ UNCHANGED accepted
    /\ UNCHANGED <<setup, kernel, bos, fence, cmds, jobs, answered, gaveUp>>

\* The channel's fence; nvhost asks the kernel for that of the last job, and
\* without an answer the caller does not wait.
drm_channel_flush(c) ==
    /\ ~Nvhost
    /\ call' = [op |-> "wait", chan |-> c, fence |-> fence[c]]
    /\ UNCHANGED gaveUp

nvhost_client_flush(c) ==
    /\ Nvhost
    /\ \/ call' = [op |-> "wait", chan |-> c, fence |-> max[c]] /\ UNCHANGED gaveUp
       \/ Refuses("flush") /\ call' = NoCall /\ gaveUp' = gaveUp \cup {c}

Flush ==
    /\ call.op = "flush"
    /\ drm_channel_flush(call.chan) \/ nvhost_client_flush(call.chan)
    /\ UNCHANGED <<setup, kernel, bos, fence, cmds, jobs, accepted, answered>>

Wait ==
    LET c == call.chan IN
    /\ call.op = "wait"
    /\ \/ /\ syncpt[c] >= call.fence
          /\ answered' = [answered EXCEPT ![c] = accepted[c]]
          /\ UNCHANGED gaveUp
       \/ /\ Refuses("wait")
          /\ gaveUp' = gaveUp \cup {c}
          /\ UNCHANGED answered
    /\ call' = NoCall
    /\ UNCHANGED <<setup, kernel, bos, fence, cmds, jobs, accepted>>

\* The GPU finishes the first job of a channel.
Execute(c) ==
    /\ queue[c] # <<>>
    /\ queue' = [queue EXCEPT ![c] = Tail(@)]
    /\ syncpt' = [syncpt EXCEPT ![c] = @ + 1]
    /\ UNCHANGED <<setup, gem, maps, max, bos, fence, cmds, call, jobs, told>>

-----------------------------------------------------------------------------
Targets == {T \in SUBSET {b \in Bos : Live(b)} : T # {}}

Next ==
    \/ \E b \in Bos, h \in Handles :
        \/ \E o \in Objs, n \in Sizes, g \in Guards : bo_create(b, h, o, n, g)
        \/ \E src \in Bos : bo_import(b, h, src)
    \/ \E w, b \in Bos, off \in {0} \cup Sizes, n \in Sizes : bo_wrap(w, b, off, n)
    \/ \E b \in Bos : bo_mmap(b) \/ bo_free(b) \/ Relocate(b)
    \/ \E c \in Chans, T \in Targets : Build(c, T)
    \/ Submit
    \/ SubmitRefused
    \/ Flush
    \/ Wait
    \/ \E c \in Chans : Execute(c)

Spec == Init /\ [][Next]_vars

Calls ==
    {NoCall}
    \cup [op : {"submit"}, chan : Chans, job : Nat, wanted : SUBSET Objs, todo : SUBSET Bos, objs : SUBSET Objs]
    \cup [op : {"flush"}, chan : Chans]
    \cup [op : {"wait"}, chan : Chans, fence : Nat]
Jobs == [job : Nat, wanted : SUBSET Objs, objs : SUBSET Objs, words : Nat \cup {None}]

TypeOK ==
    /\ setup \in Setups
    /\ gem \in [Handles -> Objs \cup {None}]
    /\ maps \in [Chans -> [MapIds -> Objs \cup {None}]]
    /\ queue \in [Chans -> Seq(Jobs)]
    /\ syncpt \in [Chans -> Nat] /\ max \in [Chans -> Nat]
    /\ bos \in [Bos -> (IF Nvhost THEN NvhostBo ELSE DrmBo) \cup {None}]
    /\ fence \in [Chans -> Nat] /\ cmds \in [Chans -> Nat]
    /\ call \in Calls
    /\ jobs \in 0..setup.max_jobs
    /\ accepted \in [Chans -> Nat] /\ answered \in [Chans -> Nat]
    /\ gaveUp \in SUBSET Chans

-----------------------------------------------------------------------------
(* Properties *)

\* Every kernel handle belongs to exactly one buffer that is not wrapped, and a
\* wrapped buffer names the handle of its original, which is still there
\* (drm_bo_create, drm_bo_clone, drm_bo_free): none is leaked, closed twice or
\* used after another buffer was given it.
HandlesOwned ==
    /\ \A h \in Handles :
        Cardinality({b \in Bos : Live(b) /\ bos[b].wrapped = None /\ bos[b].handle = h})
            = IF gem[h] = None THEN 0 ELSE 1
    /\ \A w \in Bos : Live(w) /\ bos[w].wrapped # None =>
        /\ Live(bos[w].wrapped)
        /\ bos[bos[w].wrapped].wrapped = None
        /\ bos[bos[w].wrapped].handle = bos[w].handle

\* What a buffer remembers is true: its mappings exist in the kernel and are
\* mappings of its object, its pointer and its nvmap handle's show its object
\* (drm_bo_map, drm_bo_mmap, drm_bo_clone, drm_bo_free, nvmap_handle_mmap).
CachesTrue ==
    \A b \in Bos : Live(b) =>
        /\ bos[b].ptr \in {None, Object(b)}
        /\ IF Nvhost THEN bos[b].mapped \in {None, Object(b)}
           ELSE \A s \in Slots : LET m == bos[b].mappings[s] IN
                  m.id # None => maps[m.channel][m.id] = Object(b)

\* A job that waits for the GPU names the objects of the buffers it was built
\* for, no more and no less (host1x_pushbuf_relocate, drm_bo_map, submit).
JobsHitTheirTargets ==
    \A c \in Chans : \A k \in DOMAIN queue[c] : queue[c][k].objs = queue[c][k].wanted

\* Unless a wait has failed, the words of a job that waits for the GPU have not
\* been overwritten by those of a later one (host1x_job_append at offset 0).
CommandsIntact ==
    \A c \in Chans \ gaveUp : \A k \in DOMAIN queue[c] :
        queue[c][k].job = IF queue[c][k].words = None THEN cmds[c] ELSE queue[c][k].words

\* A wrapped buffer lies inside its original (host1x_bo_wrap).
WrappedInside ==
    \A w \in Bos : Live(w) /\ bos[w].wrapped # None =>
        bos[w].offset + bos[w].size <= bos[bos[w].wrapped].size

\* The library keeps the promise of struct host1x_client.
Promise == INSTANCE JobPromise WITH Clients <- Chans, finished <- syncpt
KeepsPromise == Promise!Spec

-----------------------------------------------------------------------------
(* The inductive invariant: what relates the buffers, the call under way,  *)
(* the command buffers and the kernel's queues between any two steps.      *)

OwnerOf(b, h) == Live(b) /\ bos[b].wrapped = None /\ bos[b].handle = h

\* A clone has the handle of its original, and an open handle one owner.
HandleInv ==
    /\ \A b \in Bos : Live(b) => gem[bos[b].handle] # None
    /\ \A h \in Handles : gem[h] # None => \E b \in Bos : OwnerOf(b, h)
    /\ \A h \in Handles : \A a, b \in Bos : OwnerOf(a, h) /\ OwnerOf(b, h) => a = b
    /\ \A w \in Bos : Live(w) /\ bos[w].wrapped # None => OwnerOf(bos[w].wrapped, bos[w].handle)

\* What is remembered; two buffers share a mapping only if they share a handle.
MappingInv == ~Nvhost => \A b \in Bos : Live(b) => \A s \in Slots :
    LET m == bos[b].mappings[s] IN
    /\ m.channel = None <=> m.id = None
    /\ m.id # None => /\ maps[m.channel][m.id] = Object(b)
                      /\ \A a \in Bos : Live(a) => \A r \in Slots :
                           bos[a].mappings[r] = m => bos[a].handle = bos[b].handle
PointerInv == \A b \in Bos : Live(b) =>
    /\ bos[b].ptr \in {None, Object(b)}
    /\ Nvhost => bos[b].mapped \in {None, Object(b)}

\* The job under construction.
CallInv == call.op = "submit" =>
    /\ \A b \in call.todo : Live(b)
    /\ call.wanted = call.objs \cup {Object(b) : b \in call.todo}
    /\ call.job = cmds[call.chan]

\* The jobs in the queues, and the fence their channel is waited for with.
SyncptInv == \A c \in Chans : syncpt[c] + Len(queue[c]) = max[c]
FenceInv ==
    /\ ~Nvhost => \A c \in Chans : fence[c] = max[c]
    /\ call.op = "wait" => call.fence = max[call.chan]
WordsInv == \A c \in Chans : \A k \in DOMAIN queue[c] :
    queue[c][k].words = IF NewUapi THEN queue[c][k].job ELSE None

\* A channel is at rest unless its last job is being waited for.
QuietInv == ~NewUapi => \A c \in Chans \ gaveUp :
    ~(call.op \in {"flush", "wait"} /\ call.chan = c) => queue[c] = <<>>

BuffersInv == HandleInv /\ MappingInv /\ PointerInv /\ WrappedInside
JobsInv ==
    /\ CallInv /\ JobsHitTheirTargets
    /\ SyncptInv /\ FenceInv /\ WordsInv /\ QuietInv /\ CommandsIntact
IInv == TypeOK /\ BuffersInv /\ JobsInv

\* Where the new interface of DRM does not hide a refusal from its caller,
\* the kernel has taken every job of which the caller was told so.
RefusalsTold == \A s \in Setups : s.driver = "drm2" => "submit" \notin s.refuses
AcceptedInv == \A c \in Chans : accepted[c] = max[c]
=============================================================================
