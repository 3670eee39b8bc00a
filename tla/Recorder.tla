------------------------------ MODULE Recorder ------------------------------
(***************************************************************************)
(* libwrap between a DRM program and the kernel (libwrap/host1x.c), and    *)
(* the recorder it feeds (libwrap/recorder.c).  Every replaced ioctl has   *)
(* an enter hook, the kernel's own step and a leave hook.  The hooks keep  *)
(* a shadow of the program's buffers, framebuffers and channels and write  *)
(* records.  Hooks run under ioctl_lock; the kernel's step, open() and     *)
(* close() do not, and every fwrite() is a step of its own.                *)
(*                                                                         *)
(* The kernel is modelled as far as the hooks can see it.  The GPU has     *)
(* finished a job when the submit returns: the traced program waits for    *)
(* its jobs before it goes on.                                             *)
(***************************************************************************)
EXTENDS RecordFormat, FiniteSets

CONSTANTS
    Threads,        \* threads of the traced program
    Files,          \* open file descriptions of the DRM device
    Handles,        \* GEM handles of one file
    Objs,           \* kernel buffer objects
    FbIds,          \* kernel framebuffer ids
    OtherFbs,       \* those of a format that libwrap does not record
    Chans,          \* channel contexts of one file
    FewPages,       \* 4: a buffer with more pages is sampled
    Values,         \* contents of a page
    Incompressible, \* page contents deflate() cannot fit in 3328 bytes
    Programs        \* the traced programs, and the builds of libwrap they run on

\* What a member of Programs says
Program ==
    [ops : SUBSET {"create", "open", "mmap", "close", "write", "flags", "bad", "fb",
                   "channel", "close_channel", "submit", "render", "close_file",
                   "close_fd", "disk_full"},
                                \* the calls it makes, and what happens to it
     files : SUBSET Files, handles : SUBSET Handles,
     sizes : SUBSET (Nat \ {0}),        \* of its buffers, in pages
     values : SUBSET Values,            \* it writes to them
     buffers : Nat,             \* bound of the model on the objects that exist at a time
     keep_handles : BOOLEAN,    \* it keeps the handle of a live framebuffer
     one_fb : BOOLEAN,          \* it never has two framebuffers on a buffer
     racy_start : BOOLEAN,      \* two threads may both be the first to open the device
     checksums : BOOLEAN,       \* built with zlib: calc_page_checksum() works
     compression : {"none", "zlib", "lz4"},
     max_ids : Nat]             \* bound of the model on the ids handed out per counter

\* A file that was opened while the recorder was not ready has no struct rec_ctx.
NullCtx == -1

\* Why libwrap kills a program
Reasons == {"invalid handle", "cmdbuf not mapped", "ctx is NULL", "bo->ctx is NULL",
            "mmap failed", "deflate failed", "fwrite failed"}

ASSUME NoneAssumption ==
    /\ None \notin Objs \cup FbIds \cup 0..(IdMod - 1)
    /\ None # NullCtx /\ None \notin Files \cup Reasons
ASSUME BoundsAssumption == FewPages \in Nat
ASSUME OtherFbsAssumption == OtherFbs \subseteq FbIds
ASSUME ValuesAssumption == Zero \in Values /\ Incompressible \subseteq Values
ASSUME ProgramsAssumption ==
    \A q \in Programs :
        /\ q.files \subseteq Files /\ q.handles \subseteq Handles /\ IsFiniteSet(q.handles)
        /\ q.sizes \subseteq Nat \ {0} /\ q.values \subseteq Values
        /\ q.buffers \in Nat /\ q.max_ids \in Nat

VARIABLES
    program,    \* never changes
    \* the kernel
    gem,        \* handle table of each file
    mapped,     \* handles the program has mapped
    mem,        \* contents of the buffer objects
    kfb,        \* framebuffers
    crtc,       \* framebuffer on the screen
    rendered,   \* pages the GPU has written
    no_fd,      \* files whose first descriptor is closed while a duplicate is left:
                \* fd of their struct file is -1
    \* libwrap's shadow of a file
    rec_ctx,    \* id of its record context, None: not open or not recorded
    bos,        \* its list of struct host1x_bo with their struct bo_rec
    contexts,   \* its list of channels with their job contexts
    \* the recorder
    inited, enabled, ctx_cnt, bos_cnt, job_ctx_cnt,
    \* the calls under way
    call,       \* of each thread: the replaced call it is in
    out,        \* of each thread: the fwrite()s it still has to do
    lock,       \* owner of ioctl_lock
    aborted     \* why libwrap killed the program

kernel == <<gem, mapped, mem, kfb, crtc, rendered, no_fd>>
shadow == <<rec_ctx, bos, contexts>>
recorder == <<inited, enabled, ctx_cnt, bos_cnt, job_ctx_cnt>>
recVars == <<program, kernel, shadow, recorder, call, out, lock, aborted>>

-----------------------------------------------------------------------------
(* The shadow lists *)

IndexOf(s, Test(_)) == {i \in DOMAIN s : Test(s[i]) /\ \A j \in 1..(i - 1) : ~Test(s[j])}

\* Mutant: the newest buffer with the handle is found.
file_lookup_bo_Last(f, h) ==
    {i \in DOMAIN bos[f] : /\ bos[f][i].handle = h
                           /\ \A j \in DOMAIN bos[f] : j > i => bos[f][j].handle # h}

\* host1x_file_lookup_bo, _fb and _context: the position in the list, or nothing
file_lookup_bo(f, h) == IndexOf(bos[f], LAMBDA b : b.handle = h)
file_lookup_fb(f, b) == IndexOf(bos[f], LAMBDA r : r.fb_id = b)
file_lookup_context(f, c) == IndexOf(contexts[f], LAMBDA x : x.chan = c)

IsOpen(f) == rec_ctx[f] # None

\* Thread t is inside "op" on file f, buffer object o; u are the handles in use.
Call(op, f, h, o, u) == [op |-> op, file |-> f, handle |-> h, obj |-> o, uses |-> u]
NoCall == Call("none", None, None, None, {})

\* ... in open() with the count n it has read, and in SUBMIT on channel c with a job
\* that writes w to one of the buffers hs.
Counting(f, n) ==
    [op |-> "counting", file |-> f, handle |-> None, obj |-> None, uses |-> {}, count |-> n]
Submitting(f, c, u, w, hs) ==
    [op |-> "submit", file |-> f, handle |-> c, obj |-> None, uses |-> u, write |-> w,
     order |-> hs]

\* The program never keeps an object while IdMod later ones are created: the
\* 16-bit id the next one gets is free.
Fresh(cnt, live) == cnt % IdMod \notin live

NoFb == [file |-> None, obj |-> None]

Alive == aborted = None
Idle(t) == Alive /\ call[t] = NoCall /\ out[t] = <<>>
Busy(f) == \E t \in Threads : call[t].file = f
\* The program has the descriptor: open() has returned.
Known(f) ==
    IsOpen(f) /\ \A t \in Threads : call[t].file = f => call[t].op \notin {"start", "opening"}
InUse(f, h) == \E t \in Threads : call[t].file = f /\ h \in call[t].uses

\* The kernel has done its part of a call; the leave hook comes next.
Entered(t, c) ==
    /\ Idle(t)
    /\ call' = [call EXCEPT ![t] = c]
    /\ UNCHANGED <<shadow, recorder, out, lock, aborted>>

\* A hook runs when nobody holds ioctl_lock.
Hook(t, op) == Alive /\ call[t].op = op /\ out[t] = <<>> /\ lock = None

\* The hook's fwrite()s; the lock is free again after the last of them.
Write(t, s) ==
    /\ out' = [out EXCEPT ![t] = s]
    /\ lock' = IF s = <<>> THEN None ELSE t
    /\ UNCHANGED <<inited, enabled, aborted>>

\* The call of t on file f returns once its records s are written.
Return(t, f, u, s) ==
    call' = [call EXCEPT ![t] =
               IF s = <<>> THEN NoCall ELSE Call("return", f, None, None, u)]

Finish(t, s) == Write(t, s) /\ Return(t, call[t].file, call[t].uses, s)

Abort(why) ==
    /\ aborted' = why
    /\ UNCHANGED <<kernel, shadow, recorder, call, out, lock>>

RecorderInit ==
    /\ program \in Programs
    /\ gem = [f \in Files |-> [h \in Handles |-> None]]
    /\ mapped = {}
    /\ \E n \in program.sizes : mem = [o \in Objs |-> [p \in 1..n |-> Zero]]
    /\ kfb = [b \in FbIds |-> NoFb]
    /\ crtc = None
    /\ rendered = {}
    /\ no_fd = {}
    /\ rec_ctx = [f \in Files |-> None]
    /\ bos = [f \in Files |-> <<>>]
    /\ contexts = [f \in Files |-> <<>>]
    /\ inited = FALSE /\ enabled = FALSE
    /\ ctx_cnt = 0 /\ bos_cnt = 0 /\ job_ctx_cnt = 0
    /\ call = [t \in Threads |-> NoCall]
    /\ out = [t \in Threads |-> <<>>]
    /\ lock = None /\ aborted = None

-----------------------------------------------------------------------------
(* open() and close(): not under ioctl_lock *)

\* record_create_ctx after recorder_enabled: "rec.ctx_cnt++" is not locked, two
\* threads may both read the same count.
NewContext(t, f) ==
    /\ Fresh(ctx_cnt, {rec_ctx[e] : e \in Files})
    /\ call' = [call EXCEPT ![t] = Counting(f, ctx_cnt)]

Counted(t) ==
    LET n == call[t].count
        f == call[t].file
    IN
    /\ Alive /\ call[t].op = "counting"
    /\ rec_ctx' = [rec_ctx EXCEPT ![f] = n % IdMod]
    /\ ctx_cnt' = n + 1
    /\ out' = [out EXCEPT ![t] = <<Rec("CTX_CREATE", n % IdMod, None)>>]
    /\ call' = [call EXCEPT ![t] = Call("opening", f, None, None, {})]
    /\ UNCHANGED <<kernel, bos, contexts, inited, enabled, bos_cnt, job_ctx_cnt, lock, aborted>>

\* A kernel with the DRM driver has no /dev/nvhost-ctrl.
record_start(t, f) ==
    /\ out' = [out EXCEPT ![t] = <<[act |-> "START", code |-> 0],
                    [act |-> "INFO", code |-> 1, drm |-> TRUE,
                     compression |-> program.compression]>>]
    /\ call' = [call EXCEPT ![t] = Call("start", f, None, None, {})]

\* recorder_enabled() sets "inited" before the file is opened and "enabled"
\* only afterwards: whoever calls it in between is told not to record.
OpenFile(t, f) ==
    /\ Idle(t)
    /\ f \in program.files
    /\ ~IsOpen(f) /\ ~Busy(f)
    /\ ctx_cnt < program.max_ids
    /\ \/ /\ enabled
          /\ NewContext(t, f)
          /\ UNCHANGED <<rec_ctx, inited, out>>
       \/ /\ ~inited
          /\ inited' = TRUE
          /\ record_start(t, f)
          /\ UNCHANGED rec_ctx
       \/ /\ inited /\ ~enabled
          /\ rec_ctx' = [rec_ctx EXCEPT ![f] = NullCtx]
          /\ UNCHANGED <<inited, out, call>>
    /\ UNCHANGED <<kernel, bos, contexts, enabled, ctx_cnt, bos_cnt, job_ctx_cnt, lock,
                   aborted>>

\* A second thread has read "inited" before the first one set it.  (In the code
\* it can be delayed longer than the first one's record_start.)
StartAgain(t, f) ==
    /\ program.racy_start
    /\ Idle(t)
    /\ f \in program.files
    /\ ~enabled /\ ~Busy(f)
    /\ \A e \in Files : ~IsOpen(e)
    /\ \E s \in Threads : call[s].op = "start"
    /\ record_start(t, f)
    /\ UNCHANGED <<kernel, shadow, recorder, lock, aborted>>

\* record_start has returned
Started(t) ==
    /\ Alive /\ call[t].op = "start" /\ out[t] = <<>>
    /\ enabled' = TRUE
    /\ NewContext(t, call[t].file)
    /\ UNCHANGED <<kernel, shadow, inited, ctx_cnt, bos_cnt, job_ctx_cnt, out, lock, aborted>>

\* Mutant: the buffers are only freed, not recorded.
Released_NoBuffers(f) ==
    [i \in DOMAIN contexts[f] |-> Rec("JOB_CTX_DESTROY", contexts[f][i].id, None)]
      \o <<Rec("CTX_DESTROY", rec_ctx[f], None)>>

\* host1x_file_release: the records of the buffers, the channels, the context
Released(f) ==
    [i \in DOMAIN bos[f] |-> Rec("BO_DESTROY", bos[f][i].id, rec_ctx[f])]
      \o [i \in DOMAIN contexts[f] |-> Rec("JOB_CTX_DESTROY", contexts[f][i].id, None)]
      \o <<Rec("CTX_DESTROY", rec_ctx[f], None)>>

\* The last descriptor of the file is closed: the kernel drops its handles
\* and framebuffers, libwrap its shadow.
CloseFile(t, f) ==
    /\ "close_file" \in program.ops
    /\ Idle(t)
    /\ enabled /\ IsOpen(f) /\ ~Busy(f)
    /\ \/ /\ rec_ctx[f] # NullCtx
          /\ no_fd' = no_fd \ {f}
          /\ gem' = [gem EXCEPT ![f] = [h \in Handles |-> None]]
          /\ mapped' = {m \in mapped : m[1] # f}
          /\ kfb' = [b \in FbIds |-> IF kfb[b].file = f THEN NoFb ELSE kfb[b]]
          /\ crtc' = IF crtc # None /\ kfb[crtc].file = f THEN None ELSE crtc
          /\ rec_ctx' = [rec_ctx EXCEPT ![f] = None]
          /\ bos' = [bos EXCEPT ![f] = <<>>]
          /\ contexts' = [contexts EXCEPT ![f] = <<>>]
          /\ out' = [out EXCEPT ![t] = Released(f)]
          /\ Return(t, f, {}, out'[t])
          /\ UNCHANGED <<mem, rendered, recorder, lock, aborted>>
       \/ rec_ctx[f] = NullCtx /\ Abort("ctx is NULL")

\* file_close of the first descriptor, while a duplicate is left
CloseFd(t, f) ==
    /\ "close_fd" \in program.ops
    /\ Idle(t) /\ Known(f)
    /\ no_fd' = no_fd \cup {f}
    /\ UNCHANGED <<gem, mapped, mem, kfb, crtc, rendered, shadow, recorder, call, out, lock,
                   aborted>>

\* fwrite() has failed.
DiskFull(t) ==
    /\ "disk_full" \in program.ops
    /\ Alive /\ out[t] # <<>>
    /\ Abort("fwrite failed")

-----------------------------------------------------------------------------
(* Buffers: GEM_CREATE, CREATE_DUMB, GEM_OPEN, GEM_MMAP, MAP_DUMB,         *)
(* GEM_CLOSE, DESTROY_DUMB, and the program's own writes                   *)

Referenced(o) ==
    \/ \E f \in Files, h \in Handles : gem[f][h] = o
    \/ \E b \in FbIds : kfb[b].obj = o
    \/ \E f \in Files : \E i \in DOMAIN bos[f] : bos[f][i].data = o
    \/ \E t \in Threads : call[t].obj = o

\* Mutant: a handle that is already listed is not listed again.
Listed_Once(f, bo) ==
    IF \E i \in DOMAIN bos[f] : bos[f][i].handle = bo.handle THEN bos[f]
    ELSE Append(bos[f], bo)

\* list_add_tail
Listed(f, bo) == Append(bos[f], bo)

\* Mutant: list_del is forgotten.
Unlisted_Not(f, i) == bos[f]

\* list_del
Unlisted(f, i) == RemoveAt(bos[f], i)

\* The kernel hands out a free handle for a new, cleared object, or (GEM_OPEN)
\* for an object another handle names.
GemCreate(t, f, h, o) ==
    /\ Known(f) /\ h \in program.handles /\ gem[f][h] = None
    /\ bos_cnt < program.max_ids
    /\ \A e \in Files : Fresh(bos_cnt, {bos[e][i].id : i \in DOMAIN bos[e]})
    /\ enabled
    /\ \/ /\ "create" \in program.ops
          /\ ~Referenced(o)
          /\ Cardinality({x \in Objs : Referenced(x)}) < program.buffers
          /\ \E n \in program.sizes : mem' = [mem EXCEPT ![o] = [p \in 1..n |-> Zero]]
          /\ rendered' = {r \in rendered : r[1] # o}
       \/ /\ "open" \in program.ops
          /\ \E k \in Handles, e \in Files : gem[e][k] = o
          /\ UNCHANGED <<mem, rendered>>
    /\ gem' = [gem EXCEPT ![f][h] = o]
    /\ Entered(t, Call("create", f, h, o, {h}))
    /\ UNCHANGED <<mapped, kfb, crtc, no_fd>>

\* host1x_bo_new and record_create_bo
GemCreateLeave(t) ==
    LET f == call[t].file
        id == bos_cnt % IdMod
    IN
    /\ Hook(t, "create")
    /\ \/ /\ rec_ctx[f] # NullCtx
          /\ bos' = [bos EXCEPT ![f] = Listed(f,
               [handle |-> call[t].handle, id |-> id, data |-> None,
                captured |-> FALSE, is_framebuffer |-> FALSE, fb_id |-> None,
                chksum |-> [p \in DOMAIN mem[call[t].obj] |-> Zero]])]
          /\ bos_cnt' = bos_cnt + 1
          /\ Finish(t, <<BoRec(id, rec_ctx[f], Len(mem[call[t].obj]))>>)
          /\ UNCHANGED <<kernel, rec_ctx, contexts, ctx_cnt, job_ctx_cnt>>
       \/ rec_ctx[f] = NullCtx /\ Abort("bo->ctx is NULL")

GemMmap(t, f, h) ==
    /\ "mmap" \in program.ops
    /\ gem[f][h] # None /\ ~InUse(f, h)
    /\ Entered(t, Call("mmap", f, h, gem[f][h], {h}))
    /\ UNCHANGED kernel

\* Mutant: record_set_bo_data is not told of the mapping.
SetBoData_Not(b, o) == b

\* record_set_bo_data
SetBoData(b, o) == IF b.data = None THEN [b EXCEPT !.data = o] ELSE b

\* Only the first mapping of a buffer is made by libwrap too, through the first
\* descriptor of the file.
GemMmapLeave(t) ==
    LET f == call[t].file IN
    /\ Hook(t, "mmap")
    /\ \/ \E i \in file_lookup_bo(f, call[t].handle) :
            /\ bos[f][i].data # None \/ f \notin no_fd
            /\ bos' = [bos EXCEPT ![f][i] = SetBoData(@, call[t].obj)]
            /\ Finish(t, <<>>)
            /\ mapped' = mapped \cup {<<f, call[t].handle>>}
            /\ UNCHANGED <<gem, mem, kfb, crtc, rendered, no_fd, rec_ctx, contexts, ctx_cnt,
                           bos_cnt, job_ctx_cnt>>
       \/ /\ \E i \in file_lookup_bo(f, call[t].handle) : bos[f][i].data = None /\ f \in no_fd
          /\ Abort("mmap failed")
       \/ file_lookup_bo(f, call[t].handle) = {} /\ Abort("invalid handle")

\* A program that wants to keep the handle of a live framebuffer does.
GemClose(t, f, h) ==
    /\ "close" \in program.ops
    /\ gem[f][h] # None /\ ~InUse(f, h)
    /\ program.keep_handles => \A b \in FbIds : kfb[b] # [file |-> f, obj |-> gem[f][h]]
    /\ gem' = [gem EXCEPT ![f][h] = None]
    /\ mapped' = mapped \ {<<f, h>>}
    /\ Entered(t, Call("close", f, h, None, {}))
    /\ UNCHANGED <<mem, kfb, crtc, rendered, no_fd>>

\* host1x_bo_free of the first buffer that has the handle
GemCloseLeave(t) ==
    LET f == call[t].file IN
    /\ Hook(t, "close")
    /\ \/ \E i \in file_lookup_bo(f, call[t].handle) :
            /\ bos' = [bos EXCEPT ![f] = Unlisted(f, i)]
            /\ Finish(t, <<Rec("BO_DESTROY", bos[f][i].id, rec_ctx[f])>>)
            /\ UNCHANGED <<kernel, rec_ctx, contexts, ctx_cnt, bos_cnt, job_ctx_cnt>>
       \/ file_lookup_bo(f, call[t].handle) = {} /\ Abort("invalid handle")

\* The program writes to a page of a buffer it has mapped.
CpuWrite(t, f, h, p, v) ==
    /\ "write" \in program.ops
    /\ Idle(t)
    /\ <<f, h>> \in mapped
    /\ v \in program.values /\ p \in DOMAIN mem[gem[f][h]]
    /\ \A s \in Threads : call[s].op # "submit"
    /\ mem' = [mem EXCEPT ![gem[f][h]][p] = v]
    /\ UNCHANGED <<gem, mapped, kfb, crtc, rendered, no_fd, shadow, recorder, call, out, lock,
                   aborted>>

\* GEM_SET_FLAGS: recorded by the enter hook
SetFlags(t, f, h) ==
    /\ "flags" \in program.ops
    /\ Idle(t) /\ lock = None
    /\ h \in program.handles /\ (gem[f][h] # None \/ "bad" \in program.ops)
    /\ Known(f) /\ ~InUse(f, h)
    /\ \/ \E i \in file_lookup_bo(f, h) :
            /\ Write(t, <<Rec("BO_SET_FLAGS", bos[f][i].id, rec_ctx[f])>>)
            /\ Return(t, f, {h}, <<h>>)
            /\ UNCHANGED <<kernel, shadow, ctx_cnt, bos_cnt, job_ctx_cnt>>
       \/ file_lookup_bo(f, h) = {} /\ Abort("invalid handle")

\* The program names a handle it does not have: the kernel refuses, and the
\* leave hook runs all the same.
BadHandle(t, f, h) ==
    /\ "bad" \in program.ops
    /\ Known(f) /\ h \in program.handles
    /\ gem[f][h] = None /\ file_lookup_bo(f, h) = {}
    /\ \E op \in {"mmap", "close", "addfb"} : Entered(t, Call(op, f, h, None, {}))
    /\ UNCHANGED kernel

-----------------------------------------------------------------------------
(* Framebuffers: ADDFB, ADDFB2, RMFB, SETCRTC, SETPLANE and PAGE_FLIP.  An *)
(* id stands for the size and format of the framebuffer as well.           *)

AddFb(t, f, h, b) ==
    /\ "fb" \in program.ops
    /\ gem[f][h] # None /\ ~InUse(f, h)
    /\ kfb[b] = NoFb
    /\ program.one_fb => \A c \in FbIds : kfb[c].obj # gem[f][h]
    /\ kfb' = [kfb EXCEPT ![b] = [file |-> f, obj |-> gem[f][h]]]
    /\ Entered(t, Call("addfb", f, h, b, {h}))
    /\ UNCHANGED <<gem, mapped, mem, crtc, rendered, no_fd>>

\* call[t].obj is the framebuffer here.  Of one in another format than XRGB8888,
\* XBGR8888 or RGB565 nothing is recorded or noted.
AddFbLeave(t) ==
    LET f == call[t].file
        b == call[t].obj
    IN
    /\ Hook(t, "addfb")
    /\ \/ \E i \in file_lookup_bo(f, call[t].handle) :
            /\ b \notin OtherFbs
            /\ bos' = [bos EXCEPT ![f][i].fb_id = b, ![f][i].is_framebuffer = TRUE]
            /\ Finish(t, <<FbRec("ADD_FRAMEBUFFER", bos[f][i], rec_ctx[f], b)>>)
            /\ UNCHANGED <<kernel, rec_ctx, contexts, ctx_cnt, bos_cnt, job_ctx_cnt>>
       \/ /\ file_lookup_bo(f, call[t].handle) # {} /\ b \in OtherFbs
          /\ Finish(t, <<>>)
          /\ UNCHANGED <<kernel, shadow, ctx_cnt, bos_cnt, job_ctx_cnt>>
       \/ file_lookup_bo(f, call[t].handle) = {} /\ Abort("invalid handle")

\* Mutant: fb_id is kept.
NoFramebuffer_KeepsId(b) == [b EXCEPT !.is_framebuffer = FALSE]

\* record_del_framebuffer
NoFramebuffer(b) == [b EXCEPT !.fb_id = None, !.is_framebuffer = FALSE]

\* The enter hook of RMFB: a framebuffer it does not find is not recorded.
RmFb(t, f, b) ==
    /\ "fb" \in program.ops
    /\ Idle(t) /\ lock = None
    /\ kfb[b].file = f
    /\ \A s \in Threads : call[s].obj # b
    /\ \/ \E i \in file_lookup_fb(f, b) :
            /\ bos' = [bos EXCEPT ![f][i] = NoFramebuffer(@)]
            /\ Write(t, <<FbRec("DEL_FRAMEBUFFER", bos[f][i], rec_ctx[f], b)>>)
       \/ file_lookup_fb(f, b) = {} /\ Write(t, <<>>) /\ UNCHANGED bos
    /\ call' = [call EXCEPT ![t] = Call("rmfb", f, None, b, {})]
    /\ UNCHANGED <<kernel, rec_ctx, contexts, ctx_cnt, bos_cnt, job_ctx_cnt>>

Display(t, f, b) ==
    /\ "fb" \in program.ops
    /\ Idle(t) /\ lock = None
    /\ kfb[b].file = f
    /\ \A s \in Threads : call[s].obj # b
    /\ \/ \E i \in file_lookup_fb(f, b) :
            Write(t, <<FbRec("DISP_FRAMEBUFFER", bos[f][i], rec_ctx[f], b)>>)
       \/ file_lookup_fb(f, b) = {} /\ Write(t, <<>>)
    /\ call' = [call EXCEPT ![t] = Call("display", f, None, b, {})]
    /\ UNCHANGED <<kernel, shadow, ctx_cnt, bos_cnt, job_ctx_cnt>>

\* The kernel's part of both, after the hook.
FbKernel(t) ==
    LET b == call[t].obj IN
    /\ Alive /\ out[t] = <<>>
    /\ \/ /\ call[t].op = "rmfb"
          /\ kfb' = [kfb EXCEPT ![b] = NoFb]
          /\ crtc' = IF crtc = b THEN None ELSE crtc
       \/ /\ call[t].op = "display"
          /\ crtc' = b
          /\ UNCHANGED kfb
    /\ call' = [call EXCEPT ![t] = NoCall]
    /\ UNCHANGED <<gem, mapped, mem, rendered, no_fd, shadow, recorder, out, lock, aborted>>

-----------------------------------------------------------------------------
(* Channels *)

OpenChannel(t, f, c) ==
    /\ "channel" \in program.ops
    /\ Known(f) /\ enabled
    /\ job_ctx_cnt < program.max_ids
    /\ \A e \in Files : Fresh(job_ctx_cnt, {contexts[e][i].id : i \in DOMAIN contexts[e]})
    /\ file_lookup_context(f, c) = {}
    /\ \A s \in Threads : call[s].file = f => call[s].handle # c
    /\ Entered(t, Call("open_channel", f, c, None, {}))
    /\ UNCHANGED kernel

OpenChannelLeave(t) ==
    LET f == call[t].file
        id == job_ctx_cnt % IdMod
    IN
    /\ Hook(t, "open_channel")
    /\ contexts' = [contexts EXCEPT ![f] = Append(@, [chan |-> call[t].handle, id |-> id])]
    /\ job_ctx_cnt' = job_ctx_cnt + 1
    /\ Finish(t, <<Rec("JOB_CTX_CREATE", id, None)>>)
    /\ UNCHANGED <<kernel, rec_ctx, bos, ctx_cnt, bos_cnt>>

CloseChannel(t, f, c) ==
    /\ "close_channel" \in program.ops
    /\ file_lookup_context(f, c) # {}
    /\ \A s \in Threads : call[s].file = f => c # call[s].handle /\ c \notin call[s].uses
    /\ Entered(t, Call("close_channel", f, c, None, {}))
    /\ UNCHANGED kernel

CloseChannelLeave(t) ==
    LET f == call[t].file IN
    /\ Hook(t, "close_channel")
    /\ \E i \in file_lookup_context(f, call[t].handle) :
         /\ contexts' = [contexts EXCEPT ![f] = RemoveAt(@, i)]
         /\ Finish(t, <<Rec("JOB_CTX_DESTROY", contexts[f][i].id, None)>>)
    /\ UNCHANGED <<kernel, rec_ctx, bos, ctx_cnt, bos_cnt, job_ctx_cnt>>

-----------------------------------------------------------------------------
(* SUBMIT: the enter hook captures every buffer the job names, then writes *)
(* the job                                                                 *)

\* Mutant: the comparison is made without zlib too, where all checksums are 0.
Changed_ComparesZeros(b, p) == program.checksums /\ mem[b.data][p] # b.chksum[p]

\* Without zlib calc_page_checksum is not consulted: every page has changed.
Changed(b, p) == ~program.checksums \/ mem[b.data][p] # b.chksum[p]

\* Mutant: the middle page is not looked at.
Sampled_NoMiddle(n) == {1, n}

\* The first, the middle and the last of n pages
Sampled(n) == {1, (n \div 2) + 1, n}

\* The pages record_capture_bo_data loads.  A framebuffer is loaded once; a
\* big buffer only if one of the sampled pages has changed.
PagesToLoad(b) ==
    IF \/ b.data = None
       \/ b.captured /\ b.is_framebuffer
       \/ /\ b.captured /\ Len(b.chksum) > FewPages
          /\ \A p \in Sampled(Len(b.chksum)) : ~Changed(b, p)
    THEN {} ELSE {p \in DOMAIN b.chksum : Changed(b, p)}

\* Mutant: the checksums are not updated.
Captured_OldChecksums(b) == IF b.data = None THEN b ELSE [b EXCEPT !.captured = TRUE]

Captured(b) ==
    IF b.data = None \/ (b.captured /\ b.is_framebuffer) THEN b
    ELSE [b EXCEPT !.captured = TRUE,
                   !.chksum = [p \in DOMAIN @ |-> IF p \in PagesToLoad(b)
                                               THEN mem[b.data][p] ELSE @[p]]]

\* Mutant: the compressor's failure is not looked at.
Packed_Always(v) == program.compression

\* compress_data: lz4 gives up on such a page, "size 0 means go uncompressed"
Packed(v) == IF v \in Incompressible THEN "none" ELSE program.compression

Loads(f, b) ==
    LET ps == SetToSeq(PagesToLoad(b))
        load(p) == <<LoadRec(b.id, rec_ctx[f], p),
                     [act |-> "page", packed |-> Packed(mem[b.data][p]),
                      data |-> mem[b.data][p], code |-> 0]>>
    IN  FlattenSeq([i \in DOMAIN ps |-> load(ps[i])])

\* One gather in buffer g and one relocation per buffer of T; w is what the
\* commands of the job do to one of those.
Submit(t, f, c, g, T, w) ==
    LET hs == SetToSeq(T)
        At(h) == CHOOSE i \in DOMAIN bos[f] : i \in file_lookup_bo(f, h)
        named == {At(h) : h \in T \cup {g}}
        ids == [i \in DOMAIN hs |-> bos[f][At(hs[i])].id]
        captures == FlattenSeq([i \in DOMAIN bos[f] |->
                       IF i \in named THEN Loads(f, bos[f][i]) ELSE <<>>])
        job(i) == <<[act |-> "JOB_SUBMIT", code |-> 13,
                     job_ctx_id |-> contexts[f][i].id, num_relocs |-> Len(hs)],
                    [act |-> "gathers", id |-> bos[f][At(g)].id, ctx_id |-> rec_ctx[f],
                     code |-> bos[f][At(g)].id]>>
        relocs == <<[act |-> "relocs", ids |-> ids, ctx_id |-> rec_ctx[f], write |-> w,
                     gather_id |-> bos[f][At(g)].id, code |-> 0]>>
    IN
    /\ "submit" \in program.ops
    /\ Idle(t) /\ lock = None
    /\ T \cup {g} \subseteq program.handles
    /\ \A h \in T \cup {g} : /\ gem[f][h] # None \/ "bad" \in program.ops
                            /\ ~InUse(f, h)
    /\ w # None => w.page \in DOMAIN mem[gem[f][hs[w.target]]]
    /\ <<f, g>> \in mapped       \* that is how the commands got there
    /\ \E i \in file_lookup_context(f, c) :
        \/ /\ \A h \in T \cup {g} : file_lookup_bo(f, h) # {}
           /\ bos[f][At(g)].data # None
           /\ \A j \in named : \A p \in PagesToLoad(bos[f][j]) :
                ~(program.compression = "zlib" /\ mem[bos[f][j].data][p] \in Incompressible)
           /\ bos' = [bos EXCEPT ![f] =
                [j \in DOMAIN @ |-> IF j \in named THEN Captured(@[j]) ELSE @[j]]]
           /\ call' = [call EXCEPT ![t] = Submitting(f, c, T \cup {g}, w, hs)]
           /\ Write(t, captures \o job(i) \o IF T = {} THEN <<>> ELSE relocs)
           /\ UNCHANGED <<kernel, rec_ctx, contexts, ctx_cnt, bos_cnt, job_ctx_cnt>>
        \/ /\ \E h \in T \cup {g} : file_lookup_bo(f, h) = {}
           /\ Abort("invalid handle")
        \/ /\ \A h \in T \cup {g} : file_lookup_bo(f, h) # {}
           /\ bos[f][At(g)].data = None
           /\ Abort("cmdbuf not mapped")
        \/ \* compress_data_zlib: deflate() has run out of room
           /\ \A h \in T \cup {g} : file_lookup_bo(f, h) # {}
           /\ bos[f][At(g)].data # None
           /\ \E j \in named : \E p \in PagesToLoad(bos[f][j]) :
                program.compression = "zlib" /\ mem[bos[f][j].data][p] \in Incompressible
           /\ Abort("deflate failed")

\* The GPU executes the job.
SubmitKernel(t) ==
    LET w == call[t].write
        o == gem[call[t].file][call[t].order[w.target]]
    IN
    /\ Alive /\ call[t].op = "submit" /\ out[t] = <<>>
    /\ \/ w = None /\ UNCHANGED <<mem, rendered>>
       \/ /\ w # None
          /\ mem' = [mem EXCEPT ![o][w.page] = w.data]
          /\ rendered' = rendered \cup {<<o, w.page>>}
    /\ call' = [call EXCEPT ![t] = NoCall]
    /\ UNCHANGED <<gem, mapped, kfb, crtc, no_fd, shadow, recorder, out, lock, aborted>>

-----------------------------------------------------------------------------
PageNos == UNION {1..n : n \in program.sizes}

Jobs(T) ==
    {None} \cup IF "render" \in program.ops
                THEN [target : 1..Cardinality(T), page : PageNos,
                      data : program.values]
                ELSE {}

RecorderNext ==
    \/ \E t \in Threads, f \in Files :
        \/ OpenFile(t, f) \/ CloseFile(t, f) \/ CloseFd(t, f)
        \/ \E h \in Handles :
            \/ GemMmap(t, f, h) \/ GemClose(t, f, h) \/ SetFlags(t, f, h)
            \/ BadHandle(t, f, h)
            \/ \E o \in Objs : GemCreate(t, f, h, o)
            \/ \E b \in FbIds : AddFb(t, f, h, b)
        \/ \E b \in FbIds : RmFb(t, f, b) \/ Display(t, f, b)
        \/ \E c \in Chans :
            \/ OpenChannel(t, f, c) \/ CloseChannel(t, f, c)
            \/ \E g \in Handles, T \in SUBSET Handles :
                \E w \in Jobs(T) : Submit(t, f, c, g, T, w)
    \/ \E t \in Threads :
        \/ Started(t) \/ Counted(t) \/ GemCreateLeave(t) \/ GemMmapLeave(t) \/ GemCloseLeave(t)
        \/ AddFbLeave(t) \/ FbKernel(t) \/ OpenChannelLeave(t) \/ CloseChannelLeave(t)
        \/ SubmitKernel(t) \/ DiskFull(t)
    \/ \E t \in Threads, f \in Files, h \in Handles, p \in PageNos, v \in Values :
        CpuWrite(t, f, h, p, v)
=============================================================================
