---------------------------- MODULE RecordReplay ----------------------------
(***************************************************************************)
(* The recorder and the replay joined by the record file.  The replay runs *)
(* later, on a file that is complete; it is a function of the records it   *)
(* has read, so letting it read every record as it is written loses no     *)
(* behaviour and allows the two sides to be compared while they agree on   *)
(* how much has happened.                                                  *)
(***************************************************************************)
EXTENDS Recorder, Replay

vars == <<recVars, repVars>>

\* fwrite() of the next record, and its replay
record_write_data(t) ==
    /\ Alive /\ out[t] # <<>>
    /\ out' = [out EXCEPT ![t] = Tail(@)]
    /\ lock' = IF lock = t /\ Len(out[t]) = 1 THEN None ELSE lock
    /\ call' = IF call[t].op \in {"opening", "return"} /\ Len(out[t]) = 1
               THEN [call EXCEPT ![t] = NoCall] ELSE call
    /\ Consume(Head(out[t]))
    /\ UNCHANGED <<program, kernel, shadow, recorder, aborted>>

\* fopen(path, "w") of the second thread truncates the file.
StartOver(t, f) ==
    /\ StartAgain(t, f)
    /\ act_cnt' = 0
    /\ compression' = "none"
    /\ UNCHANGED <<program, lists, screen, pending, status>>

Init == RecorderInit /\ ReplayInit

Next ==
    \/ RecorderNext /\ UNCHANGED <<program, repVars>>
    \/ \E t \in Threads, f \in Files : StartOver(t, f)
    \/ \E t \in Threads : record_write_data(t)

Spec == Init /\ [][Next]_vars

TypeOK ==
    /\ gem \in [Files -> [Handles -> Objs \cup {None}]]
    /\ \A o \in Objs : mem[o] \in Seq(Values)
    /\ crtc \in FbIds \cup {None}
    /\ rendered \subseteq Objs \X Nat
    /\ \A f \in Files : /\ rec_ctx[f] \in (0..(IdMod - 1)) \cup {None, NullCtx}
                        /\ \A i \in DOMAIN bos[f] : bos[f][i].id \in 0..(IdMod - 1)
    /\ lock \in Threads \cup {None}
    /\ lock # None => out[lock] # <<>>
    /\ status \in {"running", "asserted", "stopped"}
    /\ \A i \in DOMAIN bo_list : bo_list[i].map \in Seq(Values)
    /\ overlay = None \/ overlay.geom \in FbIds
    /\ displayed_fb \in Addrs \cup {None}
    /\ Len(pending) <= 2

-----------------------------------------------------------------------------
(* Properties *)

Quiescent == Alive /\ \A t \in Threads : call[t] = NoCall /\ out[t] = <<>>

\* The record of a run can be replayed: no assert() of tools/replay.c fails
\* and no record is refused.
ReplayAccepts == status = "running"

\* libwrap kills a program that names only the handles it has for three reasons
\* alone: it maps a buffer for the first time after it has closed the first
\* descriptor of the file and kept a duplicate; deflate() is given a page that it
\* cannot pack; the record cannot be written.
Excused ==
    \/ aborted = "mmap failed" /\ no_fd # {}
    \/ aborted = "deflate failed" /\ program.compression = "zlib" /\ Incompressible # {}
    \/ aborted = "fwrite failed" /\ "disk_full" \in program.ops
ProgramSurvives == "bad" \in program.ops \/ Alive \/ Excused

\* Between calls the replay has exactly the contexts, buffers and job contexts
\* the program has, each once (create_bo, destroy_bo and their relatives).
IdsOf(s) == {s[i].id : i \in DOMAIN s}
EntriesIn(table) == UNION {{<<f, i>> : i \in DOMAIN table[f]} : f \in Files}
Recorded == {f \in Files : rec_ctx[f] \notin {None, NullCtx}}
ObjectsMirrored ==
    Quiescent /\ status = "running" =>
        /\ Len(bo_list) = Cardinality(EntriesIn(bos))
        /\ IdsOf(bo_list) = UNION {IdsOf(bos[f]) : f \in Files}
        /\ {ctx_list[i] : i \in DOMAIN ctx_list} = {rec_ctx[f] : f \in Recorded}
        /\ Len(ctx_list) = Cardinality(Recorded)
        /\ Len(job_ctx_list) = Cardinality(EntriesIn(contexts))
        /\ {job_ctx_list[i] : i \in DOMAIN job_ctx_list}
             = UNION {IdsOf(contexts[f]) : f \in Files}

\* Between calls the shadow lists exactly the handles the kernel has given out,
\* each once, and reads the memory behind them (host1x_bo_new, _free, the leave
\* hooks of GEM_MMAP and GEM_CLOSE).
ShadowFollowsKernel ==
    Quiescent =>
        \A f \in Recorded, h \in Handles :
            LET of == {i \in DOMAIN bos[f] : bos[f][i].handle = h} IN
            /\ Cardinality(of) = IF gem[f][h] = None THEN 0 ELSE 1
            /\ \A i \in of : bos[f][i].data \in {None, gem[f][h]}

\* The replay refuses a record only when one that open() or close() wrote
\* outside ioctl_lock has come between a header and its payload.
RefusedOnlyWhenTorn ==
    [][status' # status /\ ~program.racy_start =>
         /\ pending # <<>>
         /\ \E t \in Threads : out'[t] # out[t] /\ lock # t]_vars

\* When the replay is about to read a job, every buffer the job names holds
\* what the program's buffer holds, page by page; of a big buffer only the
\* sampled pages are promised.  Framebuffers are loaded once and left to the
\* replayed jobs; so is, with checksums, a page the GPU has written: what the
\* program writes over it may be what was recorded before.
Promised(n) == IF n <= FewPages THEN 1..n ELSE {1, n \div 2 + 1, n}
JobSeesProgramsMemory ==
    \A t \in Threads :
        out[t] # <<>> /\ Head(out[t]).act = "JOB_SUBMIT" =>
            \A h \in call[t].uses : LET f == call[t].file IN
                \A i \in file_lookup_bo(f, h) : LET b == bos[f][i] IN
                    b.data # None /\ ~b.is_framebuffer =>
                        \A j \in lookup_bo(b.id) :
                            \A p \in Promised(Len(mem[b.data])) :
                                \/ bo_list[j].map[p] = mem[b.data][p]
                                \/ program.checksums /\ <<b.data, p>> \in rendered

\* Between calls the overlay of the replay shows the program's framebuffer: the
\* same buffer with the same geometry.  While the program shows a framebuffer of a
\* format that is not recorded the replay does not follow.
DisplayFollows ==
    Quiescent /\ crtc \notin OtherFbs \cup {None} =>
        \E i \in DOMAIN bos[kfb[crtc].file] :
            LET b == bos[kfb[crtc].file][i] IN
            b.fb_id = crtc /\ overlay = [bo_id |-> b.id, geom |-> crtc]

-----------------------------------------------------------------------------
(* The inductive invariant of ShadowFollowsKernel, for a program that names *)
(* only the handles it has                                                  *)

BoFields == {"handle", "id", "data", "captured", "is_framebuffer", "fb_id", "chksum"}

\* A kernel's handle table and a list of struct host1x_bo for every file
TablesInv ==
    /\ gem \in [Files -> [Handles -> Objs \cup {None}]]
    /\ DOMAIN bos = Files /\ DOMAIN call = Threads
    /\ \A f \in Files :
        /\ bos[f] \in Seq(Range(bos[f]))
        /\ \A i \in DOMAIN bos[f] : bos[f][i] = [x \in BoFields |-> bos[f][i][x]]

\* A call that creates, maps or closes a handle; the kernel has done its part.
CallInv(t) ==
    call[t].op \in {"create", "mmap", "close"} =>
        /\ call[t].file \in Files /\ call[t].handle \in Handles
        /\ call[t].op # "close" =>
            /\ call[t].handle \in call[t].uses
            /\ call[t].obj = gem[call[t].file][call[t].handle] /\ call[t].obj # None

Calls(op, f, h) ==
    {t \in Threads : call[t].op = op /\ call[t].file = f /\ call[t].handle = h}
ListedAs(f, h) == {i \in DOMAIN bos[f] : bos[f][i].handle = h}
Newest(f, h) == {i \in ListedAs(f, h) : \A k \in ListedAs(f, h) : k <= i}

\* The program has the handle, and the leave hook of its creation has run.
Given(f, h) == gem[f][h] # None /\ Calls("create", f, h) = {}

\* A handle is listed once for itself and once for every buffer that had it before
\* and whose GEM_CLOSE has not come back; the entry of its own is the newest.
HandleInv(f, h) ==
    /\ \A s, t \in Calls("create", f, h) : s = t
    /\ IsFiniteSet(Calls("close", f, h))
    /\ Cardinality(ListedAs(f, h)) = Cardinality(Calls("close", f, h)) + IF Given(f, h) THEN 1 ELSE 0
    /\ Given(f, h) => \A i \in Newest(f, h) : bos[f][i].data \in {None, gem[f][h]}

ShadowInv ==
    /\ TablesInv
    /\ \A t \in Threads : CallInv(t)
    /\ \A f \in Files, h \in Handles : HandleInv(f, h)

IInv == "bad" \notin program.ops => ShadowInv

-----------------------------------------------------------------------------
(* The inductive invariant of ProgramSurvives, for a program of one thread *)

\* A handle that is being mapped or given to a framebuffer stays the program's.
UsesInv(t) ==
    call[t].op \in {"mmap", "addfb"} =>
        /\ call[t].file \in Files /\ call[t].handle \in Handles
        /\ call[t].handle \in call[t].uses
        /\ Given(call[t].file, call[t].handle)

\* Every buffer the program has mapped is mapped in libwrap too.
MappedInv(f, h) ==
    <<f, h>> \in mapped =>
        /\ Given(f, h) /\ Calls("close", f, h) = {}
        /\ \A i \in ListedAs(f, h) : bos[f][i].data # None

\* No open() finds the recorder half started.
ContextInv ==
    /\ ctx_cnt \in Nat /\ DOMAIN rec_ctx = Files
    /\ \A t \in Threads : call[t].op = "counting" => call[t].count \in Nat
    /\ inited /\ ~enabled => \E t \in Threads : call[t].op = "start"
    /\ \A f \in Files : rec_ctx[f] # NullCtx

SurvivalInv ==
    /\ Alive /\ ContextInv
    /\ \A t \in Threads : UsesInv(t)
    /\ \A f \in Files, h \in Handles : MappedInv(f, h)

SInv == "bad" \notin program.ops => (ShadowInv /\ SurvivalInv) \/ Excused

-----------------------------------------------------------------------------
(* The inductive invariant of ReplayAccepts and ObjectsMirrored, for a     *)
(* program whose only thread is t                                          *)

\* The records that have not been carried out; the first of them may have been read.
Unread(t) == pending \o out[t]

RecordsOf(r, a) == {k \in DOMAIN r : r[k].act = a}
IdsIn(r, a) == {r[k].id : k \in RecordsOf(r, a)}

\* The list L of the replay, once the records r are carried out, is the set S: each
\* id of S is in L or about to be created, each other id of L about to be destroyed.
Mirror(L, r, S, create, destroy) ==
    /\ \A i, j \in DOMAIN L : L[i] = L[j] => i = j
    /\ Range(L) \cap IdsIn(r, create) = {} /\ S \cap IdsIn(r, destroy) = {}
    /\ Range(L) \cup IdsIn(r, create) = S \cup IdsIn(r, destroy)
    /\ \A j, k \in RecordsOf(r, destroy) : r[j].id = r[k].id => j = k
    /\ RecordsOf(r, create) # {} => Len(r) = 1

IdList(s) == [i \in DOMAIN s |-> s[i].id]
LiveIds(table) == UNION {IdsOf(table[f]) : f \in Files}
LiveCtxs == {rec_ctx[f] : f \in Recorded}

MirrorInv(t) ==
    /\ Mirror(IdList(bo_list), Unread(t), LiveIds(bos), "BO_CREATE", "BO_DESTROY")
    /\ Mirror(ctx_list, Unread(t), LiveCtxs, "CTX_CREATE", "CTX_DESTROY")
    /\ Mirror(job_ctx_list, Unread(t), LiveIds(contexts), "JOB_CTX_CREATE", "JOB_CTX_DESTROY")

\* No two entries of the shadow have the same id.
UniqueIds(table) ==
    \A e, f \in Files : \A i \in DOMAIN table[e], j \in DOMAIN table[f] :
        table[e][i].id = table[f][j].id => e = f /\ i = j

ListsInv ==
    /\ DOMAIN bos = Files /\ DOMAIN contexts = Files /\ DOMAIN rec_ctx = Files
    /\ \A f \in Files :
        /\ bos[f] \in Seq(Range(bos[f])) /\ contexts[f] \in Seq(Range(contexts[f]))
        /\ \A i \in DOMAIN bos[f] : bos[f][i] = [x \in BoFields |-> bos[f][i][x]]
        /\ rec_ctx[f] # NullCtx
        /\ rec_ctx[f] = None => bos[f] = <<>> /\ contexts[f] = <<>>
    /\ UniqueIds(bos) /\ UniqueIds(contexts)
    /\ \A e, f \in Recorded : rec_ctx[e] = rec_ctx[f] => e = f
    /\ ctx_list \in Seq(Range(ctx_list)) /\ bo_list \in Seq(Range(bo_list))
    /\ fb_list \in Seq(Range(fb_list)) /\ job_ctx_list \in Seq(Range(job_ctx_list))

\* A payload comes after the header that announces it, and only there.
Payloads == {"page", "gathers", "relocs"}
WithRelocs(c) == c.act = "JOB_SUBMIT" /\ c.num_relocs > 0
Complete(r) ==
    /\ \A k \in DOMAIN r :
        /\ k = 1 => r[k].act \notin Payloads
        /\ r[k].act \in {"BO_LOAD_DATA", "JOB_SUBMIT"} => k + 1 \in DOMAIN r
        /\ r[k].act = "DEL_FRAMEBUFFER" => Len(r) = 1
        /\ k + 1 \in DOMAIN r =>
            /\ r[k].act = "BO_LOAD_DATA" <=> r[k + 1].act = "page"
            /\ r[k].act = "JOB_SUBMIT" <=> r[k + 1].act = "gathers"
            /\ r[k + 1].act = "relocs" => r[k].act = "gathers"
            /\ WithRelocs(r[k]) => k + 2 \in DOMAIN r
        /\ k + 2 \in DOMAIN r =>
            /\ r[k].act = "JOB_SUBMIT" => (WithRelocs(r[k]) <=> r[k + 2].act = "relocs")
            /\ r[k + 2].act = "relocs" => /\ r[k + 2].gather_id = r[k + 1].id
                                          /\ r[k + 2].ctx_id = r[k + 1].ctx_id

\* The replay has a framebuffer on the buffer; the program has one.
FbMade(fbs, bo, ctx) == \E i \in DOMAIN fbs : fbs[i].bo_id = bo /\ fbs[i].ctx_id = ctx
FbLive(bo) == \E f \in Files : \E i \in DOMAIN bos[f] : bos[f][i].id = bo /\ bos[f][i].fb_id # None

\* A record names only what the program has.
RecordInv(c) ==
    /\ c.act \in DOMAIN Code \cup Payloads
    /\ c.act \in {"START", "INFO"} => ~enabled
    /\ c.act = "BO_CREATE" => c.ctx_id \in LiveCtxs
    /\ c.act \in {"BO_SET_FLAGS", "BO_LOAD_DATA", "gathers"} => c.id \in LiveIds(bos)
    /\ c.act = "page" => c.packed \in {"none", program.compression}
    /\ c.act = "JOB_SUBMIT" => c.job_ctx_id \in LiveIds(contexts) /\ c.num_relocs \in Nat
    /\ c.act = "relocs" => c.ctx_id \in LiveCtxs /\ Range(c.ids) \subseteq LiveIds(bos)
    /\ c.act = "ADD_FRAMEBUFFER" => c.bo_id \in LiveIds(bos)
    /\ c.act \in {"DEL_FRAMEBUFFER", "DISP_FRAMEBUFFER"} => FbMade(fb_list, c.bo_id, c.ctx_id)
    /\ c.act = "DEL_FRAMEBUFFER" => ~FbLive(c.bo_id)

\* What of Unread(t) has been read
PendingInv ==
    \/ pending = <<>>
    \/ Len(pending) = 1 /\ pending[1].act \in {"BO_LOAD_DATA", "JOB_SUBMIT"}
    \/ Len(pending) = 2 /\ WithRelocs(pending[1]) /\ pending[2].act = "gathers"

RecordsInv(t) ==
    /\ DOMAIN out = Threads /\ out[t] \in Seq(Range(out[t])) /\ pending \in Seq(Range(pending))
    /\ PendingInv /\ Complete(Unread(t))
    /\ \A c \in Range(Unread(t)) : RecordInv(c)

\* Every framebuffer of the program has one in the replay, or is about to.
FbInv(t) ==
    \A f \in Files : \A i \in DOMAIN bos[f] :
        bos[f][i].fb_id # None =>
            \/ FbMade(fb_list, bos[f][i].id, rec_ctx[f])
            \/ \E c \in Range(Unread(t)) : /\ c.act = "ADD_FRAMEBUFFER"
                                          /\ c.bo_id = bos[f][i].id /\ c.ctx_id = rec_ctx[f]

\* What is free when a call begins is free when its leave hook runs.
OpenInv(t) ==
    LET f == call[t].file IN
    /\ DOMAIN call = Threads /\ ctx_cnt \in Nat
    /\ call[t].op # "none" => f \in Files
    /\ call[t].op = "counting" =>
        /\ enabled /\ out[t] = <<>> /\ rec_ctx[f] = None
        /\ call[t].count \in Nat /\ call[t].count % IdMod \notin LiveCtxs
    /\ call[t].op = "create" => f \in Recorded /\ bos_cnt % IdMod \notin LiveIds(bos)
    /\ call[t].op = "open_channel" => f \in Recorded /\ job_ctx_cnt % IdMod \notin LiveIds(contexts)

\* The file begins with START and INFO, before anything is open.
StartInv(t) ==
    IF enabled
    THEN /\ inited /\ act_cnt = 2 /\ compression = program.compression
         /\ call[t].op # "start"
    ELSE /\ \A f \in Files : rec_ctx[f] = None
         /\ ctx_list = <<>> /\ bo_list = <<>> /\ job_ctx_list = <<>> /\ pending = <<>>
         /\ inited <=> call[t].op = "start"
         /\ Len(out[t]) = IF inited THEN 2 - act_cnt ELSE 0
         /\ act_cnt \in 0..IF inited THEN 2 ELSE 0
         /\ act_cnt = 0 /\ inited => out[t][1].act = "START" /\ out[t][2].act = "INFO"
         /\ act_cnt = 1 => out[t][1].act = "INFO"
         /\ act_cnt = 2 => compression = program.compression
         /\ \A k \in DOMAIN out[t] :
              out[t][k].act = "INFO" =>
                out[t][k].drm /\ out[t][k].compression = program.compression

ReplayInv(t) ==
    /\ status = "running"
    /\ ListsInv /\ RecordsInv(t) /\ MirrorInv(t) /\ FbInv(t) /\ OpenInv(t) /\ StartInv(t)

\* A buffer has finitely many pages, and so have the checksums of its struct bo_rec:
\* a capture writes a finite list of records.
SizesInv(t) ==
    /\ program \in Programs
    /\ DOMAIN mem = Objs /\ \A o \in Objs : IsFiniteSet(DOMAIN mem[o])
    /\ call[t].op = "create" => call[t].obj \in Objs
    /\ \A f \in Files : \A i \in DOMAIN bos[f] : IsFiniteSet(DOMAIN bos[f][i].chksum)

RInv == \A t \in Threads : ReplayInv(t) /\ SizesInv(t)

-----------------------------------------------------------------------------
(* The inductive invariant of JobSeesProgramsMemory, for a program whose   *)
(* only thread is t                                                        *)

\* The records r load page p of the buffer id.
Loading(r, id, p) ==
    \E k \in DOMAIN r : r[k].act = "BO_LOAD_DATA" /\ r[k].id = id /\ r[k].page = p

MirrorsOf(id) == {j \in DOMAIN bo_list : bo_list[j].id = id}

\* The replayed job has written the page; the program's has not yet.
Replayed(t, f, h, p) ==
    LET w == call[t].write IN
    /\ call[t].op = "submit" /\ out[t] = <<>> /\ call[t].file = f
    /\ w # None /\ h = call[t].order[w.target] /\ p = w.page

\* The replay has, or is about to get, what libwrap recorded last of page p of b;
\* or a job has written the page since.
Recent(t, f, b, p) ==
    \/ \A j \in MirrorsOf(b.id) : bo_list[j].map[p] = b.chksum[p]
    \/ Loading(Unread(t), b.id, p)
    \/ program.checksums /\ <<gem[f][b.handle], p>> \in rendered
    \/ Replayed(t, f, b.handle, p)

\* The job of t names the buffer, and its records are not all written.
Capturing(t, f, b) ==
    /\ call[t].op = "submit" /\ out[t] # <<>>
    /\ call[t].file = f /\ b.handle \in call[t].uses
    /\ b.data # None /\ ~b.is_framebuffer

\* What libwrap and the replay know of a buffer of the program
PagesInv(t, f, b) ==
    LET m == mem[gem[f][b.handle]] IN
    /\ DOMAIN b.chksum = DOMAIN m
    /\ \A j \in MirrorsOf(b.id) : DOMAIN bo_list[j].map = DOMAIN m
    /\ program.checksums \/ Capturing(t, f, b) => \A p \in DOMAIN m : Recent(t, f, b, p)
    /\ Capturing(t, f, b) => \A p \in Promised(Len(m)) : b.chksum[p] = m[p]

\* Record k of r, if it is about the buffer b of file f, agrees with its shadow.
Agrees(t, r, k, f, b) ==
    /\ r[k].act = "BO_CREATE" /\ r[k].id = b.id => b.chksum = [p \in 1..r[k].num_pages |-> Zero]
    /\ r[k].act = "BO_LOAD_DATA" /\ r[k].id = b.id =>
         r[k].page \in DOMAIN b.chksum /\ r[k + 1].data = b.chksum[r[k].page]
    /\ r[k].act = "relocs" /\ r[k].write # None /\ r[k].ids[r[k].write.target] = b.id =>
         f = call[t].file /\ b.handle = call[t].order[r[k].write.target]

\* The records of a job come after the pages it needs, while its call lasts.
JobLast(t, r, k) ==
    /\ r[k].act \in {"JOB_SUBMIT", "relocs"} =>
         call[t].op = "submit" /\ \A l \in DOMAIN r : l > k => r[l].act # "BO_LOAD_DATA"
    /\ r[k].act = "relocs" => k = Len(r) /\ r[k].write = call[t].write

ContentsInv(t) ==
    \A k \in DOMAIN Unread(t) :
        /\ JobLast(t, Unread(t), k)
        /\ \A f \in Files : \A i \in DOMAIN bos[f] : Agrees(t, Unread(t), k, f, bos[f][i])

\* A buffer is listed under a handle, with a checksum per page.
ShapeInv(b) == b.handle \in Handles /\ b.chksum \in Seq(Range(b.chksum))

MemoryInv(t) ==
    /\ \A o \in Objs : mem[o] \in Seq(Range(mem[o])) /\ mem[o] # <<>>
    /\ call[t].op = "submit" =>
         /\ call[t].file \in Files
         /\ \A h \in call[t].uses : h \in Handles /\ gem[call[t].file][h] # None
    /\ ContentsInv(t)
    /\ \A f \in Files : \A i \in DOMAIN bos[f] :
         /\ ShapeInv(bos[f][i])
         /\ Given(f, bos[f][i].handle) => PagesInv(t, f, bos[f][i])

MInv == "bad" \notin program.ops => \A t \in Threads : MemoryInv(t)

-----------------------------------------------------------------------------
(* The inductive invariant of DisplayFollows, for a program whose only     *)
(* thread is t                                                             *)

\* The programs it is about keep the handle of a framebuffer, have one framebuffer on
\* a buffer, name only handles they have, and do not come back to the id of a context
\* that is gone: its framebuffers are still in the replay.
Displayable ==
    /\ program.keep_handles /\ program.one_fb /\ "bad" \notin program.ops
    /\ "close_file" \in program.ops => program.max_ids <= IdMod

\* The buffers of libwrap that are framebuffers
FbOf(f, b) == [file |-> f, handle |-> b.handle, id |-> b.id, fb |-> b.fb_id]
FbsIn(f, s) == {FbOf(f, s[i]) : i \in {j \in DOMAIN s : s[j].fb_id # None}}
FbsOf(table) == UNION {FbsIn(f, table[f]) : f \in Files}
Fbs == FbsOf(bos)

\* The framebuffers of the kernel are those of libwrap, but for the one that is being
\* made or removed.
KernelFbInv(t) ==
    /\ kfb \in [FbIds -> [file : Files, obj : Objs] \cup {NoFb}]
    /\ call[t].op \in {"addfb", "rmfb", "display"} =>
         /\ call[t].file \in Files /\ call[t].obj \in FbIds
         /\ kfb[call[t].obj].file = call[t].file
    /\ call[t].op = "addfb" =>
         /\ call[t].handle \in Handles
         /\ kfb[call[t].obj].obj = gem[call[t].file][call[t].handle]
    /\ call[t].op \in {"addfb", "close"} =>
         \A e \in Fbs : e.file = call[t].file => e.handle # call[t].handle
    /\ \A e \in Fbs :
         /\ e.file \in Files /\ e.handle \in Handles /\ e.fb \in FbIds
         /\ kfb[e.fb] = [file |-> e.file, obj |-> gem[e.file][e.handle]]
         /\ call[t].op \in {"addfb", "rmfb"} => call[t].obj # e.fb
         /\ \A d \in Fbs : d.fb = e.fb => d = e
    /\ \A b \in FbIds : kfb[b] # NoFb =>
         \/ call[t].op \in {"addfb", "rmfb"} /\ call[t].obj = b
         \/ b \in OtherFbs
         \/ \E e \in Fbs : e.fb = b

\* The context of a file that has been closed: its id is not given out again.
Gone(id) ==
    "close_file" \in program.ops /\ id \in 0..(ctx_cnt - 1) /\ id \notin LiveCtxs

ContextIdsInv(t) ==
    /\ ctx_cnt \in Nat /\ ctx_cnt <= program.max_ids
    /\ call[t].op \in {"start", "counting"} => ctx_cnt < program.max_ids
    /\ call[t].op = "counting" => call[t].count = ctx_cnt
    /\ "close_file" \in program.ops => LiveCtxs \subseteq 0..(ctx_cnt - 1)

\* A framebuffer of the replay, or a record of one, is that of the buffer e.
IsOn(c, e) == c.bo_id = e.id /\ c.ctx_id = rec_ctx[e.file]
SameFb(c, d) == c.bo_id = d.bo_id /\ c.ctx_id = d.ctx_id
FbRecords == {"ADD_FRAMEBUFFER", "DEL_FRAMEBUFFER", "DISP_FRAMEBUFFER"}

\* The framebuffers of the replay are those of libwrap, once the record that is left
\* is carried out.
ReplayFbInv(t) ==
    /\ \A i, j \in DOMAIN fb_list : fb_list[i].addr = fb_list[j].addr => i = j
    /\ \A c \in Range(fb_list) :
         /\ c.addr \in Addrs
         /\ \A d \in Range(fb_list) : SameFb(c, d) => c = d
         /\ \/ \E e \in Fbs : IsOn(c, e)
            \/ \E d \in Range(Unread(t)) : d.act = "DEL_FRAMEBUFFER" /\ SameFb(c, d)
            \/ Gone(c.ctx_id)
    /\ \A e \in Fbs :
         \/ \E c \in Range(fb_list) : IsOn(c, e) /\ c.geom = e.fb
         \/ \E c \in Range(Unread(t)) : c.act = "ADD_FRAMEBUFFER" /\ IsOn(c, e) /\ c.geom = e.fb
    /\ \A c \in Range(Unread(t)) :
         /\ c.act \in FbRecords => Len(Unread(t)) = 1
         /\ c.act = "ADD_FRAMEBUFFER" =>
              /\ \E e \in Fbs : IsOn(c, e)
              /\ \A d \in Range(fb_list) : ~SameFb(c, d)
         /\ c.act = "DEL_FRAMEBUFFER" => \A e \in Fbs : ~IsOn(c, e)

\* The replay believes that it displays the program's framebuffer b.
OnScreen(b) ==
    \E e \in Fbs : e.fb = b /\ \E c \in Range(fb_list) : IsOn(c, e) /\ c.addr = displayed_fb

ScreenInv(t) ==
    /\ displayed_fb # None =>
         \E c \in Range(fb_list) :
             c.addr = displayed_fb /\ overlay = [bo_id |-> c.bo_id, geom |-> c.geom]
    /\ crtc # None => crtc \in FbIds /\ kfb[crtc] # NoFb
    /\ call[t].op = "display" =>
         \/ out[t] = <<>> /\ (call[t].obj \in OtherFbs \/ OnScreen(call[t].obj))
         \/ \E e \in Fbs : e.fb = call[t].obj
              /\ \E c \in Range(out[t]) :
                   out[t] = <<c>> /\ c.act = "DISP_FRAMEBUFFER" /\ IsOn(c, e)
    /\ \/ crtc \in OtherFbs \cup {None}
       \/ call[t].op = "rmfb" /\ call[t].obj = crtc
       \/ call[t].op = "display" /\ out[t] = <<>>
       \/ OnScreen(crtc)

\* Only the calls that show a framebuffer record it.
ShowsInv(t) ==
    \A c \in Range(out[t]) : c.act = "DISP_FRAMEBUFFER" => call[t].op = "display"

DisplayInv(t) ==
    KernelFbInv(t) /\ ContextIdsInv(t) /\ ReplayFbInv(t) /\ ScreenInv(t) /\ ShowsInv(t)

DInv == Displayable => \A t \in Threads : DisplayInv(t)
=============================================================================
