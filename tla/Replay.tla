------------------------------- MODULE Replay -------------------------------
(***************************************************************************)
(* tools/replay.c: it reads the records libwrap wrote, one after another,  *)
(* and rebuilds the traced program's buffers, framebuffers and jobs on its *)
(* own device.  There is no resynchronisation: the meaning of the next     *)
(* bytes follows from the record before them, and every inconsistency ends *)
(* in an assert() or in a silently different replay.                       *)
(*                                                                         *)
(* A record is one fwrite() of the recorder: a header with its arguments,  *)
(* or the payload that must follow BO_LOAD_DATA and JOB_SUBMIT.            *)
(***************************************************************************)
EXTENDS RecordFormat

CONSTANT Addrs      \* addresses calloc() returns for a struct rep_framebuffer

ASSUME AddrsAssumption == None \notin Addrs

VARIABLES
    act_cnt,        \* records read, counted up to 2
    compression,
    ctx_list,       \* ids
    bo_list,        \* [id, map]: map is the contents, page by page
    fb_list,        \* [addr, bo_id, ctx_id, geom]
    job_ctx_list,   \* ids
    displayed_fb,   \* address of the framebuffer believed to be displayed
    overlay,        \* framebuffer the overlay scans out
    pending,        \* headers whose payload has not been read yet
    status          \* "running", "asserted" or "stopped"

lists == <<ctx_list, bo_list, fb_list, job_ctx_list>>
screen == <<displayed_fb, overlay>>
repVars == <<act_cnt, compression, lists, screen, pending, status>>

ReplayInit ==
    /\ act_cnt = 0
    /\ compression = "none"
    /\ ctx_list = <<>> /\ bo_list = <<>> /\ fb_list = <<>> /\ job_ctx_list = <<>>
    /\ displayed_fb = None /\ overlay = None
    /\ pending = <<>>
    /\ status = "running"

\* The first place of an id in a list, if it is there
Places(s, id) == {i \in DOMAIN s : s[i] = id /\ \A j \in 1..(i - 1) : s[j] # id}
Has(s, id) == Places(s, id) # {}

\* Mutant: the first BO of the list is skipped.
lookup_bo_SkipsFirst(id) ==
    {i \in 2..Len(bo_list) : bo_list[i].id = id /\ \A j \in 2..(i - 1) : bo_list[j].id # id}

\* lookup_bo: the context is not compared
lookup_bo(id) == {i \in DOMAIN bo_list : /\ bo_list[i].id = id
                                         /\ \A j \in 1..(i - 1) : bo_list[j].id # id}

lookup_framebuffer(bo, ctx) ==
    LET Matches(i) == fb_list[i].bo_id = bo /\ fb_list[i].ctx_id = ctx
    IN  {i \in DOMAIN fb_list : Matches(i) /\ \A j \in 1..(i - 1) : ~Matches(j)}

\* assert() failed, or one of the err_ labels of main() was reached
Asserted == status' = "asserted" /\ UNCHANGED <<compression, lists, screen, pending>>
Stopped == status' = "stopped" /\ UNCHANGED <<compression, lists, screen, pending>>

-----------------------------------------------------------------------------
(* Handlers of the records without payload *)

info(c) ==
    \/ /\ c.drm
       /\ compression' = c.compression
       /\ UNCHANGED <<lists, screen, pending, status>>
    \/ ~c.drm /\ Stopped

create_context(c) ==
    /\ ctx_list' = Append(ctx_list, c.id)
    /\ UNCHANGED <<compression, bo_list, fb_list, job_ctx_list, screen, pending, status>>

destroy_context(c) ==
    \/ /\ \E i \in Places(ctx_list, c.id) : ctx_list' = RemoveAt(ctx_list, i)
       /\ UNCHANGED <<compression, bo_list, fb_list, job_ctx_list, screen, pending, status>>
    \/ ~Has(ctx_list, c.id) /\ Asserted

create_bo(c) ==
    \/ /\ Has(ctx_list, c.ctx_id)
       /\ bo_list' = Append(bo_list, [id |-> c.id, map |-> [p \in 1..c.num_pages |-> Zero]])
       /\ UNCHANGED <<compression, ctx_list, fb_list, job_ctx_list, screen, pending, status>>
    \/ ~Has(ctx_list, c.ctx_id) /\ Asserted

\* Mutant: the BO stays in the list.
destroy_bo_Keeps(c) ==
    /\ lookup_bo(c.id) # {}
    /\ UNCHANGED <<compression, lists, screen, pending, status>>

\* The host1x BO stays allocated: a framebuffer made from it keeps working.
destroy_bo(c) ==
    \/ \E i \in lookup_bo(c.id) :
        /\ bo_list' = RemoveAt(bo_list, i)
        /\ UNCHANGED <<compression, ctx_list, fb_list, job_ctx_list, screen, pending, status>>
    \/ lookup_bo(c.id) = {} /\ Asserted

\* "TODO: implement": only the lookup
set_bo_flags(c) ==
    IF lookup_bo(c.id) = {} THEN Asserted
    ELSE UNCHANGED <<compression, lists, screen, pending, status>>

\* calloc() may return any address that is not in use, the one freed last
\* included.
create_framebuffer(c) ==
    \/ /\ lookup_bo(c.bo_id) # {}
       /\ \E a \in Addrs :
            /\ \A i \in DOMAIN fb_list : fb_list[i].addr # a
            /\ fb_list' = Append(fb_list, [addr |-> a, bo_id |-> c.bo_id,
                                           ctx_id |-> c.ctx_id, geom |-> c.geom])
       /\ UNCHANGED <<compression, ctx_list, bo_list, job_ctx_list, screen, pending, status>>
    \/ lookup_bo(c.bo_id) = {} /\ Asserted

\* Mutant: displayed_fb keeps pointing to the freed framebuffer.
destroy_framebuffer_Dangling(c) ==
    \E i \in lookup_framebuffer(c.bo_id, c.ctx_id) :
        /\ fb_list' = RemoveAt(fb_list, i)
        /\ UNCHANGED <<compression, ctx_list, bo_list, job_ctx_list, screen, pending, status>>

\* The overlay is left as it is, only the belief is reset.
destroy_framebuffer(c) ==
    \/ \E i \in lookup_framebuffer(c.bo_id, c.ctx_id) :
        /\ fb_list' = RemoveAt(fb_list, i)
        /\ displayed_fb' = IF displayed_fb = fb_list[i].addr THEN None ELSE displayed_fb
        /\ UNCHANGED <<compression, ctx_list, bo_list, job_ctx_list, overlay, pending, status>>
    \/ lookup_framebuffer(c.bo_id, c.ctx_id) = {} /\ Asserted

display_framebuffer(c) ==
    \/ \E i \in lookup_framebuffer(c.bo_id, c.ctx_id) :
        /\ overlay' = IF displayed_fb = fb_list[i].addr THEN overlay
                      ELSE [bo_id |-> fb_list[i].bo_id, geom |-> fb_list[i].geom]
        /\ displayed_fb' = fb_list[i].addr
        /\ UNCHANGED <<compression, lists, pending, status>>
    \/ lookup_framebuffer(c.bo_id, c.ctx_id) = {} /\ Asserted

create_job_context(c) ==
    /\ job_ctx_list' = Append(job_ctx_list, c.id)
    /\ UNCHANGED <<compression, ctx_list, bo_list, fb_list, screen, pending, status>>

destroy_job_context(c) ==
    \/ /\ \E i \in Places(job_ctx_list, c.id) : job_ctx_list' = RemoveAt(job_ctx_list, i)
       /\ UNCHANGED <<compression, ctx_list, bo_list, fb_list, screen, pending, status>>
    \/ ~Has(job_ctx_list, c.id) /\ Asserted

-----------------------------------------------------------------------------
(* BO_LOAD_DATA and JOB_SUBMIT read on *)

\* A header is kept until the payload it announces has been read.  submit_job
\* dereferences the job context without a check.
expect(c) ==
    \/ /\ c.act = "JOB_SUBMIT" => Has(job_ctx_list, c.job_ctx_id)
       /\ pending' = <<c>>
       /\ UNCHANGED <<compression, lists, screen, status>>
    \/ /\ c.act = "JOB_SUBMIT"
       /\ ~Has(job_ctx_list, c.job_ctx_id)
       /\ Asserted

\* the page of a BO gets new contents
Store(i, p, v) ==
    bo_list' = [bo_list EXCEPT ![i] =
                  [id |-> bo_list[i].id, map |-> [bo_list[i].map EXCEPT ![p] = v]]]

Unpackable(c) == c.act = "page" /\ c.packed \in {"none", compression}

load_bo(c) ==
    LET h == Head(pending) IN
    \/ lookup_bo(h.id) = {} /\ Asserted
    \/ /\ Unpackable(c)
       /\ \E i \in lookup_bo(h.id) : Store(i, h.page, c.data)
       /\ pending' = <<>>
       /\ UNCHANGED <<compression, ctx_list, fb_list, job_ctx_list, screen, status>>
    \/ \* the bytes are not the page: inflate() fails, or nonsense is loaded
       /\ lookup_bo(h.id) # {}
       /\ ~Unpackable(c)
       /\ Asserted \/ Stopped

\* What the commands of the job do to a buffer it names: nothing, or one page
\* gets new contents.  The job has finished when the call returns.
Execute(ids, w) ==
    \/ w = None /\ UNCHANGED bo_list
    \/ w # None /\ \E i \in lookup_bo(ids[w.target]) : Store(i, w.page, w.data)

\* The gathers: their BOs must exist, in the context of the relocations.  Bytes
\* of another record are taken for a gather as well: the first field of any
\* record is its action code, which is then looked up as a BO id.
read_gathers(c) ==
    LET h == Head(pending)
        id == IF c.act = "gathers" THEN c.id ELSE c.code
    IN
    \/ /\ c.act = "gathers"
       /\ h.num_relocs > 0 \/ lookup_bo(id) # {}
       /\ pending' = IF h.num_relocs > 0 THEN <<h, c>> ELSE <<>>
       /\ UNCHANGED <<compression, lists, screen, status>>
    \/ /\ c.act # "gathers" \/ h.num_relocs = 0
       /\ lookup_bo(id) = {}
       /\ Asserted
    \/ /\ c.act # "gathers"
       /\ lookup_bo(id) # {}
       /\ Stopped

submit_job(c) ==
    LET g == pending[2] IN
    \/ /\ c.act = "relocs"
       /\ Has(ctx_list, c.ctx_id)
       /\ g.ctx_id = c.ctx_id
       /\ lookup_bo(g.id) # {}
       /\ \A i \in DOMAIN c.ids : lookup_bo(c.ids[i]) # {}
       /\ c.gather_id = g.id
       /\ Execute(c.ids, c.write)
       /\ pending' = <<>>
       /\ UNCHANGED <<compression, ctx_list, fb_list, job_ctx_list, screen, status>>
    \/ /\ c.act = "relocs"
       /\ \/ ~Has(ctx_list, c.ctx_id)
          \/ g.ctx_id # c.ctx_id
          \/ lookup_bo(g.id) = {}
          \/ \E i \in DOMAIN c.ids : lookup_bo(c.ids[i]) = {}
          \/ c.gather_id # g.id
       /\ Asserted
    \/ c.act # "relocs" /\ (Asserted \/ Stopped)

-----------------------------------------------------------------------------
\* act_cnt: the first record must be START, the second INFO
InOrder(c) == /\ act_cnt = 0 => c.act = "START"
              /\ act_cnt = 1 => c.act = "INFO"

handle(c) ==
    \/ ~InOrder(c) /\ Asserted
    \/ /\ InOrder(c)
       /\ \/ c.act = "START" /\ UNCHANGED <<compression, lists, screen, pending, status>>
          \/ c.act = "INFO" /\ info(c)
          \/ c.act = "CTX_CREATE" /\ create_context(c)
          \/ c.act = "CTX_DESTROY" /\ destroy_context(c)
          \/ c.act = "BO_CREATE" /\ create_bo(c)
          \/ c.act = "BO_DESTROY" /\ destroy_bo(c)
          \/ c.act = "BO_SET_FLAGS" /\ set_bo_flags(c)
          \/ c.act = "ADD_FRAMEBUFFER" /\ create_framebuffer(c)
          \/ c.act = "DEL_FRAMEBUFFER" /\ destroy_framebuffer(c)
          \/ c.act = "DISP_FRAMEBUFFER" /\ display_framebuffer(c)
          \/ c.act = "JOB_CTX_CREATE" /\ create_job_context(c)
          \/ c.act = "JOB_CTX_DESTROY" /\ destroy_job_context(c)
          \/ c.act \in {"BO_LOAD_DATA", "JOB_SUBMIT"} /\ expect(c)
          \/ c.act \in {"page", "gathers", "relocs"} /\ Stopped

\* main(): the next record of the file
Consume(c) ==
    IF status # "running" THEN UNCHANGED repVars
    ELSE /\ act_cnt' = IF act_cnt < 2 THEN act_cnt + 1 ELSE 2
         /\ \/ pending = <<>> /\ handle(c)
            \/ /\ pending # <<>>
               /\ \/ Head(pending).act = "BO_LOAD_DATA" /\ load_bo(c)
                  \/ Head(pending).act = "JOB_SUBMIT" /\ Len(pending) = 1 /\ read_gathers(c)
                  \/ Head(pending).act = "JOB_SUBMIT" /\ Len(pending) = 2 /\ submit_job(c)
=============================================================================
