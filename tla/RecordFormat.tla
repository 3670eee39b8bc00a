---------------------------- MODULE RecordFormat ----------------------------
(***************************************************************************)
(* include/record_replay.h: the records libwrap writes and tools/replay    *)
(* reads.  Each is the result of one fwrite(): a header with its arguments *)
(* or the payload that follows BO_LOAD_DATA and JOB_SUBMIT.                *)
(***************************************************************************)
EXTENDS Integers, Sequences, SequencesExt, TLC

CONSTANTS
    Zero,       \* contents of a page nobody wrote
    IdMod,      \* 2^16: ids are 16 bits wide in a record
    None        \* a NULL pointer, an absent object

ASSUME FormatAssumption == IdMod \in Nat \ {0}

\* enum record_action
Code == [START |-> 0, INFO |-> 1, CTX_CREATE |-> 2, CTX_DESTROY |-> 3,
         BO_CREATE |-> 4, BO_DESTROY |-> 5, BO_LOAD_DATA |-> 6,
         BO_SET_FLAGS |-> 7, ADD_FRAMEBUFFER |-> 8, DEL_FRAMEBUFFER |-> 9,
         DISP_FRAMEBUFFER |-> 10, JOB_CTX_CREATE |-> 11,
         JOB_CTX_DESTROY |-> 12, JOB_SUBMIT |-> 13]

\* A record about the object "id"; about a buffer of n pages; about its page p;
\* about a framebuffer, where geom stands for its size and format.
Rec(a, id, ctx) == [act |-> a, code |-> Code[a], id |-> id, ctx_id |-> ctx]
BoRec(id, ctx, n) ==
    [act |-> "BO_CREATE", code |-> Code["BO_CREATE"], id |-> id, ctx_id |-> ctx, num_pages |-> n]
LoadRec(id, ctx, p) ==
    [act |-> "BO_LOAD_DATA", code |-> Code["BO_LOAD_DATA"], id |-> id, ctx_id |-> ctx, page |-> p]
FbRec(a, bo, ctx, g) ==
    [act |-> a, code |-> Code[a], bo_id |-> bo.id, ctx_id |-> ctx, geom |-> g]
=============================================================================
