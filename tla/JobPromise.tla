----------------------------- MODULE JobPromise -----------------------------
(***************************************************************************)
(* What struct host1x_client promises its caller, whatever the back end:   *)
(* jobs handed to submit() are finished one by one in the order in which   *)
(* they were accepted, and a wait() that succeeds means that every job     *)
(* accepted before it is finished.                                         *)
(***************************************************************************)
EXTENDS Naturals

CONSTANT Clients

VARIABLES
    accepted,   \* jobs whose submit() returned 0
    finished,   \* of those, jobs the hardware has finished
    answered    \* jobs the caller has been told are finished

promiseVars == <<accepted, finished, answered>>

Init ==
    /\ accepted = [c \in Clients |-> 0]
    /\ finished = [c \in Clients |-> 0]
    /\ answered = [c \in Clients |-> 0]

Accept(c) ==
    /\ accepted' = [accepted EXCEPT ![c] = @ + 1]
    /\ UNCHANGED <<finished, answered>>

Finish(c) ==
    /\ finished[c] < accepted[c]
    /\ finished' = [finished EXCEPT ![c] = @ + 1]
    /\ UNCHANGED <<accepted, answered>>

Answer(c) ==
    /\ finished[c] = accepted[c]
    /\ answered' = [answered EXCEPT ![c] = accepted[c]]
    /\ UNCHANGED <<accepted, finished>>

Next == \E c \in Clients : Accept(c) \/ Finish(c) \/ Answer(c)

Spec == Init /\ [][Next]_promiseVars
=============================================================================
