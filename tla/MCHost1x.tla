------------------------------ MODULE MCHost1x ------------------------------
(***************************************************************************)
(* Instances of Host1x for TLC.                                         *)
(***************************************************************************)
EXTENDS Host1x, TLC

Symmetry == Permutations(Bos) \cup Permutations(Handles) \cup Permutations(Objs)
                \cup Permutations(MapIds) \cup Permutations(Chans)

\* The calls that may fail, and the jobs.
Faults == {[driver |-> "drm", refuses |-> {"submit", "wait"}, max_jobs |-> 3],
           [driver |-> "nvhost", refuses |-> {"submit", "flush", "wait"}, max_jobs |-> 2],
           [driver |-> "drm2", refuses |-> {"map"}, max_jobs |-> 2],
           [driver |-> "drm2", refuses |-> {"wait"}, max_jobs |-> 1]}
RefusedSubmit == {[driver |-> "drm2", refuses |-> {"submit"}, max_jobs |-> 1]}
=============================================================================
