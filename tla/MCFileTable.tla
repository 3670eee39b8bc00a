---------------------------- MODULE MCFileTable ----------------------------
(***************************************************************************)
(* Instances of FileTable for TLC.                                         *)
(***************************************************************************)
EXTENDS FileTable, TLC

\* Descriptor numbers and files are interchangeable: the kernel may return
\* any free number and the list is searched by equality only.
Symmetry == Permutations(Fds) \cup Permutations(Files)
                \cup Permutations(Threads)
=============================================================================
