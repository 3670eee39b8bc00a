-------------------------- MODULE FileTableProofs --------------------------
(***************************************************************************)
(* Proofs that the table of device files keeps up with the kernel, for any *)
(* number of threads, descriptors, files and dup slots.  The assumption    *)
(* NoEarlyReuse holds of every single-threaded program.                    *)
(***************************************************************************)
EXTENDS FileTable, TLAPS

\* The empty table with nothing open satisfies the invariant.
LEMMA InitInv == Init => IInv
<1> SUFFICES ASSUME Init PROVE IInv
  OBVIOUS
<1> USE NamesAssumption DEF Init
<1>1. TypeOK
  BY DEF TypeOK, Call, Idle, At, Descriptor, Phases
<1>2. ListInv /\ EntryInv /\ OneEntryInv
  BY DEF ListInv, EntryInv, OneEntryInv, Listed
<1>3. KernelInv /\ UnseenInv
  BY DEF KernelInv, UnseenInv
<1>4. OpenInv /\ CloseInv /\ UseInv /\ DupInv /\ ExclusiveInv /\ NewInv
  BY DEF OpenInv, CloseInv, UseInv, DupInv, ExclusiveInv, NewInv, Idle, At,
         Opening, Closing, Using, Dupping
<1> QED
  BY <1>1, <1>2, <1>3, <1>4 DEF IInv

\* A number the kernel may hand out is unknown to the table and to every call.
LEMMA FreshNumber ==
  ASSUME IInv, NoEarlyReuse, NEW n \in Fds, Available(n),
         NEW s \in Threads, pc[s].at = "idle"
  PROVE  /\ \A f \in Files : Listed(f) => ~Tracks(f, n)
         /\ n \notin unseen
         /\ \A t \in Threads : /\ ~Opening(t, n) /\ ~Dupping(t, n)
                               /\ ~Closing(t, n) /\ ~Using(t, n)
<1> USE NamesAssumption DEF Available
<1>1. \A t \in Threads : ~Closing(t, n)
  BY DEF Closing, NoEarlyReuse
<1>2. \A f \in Files : Listed(f) => ~Tracks(f, n)
  BY <1>1 DEF IInv, EntryInv
<1>3. n \notin unseen
  BY DEF IInv, UnseenInv
<1>4. \A t \in Threads : ~Opening(t, n) /\ ~Using(t, n)
  BY DEF IInv, OpenInv, UseInv, Descriptor
<1>5. \A t \in Threads : ~Dupping(t, n)
  <2> SUFFICES ASSUME NEW t \in Threads, Dupping(t, n) PROVE FALSE
    OBVIOUS
  <2>1. pc[t].fd \in Descriptor /\ Using(t, pc[t].fd)
    BY DEF IInv, TypeOK, Call, Dupping, Using
  <2>2. kfd[pc[t].fd] # Free
    BY <2>1 DEF IInv, UseInv
  <2> QED
    BY <2>2 DEF IInv, DupInv, Descriptor
<1> QED
  BY <1>1, <1>2, <1>3, <1>4, <1>5

\* A device descriptor the program can name is tracked, unless it is unseen.
LEMMA KnownIsTracked ==
  ASSUME IInv, NEW d \in Fds, Known(d)
  PROVE  FileOf(d) \in Files => Listed(FileOf(d)) /\ Tracks(FileOf(d), d)
BY NamesAssumption DEF IInv, KernelInv, FileOf, Known, Opening, Dupping

\* IoctlKernel preserves the invariant.
LEMMA IoctlKernelInv ==
  ASSUME IInv, NEW t \in Threads, IoctlKernel(t)
  PROVE  IInv'
<1> USE NamesAssumption DEF IoctlKernel, At
<1>1. TypeOK'
  BY DEF IInv, TypeOK, Call, Descriptor, UseInv, Using
<1>2. ListInv'
  BY DEF IInv, TypeOK, ListInv, Listed
<1>3. OneEntryInv'
  BY DEF IInv, TypeOK, OneEntryInv, EntryInv, Listed, Tracks
<1>4. EntryInv'
  BY DEF IInv, TypeOK, EntryInv, Listed, Tracks, Closing
<1>5. KernelInv'
  BY DEF IInv, TypeOK, KernelInv, Listed, Tracks, Opening, Dupping
<1>6. UnseenInv'
  BY DEF IInv, TypeOK, UnseenInv, Listed, Tracks, Opening, Dupping
<1>7. OpenInv' /\ CloseInv' /\ NewInv'
  BY DEF IInv, TypeOK, Call, OpenInv, CloseInv, NewInv, Opening, Closing
<1>8. UseInv'
  BY DEF IInv, TypeOK, Call, UseInv, Using, FileOf, Listed, Tracks
<1>9. DupInv'
  BY DEF IInv, TypeOK, DupInv, Dupping, Listed, Tracks
<1>10. ExclusiveInv'
  BY DEF IInv, TypeOK, ExclusiveInv, Opening, Closing, Dupping
<1> QED
  BY <1>1, <1>2, <1>3, <1>4, <1>5, <1>6, <1>7, <1>8, <1>9, <1>10 DEF IInv

\* IoctlLeave preserves the invariant.
LEMMA IoctlLeaveInv ==
  ASSUME IInv, NEW t \in Threads, IoctlLeave(t)
  PROVE  IInv'
<1> USE NamesAssumption DEF IoctlLeave, At, Idle
<1>1. TypeOK'
  BY DEF IInv, TypeOK, Call, Descriptor, Phases
<1>2. ListInv'
  BY DEF IInv, TypeOK, ListInv, Listed
<1>3. OneEntryInv'
  BY DEF IInv, TypeOK, OneEntryInv, EntryInv, Listed, Tracks
<1>4. EntryInv'
  BY DEF IInv, TypeOK, EntryInv, Listed, Tracks, Closing
<1>5. KernelInv'
  BY DEF IInv, TypeOK, KernelInv, Listed, Tracks, Opening, Dupping
<1>6. UnseenInv'
  BY DEF IInv, TypeOK, UnseenInv, Listed, Tracks, Opening, Dupping
<1>7. OpenInv' /\ CloseInv' /\ NewInv'
  BY DEF IInv, TypeOK, Call, OpenInv, CloseInv, NewInv, Opening, Closing
<1>8. UseInv'
  BY DEF IInv, TypeOK, Call, UseInv, Using, FileOf, Listed, Tracks
<1>9. DupInv'
  BY DEF IInv, TypeOK, DupInv, Dupping, Listed, Tracks
<1>10. ExclusiveInv'
  BY DEF IInv, TypeOK, ExclusiveInv, Opening, Closing, Dupping
<1> QED
  BY <1>1, <1>2, <1>3, <1>4, <1>5, <1>6, <1>7, <1>8, <1>9, <1>10 DEF IInv

\* FileCloseMiss preserves the invariant.
LEMMA FileCloseMissInv ==
  ASSUME IInv, NEW t \in Threads, FileCloseMiss(t)
  PROVE  IInv'
<1> USE NamesAssumption DEF FileCloseMiss, At, Idle
<1>0. \A f \in Files : Listed(f) => ~Tracks(f, pc[t].fd)
  BY DEF IInv, ListInv, Untracked
<1>1. TypeOK'
  BY DEF IInv, TypeOK, Call, Descriptor, Phases
<1>2. ListInv'
  BY DEF IInv, TypeOK, ListInv, Listed
<1>3. OneEntryInv'
  BY DEF IInv, TypeOK, OneEntryInv, EntryInv, Listed, Tracks
<1>4. EntryInv'
  BY <1>0 DEF IInv, TypeOK, EntryInv, Listed, Tracks, Closing
<1>5. KernelInv'
  BY DEF IInv, TypeOK, KernelInv, Listed, Tracks, Opening, Dupping
<1>6. UnseenInv'
  BY DEF IInv, TypeOK, UnseenInv, Listed, Tracks, Opening, Dupping
<1>7. OpenInv' /\ CloseInv' /\ NewInv'
  BY DEF IInv, TypeOK, Call, OpenInv, CloseInv, NewInv, Opening, Closing
<1>8. UseInv'
  BY DEF IInv, TypeOK, Call, UseInv, Using, FileOf, Listed, Tracks
<1>9. DupInv'
  BY DEF IInv, TypeOK, DupInv, Dupping, Listed, Tracks
<1>10. ExclusiveInv'
  BY DEF IInv, TypeOK, ExclusiveInv, Opening, Closing, Dupping
<1> QED
  BY <1>1, <1>2, <1>3, <1>4, <1>5, <1>6, <1>7, <1>8, <1>9, <1>10 DEF IInv

\* OpenDevice preserves the invariant.
LEMMA OpenDeviceInv ==
  ASSUME IInv, NoEarlyReuse, NEW t \in Threads, OpenDevice(t)
  PROVE  IInv'
<1> USE NamesAssumption DEF OpenDevice, At
<1>0. PICK n \in Fds : Available(n) /\ \E f \in Files :
                      /\ phase[f] = "unused"
                      /\ kfd' = [kfd EXCEPT ![n] = f]
                      /\ phase' = [phase EXCEPT ![f] = "pending"]
                      /\ pc' = [pc EXCEPT ![t] =
                                   At("file_open", n, NoFd, f, Free)]
  BY DEF OpenDevice
<1>a. /\ \A f \in Files : Listed(f) => ~Tracks(f, n)
      /\ n \notin unseen /\ kfd[n] = Free
      /\ \A s \in Threads : /\ ~Opening(s, n) /\ ~Dupping(s, n)
                            /\ ~Closing(s, n) /\ ~Using(s, n)
  BY <1>0, FreshNumber DEF Available
<1>1. TypeOK'
  BY <1>0, <1>a DEF IInv, TypeOK, Call, Descriptor, Phases
<1>2. ListInv'
  BY <1>0, <1>a DEF IInv, TypeOK, ListInv, Listed
<1>3. OneEntryInv'
  BY <1>0, <1>a DEF IInv, TypeOK, OneEntryInv, EntryInv, Listed, Tracks
<1>4. EntryInv'
  BY <1>0, <1>a DEF IInv, TypeOK, EntryInv, Listed, Tracks, Closing
<1>5. KernelInv'
  BY <1>0, <1>a DEF IInv, TypeOK, KernelInv, Listed, Tracks, Opening, Dupping
<1>6. UnseenInv'
  BY <1>0, <1>a DEF IInv, TypeOK, UnseenInv, Listed, Tracks, Opening, Dupping
<1>7. OpenInv' /\ CloseInv' /\ NewInv'
  BY <1>0, <1>a DEF IInv, TypeOK, Call, OpenInv, CloseInv, NewInv, Opening, Closing
<1>8. UseInv'
  BY <1>0, <1>a DEF IInv, TypeOK, Call, UseInv, Using, FileOf, Listed, Tracks
<1>9. DupInv'
  BY <1>0, <1>a DEF IInv, TypeOK, DupInv, UseInv, Dupping, Using, Listed, Tracks, Call
<1>10. ExclusiveInv'
  BY <1>0, <1>a DEF IInv, TypeOK, ExclusiveInv, Opening, Closing, Dupping
<1> QED
  BY <1>1, <1>2, <1>3, <1>4, <1>5, <1>6, <1>7, <1>8, <1>9, <1>10 DEF IInv

\* OpenOther preserves the invariant.
LEMMA OpenOtherInv ==
  ASSUME IInv, NoEarlyReuse, NEW t \in Threads, OpenOther(t)
  PROVE  IInv'
<1> USE NamesAssumption DEF OpenOther, At
<1>0. PICK n \in Fds : Available(n) /\ kfd' = [kfd EXCEPT ![n] = Other]
  BY DEF OpenOther
<1>a. /\ \A f \in Files : Listed(f) => ~Tracks(f, n)
      /\ n \notin unseen /\ kfd[n] = Free
      /\ \A s \in Threads : /\ ~Opening(s, n) /\ ~Dupping(s, n)
                            /\ ~Closing(s, n) /\ ~Using(s, n)
  BY <1>0, FreshNumber DEF Available
<1>1. TypeOK'
  BY <1>0, <1>a DEF IInv, TypeOK, Call, Descriptor, Phases
<1>2. ListInv'
  BY <1>0, <1>a DEF IInv, TypeOK, ListInv, Listed
<1>3. OneEntryInv'
  BY <1>0, <1>a DEF IInv, TypeOK, OneEntryInv, EntryInv, Listed, Tracks
<1>4. EntryInv'
  BY <1>0, <1>a DEF IInv, TypeOK, EntryInv, Listed, Tracks, Closing
<1>5. KernelInv'
  BY <1>0, <1>a DEF IInv, TypeOK, KernelInv, Listed, Tracks, Opening, Dupping
<1>6. UnseenInv'
  BY <1>0, <1>a DEF IInv, TypeOK, UnseenInv, Listed, Tracks, Opening, Dupping
<1>7. OpenInv' /\ CloseInv' /\ NewInv'
  BY <1>0, <1>a DEF IInv, TypeOK, Call, OpenInv, CloseInv, NewInv, Opening, Closing
<1>8. UseInv'
  BY <1>0, <1>a DEF IInv, TypeOK, Call, UseInv, Using, FileOf, Listed, Tracks
<1>9. DupInv'
  BY <1>0, <1>a DEF IInv, TypeOK, DupInv, UseInv, Dupping, Using, Listed, Tracks, Call
<1>10. ExclusiveInv'
  BY <1>0, <1>a DEF IInv, TypeOK, ExclusiveInv, Opening, Closing, Dupping
<1> QED
  BY <1>1, <1>2, <1>3, <1>4, <1>5, <1>6, <1>7, <1>8, <1>9, <1>10 DEF IInv

\* DupKernel preserves the invariant.
LEMMA DupKernelInv ==
  ASSUME IInv, NoEarlyReuse, NEW t \in Threads, NEW d \in Fds, DupKernel(t, d)
  PROVE  IInv'
<1> USE NamesAssumption DEF DupKernel, Known, At
<1>0. PICK n \in Fds : Available(n) /\ kfd' = [kfd EXCEPT ![n] = kfd[d]]
                      /\ pc' = [pc EXCEPT ![t] =
                                   At("dup_lookup", d, n, NoFile, Free)]
  BY DEF DupKernel
<1>a. /\ \A f \in Files : Listed(f) => ~Tracks(f, n)
      /\ n \notin unseen /\ kfd[n] = Free
      /\ \A s \in Threads : /\ ~Opening(s, n) /\ ~Dupping(s, n)
                            /\ ~Closing(s, n) /\ ~Using(s, n)
  BY <1>0, FreshNumber DEF Available
<1>1. TypeOK'
  BY <1>0, <1>a DEF IInv, TypeOK, Call, Descriptor, Phases
<1>2. ListInv'
  BY <1>0, <1>a DEF IInv, TypeOK, ListInv, Listed
<1>3. OneEntryInv'
  BY <1>0, <1>a DEF IInv, TypeOK, OneEntryInv, EntryInv, Listed, Tracks
<1>4. EntryInv'
  BY <1>0, <1>a DEF IInv, TypeOK, EntryInv, Listed, Tracks, Closing
<1>5. KernelInv'
  BY <1>0, <1>a DEF IInv, TypeOK, KernelInv, Listed, Tracks, Opening, Dupping
<1>6. UnseenInv'
  BY <1>0, <1>a DEF IInv, TypeOK, UnseenInv, Listed, Tracks, Opening, Dupping
<1>7. OpenInv' /\ CloseInv' /\ NewInv'
  BY <1>0, <1>a DEF IInv, TypeOK, Call, OpenInv, CloseInv, NewInv, Opening, Closing
<1>8. UseInv'
  <2>1. FileOf(d) \in Files => Listed(FileOf(d)) /\ Tracks(FileOf(d), d)
    BY KnownIsTracked
  <2> SUFFICES ASSUME NEW s \in Threads, NEW e \in Descriptor, Using(s, e)'
               PROVE  /\ e \in Fds /\ kfd'[e] # Free
                      /\ FileOf(e)' \in Files => /\ Listed(FileOf(e)')
                                                 /\ Tracks(FileOf(e)', e)
                      /\ pc'[s].at # "dup_lookup" => pc'[s].file = FileOf(e)'
                      /\ pc'[s].at = "file_dup" => pc'[s].file \in Files
                      /\ pc'[s].at = "leave" => pc'[s].target = kfd'[e]
    BY DEF UseInv, Listed, Tracks
  <2>2. CASE s = t
    <3>1. e = d /\ pc'[s].at = "dup_lookup"
      BY <2>2, <1>0 DEF IInv, TypeOK, Using
    <3> QED
      BY <3>1, <2>1, <1>0, <1>a DEF IInv, TypeOK, FileOf
  <2>3. CASE s # t
    <3>1. Using(s, e) /\ pc'[s] = pc[s] /\ e # n
      BY <2>3, <1>0, <1>a DEF IInv, TypeOK, Using
    <3> QED
      BY <3>1, <1>0 DEF IInv, TypeOK, UseInv, FileOf
  <2> QED
    BY <2>2, <2>3
<1>9. DupInv'
  BY <1>0, <1>a DEF IInv, TypeOK, DupInv, UseInv, Dupping, Using, Listed, Tracks, Call
<1>10. ExclusiveInv'
  BY <1>0, <1>a DEF IInv, TypeOK, ExclusiveInv, Opening, Closing, Dupping
<1> QED
  BY <1>1, <1>2, <1>3, <1>4, <1>5, <1>6, <1>7, <1>8, <1>9, <1>10 DEF IInv

\* DupUnwrapped preserves the invariant.
LEMMA DupUnwrappedInv ==
  ASSUME IInv, NoEarlyReuse, NEW t \in Threads, NEW d \in Fds, DupUnwrapped(t, d)
  PROVE  IInv'
<1> USE NamesAssumption DEF DupUnwrapped, Known, At
<1>0. PICK n \in Fds : Available(n) /\ kfd' = [kfd EXCEPT ![n] = kfd[d]]
                      /\ unseen' = unseen \cup {n}
  BY DEF DupUnwrapped
<1>a. /\ \A f \in Files : Listed(f) => ~Tracks(f, n)
      /\ n \notin unseen /\ kfd[n] = Free
      /\ \A s \in Threads : /\ ~Opening(s, n) /\ ~Dupping(s, n)
                            /\ ~Closing(s, n) /\ ~Using(s, n)
  BY <1>0, FreshNumber DEF Available
<1>1. TypeOK'
  BY <1>0, <1>a DEF IInv, TypeOK, Call, Descriptor, Phases
<1>2. ListInv'
  BY <1>0, <1>a DEF IInv, TypeOK, ListInv, Listed
<1>3. OneEntryInv'
  BY <1>0, <1>a DEF IInv, TypeOK, OneEntryInv, EntryInv, Listed, Tracks
<1>4. EntryInv'
  BY <1>0, <1>a DEF IInv, TypeOK, EntryInv, Listed, Tracks, Closing
<1>5. KernelInv'
  BY <1>0, <1>a DEF IInv, TypeOK, KernelInv, Listed, Tracks, Opening, Dupping
<1>6. UnseenInv'
  BY <1>0, <1>a DEF IInv, TypeOK, UnseenInv, Listed, Tracks, Opening, Dupping
<1>7. OpenInv' /\ CloseInv' /\ NewInv'
  BY <1>0, <1>a DEF IInv, TypeOK, Call, OpenInv, CloseInv, NewInv, Opening, Closing
<1>8. UseInv'
  BY <1>0, <1>a DEF IInv, TypeOK, Call, UseInv, Using, FileOf, Listed, Tracks
<1>9. DupInv'
  <2> SUFFICES ASSUME NEW s \in Threads, NEW e \in Descriptor, Dupping(s, e)
               PROVE  /\ e \in Fds /\ kfd'[e] = kfd'[pc[s].fd]
                      /\ \A f \in Files : Listed(f) => ~Tracks(f, e)
    BY DEF DupInv, Dupping, Listed, Tracks
  <2>1. pc[s].fd \in Descriptor /\ Using(s, pc[s].fd)
    BY DEF IInv, TypeOK, Call, Dupping, Using
  <2>2. pc[s].fd \in Fds /\ pc[s].fd # n /\ e # n
    BY <2>1, <1>a DEF IInv, UseInv
  <2> QED
    BY <2>2, <1>0 DEF IInv, TypeOK, DupInv
<1>10. ExclusiveInv'
  BY <1>0, <1>a DEF IInv, TypeOK, ExclusiveInv, Opening, Closing, Dupping
<1> QED
  BY <1>1, <1>2, <1>3, <1>4, <1>5, <1>6, <1>7, <1>8, <1>9, <1>10 DEF IInv

\* FileOpen preserves the invariant.
LEMMA FileOpenInv ==
  ASSUME IInv, NEW t \in Threads, file_open(t)
  PROVE  IInv'
<1> USE NamesAssumption DEF file_open, At, Idle
<1>0. /\ pc[t].fd \in Fds /\ pc[t].file \in Files
      /\ kfd[pc[t].fd] = pc[t].file /\ phase[pc[t].file] = "pending"
      /\ pc[t].fd \notin unseen
      /\ \A f \in Files : Listed(f) => ~Tracks(f, pc[t].fd)
  BY DEF IInv, TypeOK, Call, OpenInv, Opening, UnseenInv, EntryInv, Listed
<1>1. TypeOK'
  BY <1>0 DEF IInv, TypeOK, Call, Descriptor, Phases
<1>2. ListInv'
  <2>1. /\ Len(files') = Len(files) + 1
        /\ DOMAIN files' = 1..(Len(files) + 1)
        /\ DOMAIN files = 1..Len(files) /\ Len(files) \in Nat
        /\ \A i \in DOMAIN files : files'[i] = files[i]
        /\ files'[Len(files) + 1] = pc[t].file
    BY <1>0 DEF IInv, TypeOK
  <2>2. \A i \in DOMAIN files : files[i] # pc[t].file
    BY <1>0 DEF IInv, TypeOK, ListInv, Listed
  <2>3. \A i, j \in DOMAIN files' : files'[i] = files'[j] => i = j
    BY <2>1, <2>2 DEF IInv, ListInv
  <2>4. \A f \in Files : Listed(f)' <=> Listed(f) \/ f = pc[t].file
    BY <1>0 DEF IInv, TypeOK, Listed
  <2>5. \A f \in Files : (\E i \in DOMAIN files' : files'[i] = f)
                       <=> (\E i \in DOMAIN files : files[i] = f) \/ f = pc[t].file
    BY <2>1
  <2> QED
    BY <2>3, <2>4, <2>5 DEF IInv, ListInv
<1>3. OneEntryInv'
  BY <1>0 DEF IInv, TypeOK, OneEntryInv, EntryInv, Listed, Tracks
<1>4. EntryInv'
  BY <1>0 DEF IInv, TypeOK, EntryInv, Listed, Tracks, Closing
<1>5. KernelInv'
  <2> SUFFICES ASSUME NEW e \in Fds, kfd[e] \in Files, e \notin unseen,
                      \A s \in Threads : ~Opening(s, e)' /\ ~Dupping(s, e)'
               PROVE  Listed(kfd[e])' /\ Tracks(kfd[e], e)'
    BY DEF KernelInv
  <2>1. CASE e = pc[t].fd
    BY <1>0, <2>1 DEF IInv, TypeOK, Tracks, Listed
  <2>2. CASE e # pc[t].fd
    <3>1. \A s \in Threads : ~Opening(s, e) /\ ~Dupping(s, e)
      BY <2>2 DEF IInv, TypeOK, Opening, Dupping
    <3>2. Listed(kfd[e]) /\ Tracks(kfd[e], e)
      BY <3>1 DEF IInv, KernelInv
    <3> QED
      BY <3>2, <1>0 DEF IInv, TypeOK, Tracks, Listed
  <2> QED
    BY <2>1, <2>2
<1>6. UnseenInv'
  BY <1>0 DEF IInv, TypeOK, UnseenInv, Listed, Tracks, Opening, Dupping
<1>7. OpenInv' /\ CloseInv' /\ NewInv'
  BY <1>0 DEF IInv, TypeOK, Call, OpenInv, CloseInv, NewInv, Opening, Closing
<1>8. UseInv'
  BY <1>0 DEF IInv, TypeOK, Call, UseInv, Using, FileOf, Listed, Tracks
<1>9. DupInv'
  BY <1>0 DEF IInv, TypeOK, DupInv, ExclusiveInv, Dupping, Opening, Listed, Tracks
<1>10. ExclusiveInv'
  BY <1>0 DEF IInv, TypeOK, ExclusiveInv, Opening, Closing, Dupping
<1> QED
  BY <1>1, <1>2, <1>3, <1>4, <1>5, <1>6, <1>7, <1>8, <1>9, <1>10 DEF IInv

\* CloseKernel preserves the invariant.
LEMMA CloseKernelInv ==
  ASSUME IInv, NEW t \in Threads, NEW d \in Descriptor, CloseKernel(t, d)
  PROVE  IInv'
<1> USE NamesAssumption DEF CloseKernel, Known, InUseByOther, At, Idle
<1>1. TypeOK'
  BY DEF IInv, TypeOK, Call, Descriptor, Phases
<1>2. ListInv'
  BY DEF IInv, TypeOK, ListInv, Listed
<1>3. OneEntryInv'
  BY DEF IInv, TypeOK, OneEntryInv, EntryInv, Listed, Tracks
<1>4. EntryInv'
  BY DEF IInv, TypeOK, EntryInv, Listed, Tracks, Closing
<1>5. KernelInv'
  BY DEF IInv, TypeOK, KernelInv, Listed, Tracks, Opening, Dupping
<1>6. UnseenInv'
  BY DEF IInv, TypeOK, UnseenInv, Listed, Tracks, Opening, Dupping
<1>7. OpenInv' /\ CloseInv' /\ NewInv'
  BY DEF IInv, TypeOK, Call, OpenInv, CloseInv, NewInv, Opening, Closing
<1>8. UseInv'
  BY DEF IInv, TypeOK, Call, UseInv, Using, FileOf, Listed, Tracks
<1>9. DupInv'
  BY DEF IInv, TypeOK, DupInv, UseInv, Dupping, Using, Listed, Tracks, Call
<1>10. ExclusiveInv'
  <2> SUFFICES ASSUME NEW s \in Threads, NEW u \in Threads, NEW e \in Fds,
                      (Opening(s, e) \/ Dupping(s, e) \/ Closing(s, e))',
                      (Opening(u, e) \/ Dupping(u, e) \/ Closing(u, e))'
               PROVE  s = u
    BY DEF ExclusiveInv
  <2>1. CASE s # t /\ u # t
    BY <2>1 DEF IInv, TypeOK, ExclusiveInv, Opening, Closing, Dupping
  <2>2. ASSUME NEW v \in Threads \ {t},
               (Opening(v, e) \/ Dupping(v, e) \/ Closing(v, e))'
        PROVE  e # d
    <3>1. Opening(v, e) \/ Dupping(v, e) \/ Closing(v, e)
      BY <2>2 DEF IInv, TypeOK, Opening, Closing, Dupping
    <3> QED
      BY <3>1 DEF IInv, CloseInv, Opening, Dupping
  <2>3. ASSUME (Opening(t, e) \/ Dupping(t, e) \/ Closing(t, e))'
        PROVE  e = d
    BY <2>3 DEF IInv, TypeOK, Opening, Closing, Dupping
  <2> QED
    BY <2>1, <2>2, <2>3
<1> QED
  BY <1>1, <1>2, <1>3, <1>4, <1>5, <1>6, <1>7, <1>8, <1>9, <1>10 DEF IInv

\* FileDup preserves the invariant.
LEMMA FileDupInv ==
  ASSUME IInv, NEW t \in Threads, FileDup(t)
  PROVE  IInv'
<1> USE NamesAssumption DEF FileDup, At, Idle
<1>b. /\ Dupping(t, pc[t].new) /\ Using(t, pc[t].fd)
      /\ pc[t].new \in Descriptor /\ pc[t].fd \in Descriptor
  BY DEF IInv, TypeOK, Call, Dupping, Using
<1>c. /\ pc[t].new \in Fds /\ kfd[pc[t].new] = kfd[pc[t].fd]
      /\ \A f \in Files : Listed(f) => ~Tracks(f, pc[t].new)
      /\ pc[t].new \notin unseen
  BY <1>b DEF IInv, DupInv, UnseenInv
<1>d. /\ pc[t].file \in Files /\ Listed(pc[t].file)
      /\ kfd[pc[t].fd] = pc[t].file
  BY <1>b DEF IInv, UseInv, FileOf
<1>0. /\ pc[t].new \in Fds /\ pc[t].file \in Files
      /\ Listed(pc[t].file) /\ kfd[pc[t].new] = pc[t].file
      /\ pc[t].new \notin unseen
      /\ \A f \in Files : Listed(f) => ~Tracks(f, pc[t].new)
  BY <1>c, <1>d
<1>1. TypeOK'
  BY <1>0 DEF IInv, TypeOK, Call, Descriptor, Phases
<1>2. ListInv'
  BY <1>0 DEF IInv, TypeOK, ListInv, Listed
<1>3. OneEntryInv'
  BY <1>0 DEF IInv, TypeOK, OneEntryInv, EntryInv, Listed, Tracks
<1>4. EntryInv'
  BY <1>0 DEF IInv, TypeOK, EntryInv, Listed, Tracks, Closing
<1>5. KernelInv'
  <2> SUFFICES ASSUME NEW e \in Fds, kfd[e] \in Files, e \notin unseen,
                      \A s \in Threads : ~Opening(s, e)' /\ ~Dupping(s, e)'
               PROVE  Listed(kfd[e])' /\ Tracks(kfd[e], e)'
    BY DEF KernelInv
  <2>1. CASE e = pc[t].new
    BY <1>0, <2>1 DEF IInv, TypeOK, Tracks, Listed
  <2>2. CASE e # pc[t].new
    <3>1. \A s \in Threads : ~Opening(s, e) /\ ~Dupping(s, e)
      BY <2>2 DEF IInv, TypeOK, Opening, Dupping
    <3>2. Listed(kfd[e]) /\ Tracks(kfd[e], e)
      BY <3>1 DEF IInv, KernelInv
    <3> QED
      BY <3>2, <1>0 DEF IInv, TypeOK, Tracks, Listed
  <2> QED
    BY <2>1, <2>2
<1>6. UnseenInv'
  BY <1>0 DEF IInv, TypeOK, UnseenInv, Listed, Tracks, Opening, Dupping
<1>7. OpenInv' /\ CloseInv' /\ NewInv'
  BY <1>0 DEF IInv, TypeOK, Call, OpenInv, CloseInv, NewInv, Opening, Closing
<1>8. UseInv'
  BY <1>0 DEF IInv, TypeOK, Call, UseInv, Using, FileOf, Listed, Tracks
<1>9. DupInv'
  BY <1>0 DEF IInv, TypeOK, DupInv, ExclusiveInv, Dupping, Listed, Tracks
<1>10. ExclusiveInv'
  BY <1>0 DEF IInv, TypeOK, ExclusiveInv, Opening, Closing, Dupping
<1> QED
  BY <1>1, <1>2, <1>3, <1>4, <1>5, <1>6, <1>7, <1>8, <1>9, <1>10 DEF IInv

\* FileDupFull preserves the invariant.
LEMMA FileDupFullInv ==
  ASSUME IInv, NEW t \in Threads, FileDupFull(t)
  PROVE  IInv'
<1> USE NamesAssumption DEF FileDupFull, At, Idle
<1>b. /\ Dupping(t, pc[t].new) /\ Using(t, pc[t].fd)
      /\ pc[t].new \in Descriptor /\ pc[t].fd \in Descriptor
  BY DEF IInv, TypeOK, Call, Dupping, Using
<1>c. /\ pc[t].new \in Fds /\ kfd[pc[t].new] = kfd[pc[t].fd]
      /\ \A f \in Files : Listed(f) => ~Tracks(f, pc[t].new)
      /\ pc[t].new \notin unseen
  BY <1>b DEF IInv, DupInv, UnseenInv
<1>d. /\ pc[t].file \in Files /\ Listed(pc[t].file)
      /\ kfd[pc[t].fd] = pc[t].file
  BY <1>b DEF IInv, UseInv, FileOf
<1>0. /\ pc[t].new \in Fds /\ pc[t].file \in Files
      /\ Listed(pc[t].file) /\ kfd[pc[t].new] = pc[t].file
      /\ pc[t].new \notin unseen
      /\ \A f \in Files : Listed(f) => ~Tracks(f, pc[t].new)
  BY <1>c, <1>d
<1>1. TypeOK'
  BY <1>0 DEF IInv, TypeOK, Call, Descriptor, Phases
<1>2. ListInv'
  BY <1>0 DEF IInv, TypeOK, ListInv, Listed
<1>3. OneEntryInv'
  BY <1>0 DEF IInv, TypeOK, OneEntryInv, EntryInv, Listed, Tracks
<1>4. EntryInv'
  BY <1>0 DEF IInv, TypeOK, EntryInv, Listed, Tracks, Closing
<1>5. KernelInv'
  BY <1>0 DEF IInv, TypeOK, KernelInv, Listed, Tracks, Opening, Dupping
<1>6. UnseenInv'
  BY <1>0 DEF IInv, TypeOK, UnseenInv, ExclusiveInv, Listed, Tracks, Opening, Dupping
<1>7. OpenInv' /\ CloseInv' /\ NewInv'
  BY <1>0 DEF IInv, TypeOK, Call, OpenInv, CloseInv, NewInv, Opening, Closing
<1>8. UseInv'
  BY <1>0 DEF IInv, TypeOK, Call, UseInv, UnseenInv, DupInv, Dupping, Using, FileOf, Listed, Tracks
<1>9. DupInv'
  BY <1>0 DEF IInv, TypeOK, DupInv, Dupping, Listed, Tracks
<1>10. ExclusiveInv'
  BY <1>0 DEF IInv, TypeOK, ExclusiveInv, Opening, Closing, Dupping
<1> QED
  BY <1>1, <1>2, <1>3, <1>4, <1>5, <1>6, <1>7, <1>8, <1>9, <1>10 DEF IInv

\* file_lookup of a descriptor in use finds the file the kernel would act on.
LEMMA LookupIsExact ==
  ASSUME IInv, NEW d \in Fds, NEW r \in Files \cup {NoFile}, Lookup(d, r),
         kfd[d] # Free,
         FileOf(d) \in Files => Listed(FileOf(d)) /\ Tracks(FileOf(d), d)
  PROVE  r = FileOf(d)
<1> USE NamesAssumption
<1>1. CASE Untracked(d) /\ r = NoFile
  <2>1. \A f \in Files : Listed(f) => ~Tracks(f, d)
    BY <1>1 DEF IInv, ListInv, Untracked
  <2> QED
    BY <2>1, <1>1 DEF FileOf
<1>2. CASE \E i \in DOMAIN files : FirstAt(d, i) /\ r = files[i]
  <2>1. r \in Files /\ Listed(r) /\ Tracks(r, d)
    BY <1>2 DEF IInv, TypeOK, ListInv, FirstAt
  <2>2. kfd[d] = r
    BY <2>1 DEF IInv, EntryInv
  <2>3. d \notin unseen
    BY <2>1 DEF IInv, UnseenInv
  <2> QED
    BY <2>1, <2>2, <2>3 DEF FileOf
<1> QED
  BY <1>1, <1>2 DEF Lookup

\* IoctlLookup preserves the invariant.
LEMMA IoctlLookupInv ==
  ASSUME IInv, NEW t \in Threads, NEW d \in Fds, IoctlLookup(t, d)
  PROVE  IInv'
<1> USE NamesAssumption DEF IoctlLookup, At, Idle
<1>0. PICK r \in Files \cup {NoFile} :
         Lookup(d, r) /\ pc' = [pc EXCEPT ![t] = At("kernel", d, NoFd, r, Free)]
  OBVIOUS
<1>a. FileOf(d) \in Files => Listed(FileOf(d)) /\ Tracks(FileOf(d), d)
  BY KnownIsTracked
<1>b. r = FileOf(d) /\ kfd[d] # Free
  BY <1>0, <1>a, LookupIsExact DEF Known
<1>1. TypeOK'
  BY <1>0 DEF IInv, TypeOK, Call, Descriptor, Phases
<1>2. (ListInv /\ OneEntryInv)'
  BY DEF IInv, ListInv, OneEntryInv, Listed, Tracks
<1>4. EntryInv'
  BY <1>0 DEF IInv, TypeOK, EntryInv, Listed, Tracks, Closing
<1>5. KernelInv'
  BY <1>0 DEF IInv, TypeOK, KernelInv, Listed, Tracks, Opening, Dupping
<1>6. UnseenInv'
  BY <1>0 DEF IInv, TypeOK, UnseenInv, Listed, Tracks, Opening, Dupping
<1>7. OpenInv' /\ CloseInv' /\ NewInv'
  BY <1>0 DEF IInv, TypeOK, Call, OpenInv, CloseInv, NewInv, Opening, Closing
<1>8. UseInv'
  BY <1>0, <1>a, <1>b
     DEF IInv, TypeOK, Call, UseInv, Using, FileOf, Listed, Tracks
<1>9. DupInv'
  BY <1>0 DEF IInv, TypeOK, DupInv, Dupping, Listed, Tracks
<1>10. ExclusiveInv'
  BY <1>0 DEF IInv, TypeOK, ExclusiveInv, Opening, Closing, Dupping
<1> QED
  BY <1>1, <1>2, <1>4, <1>5, <1>6, <1>7, <1>8, <1>9, <1>10 DEF IInv

\* DupLookup preserves the invariant.
LEMMA DupLookupInv ==
  ASSUME IInv, NEW t \in Threads, DupLookup(t)
  PROVE  IInv'
<1> USE NamesAssumption DEF DupLookup, At, Idle
<1> DEFINE d == pc[t].fd
           n == pc[t].new
<1>0. PICK r \in Files \cup {NoFile} :
         /\ Lookup(d, r)
         /\ IF r = NoFile
            THEN /\ unseen' = IF kfd[n] \in Files THEN unseen \cup {n} ELSE unseen
                 /\ pc' = [pc EXCEPT ![t] = Idle]
            ELSE /\ pc' = [pc EXCEPT ![t] = At("file_dup", d, n, r, Free)]
                 /\ UNCHANGED unseen
  OBVIOUS
<1>b. Dupping(t, n) /\ Using(t, d) /\ n \in Descriptor /\ d \in Descriptor
  BY DEF IInv, TypeOK, Call, Dupping, Using
<1>c. /\ n \in Fds /\ kfd[n] = kfd[d] /\ n \notin unseen
      /\ \A f \in Files : Listed(f) => ~Tracks(f, n)
  BY <1>b DEF IInv, DupInv, UnseenInv
<1>d. /\ d \in Fds /\ kfd[d] # Free
      /\ FileOf(d) \in Files => Listed(FileOf(d)) /\ Tracks(FileOf(d), d)
  BY <1>b DEF IInv, UseInv
<1>e. r = FileOf(d)
  BY <1>0, <1>d, LookupIsExact
<1>1. TypeOK'
  BY <1>0, <1>b, <1>c, <1>d DEF IInv, TypeOK, Call, Descriptor, Phases
<1>2. (ListInv /\ OneEntryInv)'
  BY DEF IInv, ListInv, OneEntryInv, Listed, Tracks
<1>3. \A s \in Threads, e \in Descriptor :
         /\ Closing(s, e)' <=> Closing(s, e)
         /\ Opening(s, e)' <=> Opening(s, e)
  BY <1>0 DEF IInv, TypeOK, Closing, Opening
<1>4. EntryInv'
  BY <1>3 DEF IInv, EntryInv, Listed, Tracks, Descriptor
<1>5. KernelInv'
  BY <1>0 DEF IInv, TypeOK, KernelInv, Listed, Tracks, Opening, Dupping
<1>6. UnseenInv'
  BY <1>0, <1>b, <1>c
     DEF IInv, TypeOK, UnseenInv, ExclusiveInv, Listed, Tracks, Opening, Dupping
<1>7. OpenInv' /\ CloseInv' /\ NewInv'
  <2>1. \A s \in Threads : pc'[s].at = "file_open" => pc'[s] = pc[s]
    BY <1>0 DEF IInv, TypeOK
  <2>2. OpenInv'
    <3> SUFFICES ASSUME NEW s \in Threads, NEW e \in Descriptor, Opening(s, e)
                 PROVE  /\ e \in Fds /\ pc'[s].file \in Files
                        /\ kfd'[e] = pc'[s].file
                        /\ phase'[pc'[s].file] = "pending"
                        /\ \A u \in Threads :
                             /\ pc'[u].at = "file_open"
                             /\ pc'[u].file = pc'[s].file
                             => u = s
      BY <1>3 DEF OpenInv
    <3>1. pc'[s] = pc[s]
      BY <2>1, <1>3 DEF Opening
    <3> QED
      BY <2>1, <3>1 DEF IInv, OpenInv
  <2>3. CloseInv'
    BY <1>3 DEF IInv, CloseInv, Descriptor
  <2>4. NewInv'
    BY <1>0 DEF IInv, TypeOK, NewInv
  <2> QED
    BY <2>2, <2>3, <2>4
<1>8. UseInv'
  <2> SUFFICES ASSUME NEW s \in Threads, NEW e \in Descriptor, Using(s, e)'
               PROVE  /\ e \in Fds /\ kfd'[e] # Free
                      /\ FileOf(e)' \in Files => /\ Listed(FileOf(e)')
                                                 /\ Tracks(FileOf(e)', e)
                      /\ pc'[s].at # "dup_lookup" => pc'[s].file = FileOf(e)'
                      /\ pc'[s].at = "file_dup" => pc'[s].file \in Files
                      /\ pc'[s].at = "leave" => pc'[s].target = kfd'[e]
    BY DEF UseInv, Listed, Tracks
  <2>2. CASE s = t
    <3>1. e = d /\ pc'[s].at = "file_dup" /\ r # NoFile /\ pc'[s].file = r
      BY <2>2, <1>0 DEF IInv, TypeOK, Using
    <3> QED
      BY <3>1, <1>0, <1>d, <1>e DEF FileOf
  <2>3. CASE s # t
    <3>1. Using(s, e) /\ pc'[s] = pc[s]
      BY <2>3, <1>0 DEF IInv, TypeOK, Using
    <3>2. FileOf(e)' = FileOf(e)
      <4>1. CASE e # n
        BY <4>1, <1>0 DEF FileOf
      <4>2. CASE e = n
        BY <4>2, <3>1, <1>0, <1>c DEF IInv, UseInv, FileOf
      <4> QED
        BY <4>1, <4>2
    <3> QED
      BY <3>1, <3>2, <1>0 DEF IInv, UseInv
  <2> QED
    BY <2>2, <2>3
<1>9. DupInv'
  BY <1>0 DEF IInv, TypeOK, DupInv, Dupping, Listed, Tracks
<1>10. ExclusiveInv'
  BY <1>0 DEF IInv, TypeOK, ExclusiveInv, Opening, Closing, Dupping
<1> QED
  BY <1>1, <1>2, <1>4, <1>5, <1>6, <1>7, <1>8, <1>9, <1>10 DEF IInv

\* FileCloseHit preserves the invariant.
LEMMA FileCloseHitInv ==
  ASSUME IInv, NEW t \in Threads, FileCloseHit(t)
  PROVE  IInv'
<1> USE NamesAssumption DEF At, Idle
<1>a. PICK d \in Descriptor : d = pc[t].fd
  BY DEF IInv, TypeOK, Call
<1>0. PICK i \in DOMAIN files :
         /\ pc[t].at = "file_close"
         /\ FirstAt(d, i)
         /\ ForgetFd(files[i], d) \/ ForgetDup(files[i], d)
         /\ \/ /\ Orphaned(files[i])
               /\ files' = Unlink(files, i)
               /\ phase' = [phase EXCEPT ![files[i]] = "released"]
            \/ /\ ~Orphaned(files[i])
               /\ UNCHANGED <<files, phase>>
         /\ pc' = [pc EXCEPT ![t] = Idle]
         /\ UNCHANGED <<kfd, unseen>>
  BY <1>a DEF FileCloseHit
<1>b. PICK f \in Files : f = files[i]
  BY DEF IInv, TypeOK
<1>1. /\ f \in Files /\ Listed(f) /\ Tracks(f, d)
      /\ d \in Descriptor /\ Closing(t, d)
      /\ d \in Fds => kfd[d] = Free
  BY <1>0, <1>a, <1>b DEF IInv, TypeOK, ListInv, FirstAt, Closing, CloseInv
<1>2. \A g \in Files, e \in Fds :
         Listed(g) => (Tracks(g, e)' <=> Tracks(g, e) /\ ~(g = f /\ e = d))
  <2>1. CASE ForgetFd(f, d)
    BY <2>1, <1>1 DEF IInv, TypeOK, EntryInv, ForgetFd, Tracks, Descriptor
  <2>2. CASE ForgetDup(f, d)
    BY <2>2, <1>1 DEF IInv, TypeOK, EntryInv, ForgetDup, Tracks, Descriptor
  <2> QED
    BY <2>1, <2>2, <1>0, <1>b
<1>3. /\ fd' \in [Files -> Descriptor]
      /\ dup_fds' \in [Files -> [Slots -> Descriptor]]
  <2>1. CASE ForgetFd(f, d)
    BY <2>1, <1>1 DEF IInv, TypeOK, ForgetFd, Descriptor
  <2>2. CASE ForgetDup(f, d)
    BY <2>2, <1>1 DEF IInv, TypeOK, ForgetDup, Descriptor
  <2> QED
    BY <2>1, <2>2, <1>0, <1>b
<1>4. \A g \in Files, a \in Slots :
         Listed(g) /\ dup_fds'[g][a] \in Fds =>
           /\ dup_fds'[g][a] # fd'[g]
           /\ \A b \in Slots : dup_fds'[g][b] = dup_fds'[g][a] => a = b
  <2>1. CASE ForgetFd(f, d)
    BY <2>1, <1>1 DEF IInv, TypeOK, EntryInv, ForgetFd, Descriptor
  <2>2. CASE ForgetDup(f, d)
    BY <2>2, <1>1 DEF IInv, TypeOK, EntryInv, ForgetDup, Descriptor
  <2> QED
    BY <2>1, <2>2, <1>0, <1>b
<1>5. Orphaned(f) <=> \A e \in Fds : ~Tracks(f, e)'
  BY <1>1, <1>3 DEF Orphaned, Tracks, Descriptor
<1>6. /\ \A g \in Files : Listed(g)' <=> Listed(g) /\ ~(g = f /\ Orphaned(f))
      /\ phase' \in [Files -> Phases]
      /\ \A g \in Files : phase[g] = "pending" => phase'[g] = "pending"
  BY <1>0, <1>1, <1>b DEF IInv, TypeOK, Listed, Phases
<1>7. files' \in Seq(Files) /\ ListInv'
  <2>1. CASE ~Orphaned(f)
    BY <2>1, <1>0, <1>b DEF IInv, TypeOK, ListInv, Listed
  <2>2. CASE Orphaned(f)
    <3>1. /\ Len(files) \in Nat /\ i \in 1..Len(files)
          /\ DOMAIN files = 1..Len(files)
          /\ \A j \in 1..Len(files) : files[j] \in Files
      BY <1>0 DEF IInv, TypeOK
    <3>2. files' = [j \in 1..(Len(files) - 1) |->
                      IF j < i THEN files[j] ELSE files[j + 1]]
      BY <2>2, <1>0, <1>b DEF Unlink
    <3>3. files' \in Seq(Files) /\ DOMAIN files' = 1..(Len(files) - 1)
      BY <3>1, <3>2
    <3>4. \A j, k \in DOMAIN files' : files'[j] = files'[k] => j = k
      <4> SUFFICES ASSUME NEW j \in DOMAIN files', NEW k \in DOMAIN files',
                          files'[j] = files'[k]
                   PROVE  j = k
        OBVIOUS
      <4>1. CASE j < i /\ k < i
        BY <4>1, <3>1, <3>2, <3>3 DEF IInv, ListInv
      <4>2. CASE j < i /\ ~(k < i)
        BY <4>2, <3>1, <3>2, <3>3 DEF IInv, ListInv
      <4>3. CASE ~(j < i) /\ k < i
        BY <4>3, <3>1, <3>2, <3>3 DEF IInv, ListInv
      <4>4. CASE ~(j < i) /\ ~(k < i)
        <5>1. j + 1 = k + 1
          BY <4>4, <3>1, <3>2, <3>3 DEF IInv, ListInv
        <5> QED
          BY <5>1, <3>1, <3>3
      <4> QED
        BY <4>1, <4>2, <4>3, <4>4
    <3>5. \A j \in DOMAIN files' : files'[j] # f
      BY <3>1, <3>2, <3>3, <1>b DEF IInv, ListInv
    <3>6. \A j \in DOMAIN files : j # i => \E k \in DOMAIN files' : files'[k] = files[j]
      <4> SUFFICES ASSUME NEW j \in DOMAIN files, j # i
                   PROVE  \E k \in DOMAIN files' : files'[k] = files[j]
        OBVIOUS
      <4>1. CASE j < i
        BY <4>1, <3>1, <3>2, <3>3
      <4>2. CASE j > i
        <5>1. j - 1 \in DOMAIN files' /\ files'[j - 1] = files[j]
          BY <4>2, <3>1, <3>2, <3>3
        <5> QED
          BY <5>1
      <4> QED
        BY <4>1, <4>2, <3>1
    <3>7. \A j \in DOMAIN files' : \E k \in DOMAIN files : files'[j] = files[k]
      BY <3>1, <3>2, <3>3
    <3>8. \A g \in Files : (\E j \in DOMAIN files' : files'[j] = g)
                       <=> (\E j \in DOMAIN files : files[j] = g) /\ g # f
      BY <3>5, <3>6, <3>7, <1>b
    <3> QED
      BY <3>3, <3>4, <3>8, <1>6, <2>2 DEF IInv, ListInv
  <2> QED
    BY <2>1, <2>2
<1>8. /\ pc' \in [Threads -> Call]
      /\ \A s \in Threads : s # t => pc'[s] = pc[s]
      /\ pc'[t].at = "idle" /\ pc'[t].new = NoFd
  BY <1>0 DEF IInv, TypeOK, Call, Descriptor
<1>9. \A s \in Threads, e \in Descriptor :
         /\ Opening(s, e)' <=> Opening(s, e)
         /\ Dupping(s, e)' <=> Dupping(s, e)
         /\ Using(s, e)' <=> Using(s, e)
         /\ Closing(s, e)' <=> Closing(s, e) /\ s # t
  BY <1>0, <1>8 DEF Opening, Dupping, Using, Closing
<1>10. TypeOK'
  BY <1>0, <1>3, <1>6, <1>7, <1>8 DEF IInv, TypeOK
<1>11. OneEntryInv'
  BY <1>2, <1>6 DEF IInv, OneEntryInv
<1>12. EntryInv'
  <2> SUFFICES ASSUME NEW g \in Files, Listed(g)'
               PROVE  /\ \A e \in Fds : Tracks(g, e)' =>
                           \/ kfd'[e] = g
                           \/ kfd'[e] = Free /\ \E s \in Threads : Closing(s, e)'
                      /\ \E e \in Fds : Tracks(g, e)'
    BY <1>4, <1>6 DEF EntryInv
  <2>1. Listed(g)
    BY <1>6
  <2>2. ASSUME NEW e \in Fds, Tracks(g, e)'
        PROVE  \/ kfd'[e] = g
               \/ kfd'[e] = Free /\ \E s \in Threads : Closing(s, e)'
    <3>1. Tracks(g, e) /\ ~(g = f /\ e = d)
      BY <2>1, <2>2, <1>2
    <3>2. e # d
      BY <3>1, <2>1, <1>1 DEF IInv, OneEntryInv
    <3>3. \A s \in Threads : Closing(s, e) => s # t
      BY <3>2, <1>1 DEF Closing
    <3> QED
      BY <3>1, <3>3, <2>1, <1>0, <1>9 DEF IInv, EntryInv, Descriptor
  <2>3. \E e \in Fds : Tracks(g, e)'
    <3>1. CASE g = f
      BY <3>1, <1>5, <1>6
    <3>2. CASE g # f
      BY <3>2, <2>1, <1>2 DEF IInv, EntryInv
    <3> QED
      BY <3>1, <3>2
  <2> QED
    BY <2>2, <2>3
<1>13. \A g \in Files, e \in Fds :
          Listed(g) /\ Tracks(g, e) /\ kfd[e] # Free => Listed(g)' /\ Tracks(g, e)'
  BY <1>1, <1>2, <1>5, <1>6
<1>14. KernelInv'
  BY <1>0, <1>9, <1>13 DEF IInv, KernelInv, Descriptor
<1>15. UnseenInv'
  BY <1>0, <1>2, <1>6, <1>9 DEF IInv, TypeOK, UnseenInv, Descriptor
<1>16. OpenInv'
  <2>1. \A s \in Threads : pc'[s].at = "file_open" => pc'[s] = pc[s]
    BY <1>8
  <2>2. \A s \in Threads, e \in Descriptor : Opening(s, e) => pc'[s] = pc[s]
    BY <1>8, <1>1 DEF Opening, Closing
  <2> QED
    BY <2>1, <2>2, <1>0, <1>6, <1>9 DEF IInv, OpenInv
<1>17. CloseInv' /\ NewInv'
  BY <1>0, <1>8, <1>9 DEF IInv, CloseInv, NewInv, Descriptor
<1>18. UseInv'
  <2> SUFFICES ASSUME NEW s \in Threads, NEW e \in Descriptor, Using(s, e)
               PROVE  /\ e \in Fds /\ kfd'[e] # Free
                      /\ \A g \in Files : g = FileOf(e)'
                                           => Listed(g)' /\ Tracks(g, e)'
                      /\ pc'[s].at # "dup_lookup" => pc'[s].file = FileOf(e)'
                      /\ pc'[s].at = "file_dup" => pc'[s].file \in Files
                      /\ pc'[s].at = "leave" => pc'[s].target = kfd'[e]
    BY <1>9 DEF UseInv, Listed, Tracks
  <2>1. FileOf(e)' = FileOf(e) /\ pc'[s] = pc[s]
    BY <1>0, <1>8, <1>1 DEF FileOf, Using, Closing
  <2> QED
    BY <2>1, <1>0, <1>13 DEF IInv, UseInv
<1>19. DupInv'
  <2>1. \A s \in Threads, e \in Descriptor : Dupping(s, e) => pc'[s] = pc[s]
    BY <1>8, <1>1 DEF Dupping, Closing
  <2> QED
    BY <2>1, <1>0, <1>2, <1>6, <1>9 DEF IInv, DupInv
<1>20. ExclusiveInv'
  BY <1>9 DEF IInv, ExclusiveInv, Descriptor
<1> QED
  BY <1>7, <1>10, <1>11, <1>12, <1>14, <1>15, <1>16, <1>17, <1>18, <1>19, <1>20
     DEF IInv

-----------------------------------------------------------------------------
\* Every step preserves the invariant.
LEMMA NextInv == ASSUME NoEarlyReuse, IInv, [Next]_vars PROVE IInv'
<1>1. CASE UNCHANGED vars
  BY <1>1 DEF vars, IInv, TypeOK, ListInv, EntryInv, OneEntryInv, KernelInv,
              UnseenInv, OpenInv, CloseInv, UseInv, DupInv, ExclusiveInv, NewInv,
              Listed, Tracks, Opening, Dupping, Closing, Using, FileOf
<1>2. ASSUME NEW t \in Threads, OpenDevice(t) \/ OpenOther(t) \/ file_open(t)
      PROVE  IInv'
  BY <1>2, OpenDeviceInv, OpenOtherInv, FileOpenInv
<1>3. ASSUME NEW t \in Threads, NEW d \in Descriptor, CloseKernel(t, d)
      PROVE  IInv'
  BY <1>3, CloseKernelInv
<1>4. ASSUME NEW t \in Threads, FileCloseMiss(t) \/ FileCloseHit(t)
      PROVE  IInv'
  BY <1>4, FileCloseMissInv, FileCloseHitInv
<1>5. ASSUME NEW t \in Threads, NEW d \in Fds,
             DupKernel(t, d) \/ DupUnwrapped(t, d) \/ IoctlLookup(t, d)
      PROVE  IInv'
  BY <1>5, DupKernelInv, DupUnwrappedInv, IoctlLookupInv
<1>6. ASSUME NEW t \in Threads, DupLookup(t) \/ FileDup(t) \/ FileDupFull(t)
      PROVE  IInv'
  BY <1>6, DupLookupInv, FileDupInv, FileDupFullInv
<1>7. ASSUME NEW t \in Threads, IoctlKernel(t) \/ IoctlLeave(t)
      PROVE  IInv'
  BY <1>7, IoctlKernelInv, IoctlLeaveInv
<1> QED
  BY <1>1, <1>2, <1>3, <1>4, <1>5, <1>6, <1>7 DEF Next

\* The table, the kernel's descriptors and the calls in flight stay related as
\* IInv says, for any number of threads if no number is reused while its close()
\* is under way, and for every program of one thread (utils.c, syscall.c).
THEOREM InductiveInvariant == ASSUME NoEarlyReuse PROVE Spec => []IInv
<1>1. Init => IInv
  BY InitInv
<1>2. IInv /\ [Next]_vars => IInv'
  BY NextInv
<1> QED
  BY <1>1, <1>2, PTL DEF Spec

\* Every variable of the table keeps its type.
THEOREM TypeCorrect == ASSUME NoEarlyReuse PROVE Spec => []TypeOK
<1>1. IInv => TypeOK
  BY DEF IInv
<1> QED
  BY <1>1, InductiveInvariant, PTL

\* Between calls file_lookup answers for every descriptor what the kernel
\* would, unless libwrap was not told of the descriptor.
THEOREM LookupCorrect == ASSUME NoEarlyReuse PROVE Spec => []LookupMatchesKernel
<1>1. IInv => LookupMatchesKernel
  <2> SUFFICES ASSUME IInv, Quiescent, NEW d \in Fds,
                      NEW r \in Files \cup {NoFile}, Lookup(d, r)
               PROVE  r = FileOf(d)
    BY DEF LookupMatchesKernel, FileOf
  <2>1. CASE kfd[d] = Free
    <3>1. \A f \in Files : Listed(f) => ~Tracks(f, d)
      BY <2>1, NamesAssumption DEF IInv, EntryInv, Quiescent, Closing
    <3>2. Untracked(d) /\ \A i \in DOMAIN files : ~FirstAt(d, i)
      BY <3>1 DEF IInv, TypeOK, ListInv, Untracked, FirstAt
    <3> QED
      BY <3>2, <2>1, NamesAssumption DEF Lookup, FileOf
  <2>2. CASE kfd[d] # Free
    <3>1. FileOf(d) \in Files => Listed(FileOf(d)) /\ Tracks(FileOf(d), d)
      BY NamesAssumption
         DEF IInv, KernelInv, Quiescent, FileOf, Opening, Dupping
    <3> QED
      BY <3>1, <2>2, LookupIsExact
  <2> QED
    BY <2>1, <2>2
<1> QED
  BY <1>1, InductiveInvariant, PTL

\* No struct file stays in the list once the program has closed its last
\* descriptor.
THEOREM NoEntryLeaks == ASSUME NoEarlyReuse PROVE Spec => []ListedFilesAreReachable
<1>1. IInv => ListedFilesAreReachable
  <2> SUFFICES ASSUME IInv, Quiescent, NEW i \in DOMAIN files
               PROVE  \E d \in Fds : kfd[d] = files[i]
    BY DEF ListedFilesAreReachable
  <2>1. files[i] \in Files /\ Listed(files[i])
    BY DEF IInv, TypeOK, ListInv
  <2> QED
    BY <2>1 DEF IInv, EntryInv, Quiescent, Closing
<1> QED
  BY <1>1, InductiveInvariant, PTL

\* Both hooks of an ioctl see the struct file of the device the kernel acted
\* on, and it is still listed when the call leaves.
THEOREM HooksCorrect == ASSUME NoEarlyReuse PROVE Spec => []HooksSeeTheKernelsFile
<1>1. IInv => HooksSeeTheKernelsFile
  <2> SUFFICES ASSUME IInv, NEW t \in Threads,
                      pc[t].at = "leave", pc[t].fd \notin unseen
               PROVE  /\ pc[t].target \in Files => pc[t].file = pc[t].target
                      /\ pc[t].target \notin Files => pc[t].file = NoFile
                      /\ pc[t].file # NoFile => Listed(pc[t].file)
    BY DEF HooksSeeTheKernelsFile, Listed
  <2>1. pc[t].fd \in Descriptor /\ Using(t, pc[t].fd)
    BY DEF IInv, TypeOK, Call, Using
  <2> QED
    BY <2>1, NamesAssumption DEF IInv, UseInv, FileOf
<1> QED
  BY <1>1, InductiveInvariant, PTL

\* A struct file is released only when every descriptor still open on its
\* device is one libwrap was never told of.
THEOREM ReleaseCorrect == ASSUME NoEarlyReuse PROVE Spec => ReleasedOnlyWhenClosed
<1>1. ASSUME IInv, [Next]_vars
      PROVE  [\A f \in Files :
                phase[f] = "listed" /\ phase'[f] = "released"
                  => \A d \in Fds : Known(d) /\ kfd[d] = f => d \in unseen]_vars
  <2> SUFFICES ASSUME Next, NEW f \in Files,
                      phase[f] = "listed", phase'[f] = "released",
                      NEW d \in Fds, Known(d), kfd[d] = f, d \notin unseen
               PROVE  FALSE
    BY <1>1
  <2>1. PICK t \in Threads : FileCloseHit(t)
    BY <1>1 DEF Next, IInv, TypeOK, OpenDevice, OpenOther, file_open,
                CloseKernel, FileCloseMiss, DupKernel, DupUnwrapped, IoctlLookup,
                DupLookup, FileDup, FileDupFull, IoctlKernel, IoctlLeave
  <2>2. PICK i \in DOMAIN files :
          /\ pc[t].at = "file_close"
          /\ ForgetFd(files[i], pc[t].fd) \/ ForgetDup(files[i], pc[t].fd)
          /\ \/ Orphaned(files[i]) /\ phase' = [phase EXCEPT ![files[i]] = "released"]
             \/ UNCHANGED phase
    BY <2>1 DEF FileCloseHit
  <2>3. Listed(f) /\ Tracks(f, d)
    BY <1>1, NamesAssumption DEF IInv, KernelInv, Known, Opening, Dupping
  <2>4. d = pc[t].fd
    <3>1. files[i] \in Files
      BY <1>1 DEF IInv, TypeOK
    <3>2. files[i] = f
      BY <2>2, <3>1, <1>1 DEF IInv, TypeOK
    <3>3. Orphaned(f) /\ (ForgetFd(f, pc[t].fd) \/ ForgetDup(f, pc[t].fd))
      BY <2>2, <3>2
    <3>4. d # NoFd
      BY NamesAssumption
    <3>5. CASE ForgetFd(f, pc[t].fd)
      BY <3>3, <3>4, <3>5, <2>3 DEF Orphaned, ForgetFd, Tracks
    <3>6. CASE ForgetDup(f, pc[t].fd)
      <4>1. PICK k \in Slots :
              /\ dup_fds[f][k] = pc[t].fd
              /\ dup_fds' = [dup_fds EXCEPT ![f] = [dup_fds[f] EXCEPT ![k] = NoFd]]
              /\ UNCHANGED fd
        BY <3>6 DEF ForgetDup
      <4>2. dup_fds \in [Files -> [Slots -> Descriptor]]
        BY <1>1 DEF IInv, TypeOK
      <4>3. dup_fds'[f] = [dup_fds[f] EXCEPT ![k] = NoFd]
        BY <4>1, <4>2
      <4>4. \A j \in Slots : j # k => dup_fds[f][j] = NoFd
        BY <4>2, <4>3, <3>3 DEF Orphaned
      <4>5. fd[f] = NoFd
        BY <4>1, <3>3 DEF Orphaned
      <4> QED
        BY <4>1, <4>4, <4>5, <3>4, <2>3 DEF Tracks
    <3> QED
      BY <3>3, <3>5, <3>6
  <2>5. kfd[d] = Free
    BY <2>2, <2>4, <1>1 DEF IInv, CloseInv, Closing
  <2> QED
    BY <2>5, NamesAssumption
<1> QED
  BY <1>1, InductiveInvariant, PTL DEF Spec, ReleasedOnlyWhenClosed
=============================================================================
