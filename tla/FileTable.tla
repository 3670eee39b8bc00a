----------------------------- MODULE FileTable -----------------------------
(***************************************************************************)
(* The table of wrapped device files of libwrap.  libwrap is preloaded     *)
(* into a program and replaces open, close, fcntl and ioctl (syscall.c);   *)
(* each replacement calls the kernel first and the table second, without a *)
(* lock, so the table (utils.c) trails the kernel's descriptor table by    *)
(* one step of the calling thread.  A descriptor number that is looked up  *)
(* decides which device's wrapper sees the call, hence what is recorded.   *)
(*                                                                         *)
(* One element of Files stands for one open file description of a wrapped  *)
(* device node and for the struct file libwrap allocates for it.           *)
(***************************************************************************)
EXTENDS Integers, Sequences

CONSTANTS
    Threads,    \* threads of the traced program
    Fds,        \* descriptor numbers
    Files,      \* struct file instances
    NSlots,     \* ARRAY_SIZE(file->dup_fds), 8 in the code
    DupCalls,   \* TRUE iff the program duplicates descriptors
    OtherOpens, \* TRUE iff it also opens files libwrap does not wrap
    Reuse,      \* TRUE iff the kernel may hand out a number whose close() is
                \* still on its way from the kernel to file_close
    NoFd,       \* the descriptor -1
    NoFile,     \* a NULL struct file
    Other,      \* kernel: open, but not on a wrapped device node
    Free        \* kernel: not open

ASSUME SlotsAssumption == NSlots \in Nat
ASSUME NamesAssumption ==
    /\ NoFd \notin Fds
    /\ {NoFile, Other, Free} \cap Files = {}
    /\ Other # Free

VARIABLES
    kfd,        \* kernel's descriptor table
    files,      \* the list of struct file
    fd,         \* file->fd
    dup_fds,    \* file->dup_fds
    phase,      \* life of a struct file
    unseen,     \* descriptors of a wrapped device libwrap does not track
    pc          \* where each thread is inside a replaced call

vars == <<kfd, files, fd, dup_fds, phase, unseen, pc>>

Slots == 1..NSlots
Descriptor == Fds \cup {NoFd}
Phases == {"unused", "pending", "listed", "released"}

\* A call in flight.  "at" is the step the call takes next, "file" what
\* file_lookup returned, "target" what the kernel acted on.
Call == [at : {"idle", "file_open", "file_close", "dup_lookup", "file_dup",
               "kernel", "leave"},
         fd : Descriptor, new : Descriptor,
         file : Files \cup {NoFile}, target : Files \cup {NoFile, Other, Free}]

At(a, d, n, f, k) ==
    [at |-> a, fd |-> d, new |-> n, file |-> f, target |-> k]

Idle == At("idle", NoFd, NoFd, NoFile, Free)

TypeOK ==
    /\ kfd \in [Fds -> Files \cup {Other, Free}]
    /\ files \in Seq(Files)
    /\ fd \in [Files -> Descriptor]
    /\ dup_fds \in [Files -> [Slots -> Descriptor]]
    /\ phase \in [Files -> Phases]
    /\ unseen \in SUBSET Fds
    /\ pc \in [Threads -> Call]

Init ==
    /\ kfd = [d \in Fds |-> Free]
    /\ files = <<>>
    /\ fd = [f \in Files |-> NoFd]
    /\ dup_fds = [f \in Files |-> [i \in Slots |-> NoFd]]
    /\ phase = [f \in Files |-> "unused"]
    /\ unseen = {}
    /\ pc = [t \in Threads |-> Idle]

-----------------------------------------------------------------------------
(* Searching the list *)

\* file f is entered in the table under descriptor d
Tracks(f, d) == fd[f] = d \/ \E i \in Slots : dup_fds[f][i] = d

\* the i-th element of the list is the first that tracks d
FirstAt(d, i) ==
    /\ i \in DOMAIN files
    /\ Tracks(files[i], d)
    /\ \A j \in 1..(i - 1) : ~Tracks(files[j], d)

Untracked(d) == \A i \in DOMAIN files : ~Tracks(files[i], d)

\* r is what file_lookup(d) returns
Lookup(d, r) ==
    \/ Untracked(d) /\ r = NoFile
    \/ \E i \in DOMAIN files : FirstAt(d, i) /\ r = files[i]

\* list_del of the i-th element
Unlink(s, i) == [j \in 1..(Len(s) - 1) |-> IF j < i THEN s[j] ELSE s[j + 1]]

-----------------------------------------------------------------------------
(* open(): the kernel's step, then file_open() *)

\* The program can name d: it is open, and the call that creates it returned.
Known(d) ==
    /\ kfd[d] # Free
    /\ \A t \in Threads : /\ pc[t].at = "file_open" => pc[t].fd # d
                          /\ pc[t].at # "idle" => pc[t].new # d

\* A descriptor some other thread is using inside a call.  A correct program
\* does not close it: closing it would be a race of the program's own.
InUseByOther(t, d) ==
    \E s \in Threads \ {t} : /\ pc[s].at \notin {"idle", "file_close"}
                             /\ pc[s].fd = d

\* The numbers the kernel may return: those that are not open.
Available(d) ==
    /\ kfd[d] = Free
    /\ Reuse \/ \A t \in Threads : ~(pc[t].at = "file_close" /\ pc[t].fd = d)

\* No number is handed out while its close() is between the kernel and
\* file_close: a single thread cannot see that, several threads may.
NoEarlyReuse == ~Reuse \/ \A s, t \in Threads : s = t

OpenDevice(t) ==
    /\ pc[t].at = "idle"
    /\ \E d \in Fds, f \in Files :
        /\ Available(d)
        /\ phase[f] = "unused"
        /\ kfd' = [kfd EXCEPT ![d] = f]
        /\ phase' = [phase EXCEPT ![f] = "pending"]
        /\ pc' = [pc EXCEPT ![t] = At("file_open", d, NoFd, f, Free)]
    /\ UNCHANGED <<files, fd, dup_fds, unseen>>

\* open() of a path that is in no file table: file_open finds no entry
OpenOther(t) ==
    /\ pc[t].at = "idle"
    /\ OtherOpens
    /\ \E d \in Fds : Available(d) /\ kfd' = [kfd EXCEPT ![d] = Other]
    /\ UNCHANGED <<files, fd, dup_fds, phase, unseen, pc>>

\* Mutant: list_add() for list_add_tail().
file_open_Head(t) ==
    LET f == pc[t].file IN
    /\ pc[t].at = "file_open"
    /\ fd' = [fd EXCEPT ![f] = pc[t].fd]
    /\ dup_fds' = [dup_fds EXCEPT ![f] = [i \in Slots |-> NoFd]]
    /\ files' = <<f>> \o files
    /\ phase' = [phase EXCEPT ![f] = "listed"]
    /\ pc' = [pc EXCEPT ![t] = Idle]
    /\ UNCHANGED <<kfd, unseen>>

file_open(t) ==
    LET f == pc[t].file IN
    /\ pc[t].at = "file_open"
    /\ fd' = [fd EXCEPT ![f] = pc[t].fd]
    /\ dup_fds' = [dup_fds EXCEPT ![f] = [i \in Slots |-> NoFd]]
    /\ files' = Append(files, f)
    /\ phase' = [phase EXCEPT ![f] = "listed"]
    /\ pc' = [pc EXCEPT ![t] = Idle]
    /\ UNCHANGED <<kfd, unseen>>

-----------------------------------------------------------------------------
(* close(): the kernel's step, then file_close() whatever it returned *)

CloseKernel(t, d) ==
    /\ pc[t].at = "idle"
    /\ \/ d = NoFd /\ UNCHANGED <<kfd, unseen>>
       \/ /\ d \in Fds
          /\ Known(d)
          /\ ~InUseByOther(t, d)
          /\ kfd' = [kfd EXCEPT ![d] = Free]
          /\ unseen' = unseen \ {d}
    /\ pc' = [pc EXCEPT ![t] = At("file_close", d, NoFd, NoFile, Free)]
    /\ UNCHANGED <<files, fd, dup_fds, phase>>

\* file_close found no entry for the descriptor
FileCloseMiss(t) ==
    /\ pc[t].at = "file_close"
    /\ Untracked(pc[t].fd)
    /\ pc' = [pc EXCEPT ![t] = Idle]
    /\ UNCHANGED <<kfd, files, fd, dup_fds, phase, unseen>>

\* The descriptor is cleared in the first entry that tracks it.  ForgetFd
\* clears file->fd, ForgetDup the first of dup_fds that equals it.
ForgetFd(f, d) ==
    /\ fd[f] = d
    /\ fd' = [fd EXCEPT ![f] = NoFd]
    /\ UNCHANGED dup_fds

ForgetDup(f, d) ==
    /\ fd[f] # d
    /\ \E i \in Slots :
        /\ dup_fds[f][i] = d
        /\ \A j \in 1..(i - 1) : dup_fds[f][j] # d
        /\ dup_fds' = [dup_fds EXCEPT ![f] = [dup_fds[f] EXCEPT ![i] = NoFd]]
    /\ UNCHANGED fd

\* Mutants: the duplicates are not looked at; only closing file->fd releases.
Orphaned_IgnoresDups(f) == fd'[f] = NoFd
Orphaned_OnFdOnly(f) ==
    /\ fd[f] # NoFd /\ fd'[f] = NoFd
    /\ \A i \in Slots : dup_fds'[f][i] = NoFd

\* No descriptor of f is left once the call has cleared its own.
Orphaned(f) == fd'[f] = NoFd /\ \A i \in Slots : dup_fds'[f][i] = NoFd

FileCloseHit(t) ==
    \E i \in DOMAIN files :
        LET f == files[i] IN
        /\ pc[t].at = "file_close"
        /\ FirstAt(pc[t].fd, i)
        /\ ForgetFd(f, pc[t].fd) \/ ForgetDup(f, pc[t].fd)
        /\ \/ /\ Orphaned(f)                    \* list_del, ops->release
              /\ files' = Unlink(files, i)
              /\ phase' = [phase EXCEPT ![f] = "released"]
           \/ /\ ~Orphaned(f)
              /\ UNCHANGED <<files, phase>>
        /\ pc' = [pc EXCEPT ![t] = Idle]
        /\ UNCHANGED <<kfd, unseen>>

-----------------------------------------------------------------------------
(* fcntl(F_DUPFD): the kernel's step, file_lookup, file_dup *)

DupKernel(t, d) ==
    /\ DupCalls
    /\ pc[t].at = "idle"
    /\ Known(d)
    /\ \E n \in Fds :
        /\ Available(n)
        /\ kfd' = [kfd EXCEPT ![n] = kfd[d]]
        /\ pc' = [pc EXCEPT ![t] = At("dup_lookup", d, n, NoFile, Free)]
    /\ UNCHANGED <<files, fd, dup_fds, phase, unseen>>

\* With no entry for the old descriptor the new one stays unknown as well.
DupLookup(t) ==
    /\ pc[t].at = "dup_lookup"
    /\ \E r \in Files \cup {NoFile} :
        /\ Lookup(pc[t].fd, r)
        /\ IF r = NoFile
           THEN /\ unseen' = IF kfd[pc[t].new] \in Files
                             THEN unseen \cup {pc[t].new} ELSE unseen
                /\ pc' = [pc EXCEPT ![t] = Idle]
           ELSE /\ pc' = [pc EXCEPT ![t] = At("file_dup", pc[t].fd, pc[t].new, r, Free)]
                /\ UNCHANGED unseen
    /\ UNCHANGED <<kfd, files, fd, dup_fds, phase>>

\* Mutant: the slot is taken without looking whether it is free.
FileDup_Overwrites(t) ==
    LET f == pc[t].file IN
    /\ pc[t].at = "file_dup"
    /\ NSlots > 0
    /\ dup_fds' = [dup_fds EXCEPT ![f] = [dup_fds[f] EXCEPT ![1] = pc[t].new]]
    /\ pc' = [pc EXCEPT ![t] = Idle]
    /\ UNCHANGED <<kfd, files, fd, phase, unseen>>

FileDup(t) ==
    LET f == pc[t].file IN
    /\ pc[t].at = "file_dup"
    /\ \E i \in Slots :
        /\ dup_fds[f][i] = NoFd
        /\ \A j \in 1..(i - 1) : dup_fds[f][j] # NoFd
        /\ dup_fds' = [dup_fds EXCEPT ![f] = [dup_fds[f] EXCEPT ![i] = pc[t].new]]
    /\ pc' = [pc EXCEPT ![t] = Idle]
    /\ UNCHANGED <<kfd, files, fd, phase, unseen>>

\* "out of FD slots": a message, and the new descriptor stays unknown
FileDupFull(t) ==
    /\ pc[t].at = "file_dup"
    /\ \A i \in Slots : dup_fds[pc[t].file][i] # NoFd
    /\ unseen' = unseen \cup {pc[t].new}
    /\ pc' = [pc EXCEPT ![t] = Idle]
    /\ UNCHANGED <<kfd, files, fd, dup_fds, phase>>

\* dup() and its relatives are not replaced: libwrap never hears of them.
DupUnwrapped(t, d) ==
    /\ DupCalls
    /\ pc[t].at = "idle"
    /\ Known(d)
    /\ kfd[d] \in Files
    /\ \E n \in Fds :
        /\ Available(n)
        /\ kfd' = [kfd EXCEPT ![n] = kfd[d]]
        /\ unseen' = unseen \cup {n}
    /\ UNCHANGED <<files, fd, dup_fds, phase, pc>>

-----------------------------------------------------------------------------
(* ioctl(): file_lookup, the enter hook, the kernel, the leave hook.  The  *)
(* hooks run under ioctl_lock but the lookup does not; write() is the same *)
(* with a single hook.                                                     *)

\* Mutant: the lookup of an ioctl compares file->fd only.
IoctlLookup_NoDups(t, d) ==
    /\ pc[t].at = "idle"
    /\ Known(d)
    /\ \E r \in Files \cup {NoFile} :
        /\ \/ \E i \in DOMAIN files : r = files[i] /\ fd[r] = d
           \/ r = NoFile /\ \A i \in DOMAIN files : fd[files[i]] # d
        /\ pc' = [pc EXCEPT ![t] = At("kernel", d, NoFd, r, Free)]
    /\ UNCHANGED <<kfd, files, fd, dup_fds, phase, unseen>>

IoctlLookup(t, d) ==
    /\ pc[t].at = "idle"
    /\ Known(d)
    /\ \E r \in Files \cup {NoFile} :
        /\ Lookup(d, r)
        /\ pc' = [pc EXCEPT ![t] = At("kernel", d, NoFd, r, Free)]
    /\ UNCHANGED <<kfd, files, fd, dup_fds, phase, unseen>>

IoctlKernel(t) ==
    /\ pc[t].at = "kernel"
    /\ pc' = [pc EXCEPT ![t] =
                At("leave", pc[t].fd, NoFd, pc[t].file, kfd[pc[t].fd])]
    /\ UNCHANGED <<kfd, files, fd, dup_fds, phase, unseen>>

IoctlLeave(t) ==
    /\ pc[t].at = "leave"
    /\ pc' = [pc EXCEPT ![t] = Idle]
    /\ UNCHANGED <<kfd, files, fd, dup_fds, phase, unseen>>

-----------------------------------------------------------------------------
Next ==
    \E t \in Threads :
        \/ OpenDevice(t) \/ OpenOther(t) \/ file_open(t)
        \/ \E d \in Descriptor : CloseKernel(t, d)
        \/ FileCloseMiss(t) \/ FileCloseHit(t)
        \/ \E d \in Fds : DupKernel(t, d) \/ DupUnwrapped(t, d)
                          \/ IoctlLookup(t, d)
        \/ DupLookup(t) \/ FileDup(t) \/ FileDupFull(t)
        \/ IoctlKernel(t) \/ IoctlLeave(t)

Spec == Init /\ [][Next]_vars

-----------------------------------------------------------------------------
(* Properties *)

Quiescent == \A t \in Threads : pc[t].at = "idle"

\* Between calls the table answers what the kernel would: a descriptor is
\* looked up to the device file it is open on, a descriptor of anything else
\* to nothing (file_lookup, utils.c).  Only descriptors libwrap was not told
\* of, or had no slot for, are left out, and those never name a wrong file.
LookupMatchesKernel ==
    Quiescent => \A d \in Fds, r \in Files \cup {NoFile} :
        Lookup(d, r) =>
            r = IF kfd[d] \in Files /\ d \notin unseen THEN kfd[d] ELSE NoFile

\* A struct file is released, with every buffer and channel it recorded, only
\* when no descriptor libwrap was told of is still open on it (file_close).
ReleasedOnlyWhenClosed ==
    [][\A f \in Files :
         phase[f] = "listed" /\ phase'[f] = "released"
            => \A d \in Fds : Known(d) /\ kfd[d] = f => d \in unseen]_vars

\* The converse: between calls every entry of the list has a descriptor the
\* program can still close, so no struct file stays listed for ever.
ListedFilesAreReachable ==
    Quiescent => \A i \in DOMAIN files : \E d \in Fds : kfd[d] = files[i]

\* The hooks of a call see the file the kernel acted on in between, and that
\* file has not been released under the call (ioctl, syscall.c).
HooksSeeTheKernelsFile ==
    \A t \in Threads :
        pc[t].at = "leave" /\ pc[t].fd \notin unseen =>
            /\ pc[t].target \in Files => pc[t].file = pc[t].target
            /\ pc[t].target \notin Files => pc[t].file = NoFile
            /\ pc[t].file # NoFile => phase[pc[t].file] = "listed"

-----------------------------------------------------------------------------
(* The inductive invariant: it relates the table, the kernel's descriptors *)
(* and the calls in flight, and holds under NoEarlyReuse.                  *)

Listed(f) == phase[f] = "listed"

Opening(t, d) == pc[t].at = "file_open" /\ pc[t].fd = d
Dupping(t, d) == pc[t].at \in {"dup_lookup", "file_dup"} /\ pc[t].new = d
Closing(t, d) == pc[t].at = "file_close" /\ pc[t].fd = d
Using(t, d) ==
    pc[t].at \in {"dup_lookup", "file_dup", "kernel", "leave"} /\ pc[t].fd = d

\* The list holds the listed files, each once.
ListInv ==
    /\ \A i, j \in DOMAIN files : files[i] = files[j] => i = j
    /\ \A f \in Files : Listed(f) <=> \E i \in DOMAIN files : files[i] = f

\* An entry tracks descriptors of its own file, or one being closed, at least
\* one of them, and none of them twice.
EntryInv ==
    \A f \in Files : Listed(f) =>
        /\ \A d \in Fds : Tracks(f, d) =>
             kfd[d] = f \/ (kfd[d] = Free /\ \E t \in Threads : Closing(t, d))
        /\ \E d \in Fds : Tracks(f, d)
        /\ \A i \in Slots : dup_fds[f][i] \in Fds =>
             /\ dup_fds[f][i] # fd[f]
             /\ \A j \in Slots : dup_fds[f][j] = dup_fds[f][i] => i = j

\* No descriptor is tracked by two entries.
OneEntryInv ==
    \A f, g \in Files, d \in Fds :
        Listed(f) /\ Listed(g) /\ Tracks(f, d) /\ Tracks(g, d) => f = g

\* A descriptor of a wrapped device is unseen, tracked, or on its way.
KernelInv ==
    \A d \in Fds : kfd[d] \in Files =>
        \/ d \in unseen
        \/ Listed(kfd[d]) /\ Tracks(kfd[d], d)
        \/ \E t \in Threads : Opening(t, d) \/ Dupping(t, d)

UnseenInv ==
    \A d \in unseen :
        /\ kfd[d] \in Files
        /\ \A f \in Files : Listed(f) => ~Tracks(f, d)
        /\ \A t \in Threads : ~Opening(t, d) /\ ~Dupping(t, d)

\* The file a call in flight on d has looked up, or would.
FileOf(d) == IF kfd[d] \in Files /\ d \notin unseen THEN kfd[d] ELSE NoFile

OpenInv ==
    \A t \in Threads, d \in Descriptor : Opening(t, d) =>
        /\ d \in Fds
        /\ pc[t].file \in Files
        /\ kfd[d] = pc[t].file
        /\ phase[pc[t].file] = "pending"
        /\ \A s \in Threads : pc[s].at = "file_open" /\ pc[s].file = pc[t].file
                                 => s = t

CloseInv == \A t \in Threads, d \in Fds : Closing(t, d) => kfd[d] = Free

UseInv ==
    \A t \in Threads, d \in Descriptor : Using(t, d) =>
        /\ d \in Fds
        /\ kfd[d] # Free
        /\ FileOf(d) \in Files => Listed(FileOf(d)) /\ Tracks(FileOf(d), d)
        /\ pc[t].at # "dup_lookup" => pc[t].file = FileOf(d)
        /\ pc[t].at = "file_dup" => pc[t].file \in Files
        /\ pc[t].at = "leave" => pc[t].target = kfd[d]

DupInv ==
    \A t \in Threads, d \in Descriptor : Dupping(t, d) =>
        /\ d \in Fds
        /\ kfd[d] = kfd[pc[t].fd]
        /\ \A f \in Files : Listed(f) => ~Tracks(f, d)

\* Two calls never create or close the same descriptor at the same time.
ExclusiveInv ==
    \A s, t \in Threads, d \in Fds :
        /\ Opening(s, d) \/ Dupping(s, d) \/ Closing(s, d)
        /\ Opening(t, d) \/ Dupping(t, d) \/ Closing(t, d)
        => s = t

\* Only a call that returns a descriptor has one in "new".
NewInv ==
    \A t \in Threads : pc[t].at \notin {"dup_lookup", "file_dup"}
                          => pc[t].new = NoFd

IInv ==
    /\ TypeOK
    /\ ListInv /\ EntryInv /\ OneEntryInv
    /\ KernelInv /\ UnseenInv
    /\ OpenInv /\ CloseInv /\ UseInv /\ DupInv
    /\ ExclusiveInv /\ NewInv
=============================================================================
