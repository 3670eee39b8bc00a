--------------------------- MODULE MCRecordReplay ---------------------------
(***************************************************************************)
(* Instances of RecordReplay for TLC: the programs that are traced.        *)
(***************************************************************************)
EXTENDS RecordReplay

CONSTANTS f1, f2, h1, h2, a

Symmetry == Permutations(Objs) \cup Permutations(Threads)

Quiet(ops) ==
    [ops |-> ops, files |-> {f1}, handles |-> {h1, h2}, sizes |-> {1}, values |-> {Zero},
     buffers |-> 2, keep_handles |-> TRUE, one_fb |-> TRUE, racy_start |-> FALSE,
     checksums |-> TRUE, compression |-> "lz4", max_ids |-> 2]

\* One thread.
Rendering ==
    [Quiet({"create", "mmap", "close", "write", "channel", "close_channel", "submit",
           "render"})
        EXCEPT !.values = {Zero, a}]
Unzipped == [Rendering EXCEPT !.ops = @ \ {"close"}, !.checksums = FALSE, !.compression = "none"]
BigBuffers ==
    [Quiet({"create", "mmap", "write", "channel", "submit"})
        EXCEPT !.handles = {h1}, !.buffers = 1, !.sizes = {5}, !.values = {Zero, a}]
Displaying == [Quiet({"create", "fb", "close"}) EXCEPT !.max_ids = 4]
Sharing ==
    [Quiet({"create", "open", "close", "close_file", "flags", "channel", "close_channel"})
        EXCEPT !.files = {f1, f2}, !.handles = {h1}, !.max_ids = 3]
Mistaken == Quiet({"create", "mmap", "close", "fb", "flags", "channel", "submit", "bad"})
Zipped ==
    [Quiet({"create", "mmap", "write", "channel", "submit"})
        EXCEPT !.values = {Zero, a}, !.compression = "zlib"]
Duplicating == Quiet({"create", "open", "mmap", "close", "close_file", "close_fd", "disk_full"})
OneThread ==
    {Rendering, Unzipped, BigBuffers, Displaying, Sharing, Mistaken, Zipped, Duplicating}

\* Two threads.
SharedFile ==
    [Quiet({"create", "mmap", "fb", "close"}) EXCEPT !.one_fb = FALSE, !.max_ids = 3]
Starting ==
    [Quiet({"create", "close_file", "channel"})
        EXCEPT !.files = {f1, f2}, !.handles = {h1}, !.racy_start = TRUE]
TwoFiles ==
    [Quiet({"create", "mmap", "close_file", "channel", "submit"})
        EXCEPT !.files = {f1, f2}, !.handles = {h1}, !.buffers = 1, !.checksums = FALSE]
TwoThreads == {SharedFile, Starting, TwoFiles}

\* The programs of the counterexamples.
Torn == {[TwoFiles EXCEPT !.ops = @ \ {"close_file"}]}
=============================================================================
