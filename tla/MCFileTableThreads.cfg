SPECIFICATION Spec
CONSTANTS
    Threads = {t1, t2}
    Fds = {d1, d2, d3, d4}
    Files = {f1, f2, f3}
    NSlots = 2
    DupCalls = TRUE
    OtherOpens = TRUE
    Reuse = FALSE
    NoFd = NoFd
    NoFile = NoFile
    Other = Other
    Free = Free
SYMMETRY Symmetry
INVARIANTS
    LookupMatchesKernel
    ListedFilesAreReachable
    HooksSeeTheKernelsFile
PROPERTIES
    ReleasedOnlyWhenClosed
