\* Opens and closes alone; a number is handed out again at once.
SPECIFICATION Spec
CONSTANTS
    Threads = {t1, t2, t3}
    Fds = {d1, d2, d3, d4}
    Files = {f1, f2, f3, f4}
    NSlots = 1
    DupCalls = FALSE
    OtherOpens = FALSE
    Reuse = TRUE
    NoFd = NoFd
    NoFile = NoFile
    Other = Other
    Free = Free
SYMMETRY Symmetry
INVARIANT LookupMatchesKernel
