SPECIFICATION Spec
CONSTANTS
    cmds = cmds
    cmds2 = cmds2
    gr2d = gr2d
    gr3d = gr3d
    Handles = {cmds, cmds2}
    Channels = {gr2d, gr3d}
    Programs <- AllPrograms
    Limit <- Two
    None = None
CHECK_DEADLOCK FALSE
INVARIANTS
    WritesReported
    ShadersShown
    JobAsSent
PROPERTIES
    HookReturns
