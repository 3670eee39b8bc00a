SPECIFICATION Spec
CONSTANTS
    Fbs = {f1, f2}
    MaxFlips = 2
    None = None
INVARIANT
    HiddenWhileDrawn
PROPERTY LastFrameStays
