SPECIFICATION Spec
CONSTANTS
    Bos = {b1}
    Handles = {h1}
    Objs = {o1}
    Chans = {gr2d}
    MapIds = {m1}
    Sizes = {1}
    Guards = {1}
    Setups <- RefusedSubmit
    None = None
CHECK_DEADLOCK FALSE
PROPERTIES
    KeepsPromise
