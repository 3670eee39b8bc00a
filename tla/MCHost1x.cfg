SPECIFICATION Spec
CONSTANTS
    Bos = {b1, b2, b3}
    Handles = {h1, h2}
    Objs = {o1, o2}
    Chans = {gr2d, gr3d}
    MapIds = {m1, m2}
    Sizes = {1}
    Guards = {1}
    Setups <- Faults
    None = None
SYMMETRY Symmetry
INVARIANTS
    HandlesOwned
    CachesTrue
    JobsHitTheirTargets
    CommandsIntact
    WrappedInside
PROPERTIES
    KeepsPromise
CHECK_DEADLOCK FALSE
