SPECIFICATION Spec
CONSTANTS
    Threads = {t1, t2}
    Files = {f1, f2}
    Handles = {h1, h2}
    Objs = {o1, o2}
    FbIds = {b1, b2}
    OtherFbs = {b2}
    Chans = {c1}
    FewPages = 4
    Values = {z, a}
    Zero = z
    Incompressible = {a}
    IdMod = 3
    None = None
    Addrs = {p1, p2, p3}
    f1 = f1
    f2 = f2
    h1 = h1
    h2 = h2
    a = a
    Programs <- Torn
SYMMETRY Symmetry
CHECK_DEADLOCK FALSE
INVARIANTS
    ReplayAccepts
