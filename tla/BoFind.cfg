\* A mapping ends and another begins at its address during a search.
CONSTANTS
    t1 = t1
    t2 = t2
    s1 = s1
    s2 = s2
    o1 = o1
    o2 = o2
    b1 = b1
    b2 = b2
    NoThread = NoThread
    NoBo = NoBo
    NoBuffer = NoBuffer
    Threads = {t1, t2}
    Slots = {s1, s2}
    Bos = {o1, o2}
    Buffers = {b1, b2}
    Shared = {b1}
    MaxHandle = 2
    Bases = {2}
    BoSize = 2
    Pointers = {3}
SPECIFICATION Spec
SYMMETRY Symmetry
INVARIANTS FindNamesOwner
