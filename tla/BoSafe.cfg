\* Two threads, one buffer of another process and one of their own.
CONSTANTS
    t1 = t1
    t2 = t2
    s1 = s1
    s2 = s2
    o1 = o1
    o2 = o2
    o3 = o3
    b1 = b1
    b2 = b2
    b3 = b3
    NoThread = NoThread
    NoBo = NoBo
    NoBuffer = NoBuffer
    Threads = {t1, t2}
    Slots = {s1, s2}
    Bos = {o1, o2, o3}
    Buffers = {b1, b2, b3}
    Shared = {b1}
    MaxHandle = 3
    Bases = {2, 4}
    BoSize = 2
    Pointers = {3}
SPECIFICATION Spec
SYMMETRY Symmetry
INVARIANTS TypeOK OneBoPerBuffer BuffersStayOpen RefsCounted HandlesAccounted MappingsAccounted
