\* The same with one handle variable per thread, under fairness.
CONSTANTS
    t1 = t1
    t2 = t2
    t3 = t3
    s1 = s1
    o1 = o1
    o2 = o2
    b1 = b1
    b2 = b2
    NoThread = NoThread
    NoBo = NoBo
    NoBuffer = NoBuffer
    Threads = {t1, t2, t3}
    Slots = {s1}
    Bos = {o1, o2}
    Buffers = {b1, b2}
    Shared = {b1}
    MaxHandle = 2
    Bases = {2, 4}
    BoSize = 2
    Pointers = {3}
SPECIFICATION FairSpec
PROPERTIES LocksReleased
