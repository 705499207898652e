\* A client initializes while another drops the last reference.
CONSTANTS
    t1 = t1
    t2 = t2
    s1 = s1
    s2 = s2
    a1 = a1
    a2 = a2
    d1 = d1
    d2 = d2
    NoThread = NoThread
    NoAcc = NoAcc
    NoDev = NoDev
    Threads = {t1, t2}
    Slots = {s1}
    Accs = {a1, a2}
    Devs = {d1, d2}
    Overlap = TRUE
SPECIFICATION Spec
INVARIANTS HandlesAlive
CHECK_DEADLOCK FALSE
