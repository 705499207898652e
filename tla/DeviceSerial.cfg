\* Clients keep initialize and deinitialize apart; two of each may still overlap.
CONSTANTS
    t1 = t1
    t2 = t2
    t3 = t3
    s1 = s1
    s2 = s2
    a1 = a1
    a2 = a2
    d1 = d1
    d2 = d2
    NoThread = NoThread
    NoAcc = NoAcc
    NoDev = NoDev
    Threads = {t1, t2, t3}
    Slots = {s1, s2}
    Accs = {a1, a2}
    Devs = {d1, d2}
    Overlap = FALSE
SPECIFICATION FairSpec
INVARIANTS TypeOK HandlesAlive OneDevicePerAccelerant RefsCounted AccelerantsBalanced
PROPERTIES DevicesReleased
