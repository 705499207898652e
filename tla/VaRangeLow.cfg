\* Managers [2,8) and [8,16), no high range; memory never runs out.
CONSTANTS
    t1 = t1
    t2 = t2
    h1 = h1
    h2 = h2
    h3 = h3
    Threads = {t1, t2}
    Handles = {h1, h2, h3}
    AddrMod = 64
    VaAlign = 2
    VaOffset = 2
    VaMax = 16
    HighOffset = 0
    HighMax = 0
    Low32 = 8
    Sizes = {1, 4}
    Alignments = {0, 4}
    Bases = {0, 10}
    FlagSets <- LowFlags
    CallocMayFail = FALSE
SPECIFICATION Spec
SYMMETRY Symmetry
INVARIANTS TypeOK
PROPERTIES TakesBestPlace FailsOnlyWhenFull
