\* High managers [32,40) and [40,48) besides the low ones; memory may run out.
CONSTANTS
    t1 = t1
    t2 = t2
    h1 = h1
    h2 = h2
    h3 = h3
    Threads = {t1, t2}
    Handles = {h1, h2, h3}
    AddrMod = 64
    VaAlign = 2
    VaOffset = 2
    VaMax = 16
    HighOffset = 32
    HighMax = 48
    Low32 = 8
    Sizes = {1, 4}
    Alignments = {0, 4}
    Bases = {0}
    FlagSets <- HighFlags
    CallocMayFail = TRUE
SPECIFICATION Spec
SYMMETRY Symmetry
INVARIANTS EveryAddressOnce Coalesced
PROPERTIES ImplementsVaSpace
