\* va_base_required + size wraps past the last address.
CONSTANTS
    t1 = t1
    t2 = t2
    h1 = h1
    h2 = h2
    h3 = h3
    Threads = {t1, t2}
    Handles = {h1, h2, h3}
    AddrMod = 64
    VaAlign = 2
    VaOffset = 2
    VaMax = 16
    HighOffset = 48
    HighMax = 62
    Low32 = 8
    Sizes = {4}
    Alignments = {0}
    Bases = {60}
    FlagSets = {{"HIGH"}}
    CallocMayFail = TRUE
SPECIFICATION Spec
SYMMETRY Symmetry
PROPERTIES BaseInUseRefused
