\* Five entries; four families, up to five engines; tables of up to four lines;
\* two threads; streams of up to two packets.
CONSTANTS
    card1 = card1
    card2 = card2
    second = second
    gone = gone
    other = other
    Entries = {card1, card2, second, gone, other}
    PciBus <- Bus
    PciOf <- Names
    MaxDevices = 2
    NoDevice = NoDevice
    Families = {110, 120, 130, 141}
    MaxEngines = 5
    NameTables <- Tables
    NoInfo = NoInfo
    t1 = t1
    t2 = t2
    fa = fa
    fb = fb
    f1 = f1
    Threads = {t1, t2}
    Syncobjs = {1, 2, 3}
    MaxHeld = 1
    MaxPoint = 1
    Fences = {fa, fb}
    NoFence = NoFence
    SyncFiles = {f1}
    WordMod = 6
    Timeouts = {1, 3, 5}
    MaxPackets = 2
SPECIFICATION Spec
INVARIANTS TypeOK DevicesAccounted DevicesIdentified InfoComplete NameFollowsTable TemporariesAccounted FilesFaithful TimesOutInTime AnswersReported DiagnosticsFaithful
PROPERTIES WaitEnds
