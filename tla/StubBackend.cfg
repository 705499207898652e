\* Two threads, two descriptors, two buffers, one syncobj, places for two adjacent mappings.
CONSTANTS
    t1 = t1
    t2 = t2
    f1 = f1
    f2 = f2
    Threads = {t1, t2}
    Fds = {f1, f2}
    NoFd = NoFd
    NoEntry = NoEntry
    NoThread = NoThread
    NoBuffer = NoBuffer
    Handles = {1, 2}
    Garbage = {1, 2}
    Careful = TRUE
    Kinds = {"gem", "syncobj"}
    MaxNumber <- Numbers
    MapAddresses = {1, 3}
    MapSizes = {2}
    Capabilities = {2}
    Serial = TRUE
SPECIFICATION StubSpec
SYMMETRY Symmetry
INVARIANTS FdsAccounted ExportedImportable HandlesResolve MapsResolve
PROPERTIES ImportTakesOwnEntry
