\* Two threads, two contexts of one ring, two semaphores.
CONSTANTS
    t1 = t1
    t2 = t2
    c1 = c1
    c2 = c2
    s1 = s1
    s2 = s2
    NoThread = NoThread
    NoCtx = NoCtx
    NoNode = NoNode
    Threads = {t1, t2}
    Ctxs = {c1, c2}
    NumRings = 2
    Used <- TwoRings
    Sems = {s1, s2}
    MaxSeq = 2
    Often <- FirstRing
    Careful = TRUE
SPECIFICATION Spec
SYMMETRY Symmetry
INVARIANTS TypeOK WaitListsSound SemaphoresCounted DependenciesComplete
PROPERTY ImplementsSemaphores
