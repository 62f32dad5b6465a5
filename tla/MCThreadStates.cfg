\* Requests of two interpreters and of the runtime, threads that come and go;
\* two threads and four blocks of memory.
CONSTANTS
    Threads = {t1, t2, t3}
    NoThread = NoThread
    t1 = t1
    t2 = t2
    t3 = t3
    Interps = {A, B}
    A = A
    B = B
    InterpOf <- TwoInterps
    MainInterp = A
    Initially = {t1, t3}
    ALL = ALL
    NoScope = NoScope
    Reclaimers = {t1, t2}
    Blocks = {b1, b2, b3, b4}
    NoBlock = NoBlock
    MinArraySize = 1
    DeferredLimit = 2
    MaxSeq = 5
SPECIFICATION AllSpec
SYMMETRY Symmetry
INVARIANTS
    WorldStopped
    CountdownExact
    NoUseAfterFree
    FreedOnce
    SlotsOwned
PROPERTY OnlyHandedOffIsLeft
CHECK_DEADLOCK FALSE
