\* Three threads that use one lock, two that nest critical sections.
CONSTANTS
    Threads = {t1, t2, t3}
    NoThread = NoThread
    Interruptible = FALSE
    SemaMax = 1
    Addrs = {m1}
    NoAddr = NoAddr
    Buckets = {b1}
    b1 = b1
    BucketOf <- OneBucket
    lock = m1
    MaxDepth = 2
    Nesters <- Pair
    Mutexes = {1, 2}
SPECIFICATION AllSpec
INVARIANTS
    TypesOK
    HeldUntilOutermost
    OwnerKnowsItself
    NoWaiterLost
    BitsExact
    WokenMeansSet
    RunsOnce
    ActiveMeansLocked
    NoCircularWait
PROPERTIES
    LockProgress
    WriterGetsIn
    SetReleasesAll
    SleepersWake
    SectionsProgress
