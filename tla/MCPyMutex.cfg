\* Two mutexes in one bucket, timeouts and signals.
CONSTANTS
    Threads = {t1, t2, t3}
    Addrs = {m1, m2}
    NoAddr = NoAddr
    Buckets = {b1}
    b1 = b1
    BucketOf <- OneBucket
    Timeouts = {"forever", "finite", "zero"}
    Interruptible = TRUE
SPECIFICATION Spec
SYMMETRY Symmetry
INVARIANTS
    LotInv
    MutualExclusion
    NoLostWakeup
PROPERTY ImplementsLock
