\* Three threads that put and get, with timeouts and signals.
CONSTANTS
    Threads = {t1, t2, t3}
    Addrs = {q1, q2}
    q1 = q1
    q2 = q2
    NoAddr = NoAddr
    Buckets = {b1}
    b1 = b1
    BucketOf <- OneBucket
    InitialCapacity = 2
    Long = 5
    Short = 1
    MaxPuts <- Puts
SPECIFICATION Spec
SYMMETRY Symmetry
INVARIANTS
    ItemsDelivered
    NoIdleGetter
