\* Liveness, with timeouts but no interrupts.
CONSTANTS
    Threads = {t1, t2, t3}
    Addrs = {m1}
    NoAddr = NoAddr
    Buckets = {b1}
    b1 = b1
    BucketOf <- OneBucket
    Timeouts = {"finite"}
    Interruptible = FALSE
SPECIFICATION FairSpec
PROPERTY NoStarvation
