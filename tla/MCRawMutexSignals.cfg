\* Semaphore waits may end early: the lock stays exclusive all the same.
CONSTANTS
    Threads = {t1, t2, t3}
    NoThread = NoThread
    Interruptible = TRUE
    SemaMax = 1
SPECIFICATION Spec
SYMMETRY Symmetry
INVARIANT MutualExclusion
PROPERTY ImplementsLock
CHECK_DEADLOCK FALSE
