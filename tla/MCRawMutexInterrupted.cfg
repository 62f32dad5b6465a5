\* Semaphore waits may end early, as _PySemaphore_PlatformWait allows.
CONSTANTS
    Threads = {t1, t2, t3}
    NoThread = NoThread
    Interruptible = TRUE
    SemaMax = 1
SPECIFICATION Spec
INVARIANT HeadIsLive
CHECK_DEADLOCK FALSE
