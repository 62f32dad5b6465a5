\* A thread exits while the one that it asked to drop the GIL does.
CONSTANTS
    Threads = {t1, t2, t3}
    NoThread = NoThread
SPECIFICATION Spec
CHECK_DEADLOCK FALSE
INVARIANT SwitchHasTaker
