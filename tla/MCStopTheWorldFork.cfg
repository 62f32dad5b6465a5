\* What the child of a fork has of the locks of the parent.
CONSTANTS
    Threads = {t1, t2, t3}
    NoThread = NoThread
    t1 = t1
    t2 = t2
    t3 = t3
    Interps = {A, B}
    A = A
    B = B
    InterpOf <- TwoInterps
    MainInterp = A
    Initially = {t1, t3}
    ALL = ALL
    NoScope = NoScope
SPECIFICATION Spec
INVARIANT ChildLocksFree
CHECK_DEADLOCK FALSE
