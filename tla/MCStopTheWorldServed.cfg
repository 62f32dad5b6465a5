\* Two threads of one interpreter, one of which comes and goes.
CONSTANTS
    Threads = {t1, t2}
    NoThread = NoThread
    t1 = t1
    t2 = t2
    t3 = t3
    Interps = {A}
    A = A
    B = B
    InterpOf <- OneInterp
    MainInterp = A
    Initially = {t1}
    ALL = ALL
    NoScope = NoScope
SPECIFICATION FairSpec
PROPERTY RequestsServed
CHECK_DEADLOCK FALSE
