\* Three threads with a GIL, with handles, or with one object.
CONSTANTS
    Threads = {Main, t1, t2}
    t1 = t1
    MaxRefs = 4
    NoThread = NoThread
    Main = Main
SPECIFICATION AllSpec
INVARIANTS
    HolderConsistent
    JoinedMeansDone
    HandleLifetime
    RefcountExact
PROPERTIES
    RequestSwitches
    DropperResumes
    ShutdownWaits
    JoinsReturn
    GarbageFreed
CHECK_DEADLOCK FALSE
