\* Three threads that look up, cache and clear; the sequence wraps around.
CONSTANTS
    Threads = {t1, t2, t3}
    Versions = {1}
    Names = {n1, n2}
    NoName = NoName
    NULL = NULL
    Wrap = 4
    MaxWrites = 1
SPECIFICATION Spec
SYMMETRY Symmetry
INVARIANT SequenceVouches
