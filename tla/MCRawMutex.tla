----------------------------- MODULE MCRawMutex -----------------------------
\* Small instances of RawMutex for TLC.
EXTENDS RawMutex, TLC

Symmetry == Permutations(Threads)

=============================================================================
