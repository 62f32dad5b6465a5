----------------------------- MODULE MCSeqLock -----------------------------
(* A type cache entry for TLC. *)
EXTENDS SeqLock, TLC

Symmetry == Permutations(Threads) \cup Permutations(Names)

=============================================================================
