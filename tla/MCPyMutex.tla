----------------------------- MODULE MCPyMutex -----------------------------
(***************************************************************************)
(* PyMutex for TLC: every mutex shares one bucket of the parking lot.      *)
(***************************************************************************)
EXTENDS PyMutex, TLC

CONSTANTS b1

OneBucket == [a \in Addrs |-> b1]

Symmetry == Permutations(Threads) \cup Permutations(Addrs)

=============================================================================
