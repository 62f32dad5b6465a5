------------------------------ MODULE MCLocks ------------------------------
(* The small locks for TLC: two of the threads nest critical sections. *)
EXTENDS SmallLocks

CONSTANTS b1

OneBucket == [a \in Addrs |-> b1]

Pair == Threads \ {CHOOSE t \in Threads : TRUE}

=============================================================================
