--------------------------- MODULE MCSimpleQueue ---------------------------
(* SimpleQueue for TLC: two queues that share a bucket. *)
EXTENDS SimpleQueue, TLC

CONSTANTS q1, q2, b1, Long, Short

OneBucket == [a \in Addrs |-> b1]

\* Enough items on one queue for its buffer to grow twice and shrink again.
Puts == [a \in Addrs |-> IF a = q1 THEN Long ELSE Short]

Symmetry == Permutations(Threads)

=============================================================================
