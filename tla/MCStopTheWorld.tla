--------------------------- MODULE MCStopTheWorld ---------------------------
(* Two interpreters, or one; the second thread of the first comes and goes. *)
EXTENDS StopTheWorld

CONSTANTS t1, t2, t3, A, B

TwoInterps == [t \in Threads |-> IF t = t3 THEN B ELSE A]

OneInterp == [t \in Threads |-> A]

=============================================================================
