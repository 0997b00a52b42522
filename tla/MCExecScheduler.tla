-------------------------- MODULE MCExecScheduler --------------------------
(* Small sets of rounds for ExecScheduler, by priority class.              *)
EXTENDS ExecScheduler

CONSTANTS p1, w1, w2, k1

FourRounds == {p1, w1, w2, k1}
FourClasses == [r \in FourRounds |-> IF r = p1 THEN 0 ELSE IF r = k1 THEN 2 ELSE 1]

=============================================================================
