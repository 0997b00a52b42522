----------------------------- MODULE MCTimePass -----------------------------
(***************************************************************************)
(* Small instances of TimePass.                                            *)
(***************************************************************************)
EXTENDS TimePass, TLC

CONSTANTS t1, e1, q1, r1

\* A timer that waits for an executor effect with a deadline of its own.
BothEffects   == {t1, e1}
BothRuns      == {q1, r1}
BothRunEffect == (q1 :> t1) @@ (r1 :> e1)
OneEffect     == {e1}
OneTimer      == {t1}
TimerRunId    == t1 :> q1
BothDueAt     == (t1 :> 1) @@ (e1 :> 1)
BothRank      == (e1 :> 1) @@ (t1 :> 2)
TimerWaits    == {[up |-> e1, predicate |-> "completes", down |-> t1]}
NoEffects     == {}
=============================================================================
