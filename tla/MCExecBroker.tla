---------------------------- MODULE MCExecBroker ----------------------------
(* Small instances of the hosted executor pool.                             *)
EXTENDS ExecBroker

CONSTANTS i1, i2, c1, c2, f1, f2, r1, r2

OneInvocation == {i1}
TwoInvocations == {i1, i2}
OneContainer == {c1}
TwoContainers == {c1, c2}
OneFence == {f1}
TwoFences == {f1, f2}
OneResult == {r1}
TwoResults == {r1, r2}
Nobody == {}

=============================================================================
