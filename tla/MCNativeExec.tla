---------------------------- MODULE MCNativeExec ----------------------------
(* Two hosts of one workflow, or of a workflow and its restored copy.      *)
EXTENDS NativeExec

CONSTANTS i1, h1, h2, o1, o2, f1, r1, r2

OneInvocation == {i1}
TwoHosts == {h1, h2}
OwnerSet == {o1, o2}
SameOwner == [h \in TwoHosts |-> o1]
RestoredOwner == [h \in TwoHosts |-> IF h = h1 THEN o1 ELSE o2]
EitherOwner == {SameOwner, RestoredOwner}
OneFence == {f1}
TwoResults == {r1, r2}

=============================================================================
