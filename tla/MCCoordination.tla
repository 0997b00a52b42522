--------------------------- MODULE MCCoordination ---------------------------
(***************************************************************************)
(* Small instances of Coordination.                                        *)
(***************************************************************************)
EXTENDS Coordination, TLC

CONSTANTS i1, i2, k1, w1, w2, a1, b1, r1, n1, c1, c2, l1, l2, m1

TwoInstances == {i1, i2}
OneKey       == {k1}
TwoWorkers   == {w1, w2}

\* Three programs: one slot that two instances want and that the first renews
\* and releases; a budget of 2 of which two effects want 1 and the largest number; a ledger two effects append to, beside one effect that is malformed.
LeaseProgram  == {a1, b1, r1, n1}
BudgetProgram == {c1, c2}
LedgerProgram == {l1, l2, m1}
ThreePrograms == {LeaseProgram, BudgetProgram, LedgerProgram}
AllEffects    == UNION ThreePrograms

EffectKind ==
    (a1 :> "acquire") @@ (b1 :> "acquire") @@ (r1 :> "release") @@ (n1 :> "renew")
    @@ [e \in BudgetProgram \cup {m1} |-> "consume"] @@ [e \in {l1, l2} |-> "append"]
EffectInstance == [e \in AllEffects |-> IF e = b1 THEN i2 ELSE i1]
EffectKey      == [e \in AllEffects |-> k1]
NamedAcquire   == (r1 :> a1) @@ (n1 :> a1)
WaitingAcquire == {b1}
WaitEnd        == b1 :> 2
WrongInput     == {m1}
AskedAmount    == [e \in AllEffects |-> IF e = c2 THEN MaxInt ELSE 1]
DeclaredCap    == [e \in AllEffects |-> 2]
Contested      == {c1}
FirstInstance  == {i1}
=============================================================================
