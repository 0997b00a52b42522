-------------------------- MODULE MCContextRestore --------------------------
EXTENDS ContextRestore, TLC

CONSTANTS a, b

\* Step 1 creates a file, step 2 writes another, step 3 appends to the first.
TwoFiles == 1 :> a @@ 2 :> b @@ 3 :> a
Modes == 1 :> "create" @@ 2 :> "upsert" @@ 3 :> "append"

\* A restore that races the driver, a signal, a kill or a write that fails.
Racing == [steps |-> 1, cuts |-> 1, restores |-> 1, faults |-> 2, paused |-> FALSE]

\* Restores one after the other, the driver paused for each.
Repeated == [steps |-> 2, cuts |-> 2, restores |-> 2, faults |-> 0, paused |-> TRUE]

\* A restore of a file with an append, or with two.
Appending == [steps |-> 3, cuts |-> 1, restores |-> 1, faults |-> 0, paused |-> TRUE]

AllScenarios == {Racing, Repeated, Appending}
=============================================================================
