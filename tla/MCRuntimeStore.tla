--------------------------- MODULE MCRuntimeStore ---------------------------
(***************************************************************************)
(* A small instance of the store with its replay.                          *)
(***************************************************************************)
EXTENDS RuntimeReplay, TLC

CONSTANTS e1, e2, x1, r1, r2, r3, c1, c2

\* Two effects for one agent, the second waiting for the first to succeed, and an
\* executor effect.  All but the second may run twice.
AgentPair    == {e1, e2}
OneExec      == {x1}
AllEffects   == {e1, e2, x1}
AllRuns      == {r1, r2, r3, c1, c2}
AllRunEffect == (r1 :> e1) @@ (r2 :> e1) @@ (r3 :> e2) @@ (c1 :> x1) @@ (c2 :> x1)
SucceedsEdge == {[up |-> e1, predicate |-> "succeeds", down |-> e2]}

\* The attempts of an effect are interchangeable.
AttemptSymmetry == Permutations({r1, r2}) \cup Permutations({c1, c2})

\* A behaviour follows one kind of effect, with what that kind is exposed to:
\* the agents their order and capacity, the executor its leases and custody,
\* the provider leases, blocks, the operator and a revision.
Undisturbed ==
    /\ epoch = 0
    /\ instance = "running"
    /\ blockKeys = {}
    /\ \A e \in Effects : effect[e] \notin PolicyBlocks

\* Nothing but the executor has spoken for a run, and no lease was renewed.
OwnWord ==
    \A r \in Runs :
        /\ attempt[r].disposition # "applied"
        /\ attempt[r].disposition = "not_applied" => r \in absence
        /\ expires[r] <= LeaseTerm

Scenario ==
    LET used == {e \in Effects : effect[e] # "absent"}
    IN \/ used \subseteq {e1}
       \/ /\ used \subseteq AgentPair
          /\ now = 0
          /\ Undisturbed
          /\ \A r \in Runs : attempt[r].disposition # "applied"
       \/ used \subseteq OneExec /\ Undisturbed /\ OwnWord

ScenarioSpec == ReplayInit /\ [][ReplayNext /\ Scenario']_replayVars
=============================================================================
