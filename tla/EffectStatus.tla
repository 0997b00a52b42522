---------------------------- MODULE EffectStatus ----------------------------
(***************************************************************************)
(* The status vocabulary the store's tables use, and the one predicate     *)
(* that says a dependency edge is satisfied by its upstream effect's row.  *)
(***************************************************************************)

\* PENDING_EFFECT_STATUSES: every status from which start_run may claim.
PendingEffectStatuses ==
    {"queued", "blocked", "blocked_by_admission", "blocked_by_dependency",
     "blocked_by_capacity", "blocked_by_capability", "blocked_by_profile"}

TerminalEffectStatuses == {"completed", "failed", "timed_out", "cancelled"}

\* "absent" is the effect row that no rule commit has inserted yet.
EffectStatuses ==
    PendingEffectStatuses \cup TerminalEffectStatuses \cup {"running", "absent"}

\* retry_effect's UPDATE names exactly these two statuses.
RetryableEffectStatuses == {"failed", "timed_out"}

RunStatuses ==
    TerminalEffectStatuses \cup {"absent", "running", "uncertain", "lease_expired"}

LeaseStatuses == {"absent", "active", "released", "expired"}

InstanceStatuses ==
    {"running", "paused", "blocked", "completed", "failed", "cancelled"}

TerminalInstanceStatuses == {"completed", "failed", "cancelled"}

\* INSTANCE_TRANSITIONS: "completed" is reached only by a rule's terminal.
InstanceTransitions ==
    {<<"running", "paused">>, <<"paused", "running">>}
        \cup ({"running", "paused", "blocked"} \X {"cancelled", "failed"})

Predicates == {"succeeds", "fails", "timed_out", "cancelled", "completes"}

\* Mutant: a timeout releases the failure handler, a cancellation the success.
DependencySettled(predicate, upstream) == upstream \in TerminalEffectStatuses

\* DEPENDENCY_SATISFIED: each predicate is matched to the one terminal status
\* it names; "completes" to all four.
DependencySatisfied(predicate, upstream) ==
    \/ predicate = "succeeds"  /\ upstream = "completed"
    \/ predicate = "fails"     /\ upstream = "failed"
    \/ predicate = "timed_out" /\ upstream = "timed_out"
    \/ predicate = "cancelled" /\ upstream = "cancelled"
    \/ predicate = "completes" /\ upstream \in TerminalEffectStatuses
=============================================================================
