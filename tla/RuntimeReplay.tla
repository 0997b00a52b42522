---------------------------- MODULE RuntimeReplay ---------------------------
(***************************************************************************)
(* The store's tables beside what replaying its log would write.           *)
(*                                                                         *)
(* `rebuilt' is the fold of the events appended so far, one operator per   *)
(* replay handler.  A transaction appends, with the rows it writes, the    *)
(* events that say what it wrote, so the events of a step are read off its *)
(* changes.  effect.blocked and lease.renewed are appended and not         *)
(* replayed; a terminal that names no run is replayed by the handler that  *)
(* also resolves requests and dependents, which the live expire_effect     *)
(* does not.  Rebuild puts the fold in place of the tables at any moment,  *)
(* and the store goes on from there.                                       *)
(***************************************************************************)
EXTENDS RuntimeStore

VARIABLE rebuilt

tables == [instance |-> instance, epoch |-> epoch, effect |-> effect, deps |-> deps,
           run |-> run, lease |-> lease, expires |-> expires, request |-> request]

replayVars == <<vars, rebuilt>>

ReplayInit == Init /\ rebuilt = [tables EXCEPT !.instance = "running"]

-----------------------------------------------------------------------------
(* The replay handlers, on the tables t that the fold has written so far.  *)

\* satisfy_dependencies over the replayed rows.
Satisfied(t) ==
    [t EXCEPT !.effect = [e \in Effects |->
        IF t.effect[e] = "blocked_by_dependency" /\ DependenciesHold(e, t.effect, t.deps)
        THEN "queued" ELSE t.effect[e]]]

\* replay_rule_commit: rows and edges as the commit's payload lists them.
ReplayRuleCommit(t, E, status, D) ==
    [t EXCEPT !.effect = [e \in Effects |-> IF e \in E THEN status[e] ELSE t.effect[e]],
              !.deps = t.deps \cup D]

\* replay_workflow_terminal / apply_instance_transitioned
ReplayInstance(t, status) == [t EXCEPT !.instance = status]

\* replay_revision_activation
ReplayRevision(t, n) == [t EXCEPT !.epoch = n]

\* replay_run_started: the effect runs unless the fold has it terminal.
ReplayRunStarted(t, R, until) ==
    [t EXCEPT
        !.effect = [e \in Effects |->
            IF t.effect[e] \notin TerminalEffectStatuses /\ \E r \in R : RunEffect[r] = e
            THEN "running" ELSE t.effect[e]],
        !.run = [r \in Runs |-> IF r \in R THEN "running" ELSE t.run[r]],
        !.lease = [r \in Runs |-> IF r \in R THEN "active" ELSE t.lease[r]],
        !.expires = [r \in Runs |-> IF r \in R THEN until[r] ELSE t.expires[r]]]

\* replay_effect_terminal: the effects E and, where the event names one, the
\* runs R; requests are resolved and dependents released.
ReplayTerminal(t, E, R, effectStatus, runStatus) ==
    IF E = {} THEN t
    ELSE Satisfied(
        [t EXCEPT
            !.effect = [e \in Effects |-> IF e \in E THEN effectStatus[e] ELSE t.effect[e]],
            !.run = [r \in Runs |-> IF r \in R THEN runStatus[r] ELSE t.run[r]],
            !.lease = [r \in Runs |-> IF r \in R THEN Released(t.lease[r]) ELSE t.lease[r]],
            !.request = t.request \ E])

\* replay_effect_retried: a row that is not retryable fails the rebuild, which
\* shows here as a row that stays behind the live one.
ReplayRetried(t, E) ==
    [t EXCEPT !.effect = [e \in Effects |->
        IF e \in E /\ t.effect[e] \in RetryableEffectStatuses THEN "queued" ELSE t.effect[e]]]

\* Mutant: the handler has no early return for an executor's run.
ReplayLeaseExpiredForAll(t, R) ==
    [t EXCEPT
        !.lease = [r \in Runs |-> IF r \in R THEN "expired" ELSE t.lease[r]],
        !.run = [r \in Runs |-> IF r \in R /\ t.run[r] = "running"
                                THEN "lease_expired" ELSE t.run[r]],
        !.effect = [e \in Effects |->
            IF t.effect[e] = "running" /\ \E r \in R : RunEffect[r] = e
            THEN "failed" ELSE t.effect[e]]]

\* replay_lease_expired: an executor's run goes on behind its fence.
ReplayLeaseExpired(t, R) ==
    LET failed == {r \in R : ~IsExec(r)}
    IN [t EXCEPT
          !.lease = [r \in Runs |-> IF r \in R THEN "expired" ELSE t.lease[r]],
          !.run = [r \in Runs |-> IF r \in failed /\ t.run[r] = "running"
                                  THEN "lease_expired" ELSE t.run[r]],
          !.effect = [e \in Effects |->
              IF t.effect[e] = "running" /\ \E r \in failed : RunEffect[r] = e
              THEN "failed" ELSE t.effect[e]]]

\* replay_cancellation_request
ReplayRequested(t, E) == [t EXCEPT !.request = @ \cup E]

-----------------------------------------------------------------------------
(* The events of a step.                                                   *)

Inserted     == {e \in Effects : effect[e] = "absent" /\ effect'[e] # "absent"}
StartedNow   == {r \in Runs : run[r] = "absent" /\ run'[r] = "running"}
SettledNow   == {r \in Runs : run[r] = "running" /\ run'[r] \notin {"running", "lease_expired"}}
ExpiredNow   == {r \in Runs : lease[r] = "active" /\ lease'[r] = "expired"}
RetriedNow   == {e \in Effects : effect[e] \in RetryableEffectStatuses /\ effect'[e] = "queued"}
RequestedNow == request' \ request
RunlessNow   == gap' \ gap

\* The fold over what the step appended; a revision appends its own event, the
\* terminals of what it cancels and its requests, in this order.
Replayed ==
    CASE Inserted # {} \/ instance' # instance ->
            ReplayInstance(ReplayRuleCommit(rebuilt, Inserted, effect', deps' \ deps), instance')
      [] epoch' # epoch ->
            ReplayRequested(ReplayTerminal(ReplayRevision(rebuilt, epoch'),
                                           RunlessNow, {}, effect', run'), RequestedNow)
      [] StartedNow # {} -> ReplayRunStarted(rebuilt, StartedNow, expires')
      [] SettledNow # {} ->
            ReplayTerminal(rebuilt, {RunEffect[r] : r \in SettledNow}, SettledNow, effect', run')
      [] RunlessNow # {} /\ epoch' = epoch ->
            ReplayTerminal(rebuilt, RunlessNow, {}, effect', run')
      [] ExpiredNow # {} -> ReplayLeaseExpired(rebuilt, ExpiredNow)
      [] RetriedNow # {} -> ReplayRetried(rebuilt, RetriedNow)
      [] RequestedNow # {} /\ epoch' = epoch -> ReplayRequested(rebuilt, RequestedNow)
      [] OTHER -> rebuilt

StoreStep == Next /\ rebuilt' = Replayed

\* rebuild_projections: the tables are emptied and the log folded into them, in
\* one transaction.  Blocks are gone, evidence rows and events stay.
Rebuild ==
    /\ tables # rebuilt \/ \E e \in Effects : category[e] # "none"
    /\ instance' = rebuilt.instance
    /\ epoch' = rebuilt.epoch
    /\ effect' = rebuilt.effect
    /\ category' = [e \in Effects |-> "none"]
    /\ deps' = rebuilt.deps
    /\ run' = rebuilt.run
    /\ lease' = rebuilt.lease
    /\ expires' = rebuilt.expires
    /\ request' = rebuilt.request
    /\ UNCHANGED <<blockKeys, named, execVars, ledgerVars, target, now, rebuilt>>

ReplayNext == StoreStep \/ Rebuild

ReplaySpec == ReplayInit /\ [][ReplayNext]_replayVars

-----------------------------------------------------------------------------
(* Properties.                                                             *)

\* Replaying the log gives back what the transactions wrote: the same
\* instance, epoch, edges, runs and leases, and the same effect rows but for
\* blocks, which are not replayed, and for dependents of an expired effect,
\* which the replay releases.  A lease comes back with the term it was granted
\* with, and a request only disappears where the effect ended without its run.
RebuildAgrees ==
    /\ \A field \in {"instance", "epoch", "deps", "run", "lease"} :
          rebuilt[field] = tables[field]
    /\ \A e \in Effects :
          \/ rebuilt.effect[e] = effect[e]
          \/ {rebuilt.effect[e], effect[e]} \subseteq PendingEffectStatuses
    /\ \A r \in Runs : rebuilt.expires[r] <= expires[r]
    /\ rebuilt.request \subseteq request
    /\ request \ rebuilt.request \subseteq gap
=============================================================================
