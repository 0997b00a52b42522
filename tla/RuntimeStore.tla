---------------------------- MODULE RuntimeStore ----------------------------
(***************************************************************************)
(* The durable effect store of one workflow instance: effects, runs,       *)
(* leases, cancellation requests, dependency edges, the attempt ledger and *)
(* the custody records of executor-run (exec.command) attempts.            *)
(*                                                                         *)
(* Every operation of the store is one Immediate SQLite transaction that   *)
(* commits or rolls back as a whole, so every operation is one action; an  *)
(* operation the source refuses (Conflict) is an action that is not        *)
(* enabled.  What workers, the operator and the executor do between their  *)
(* transactions is the interleaving of these actions.                      *)
(*                                                                         *)
(* target[r] is what run r really did at its external target.  It is not   *)
(* stored anywhere: evidence, settlements and closure proofs are the only  *)
(* ways the store learns of it.                                            *)
(***************************************************************************)
EXTENDS EffectStatus, AttemptLedger, Integers, FiniteSets

CONSTANTS
    Effects,          \* effect ids rules may ever insert
    Runs,             \* run ids; a run id is minted for one effect
    RunEffect,        \* the effect each run id is minted for
    ExecEffects,      \* effects of kind exec.command
    AgentEffects,     \* effects of kind agent.tell, all addressed to one agent
    Capacity,         \* the declared capacity of that agent
    Dependency,       \* dependency edges a rule commit may ask for
    AdmitStatuses,    \* statuses rules insert effects with
    RuleTerminals,    \* instance statuses rules may end the workflow with
    OperatorStatuses, \* instance statuses transition_instance is asked for
    PolicyBlocks,     \* statuses the policy gate may block with
    WorkerBlocks,     \* statuses a worker may block with before it starts a run
    Categories,       \* categories of those blocks
    DriverFences,     \* fence reasons the drivers outside the store ask for
    Evidence,         \* dispositions the targets' authorities may prove
    LeaseTerm,        \* how far ahead a lease is granted or renewed
    MaxTime,          \* bound on the clock
    MaxEpoch          \* bound on revision activations

ASSUME RunEffectAssumption == RunEffect \in [Runs -> Effects]

ASSUME KindsAssumption ==
    /\ ExecEffects \subseteq Effects
    /\ AgentEffects \subseteq Effects
    /\ ExecEffects \cap AgentEffects = {}

ASSUME DependencyAssumption ==
    Dependency \subseteq [up : Effects, predicate : Predicates, down : Effects]

ASSUME StatusAssumption ==
    /\ AdmitStatuses \subseteq {"queued", "blocked_by_dependency"}
    /\ RuleTerminals \subseteq {"completed", "failed"}
    /\ OperatorStatuses \subseteq InstanceStatuses
    /\ PolicyBlocks \subseteq {"blocked_by_capability", "blocked_by_profile"}
    /\ WorkerBlocks \subseteq {"blocked", "blocked_by_admission"}
    /\ "none" \notin Categories
    /\ DriverFences \subseteq {"deadline", "cancellation", "retry", "recovery"}
    /\ Evidence \subseteq EvidenceDispositions

ASSUME BoundsAssumption ==
    /\ Capacity \in Nat
    /\ LeaseTerm \in Nat \ {0}
    /\ MaxTime \in Nat
    /\ MaxEpoch \in Nat

VARIABLES
    instance,     \* instances.status
    epoch,        \* instances.revision_epoch
    effect,       \* effects.status
    category,     \* effects.policy_block_category
    blockKeys,    \* idempotency keys spent by workers' blocks
    deps,         \* effect_dependencies
    run,          \* runs.status
    lease,        \* leases.status
    expires,      \* leases.expires_at
    request,      \* effects with a request row in status 'requested'
    named,        \* runs some request row names in its active_run_ids
    attempt,      \* fold_attempts, per run
    gap,          \* effects with a terminal event that names no run
    tracked,      \* runs with an exec.lifetime.tracked event
    fence,        \* reason of the run's exec.fence.requested event
    proof,        \* lifetime of the run's exec.fence.proved event
    outcome,      \* state of the run's exec.outcome.observed event
    absence,      \* runs with an exec-absence disposition event
    settlement,   \* status of the run's exec.settlement.retained event
    target,       \* what the run did at its target (not stored)
    now           \* the clock the passes read

effectVars == <<effect, category, blockKeys, deps, request, named>>
runVars    == <<run, lease, expires>>
execVars   == <<tracked, fence, proof, outcome, absence, settlement>>
ledgerVars == <<attempt, gap>>
vars == <<instance, epoch, effectVars, runVars, execVars, ledgerVars, target, now>>

FenceReasons == {"deadline", "cancellation", "retry", "recovery"}
Lifetimes    == {"not_admitted", "terminated"}
Outcomes     == {"completed", "not_executed", "uncertain"}
Settlements  == {"completed", "failed", "timed_out", "cancelled", "uncertain"}
Targets      == {"idle", "live", "applied", "missed"}

TypeOK ==
    /\ instance \in InstanceStatuses
    /\ epoch \in 0..MaxEpoch
    /\ effect \in [Effects -> EffectStatuses]
    /\ category \in [Effects -> Categories \cup {"none"}]
    /\ blockKeys \subseteq Effects \X WorkerBlocks \X Categories
    /\ deps \subseteq Dependency
    /\ run \in [Runs -> RunStatuses]
    /\ lease \in [Runs -> LeaseStatuses]
    /\ expires \in [Runs -> Nat]
    /\ request \subseteq Effects
    /\ named \subseteq Runs
    /\ attempt \in [Runs -> Attempts]
    /\ gap \subseteq Effects
    /\ tracked \subseteq Runs
    /\ fence \in [Runs -> FenceReasons \cup {"none"}]
    /\ proof \in [Runs -> Lifetimes \cup {"none"}]
    /\ outcome \in [Runs -> Outcomes \cup {"none"}]
    /\ absence \subseteq Runs
    /\ settlement \in [Runs -> Settlements \cup {"none"}]
    /\ target \in [Runs -> Targets]
    /\ now \in 0..MaxTime

Init ==
    /\ instance = "running"
    /\ epoch = 0
    /\ effect = [e \in Effects |-> "absent"]
    /\ category = [e \in Effects |-> "none"]
    /\ blockKeys = {}
    /\ deps = {}
    /\ run = [r \in Runs |-> "absent"]
    /\ lease = [r \in Runs |-> "absent"]
    /\ expires = [r \in Runs |-> 0]
    /\ request = {}
    /\ named = {}
    /\ attempt = [r \in Runs |-> NewAttempt]
    /\ gap = {}
    /\ tracked = {}
    /\ fence = [r \in Runs |-> "none"]
    /\ proof = [r \in Runs |-> "none"]
    /\ outcome = [r \in Runs |-> "none"]
    /\ absence = {}
    /\ settlement = [r \in Runs |-> "none"]
    /\ target = [r \in Runs |-> "idle"]
    /\ now = 0

-----------------------------------------------------------------------------
(* Queries the operations share.                                           *)

Pending(e)  == effect[e] \in PendingEffectStatuses
Terminal(e) == effect[e] \in TerminalEffectStatuses
\* Mutant: the UPDATE's status list forgets `completed'.
UnsettledOrCompleted(e) == effect[e] \notin {"failed", "timed_out", "cancelled", "absent"}

\* status NOT IN the four terminals, on a row that exists.
Unsettled(e) == effect[e] \notin TerminalEffectStatuses \cup {"absent"}
RunsOf(e)   == {r \in Runs : RunEffect[r] = e}
Started(r)  == run[r] # "absent"
IsExec(r)   == RunEffect[r] \in ExecEffects

\* The runs' statuses a request stamps into its evidence.
RunningRuns(e) == {r \in RunsOf(e) : run[r] = "running"}

\* The NOT EXISTS clause: the JOIN drops an edge whose upstream has no row.
DependenciesHold(e, status, edges) ==
    \A d \in edges : d.down = e /\ status[d.up] # "absent"
                        => DependencySatisfied(d.predicate, status[d.up])

\* satisfy_dependencies: release every effect whose last edge is satisfied.
SatisfyDependencies(status) ==
    [e \in Effects |->
        IF status[e] = "blocked_by_dependency" /\ DependenciesHold(e, status, deps)
        THEN "queued" ELSE status[e]]

\* capacity_block: agent.tell effects running for the agent against capacity.
CapacityExhausted(e) ==
    /\ e \in AgentEffects
    /\ Cardinality({a \in AgentEffects : effect[a] = "running"}) >= Capacity

\* Mutant: terminals that name no run are not folded into an attempt.
ProvedAbsenceOfRuns(e) ==
    \A r \in RunsOf(e) : Started(r) => ProvedAbsent(attempt[r])

\* require_proved_absence over fold_attempts: a gap is an unproved attempt.
ProvedAbsence(e) ==
    /\ e \notin gap
    /\ \A r \in RunsOf(e) : Started(r) => ProvedAbsent(attempt[r])

\* ensure_exec_fence: the first reason wins, a later one replays it.
Fenced(reason, runs) ==
    [r \in Runs |-> IF r \in runs /\ fence[r] = "none" THEN reason ELSE fence[r]]

\* complete_effect's UPDATE of leases touches an active one only.
Released(status) == IF status = "active" THEN "released" ELSE status

\* Mutant: a retained fence intent is taken for the closure.
RetryFenced(e) == \A r \in RunsOf(e) \cap tracked : fence[r] # "none"

\* verify_retry_closure: every tracked run of the effect is fenced and proved
\* closed; a run that was never tracked asks for nothing.
RetryClosure(e) ==
    \A r \in RunsOf(e) \cap tracked : fence[r] # "none" /\ proof[r] # "none"

\* An edge set is acyclic when there is no nonempty set of effects each of which
\* waits for one of them.
Acyclic(edges) ==
    {S \in (SUBSET Effects) \ {{}} :
        \A e \in S : \E d \in edges : d.down = e /\ d.up \in S} = {}

-----------------------------------------------------------------------------
(* Rule commits, instance lifecycle and revisions.                         *)

\* commit_rule: insert the rule's effects and edges, and end the instance when
\* the rule ends in a terminal.  The commit is refused unless the head, the
\* version and the epoch are still the ones the rule was evaluated at, so
\* evaluation and commit see one state and are one step here.
CommitRule(E, status, D, outcomeStatus) ==
    /\ instance = "running"
    /\ E # {} \/ outcomeStatus # "running"
    /\ \A e \in E : effect[e] = "absent"
    /\ \A d \in D : d.down \in E /\ (d.up \in E \/ effect[d.up] # "absent")
    /\ Acyclic(deps \cup D)
    /\ effect' = [e \in Effects |-> IF e \in E THEN status[e] ELSE effect[e]]
    /\ deps' = deps \cup D
    /\ instance' = outcomeStatus
    /\ UNCHANGED <<epoch, category, blockKeys, request, named, runVars, execVars,
                   ledgerVars, target, now>>

\* transition_instance
TransitionInstance(status) ==
    /\ <<instance, status>> \in InstanceTransitions
    /\ instance' = status
    /\ UNCHANGED <<epoch, effectVars, runVars, execVars, ledgerVars, target, now>>

\* activate_revision: policy keep / queued / request_running.  One running
\* effect with an open request refuses the whole activation.
ActivateRevision(policy) ==
    LET cancelled == {e \in Effects : policy # "keep" /\ Pending(e)}
        asked     == {e \in Effects : policy = "request_running" /\ effect[e] = "running"}
        askedRuns == UNION {RunningRuns(e) : e \in asked}
    IN /\ epoch < MaxEpoch
       /\ instance \notin TerminalInstanceStatuses
       /\ asked \cap request = {}
       /\ epoch' = epoch + 1
       /\ effect' = IF cancelled = {} THEN effect
                    ELSE SatisfyDependencies(
                           [e \in Effects |-> IF e \in cancelled THEN "cancelled" ELSE effect[e]])
       /\ gap' = gap \cup cancelled
       /\ request' = (request \ cancelled) \cup asked
       /\ named' = named \cup askedRuns
       /\ fence' = Fenced("cancellation", askedRuns \cap tracked)
       /\ UNCHANGED <<instance, category, blockKeys, deps, runVars, attempt, tracked,
                      proof, outcome, absence, settlement, target, now>>

-----------------------------------------------------------------------------
(* Claiming work.                                                          *)

\* The policy gate found closed, by the claim list or by start_run.
PolicyBlock(e, status) ==
    /\ instance = "running"
    /\ Pending(e)
    /\ effect' = [effect EXCEPT ![e] = status]
    /\ UNCHANGED <<instance, epoch, category, blockKeys, deps, request, named, runVars,
                   execVars, ledgerVars, target, now>>

\* start_run finding no capacity: the block is committed, the run refused.
CapacityBlock(e) ==
    /\ instance = "running"
    /\ Pending(e)
    /\ DependenciesHold(e, effect, deps)
    /\ e \notin request
    /\ CapacityExhausted(e)
    /\ effect' = [effect EXCEPT ![e] = "blocked_by_capacity"]
    /\ UNCHANGED <<instance, epoch, category, blockKeys, deps, request, named, runVars,
                   execVars, ledgerVars, target, now>>

\* block_effect_binding / deny_effect_admission: the event's key is fixed per
\* effect, status and category and is appended once; a claim that went
\* terminal meanwhile spends the key and changes no row.
BlockEffect(e, status, c) ==
    /\ effect[e] # "absent"
    /\ ~(effect[e] = status /\ category[e] = c)
    /\ <<e, status, c>> \notin blockKeys
    /\ blockKeys' = blockKeys \cup {<<e, status, c>>}
    /\ effect' = [effect EXCEPT ![e] = IF Pending(e) THEN status ELSE @]
    /\ category' = [category EXCEPT ![e] = IF Pending(e) THEN c ELSE @]
    /\ UNCHANGED <<instance, epoch, deps, request, named, runVars, execVars, ledgerVars,
                   target, now>>

\* What start_run asks of a fresh run id before it writes anything.
Startable(r) ==
    LET e == RunEffect[r]
    IN /\ run[r] = "absent"
       /\ instance = "running"
       /\ DependenciesHold(e, effect, deps)
       /\ e \notin request
       /\ ~CapacityExhausted(e)
       /\ ProvedAbsence(e)
       /\ Pending(e)

\* start_run: the effect, its run and its lease in one transaction.
StartRun(r) ==
    LET e == RunEffect[r]
    IN /\ Startable(r)
       /\ effect' = [effect EXCEPT ![e] = "running"]
       /\ category' = [category EXCEPT ![e] = "none"]
       /\ run' = [run EXCEPT ![r] = "running"]
       /\ lease' = [lease EXCEPT ![r] = "active"]
       /\ expires' = [expires EXCEPT ![r] = now + LeaseTerm]
       /\ attempt' = [attempt EXCEPT ![r] = NewAttempt]
       /\ target' = [target EXCEPT ![r] = "live"]
       /\ UNCHANGED <<instance, epoch, blockKeys, deps, request, named, execVars, gap, now>>

-----------------------------------------------------------------------------
(* Terminals.                                                              *)

\* The run must be running and agree with a settlement retained for it.
Settleable(r, status) == run[r] = "running" /\ settlement[r] \in {"none", status}

\* complete_effect_terminal: the effect row is overwritten whatever its status is.
SettleRun(r, runStatus, effectStatus) ==
    LET e == RunEffect[r]
    IN /\ Settleable(r, runStatus)
       /\ run' = [run EXCEPT ![r] = runStatus]
       /\ lease' = [lease EXCEPT ![r] = Released(@)]
       /\ effect' = SatisfyDependencies([effect EXCEPT ![e] = effectStatus])
       /\ request' = request \ {e}
       /\ UNCHANGED <<instance, epoch, category, blockKeys, deps, named, expires,
                      execVars, ledgerVars, target, now>>

CompleteEffect(r, status) == SettleRun(r, status, status)

\* resolve_effect_uncertain: the run is uncertain, the effect failed.
ResolveEffectUncertain(r) == SettleRun(r, "uncertain", "failed")

\* expire_effect: any non-terminal effect, running ones too; the runs, leases,
\* requests and dependents are left alone, and the terminal names no run.
ExpireEffect(e) ==
    /\ Unsettled(e)
    /\ effect' = [effect EXCEPT ![e] = "timed_out"]
    /\ gap' = gap \cup {e}
    /\ UNCHANGED <<instance, epoch, category, blockKeys, deps, request, named, runVars,
                   execVars, attempt, target, now>>

\* cancel_effect: any non-terminal effect; runs and leases are left alone.
CancelEffect(e) ==
    /\ Unsettled(e)
    /\ effect' = SatisfyDependencies([effect EXCEPT ![e] = "cancelled"])
    /\ request' = request \ {e}
    /\ gap' = gap \cup {e}
    /\ UNCHANGED <<instance, epoch, category, blockKeys, deps, named, runVars, execVars,
                   attempt, target, now>>

\* request_effect_cancellation
RequestCancellation(e) ==
    /\ effect[e] = "running"
    /\ e \notin request
    /\ request' = request \cup {e}
    /\ named' = named \cup RunningRuns(e)
    /\ fence' = Fenced("cancellation", RunningRuns(e) \cap tracked)
    /\ UNCHANGED <<instance, epoch, effect, category, blockKeys, deps, runVars, tracked,
                   proof, outcome, absence, settlement, ledgerVars, target, now>>

\* retry_effect: proved absence first, then the closure of every tracked run.
RetryEffect(e) ==
    /\ ProvedAbsence(e)
    /\ RetryClosure(e)
    /\ effect[e] \in RetryableEffectStatuses
    /\ effect' = [effect EXCEPT ![e] = "queued"]
    /\ UNCHANGED <<instance, epoch, category, blockKeys, deps, request, named, runVars,
                   execVars, ledgerVars, target, now>>

-----------------------------------------------------------------------------
(* Leases.                                                                 *)

\* renew_lease
RenewLease(r) ==
    /\ lease[r] = "active"
    /\ expires' = [expires EXCEPT ![r] = now + LeaseTerm]
    /\ UNCHANGED <<instance, epoch, effectVars, run, lease, execVars, ledgerVars, target,
                   now>>

\* expire_leases: every due lease in one transaction.  An executor's run keeps
\* running behind a fence; any other run and its effect fail.
ExpireLeases ==
    LET due    == {r \in Runs : lease[r] = "active" /\ expires[r] <= now}
        failed == {r \in due : ~IsExec(r)}
    IN /\ due # {}
       /\ lease' = [r \in Runs |-> IF r \in due THEN "expired" ELSE lease[r]]
       /\ run' = [r \in Runs |-> IF r \in failed /\ run[r] = "running"
                                THEN "lease_expired" ELSE run[r]]
       /\ effect' = [e \in Effects |->
                       IF effect[e] = "running" /\ \E r \in failed : RunEffect[r] = e
                       THEN "failed" ELSE effect[e]]
       /\ fence' = Fenced("recovery", due \cap tracked)
       /\ UNCHANGED <<instance, epoch, category, blockKeys, deps, request, named, expires,
                      tracked, proof, outcome, absence, settlement, ledgerVars, target,
                      now>>

-----------------------------------------------------------------------------
(* Custody of executor runs: tracking, fence, closure proof, outcome.      *)

\* Mutant: tracking does not look for a request that came first.
TrackExecOnly(r) ==
    /\ r \notin tracked
    /\ IsExec(r)
    /\ run[r] = "running"
    /\ effect[RunEffect[r]] = "running"
    /\ tracked' = tracked \cup {r}
    /\ UNCHANGED <<instance, epoch, effectVars, runVars, fence, proof, outcome, absence,
                   settlement, ledgerVars, target, now>>

\* track_exec_lifetime: a run a request already names is fenced at once.
TrackExec(r) ==
    /\ r \notin tracked
    /\ IsExec(r)
    /\ run[r] = "running"
    /\ effect[RunEffect[r]] = "running"
    /\ tracked' = tracked \cup {r}
    /\ fence' = Fenced("cancellation", {r} \cap named)
    /\ UNCHANGED <<instance, epoch, effectVars, runVars, proof, outcome, absence,
                   settlement, ledgerVars, target, now>>

\* ensure_exec_fence, as the time pass (deadline), prepare_retry (retry), the
\* recovery drivers (recovery) and retire (cancellation) call it.
EnsureFence(r, reason) ==
    /\ r \in tracked
    /\ fence[r] = "none"
    /\ fence' = Fenced(reason, {r})
    /\ UNCHANGED <<instance, epoch, effectVars, runVars, tracked, proof, outcome, absence,
                   settlement, ledgerVars, target, now>>

\* observe, first transaction: retain the closure the broker answered with.
\* The broker is believed: a barrier closed the run, and an invocation never
\* admitted did not reach its target.
RetainProof(r, lifetime) ==
    /\ r \in tracked
    /\ fence[r] # "none"
    /\ proof[r] = "none"
    /\ target[r] \in (IF lifetime = "not_admitted" THEN {"missed"}
                                                   ELSE {"applied", "missed"})
    /\ proof' = [proof EXCEPT ![r] = lifetime]
    /\ attempt' = [attempt EXCEPT ![r] = FoldProof(@, lifetime)]
    /\ UNCHANGED <<instance, epoch, effectVars, runVars, tracked, fence, outcome, absence,
                   settlement, gap, target, now>>

\* observe, second transaction: retain the outcome, which must agree with the
\* closure unless it is an executor's result.
RetainOutcome(r, state) ==
    /\ r \in tracked
    /\ fence[r] # "none"
    /\ outcome[r] = "none"
    /\ \/ state = "completed" /\ proof[r] # "not_admitted" /\ target[r] # "live"
       \/ state = "not_executed" /\ proof[r] = "not_admitted"
       \/ state = "uncertain" /\ proof[r] = "terminated"
    /\ outcome' = [outcome EXCEPT ![r] = state]
    /\ UNCHANGED <<instance, epoch, effectVars, runVars, tracked, fence, proof, absence,
                   settlement, ledgerVars, target, now>>

\* observe, third transaction: record_proved_absence.
RecordProvedAbsence(r) ==
    /\ outcome[r] = "not_executed"
    /\ r \notin absence
    /\ absence' = absence \cup {r}
    /\ attempt' = [attempt EXCEPT ![r] = FoldEvidence(@, "not_applied")]
    /\ UNCHANGED <<instance, epoch, effectVars, runVars, tracked, fence, proof, outcome,
                   settlement, gap, target, now>>

\* The status a fenced run that never executed is settled with.
NotExecutedStatus(reason) ==
    CASE reason = "cancellation" -> "cancelled"
      [] reason = "deadline"     -> "timed_out"
      [] OTHER                   -> "failed"

\* retain_exec_settlement: the executor's answer, or the observed outcome.  An
\* answer does not close the process tree: the target may still be live.
RetainSettlement(r, status) ==
    /\ IsExec(r)
    /\ run[r] = "running"
    /\ effect[RunEffect[r]] = "running"
    /\ settlement[r] = "none"
    /\ \/ /\ status \in {"completed", "failed"}
          /\ outcome[r] \in {"none", "completed"}
          /\ proof[r] # "not_admitted"
       \/ outcome[r] = "uncertain" /\ status = "uncertain"
       \/ outcome[r] = "not_executed" /\ status = NotExecutedStatus(fence[r])
    /\ settlement' = [settlement EXCEPT ![r] = status]
    /\ attempt' = [attempt EXCEPT ![r] = FoldSettlement(@, status)]
    /\ UNCHANGED <<instance, epoch, effectVars, runVars, tracked, fence, proof, outcome,
                   absence, gap, target, now>>

-----------------------------------------------------------------------------
(* The world outside: targets, evidence about them, and time.              *)

\* record_reconciliation: verified evidence about a recorded dispatch.
\* Evidence is true of the target; when it comes is arbitrary.
RecordReconciliation(r, disposition) ==
    /\ Started(r)
    /\ target[r] = IF disposition = "applied" THEN "applied" ELSE "missed"
    /\ attempt' = [attempt EXCEPT ![r] = FoldEvidence(@, disposition)]
    /\ UNCHANGED <<instance, epoch, effectVars, runVars, execVars, gap, target, now>>

\* A dispatched run reaches its target, or ends without reaching it.
TargetStep(r) ==
    /\ target[r] = "live"
    /\ \E t \in {"applied", "missed"} : target' = [target EXCEPT ![r] = t]
    /\ UNCHANGED <<instance, epoch, effectVars, runVars, execVars, ledgerVars, now>>

Tick ==
    /\ now < MaxTime
    /\ now' = now + 1
    /\ UNCHANGED <<instance, epoch, effectVars, runVars, execVars, ledgerVars, target>>

-----------------------------------------------------------------------------
RuleStep ==
    \/ \E E \in SUBSET Effects :
         \E status \in [E -> AdmitStatuses], D \in SUBSET Dependency,
            outcomeStatus \in RuleTerminals \cup {"running"} :
            CommitRule(E, status, D, outcomeStatus)
    \/ \E status \in OperatorStatuses : TransitionInstance(status)
    \/ \E policy \in {"keep", "queued", "request_running"} : ActivateRevision(policy)

BlockStep(e) ==
    \/ \E status \in PolicyBlocks : PolicyBlock(e, status)
    \/ CapacityBlock(e)
    \/ \E status \in WorkerBlocks, c \in Categories : BlockEffect(e, status, c)

OperatorStep(e) ==
    \/ CancelEffect(e)
    \/ RequestCancellation(e)
    \/ RetryEffect(e)

RunStep(r) ==
    \/ StartRun(r)
    \/ \E status \in TerminalEffectStatuses : CompleteEffect(r, status)
    \/ ResolveEffectUncertain(r)
    \/ RenewLease(r)
    \/ TargetStep(r)
    \/ \E disposition \in Evidence : RecordReconciliation(r, disposition)

ExecStep(r) ==
    \/ TrackExec(r)
    \/ \E reason \in DriverFences : EnsureFence(r, reason)
    \/ \E lifetime \in Lifetimes : RetainProof(r, lifetime)
    \/ \E state \in Outcomes : RetainOutcome(r, state)
    \/ RecordProvedAbsence(r)
    \/ \E status \in Settlements : RetainSettlement(r, status)

Next ==
    \/ RuleStep
    \/ \E e \in Effects : BlockStep(e) \/ OperatorStep(e) \/ ExpireEffect(e)
    \/ \E r \in Runs : RunStep(r) \/ ExecStep(r)
    \/ ExpireLeases
    \/ Tick

Spec == Init /\ [][Next]_vars

-----------------------------------------------------------------------------
(* Properties.                                                             *)

\* At most one run of an effect is running.  complete_effect, the lease sweep
\* and cancellation all find "the" run of an effect by status, and a late
\* completion of an earlier run would overwrite the effect row of a later one.
AtMostOneRunningRun ==
    \A e \in Effects : \A r, s \in RunningRuns(e) : r = s

\* An effect row that says running is backed by a run that is running, and a
\* lease that is active belongs to such a run: otherwise nothing would ever
\* settle the effect, or the sweep would fail an effect nobody holds.
RunningIsBacked ==
    /\ \A e \in Effects : effect[e] = "running" => RunningRuns(e) # {}
    /\ \A r \in Runs : lease[r] = "active" => run[r] = "running"
    /\ \A r \in Runs : run[r] = "running" /\ lease[r] # "active" => IsExec(r)

\* A run whose effect moved on without it (expired or cancelled under it)
\* leaves the effect with a terminal that names no run, and such an effect is
\* never dispatched again: its attempt list has a gap no evidence can fill.
OrphanedRunBlocksRedispatch ==
    /\ \A r \in Runs : run[r] = "running"
                        => effect[RunEffect[r]] = "running" \/ RunEffect[r] \in gap
    /\ \A e \in gap : Terminal(e)

\* Two runs of one effect both reach the target only if the executor itself
\* answered for one of them: an attempt whose fate the log does not know is
\* never followed by another (require_proved_absence at retry and at start).
NoBlindResubmission ==
    \A r, s \in Runs :
        /\ r # s
        /\ RunEffect[r] = RunEffect[s]
        /\ target[r] = "applied"
        /\ target[s] = "applied"
        => attempt[r].observed \/ attempt[s].observed

\* While a run may still reach the target no other run of its effect is live: a
\* fenced, lost or timed-out incarnation is never overlapped by its retry.  The
\* exception is an executor run that answered without ever being tracked: the
\* retry door asks for no closure of it (verify_retry_closure's `continue').
NoOverlappingIncarnations ==
    \A r, s \in Runs :
        /\ r # s
        /\ RunEffect[r] = RunEffect[s]
        /\ target[r] = "live"
        /\ target[s] = "live"
        => \E x \in {r, s} : IsExec(x) /\ x \notin tracked /\ attempt[x].observed

\* An executor run that a cancellation request names is fenced as soon as it
\* is tracked, whichever of the two came first.
CancelledExecIsFenced ==
    \A r \in tracked \cap named : fence[r] # "none"

\* A downstream effect that waits for its upstream to succeed has run only if
\* the upstream is completed, and stays so: retries, late completions and
\* sweeps never take completed back under a dependent that already ran.
SucceedsOrder ==
    \A d \in deps : d.predicate = "succeeds" /\ (\E r \in RunsOf(d.down) : Started(r))
                        => effect[d.up] = "completed"

\* No more agent.tell effects run for an agent than its declared capacity.
CapacityRespected ==
    Cardinality({a \in AgentEffects : effect[a] = "running"}) <= Capacity

\* completed is final, whatever run, sweep or revision comes later.
CompletedIsFinal ==
    [][\A e \in Effects : effect[e] = "completed" => effect'[e] = "completed"]_vars
=============================================================================
