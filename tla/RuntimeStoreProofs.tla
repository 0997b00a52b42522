------------------------- MODULE RuntimeStoreProofs -------------------------
(***************************************************************************)
(* The types and the safety invariants of RuntimeStore, what a rebuild     *)
(* from the log gives back (RuntimeReplay), and that the due-time pass     *)
(* (TimePass) implements the store, proved for every set of effects, runs  *)
(* and edges and every bound.                                              *)
(*                                                                         *)
(* The argument is in three layers, each inductive once the layers before  *)
(* it are known:                                                           *)
(*   Backing     effects, runs, leases and gaps agree with one another;    *)
(*   Knowledge   what the attempt ledger and the custody records say of a  *)
(*               run is true of what the run did at its target;            *)
(*   Succession  of two runs of one effect the earlier was answered for,   *)
(*               and closed, before the later was dispatched.              *)
(* On top of them, ReplayInv: the fold of the log agrees with the tables.  *)
(* With it a rebuild is a step that keeps all three layers.                *)
(***************************************************************************)
EXTENDS RuntimeReplay, TimePass, FiniteSetTheorems, TLAPS

-----------------------------------------------------------------------------
(* The helpers keep the types of what they update.                         *)

\* Releasing dependents (satisfy_dependencies_on) maps status rows to status rows.
LEMMA SatisfyDependenciesType ==
    ASSUME NEW status \in [Effects -> EffectStatuses]
    PROVE  SatisfyDependencies(status) \in [Effects -> EffectStatuses]
  BY DEF SatisfyDependencies, EffectStatuses, PendingEffectStatuses

\* Adding fence requests (ensure_exec_fence_on) keeps every reason a legal one.
LEMMA FencedType ==
    ASSUME fence \in [Runs -> FenceReasons \cup {"none"}],
           NEW reason \in FenceReasons, NEW runs
    PROVE  Fenced(reason, runs) \in [Runs -> FenceReasons \cup {"none"}]
  BY DEF Fenced

\* Whatever fold_attempts folds into an attempt leaves a well-formed attempt.
LEMMA LedgerType ==
    ASSUME NEW a \in Attempts
    PROVE  /\ \A d \in Dispositions : Stated(a, d) \in Attempts
           /\ \A d \in EvidenceDispositions : FoldEvidence(a, d) \in Attempts
           /\ \A l : FoldProof(a, l) \in Attempts
           /\ \A s : FoldSettlement(a, s) \in Attempts
           /\ NewAttempt \in Attempts
  <1>1. \A d \in Dispositions : Stated(a, d) \in Attempts
    BY DEF Stated, Attempts, Dispositions
  <1>2. \A d \in EvidenceDispositions : FoldEvidence(a, d) \in Attempts
    BY <1>1 DEF FoldEvidence, EvidenceDispositions, Dispositions
  <1>3. \A l : FoldProof(a, l) \in Attempts
    BY <1>1 DEF FoldProof, Dispositions
  <1>4. \A s : FoldSettlement(a, s) \in Attempts
    BY DEF FoldSettlement, Attempts
  <1>5. NewAttempt \in Attempts
    BY DEF NewAttempt, Attempts, Dispositions
  <1> QED BY <1>1, <1>2, <1>3, <1>4, <1>5

-----------------------------------------------------------------------------
(* Type correctness.                                                       *)

\* The tables of a fresh instance are well-typed.
LEMMA InitType == Init => TypeOK
  <1> SUFFICES ASSUME Init PROVE TypeOK
    OBVIOUS
  <1>1. 0 \in 0..MaxEpoch /\ 0 \in 0..MaxTime
    BY BoundsAssumption
  <1>2. NewAttempt \in Attempts
    BY DEF NewAttempt, Attempts, Dispositions
  <1> QED
    BY <1>1, <1>2 DEF Init, TypeOK, InstanceStatuses, EffectStatuses, RunStatuses,
       LeaseStatuses, Targets

\* Every store transaction, and every step of the world, keeps the tables
\* well-typed: one case per operation.
LEMMA StepType == TypeOK /\ [Next]_vars => TypeOK'
  <1> SUFFICES ASSUME TypeOK, [Next]_vars PROVE TypeOK'
    OBVIOUS
  <1>1. ASSUME NEW E \in SUBSET Effects, NEW status \in [E -> AdmitStatuses],
               NEW D \in SUBSET Dependency, NEW o \in RuleTerminals \cup {"running"},
               CommitRule(E, status, D, o)
        PROVE  TypeOK'
    <2>1. AdmitStatuses \subseteq EffectStatuses /\ o \in InstanceStatuses
      BY StatusAssumption DEF EffectStatuses, PendingEffectStatuses, InstanceStatuses
    <2> QED
      BY <1>1, <2>1 DEF TypeOK, CommitRule, runVars, execVars, ledgerVars
  <1>2. ASSUME NEW status \in OperatorStatuses, TransitionInstance(status)
        PROVE  TypeOK'
    BY <1>2, StatusAssumption DEF TypeOK, TransitionInstance, effectVars, runVars,
       execVars, ledgerVars
  <1>3. ASSUME NEW policy, ActivateRevision(policy)
        PROVE  TypeOK'
    <2> DEFINE cancelled == {e \in Effects : policy # "keep" /\ Pending(e)}
               asked == {e \in Effects : policy = "request_running" /\ effect[e] = "running"}
               askedRuns == UNION {RunningRuns(e) : e \in asked}
               mid == [e \in Effects |-> IF e \in cancelled THEN "cancelled" ELSE effect[e]]
    <2>1. mid \in [Effects -> EffectStatuses]
      BY DEF TypeOK, EffectStatuses, TerminalEffectStatuses
    <2>2. SatisfyDependencies(mid) \in [Effects -> EffectStatuses]
      BY <2>1, SatisfyDependenciesType
    <2>3. Fenced("cancellation", askedRuns \cap tracked)
              \in [Runs -> FenceReasons \cup {"none"}]
      BY FencedType DEF TypeOK, FenceReasons
    <2>4. askedRuns \subseteq Runs
      BY DEF RunningRuns, RunsOf
    <2>5. epoch + 1 \in 0..MaxEpoch
      BY <1>3, BoundsAssumption DEF ActivateRevision, TypeOK
    <2>6. /\ epoch' = epoch + 1
          /\ effect' = IF cancelled = {} THEN effect ELSE SatisfyDependencies(mid)
          /\ gap' = gap \cup cancelled
          /\ request' = (request \ cancelled) \cup asked
          /\ named' = named \cup askedRuns
          /\ fence' = Fenced("cancellation", askedRuns \cap tracked)
          /\ UNCHANGED <<instance, category, blockKeys, deps, runVars, attempt, tracked,
                         proof, outcome, absence, settlement, target, now>>
      BY <1>3 DEF ActivateRevision
    <2> HIDE DEF askedRuns, mid
    <2> QED
      BY <2>2, <2>3, <2>4, <2>5, <2>6 DEF TypeOK, runVars
  <1>4. ASSUME NEW e \in Effects, NEW status \in PolicyBlocks, PolicyBlock(e, status)
        PROVE  TypeOK'
    <2>1. status \in EffectStatuses
      BY StatusAssumption DEF EffectStatuses, PendingEffectStatuses
    <2> QED
      BY <1>4, <2>1 DEF TypeOK, PolicyBlock, runVars, execVars, ledgerVars
  <1>5. ASSUME NEW e \in Effects, CapacityBlock(e)
        PROVE  TypeOK'
    <2>1. "blocked_by_capacity" \in EffectStatuses
      BY DEF EffectStatuses, PendingEffectStatuses
    <2> QED
      BY <1>5, <2>1 DEF TypeOK, CapacityBlock, runVars, execVars, ledgerVars
  <1>6. ASSUME NEW e \in Effects, NEW status \in WorkerBlocks, NEW c \in Categories,
               BlockEffect(e, status, c)
        PROVE  TypeOK'
    <2>1. status \in EffectStatuses
      BY StatusAssumption DEF EffectStatuses, PendingEffectStatuses
    <2> QED
      BY <1>6, <2>1 DEF TypeOK, BlockEffect, runVars, execVars, ledgerVars
  <1>7. ASSUME NEW r \in Runs, StartRun(r)
        PROVE  TypeOK'
    <2>1. /\ RunEffect[r] \in Effects
          /\ "running" \in EffectStatuses
          /\ "running" \in RunStatuses
          /\ "active" \in LeaseStatuses
          /\ "live" \in Targets
          /\ NewAttempt \in Attempts
          /\ now + LeaseTerm \in Nat
      BY RunEffectAssumption, BoundsAssumption
         DEF EffectStatuses, RunStatuses, LeaseStatuses, Targets, TypeOK, NewAttempt,
             Attempts, Dispositions
    <2> QED
      BY <1>7, <2>1 DEF TypeOK, StartRun, Startable, execVars
  <1>8. ASSUME NEW r \in Runs, NEW s \in RunStatuses, NEW t \in EffectStatuses,
               SettleRun(r, s, t)
        PROVE  TypeOK'
    <2>1. RunEffect[r] \in Effects
      BY RunEffectAssumption
    <2>2. SatisfyDependencies([effect EXCEPT ![RunEffect[r]] = t])
              \in [Effects -> EffectStatuses]
      <3>1. [effect EXCEPT ![RunEffect[r]] = t] \in [Effects -> EffectStatuses]
        BY <2>1 DEF TypeOK
      <3> QED BY <3>1, SatisfyDependenciesType
    <2>3. Released(lease[r]) \in LeaseStatuses
      BY DEF TypeOK, Released, LeaseStatuses
    <2> QED
      BY <1>8, <2>1, <2>2, <2>3 DEF TypeOK, SettleRun, Settleable, execVars, ledgerVars
  <1>9. ASSUME NEW e \in Effects, ExpireEffect(e)
        PROVE  TypeOK'
    <2>1. "timed_out" \in EffectStatuses
      BY DEF EffectStatuses, TerminalEffectStatuses
    <2> QED
      BY <1>9, <2>1 DEF TypeOK, ExpireEffect, runVars, execVars
  <1>10. ASSUME NEW e \in Effects, CancelEffect(e)
         PROVE  TypeOK'
    <2>1. [effect EXCEPT ![e] = "cancelled"] \in [Effects -> EffectStatuses]
      BY DEF TypeOK, EffectStatuses, TerminalEffectStatuses
    <2>2. SatisfyDependencies([effect EXCEPT ![e] = "cancelled"])
              \in [Effects -> EffectStatuses]
      BY <2>1, SatisfyDependenciesType
    <2> QED
      BY <1>10, <2>2 DEF TypeOK, CancelEffect, runVars, execVars
  <1>11. ASSUME NEW e \in Effects, RequestCancellation(e)
         PROVE  TypeOK'
    <2>1. Fenced("cancellation", RunningRuns(e) \cap tracked)
              \in [Runs -> FenceReasons \cup {"none"}]
      BY FencedType DEF TypeOK, FenceReasons
    <2>2. RunningRuns(e) \subseteq Runs
      BY DEF RunningRuns, RunsOf
    <2> QED
      BY <1>11, <2>1, <2>2 DEF TypeOK, RequestCancellation, runVars, ledgerVars
  <1>12. ASSUME NEW e \in Effects, RetryEffect(e)
         PROVE  TypeOK'
    <2>1. "queued" \in EffectStatuses
      BY DEF EffectStatuses, PendingEffectStatuses
    <2> QED
      BY <1>12, <2>1 DEF TypeOK, RetryEffect, runVars, execVars, ledgerVars
  <1>13. ASSUME NEW r \in Runs, RenewLease(r)
         PROVE  TypeOK'
    <2>1. now + LeaseTerm \in Nat
      BY BoundsAssumption DEF TypeOK
    <2> QED
      BY <1>13, <2>1 DEF TypeOK, RenewLease, effectVars, execVars, ledgerVars
  <1>14. ASSUME ExpireLeases
         PROVE  TypeOK'
    <2>1. /\ "failed" \in EffectStatuses
          /\ "lease_expired" \in RunStatuses
          /\ "expired" \in LeaseStatuses
      BY DEF EffectStatuses, TerminalEffectStatuses, RunStatuses, LeaseStatuses
    <2>2. \A runs : Fenced("recovery", runs) \in [Runs -> FenceReasons \cup {"none"}]
      BY FencedType DEF TypeOK, FenceReasons
    <2> QED
      BY <1>14, <2>1, <2>2 DEF TypeOK, ExpireLeases, ledgerVars
  <1>15. ASSUME NEW r \in Runs, TrackExec(r)
         PROVE  TypeOK'
    <2>1. \A runs : Fenced("cancellation", runs) \in [Runs -> FenceReasons \cup {"none"}]
      BY FencedType DEF TypeOK, FenceReasons
    <2> QED
      BY <1>15, <2>1 DEF TypeOK, TrackExec, effectVars, runVars, ledgerVars
  <1>16. ASSUME NEW r \in Runs, NEW reason \in DriverFences, EnsureFence(r, reason)
         PROVE  TypeOK'
    <2>1. \A runs : Fenced(reason, runs) \in [Runs -> FenceReasons \cup {"none"}]
      BY FencedType, StatusAssumption DEF TypeOK, FenceReasons
    <2> QED
      BY <1>16, <2>1 DEF TypeOK, EnsureFence, effectVars, runVars, ledgerVars
  <1>17. ASSUME NEW r \in Runs, NEW lifetime \in Lifetimes, RetainProof(r, lifetime)
         PROVE  TypeOK'
    <2>1. FoldProof(attempt[r], lifetime) \in Attempts
      BY LedgerType DEF TypeOK
    <2> QED
      BY <1>17, <2>1 DEF TypeOK, RetainProof, effectVars, runVars
  <1>18. ASSUME NEW r \in Runs, NEW state \in Outcomes, RetainOutcome(r, state)
         PROVE  TypeOK'
    BY <1>18 DEF TypeOK, RetainOutcome, effectVars, runVars, ledgerVars
  <1>19. ASSUME NEW r \in Runs, RecordProvedAbsence(r)
         PROVE  TypeOK'
    <2>1. FoldEvidence(attempt[r], "not_applied") \in Attempts
      BY LedgerType DEF TypeOK, EvidenceDispositions
    <2> QED
      BY <1>19, <2>1 DEF TypeOK, RecordProvedAbsence, effectVars, runVars
  <1>20. ASSUME NEW r \in Runs, NEW status \in Settlements, RetainSettlement(r, status)
         PROVE  TypeOK'
    <2>1. FoldSettlement(attempt[r], status) \in Attempts
      BY LedgerType DEF TypeOK
    <2> QED
      BY <1>20, <2>1 DEF TypeOK, RetainSettlement, effectVars, runVars
  <1>21. ASSUME NEW r \in Runs, NEW d \in Evidence,
                RecordReconciliation(r, d)
         PROVE  TypeOK'
    <2>1. FoldEvidence(attempt[r], d) \in Attempts
      BY LedgerType, StatusAssumption DEF TypeOK
    <2> QED
      BY <1>21, <2>1 DEF TypeOK, RecordReconciliation, effectVars, runVars, execVars
  <1>22. ASSUME NEW r \in Runs, TargetStep(r)
         PROVE  TypeOK'
    BY <1>22 DEF TypeOK, TargetStep, Targets, effectVars, runVars, execVars, ledgerVars
  <1>23. ASSUME Tick
         PROVE  TypeOK'
    BY <1>23, BoundsAssumption DEF TypeOK, Tick, effectVars, runVars, execVars, ledgerVars
  <1>24. ASSUME UNCHANGED vars
         PROVE  TypeOK'
    BY <1>24 DEF TypeOK, vars, effectVars, runVars, execVars, ledgerVars
  <1>25. ASSUME NEW r \in Runs, NEW status \in TerminalEffectStatuses,
                CompleteEffect(r, status)
         PROVE  TypeOK'
    BY <1>25, <1>8 DEF CompleteEffect, RunStatuses, EffectStatuses
  <1>26. ASSUME NEW r \in Runs, ResolveEffectUncertain(r)
         PROVE  TypeOK'
    BY <1>26, <1>8 DEF ResolveEffectUncertain, RunStatuses, EffectStatuses,
       TerminalEffectStatuses
  <1> QED
    BY <1>1, <1>2, <1>3, <1>4, <1>5, <1>6, <1>7, <1>9, <1>10, <1>11, <1>12, <1>13, <1>14,
       <1>15, <1>16, <1>17, <1>18, <1>19, <1>20, <1>21, <1>22, <1>23, <1>24, <1>25, <1>26
       DEF Next, RuleStep, BlockStep, OperatorStep, RunStep, ExecStep

\* Every column of every table keeps its type: no operation of the store writes a
\* status, reason or disposition outside the vocabulary of its column.
THEOREM TypeCorrect == Spec => []TypeOK
  BY InitType, StepType, PTL DEF Spec

-----------------------------------------------------------------------------
(* Effects, runs, leases and gaps.                                         *)

\* A run that is running belongs to an effect that has not completed.
Unfinished ==
    \A r \in Runs : run[r] = "running" => effect[RunEffect[r]] # "completed"

Backing ==
    /\ AtMostOneRunningRun
    /\ RunningIsBacked
    /\ OrphanedRunBlocksRedispatch
    /\ Unfinished

\* A run was dispatched when its row was written, for an effect that has a row.
Dispatched ==
    \A r \in Runs : /\ Started(r) <=> target[r] # "idle"
                    /\ Started(r) => effect[RunEffect[r]] # "absent"

\* Absence, admission and execution are recorded only when they are so.
Truthful ==
    \A r \in Runs :
        /\ attempt[r].disposition \in {"not_applied", "not_dispatched"}
              => target[r] = "missed"
        /\ proof[r] = "not_admitted" => target[r] = "missed"
        /\ proof[r] # "none" => target[r] \in {"applied", "missed"}
        /\ outcome[r] = "not_executed" => proof[r] = "not_admitted"
        /\ attempt[r].observed => IsExec(r)

Knowledge == Dispatched /\ Truthful

Answered(x) == attempt[x].observed \/ target[x] = "missed"

Closed(x) ==
    \/ target[x] \in {"applied", "missed"}
    \/ IsExec(x) /\ x \notin tracked /\ attempt[x].observed /\ run[x] # "running"

\* An effect waiting to be claimed has no tracked run without its closure.
PendingIsClosed ==
    \A r \in Runs : Started(r) /\ Pending(RunEffect[r]) /\ r \in tracked
                        => proof[r] # "none"

Succession ==
    /\ PendingIsClosed
    /\ \A r, s \in Runs :
         r # s /\ RunEffect[r] = RunEffect[s] /\ Started(r) /\ Started(s)
            => /\ Answered(r) \/ Answered(s)
               /\ Closed(r) \/ Closed(s)

\* Both ends of every edge have a row.
EdgesHaveRows ==
    \A d \in deps : effect[d.up] # "absent" /\ effect[d.down] # "absent"

\* Agents running, as a set the provers can count.
AgentsRunning == {a \in AgentEffects : effect[a] = "running"}

CapacityInv == IsFiniteSet(AgentsRunning) /\ Cardinality(AgentsRunning) <= Capacity

-----------------------------------------------------------------------------
(* What the operations do to the rows of effects and runs.                 *)

\* Releasing dependents only turns blocked_by_dependency into queued.
LEMMA DependentsReleased ==
    ASSUME NEW status \in [Effects -> EffectStatuses]
    PROVE  \A e \in Effects :
             \/ SatisfyDependencies(status)[e] = status[e]
             \/ /\ status[e] = "blocked_by_dependency"
                /\ SatisfyDependencies(status)[e] = "queued"
  BY DEF SatisfyDependencies

\* A block moves an effect that waits from one waiting status to another.
Blocked(e, s) ==
    /\ Pending(e)
    /\ s \in PendingEffectStatuses
    /\ effect' = [effect EXCEPT ![e] = s]
    /\ UNCHANGED <<run, lease, gap>>

FinalRunStatuses == RunStatuses \ {"absent", "running"}

\* Everyone's steps but the due-time pass's expire_effect.
Unexpiring ==
    \/ RuleStep
    \/ \E e \in Effects : BlockStep(e) \/ OperatorStep(e)
    \/ \E r \in Runs : RunStep(r) \/ ExecStep(r)
    \/ ExpireLeases
    \/ Tick
    \/ UNCHANGED vars

\* Such a step leaves the rows alone, or is one of eight that do not.
LEMMA UnexpiringRowSteps ==
    ASSUME TypeOK, Unexpiring
    PROVE  \/ UNCHANGED <<effect, run, lease, gap>>
           \/ \E E \in SUBSET Effects :
                \E status \in [E -> AdmitStatuses], D \in SUBSET Dependency,
                   o \in RuleTerminals \cup {"running"} : CommitRule(E, status, D, o)
           \/ \E policy \in {"keep", "queued", "request_running"} : ActivateRevision(policy)
           \/ \E e \in Effects, s \in PendingEffectStatuses : Blocked(e, s)
           \/ \E r \in Runs : StartRun(r)
           \/ \E r \in Runs, s \in FinalRunStatuses, t \in TerminalEffectStatuses :
                SettleRun(r, s, t)
           \/ \E e \in Effects : CancelEffect(e)
           \/ \E e \in Effects : RetryEffect(e)
           \/ ExpireLeases
  <1> DEFINE Quiet == UNCHANGED <<effect, run, lease, gap>>
  <1>1. ASSUME RuleStep
        PROVE  \/ Quiet
               \/ \E E \in SUBSET Effects :
                    \E status \in [E -> AdmitStatuses], D \in SUBSET Dependency,
                       o \in RuleTerminals \cup {"running"} : CommitRule(E, status, D, o)
               \/ \E policy \in {"keep", "queued", "request_running"} :
                    ActivateRevision(policy)
    BY <1>1 DEF RuleStep, TransitionInstance, effectVars, runVars, ledgerVars
  <1>2. ASSUME NEW e \in Effects, BlockStep(e)
        PROVE  Quiet \/ \E s \in PendingEffectStatuses : Blocked(e, s)
    <2>1. CASE \E s \in PolicyBlocks : PolicyBlock(e, s)
      BY <2>1, StatusAssumption
         DEF PolicyBlock, Blocked, PendingEffectStatuses, runVars, ledgerVars
    <2>2. CASE CapacityBlock(e)
      BY <2>2 DEF CapacityBlock, Blocked, PendingEffectStatuses, runVars, ledgerVars
    <2>3. CASE \E s \in WorkerBlocks, c \in Categories : BlockEffect(e, s, c)
      <3>1. PICK s \in WorkerBlocks, c \in Categories : BlockEffect(e, s, c)
        BY <2>3
      <3>2. s \in PendingEffectStatuses
        BY StatusAssumption DEF PendingEffectStatuses
      <3>3. CASE Pending(e)
        BY <3>1, <3>2, <3>3 DEF BlockEffect, Blocked, runVars, ledgerVars
      <3>4. CASE ~Pending(e)
        BY <3>1, <3>4 DEF BlockEffect, runVars, ledgerVars, TypeOK
      <3> QED BY <3>3, <3>4
    <2> QED BY <1>2, <2>1, <2>2, <2>3 DEF BlockStep
  <1>3. ASSUME NEW e \in Effects, OperatorStep(e)
        PROVE  Quiet \/ CancelEffect(e) \/ RetryEffect(e)
    BY <1>3 DEF OperatorStep, RequestCancellation, runVars, ledgerVars
  <1>4. ASSUME NEW r \in Runs, RunStep(r)
        PROVE  \/ Quiet
               \/ StartRun(r)
               \/ \E s \in FinalRunStatuses, t \in TerminalEffectStatuses : SettleRun(r, s, t)
    <2>1. CASE \E status \in TerminalEffectStatuses : CompleteEffect(r, status)
      BY <2>1 DEF CompleteEffect, FinalRunStatuses, RunStatuses, TerminalEffectStatuses
    <2>2. CASE ResolveEffectUncertain(r)
      BY <2>2 DEF ResolveEffectUncertain, FinalRunStatuses, RunStatuses,
         TerminalEffectStatuses
    <2>3. CASE RenewLease(r) \/ TargetStep(r)
                 \/ \E d \in Evidence : RecordReconciliation(r, d)
      BY <2>3 DEF RenewLease, TargetStep, RecordReconciliation, effectVars, runVars,
         ledgerVars
    <2> QED BY <1>4, <2>1, <2>2, <2>3 DEF RunStep
  <1>5. ASSUME NEW r \in Runs, ExecStep(r)
        PROVE  Quiet
    BY <1>5 DEF ExecStep, TrackExec, EnsureFence, RetainProof, RetainOutcome,
       RecordProvedAbsence, RetainSettlement, effectVars, runVars, ledgerVars
  <1>6. ASSUME Tick \/ UNCHANGED vars
        PROVE  Quiet
    BY <1>6 DEF Tick, vars, effectVars, runVars, ledgerVars
  <1> HIDE DEF Quiet
  <1>7. \/ Quiet
        \/ RuleStep
        \/ \E e \in Effects : BlockStep(e) \/ OperatorStep(e)
        \/ \E r \in Runs : RunStep(r) \/ ExecStep(r)
        \/ ExpireLeases
    BY <1>6 DEF Unexpiring
  <1> QED BY <1>1, <1>2, <1>3, <1>4, <1>5, <1>7 DEF Quiet

\* Every step leaves the rows alone, or is one of nine that do not.
LEMMA RowSteps ==
    ASSUME TypeOK, [Next]_vars
    PROVE  \/ UNCHANGED <<effect, run, lease, gap>>
           \/ \E E \in SUBSET Effects :
                \E status \in [E -> AdmitStatuses], D \in SUBSET Dependency,
                   o \in RuleTerminals \cup {"running"} : CommitRule(E, status, D, o)
           \/ \E policy \in {"keep", "queued", "request_running"} : ActivateRevision(policy)
           \/ \E e \in Effects, s \in PendingEffectStatuses : Blocked(e, s)
           \/ \E r \in Runs : StartRun(r)
           \/ \E r \in Runs, s \in FinalRunStatuses, t \in TerminalEffectStatuses :
                SettleRun(r, s, t)
           \/ \E e \in Effects : ExpireEffect(e)
           \/ \E e \in Effects : CancelEffect(e)
           \/ \E e \in Effects : RetryEffect(e)
           \/ ExpireLeases
  <1>1. Unexpiring \/ \E e \in Effects : ExpireEffect(e)
    BY DEF Next, Unexpiring
  <1> QED BY <1>1, UnexpiringRowSteps

-----------------------------------------------------------------------------
(* First layer: effects, runs, leases and gaps.                            *)

\* An instance without effects satisfies Backing.
LEMMA InitBacking == Init => Backing
  BY RunEffectAssumption DEF Init, Backing, AtMostOneRunningRun, RunningIsBacked,
     OrphanedRunBlocksRedispatch, Unfinished, RunningRuns, RunsOf

\* Every store transaction keeps effects, runs, leases and gaps in agreement:
\* only start_run makes a run running, and it asks for proved absence first.
LEMMA StepBacking == TypeOK /\ Backing /\ [Next]_vars => Backing'
  <1> SUFFICES ASSUME TypeOK, Backing, [Next]_vars PROVE Backing'
    OBVIOUS
  <1> USE DEF Backing, AtMostOneRunningRun, RunningIsBacked, OrphanedRunBlocksRedispatch,
          Unfinished, RunningRuns, RunsOf, Terminal, TerminalEffectStatuses
  <1> USE RunEffectAssumption DEF TypeOK
  <1>1. CASE UNCHANGED <<effect, run, lease, gap>>
    BY <1>1 DEF IsExec
  <1>2. ASSUME NEW E \in SUBSET Effects, NEW status \in [E -> AdmitStatuses],
               NEW D \in SUBSET Dependency, NEW o, CommitRule(E, status, D, o)
        PROVE  Backing'
    BY <1>2, StatusAssumption DEF CommitRule, runVars, ledgerVars, IsExec
  <1>3. ASSUME NEW policy, ActivateRevision(policy)
        PROVE  Backing'
    <2> DEFINE cancelled == {e \in Effects : policy # "keep" /\ Pending(e)}
               mid == [e \in Effects |-> IF e \in cancelled THEN "cancelled" ELSE effect[e]]
    <2>1. mid \in [Effects -> EffectStatuses]
      BY DEF EffectStatuses
    <2>2. \A e \in Effects : \/ effect'[e] = mid[e]
                             \/ mid[e] = "blocked_by_dependency" /\ effect'[e] = "queued"
      BY <1>3, <2>1, DependentsReleased DEF ActivateRevision
    <2>3. gap' = gap \cup cancelled /\ UNCHANGED <<run, lease>>
      BY <1>3 DEF ActivateRevision, runVars
    <2>4. \A e \in Effects :
            /\ effect[e] \in TerminalEffectStatuses \cup {"running"} => effect'[e] = effect[e]
            /\ effect'[e] \in {"running", "completed"} => effect'[e] = effect[e]
            /\ e \in cancelled => effect'[e] = "cancelled"
      BY <2>2 DEF Pending, PendingEffectStatuses
    <2> QED BY <2>3, <2>4 DEF IsExec
  <1>4. ASSUME NEW e \in Effects, NEW s \in PendingEffectStatuses, Blocked(e, s)
        PROVE  Backing'
    BY <1>4 DEF Blocked, Pending, PendingEffectStatuses, IsExec
  <1>5. ASSUME NEW r \in Runs, StartRun(r)
        PROVE  Backing'
    <2>1. \A s \in Runs : RunEffect[s] = RunEffect[r] => run[s] # "running"
      BY <1>5 DEF StartRun, Startable, Pending, PendingEffectStatuses
    <2> QED BY <1>5, <2>1 DEF StartRun, Startable, Pending, PendingEffectStatuses, IsExec
  <1>6. ASSUME NEW r \in Runs, NEW s \in FinalRunStatuses,
               NEW t \in TerminalEffectStatuses, SettleRun(r, s, t)
        PROVE  Backing'
    <2>1. [effect EXCEPT ![RunEffect[r]] = t] \in [Effects -> EffectStatuses]
      BY DEF EffectStatuses
    <2>2. \A e \in Effects :
            LET mid == [effect EXCEPT ![RunEffect[r]] = t]
            IN  \/ effect'[e] = mid[e]
                \/ mid[e] = "blocked_by_dependency" /\ effect'[e] = "queued"
      BY <1>6, <2>1, DependentsReleased DEF SettleRun, Settleable
    <2>3. /\ effect'[RunEffect[r]] = t
          /\ \A e \in Effects : e # RunEffect[r] =>
               /\ effect[e] \in TerminalEffectStatuses \cup {"running"}
                     => effect'[e] = effect[e]
               /\ effect'[e] \in {"running", "completed"} => effect'[e] = effect[e]
      BY <2>2
    <2>4. /\ run[r] = "running"
          /\ run' = [run EXCEPT ![r] = s]
          /\ lease' = [lease EXCEPT ![r] = Released(lease[r])]
          /\ gap' = gap
          /\ s # "running"
      BY <1>6 DEF SettleRun, Settleable, ledgerVars, FinalRunStatuses
    <2>5. Released(lease[r]) # "active"
      BY DEF Released
    <2>6. \A x \in Runs : run'[x] = "running" => RunEffect[x] # RunEffect[r]
      BY <2>4
    <2> QED BY <2>3, <2>4, <2>5, <2>6 DEF IsExec
  <1>7. ASSUME NEW e \in Effects, ExpireEffect(e)
        PROVE  Backing'
    BY <1>7 DEF ExpireEffect, Unsettled, runVars, IsExec
  <1>8. ASSUME NEW e \in Effects, CancelEffect(e)
        PROVE  Backing'
    <2>1. [effect EXCEPT ![e] = "cancelled"] \in [Effects -> EffectStatuses]
      BY DEF EffectStatuses
    <2>2. \A x \in Effects :
            LET mid == [effect EXCEPT ![e] = "cancelled"]
            IN  \/ effect'[x] = mid[x]
                \/ mid[x] = "blocked_by_dependency" /\ effect'[x] = "queued"
      BY <1>8, <2>1, DependentsReleased DEF CancelEffect
    <2>3. /\ effect'[e] = "cancelled"
          /\ \A x \in Effects : x # e =>
               /\ effect[x] \in TerminalEffectStatuses \cup {"running"}
                     => effect'[x] = effect[x]
               /\ effect'[x] \in {"running", "completed"} => effect'[x] = effect[x]
      BY <2>2
    <2>4. gap' = gap \cup {e} /\ UNCHANGED <<run, lease>>
      BY <1>8 DEF CancelEffect, runVars
    <2> QED BY <2>3, <2>4 DEF IsExec
  <1>9. ASSUME NEW e \in Effects, RetryEffect(e)
        PROVE  Backing'
    BY <1>9 DEF RetryEffect, ProvedAbsence, RetryableEffectStatuses, runVars, ledgerVars,
       IsExec
  <1>10. CASE ExpireLeases
    <2> DEFINE due    == {r \in Runs : lease[r] = "active" /\ expires[r] <= now}
               failed == {r \in due : ~IsExec(r)}
    <2>1. /\ lease' = [r \in Runs |-> IF r \in due THEN "expired" ELSE lease[r]]
          /\ run' = [r \in Runs |-> IF r \in failed /\ run[r] = "running"
                                   THEN "lease_expired" ELSE run[r]]
          /\ effect' = [e \in Effects |->
                          IF effect[e] = "running" /\ \E r \in failed : RunEffect[r] = e
                          THEN "failed" ELSE effect[e]]
          /\ gap' = gap
      BY <1>10 DEF ExpireLeases, ledgerVars
    <2>2. due \subseteq Runs /\ \A r \in due : lease[r] = "active"
      OBVIOUS
    <2>3. \A r \in Runs : r \in failed <=> r \in due /\ ~IsExec(r)
      OBVIOUS
    <2> HIDE DEF due, failed
    <2>4. \A r \in Runs : /\ run'[r] = "running" <=> run[r] = "running" /\ r \notin failed
                          /\ lease'[r] = "active" <=> lease[r] = "active" /\ r \notin due
      BY <2>1, <2>2
    <2>5. \A e \in Effects :
            /\ effect'[e] = "running"
                  <=> effect[e] = "running" /\ ~ \E r \in failed : RunEffect[r] = e
            /\ effect'[e] = "completed" => effect[e] = "completed"
            /\ Terminal(e) => effect'[e] = effect[e]
      BY <2>1
    <2>6. AtMostOneRunningRun'
      BY <2>4
    <2>7. RunningIsBacked'
      <3>1. \A e \in Effects : effect'[e] = "running" => RunningRuns(e)' # {}
        BY <2>3, <2>4, <2>5
      <3>2. \A r \in Runs : lease'[r] = "active" => run'[r] = "running"
        BY <2>3, <2>4
      <3>3. \A r \in Runs : run'[r] = "running" /\ lease'[r] # "active" => IsExec(r)
        BY <2>2, <2>3, <2>4
      <3> QED BY <3>1, <3>2, <3>3 DEF IsExec
    <2>8. OrphanedRunBlocksRedispatch'
      <3>1. \A r \in Runs : run'[r] = "running"
                => effect'[RunEffect[r]] = "running" \/ RunEffect[r] \in gap'
        <4> SUFFICES ASSUME NEW r \in Runs, run'[r] = "running", RunEffect[r] \notin gap
                     PROVE  effect'[RunEffect[r]] = "running"
          BY <2>1
        <4>1. run[r] = "running" /\ r \notin failed /\ effect[RunEffect[r]] = "running"
          BY <2>4
        <4>2. \A x \in failed : x \in Runs /\ run[x] = "running"
          BY <2>2, <2>3 DEF failed
        <4> QED BY <2>5, <4>1, <4>2
      <3> QED BY <2>1, <2>5, <3>1
    <2>9. Unfinished'
      BY <2>4, <2>5
    <2> QED BY <2>6, <2>7, <2>8, <2>9
  <1> HIDE DEF Backing, TypeOK, TerminalEffectStatuses
  <1> QED
    BY <1>1, <1>2, <1>3, <1>4, <1>5, <1>6, <1>7, <1>8, <1>9, <1>10, RowSteps

-----------------------------------------------------------------------------
(* Second layer: what the records say of a run is true of it.              *)

\* Rows are never deleted, a run's row is written by start_run alone, and a run
\* that has left running never comes back to it.
LEMMA RowsStay ==
    ASSUME TypeOK, [Next]_vars
    PROVE  /\ \A e \in Effects : effect[e] # "absent" => effect'[e] # "absent"
           /\ \A r \in Runs : Started(r) => Started(r)'
           /\ \A r \in Runs : ~Started(r) /\ Started(r)' => StartRun(r)
           /\ \A r \in Runs : Started(r) /\ run'[r] = "running" => run[r] = "running"
  <1> DEFINE Stay == /\ \A e \in Effects : effect[e] # "absent" => effect'[e] # "absent"
                     /\ \A r \in Runs : Started(r) => Started(r)'
                     /\ \A r \in Runs : ~Started(r) /\ Started(r)' => StartRun(r)
                     /\ \A r \in Runs : Started(r) /\ run'[r] = "running"
                                           => run[r] = "running"
  <1> SUFFICES Stay OBVIOUS
  <1>1. CASE UNCHANGED <<effect, run, lease, gap>>
    BY <1>1 DEF Started
  <1>2. ASSUME NEW E \in SUBSET Effects, NEW status \in [E -> AdmitStatuses],
               NEW D \in SUBSET Dependency, NEW o, CommitRule(E, status, D, o)
        PROVE  Stay
    BY <1>2 DEF TypeOK, CommitRule, runVars, Started
  <1>3. ASSUME NEW policy, ActivateRevision(policy)
        PROVE  Stay
    <2> DEFINE cancelled == {e \in Effects : policy # "keep" /\ Pending(e)}
               mid == [e \in Effects |-> IF e \in cancelled THEN "cancelled" ELSE effect[e]]
    <2>1. mid \in [Effects -> EffectStatuses]
      BY DEF EffectStatuses, TerminalEffectStatuses, TypeOK
    <2>2. \A e \in Effects : \/ effect'[e] = mid[e]
                             \/ mid[e] = "blocked_by_dependency" /\ effect'[e] = "queued"
      BY <1>3, <2>1, DependentsReleased DEF ActivateRevision
    <2>3. run' = run
      BY <1>3 DEF ActivateRevision, runVars
    <2> QED BY <2>2, <2>3 DEF Started
  <1>4. ASSUME NEW e \in Effects, NEW s \in PendingEffectStatuses, Blocked(e, s)
        PROVE  Stay
    BY <1>4 DEF TypeOK, Blocked, PendingEffectStatuses, Started
  <1>5. ASSUME NEW r \in Runs, StartRun(r)
        PROVE  Stay
    BY <1>5, RunEffectAssumption DEF TypeOK, StartRun, Startable, Started
  <1>6. ASSUME NEW r \in Runs, NEW s \in FinalRunStatuses,
               NEW t \in TerminalEffectStatuses, SettleRun(r, s, t)
        PROVE  Stay
    <2>1. [effect EXCEPT ![RunEffect[r]] = t] \in [Effects -> EffectStatuses]
      BY RunEffectAssumption DEF TypeOK, EffectStatuses
    <2>2. \A e \in Effects :
            LET mid == [effect EXCEPT ![RunEffect[r]] = t]
            IN  \/ effect'[e] = mid[e]
                \/ mid[e] = "blocked_by_dependency" /\ effect'[e] = "queued"
      BY <1>6, <2>1, DependentsReleased DEF SettleRun, Settleable
    <2>3. \A e \in Effects : effect[e] # "absent" => effect'[e] # "absent"
      BY <2>2, RunEffectAssumption DEF TypeOK, TerminalEffectStatuses
    <2> QED BY <1>6, <2>3 DEF TypeOK, SettleRun, Settleable, FinalRunStatuses, Started
  <1>7. ASSUME NEW e \in Effects, ExpireEffect(e)
        PROVE  Stay
    BY <1>7 DEF TypeOK, ExpireEffect, runVars, Started
  <1>8. ASSUME NEW e \in Effects, CancelEffect(e)
        PROVE  Stay
    <2>1. [effect EXCEPT ![e] = "cancelled"] \in [Effects -> EffectStatuses]
      BY DEF TypeOK, EffectStatuses, TerminalEffectStatuses
    <2>2. \A x \in Effects :
            LET mid == [effect EXCEPT ![e] = "cancelled"]
            IN  \/ effect'[x] = mid[x]
                \/ mid[x] = "blocked_by_dependency" /\ effect'[x] = "queued"
      BY <1>8, <2>1, DependentsReleased DEF CancelEffect
    <2>3. \A x \in Effects : effect[x] # "absent" => effect'[x] # "absent"
      BY <2>2 DEF TypeOK
    <2> QED BY <1>8, <2>3 DEF CancelEffect, runVars, Started
  <1>9. ASSUME NEW e \in Effects, RetryEffect(e)
        PROVE  Stay
    BY <1>9 DEF TypeOK, RetryEffect, runVars, Started
  <1>10. CASE ExpireLeases
    BY <1>10 DEF TypeOK, ExpireLeases, Started
  <1> HIDE DEF Stay
  <1> QED
    BY <1>1, <1>2, <1>3, <1>4, <1>5, <1>6, <1>7, <1>8, <1>9, <1>10, RowSteps

\* Every step leaves the ledger and the custody records alone, or is one of seven.
LEMMA LedgerSteps ==
    ASSUME [Next]_vars
    PROVE  \/ UNCHANGED <<attempt, target, proof, outcome>>
           \/ \E r \in Runs :
                \/ StartRun(r)
                \/ \E lifetime \in Lifetimes : RetainProof(r, lifetime)
                \/ \E state \in Outcomes : RetainOutcome(r, state)
                \/ RecordProvedAbsence(r)
                \/ \E status \in Settlements : RetainSettlement(r, status)
                \/ \E d \in Evidence : RecordReconciliation(r, d)
                \/ TargetStep(r)
  <1> DEFINE Quiet == UNCHANGED <<attempt, target, proof, outcome>>
  <1>1. RuleStep => Quiet
    BY DEF RuleStep, CommitRule, TransitionInstance, ActivateRevision, execVars, ledgerVars
  <1>2. ASSUME NEW e \in Effects, BlockStep(e) \/ OperatorStep(e) \/ ExpireEffect(e)
        PROVE  Quiet
    BY <1>2 DEF BlockStep, PolicyBlock, CapacityBlock, BlockEffect, OperatorStep,
       CancelEffect, RequestCancellation, RetryEffect, ExpireEffect, execVars, ledgerVars
  <1>3. ASSUME NEW r \in Runs, RunStep(r)
        PROVE  \/ Quiet
               \/ StartRun(r)
               \/ \E d \in Evidence : RecordReconciliation(r, d)
               \/ TargetStep(r)
    BY <1>3 DEF RunStep, CompleteEffect, ResolveEffectUncertain, SettleRun, Settleable,
       RenewLease, execVars, ledgerVars
  <1>4. ASSUME NEW r \in Runs, ExecStep(r)
        PROVE  \/ Quiet
               \/ \E lifetime \in Lifetimes : RetainProof(r, lifetime)
               \/ \E state \in Outcomes : RetainOutcome(r, state)
               \/ RecordProvedAbsence(r)
               \/ \E status \in Settlements : RetainSettlement(r, status)
    BY <1>4 DEF ExecStep, TrackExec, EnsureFence, ledgerVars
  <1>5. ExpireLeases \/ Tick \/ UNCHANGED vars => Quiet
    BY DEF ExpireLeases, Tick, vars, execVars, ledgerVars
  <1> HIDE DEF Quiet
  <1>6. \/ Quiet
        \/ \E r \in Runs : RunStep(r) \/ ExecStep(r)
    BY <1>1, <1>2, <1>5 DEF Next
  <1> QED BY <1>3, <1>4, <1>6 DEF Quiet

\* Before the first dispatch the records say nothing that could be false.
LEMMA InitKnowledge == Init => Knowledge
  BY RunEffectAssumption DEF Init, Knowledge, Dispatched, Truthful, Started, NewAttempt

\* Every record the store retains about a run (evidence, closure proof, outcome,
\* settlement) is true of the run's target when it is written and stays true.
LEMMA StepKnowledge == TypeOK /\ Knowledge /\ [Next]_vars => Knowledge'
  <1> SUFFICES ASSUME TypeOK, Knowledge, [Next]_vars PROVE Knowledge'
    OBVIOUS
  <1>1. /\ \A e \in Effects : effect[e] # "absent" => effect'[e] # "absent"
        /\ \A r \in Runs : Started(r) => Started(r)'
        /\ \A r \in Runs : ~Started(r) /\ Started(r)' => StartRun(r)
    BY RowsStay
  <1>2. CASE UNCHANGED <<attempt, target, proof, outcome>>
    <2>1. \A r \in Runs : Started(r)' <=> Started(r)
      BY <1>1, <1>2 DEF StartRun, Startable, TypeOK, Knowledge, Dispatched
    <2> QED BY <1>1, <1>2, <2>1, RunEffectAssumption DEF Knowledge, Dispatched, Truthful,
            IsExec
  <1>3. ASSUME NEW r \in Runs, StartRun(r)
        PROVE  Knowledge'
    <2>1. target[r] = "idle"
      BY <1>3 DEF StartRun, Startable, Knowledge, Dispatched, Started
    <2>2. Dispatched'
      BY <1>1, <1>3, RunEffectAssumption DEF StartRun, Startable, TypeOK, Knowledge,
             Dispatched, Started
    <2>3. Truthful'
      BY <1>3, <2>1 DEF StartRun, Startable, TypeOK, Knowledge, Truthful, NewAttempt,
             execVars, IsExec
    <2> QED BY <2>2, <2>3 DEF Knowledge
  <1>4. ASSUME UNCHANGED <<run, effect>>, Dispatched, target' = target
        PROVE  Dispatched'
    BY <1>4 DEF Dispatched, Started
  <1>5. ASSUME NEW r \in Runs, NEW lifetime \in Lifetimes, RetainProof(r, lifetime)
        PROVE  Knowledge'
    <2>1. Dispatched'
      BY <1>4, <1>5 DEF RetainProof, Knowledge, runVars, effectVars
    <2>2. /\ FoldProof(attempt[r], lifetime).observed = attempt[r].observed
          /\ FoldProof(attempt[r], lifetime).disposition \in {"not_applied", "not_dispatched"}
               => target[r] = "missed"
      BY <1>5 DEF RetainProof, FoldProof, Stated, Knowledge, Truthful
    <2> QED BY <1>5, <2>1, <2>2 DEF RetainProof, TypeOK, Lifetimes, Knowledge, Truthful, IsExec
  <1>6. ASSUME NEW r \in Runs, NEW state \in Outcomes, RetainOutcome(r, state)
        PROVE  Knowledge'
    BY <1>4, <1>6 DEF RetainOutcome, TypeOK, Knowledge, Truthful, IsExec, runVars, effectVars,
       ledgerVars
  <1>7. ASSUME NEW r \in Runs, RecordProvedAbsence(r)
        PROVE  Knowledge'
    <2>1. Dispatched'
      BY <1>4, <1>7 DEF RecordProvedAbsence, Knowledge, runVars, effectVars
    <2>2. target[r] = "missed"
      BY <1>7 DEF RecordProvedAbsence, Knowledge, Truthful
    <2>3. FoldEvidence(attempt[r], "not_applied").observed = attempt[r].observed
      BY DEF FoldEvidence, Stated
    <2> QED BY <1>7, <2>1, <2>2, <2>3 DEF RecordProvedAbsence, TypeOK, Knowledge, Truthful,
            IsExec
  <1>8. ASSUME NEW r \in Runs, NEW status \in Settlements, RetainSettlement(r, status)
        PROVE  Knowledge'
    <2>1. Dispatched'
      BY <1>4, <1>8 DEF RetainSettlement, Knowledge, runVars, effectVars
    <2>2. FoldSettlement(attempt[r], status).disposition = attempt[r].disposition
      BY DEF FoldSettlement
    <2>3. IsExec(r)
      BY <1>8 DEF RetainSettlement
    <2> QED BY <1>8, <2>1, <2>2, <2>3 DEF RetainSettlement, TypeOK, Knowledge, Truthful, IsExec
  <1>9. ASSUME NEW r \in Runs, NEW d \in Evidence, RecordReconciliation(r, d)
        PROVE  Knowledge'
    <2>1. Dispatched'
      BY <1>4, <1>9 DEF RecordReconciliation, Knowledge, runVars, effectVars
    <2>2. /\ FoldEvidence(attempt[r], d).observed = attempt[r].observed
          /\ FoldEvidence(attempt[r], d).disposition \in {"not_applied", "not_dispatched"}
               => target[r] = "missed"
      BY <1>9, StatusAssumption DEF RecordReconciliation, FoldEvidence, Stated, Knowledge,
         Truthful, EvidenceDispositions
    <2> QED BY <1>9, <2>1, <2>2 DEF RecordReconciliation, TypeOK, Knowledge, Truthful, IsExec,
            execVars
  <1>10. ASSUME NEW r \in Runs, TargetStep(r)
         PROVE  Knowledge'
    BY <1>10 DEF TargetStep, TypeOK, Knowledge, Dispatched, Truthful, Started, IsExec,
       effectVars, runVars, execVars, ledgerVars
  <1> QED
    BY <1>2, <1>3, <1>5, <1>6, <1>7, <1>8, <1>9, <1>10, LedgerSteps

-----------------------------------------------------------------------------
(* Third layer: a run is answered for and closed before the next one.      *)

\* An effect comes to wait by being inserted, or by retry_effect.
LEMMA BecomesPending ==
    ASSUME TypeOK, [Next]_vars
    PROVE  \A e \in Effects : Pending(e)'
                    => Pending(e) \/ effect[e] = "absent" \/ RetryEffect(e)
  <1> DEFINE Goal == \A e \in Effects :
                        Pending(e)' => Pending(e) \/ effect[e] = "absent" \/ RetryEffect(e)
  <1> SUFFICES Goal OBVIOUS
  <1> USE DEF Pending, PendingEffectStatuses
  <1>1. CASE UNCHANGED <<effect, run, lease, gap>>
    BY <1>1
  <1>2. ASSUME NEW E \in SUBSET Effects, NEW status \in [E -> AdmitStatuses],
               NEW D \in SUBSET Dependency, NEW o, CommitRule(E, status, D, o)
        PROVE  Goal
    BY <1>2 DEF TypeOK, CommitRule
  <1>3. ASSUME NEW policy, ActivateRevision(policy)
        PROVE  Goal
    <2> DEFINE cancelled == {e \in Effects : policy # "keep" /\ Pending(e)}
               mid == [e \in Effects |-> IF e \in cancelled THEN "cancelled" ELSE effect[e]]
    <2>1. mid \in [Effects -> EffectStatuses]
      BY DEF EffectStatuses, TerminalEffectStatuses, TypeOK
    <2>2. \A e \in Effects : \/ effect'[e] = mid[e]
                             \/ mid[e] = "blocked_by_dependency" /\ effect'[e] = "queued"
      BY <1>3, <2>1, DependentsReleased DEF ActivateRevision
    <2> QED BY <2>2
  <1>4. ASSUME NEW e \in Effects, NEW s \in PendingEffectStatuses, Blocked(e, s)
        PROVE  Goal
    BY <1>4 DEF TypeOK, Blocked
  <1>5. ASSUME NEW r \in Runs, StartRun(r)
        PROVE  Goal
    BY <1>5, RunEffectAssumption DEF TypeOK, StartRun, Startable
  <1>6. ASSUME NEW r \in Runs, NEW s \in FinalRunStatuses,
               NEW t \in TerminalEffectStatuses, SettleRun(r, s, t)
        PROVE  Goal
    <2>1. [effect EXCEPT ![RunEffect[r]] = t] \in [Effects -> EffectStatuses]
      BY RunEffectAssumption DEF TypeOK, EffectStatuses
    <2>2. \A e \in Effects :
            LET mid == [effect EXCEPT ![RunEffect[r]] = t]
            IN  \/ effect'[e] = mid[e]
                \/ mid[e] = "blocked_by_dependency" /\ effect'[e] = "queued"
      BY <1>6, <2>1, DependentsReleased DEF SettleRun, Settleable
    <2> QED BY <2>2, RunEffectAssumption DEF TypeOK, TerminalEffectStatuses
  <1>7. ASSUME NEW e \in Effects, ExpireEffect(e)
        PROVE  Goal
    BY <1>7 DEF TypeOK, ExpireEffect
  <1>8. ASSUME NEW e \in Effects, CancelEffect(e)
        PROVE  Goal
    <2>1. [effect EXCEPT ![e] = "cancelled"] \in [Effects -> EffectStatuses]
      BY DEF TypeOK, EffectStatuses, TerminalEffectStatuses
    <2>2. \A x \in Effects :
            LET mid == [effect EXCEPT ![e] = "cancelled"]
            IN  \/ effect'[x] = mid[x]
                \/ mid[x] = "blocked_by_dependency" /\ effect'[x] = "queued"
      BY <1>8, <2>1, DependentsReleased DEF CancelEffect
    <2> QED BY <2>2 DEF TypeOK
  <1>9. ASSUME NEW e \in Effects, RetryEffect(e)
        PROVE  Goal
    BY <1>9 DEF TypeOK, RetryEffect
  <1>10. CASE ExpireLeases
    BY <1>10 DEF TypeOK, ExpireLeases
  <1> HIDE DEF Goal
  <1> QED
    BY <1>1, <1>2, <1>3, <1>4, <1>5, <1>6, <1>7, <1>8, <1>9, <1>10, RowSteps

\* Runs are tracked one at a time, by track_exec_lifetime.
LEMMA TrackSteps ==
    ASSUME [Next]_vars
    PROVE  tracked' = tracked \/ \E r \in Runs : TrackExec(r)
  <1>1. RuleStep => tracked' = tracked
    BY DEF RuleStep, CommitRule, TransitionInstance, ActivateRevision, execVars
  <1>2. ASSUME NEW e \in Effects, BlockStep(e) \/ OperatorStep(e) \/ ExpireEffect(e)
        PROVE  tracked' = tracked
    BY <1>2 DEF BlockStep, PolicyBlock, CapacityBlock, BlockEffect, OperatorStep,
       CancelEffect, RequestCancellation, RetryEffect, ExpireEffect, execVars
  <1>3. ASSUME NEW r \in Runs, RunStep(r)
        PROVE  tracked' = tracked
    BY <1>3 DEF RunStep, StartRun, Startable, CompleteEffect, ResolveEffectUncertain,
       SettleRun, Settleable, RenewLease, TargetStep, RecordReconciliation, execVars
  <1>4. ASSUME NEW r \in Runs, ExecStep(r)
        PROVE  tracked' = tracked \/ TrackExec(r)
    BY <1>4 DEF ExecStep, EnsureFence, RetainProof, RetainOutcome, RecordProvedAbsence,
       RetainSettlement
  <1>5. ExpireLeases \/ Tick \/ UNCHANGED vars => tracked' = tracked
    BY DEF ExpireLeases, Tick, vars, execVars
  <1> QED BY <1>1, <1>2, <1>3, <1>4, <1>5 DEF Next

\* Closures, answers and ends are never taken back from a run that has started.
LEMMA RecordsStay ==
    ASSUME TypeOK, Knowledge, [Next]_vars
    PROVE  \A x \in Runs : Started(x) =>
             /\ proof[x] # "none" => proof'[x] # "none"
             /\ target[x] \in {"applied", "missed"} => target'[x] = target[x]
             /\ attempt[x].observed => attempt'[x].observed
  <1> DEFINE Stay == \A x \in Runs : Started(x) =>
                       /\ proof[x] # "none" => proof'[x] # "none"
                       /\ target[x] \in {"applied", "missed"} => target'[x] = target[x]
                       /\ attempt[x].observed => attempt'[x].observed
  <1> SUFFICES Stay OBVIOUS
  <1>1. CASE UNCHANGED <<attempt, target, proof, outcome>>
    BY <1>1
  <1>2. ASSUME NEW r \in Runs, StartRun(r)
        PROVE  Stay
    BY <1>2 DEF StartRun, Startable, TypeOK, Started, execVars
  <1>3. ASSUME NEW r \in Runs, NEW lifetime \in Lifetimes, RetainProof(r, lifetime)
        PROVE  Stay
    <2>1. FoldProof(attempt[r], lifetime).observed = attempt[r].observed
      BY DEF FoldProof, Stated
    <2> QED BY <1>3, <2>1 DEF RetainProof, TypeOK, Lifetimes
  <1>4. ASSUME NEW r \in Runs, NEW state \in Outcomes, RetainOutcome(r, state)
        PROVE  Stay
    BY <1>4 DEF RetainOutcome, ledgerVars
  <1>5. ASSUME NEW r \in Runs, RecordProvedAbsence(r)
        PROVE  Stay
    <2>1. FoldEvidence(attempt[r], "not_applied").observed = attempt[r].observed
      BY DEF FoldEvidence, Stated
    <2> QED BY <1>5, <2>1 DEF RecordProvedAbsence, TypeOK
  <1>6. ASSUME NEW r \in Runs, NEW status \in Settlements, RetainSettlement(r, status)
        PROVE  Stay
    <2>1. attempt[r].observed => FoldSettlement(attempt[r], status).observed
      BY DEF FoldSettlement
    <2> QED BY <1>6, <2>1 DEF RetainSettlement, TypeOK
  <1>7. ASSUME NEW r \in Runs, NEW d \in Evidence, RecordReconciliation(r, d)
        PROVE  Stay
    <2>1. FoldEvidence(attempt[r], d).observed = attempt[r].observed
      BY DEF FoldEvidence, Stated
    <2> QED BY <1>7, <2>1 DEF RecordReconciliation, TypeOK, execVars
  <1>8. ASSUME NEW r \in Runs, TargetStep(r)
        PROVE  Stay
    BY <1>8 DEF TargetStep, TypeOK, execVars, ledgerVars
  <1> HIDE DEF Stay
  <1> QED BY <1>1, <1>2, <1>3, <1>4, <1>5, <1>6, <1>7, <1>8, LedgerSteps

\* Without runs there are no two runs of one effect.
LEMMA InitSuccession == Init => Succession
  BY DEF Init, Succession, PendingIsClosed, Started

\* start_run adds a second run of an effect only after every earlier one was
\* answered for and closed; no later record takes either back.
LEMMA StepSuccession ==
    TypeOK /\ Backing /\ Knowledge /\ Succession /\ [Next]_vars => Succession'
  <1> SUFFICES ASSUME TypeOK, Backing, Knowledge, Succession, [Next]_vars
               PROVE  Succession'
    OBVIOUS
  <1>1. /\ \A r \in Runs : Started(r) => Started(r)'
        /\ \A r \in Runs : ~Started(r) /\ Started(r)' => StartRun(r)
        /\ \A r \in Runs : Started(r) /\ run'[r] = "running" => run[r] = "running"
    BY RowsStay
  <1>2. \A x \in Runs : Started(x) =>
             /\ proof[x] # "none" => proof'[x] # "none"
             /\ target[x] \in {"applied", "missed"} => target'[x] = target[x]
             /\ attempt[x].observed => attempt'[x].observed
    BY RecordsStay
  <1>3. PendingIsClosed'
    <2> SUFFICES ASSUME NEW r \in Runs, Started(r)', Pending(RunEffect[r])', r \in tracked'
                 PROVE  proof'[r] # "none"
      BY DEF PendingIsClosed
    <2>1. RunEffect[r] \in Effects
      BY RunEffectAssumption
    <2>2. Started(r)
      <3> SUFFICES ASSUME StartRun(r) PROVE FALSE
        BY <1>1
      <3> QED BY <2>1 DEF StartRun, Startable, TypeOK, Pending, PendingEffectStatuses
    <2>3. r \in tracked
      <3> SUFFICES ASSUME TrackExec(r) PROVE FALSE
        BY TrackSteps DEF TrackExec
      <3> QED BY DEF TrackExec, effectVars, Pending, PendingEffectStatuses
    <2>4. effect[RunEffect[r]] # "absent"
      BY <2>2 DEF Knowledge, Dispatched
    <2>5. CASE Pending(RunEffect[r])
      BY <1>2, <2>2, <2>3, <2>5 DEF Succession, PendingIsClosed
    <2>6. CASE RetryEffect(RunEffect[r])
      BY <2>1, <2>3, <2>6 DEF RetryEffect, RetryClosure, RunsOf, execVars
    <2> QED BY <2>1, <2>4, <2>5, <2>6, BecomesPending
  <1>4. \A x \in Runs : Started(x) => /\ (Answered(x) => Answered(x)')
                                      /\ (Closed(x) => Closed(x)')
    <2> SUFFICES ASSUME NEW x \in Runs, Started(x)
                 PROVE  (Answered(x) => Answered(x)') /\ (Closed(x) => Closed(x)')
      OBVIOUS
    <2>1. Answered(x) => Answered(x)'
      BY <1>2 DEF Answered
    <2>2. ASSUME IsExec(x), x \notin tracked, attempt[x].observed, run[x] # "running"
          PROVE  Closed(x)'
      <3>1. x \notin tracked'
        BY <2>2, TrackSteps DEF TrackExec
      <3> QED BY <1>1, <1>2, <2>2, <3>1 DEF Closed, IsExec
    <2>3. target[x] \in {"applied", "missed"} => Closed(x)'
      BY <1>2 DEF Closed
    <2> QED BY <2>1, <2>2, <2>3 DEF Closed
  <1>5. ASSUME NEW r \in Runs, NEW s \in Runs, StartRun(r), Started(s), r # s,
               RunEffect[r] = RunEffect[s]
        PROVE  Answered(s) /\ Closed(s)
    <2>1. ProvedAbsent(attempt[s])
      BY <1>5, RunEffectAssumption DEF StartRun, Startable, ProvedAbsence, RunsOf
    <2>2. target[s] = "missed" \/ attempt[s].observed
      BY <2>1 DEF ProvedAbsent, Knowledge, Truthful
    <2>3. run[s] # "running"
      BY <1>5, RunEffectAssumption DEF Backing, OrphanedRunBlocksRedispatch, Terminal,
         StartRun, Startable, Pending, PendingEffectStatuses, TerminalEffectStatuses
    <2>4. s \in tracked => target[s] \in {"applied", "missed"}
      BY <1>5 DEF Succession, PendingIsClosed, StartRun, Startable, Knowledge, Truthful
    <2>5. attempt[s].observed => IsExec(s)
      BY DEF Knowledge, Truthful
    <2> QED BY <2>2, <2>3, <2>4, <2>5 DEF Answered, Closed
  <1>6. ASSUME NEW r \in Runs, NEW s \in Runs, r # s, RunEffect[r] = RunEffect[s],
               Started(r)', Started(s)'
        PROVE  (Answered(r) \/ Answered(s))' /\ (Closed(r) \/ Closed(s))'
    <2>1. CASE Started(r) /\ Started(s)
      BY <1>4, <1>6, <2>1 DEF Succession
    <2>2. CASE ~Started(r)
      <3>1. StartRun(r)
        BY <1>1, <1>6, <2>2
      <3>2. Started(s)
        BY <1>6, <3>1 DEF StartRun, Startable, TypeOK, Started
      <3> QED BY <1>4, <1>5, <1>6, <3>1, <3>2
    <2>3. CASE ~Started(s)
      <3>1. StartRun(s)
        BY <1>1, <1>6, <2>3
      <3>2. Started(r)
        BY <1>6, <3>1 DEF StartRun, Startable, TypeOK, Started
      <3> QED BY <1>4, <1>5, <1>6, <3>1, <3>2
    <2> QED BY <2>1, <2>2, <2>3
  <1> QED BY <1>3, <1>6 DEF Succession

-----------------------------------------------------------------------------
(* Dependencies, fences and capacity.                                      *)

\* Only start_run makes an effect running, and no step takes completed back.
LEMMA EffectMoves ==
    ASSUME TypeOK, Backing, [Next]_vars
    PROVE  \A e \in Effects :
             /\ effect[e] = "completed" => effect'[e] = "completed"
             /\ effect'[e] = "running" /\ effect[e] # "running"
                   => \E r \in Runs : StartRun(r) /\ RunEffect[r] = e
  <1> DEFINE Goal == \A e \in Effects :
                       /\ effect[e] = "completed" => effect'[e] = "completed"
                       /\ effect'[e] = "running" /\ effect[e] # "running"
                             => \E r \in Runs : StartRun(r) /\ RunEffect[r] = e
  <1> SUFFICES Goal OBVIOUS
  <1>1. CASE UNCHANGED <<effect, run, lease, gap>>
    BY <1>1
  <1>2. ASSUME NEW E \in SUBSET Effects, NEW status \in [E -> AdmitStatuses],
               NEW D \in SUBSET Dependency, NEW o, CommitRule(E, status, D, o)
        PROVE  Goal
    BY <1>2, StatusAssumption DEF TypeOK, CommitRule
  <1>3. ASSUME NEW policy, ActivateRevision(policy)
        PROVE  Goal
    <2> DEFINE cancelled == {e \in Effects : policy # "keep" /\ Pending(e)}
               mid == [e \in Effects |-> IF e \in cancelled THEN "cancelled" ELSE effect[e]]
    <2>1. mid \in [Effects -> EffectStatuses]
      BY DEF EffectStatuses, TerminalEffectStatuses, TypeOK
    <2>2. \A e \in Effects : \/ effect'[e] = mid[e]
                             \/ mid[e] = "blocked_by_dependency" /\ effect'[e] = "queued"
      BY <1>3, <2>1, DependentsReleased DEF ActivateRevision
    <2> QED BY <2>2 DEF Pending, PendingEffectStatuses
  <1>4. ASSUME NEW e \in Effects, NEW s \in PendingEffectStatuses, Blocked(e, s)
        PROVE  Goal
    BY <1>4 DEF TypeOK, Blocked, Pending, PendingEffectStatuses
  <1>5. ASSUME NEW r \in Runs, StartRun(r)
        PROVE  Goal
    BY <1>5, RunEffectAssumption DEF TypeOK, StartRun, Startable, Pending,
           PendingEffectStatuses
  <1>6. ASSUME NEW r \in Runs, NEW s \in FinalRunStatuses,
               NEW t \in TerminalEffectStatuses, SettleRun(r, s, t)
        PROVE  Goal
    <2>1. [effect EXCEPT ![RunEffect[r]] = t] \in [Effects -> EffectStatuses]
      BY RunEffectAssumption DEF TypeOK, EffectStatuses
    <2>2. \A e \in Effects :
            LET mid == [effect EXCEPT ![RunEffect[r]] = t]
            IN  \/ effect'[e] = mid[e]
                \/ mid[e] = "blocked_by_dependency" /\ effect'[e] = "queued"
      BY <1>6, <2>1, DependentsReleased DEF SettleRun, Settleable
    <2>3. effect[RunEffect[r]] # "completed"
      BY <1>6 DEF SettleRun, Settleable, Backing, Unfinished
    <2> QED BY <2>2, <2>3, RunEffectAssumption DEF TypeOK, TerminalEffectStatuses
  <1>7. ASSUME NEW e \in Effects, ExpireEffect(e)
        PROVE  Goal
    BY <1>7 DEF TypeOK, ExpireEffect, Unsettled, TerminalEffectStatuses
  <1>8. ASSUME NEW e \in Effects, CancelEffect(e)
        PROVE  Goal
    <2>1. [effect EXCEPT ![e] = "cancelled"] \in [Effects -> EffectStatuses]
      BY DEF TypeOK, EffectStatuses, TerminalEffectStatuses
    <2>2. \A x \in Effects :
            LET mid == [effect EXCEPT ![e] = "cancelled"]
            IN  \/ effect'[x] = mid[x]
                \/ mid[x] = "blocked_by_dependency" /\ effect'[x] = "queued"
      BY <1>8, <2>1, DependentsReleased DEF CancelEffect
    <2> QED BY <1>8, <2>2 DEF TypeOK, CancelEffect, Unsettled, TerminalEffectStatuses
  <1>9. ASSUME NEW e \in Effects, RetryEffect(e)
        PROVE  Goal
    BY <1>9 DEF TypeOK, RetryEffect, RetryableEffectStatuses
  <1>10. CASE ExpireLeases
    BY <1>10 DEF TypeOK, ExpireLeases
  <1> HIDE DEF Goal
  <1> QED
    BY <1>1, <1>2, <1>3, <1>4, <1>5, <1>6, <1>7, <1>8, <1>9, <1>10, RowSteps

\* Only a rule commit adds edges, and it names effects that have rows by then.
LEMMA EdgeSteps ==
    ASSUME TypeOK, [Next]_vars
    PROVE  \A d \in deps' : \/ d \in deps
                            \/ /\ effect[d.down] = "absent"
                               /\ effect'[d.down] # "absent"
                               /\ effect'[d.up] # "absent"
                               /\ run' = run
  <1>1. ASSUME NEW E \in SUBSET Effects, NEW status \in [E -> AdmitStatuses],
               NEW D \in SUBSET Dependency, NEW o, CommitRule(E, status, D, o),
               NEW d \in deps', d \notin deps
        PROVE  /\ effect[d.down] = "absent"
               /\ effect'[d.down] # "absent"
               /\ effect'[d.up] # "absent"
               /\ run' = run
    <2>1. d \in D /\ d.up \in Effects /\ d.down \in E
      BY <1>1, DependencyAssumption DEF CommitRule
    <2> QED BY <1>1, <2>1, StatusAssumption DEF CommitRule, TypeOK, runVars
  <1>2. ASSUME RuleStep
        PROVE  \/ deps' = deps
               \/ \E E \in SUBSET Effects :
                    \E status \in [E -> AdmitStatuses], D \in SUBSET Dependency,
                       o \in RuleTerminals \cup {"running"} : CommitRule(E, status, D, o)
    BY <1>2 DEF RuleStep, TransitionInstance, ActivateRevision, effectVars
  <1>3. ASSUME NEW e \in Effects, BlockStep(e) \/ OperatorStep(e) \/ ExpireEffect(e)
        PROVE  deps' = deps
    BY <1>3 DEF BlockStep, PolicyBlock, CapacityBlock, BlockEffect, OperatorStep,
       CancelEffect, RequestCancellation, RetryEffect, ExpireEffect
  <1>4. ASSUME NEW r \in Runs, RunStep(r) \/ ExecStep(r)
        PROVE  deps' = deps
    BY <1>4 DEF RunStep, StartRun, Startable, CompleteEffect, ResolveEffectUncertain,
       SettleRun, Settleable, RenewLease, TargetStep, RecordReconciliation, ExecStep, TrackExec, EnsureFence,
       RetainProof, RetainOutcome, RecordProvedAbsence, RetainSettlement, effectVars
  <1>5. ExpireLeases \/ Tick \/ UNCHANGED vars => deps' = deps
    BY DEF ExpireLeases, Tick, vars, effectVars
  <1> QED BY <1>1, <1>2, <1>3, <1>4, <1>5 DEF Next

Edges == EdgesHaveRows /\ SucceedsOrder

\* Without edges nothing waits.
LEMMA InitEdges == Init => Edges
  BY DEF Init, Edges, EdgesHaveRows, SucceedsOrder

\* An upstream that a started `succeeds' dependent waited for stays completed:
\* neither retry_effect nor a late completion nor a sweep can move it.
LEMMA StepEdges ==
    TypeOK /\ Backing /\ Knowledge /\ Edges /\ [Next]_vars => Edges'
  <1> SUFFICES ASSUME TypeOK, Backing, Knowledge, Edges, [Next]_vars PROVE Edges'
    OBVIOUS
  <1>1. /\ \A e \in Effects : effect[e] # "absent" => effect'[e] # "absent"
        /\ \A r \in Runs : ~Started(r) /\ Started(r)' => StartRun(r)
    BY RowsStay
  <1>2. \A d \in deps : d.up \in Effects /\ d.down \in Effects
    BY DependencyAssumption DEF TypeOK
  <1>3. EdgesHaveRows'
    BY <1>1, <1>2, EdgeSteps DEF Edges, EdgesHaveRows
  <1>4. SucceedsOrder'
    <2> SUFFICES ASSUME NEW d \in deps', d.predicate = "succeeds",
                        NEW r \in RunsOf(d.down), Started(r)'
                 PROVE  effect'[d.up] = "completed"
      BY DEF SucceedsOrder, RunsOf
    <2>1. r \in Runs /\ RunEffect[r] = d.down
      BY DEF RunsOf
    <2>2. d \in deps
      <3> SUFFICES ASSUME effect[d.down] = "absent", run' = run PROVE FALSE
        BY EdgeSteps
      <3> QED BY <2>1 DEF Started, Knowledge, Dispatched
    <2>3. CASE Started(r)
      BY <1>2, <2>1, <2>2, <2>3, EffectMoves DEF Edges, SucceedsOrder
    <2>4. CASE StartRun(r)
      <3>1. effect[d.up] # "absent" /\ DependenciesHold(d.down, effect, deps)
        BY <2>1, <2>2, <2>4 DEF StartRun, Startable, Edges, EdgesHaveRows
      <3>2. effect[d.up] = "completed"
        BY <2>2, <3>1 DEF DependenciesHold, DependencySatisfied
      <3> QED BY <1>2, <2>2, <3>2, EffectMoves
    <2> QED BY <1>1, <2>1, <2>3, <2>4
  <1> QED BY <1>3, <1>4 DEF Edges

\* Without tracked runs no fence is owed.
LEMMA InitFences == Init => CancelledExecIsFenced
  BY DEF Init, CancelledExecIsFenced

\* A fence, once asked for, is never taken back.
LEMMA FencedStays ==
    ASSUME TypeOK, NEW reason, NEW runs, reason # "none"
    PROVE  \A r \in Runs : /\ fence[r] # "none" => Fenced(reason, runs)[r] # "none"
                           /\ r \in runs => Fenced(reason, runs)[r] # "none"
  BY DEF Fenced

\* request_effect_cancellation fences tracked runs it names, track_exec_lifetime
\* fences named runs it tracks; no other operation adds to either set.
LEMMA StepFences ==
    TypeOK /\ CancelledExecIsFenced /\ [Next]_vars => CancelledExecIsFenced'
  <1> SUFFICES ASSUME TypeOK, CancelledExecIsFenced, [Next]_vars
               PROVE  CancelledExecIsFenced'
    OBVIOUS
  <1> DEFINE Quiet == UNCHANGED <<tracked, named, fence>>
  <1>0. Quiet => CancelledExecIsFenced'
    BY DEF CancelledExecIsFenced
  <1>1. ASSUME NEW policy, ActivateRevision(policy)
        PROVE  CancelledExecIsFenced'
    <2> DEFINE asked == {e \in Effects : policy = "request_running" /\ effect[e] = "running"}
               askedRuns == UNION {RunningRuns(e) : e \in asked}
    <2>1. /\ named' = named \cup askedRuns
          /\ fence' = Fenced("cancellation", askedRuns \cap tracked)
          /\ tracked' = tracked
      BY <1>1 DEF ActivateRevision
    <2> HIDE DEF askedRuns
    <2> QED BY <2>1, FencedStays DEF CancelledExecIsFenced, TypeOK
  <1>2. ASSUME NEW e \in Effects, RequestCancellation(e)
        PROVE  CancelledExecIsFenced'
    <2>1. /\ named' = named \cup RunningRuns(e)
          /\ fence' = Fenced("cancellation", RunningRuns(e) \cap tracked)
          /\ tracked' = tracked
      BY <1>2 DEF RequestCancellation
    <2> QED BY <2>1, FencedStays DEF CancelledExecIsFenced, TypeOK
  <1>3. ASSUME ExpireLeases
        PROVE  CancelledExecIsFenced'
    <2>1. PICK runs : fence' = Fenced("recovery", runs) /\ UNCHANGED <<named, tracked>>
      BY <1>3 DEF ExpireLeases
    <2> QED BY <2>1, FencedStays DEF CancelledExecIsFenced, TypeOK
  <1>4. ASSUME NEW r \in Runs, TrackExec(r)
        PROVE  CancelledExecIsFenced'
    <2>1. /\ tracked' = tracked \cup {r}
          /\ fence' = Fenced("cancellation", {r} \cap named)
          /\ named' = named
      BY <1>4 DEF TrackExec, effectVars
    <2> QED BY <2>1, FencedStays DEF CancelledExecIsFenced, TypeOK
  <1>5. ASSUME NEW r \in Runs, NEW reason \in DriverFences, EnsureFence(r, reason)
        PROVE  CancelledExecIsFenced'
    <2>1. reason # "none"
      BY StatusAssumption
    <2>2. fence' = Fenced(reason, {r}) /\ UNCHANGED <<named, tracked>>
      BY <1>5 DEF EnsureFence, effectVars
    <2> QED BY <2>1, <2>2, FencedStays DEF CancelledExecIsFenced, TypeOK
  <1>6. RuleStep => Quiet \/ \E policy \in {"keep", "queued", "request_running"} :
                               ActivateRevision(policy)
    BY DEF RuleStep, CommitRule, TransitionInstance, effectVars, execVars
  <1>7. ASSUME NEW e \in Effects, BlockStep(e) \/ OperatorStep(e) \/ ExpireEffect(e)
        PROVE  Quiet \/ RequestCancellation(e)
    BY <1>7 DEF BlockStep, PolicyBlock, CapacityBlock, BlockEffect, OperatorStep,
       CancelEffect, RetryEffect, ExpireEffect, execVars
  <1>8. ASSUME NEW r \in Runs, RunStep(r)
        PROVE  Quiet
    BY <1>8 DEF RunStep, StartRun, Startable, CompleteEffect, ResolveEffectUncertain,
       SettleRun, Settleable, RenewLease, TargetStep, RecordReconciliation, effectVars, execVars
  <1>9. ASSUME NEW r \in Runs, ExecStep(r)
        PROVE  Quiet \/ TrackExec(r) \/ \E reason \in DriverFences : EnsureFence(r, reason)
    BY <1>9 DEF ExecStep, RetainProof, RetainOutcome, RecordProvedAbsence,
       RetainSettlement, effectVars
  <1>10. Tick \/ UNCHANGED vars => Quiet
    BY DEF Tick, vars, effectVars, execVars
  <1> HIDE DEF Quiet
  <1> QED
    BY <1>0, <1>1, <1>2, <1>3, <1>4, <1>5, <1>6, <1>7, <1>8, <1>9, <1>10 DEF Next

\* Without effects the agent is idle.
LEMMA InitCapacity == Init => CapacityInv
  <1> SUFFICES ASSUME Init PROVE CapacityInv
    OBVIOUS
  <1>1. AgentsRunning = {}
    BY KindsAssumption DEF Init, AgentsRunning
  <1> QED BY <1>1, FS_EmptySet, BoundsAssumption DEF CapacityInv

\* Only start_run adds a running agent.tell effect, and capacity_block_on
\* refuses it when the agent is full.
LEMMA StepCapacity == TypeOK /\ Backing /\ CapacityInv /\ [Next]_vars => CapacityInv'
  <1> SUFFICES ASSUME TypeOK, Backing, CapacityInv, [Next]_vars PROVE CapacityInv'
    OBVIOUS
  <1>1. Cardinality(AgentsRunning) \in Nat /\ Capacity \in Nat
    BY FS_CardinalityType, BoundsAssumption DEF CapacityInv
  <1>2. CASE AgentsRunning' \subseteq AgentsRunning
    <2>1. /\ IsFiniteSet(AgentsRunning')
          /\ Cardinality(AgentsRunning') <= Cardinality(AgentsRunning)
      BY <1>2, FS_Subset DEF CapacityInv
    <2>2. Cardinality(AgentsRunning') \in Nat
      BY <2>1, FS_CardinalityType
    <2> QED BY <1>1, <2>1, <2>2 DEF CapacityInv
  <1>3. ASSUME NEW r \in Runs, StartRun(r), RunEffect[r] \in AgentEffects
        PROVE  CapacityInv'
    <2>1. AgentsRunning' = AgentsRunning \cup {RunEffect[r]}
      BY <1>3, KindsAssumption DEF AgentsRunning, StartRun, Startable, TypeOK
    <2>2. Cardinality(AgentsRunning) < Capacity
      BY <1>1, <1>3 DEF StartRun, Startable, CapacityExhausted, AgentsRunning
    <2>3. /\ IsFiniteSet(AgentsRunning \cup {RunEffect[r]})
          /\ Cardinality(AgentsRunning \cup {RunEffect[r]})
                <= Cardinality(AgentsRunning) + 1
      BY <1>1, FS_AddElement DEF CapacityInv
    <2>4. Cardinality(AgentsRunning \cup {RunEffect[r]}) \in Nat
      BY <2>3, FS_CardinalityType
    <2> QED BY <1>1, <2>1, <2>2, <2>3, <2>4 DEF CapacityInv
  <1>4. \/ AgentsRunning' \subseteq AgentsRunning
        \/ \E r \in Runs : StartRun(r) /\ RunEffect[r] \in AgentEffects
    BY EffectMoves, KindsAssumption DEF AgentsRunning
  <1> QED BY <1>2, <1>3, <1>4

-----------------------------------------------------------------------------
(* The theorems.                                                           *)

\* Effects, runs, leases and gaps agree in every reachable state.
THEOREM BackingHolds == Spec => []Backing
  BY TypeCorrect, InitBacking, StepBacking, PTL DEF Spec

\* What the ledger and the custody records say of a run is true of it.
THEOREM KnowledgeHolds == Spec => []Knowledge
  BY TypeCorrect, InitKnowledge, StepKnowledge, PTL DEF Spec

\* No two runs of one effect run at once (start_run against every other door).
THEOREM OneRunningRun == Spec => []AtMostOneRunningRun
  <1>1. Backing => AtMostOneRunningRun
    BY DEF Backing
  <1> QED BY <1>1, BackingHolds, PTL

\* Effect rows that say running, and active leases, are backed by running runs.
THEOREM RunningBacked == Spec => []RunningIsBacked
  <1>1. Backing => RunningIsBacked
    BY DEF Backing
  <1> QED BY <1>1, BackingHolds, PTL

\* An effect that was ended under its run is never dispatched again.
THEOREM OrphansStay == Spec => []OrphanedRunBlocksRedispatch
  <1>1. Backing => OrphanedRunBlocksRedispatch
    BY DEF Backing
  <1> QED BY <1>1, BackingHolds, PTL

\* No attempt is followed by another while its fate at the target is unknown.
THEOREM NoResubmission == Spec => []NoBlindResubmission
  <1>1. Knowledge /\ Succession => NoBlindResubmission
    BY DEF Knowledge, Dispatched, Succession, Answered, NoBlindResubmission
  <1>2. Spec => []Succession
    BY TypeCorrect, BackingHolds, KnowledgeHolds, InitSuccession, StepSuccession, PTL DEF Spec
  <1> QED BY <1>1, <1>2, KnowledgeHolds, PTL

\* No two tracked incarnations of one effect are alive at once.
THEOREM NoOverlap == Spec => []NoOverlappingIncarnations
  <1>1. Knowledge /\ Succession => NoOverlappingIncarnations
    BY DEF Knowledge, Dispatched, Succession, Closed, NoOverlappingIncarnations
  <1>2. Spec => []Succession
    BY TypeCorrect, BackingHolds, KnowledgeHolds, InitSuccession, StepSuccession, PTL DEF Spec
  <1> QED BY <1>1, <1>2, KnowledgeHolds, PTL

\* A run a cancellation request names is fenced as soon as it is tracked.
THEOREM CancelledFenced == Spec => []CancelledExecIsFenced
  BY TypeCorrect, InitFences, StepFences, PTL DEF Spec

\* A dependent that waits for success runs only after, and under, a success.
THEOREM SuccessFirst == Spec => []SucceedsOrder
  <1>1. Edges => SucceedsOrder
    BY DEF Edges
  <1>2. Spec => []Edges
    BY TypeCorrect, BackingHolds, KnowledgeHolds, InitEdges, StepEdges, PTL DEF Spec
  <1> QED BY <1>1, <1>2, PTL

\* An agent never runs more effects than its declared capacity.
THEOREM WithinCapacity == Spec => []CapacityRespected
  <1>1. CapacityInv => CapacityRespected
    BY DEF CapacityInv, AgentsRunning, CapacityRespected
  <1>2. Spec => []CapacityInv
    BY TypeCorrect, BackingHolds, InitCapacity, StepCapacity, PTL DEF Spec
  <1> QED BY <1>1, <1>2, PTL

\* No operation takes a completed effect out of completed.
THEOREM CompletedStays == Spec => CompletedIsFinal
  <1>1. TypeOK /\ Backing /\ [Next]_vars
           => [\A e \in Effects : effect[e] = "completed" => effect'[e] = "completed"]_vars
    BY EffectMoves
  <1> QED BY <1>1, TypeCorrect, BackingHolds, PTL DEF Spec, CompletedIsFinal

-----------------------------------------------------------------------------
(* The replay: rows of the fold beside rows of the tables.                 *)

\* What the eight tables may hold.
TableRows ==
    [instance : InstanceStatuses, epoch : 0..MaxEpoch,
     effect : [Effects -> EffectStatuses], deps : SUBSET Dependency,
     run : [Runs -> RunStatuses], lease : [Runs -> LeaseStatuses],
     expires : [Runs -> Nat], request : SUBSET Effects]

\* No lease ends later than one granted now would.
TermsBounded == \A r \in Runs : expires[r] <= now + LeaseTerm

ReplayInv == rebuilt \in TableRows /\ RebuildAgrees /\ TermsBounded

\* RebuildAgrees, table by table.
LEMMA Agreement ==
    RebuildAgrees <=>
        /\ rebuilt.instance = instance
        /\ rebuilt.epoch = epoch
        /\ rebuilt.deps = deps
        /\ rebuilt.run = run
        /\ rebuilt.lease = lease
        /\ \A e \in Effects :
              \/ rebuilt.effect[e] = effect[e]
              \/ rebuilt.effect[e] \in PendingEffectStatuses /\ effect[e] \in PendingEffectStatuses
        /\ \A r \in Runs : rebuilt.expires[r] <= expires[r]
        /\ rebuilt.request \subseteq request
        /\ request \ rebuilt.request \subseteq gap
  BY DEF RebuildAgrees, tables

\* The same after a step.
LEMMA AgreementNext ==
    RebuildAgrees' <=>
        /\ rebuilt'.instance = instance'
        /\ rebuilt'.epoch = epoch'
        /\ rebuilt'.deps = deps'
        /\ rebuilt'.run = run'
        /\ rebuilt'.lease = lease'
        /\ \A e \in Effects :
              \/ rebuilt'.effect[e] = effect'[e]
              \/ /\ rebuilt'.effect[e] \in PendingEffectStatuses
                 /\ effect'[e] \in PendingEffectStatuses
        /\ \A r \in Runs : rebuilt'.expires[r] <= expires'[r]
        /\ rebuilt'.request \subseteq request'
        /\ request' \ rebuilt'.request \subseteq gap'
  BY DEF RebuildAgrees, tables

\* The rows t and u are the same, or both wait to be claimed.
SameOrPending(s, t) == s = t \/ {s, t} \subseteq PendingEffectStatuses

-----------------------------------------------------------------------------
(* What each replay handler writes.                                        *)

\* u is t with the rows of E, the edges D and the status s of the instance.
Committed(u, t, E, rows, D, s) ==
    /\ u \in TableRows
    /\ u.instance = s /\ u.epoch = t.epoch /\ u.deps = t.deps \cup D
    /\ u.run = t.run /\ u.lease = t.lease /\ u.expires = t.expires
    /\ u.request = t.request
    /\ \A e \in E : u.effect[e] = rows[e]
    /\ \A e \in Effects \ E : u.effect[e] = t.effect[e]

\* replay_rule_commit with the instance's own event writes rows, edges and status.
LEMMA ReplaysCommit ==
    ASSUME NEW t \in TableRows, NEW E \in SUBSET Effects, NEW rows \in [Effects -> EffectStatuses],
           NEW D \in SUBSET Dependency, NEW s \in InstanceStatuses,
           NEW u, u = ReplayInstance(ReplayRuleCommit(t, E, rows, D), s)
    PROVE  Committed(u, t, E, rows, D, s)
  <1> USE DEF Committed
  <1> DEFINE f == [e \in Effects |-> IF e \in E THEN rows[e] ELSE t.effect[e]]
             d == t.deps \cup D
  <1>1. f \in [Effects -> EffectStatuses] /\ d \in SUBSET Dependency
    BY DEF TableRows
  <1>2. u = [[t EXCEPT !.effect = f, !.deps = d] EXCEPT !.instance = s]
    BY DEF ReplayInstance, ReplayRuleCommit
  <1>3. \A e \in Effects : f[e] = IF e \in E THEN rows[e] ELSE t.effect[e]
    OBVIOUS
  <1> HIDE DEF f
  <1> QED BY <1>1, <1>2, <1>3 DEF TableRows

\* satisfy_dependencies over the replayed rows touches waiting effects only.
LEMMA ReplaysRelease ==
    ASSUME NEW t \in TableRows, NEW u, u = Satisfied(t)
    PROVE  /\ u \in TableRows
           /\ u.instance = t.instance /\ u.epoch = t.epoch /\ u.deps = t.deps
           /\ u.run = t.run /\ u.lease = t.lease /\ u.expires = t.expires
           /\ u.request = t.request
           /\ \A e \in Effects : \/ u.effect[e] = t.effect[e]
                                 \/ t.effect[e] = "blocked_by_dependency" /\ u.effect[e] = "queued"
  <1> DEFINE holds == {e \in Effects : DependenciesHold(e, t.effect, t.deps)}
             f == [e \in Effects |-> IF t.effect[e] = "blocked_by_dependency" /\ e \in holds
                                     THEN "queued" ELSE t.effect[e]]
  <1>1. u = [t EXCEPT !.effect = f]
    BY DEF Satisfied
  <1> HIDE DEF holds
  <1>2. f \in [Effects -> EffectStatuses]
    BY DEF TableRows, EffectStatuses, PendingEffectStatuses
  <1>3. \A e \in Effects : \/ f[e] = t.effect[e]
                           \/ t.effect[e] = "blocked_by_dependency" /\ f[e] = "queued"
    OBVIOUS
  <1> HIDE DEF f
  <1> QED BY <1>1, <1>2, <1>3 DEF TableRows

\* u is t with the effects E ended, the runs R ended, and waiting rows released.
Ended(u, t, E, R, rows, runs) ==
    /\ u \in TableRows
    /\ u.instance = t.instance /\ u.epoch = t.epoch /\ u.deps = t.deps
    /\ u.expires = t.expires
    /\ u.request = t.request \ E
    /\ u.run = [r \in Runs |-> IF r \in R THEN runs[r] ELSE t.run[r]]
    /\ u.lease = [r \in Runs |-> IF r \in R THEN Released(t.lease[r]) ELSE t.lease[r]]
    /\ \A e \in E : u.effect[e] = rows[e]
    /\ \A e \in Effects \ E : SameOrPending(u.effect[e], t.effect[e])

\* replay_effect_terminal ends the effects it names and, if it names them,
\* their runs; dependents that wait may be released.
LEMMA ReplaysTerminal ==
    ASSUME NEW t \in TableRows, NEW E \in SUBSET Effects, NEW R \in SUBSET Runs,
           E = {} => R = {},
           NEW rows \in [Effects -> EffectStatuses], NEW runs \in [Runs -> RunStatuses],
           \A e \in E : rows[e] \in TerminalEffectStatuses,
           NEW u, u = ReplayTerminal(t, E, R, rows, runs)
    PROVE  Ended(u, t, E, R, rows, runs)
  <1> USE DEF Ended
  <1> DEFINE f == [e \in Effects |-> IF e \in E THEN rows[e] ELSE t.effect[e]]
             g == [r \in Runs |-> IF r \in R THEN runs[r] ELSE t.run[r]]
             l == [r \in Runs |-> IF r \in R THEN Released(t.lease[r]) ELSE t.lease[r]]
             q == t.request \ E
             v == [t EXCEPT !.effect = f, !.run = g, !.lease = l, !.request = q]
  <1>1. CASE E = {}
    <2>1. u = t /\ R = {}
      BY <1>1 DEF ReplayTerminal
    <2> QED BY <1>1, <2>1 DEF TableRows, SameOrPending
  <1>2. CASE E # {}
    <2>1. /\ f \in [Effects -> EffectStatuses]
          /\ g \in [Runs -> RunStatuses]
          /\ l \in [Runs -> LeaseStatuses]
          /\ q \in SUBSET Effects
      BY DEF TableRows, Released, LeaseStatuses
    <2>2. u = Satisfied(v)
      BY <1>2 DEF ReplayTerminal
    <2>3. \A e \in Effects : f[e] = IF e \in E THEN rows[e] ELSE t.effect[e]
      OBVIOUS
    <2> HIDE DEF f, g, l, q
    <2>4. /\ v \in TableRows
          /\ v.instance = t.instance /\ v.epoch = t.epoch /\ v.deps = t.deps
          /\ v.expires = t.expires /\ v.request = q /\ v.run = g /\ v.lease = l /\ v.effect = f
      BY <2>1 DEF TableRows
    <2> HIDE DEF v
    <2>5. /\ u \in TableRows
          /\ u.instance = v.instance /\ u.epoch = v.epoch /\ u.deps = v.deps
          /\ u.run = v.run /\ u.lease = v.lease /\ u.expires = v.expires
          /\ u.request = v.request
          /\ \A e \in Effects : \/ u.effect[e] = v.effect[e]
                                \/ v.effect[e] = "blocked_by_dependency" /\ u.effect[e] = "queued"
      BY <2>2, <2>4, ReplaysRelease
    <2>6. \A e \in E : u.effect[e] = rows[e]
      BY <2>3, <2>4, <2>5 DEF TerminalEffectStatuses
    <2>7. \A e \in Effects \ E : SameOrPending(u.effect[e], t.effect[e])
      BY <2>3, <2>4, <2>5 DEF SameOrPending, PendingEffectStatuses
    <2> QED BY <2>4, <2>5, <2>6, <2>7 DEF g, l, q
  <1> QED BY <1>1, <1>2

\* replay_run_started writes the run and its lease, and the effect unless it ended.
LEMMA ReplaysStart ==
    ASSUME NEW t \in TableRows, NEW r \in Runs, NEW until \in [Runs -> Nat],
           NEW u, u = ReplayRunStarted(t, {r}, until),
           t.effect[RunEffect[r]] \in PendingEffectStatuses
    PROVE  /\ u \in TableRows
           /\ u.instance = t.instance /\ u.epoch = t.epoch /\ u.deps = t.deps
           /\ u.request = t.request
           /\ u.run = [t.run EXCEPT ![r] = "running"]
           /\ u.lease = [t.lease EXCEPT ![r] = "active"]
           /\ u.expires = [t.expires EXCEPT ![r] = until[r]]
           /\ u.effect = [t.effect EXCEPT ![RunEffect[r]] = "running"]
  <1> DEFINE f == [t.effect EXCEPT ![RunEffect[r]] = "running"]
             g == [t.run EXCEPT ![r] = "running"]
             l == [t.lease EXCEPT ![r] = "active"]
             x == [t.expires EXCEPT ![r] = until[r]]
  <1>1. RunEffect[r] \in Effects
    BY RunEffectAssumption
  <1>2. /\ f \in [Effects -> EffectStatuses] /\ g \in [Runs -> RunStatuses]
        /\ l \in [Runs -> LeaseStatuses] /\ x \in [Runs -> Nat]
    BY <1>1 DEF TableRows, EffectStatuses, RunStatuses, LeaseStatuses
  <1>3. [e \in Effects |->
            IF t.effect[e] \notin TerminalEffectStatuses /\ \E a \in {r} : RunEffect[a] = e
            THEN "running" ELSE t.effect[e]] = f
    BY <1>1 DEF TableRows, TerminalEffectStatuses, PendingEffectStatuses
  <1>4. /\ [a \in Runs |-> IF a \in {r} THEN "running" ELSE t.run[a]] = g
        /\ [a \in Runs |-> IF a \in {r} THEN "active" ELSE t.lease[a]] = l
        /\ [a \in Runs |-> IF a \in {r} THEN until[a] ELSE t.expires[a]] = x
    BY DEF TableRows
  <1> HIDE DEF f, g, l, x
  <1>5. u = [t EXCEPT !.effect = f, !.run = g, !.lease = l, !.expires = x]
    BY <1>3, <1>4 DEF ReplayRunStarted
  <1>6. /\ u \in TableRows
        /\ u.instance = t.instance /\ u.epoch = t.epoch /\ u.deps = t.deps
        /\ u.request = t.request
        /\ u.run = g /\ u.lease = l /\ u.expires = x /\ u.effect = f
    BY <1>2, <1>5 DEF TableRows
  <1> QED BY <1>6 DEF f, g, l, x

\* replay_lease_expired expires the leases, and ends the runs and effects that no
\* executor keeps.
LEMMA ReplaysExpiry ==
    ASSUME NEW t \in TableRows, NEW R \in SUBSET Runs, NEW u, u = ReplayLeaseExpired(t, R)
    PROVE  /\ u \in TableRows
           /\ u.instance = t.instance /\ u.epoch = t.epoch /\ u.deps = t.deps
           /\ u.expires = t.expires /\ u.request = t.request
           /\ u.lease = [r \in Runs |-> IF r \in R THEN "expired" ELSE t.lease[r]]
           /\ u.run = [r \in Runs |-> IF r \in R /\ ~IsExec(r) /\ t.run[r] = "running"
                                      THEN "lease_expired" ELSE t.run[r]]
           /\ \A e \in Effects : u.effect[e] =
                 IF t.effect[e] = "running" /\ \E r \in R : ~IsExec(r) /\ RunEffect[r] = e
                 THEN "failed" ELSE t.effect[e]
  <1> DEFINE failed == {r \in R : ~IsExec(r)}
             f == [e \in Effects |->
                     IF t.effect[e] = "running" /\ \E r \in failed : RunEffect[r] = e
                     THEN "failed" ELSE t.effect[e]]
             g == [r \in Runs |-> IF r \in failed /\ t.run[r] = "running"
                                  THEN "lease_expired" ELSE t.run[r]]
             l == [r \in Runs |-> IF r \in R THEN "expired" ELSE t.lease[r]]
  <1>1. /\ f \in [Effects -> EffectStatuses] /\ g \in [Runs -> RunStatuses]
        /\ l \in [Runs -> LeaseStatuses]
    BY DEF TableRows, EffectStatuses, TerminalEffectStatuses, RunStatuses, LeaseStatuses
  <1>2. u = [t EXCEPT !.lease = l, !.run = g, !.effect = f]
    BY DEF ReplayLeaseExpired
  <1>3. \A e \in Effects : f[e] =
           IF t.effect[e] = "running" /\ \E r \in R : ~IsExec(r) /\ RunEffect[r] = e
           THEN "failed" ELSE t.effect[e]
    OBVIOUS
  <1>4. g = [r \in Runs |-> IF r \in R /\ ~IsExec(r) /\ t.run[r] = "running"
                            THEN "lease_expired" ELSE t.run[r]]
    OBVIOUS
  <1> HIDE DEF f, g
  <1>5. /\ u \in TableRows
        /\ u.instance = t.instance /\ u.epoch = t.epoch /\ u.deps = t.deps
        /\ u.expires = t.expires /\ u.request = t.request
        /\ u.run = g /\ u.lease = l /\ u.effect = f
    BY <1>1, <1>2 DEF TableRows
  <1> QED BY <1>3, <1>4, <1>5

\* replay_effect_retried queues the effect again.
LEMMA ReplaysRetry ==
    ASSUME NEW t \in TableRows, NEW e \in Effects, t.effect[e] \in RetryableEffectStatuses,
           NEW u, u = ReplayRetried(t, {e})
    PROVE  /\ u \in TableRows
           /\ u.instance = t.instance /\ u.epoch = t.epoch /\ u.deps = t.deps
           /\ u.run = t.run /\ u.lease = t.lease /\ u.expires = t.expires
           /\ u.request = t.request
           /\ u.effect = [t.effect EXCEPT ![e] = "queued"]
  <1> DEFINE f == [t.effect EXCEPT ![e] = "queued"]
  <1>1. f \in [Effects -> EffectStatuses]
    BY DEF TableRows, EffectStatuses, PendingEffectStatuses
  <1>2. [x \in Effects |-> IF x \in {e} /\ t.effect[x] \in RetryableEffectStatuses
                           THEN "queued" ELSE t.effect[x]] = f
    BY DEF TableRows
  <1> HIDE DEF f
  <1>3. u = [t EXCEPT !.effect = f]
    BY <1>2 DEF ReplayRetried
  <1>4. /\ u \in TableRows
        /\ u.instance = t.instance /\ u.epoch = t.epoch /\ u.deps = t.deps
        /\ u.run = t.run /\ u.lease = t.lease /\ u.expires = t.expires
        /\ u.request = t.request /\ u.effect = f
    BY <1>1, <1>3 DEF TableRows
  <1> QED BY <1>4 DEF f

\* replay_revision_activation and replay_cancellation_request write one table.
LEMMA ReplaysOneTable ==
    ASSUME NEW t \in TableRows
    PROVE  /\ \A n \in 0..MaxEpoch :
                 /\ ReplayRevision(t, n) \in TableRows
                 /\ ReplayRevision(t, n) = [t EXCEPT !.epoch = n]
           /\ \A E \in SUBSET Effects :
                 /\ ReplayRequested(t, E) \in TableRows
                 /\ ReplayRequested(t, E) = [t EXCEPT !.request = t.request \cup E]
  BY DEF TableRows, ReplayRevision, ReplayRequested

-----------------------------------------------------------------------------
(* What the operations append.                                             *)

\* No table but the effects', and there only rows that wait, for others that wait.
Unreplayed ==
    /\ \A e \in Effects : SameOrPending(effect'[e], effect[e])
    /\ UNCHANGED <<instance, epoch, deps, run, lease, expires, request, gap>>
    /\ now' >= now

\* Every operation appends what the replay reads, or is not replayed.
LEMMA TableSteps ==
    ASSUME TypeOK, Next
    PROVE  \/ Unreplayed
           \/ \E E \in SUBSET Effects :
                \E status \in [E -> AdmitStatuses], D \in SUBSET Dependency,
                   o \in RuleTerminals \cup {"running"} : CommitRule(E, status, D, o)
           \/ \E status \in OperatorStatuses : TransitionInstance(status)
           \/ \E policy \in {"keep", "queued", "request_running"} : ActivateRevision(policy)
           \/ \E r \in Runs : StartRun(r)
           \/ \E r \in Runs, s \in FinalRunStatuses \ {"lease_expired"},
                 t \in TerminalEffectStatuses : SettleRun(r, s, t)
           \/ \E e \in Effects : ExpireEffect(e)
           \/ \E e \in Effects : CancelEffect(e)
           \/ \E e \in Effects : RequestCancellation(e)
           \/ \E e \in Effects : RetryEffect(e)
           \/ \E r \in Runs : RenewLease(r)
           \/ ExpireLeases
  <1>1. now \in Nat
    BY BoundsAssumption DEF TypeOK
  <1>2. ASSUME NEW e \in Effects, BlockStep(e)
        PROVE  Unreplayed
    <2>1. ASSUME NEW s \in PendingEffectStatuses, Pending(e),
                 effect' = [effect EXCEPT ![e] = s],
                 UNCHANGED <<instance, epoch, deps, run, lease, expires, request, gap, now>>
          PROVE  Unreplayed
      BY <1>1, <2>1 DEF Unreplayed, SameOrPending, Pending, TypeOK
    <2>2. CASE \E s \in PolicyBlocks : PolicyBlock(e, s)
      BY <2>1, <2>2, StatusAssumption
         DEF PolicyBlock, PendingEffectStatuses, runVars, ledgerVars
    <2>3. CASE CapacityBlock(e)
      BY <2>1, <2>3 DEF CapacityBlock, PendingEffectStatuses, runVars, ledgerVars
    <2>4. CASE \E s \in WorkerBlocks, c \in Categories : BlockEffect(e, s, c)
      <3>1. PICK s \in WorkerBlocks, c \in Categories : BlockEffect(e, s, c)
        BY <2>4
      <3>2. s \in PendingEffectStatuses
        BY StatusAssumption DEF PendingEffectStatuses
      <3>3. CASE Pending(e)
        BY <2>1, <3>1, <3>2, <3>3 DEF BlockEffect, runVars, ledgerVars
      <3>4. CASE ~Pending(e)
        BY <1>1, <3>1, <3>4 DEF BlockEffect, runVars, ledgerVars, TypeOK, Unreplayed,
           SameOrPending
      <3> QED BY <3>3, <3>4
    <2> QED BY <1>2, <2>2, <2>3, <2>4 DEF BlockStep
  <1>3. ASSUME UNCHANGED <<instance, epoch, effect, deps, run, lease, expires, request, gap>>,
               now' = now \/ now' = now + 1
        PROVE  Unreplayed
    BY <1>1, <1>3 DEF Unreplayed, SameOrPending
  <1>4. ASSUME NEW r \in Runs, ExecStep(r)
        PROVE  Unreplayed
    BY <1>3, <1>4 DEF ExecStep, TrackExec, EnsureFence, RetainProof, RetainOutcome,
       RecordProvedAbsence, RetainSettlement, effectVars, runVars, ledgerVars
  <1>5. ASSUME NEW r \in Runs, RunStep(r)
        PROVE  \/ Unreplayed
               \/ StartRun(r)
               \/ \E s \in FinalRunStatuses \ {"lease_expired"},
                     t \in TerminalEffectStatuses : SettleRun(r, s, t)
               \/ RenewLease(r)
    <2>1. CASE \E status \in TerminalEffectStatuses : CompleteEffect(r, status)
      BY <2>1 DEF CompleteEffect, FinalRunStatuses, RunStatuses, TerminalEffectStatuses
    <2>2. CASE ResolveEffectUncertain(r)
      BY <2>2 DEF ResolveEffectUncertain, FinalRunStatuses, RunStatuses,
         TerminalEffectStatuses
    <2>3. CASE TargetStep(r) \/ \E d \in Evidence : RecordReconciliation(r, d)
      BY <1>3, <2>3 DEF TargetStep, RecordReconciliation, effectVars, runVars,
         ledgerVars
    <2> QED BY <1>5, <2>1, <2>2, <2>3 DEF RunStep
  <1>6. ASSUME Tick
        PROVE  Unreplayed
    BY <1>3, <1>6 DEF Tick, effectVars, runVars, ledgerVars
  <1> HIDE DEF Unreplayed
  <1>7. \/ RuleStep
        \/ \E e \in Effects : BlockStep(e) \/ OperatorStep(e) \/ ExpireEffect(e)
        \/ \E r \in Runs : RunStep(r) \/ ExecStep(r)
        \/ ExpireLeases
        \/ Tick
    BY DEF Next
  <1> QED
    BY <1>2, <1>4, <1>5, <1>6, <1>7 DEF RuleStep, OperatorStep

\* A step that appends nothing the replay reads leaves the fold alone.
LEMMA FoldsNothing ==
    ASSUME TypeOK, Unreplayed \/ \E r \in Runs : RenewLease(r)
    PROVE  Replayed = rebuilt
  <1>1. /\ Inserted = {} /\ StartedNow = {} /\ SettledNow = {} /\ ExpiredNow = {}
        /\ RetriedNow = {} /\ RequestedNow = {} /\ RunlessNow = {}
        /\ UNCHANGED <<instance, epoch>>
    <2>1. CASE Unreplayed
      BY <2>1 DEF Unreplayed, SameOrPending, TypeOK, Inserted, StartedNow, SettledNow, ExpiredNow,
         RetriedNow, RequestedNow, RunlessNow, RetryableEffectStatuses, PendingEffectStatuses
    <2>2. CASE \E r \in Runs : RenewLease(r)
      BY <2>2 DEF RenewLease, effectVars, ledgerVars, TypeOK, Inserted, StartedNow, SettledNow,
         ExpiredNow,
         RetriedNow, RequestedNow, RunlessNow, RetryableEffectStatuses, PendingEffectStatuses
    <2> QED BY <2>1, <2>2
  <1> QED BY <1>1 DEF Replayed

-----------------------------------------------------------------------------
(* The fold keeps up with the tables.                                      *)

\* Whatever an operation appends, the replay of it writes what the operation wrote.
LEMMA StepReplay ==
    TypeOK /\ TypeOK' /\ Backing /\ ReplayInv /\ StoreStep => ReplayInv'
  <1> SUFFICES ASSUME TypeOK, TypeOK', Backing, ReplayInv, StoreStep PROVE ReplayInv'
    OBVIOUS
  <1> USE DEF SameOrPending
  <1>a. /\ rebuilt' = Replayed
        /\ rebuilt \in TableRows
        /\ rebuilt.instance = instance /\ rebuilt.epoch = epoch /\ rebuilt.deps = deps
        /\ rebuilt.run = run /\ rebuilt.lease = lease
        /\ \A e \in Effects : SameOrPending(rebuilt.effect[e], effect[e])
        /\ \A r \in Runs : rebuilt.expires[r] <= expires[r]
        /\ rebuilt.request \subseteq request
        /\ request \ rebuilt.request \subseteq gap
        /\ \A r \in Runs : expires[r] <= now + LeaseTerm
    BY Agreement DEF ReplayInv, StoreStep, TermsBounded
  <1>b. /\ now \in Nat /\ LeaseTerm \in Nat
        /\ expires \in [Runs -> Nat] /\ expires' \in [Runs -> Nat] /\ now' \in Nat
        /\ \A r \in Runs : rebuilt.expires[r] \in Nat
    BY <1>a, BoundsAssumption DEF TypeOK, TableRows
  <1>c. \A e \in gap : effect[e] \in TerminalEffectStatuses
    BY DEF Backing, OrphanedRunBlocksRedispatch, Terminal
  <1>d. ASSUME rebuilt' \in TableRows,
               rebuilt'.instance = instance', rebuilt'.epoch = epoch', rebuilt'.deps = deps',
               rebuilt'.run = run', rebuilt'.lease = lease',
               \A e \in Effects : SameOrPending(rebuilt'.effect[e], effect'[e]),
               \A r \in Runs : rebuilt'.expires[r] <= expires'[r],
               rebuilt'.request \subseteq request',
               request' \ rebuilt'.request \subseteq gap',
               \A r \in Runs : expires'[r] <= now' + LeaseTerm
        PROVE  ReplayInv'
    BY <1>d, AgreementNext DEF ReplayInv, TermsBounded
  <1>1. CASE Unreplayed
    <2>1. rebuilt' = rebuilt
      BY <1>a, <1>1, FoldsNothing
    <2>2. \A r \in Runs : expires'[r] <= now' + LeaseTerm
      BY <1>a, <1>b, <1>1 DEF Unreplayed
    <2>3. \A e \in Effects : SameOrPending(rebuilt'.effect[e], effect'[e])
      BY <1>a, <1>1, <2>1 DEF Unreplayed
    <2> QED BY <1>a, <1>d, <1>1, <2>1, <2>2, <2>3 DEF Unreplayed
  <1>2. ASSUME NEW E \in SUBSET Effects, NEW status \in [E -> AdmitStatuses],
               NEW D \in SUBSET Dependency, NEW o \in RuleTerminals \cup {"running"},
               CommitRule(E, status, D, o)
        PROVE  ReplayInv'
    <2>1. /\ instance = "running" /\ (E # {} \/ o # "running")
          /\ \A e \in E : effect[e] = "absent"
          /\ effect' = [e \in Effects |-> IF e \in E THEN status[e] ELSE effect[e]]
          /\ deps' = deps \cup D /\ instance' = o
          /\ UNCHANGED <<epoch, run, lease, expires, request, gap, now>>
      BY <1>2 DEF CommitRule, runVars, ledgerVars
    <2>2. \A e \in E : effect'[e] \in AdmitStatuses
      BY <2>1
    <2>3. Inserted = E
      BY <2>1, <2>2, StatusAssumption DEF Inserted, TypeOK
    <2>4. /\ StartedNow = {} /\ SettledNow = {} /\ ExpiredNow = {}
          /\ RetriedNow = {} /\ RequestedNow = {} /\ RunlessNow = {}
      BY <2>1, <2>2 DEF TypeOK, StartedNow, SettledNow, ExpiredNow, RetriedNow, RequestedNow,
         RunlessNow, RetryableEffectStatuses
    <2>5. rebuilt' = ReplayInstance(ReplayRuleCommit(rebuilt, E, effect', deps' \ deps), instance')
      BY <1>a, <2>1, <2>3, <2>4 DEF Replayed
    <2>a. /\ rebuilt \in TableRows /\ effect' \in [Effects -> EffectStatuses]
          /\ deps' \ deps \in SUBSET Dependency /\ instance' \in InstanceStatuses
      BY <1>a DEF TypeOK
    <2>6. /\ rebuilt' \in TableRows
          /\ rebuilt'.instance = instance' /\ rebuilt'.epoch = rebuilt.epoch
          /\ rebuilt'.deps = rebuilt.deps \cup (deps' \ deps)
          /\ rebuilt'.run = rebuilt.run /\ rebuilt'.lease = rebuilt.lease
          /\ rebuilt'.expires = rebuilt.expires /\ rebuilt'.request = rebuilt.request
          /\ \A e \in E : rebuilt'.effect[e] = effect'[e]
          /\ \A e \in Effects \ E : rebuilt'.effect[e] = rebuilt.effect[e]
      <3>1. Committed(rebuilt', rebuilt, E, effect', deps' \ deps, instance')
        BY <2>5, <2>a, ReplaysCommit
      <3> QED BY <3>1 DEF Committed
    <2>7. rebuilt'.deps = deps'
      BY <1>a, <2>1, <2>6
    <2>8. \A e \in Effects : SameOrPending(rebuilt'.effect[e], effect'[e])
      BY <1>a, <2>1, <2>6
    <2> QED BY <1>a, <1>d, <2>1, <2>6, <2>7, <2>8
  <1>3. ASSUME NEW s \in OperatorStatuses, TransitionInstance(s)
        PROVE  ReplayInv'
    <2>1. /\ instance' = s /\ instance' # instance
          /\ UNCHANGED <<epoch, effect, deps, run, lease, expires, request, gap, now>>
      BY <1>3 DEF TransitionInstance, InstanceTransitions, effectVars, runVars, ledgerVars
    <2>2. Inserted = {} /\ deps' \ deps = {}
      BY <2>1 DEF Inserted
    <2>3. /\ StartedNow = {} /\ SettledNow = {} /\ ExpiredNow = {}
          /\ RetriedNow = {} /\ RequestedNow = {} /\ RunlessNow = {}
      BY <2>1 DEF StartedNow, SettledNow, ExpiredNow, RetriedNow, RequestedNow,
         RunlessNow, RetryableEffectStatuses
    <2>4. rebuilt' = ReplayInstance(ReplayRuleCommit(rebuilt, {}, effect', {}), instance')
      BY <1>a, <2>1, <2>2, <2>3 DEF Replayed
    <2>a. /\ rebuilt \in TableRows /\ effect' \in [Effects -> EffectStatuses]
          /\ {} \in SUBSET Dependency /\ {} \in SUBSET Effects /\ instance' \in InstanceStatuses
      BY <1>a DEF TypeOK
    <2>5. /\ rebuilt' \in TableRows
          /\ rebuilt'.instance = instance' /\ rebuilt'.epoch = rebuilt.epoch
          /\ rebuilt'.deps = rebuilt.deps \cup {}
          /\ rebuilt'.run = rebuilt.run /\ rebuilt'.lease = rebuilt.lease
          /\ rebuilt'.expires = rebuilt.expires /\ rebuilt'.request = rebuilt.request
          /\ \A e \in Effects \ {} : rebuilt'.effect[e] = rebuilt.effect[e]
      <3>1. Committed(rebuilt', rebuilt, {}, effect', {}, instance')
        BY <2>4, <2>a, ReplaysCommit
      <3> QED BY <3>1 DEF Committed
    <2> QED BY <1>a, <1>d, <2>1, <2>5
  <1>4. ASSUME NEW policy, ActivateRevision(policy)
        PROVE  ReplayInv'
    <2> DEFINE cancelled == {e \in Effects : policy # "keep" /\ Pending(e)}
               asked == {e \in Effects : policy = "request_running" /\ effect[e] = "running"}
               mid == [e \in Effects |-> IF e \in cancelled THEN "cancelled" ELSE effect[e]]
    <2>1. /\ asked \cap request = {}
          /\ epoch' = epoch + 1
          /\ effect' = IF cancelled = {} THEN effect ELSE SatisfyDependencies(mid)
          /\ gap' = gap \cup cancelled
          /\ request' = (request \ cancelled) \cup asked
          /\ UNCHANGED <<instance, deps, run, lease, expires, now>>
      BY <1>4 DEF ActivateRevision, runVars
    <2>2. mid \in [Effects -> EffectStatuses]
      BY DEF TypeOK, EffectStatuses, TerminalEffectStatuses
    <2>3. \A e \in Effects : \/ effect'[e] = mid[e]
                             \/ mid[e] = "blocked_by_dependency" /\ effect'[e] = "queued"
      BY <2>1, <2>2, DependentsReleased
    <2>4. /\ cancelled \in SUBSET Effects /\ asked \in SUBSET Effects
          /\ \A e \in cancelled : /\ effect'[e] = "cancelled"
                                  /\ effect[e] \in PendingEffectStatuses
          /\ \A e \in Effects \ cancelled : SameOrPending(effect'[e], effect[e])
      BY <2>3 DEF Pending, PendingEffectStatuses
    <2> HIDE DEF cancelled, asked, mid
    <2>5. cancelled \cap gap = {}
      BY <1>c, <2>4 DEF PendingEffectStatuses, TerminalEffectStatuses
    <2>6. RunlessNow = cancelled /\ RequestedNow = asked
      BY <2>1, <2>5 DEF RunlessNow, RequestedNow
    <2>7. epoch' # epoch /\ epoch' \in 0..MaxEpoch
      BY <2>1 DEF TypeOK
    <2>8. /\ Inserted = {} /\ StartedNow = {} /\ SettledNow = {} /\ ExpiredNow = {}
          /\ RetriedNow = {}
      BY <2>1, <2>4 DEF Inserted, StartedNow, SettledNow, ExpiredNow, RetriedNow,
         RetryableEffectStatuses, PendingEffectStatuses
    <2> DEFINE t == ReplayRevision(rebuilt, epoch')
               u == ReplayTerminal(t, cancelled, {}, effect', run')
    <2>9. rebuilt' = ReplayRequested(u, asked)
      BY <1>a, <2>1, <2>6, <2>7, <2>8 DEF Replayed
    <2>10. t \in TableRows /\ t = [rebuilt EXCEPT !.epoch = epoch']
      BY <1>a, <2>7, ReplaysOneTable
    <2>11. /\ t.instance = instance' /\ t.epoch = epoch' /\ t.deps = deps' /\ t.run = run'
           /\ t.lease = lease' /\ t.expires = rebuilt.expires /\ t.request = rebuilt.request
           /\ t.effect = rebuilt.effect
      BY <1>a, <2>1, <2>10 DEF TableRows
    <2> HIDE DEF t
    <2>12. Ended(u, t, cancelled, {}, effect', run')
      <3>1. /\ {} \in SUBSET Runs
            /\ effect' \in [Effects -> EffectStatuses] /\ run' \in [Runs -> RunStatuses]
            /\ \A e \in cancelled : effect'[e] \in TerminalEffectStatuses
        BY <2>4 DEF TypeOK, TerminalEffectStatuses
      <3> QED BY <2>4, <2>10, <3>1, ReplaysTerminal
    <2> HIDE DEF u
    <2>13. /\ u \in TableRows
           /\ u.instance = instance' /\ u.epoch = epoch' /\ u.deps = deps'
           /\ u.run = run' /\ u.lease = lease' /\ u.expires = rebuilt.expires
           /\ u.request = rebuilt.request \ cancelled
           /\ \A e \in cancelled : u.effect[e] = effect'[e]
           /\ \A e \in Effects \ cancelled : SameOrPending(u.effect[e], rebuilt.effect[e])
      BY <2>10, <2>11, <2>12 DEF Ended, TableRows
    <2>14. rebuilt' \in TableRows /\ rebuilt' = [u EXCEPT !.request = u.request \cup asked]
      BY <2>4, <2>9, <2>13, ReplaysOneTable
    <2>15. /\ rebuilt'.instance = u.instance /\ rebuilt'.epoch = u.epoch /\ rebuilt'.deps = u.deps
           /\ rebuilt'.run = u.run /\ rebuilt'.lease = u.lease /\ rebuilt'.expires = u.expires
           /\ rebuilt'.request = u.request \cup asked /\ rebuilt'.effect = u.effect
      BY <2>13, <2>14 DEF TableRows
    <2>16. \A e \in Effects : SameOrPending(rebuilt'.effect[e], effect'[e])
      BY <1>a, <2>4, <2>13, <2>15
    <2>17. rebuilt'.request \subseteq request' /\ request' \ rebuilt'.request \subseteq gap'
      BY <1>a, <2>1, <2>13, <2>15
    <2> QED BY <1>a, <1>d, <2>1, <2>13, <2>14, <2>15, <2>16, <2>17
  <1>5. ASSUME NEW r \in Runs, StartRun(r)
        PROVE  ReplayInv'
    <2>0. RunEffect[r] \in Effects
      BY RunEffectAssumption
    <2>1. /\ run[r] = "absent" /\ effect[RunEffect[r]] \in PendingEffectStatuses
          /\ effect' = [effect EXCEPT ![RunEffect[r]] = "running"]
          /\ run' = [run EXCEPT ![r] = "running"]
          /\ lease' = [lease EXCEPT ![r] = "active"]
          /\ expires' = [expires EXCEPT ![r] = now + LeaseTerm]
          /\ UNCHANGED <<instance, epoch, deps, request, gap, now>>
      BY <1>5 DEF StartRun, Startable, Pending
    <2>2. StartedNow = {r}
      BY <2>1 DEF TypeOK, StartedNow
    <2>3. /\ Inserted = {} /\ SettledNow = {} /\ ExpiredNow = {}
          /\ RetriedNow = {} /\ RequestedNow = {} /\ RunlessNow = {}
      BY <2>0, <2>1 DEF TypeOK, Inserted, SettledNow, ExpiredNow, RetriedNow, RequestedNow,
         RunlessNow, RetryableEffectStatuses, PendingEffectStatuses
    <2>4. rebuilt' = ReplayRunStarted(rebuilt, {r}, expires')
      BY <1>a, <2>1, <2>2, <2>3 DEF Replayed
    <2>5. rebuilt.effect[RunEffect[r]] \in PendingEffectStatuses
      BY <1>a, <2>0, <2>1
    <2>6. /\ rebuilt' \in TableRows
          /\ rebuilt'.instance = rebuilt.instance /\ rebuilt'.epoch = rebuilt.epoch
          /\ rebuilt'.deps = rebuilt.deps /\ rebuilt'.request = rebuilt.request
          /\ rebuilt'.run = [rebuilt.run EXCEPT ![r] = "running"]
          /\ rebuilt'.lease = [rebuilt.lease EXCEPT ![r] = "active"]
          /\ rebuilt'.expires = [rebuilt.expires EXCEPT ![r] = expires'[r]]
          /\ rebuilt'.effect = [rebuilt.effect EXCEPT ![RunEffect[r]] = "running"]
      <3>1. rebuilt \in TableRows /\ expires' \in [Runs -> Nat]
        BY <1>a, <1>b
      <3> QED BY <2>4, <2>5, <3>1, ReplaysStart
    <2>7. \A e \in Effects : SameOrPending(rebuilt'.effect[e], effect'[e])
      BY <1>a, <2>0, <2>1, <2>6 DEF TypeOK, TableRows
    <2>8. \A a \in Runs : /\ rebuilt'.expires[a] <= expires'[a]
                          /\ expires'[a] <= now' + LeaseTerm
      BY <1>a, <1>b, <2>1, <2>6 DEF TableRows
    <2> QED BY <1>a, <1>d, <2>1, <2>6, <2>7, <2>8
  <1>6. ASSUME NEW r \in Runs, NEW s \in FinalRunStatuses \ {"lease_expired"},
               NEW t \in TerminalEffectStatuses, SettleRun(r, s, t)
        PROVE  ReplayInv'
    <2>0. RunEffect[r] \in Effects
      BY RunEffectAssumption
    <2> DEFINE x == RunEffect[r]
    <2>1. /\ run[r] = "running"
          /\ run' = [run EXCEPT ![r] = s]
          /\ lease' = [lease EXCEPT ![r] = Released(lease[r])]
          /\ effect'[x] = t
          /\ \A e \in Effects \ {x} : SameOrPending(effect'[e], effect[e])
          /\ request' = request \ {x}
          /\ UNCHANGED <<instance, epoch, deps, expires, gap, now>>
      <3>1. [effect EXCEPT ![x] = t] \in [Effects -> EffectStatuses]
        BY <2>0 DEF TypeOK, EffectStatuses
      <3>2. \A e \in Effects :
              LET mid == [effect EXCEPT ![x] = t]
              IN  \/ effect'[e] = mid[e]
                  \/ mid[e] = "blocked_by_dependency" /\ effect'[e] = "queued"
        BY <1>6, <3>1, DependentsReleased DEF SettleRun, Settleable
      <3>3. effect'[x] = t /\ \A e \in Effects \ {x} : SameOrPending(effect'[e], effect[e])
        BY <2>0, <3>2 DEF TypeOK, PendingEffectStatuses, TerminalEffectStatuses
      <3> QED BY <1>6, <3>3 DEF SettleRun, Settleable, ledgerVars
    <2>2. s \notin {"absent", "running", "lease_expired"} /\ s \in RunStatuses
      BY DEF FinalRunStatuses
    <2>3. SettledNow = {r} /\ {RunEffect[a] : a \in SettledNow} = {x}
      BY <2>1, <2>2 DEF SettledNow, TypeOK
    <2>4. /\ Inserted = {} /\ StartedNow = {} /\ ExpiredNow = {}
          /\ RetriedNow = {} /\ RequestedNow = {} /\ RunlessNow = {}
      <3>1. Inserted = {} /\ RetriedNow = {}
        <4>1. effect[x] \in {"running"} \cup TerminalEffectStatuses
          BY <2>0, <2>1 DEF Backing, OrphanedRunBlocksRedispatch, Terminal
        <4> QED BY <2>1, <4>1 DEF Inserted, RetriedNow, RetryableEffectStatuses,
                   PendingEffectStatuses, TerminalEffectStatuses
      <3>2. StartedNow = {} /\ ExpiredNow = {}
        BY <2>1, <2>2 DEF StartedNow, ExpiredNow, Released, TypeOK
      <3> QED BY <2>1, <3>1, <3>2 DEF RequestedNow, RunlessNow
    <2>5. rebuilt' = ReplayTerminal(rebuilt, {x}, {r}, effect', run')
      BY <1>a, <2>1, <2>3, <2>4 DEF Replayed
    <2>6. Ended(rebuilt', rebuilt, {x}, {r}, effect', run')
      <3>1. /\ rebuilt \in TableRows /\ {x} \in SUBSET Effects /\ {r} \in SUBSET Runs
            /\ effect' \in [Effects -> EffectStatuses] /\ run' \in [Runs -> RunStatuses]
            /\ \A e \in {x} : effect'[e] \in TerminalEffectStatuses
        BY <1>a, <2>0, <2>1 DEF TypeOK
      <3> QED BY <2>5, <3>1, ReplaysTerminal
    <2>7. /\ rebuilt' \in TableRows
          /\ rebuilt'.instance = rebuilt.instance /\ rebuilt'.epoch = rebuilt.epoch
          /\ rebuilt'.deps = rebuilt.deps /\ rebuilt'.expires = rebuilt.expires
          /\ rebuilt'.request = rebuilt.request \ {x}
          /\ rebuilt'.effect[x] = effect'[x]
          /\ \A e \in Effects \ {x} : SameOrPending(rebuilt'.effect[e], rebuilt.effect[e])
      BY <2>6 DEF Ended
    <2>8. rebuilt'.run = run' /\ rebuilt'.lease = lease'
      <3>1. /\ rebuilt'.run = [a \in Runs |-> IF a \in {r} THEN run'[a] ELSE run[a]]
            /\ rebuilt'.lease = [a \in Runs |-> IF a \in {r} THEN Released(lease[a]) ELSE lease[a]]
        BY <1>a, <2>6 DEF Ended
      <3>2. run \in [Runs -> RunStatuses] /\ lease \in [Runs -> LeaseStatuses]
        BY DEF TypeOK
      <3>3. run' = [a \in Runs |-> IF a \in {r} THEN run'[a] ELSE run[a]]
        BY <2>1, <3>2
      <3>4. lease' = [a \in Runs |-> IF a \in {r} THEN Released(lease[a]) ELSE lease[a]]
        BY <2>1, <3>2
      <3> QED BY <3>1, <3>3, <3>4
    <2>9. \A e \in Effects : SameOrPending(rebuilt'.effect[e], effect'[e])
      BY <1>a, <2>1, <2>7
    <2>10. rebuilt'.request \subseteq request' /\ request' \ rebuilt'.request \subseteq gap'
      BY <1>a, <2>1, <2>7
    <2> QED BY <1>a, <1>d, <2>1, <2>7, <2>8, <2>9, <2>10
  <1>7. ASSUME NEW e \in Effects, ExpireEffect(e)
        PROVE  ReplayInv'
    <2>1. /\ effect[e] \notin TerminalEffectStatuses \cup {"absent"}
          /\ effect'[e] = "timed_out"
          /\ \A x \in Effects \ {e} : SameOrPending(effect'[x], effect[x])
          /\ gap' = gap \cup {e}
          /\ request' = request
          /\ UNCHANGED <<instance, epoch, deps, run, lease, expires, now>>
      BY <1>7 DEF ExpireEffect, Unsettled, runVars, TypeOK
    <2>2. e \notin gap
      BY <1>c, <2>1
    <2>3. RunlessNow = {e}
      BY <2>1, <2>2 DEF RunlessNow
    <2>4. /\ Inserted = {} /\ StartedNow = {} /\ SettledNow = {} /\ ExpiredNow = {}
          /\ RetriedNow = {} /\ RequestedNow = {}
      BY <2>1 DEF Inserted, StartedNow, SettledNow, ExpiredNow, RetriedNow, RequestedNow,
         RetryableEffectStatuses, PendingEffectStatuses
    <2>5. rebuilt' = ReplayTerminal(rebuilt, {e}, {}, effect', run')
      BY <1>a, <2>1, <2>3, <2>4 DEF Replayed
    <2>6. Ended(rebuilt', rebuilt, {e}, {}, effect', run')
      <3>1. /\ rebuilt \in TableRows /\ {e} \in SUBSET Effects /\ {} \in SUBSET Runs
            /\ effect' \in [Effects -> EffectStatuses] /\ run' \in [Runs -> RunStatuses]
            /\ \A x \in {e} : effect'[x] \in TerminalEffectStatuses
        BY <1>a, <2>1 DEF TypeOK, TerminalEffectStatuses
      <3> QED BY <2>5, <3>1, ReplaysTerminal
    <2>7. /\ rebuilt' \in TableRows
          /\ rebuilt'.instance = rebuilt.instance /\ rebuilt'.epoch = rebuilt.epoch
          /\ rebuilt'.deps = rebuilt.deps /\ rebuilt'.expires = rebuilt.expires
          /\ rebuilt'.request = rebuilt.request \ {e}
          /\ rebuilt'.run = rebuilt.run /\ rebuilt'.lease = rebuilt.lease
          /\ rebuilt'.effect[e] = effect'[e]
          /\ \A x \in Effects \ {e} : SameOrPending(rebuilt'.effect[x], rebuilt.effect[x])
      BY <1>a, <2>6 DEF Ended, TableRows
    <2>8. \A x \in Effects : SameOrPending(rebuilt'.effect[x], effect'[x])
      BY <1>a, <2>1, <2>7
    <2>9. rebuilt'.request \subseteq request' /\ request' \ rebuilt'.request \subseteq gap'
      BY <1>a, <2>1, <2>7
    <2> QED BY <1>a, <1>d, <2>1, <2>7, <2>8, <2>9
  <1>8. ASSUME NEW e \in Effects, CancelEffect(e)
        PROVE  ReplayInv'
    <2>1. /\ effect[e] \notin TerminalEffectStatuses \cup {"absent"}
          /\ effect'[e] = "cancelled"
          /\ \A x \in Effects \ {e} : SameOrPending(effect'[x], effect[x])
          /\ gap' = gap \cup {e}
          /\ request' = request \ {e}
          /\ UNCHANGED <<instance, epoch, deps, run, lease, expires, now>>
      <3>1. [effect EXCEPT ![e] = "cancelled"] \in [Effects -> EffectStatuses]
        BY DEF TypeOK, EffectStatuses, TerminalEffectStatuses
      <3>2. \A x \in Effects :
              LET mid == [effect EXCEPT ![e] = "cancelled"]
              IN  \/ effect'[x] = mid[x]
                  \/ mid[x] = "blocked_by_dependency" /\ effect'[x] = "queued"
        BY <1>8, <3>1, DependentsReleased DEF CancelEffect
      <3>3. /\ effect'[e] = "cancelled"
            /\ \A x \in Effects \ {e} : SameOrPending(effect'[x], effect[x])
        BY <3>2 DEF TypeOK, PendingEffectStatuses
      <3> QED BY <1>8, <3>3 DEF CancelEffect, Unsettled, runVars
    <2>2. e \notin gap
      BY <1>c, <2>1
    <2>3. RunlessNow = {e}
      BY <2>1, <2>2 DEF RunlessNow
    <2>4. /\ Inserted = {} /\ StartedNow = {} /\ SettledNow = {} /\ ExpiredNow = {}
          /\ RetriedNow = {} /\ RequestedNow = {}
      BY <2>1 DEF Inserted, StartedNow, SettledNow, ExpiredNow, RetriedNow, RequestedNow,
         RetryableEffectStatuses, PendingEffectStatuses
    <2>5. rebuilt' = ReplayTerminal(rebuilt, {e}, {}, effect', run')
      BY <1>a, <2>1, <2>3, <2>4 DEF Replayed
    <2>6. Ended(rebuilt', rebuilt, {e}, {}, effect', run')
      <3>1. /\ rebuilt \in TableRows /\ {e} \in SUBSET Effects /\ {} \in SUBSET Runs
            /\ effect' \in [Effects -> EffectStatuses] /\ run' \in [Runs -> RunStatuses]
            /\ \A x \in {e} : effect'[x] \in TerminalEffectStatuses
        BY <1>a, <2>1 DEF TypeOK, TerminalEffectStatuses
      <3> QED BY <2>5, <3>1, ReplaysTerminal
    <2>7. /\ rebuilt' \in TableRows
          /\ rebuilt'.instance = rebuilt.instance /\ rebuilt'.epoch = rebuilt.epoch
          /\ rebuilt'.deps = rebuilt.deps /\ rebuilt'.expires = rebuilt.expires
          /\ rebuilt'.request = rebuilt.request \ {e}
          /\ rebuilt'.run = rebuilt.run /\ rebuilt'.lease = rebuilt.lease
          /\ rebuilt'.effect[e] = effect'[e]
          /\ \A x \in Effects \ {e} : SameOrPending(rebuilt'.effect[x], rebuilt.effect[x])
      BY <1>a, <2>6 DEF Ended, TableRows
    <2>8. \A x \in Effects : SameOrPending(rebuilt'.effect[x], effect'[x])
      BY <1>a, <2>1, <2>7
    <2>9. rebuilt'.request \subseteq request' /\ request' \ rebuilt'.request \subseteq gap'
      BY <1>a, <2>1, <2>7
    <2> QED BY <1>a, <1>d, <2>1, <2>7, <2>8, <2>9
  <1>9. ASSUME NEW e \in Effects, RequestCancellation(e)
        PROVE  ReplayInv'
    <2>1. /\ effect[e] = "running" /\ e \notin request
          /\ request' = request \cup {e}
          /\ UNCHANGED <<instance, epoch, effect, deps, run, lease, expires, gap, now>>
      BY <1>9 DEF RequestCancellation, runVars, ledgerVars
    <2>2. RequestedNow = {e}
      BY <2>1 DEF RequestedNow
    <2>3. /\ Inserted = {} /\ StartedNow = {} /\ SettledNow = {} /\ ExpiredNow = {}
          /\ RetriedNow = {} /\ RunlessNow = {}
      BY <2>1 DEF Inserted, StartedNow, SettledNow, ExpiredNow, RetriedNow, RunlessNow,
         RetryableEffectStatuses
    <2>4. rebuilt' = ReplayRequested(rebuilt, {e})
      BY <1>a, <2>1, <2>2, <2>3 DEF Replayed
    <2>5. /\ rebuilt' \in TableRows
          /\ rebuilt' = [rebuilt EXCEPT !.request = rebuilt.request \cup {e}]
      BY <1>a, <2>4, ReplaysOneTable
    <2>6. /\ rebuilt'.instance = rebuilt.instance /\ rebuilt'.epoch = rebuilt.epoch
          /\ rebuilt'.deps = rebuilt.deps /\ rebuilt'.request = rebuilt.request \cup {e}
          /\ rebuilt'.run = rebuilt.run /\ rebuilt'.lease = rebuilt.lease
          /\ rebuilt'.expires = rebuilt.expires /\ rebuilt'.effect = rebuilt.effect
      BY <1>a, <2>5 DEF TableRows
    <2>7. rebuilt'.request \subseteq request' /\ request' \ rebuilt'.request \subseteq gap'
      BY <1>a, <2>1, <2>6
    <2> QED BY <1>a, <1>d, <2>1, <2>5, <2>6, <2>7
  <1>10. ASSUME NEW e \in Effects, RetryEffect(e)
         PROVE  ReplayInv'
    <2>1. /\ effect[e] \in RetryableEffectStatuses
          /\ effect' = [effect EXCEPT ![e] = "queued"]
          /\ UNCHANGED <<instance, epoch, deps, run, lease, expires, request, gap, now>>
      BY <1>10 DEF RetryEffect, runVars, ledgerVars
    <2>2. RetriedNow = {e}
      BY <2>1 DEF TypeOK, RetriedNow, RetryableEffectStatuses
    <2>3. /\ Inserted = {} /\ StartedNow = {} /\ SettledNow = {} /\ ExpiredNow = {}
          /\ RequestedNow = {} /\ RunlessNow = {}
      BY <2>1 DEF TypeOK, Inserted, StartedNow, SettledNow, ExpiredNow, RequestedNow,
         RunlessNow, RetryableEffectStatuses
    <2>4. rebuilt' = ReplayRetried(rebuilt, {e})
      BY <1>a, <2>1, <2>2, <2>3 DEF Replayed
    <2>5. rebuilt.effect[e] \in RetryableEffectStatuses
      BY <1>a, <2>1 DEF RetryableEffectStatuses, PendingEffectStatuses
    <2>6. /\ rebuilt' \in TableRows
          /\ rebuilt'.instance = rebuilt.instance /\ rebuilt'.epoch = rebuilt.epoch
          /\ rebuilt'.deps = rebuilt.deps /\ rebuilt'.request = rebuilt.request
          /\ rebuilt'.run = rebuilt.run /\ rebuilt'.lease = rebuilt.lease
          /\ rebuilt'.expires = rebuilt.expires
          /\ rebuilt'.effect = [rebuilt.effect EXCEPT ![e] = "queued"]
      BY <1>a, <2>4, <2>5, ReplaysRetry
    <2>7. \A x \in Effects : SameOrPending(rebuilt'.effect[x], effect'[x])
      BY <1>a, <2>1, <2>6 DEF TypeOK, TableRows
    <2> QED BY <1>a, <1>d, <2>1, <2>6, <2>7
  <1>11. ASSUME NEW r \in Runs, RenewLease(r)
         PROVE  ReplayInv'
    <2>1. rebuilt' = rebuilt
      BY <1>a, <1>11, FoldsNothing
    <2>2. /\ expires' = [expires EXCEPT ![r] = now + LeaseTerm]
          /\ UNCHANGED <<instance, epoch, effect, deps, run, lease, request, gap, now>>
      BY <1>11 DEF RenewLease, effectVars, ledgerVars
    <2>3. \A a \in Runs : /\ rebuilt'.expires[a] <= expires'[a]
                          /\ expires'[a] <= now' + LeaseTerm
      BY <1>a, <1>b, <2>1, <2>2
    <2> QED BY <1>a, <1>d, <2>1, <2>2, <2>3
  <1>12. CASE ExpireLeases
    <2> DEFINE due == {r \in Runs : lease[r] = "active" /\ expires[r] <= now}
    <2>1. /\ lease' = [r \in Runs |-> IF r \in due THEN "expired" ELSE lease[r]]
          /\ run' = [r \in Runs |-> IF r \in due /\ ~IsExec(r) /\ run[r] = "running"
                                    THEN "lease_expired" ELSE run[r]]
          /\ \A e \in Effects : effect'[e] =
                IF effect[e] = "running" /\ \E r \in due : ~IsExec(r) /\ RunEffect[r] = e
                THEN "failed" ELSE effect[e]
          /\ UNCHANGED <<instance, epoch, deps, expires, request, gap, now>>
          /\ due # {}
      BY <1>12 DEF ExpireLeases, ledgerVars
    <2>2. ExpiredNow = due
      BY <2>1 DEF ExpiredNow
    <2>3. /\ Inserted = {} /\ StartedNow = {} /\ SettledNow = {}
          /\ RetriedNow = {} /\ RequestedNow = {} /\ RunlessNow = {}
      BY <2>1 DEF Inserted, StartedNow, SettledNow, RetriedNow, RequestedNow, RunlessNow,
         RetryableEffectStatuses
    <2>a. due \in SUBSET Runs
      OBVIOUS
    <2> HIDE DEF due
    <2>4. rebuilt' = ReplayLeaseExpired(rebuilt, due)
      BY <1>a, <2>1, <2>2, <2>3 DEF Replayed
    <2>5. /\ rebuilt' \in TableRows
          /\ rebuilt'.instance = rebuilt.instance /\ rebuilt'.epoch = rebuilt.epoch
          /\ rebuilt'.deps = rebuilt.deps /\ rebuilt'.expires = rebuilt.expires
          /\ rebuilt'.request = rebuilt.request
          /\ rebuilt'.lease = [r \in Runs |-> IF r \in due THEN "expired" ELSE rebuilt.lease[r]]
          /\ rebuilt'.run = [r \in Runs |->
                IF r \in due /\ ~IsExec(r) /\ rebuilt.run[r] = "running"
                THEN "lease_expired" ELSE rebuilt.run[r]]
          /\ \A e \in Effects : rebuilt'.effect[e] =
                IF rebuilt.effect[e] = "running" /\ \E r \in due : ~IsExec(r) /\ RunEffect[r] = e
                THEN "failed" ELSE rebuilt.effect[e]
      BY <1>a, <2>4, <2>a, ReplaysExpiry
    <2>6. rebuilt'.run = run' /\ rebuilt'.lease = lease'
      BY <1>a, <2>1, <2>5
    <2>7. \A e \in Effects : SameOrPending(rebuilt'.effect[e], effect'[e])
      BY <1>a, <2>1, <2>5 DEF PendingEffectStatuses
    <2> QED BY <1>a, <1>d, <2>1, <2>5, <2>6, <2>7
  <1> QED
    BY <1>1, <1>2, <1>3, <1>4, <1>5, <1>6, <1>7, <1>8, <1>9, <1>10, <1>11, <1>12, TableSteps
       DEF StoreStep

\* A fresh instance is what an empty log folds to.
LEMMA InitReplay == ReplayInit => ReplayInv
  <1> SUFFICES ASSUME ReplayInit PROVE ReplayInv
    OBVIOUS
  <1>1. TypeOK
    BY InitType DEF ReplayInit
  <1>2. /\ instance = "running" /\ gap = {} /\ request = {} /\ now = 0
        /\ expires = [r \in Runs |-> 0] /\ rebuilt = [tables EXCEPT !.instance = "running"]
    BY DEF ReplayInit, Init
  <1>3. /\ rebuilt \in TableRows
        /\ rebuilt.instance = instance /\ rebuilt.epoch = epoch /\ rebuilt.deps = deps
        /\ rebuilt.run = run /\ rebuilt.lease = lease /\ rebuilt.effect = effect
        /\ rebuilt.expires = expires /\ rebuilt.request = request
    BY <1>1, <1>2 DEF tables, TypeOK, TableRows
  <1>4. \A r \in Runs : rebuilt.expires[r] <= expires[r] /\ expires[r] <= now + LeaseTerm
    BY <1>2, <1>3, BoundsAssumption
  <1>5. RebuildAgrees
    BY <1>2, <1>3, <1>4, Agreement
  <1> QED BY <1>3, <1>4, <1>5 DEF ReplayInv, TermsBounded

\* Everything the store's safety rests on.
StoreInv ==
    TypeOK /\ Backing /\ Knowledge /\ Succession /\ Edges /\ CancelledExecIsFenced /\ CapacityInv

\* What a rebuild puts in the place of the live tables.
LEMMA RebuiltRows ==
    ASSUME TypeOK, ReplayInv, Rebuild
    PROVE  /\ UNCHANGED <<instance, epoch, deps, run, lease>>
           /\ UNCHANGED <<blockKeys, named, tracked, fence, proof, outcome, absence, settlement,
                          attempt, gap, target, now, rebuilt>>
           /\ effect' = rebuilt.effect /\ expires' = rebuilt.expires /\ request' = rebuilt.request
           /\ effect' \in [Effects -> EffectStatuses]
           /\ \A e \in Effects : SameOrPending(effect'[e], effect[e])
           /\ \A r \in Runs : expires'[r] <= expires[r]
           /\ TypeOK'
  <1>1. /\ rebuilt \in TableRows
        /\ rebuilt.instance = instance /\ rebuilt.epoch = epoch /\ rebuilt.deps = deps
        /\ rebuilt.run = run /\ rebuilt.lease = lease
        /\ \A e \in Effects : SameOrPending(rebuilt.effect[e], effect[e])
        /\ \A r \in Runs : rebuilt.expires[r] <= expires[r]
    BY Agreement DEF ReplayInv, SameOrPending
  <1>2. /\ rebuilt.effect \in [Effects -> EffectStatuses] /\ rebuilt.expires \in [Runs -> Nat]
        /\ rebuilt.request \in SUBSET Effects
    BY <1>1 DEF TableRows
  <1>3. /\ instance' = rebuilt.instance /\ epoch' = rebuilt.epoch /\ effect' = rebuilt.effect
        /\ category' = [e \in Effects |-> "none"] /\ deps' = rebuilt.deps /\ run' = rebuilt.run
        /\ lease' = rebuilt.lease /\ expires' = rebuilt.expires /\ request' = rebuilt.request
        /\ UNCHANGED <<blockKeys, named, tracked, fence, proof, outcome, absence, settlement,
                       attempt, gap, target, now, rebuilt>>
    BY DEF Rebuild, execVars, ledgerVars
  <1>4. TypeOK'
    BY <1>1, <1>2, <1>3 DEF TypeOK
  <1> QED BY <1>1, <1>2, <1>3, <1>4

\* A rebuild keeps all of it: rows that wait go on waiting, all others are
\* the ones that were there.
LEMMA RebuildKeeps == StoreInv /\ ReplayInv /\ Rebuild => StoreInv' /\ ReplayInv'
  <1> SUFFICES ASSUME StoreInv, ReplayInv, Rebuild PROVE StoreInv' /\ ReplayInv'
    OBVIOUS
  <1>a. /\ UNCHANGED <<instance, epoch, deps, run, lease>>
        /\ UNCHANGED <<blockKeys, named, tracked, fence, proof, outcome, absence, settlement,
                       attempt, gap, target, now, rebuilt>>
        /\ effect' = rebuilt.effect /\ expires' = rebuilt.expires /\ request' = rebuilt.request
        /\ effect' \in [Effects -> EffectStatuses]
        /\ \A e \in Effects : SameOrPending(effect'[e], effect[e])
        /\ \A r \in Runs : expires'[r] <= expires[r]
        /\ TypeOK'
    BY RebuiltRows DEF StoreInv
  <1>b. \A e \in Effects :
          /\ effect'[e] \in TerminalEffectStatuses \cup {"running", "absent"}
                <=> effect[e] \in TerminalEffectStatuses \cup {"running", "absent"}
          /\ effect[e] \in TerminalEffectStatuses \cup {"running", "absent"}
                => effect'[e] = effect[e]
          /\ effect'[e] \in PendingEffectStatuses <=> effect[e] \in PendingEffectStatuses
    BY <1>a DEF SameOrPending, PendingEffectStatuses, TerminalEffectStatuses
  <1>c. \A e \in Effects :
          \A s \in TerminalEffectStatuses \cup {"running", "absent"} :
             effect'[e] = s <=> effect[e] = s
    BY <1>b
  <1>d. \A r \in Runs : RunEffect[r] \in Effects
    BY RunEffectAssumption
  <1>1. Backing'
    <2>1. AtMostOneRunningRun' /\ RunningIsBacked' /\ Unfinished'
      BY <1>a, <1>c, <1>d DEF StoreInv, Backing, AtMostOneRunningRun, RunningIsBacked, Unfinished,
         RunningRuns, RunsOf, IsExec, TerminalEffectStatuses
    <2>2. OrphanedRunBlocksRedispatch'
      BY <1>a, <1>b, <1>c, <1>d DEF StoreInv, Backing, OrphanedRunBlocksRedispatch, Terminal, TypeOK
    <2> QED BY <2>1, <2>2 DEF Backing
  <1>2. Knowledge'
    BY <1>a, <1>c, <1>d DEF StoreInv, Knowledge, Dispatched, Truthful, Started, IsExec
  <1>3. Succession'
    BY <1>a, <1>b, <1>d DEF StoreInv, Succession, PendingIsClosed, Answered, Closed, Started,
       Pending, IsExec
  <1>4. Edges'
    <2>1. \A d \in deps : d.up \in Effects /\ d.down \in Effects
      BY DependencyAssumption DEF StoreInv, TypeOK
    <2> QED BY <1>a, <1>c, <2>1 DEF StoreInv, Edges, EdgesHaveRows, SucceedsOrder, Started, RunsOf,
               TerminalEffectStatuses
  <1>5. CancelledExecIsFenced'
    BY <1>a DEF StoreInv, CancelledExecIsFenced
  <1>6. CapacityInv'
    <2>1. AgentsRunning' = AgentsRunning
      BY <1>c, KindsAssumption DEF AgentsRunning
    <2> QED BY <2>1 DEF StoreInv, CapacityInv
  <1>7. ReplayInv'
    <2>1. /\ rebuilt \in TableRows
          /\ rebuilt.instance = instance /\ rebuilt.epoch = epoch /\ rebuilt.deps = deps
          /\ rebuilt.run = run /\ rebuilt.lease = lease
          /\ \A r \in Runs : expires[r] <= now + LeaseTerm
      BY Agreement DEF ReplayInv, TermsBounded
    <2>2. \A r \in Runs : /\ rebuilt'.expires[r] <= expires'[r]
                          /\ expires'[r] <= now' + LeaseTerm
      <3>1. /\ now \in Nat /\ LeaseTerm \in Nat
            /\ expires \in [Runs -> Nat] /\ expires' \in [Runs -> Nat]
        BY <1>a, BoundsAssumption DEF StoreInv, TypeOK
      <3> QED BY <1>a, <2>1, <3>1
    <2>3. RebuildAgrees'
      BY <1>a, <2>1, <2>2, AgreementNext
    <2> QED BY <1>a, <2>1, <2>2, <2>3 DEF ReplayInv, TermsBounded
  <1> QED BY <1>a, <1>1, <1>2, <1>3, <1>4, <1>5, <1>6, <1>7 DEF StoreInv

\* The store's invariants and the agreement of the fold, together.
LEMMA StepStoreReplay ==
    StoreInv /\ ReplayInv /\ [ReplayNext]_replayVars => StoreInv' /\ ReplayInv'
  <1> SUFFICES ASSUME StoreInv, ReplayInv, [ReplayNext]_replayVars PROVE StoreInv' /\ ReplayInv'
    OBVIOUS
  <1>1. ASSUME [Next]_vars
        PROVE  StoreInv'
    BY <1>1, StepType, StepBacking, StepKnowledge, StepSuccession, StepEdges, StepFences,
       StepCapacity DEF StoreInv
  <1>2. CASE StoreStep
    <2>1. StoreInv'
      BY <1>1, <1>2 DEF StoreStep
    <2> QED BY <1>2, <2>1, StepReplay DEF StoreInv
  <1>3. CASE Rebuild
    BY <1>3, RebuildKeeps
  <1>4. CASE UNCHANGED replayVars
    <2>1. StoreInv'
      BY <1>1, <1>4 DEF replayVars
    <2>2. ReplayInv'
      BY <1>4 DEF ReplayInv, RebuildAgrees, TermsBounded, tables, replayVars, vars, effectVars,
         runVars, ledgerVars
    <2> QED BY <2>1, <2>2
  <1> QED BY <1>2, <1>3, <1>4 DEF ReplayNext

\* The store with rebuilds keeps its invariants and its agreement with the log.
LEMMA StoreReplayHolds == ReplaySpec => [](StoreInv /\ ReplayInv)
  <1>1. ReplayInit => StoreInv /\ ReplayInv
    BY InitReplay, InitType, InitBacking, InitKnowledge, InitSuccession, InitEdges, InitFences,
       InitCapacity DEF ReplayInit, StoreInv
  <1> QED BY <1>1, StepStoreReplay, PTL DEF ReplaySpec

\* rebuild_projections gives back what the transactions wrote, after any history
\* of operations and earlier rebuilds.
THEOREM RebuildIsFaithful == ReplaySpec => []RebuildAgrees
  <1>1. ReplayInv => RebuildAgrees
    BY DEF ReplayInv
  <1> QED BY <1>1, StoreReplayHolds, PTL

\* Replacing the tables by the fold of the log at any moment breaks none of
\* what the store promises of runs, attempts, fences and order.
THEOREM SafeAcrossRebuild ==
    ReplaySpec => /\ [](/\ AtMostOneRunningRun
                        /\ NoBlindResubmission
                        /\ NoOverlappingIncarnations
                        /\ CancelledExecIsFenced
                        /\ SucceedsOrder)
                  /\ CompletedIsFinal
  <1>1. StoreInv => /\ AtMostOneRunningRun
                    /\ NoBlindResubmission
                    /\ NoOverlappingIncarnations
                    /\ CancelledExecIsFenced
                    /\ SucceedsOrder
    <2>1. Knowledge /\ Succession => NoBlindResubmission
      BY DEF Knowledge, Dispatched, Succession, Answered, NoBlindResubmission
    <2>2. Knowledge /\ Succession => NoOverlappingIncarnations
      BY DEF Knowledge, Dispatched, Succession, Closed, NoOverlappingIncarnations
    <2> QED BY <2>1, <2>2 DEF StoreInv, Backing, Edges
  <1>2. StoreInv /\ ReplayInv /\ [ReplayNext]_replayVars
           => [\A e \in Effects : effect[e] = "completed" => effect'[e] = "completed"]_vars
    <2> SUFFICES ASSUME StoreInv, ReplayInv, [ReplayNext]_replayVars,
                        NEW e \in Effects, effect[e] = "completed"
                 PROVE  effect'[e] = "completed"
      OBVIOUS
    <2>1. CASE Rebuild
      BY <2>1, RebuiltRows DEF StoreInv, SameOrPending, PendingEffectStatuses
    <2>2. CASE [Next]_vars
      BY <2>2, EffectMoves DEF StoreInv
    <2> QED BY <2>1, <2>2 DEF ReplayNext, StoreStep, replayVars
  <1> QED BY <1>1, <1>2, StoreReplayHolds, PTL DEF ReplaySpec, CompletedIsFinal

-----------------------------------------------------------------------------
(* The due-time pass beside the workers: what it holds is stale, what it   *)
(* records is so.  Its steps are steps of the store or leave the store     *)
(* alone, so that the theorems above hold beside it as well.               *)

\* What the pass holds between two of its calls is still an effect of the
\* instance, and the run it read still a run id, however stale.
Held ==
    /\ pass.at \in {"fire", "complete"} => pass.e \in Timers
    /\ pass.at \in {"read", "fence", "settle", "derive"} => pass.e \in Timed
    /\ pass.at \in {"complete", "fence"} => pass.r \in Runs

\* The pass's own variables.
PassState ==
    /\ pass \in PassStates
    /\ spent \subseteq Timed
    /\ facts \subseteq Timed
    /\ crashes \in 0..MaxCrashes
    /\ Held

\* An instance starts with no pass under way.
LEMMA InitPassState == PassInit => PassState
  BY TimePassAssumption DEF PassInit, PassState, Held, PassStates, IdlePass

\* The next place of the pass is one of its places, and holds a timer or a
\* timed effect of what was left to do.
LEMMA ResumePlace ==
  ASSUME NEW todo \in SUBSET Timed, NEW p \in Resume(todo)
  PROVE  /\ p \in PassStates
         /\ p.at \in {"idle", "fire", "read"}
         /\ p.at = "fire" => p.e \in Timers
         /\ p.at = "read" => p.e \in Timed \ Timers
<1>1. CASE p = IdlePass
  BY <1>1 DEF IdlePass, PassStates
<1>2. CASE p # IdlePass
  <2>1. PICK e \in todo :
          p = [at |-> IF e \in Timers THEN "fire" ELSE "read",
               e |-> e, r |-> NoRun, todo |-> todo \ {e}]
    BY <1>2 DEF Resume
  <2>2. e \in Timed
    OBVIOUS
  <2> QED
    BY <2>1, <2>2 DEF PassStates
<1> QED
  BY <1>1, <1>2

\* A step of the pass, of the store or a crash keeps the pass's variables typed
\* and what it holds an effect or a run of the instance.
LEMMA StepPassState ==
  ASSUME PassState, [PassNext]_allVars
  PROVE  PassState'
<1> USE DEF PassState
<1>1. CASE BeginPass
  <2>1. PICK todo \in SUBSET Timed : pass' \in Resume(todo)
    BY <1>1 DEF BeginPass
  <2>2. /\ pass' \in PassStates
        /\ Held'
    BY <2>1, ResumePlace DEF Held
  <2> QED
    BY <1>1, <2>2 DEF BeginPass
<1>2. CASE FireTimer
  <2>1. pass.e \in Timers /\ TimerRun[pass.e] \in Runs
    BY <1>2, TimePassAssumption DEF FireTimer, Held
  <2> QED
    BY <1>2, <2>1, TimePassAssumption DEF FireTimer, PassStates, Held
<1>3. CASE CompleteTimer
  BY <1>3, TimePassAssumption DEF CompleteTimer, PassStates, Held
<1>4. CASE ReadRun
  BY <1>4 DEF ReadRun, PassStates, Held, RunningRuns, RunsOf
<1>5. CASE FenceRun
  BY <1>5 DEF FenceRun, PassStates, Held
<1>6. CASE SettleDeadline
  BY <1>6 DEF SettleDeadline, PassStates, Held
<1>7. CASE DeriveFact
  <2>1. pass.todo \in SUBSET Timed
    BY DEF PassStates
  <2>2. /\ pass' \in PassStates
        /\ Held'
    BY <1>7, <2>1, ResumePlace DEF DeriveFact, Held
  <2> QED
    BY <1>7, <2>2 DEF DeriveFact, Held
<1>8. CASE AbortPass
  BY <1>8 DEF AbortPass, IdlePass, PassStates, Held
<1>9. CASE Crash
  BY <1>9, TimePassAssumption DEF Crash, IdlePass, PassStates, Held
<1>10. CASE UNCHANGED passVars
  BY <1>10 DEF passVars, Held
<1> QED
  BY <1>1, <1>2, <1>3, <1>4, <1>5, <1>6, <1>7, <1>8, <1>9, <1>10
     DEF PassNext, PassStep, OtherStep, allVars

\* Every step of the pass is an operation of the store, or none.
LEMMA StepStore ==
  ASSUME PassState, [PassNext]_allVars
  PROVE  [Next]_vars
<1> USE DEF PassState
<1>1. CASE FireTimer
  <2>1. TimerRun[pass.e] \in Runs
    BY <1>1, TimePassAssumption DEF FireTimer, Held
  <2>2. CASE StartRun(TimerRun[pass.e])
    BY <2>1, <2>2 DEF Next, RunStep
  <2> QED
    BY <1>1, <2>2 DEF FireTimer
<1>2. CASE CompleteTimer
  <2>1. pass.r \in Runs /\ CompleteEffect(pass.r, "completed")
    BY <1>2 DEF CompleteTimer, Held
  <2>2. RunStep(pass.r)
    BY <2>1 DEF RunStep, TerminalEffectStatuses
  <2> QED
    BY <2>1, <2>2 DEF Next
<1>3. CASE FenceRun
  <2>1. pass.r \in Runs
    BY <1>3 DEF FenceRun, Held
  <2>2. CASE EnsureFence(pass.r, "deadline")
    BY <2>1, <2>2, TimePassAssumption DEF Next, ExecStep
  <2> QED
    BY <1>3, <2>2 DEF FenceRun
<1>4. CASE SettleDeadline
  <2>1. CASE pass.r # NoRun /\ CompleteEffect(pass.r, "timed_out")
    <3>1. pass.r \in Runs
      BY <2>1 DEF PassStates
    <3>2. RunStep(pass.r)
      BY <2>1 DEF RunStep, TerminalEffectStatuses
    <3> QED
      BY <3>1, <3>2 DEF Next
  <2>2. CASE pass.r = NoRun /\ ExpireEffect(pass.e)
    <3>1. pass.e \in Effects
      BY <1>4, TimePassAssumption DEF SettleDeadline, Held
    <3> QED
      BY <2>2, <3>1 DEF Next
  <2> QED
    BY <1>4, <2>1, <2>2 DEF SettleDeadline
<1>5. CASE OtherStep
  BY <1>5 DEF OtherStep, Next
<1>6. CASE UNCHANGED vars
  BY <1>6
<1> QED
  BY <1>1, <1>2, <1>3, <1>4, <1>5, <1>6
     DEF PassNext, PassStep, BeginPass, ReadRun, DeriveFact, AbortPass, Crash, allVars

\* The store's own behaviour, with the pass beside it.
LEMMA StoreBesidePass == PassSpec => Spec /\ []PassState
<1>1. PassSpec => []PassState
  BY InitPassState, StepPassState, PTL DEF PassSpec
<1>2. PassInit => Init
  BY DEF PassInit
<1> QED
  BY <1>1, <1>2, StepStore, PTL DEF PassSpec, Spec

\* Type correctness of the store and the pass together.
THEOREM PassTypeCorrect == PassSpec => []PassTypeOK
<1>1. PassState /\ TypeOK => PassTypeOK
  BY DEF PassState, PassTypeOK
<1> QED
  BY <1>1, StoreBesidePass, TypeCorrect, PTL

\* With the due-time pass, its stale reads and its crashes beside the workers,
\* one run of an effect is running at most, an attempt of unknown fate is never
\* followed by another and no incarnation is overlapped by its retry.
THEOREM SafeBesidePass ==
  PassSpec => [](AtMostOneRunningRun /\ NoBlindResubmission /\ NoOverlappingIncarnations)
BY StoreBesidePass, OneRunningRun, NoResubmission, NoOverlap, PTL

-----------------------------------------------------------------------------
(* What the pass records.                                                  *)

\* The fact the pass derives for an effect is so.
Recorded(e) ==
    IF e \in Timers
    THEN effect[e] = "completed"
    ELSE e \in gap \/ \E r \in RunsOf(e) : run[r] = "timed_out"

\* A run that outlives its effect was left behind by the operator's cancellation,
\* or by an expiry, which spends the key the pass would use again.
OrphansKnown ==
    \A e \in gap : RunningRuns(e) # {} => effect[e] = "cancelled" \/ e \in spent

\* The run the pass read is a run of the effect it is at, and once the terminal
\* is in the log nothing makes the fact that follows it false.
PassInv ==
    /\ pass.at = "complete" => pass.r \in RunsOf(pass.e)
    /\ pass.at \in {"read", "fence", "settle"} => pass.e \notin Timers
    /\ pass.at \in {"fence", "settle"} => pass.r = NoRun \/ pass.r \in RunsOf(pass.e)
    /\ pass.at = "derive" => Recorded(pass.e)
    /\ OrphansKnown

\* No store operation makes a gap or a timed-out run undone, and whatever leaves
\* a run behind its effect is a cancellation.
LEMMA OrphanMoves ==
    ASSUME TypeOK, Backing, Unexpiring
    PROVE  /\ gap \subseteq gap'
           /\ \A r \in Runs : run[r] = "timed_out" => run'[r] = "timed_out"
           /\ \A e \in gap' : RunningRuns(e)' # {}
                 => \/ effect'[e] = "cancelled"
                    \/ e \in gap /\ RunningRuns(e) # {} /\ effect'[e] = effect[e]
<1> DEFINE Goal == /\ gap \subseteq gap'
                   /\ \A r \in Runs : run[r] = "timed_out" => run'[r] = "timed_out"
                   /\ \A e \in gap' : RunningRuns(e)' # {}
                         => \/ effect'[e] = "cancelled"
                            \/ e \in gap /\ RunningRuns(e) # {} /\ effect'[e] = effect[e]
<1> SUFFICES Goal
  OBVIOUS
<1>0. \A e \in gap : e \in Effects /\ effect[e] \in TerminalEffectStatuses
  BY DEF TypeOK, Backing, OrphanedRunBlocksRedispatch, Terminal
<1>t. /\ gap \subseteq Effects
      /\ effect \in [Effects -> EffectStatuses]
      /\ run \in [Runs -> RunStatuses]
      /\ RunEffect \in [Runs -> Effects]
  BY RunEffectAssumption DEF TypeOK
<1> USE DEF RunningRuns, RunsOf
<1>1. CASE UNCHANGED <<effect, run, lease, gap>>
  BY <1>1
<1>2. ASSUME NEW E \in SUBSET Effects, NEW status \in [E -> AdmitStatuses],
             NEW D \in SUBSET Dependency, NEW o, CommitRule(E, status, D, o)
      PROVE  Goal
  <2>1. \A e \in E : effect[e] = "absent"
    BY <1>2 DEF CommitRule
  <2>2. \A e \in gap : effect'[e] = effect[e]
    BY <1>2, <1>0, <2>1 DEF CommitRule, TerminalEffectStatuses
  <2> QED
    BY <1>2, <2>2 DEF CommitRule, runVars, ledgerVars
<1>3. ASSUME NEW policy, ActivateRevision(policy)
      PROVE  Goal
  <2> DEFINE cancelled == {e \in Effects : policy # "keep" /\ Pending(e)}
             mid == [e \in Effects |-> IF e \in cancelled THEN "cancelled" ELSE effect[e]]
  <2>1. mid \in [Effects -> EffectStatuses]
    BY <1>t DEF EffectStatuses, TerminalEffectStatuses
  <2>2. \A e \in Effects : \/ effect'[e] = mid[e]
                           \/ mid[e] = "blocked_by_dependency" /\ effect'[e] = "queued"
    BY <1>3, <2>1, DependentsReleased DEF ActivateRevision
  <2>3. gap' = gap \cup cancelled /\ run' = run
    BY <1>3 DEF ActivateRevision, runVars
  <2>4. \A e \in gap : effect'[e] = effect[e]
    BY <1>0, <2>2 DEF TerminalEffectStatuses, Pending, PendingEffectStatuses
  <2>5. \A e \in cancelled : effect'[e] = "cancelled"
    BY <2>2
  <2> QED
    BY <2>3, <2>4, <2>5
<1>4. ASSUME NEW e \in Effects, NEW s \in PendingEffectStatuses, Blocked(e, s)
      PROVE  Goal
  BY <1>4, <1>0, <1>t DEF Blocked, Pending, PendingEffectStatuses, TerminalEffectStatuses
<1>5. ASSUME NEW r \in Runs, StartRun(r)
      PROVE  Goal
  <2>1. /\ run[r] = "absent" /\ RunEffect[r] \notin gap
        /\ gap' = gap
        /\ effect' = [effect EXCEPT ![RunEffect[r]] = "running"]
        /\ run' = [run EXCEPT ![r] = "running"]
    BY <1>5, <1>0 DEF StartRun, Startable, Pending, PendingEffectStatuses,
       TerminalEffectStatuses
  <2> QED
    BY <2>1, <1>t
<1>6. ASSUME NEW r \in Runs, NEW s \in FinalRunStatuses, NEW t \in TerminalEffectStatuses,
             SettleRun(r, s, t)
      PROVE  Goal
  <2> DEFINE mid == [effect EXCEPT ![RunEffect[r]] = t]
  <2>1. /\ run[r] = "running" /\ gap' = gap
        /\ run' = [run EXCEPT ![r] = s]
        /\ effect' = SatisfyDependencies(mid)
    BY <1>6 DEF SettleRun, Settleable, ledgerVars
  <2>2. mid \in [Effects -> EffectStatuses]
    BY <1>t DEF EffectStatuses
  <2>3. \A e \in gap : e # RunEffect[r] => effect'[e] = effect[e]
    BY <1>0, <1>t, <2>1, <2>2, DependentsReleased DEF TerminalEffectStatuses
  <2>4. \A x \in Runs : run'[x] = "running" => x # r /\ run[x] = "running"
    BY <2>1, <1>t DEF FinalRunStatuses
  <2>5. RunningRuns(RunEffect[r])' = {}
    BY <2>1, <2>4, <1>t DEF Backing, AtMostOneRunningRun
  <2> QED
    BY <2>1, <2>3, <2>4, <2>5, <1>t
<1>7. ASSUME NEW e \in Effects, CancelEffect(e)
      PROVE  Goal
  <2> DEFINE mid == [effect EXCEPT ![e] = "cancelled"]
  <2>1. gap' = gap \cup {e} /\ run' = run /\ effect' = SatisfyDependencies(mid)
    BY <1>7 DEF CancelEffect, runVars
  <2>2. mid \in [Effects -> EffectStatuses]
    BY <1>t DEF EffectStatuses, TerminalEffectStatuses
  <2>3. /\ \A x \in gap : x # e => effect'[x] = effect[x]
        /\ effect'[e] = "cancelled"
    BY <1>0, <1>t, <2>1, <2>2, DependentsReleased DEF TerminalEffectStatuses
  <2> QED
    BY <2>1, <2>3
<1>8. ASSUME NEW e \in Effects, RetryEffect(e)
      PROVE  Goal
  <2>1. e \notin gap
    BY <1>8 DEF RetryEffect, ProvedAbsence
  <2> QED
    BY <1>8, <2>1, <1>0, <1>t DEF RetryEffect, runVars, ledgerVars
<1>9. ASSUME ExpireLeases
      PROVE  Goal
  <2>1. /\ gap' = gap
        /\ \A r \in Runs : run'[r] = run[r] \/ (run[r] = "running" /\ run'[r] = "lease_expired")
        /\ \A e \in Effects : effect[e] # "running" => effect'[e] = effect[e]
    <3>1. gap' = gap
      BY <1>9 DEF ExpireLeases, ledgerVars
    <3>2. PICK failed \in SUBSET Runs :
            /\ run' = [r \in Runs |-> IF r \in failed /\ run[r] = "running"
                                     THEN "lease_expired" ELSE run[r]]
            /\ effect' = [e \in Effects |->
                            IF effect[e] = "running" /\ \E r \in failed : RunEffect[r] = e
                            THEN "failed" ELSE effect[e]]
      BY <1>9 DEF ExpireLeases
    <3>3. \A r \in Runs : run'[r] = run[r] \/ (run[r] = "running" /\ run'[r] = "lease_expired")
      BY <3>2
    <3>4. \A e \in Effects : effect[e] # "running" => effect'[e] = effect[e]
      BY <3>2
    <3> QED
      BY <3>1, <3>3, <3>4
  <2> QED
    BY <2>1, <1>0, <1>t DEF TerminalEffectStatuses
<1> HIDE DEF Goal
<1> QED
  BY <1>1, <1>2, <1>3, <1>4, <1>5, <1>6, <1>7, <1>8, <1>9, UnexpiringRowSteps

\* An instance starts with nothing recorded.
LEMMA InitPassInv == PassInit => PassInv
BY DEF PassInit, PassInv, Init, IdlePass, OrphansKnown

\* A fact the pass may derive stays one it may derive, whatever the store does.
LEMMA RecordedStays ==
    ASSUME TypeOK, Backing, PassState, Unexpiring, NEW e \in Timed, Recorded(e)
    PROVE  Recorded(e)'
<1>1. [Next]_vars
  BY DEF Unexpiring, Next
<1>2. e \in Effects
  BY TimePassAssumption
<1>3. CASE e \in Timers
  BY <1>1, <1>2, <1>3, EffectMoves DEF Recorded
<1>4. CASE e \notin Timers
  BY <1>4, OrphanMoves DEF Recorded, RunsOf
<1> QED
  BY <1>3, <1>4

\* The operations of the other actors keep what the pass relies on.
LEMMA StorePassInv ==
    ASSUME TypeOK, Backing, PassState, PassInv, Unexpiring
    PROVE  OrphansKnown' \/ spent' # spent
<1> SUFFICES ASSUME spent' = spent, NEW e \in gap', RunningRuns(e)' # {}
             PROVE  effect'[e] = "cancelled" \/ e \in spent
  BY DEF OrphansKnown
<1> QED
  BY OrphanMoves DEF PassInv, OrphansKnown

\* Every step of the pass and of the store beside it keeps PassInv.
LEMMA StepPassInv ==
    ASSUME TypeOK, Backing, PassState, PassInv, [PassNext]_allVars
    PROVE  PassInv'
<1> USE DEF PassInv
<1>e. pass.at = "derive" => pass.e \in Timed
  BY DEF PassState, Held
<1>q. CASE UNCHANGED vars /\ spent' = spent /\ pass' = pass
  <2>1. UNCHANGED <<effect, run, gap>>
    BY <1>q DEF vars, effectVars, runVars, ledgerVars
  <2>2. OrphansKnown' /\ (pass.at = "derive" => Recorded(pass.e)')
    BY <1>q, <2>1 DEF OrphansKnown, Recorded, RunningRuns, RunsOf
  <2> QED
    BY <1>q, <2>2 DEF RunsOf
<1>v. ASSUME UNCHANGED vars, spent' = spent
      PROVE  OrphansKnown' /\ \A e : Recorded(e)' <=> Recorded(e)
  <2>1. UNCHANGED <<effect, run, gap>>
    BY <1>v DEF vars, effectVars, runVars, ledgerVars
  <2> QED
    BY <1>v, <2>1 DEF OrphansKnown, Recorded, RunningRuns, RunsOf
<1>1. CASE BeginPass
  <2>1. PICK todo \in SUBSET Timed : pass' \in Resume(todo)
    BY <1>1 DEF BeginPass
  <2>2. /\ pass'.at \in {"idle", "fire", "read"}
        /\ pass'.at = "read" => pass'.e \in Timed \ Timers
    BY <2>1, ResumePlace
  <2> QED
    BY <1>1, <1>v, <2>2 DEF BeginPass
<1>2. CASE FireTimer
  <2>1. pass.e \in Timers /\ TimerRun[pass.e] \in RunsOf(pass.e)
    BY <1>2, TimePassAssumption DEF FireTimer, PassState, Held, RunsOf
  <2>2. /\ pass' = [pass EXCEPT !.at = "complete", !.r = TimerRun[pass.e]]
        /\ spent' = spent
    BY <1>2 DEF FireTimer
  <2>3. Unexpiring
    BY <1>2, <2>1 DEF FireTimer, Unexpiring, RunStep, RunsOf
  <2>4. OrphansKnown'
    BY <2>2, <2>3, StorePassInv
  <2>5. pass'.at = "complete" /\ pass'.r = TimerRun[pass.e] /\ pass'.e = pass.e
    BY <2>2 DEF PassState, PassStates
  <2> QED
    BY <2>1, <2>4, <2>5 DEF RunsOf
<1>3. CASE CompleteTimer
  <2>1. pass.e \in Timers /\ pass.r \in Runs /\ RunEffect[pass.r] = pass.e
    BY <1>3 DEF CompleteTimer, PassState, Held, RunsOf
  <2>2. CompleteEffect(pass.r, "completed") /\ spent' = spent \cup {pass.e}
    BY <1>3 DEF CompleteTimer
  <2>3. Unexpiring
    BY <2>1, <2>2 DEF Unexpiring, RunStep, TerminalEffectStatuses
  <2>4. OrphansKnown'
    BY <2>2, <2>3, OrphanMoves DEF OrphansKnown
  <2>5. effect'[pass.e] = "completed"
    <3> DEFINE mid == [effect EXCEPT ![pass.e] = "completed"]
    <3>1. effect' = SatisfyDependencies(mid) /\ pass.e \in Effects
      BY <2>1, <2>2, RunEffectAssumption DEF CompleteEffect, SettleRun
    <3>2. mid \in [Effects -> EffectStatuses] /\ mid[pass.e] = "completed"
      BY <3>1 DEF TypeOK, EffectStatuses, TerminalEffectStatuses
    <3> QED
      BY <3>1, <3>2, DependentsReleased
  <2>6. pass'.at = "derive" /\ pass'.e = pass.e
    BY <1>3 DEF CompleteTimer, PassState, PassStates
  <2> QED
    BY <2>1, <2>4, <2>5, <2>6 DEF Recorded
<1>4. CASE ReadRun
  <2>1. /\ pass' \in PassStates /\ pass'.at \in {"fence", "settle"} /\ pass'.e = pass.e
        /\ pass'.r = NoRun \/ pass'.r \in RunsOf(pass.e)
    BY <1>4, StepPassState DEF ReadRun, PassState, PassStates, RunningRuns, PassNext, PassStep
  <2> QED
    BY <1>4, <1>v, <2>1 DEF ReadRun, RunsOf
<1>5. CASE FenceRun
  <2>1. pass.r \in Runs /\ pass' = [pass EXCEPT !.at = "settle"] /\ spent' = spent
    BY <1>5 DEF FenceRun, PassState, Held
  <2>2. Unexpiring
    BY <1>5, <2>1, TimePassAssumption DEF FenceRun, Unexpiring, ExecStep
  <2>3. OrphansKnown'
    BY <2>1, <2>2, StorePassInv
  <2>4. pass'.at = "settle" /\ pass'.e = pass.e /\ pass'.r = pass.r
    BY <2>1 DEF PassState, PassStates
  <2> QED
    BY <1>5, <2>3, <2>4 DEF FenceRun, RunsOf
<1>6. CASE SettleDeadline
  <2>1. /\ pass.e \notin Timers
        /\ pass'.at = "derive" /\ pass'.e = pass.e
        /\ spent' = spent \cup {pass.e}
    BY <1>6 DEF SettleDeadline, PassState, PassStates
  <2>2. CASE pass.r # NoRun /\ CompleteEffect(pass.r, "timed_out")
    <3>1. pass.r \in Runs /\ RunEffect[pass.r] = pass.e
      BY <1>6, <2>2 DEF SettleDeadline, RunsOf
    <3>2. Unexpiring
      BY <2>2, <3>1 DEF Unexpiring, RunStep, TerminalEffectStatuses
    <3>3. OrphansKnown'
      BY <2>1, <3>2, OrphanMoves DEF OrphansKnown
    <3>4. run'[pass.r] = "timed_out"
      BY <2>2, <3>1 DEF CompleteEffect, SettleRun, TypeOK
    <3> QED
      BY <2>1, <3>1, <3>3, <3>4 DEF Recorded, RunsOf
  <2>3. CASE pass.r = NoRun /\ ExpireEffect(pass.e)
    <3>1. /\ gap' = gap \cup {pass.e} /\ run' = run
          /\ effect' = [effect EXCEPT ![pass.e] = "timed_out"]
      BY <2>3 DEF ExpireEffect, runVars
    <3>2. \A e \in gap : e # pass.e => effect'[e] = effect[e]
      BY <3>1 DEF TypeOK
    <3>3. OrphansKnown'
      BY <2>1, <3>1, <3>2 DEF OrphansKnown, RunningRuns, RunsOf
    <3> QED
      BY <2>1, <3>1, <3>3 DEF Recorded
  <2> QED
    BY <1>6, <2>2, <2>3 DEF SettleDeadline
<1>7. CASE DeriveFact
  <2>1. pass.todo \in SUBSET Timed
    BY DEF PassState, PassStates
  <2>2. /\ pass'.at \in {"idle", "fire", "read"}
        /\ pass'.at = "read" => pass'.e \in Timed \ Timers
    BY <1>7, <2>1, ResumePlace DEF DeriveFact
  <2> QED
    BY <1>7, <1>v, <2>2 DEF DeriveFact
<1>8. CASE AbortPass \/ Crash
  BY <1>8, <1>v DEF AbortPass, Crash, IdlePass
<1>9. CASE OtherStep
  <2>1. UNCHANGED <<pass, spent>>
    BY <1>9 DEF OtherStep, passVars
  <2>2. Unexpiring
    BY <1>9 DEF OtherStep, Unexpiring
  <2>3. OrphansKnown'
    BY <2>1, <2>2, StorePassInv
  <2>4. \A e \in Timed : Recorded(e) => Recorded(e)'
    BY <2>2, RecordedStays
  <2>5. pass.at = "derive" => Recorded(pass.e)'
    <3> SUFFICES ASSUME NEW e, e = pass.e, pass.at = "derive"
                 PROVE  Recorded(e)'
      BY <2>1
    <3> QED
      BY <1>e, <2>4
  <2> QED
    BY <2>1, <2>3, <2>5 DEF RunsOf
<1> QED
  BY <1>q, <1>1, <1>2, <1>3, <1>4, <1>5, <1>6, <1>7, <1>8, <1>9
     DEF PassNext, PassStep, allVars, passVars

\* The pass's terminal goes to an effect that is still open, or to one the
\* operator cancelled over its running run, and its facts are so, for every
\* schedule of the workers between two of its calls.
THEOREM PassTellsTheTruth == PassSpec => PassRecordsTruth
<1>1. ASSUME TypeOK, Backing, PassState, PassInv, [PassNext]_allVars
      PROVE  /\ \A e \in spent' \ spent :
                  Terminal(e) => effect[e] = "cancelled" /\ RunningRuns(e) # {}
             /\ \A e \in facts' \ facts : Recorded(e)
  <2>1. ASSUME NEW r \in RunsOf(pass.e), run[r] = "running", pass.e \notin spent,
               Terminal(pass.e)
        PROVE  effect[pass.e] = "cancelled" /\ RunningRuns(pass.e) # {}
    <3>1. r \in Runs /\ RunEffect[r] = pass.e /\ r \in RunningRuns(pass.e)
      BY <2>1 DEF RunsOf, RunningRuns
    <3>2. pass.e \in gap
      BY <1>1, <2>1, <3>1 DEF Backing, OrphanedRunBlocksRedispatch, Terminal,
         TerminalEffectStatuses
    <3> QED
      BY <1>1, <2>1, <3>1, <3>2 DEF PassInv, OrphansKnown
  <2>2. CASE CompleteTimer
    BY <1>1, <2>1, <2>2 DEF CompleteTimer, CompleteEffect, SettleRun, Settleable, PassInv
  <2>3. CASE SettleDeadline
    <3>1. /\ pass.e \notin spent
          /\ spent' = spent \cup {pass.e} /\ facts' = facts
          /\ pass.r = NoRun \/ pass.r \in RunsOf(pass.e)
      BY <1>1, <2>3 DEF SettleDeadline, PassInv
    <3>2. \/ pass.r # NoRun /\ run[pass.r] = "running"
          \/ ~Terminal(pass.e)
      BY <2>3 DEF SettleDeadline, CompleteEffect, SettleRun, Settleable, ExpireEffect,
         Unsettled, Terminal
    <3> QED
      BY <2>1, <3>1, <3>2
  <2>4. CASE DeriveFact
    BY <1>1, <2>4 DEF DeriveFact, PassInv
  <2>5. CASE UNCHANGED <<spent, facts>>
    BY <2>5
  <2> QED
    BY <1>1, <2>2, <2>3, <2>4, <2>5 DEF PassNext, PassStep, BeginPass, FireTimer, ReadRun,
       FenceRun, AbortPass, Crash, OtherStep, passVars, allVars
<1>2. PassSpec => []PassInv
  BY InitPassInv, StepPassInv, StoreBesidePass, TypeCorrect, BackingHolds, PTL DEF PassSpec
<1>3. TypeOK /\ Backing /\ PassState /\ PassInv /\ [PassNext]_allVars
        => [/\ \A e \in spent' \ spent :
                 Terminal(e) => effect[e] = "cancelled" /\ RunningRuns(e) # {}
            /\ \A e \in facts' \ facts :
                 IF e \in Timers
                 THEN effect[e] = "completed"
                 ELSE e \in gap \/ \E r \in RunsOf(e) : run[r] = "timed_out"]_allVars
  BY <1>1 DEF Recorded
<1> QED
  BY <1>2, <1>3, StoreBesidePass, TypeCorrect, BackingHolds, PTL DEF PassSpec, PassRecordsTruth
=============================================================================
