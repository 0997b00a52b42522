---------------------------- MODULE Coordination ----------------------------
(***************************************************************************)
(* Leases, one counter and one ledger that instances share through the     *)
(* coordination database, and the effects through which they use them.     *)
(*                                                                         *)
(* The coordination database and the instance store are two files.  A      *)
(* worker handles an effect in up to five steps that nothing makes one:    *)
(* it lists the effect and reads the clock, changes the coordination       *)
(* database, starts the run, completes it and derives the fact.  Any       *)
(* number of workers do this at once, also for the same effect, and each   *)
(* may die between two steps.                                              *)
(***************************************************************************)
EXTENDS Integers, FiniteSetsExt

CONSTANTS
    Instances, Keys, Workers, Effects,
    Kind,         \* lease.acquire, lease.release, lease.renew, ledger.append, counter.consume
    InstanceOf,   \* the instance each effect belongs to
    KeyOf,        \* the lease key of an effect; a release or renew has its acquire's
    Acquire,      \* the acquire a release or renew names
    Waits,        \* acquires with a `wait' clause
    WaitUntil,    \* when that wait ends, anchored at the effect's creation
    Malformed,    \* effects whose input lacks a number the handler requires
    Amount, Cap,  \* of each consume, as the workflow wrote them
    Slots, Ttl,   \* of the lease
    Retain,       \* of the ledger
    PeriodLength, \* of the counter
    MaxInt,       \* the largest i64
    Programs,     \* sets of effects; the rules of one program commit those of one set
    Cancellable,  \* effects an operator or a recovery may give up
    Ending,       \* instances that may end
    MaxTime, MaxCrashes

Kinds == {"acquire", "release", "renew", "append", "consume"}

ASSUME CoordinationAssumption ==
    /\ Kind \in [Effects -> Kinds]
    /\ InstanceOf \in [Effects -> Instances]
    /\ KeyOf \in [Effects -> Keys]
    /\ Acquire \in [{e \in Effects : Kind[e] \in {"release", "renew"}} -> Effects]
    /\ \A e \in DOMAIN Acquire : /\ KeyOf[Acquire[e]] = KeyOf[e]
                                 /\ InstanceOf[Acquire[e]] = InstanceOf[e]
    /\ Waits \subseteq Effects
    /\ WaitUntil \in [Waits -> Nat]
    /\ Malformed \subseteq Effects
    /\ MaxInt \in Nat
    /\ Amount \in [Effects -> (-MaxInt)..MaxInt]
    /\ Cap \in [Effects -> 0..MaxInt]
    /\ Slots \in Nat /\ Ttl \in Nat \ {0} /\ Retain \in Nat \ {0}
    /\ PeriodLength \in Nat \ {0}
    /\ Programs \subseteq SUBSET Effects
    /\ Cancellable \subseteq Effects /\ Ending \subseteq Instances
    /\ MaxTime \in Nat /\ MaxCrashes \in Nat

VARIABLES
    \* The coordination database.
    expires,    \* leases.expires_at by key and holder; NoRow when there is no row
    consumed,   \* counters.consumed
    period,     \* counters.period
    nextSeq,    \* ledger_seq.next_seq
    entries,    \* ledger_entries
    applied,    \* coord_applied.outcome_json
    \* The instance store.
    instance,   \* running; ended: terminal committed; released: its cleanup ran
    effect,     \* effects.status
    run,        \* status of the one run id the handler derives from the effect
    value,      \* what the terminal recorded
    fact,       \* effects whose outcome fact was derived
    \* The processes.
    work,       \* where each worker is
    now, crashes,
    \* History, for the properties only.
    promise,    \* until when the store told the holder it holds the slot
    charges     \* every charge: the effect, its period and the amount

leaseVars  == <<expires, promise>>
budgetVars == <<consumed, period, charges>>
ledgerVars == <<nextSeq, entries>>
storeVars  == <<instance, effect, run, value, fact>>
vars == <<leaseVars, budgetVars, ledgerVars, applied, storeVars, work, now, crashes>>

NoRow == 0 - 1
NoEffect == "none"
None == [variant |-> "none", number |-> 0]

Variants == {"none", "Held", "Contended", "Released", "Renewed", "NotHeld", "Appended",
             "Ok", "Over", "Malformed"}
Values == [variant : Variants, number : Nat]

Idle == [at |-> "idle", e |-> NoEffect, clock |-> 0, value |-> None]
WorkStates == [at : {"idle", "act", "start", "complete", "derive"},
               e : Effects \cup {NoEffect}, clock : Nat, value : Values]

CoordTypeOK ==
    /\ expires \in [Keys -> [Instances -> Nat \cup {NoRow}]]
    /\ consumed \in Int
    /\ period \in Nat
    /\ nextSeq \in Nat
    /\ entries \subseteq [seq : Nat, by : Effects, at : Nat]
    /\ applied \in [Effects -> Values]
    /\ instance \in [Instances -> {"running", "ended", "released"}]
    /\ effect \in [Effects -> {"absent", "queued", "running", "completed", "failed", "cancelled"}]
    /\ run \in [Effects -> {"absent", "running", "settled"}]
    /\ value \in [Effects -> Values]
    /\ fact \subseteq Effects
    /\ work \in [Workers -> WorkStates]
    /\ now \in 0..MaxTime
    /\ crashes \in 0..MaxCrashes
    /\ promise \in [Keys -> [Instances -> Nat]]
    /\ charges \subseteq [e : Effects, nth : Nat, period : Nat, amount : Int]

CoordInit ==
    /\ expires = [k \in Keys |-> [i \in Instances |-> NoRow]]
    /\ consumed = 0
    /\ period = 0
    /\ nextSeq = 1
    /\ entries = {}
    /\ applied = [e \in Effects |-> None]
    /\ instance = [i \in Instances |-> "running"]
    \* A release or a renewal is only committed when its acquire is held.
    /\ \E P \in Programs :
           effect = [e \in Effects |-> IF e \in P \ DOMAIN Acquire THEN "queued" ELSE "absent"]
    /\ run = [e \in Effects |-> "absent"]
    /\ value = [e \in Effects |-> None]
    /\ fact = {}
    /\ work = [w \in Workers |-> Idle]
    /\ now = 0
    /\ crashes = 0
    /\ promise = [k \in Keys |-> [i \in Instances |-> 0]]
    /\ charges = {}

-----------------------------------------------------------------------------
(* The coordination database: each operator is one Immediate transaction,  *)
(* and ends with the answer the handler goes on with.                      *)

Answer(w, variant, number) ==
    work' = [work EXCEPT ![w].at = "start",
                         ![w].value = [variant |-> variant, number |-> number]]

\* The rows left after the DELETE of expired ones.
LiveRows(k) == [i \in Instances |-> IF expires[k][i] <= now THEN NoRow ELSE expires[k][i]]
Holders(rows) == {i \in Instances : rows[i] # NoRow}

\* Mutant: a slot too many.
FreeSlotOffByOne(rows) == Cardinality(Holders(rows)) <= Slots

FreeSlot(rows) == Cardinality(Holders(rows)) < Slots

\* due_time_effects lists the acquire, by the clock the worker read.
WaitOver(w, e) == effect[e] \in {"queued", "running"} /\ work[w].clock >= WaitUntil[e]

\* try_acquire_for_owner: drop expired rows of the key, then re-enter, take a
\* free slot, or be contended.  Re-entry does not extend the row.
TryAcquire(w, e) ==
    LET k == KeyOf[e]
        i == InstanceOf[e]
        rows == LiveRows(k)
    IN /\ \/ /\ rows[i] # NoRow
             /\ expires' = [expires EXCEPT ![k] = rows]
             /\ UNCHANGED promise
             /\ Answer(w, "Held", 0)
          \/ /\ rows[i] = NoRow /\ FreeSlot(rows)
             /\ expires' = [expires EXCEPT ![k] = [rows EXCEPT ![i] = now + Ttl]]
             /\ promise' = [promise EXCEPT ![k][i] = now + Ttl]
             /\ Answer(w, "Held", 0)
          \/ /\ rows[i] = NoRow /\ ~FreeSlot(rows)
             /\ expires' = [expires EXCEPT ![k] = rows]
             /\ UNCHANGED promise
             \* `wait': the effect is left to the next worker pass until its time.
             /\ IF e \in Waits /\ ~WaitOver(w, e)
                THEN work' = [work EXCEPT ![w] = Idle]
                ELSE Answer(w, "Contended", 0)
       /\ UNCHANGED <<budgetVars, ledgerVars, applied>>

\* Mutant: the release forgets whose slot it is.
ReleaseAnyHolder(w, e) ==
    LET k == KeyOf[Acquire[e]]
    IN /\ expires' = [expires EXCEPT ![k] = [i \in Instances |-> NoRow]]
       /\ promise' = [promise EXCEPT ![k][InstanceOf[e]] = 0]
       /\ Answer(w, "Released", 0)
       /\ UNCHANGED <<budgetVars, ledgerVars, applied>>

\* release_for_owner: the row of the acquire's key and of this instance,
\* whichever acquire inserted it.
Release(w, e) ==
    LET k == KeyOf[Acquire[e]]
        i == InstanceOf[e]
    IN /\ expires' = [expires EXCEPT ![k][i] = NoRow]
       /\ promise' = [promise EXCEPT ![k][i] = 0]
       /\ Answer(w, "Released", 0)
       /\ UNCHANGED <<budgetVars, ledgerVars, applied>>

\* renew_lease_for_owner: a row that has not expired.
Renew(w, e) ==
    LET k == KeyOf[Acquire[e]]
        i == InstanceOf[e]
    IN /\ IF expires[k][i] > now
          THEN /\ expires' = [expires EXCEPT ![k][i] = now + Ttl]
               /\ promise' = [promise EXCEPT ![k][i] = now + Ttl]
               /\ Answer(w, "Renewed", now + Ttl)
          ELSE /\ Answer(w, "NotHeld", 0)
               /\ UNCHANGED <<expires, promise>>
       /\ UNCHANGED <<budgetVars, ledgerVars, applied>>

\* Mutant: the marker is not looked up.
NeverMarked(e) == FALSE

\* The effect's marker in coord_applied.
Marked(e) == applied[e] # None

\* append_for_owner_marked: number, insert, prune what is past retention, mark.
AppendEntry(w, e) ==
    IF Marked(e)
    THEN /\ Answer(w, "Appended", applied[e].number)
         /\ UNCHANGED <<ledgerVars, applied, leaseVars, budgetVars>>
    ELSE /\ nextSeq' = nextSeq + 1
         /\ entries' = {x \in entries \cup {[seq |-> nextSeq, by |-> e, at |-> now]} :
                            x.at > now - Retain}
         /\ applied' = [applied EXCEPT ![e] = [variant |-> "Appended", number |-> nextSeq]]
         /\ Answer(w, "Appended", nextSeq)
         /\ UNCHANGED <<leaseVars, budgetVars>>

PeriodOf(t) == t \div PeriodLength

\* Mutant: the sum is not checked against the width of i64 and wraps.
WrappedSum(a, b) ==
    IF a + b > MaxInt THEN a + b - 2 * (MaxInt + 1) ELSE a + b
ChargeableWrapped(current, e) ==
    Amount[e] >= 0 /\ WrappedSum(current, Amount[e]) <= Cap[e]

\* checked_add, the sign and the cap.
Chargeable(current, e) ==
    /\ current + Amount[e] \in (0 - MaxInt - 1)..MaxInt
    /\ Amount[e] >= 0
    /\ current + Amount[e] <= Cap[e]

\* consume_for_owner_marked: the period is the one of the clock the worker
\* read before; a row of any other period is reset.
Consume(w, e) ==
    LET p == PeriodOf(work[w].clock)
        current == IF period = p THEN consumed ELSE 0
        verdict == IF Chargeable(current, e) THEN "Ok" ELSE "Over"
    IN IF Marked(e)
       THEN /\ Answer(w, applied[e].variant, p)
            /\ UNCHANGED <<budgetVars, applied, leaseVars, ledgerVars>>
       ELSE /\ period' = p
            /\ consumed' = IF verdict = "Ok" THEN current + Amount[e] ELSE current
            /\ charges' = IF verdict = "Ok"
                          THEN charges \cup {[e |-> e,
                                              nth |-> Cardinality({c \in charges : c.e = e}),
                                              period |-> p, amount |-> Amount[e]]}
                          ELSE charges
            /\ applied' = [applied EXCEPT ![e] = [variant |-> verdict, number |-> 0]]
            /\ Answer(w, verdict, p)
            /\ UNCHANGED <<leaseVars, ledgerVars>>

-----------------------------------------------------------------------------
(* A worker handling an effect: run_coordination_effect_generic_ctx.       *)

\* The instant a handler goes by; only consumes and bounded waits look at it.
ReadClock(e) == IF Kind[e] = "consume" \/ e \in Waits THEN now ELSE 0

\* The claim list: a pending effect of a running instance.  Nothing reserves it.
Claim(w, e) ==
    /\ work[w] = Idle
    /\ effect[e] = "queued"
    /\ instance[InstanceOf[e]] = "running"
    /\ work' = [work EXCEPT ![w] = [Idle EXCEPT !.at = "act", !.e = e, !.clock = ReadClock(e)]]
    /\ UNCHANGED <<leaseVars, budgetVars, ledgerVars, applied, storeVars, now, crashes>>

Act(w) ==
    LET e == work[w].e
    IN /\ work[w].at = "act"
       /\ \/ /\ e \in Malformed
             /\ Answer(w, "Malformed", 0)
             /\ UNCHANGED <<leaseVars, budgetVars, ledgerVars, applied>>
          \/ /\ e \notin Malformed
             /\ \/ Kind[e] = "acquire" /\ TryAcquire(w, e)
                \/ Kind[e] = "release" /\ Release(w, e)
                \/ Kind[e] = "renew"   /\ Renew(w, e)
                \/ Kind[e] = "append"  /\ AppendEntry(w, e)
                \/ Kind[e] = "consume" /\ Consume(w, e)
       /\ UNCHANGED <<storeVars, now, crashes>>

\* start_run under the run id derived from the effect: a fresh start, or the
\* run is already its own.
Startable(e) ==
    /\ instance[InstanceOf[e]] = "running"
    /\ \/ effect[e] = "queued" /\ run[e] = "absent"
       \/ effect[e] = "running" /\ run[e] = "running"

StartRun(w) ==
    LET e == work[w].e
    IN /\ work[w].at = "start"
       /\ Startable(e)
       /\ effect' = [effect EXCEPT ![e] = "running"]
       /\ run' = [run EXCEPT ![e] = "running"]
       /\ work' = [work EXCEPT ![w].at = "complete"]
       /\ UNCHANGED <<leaseVars, budgetVars, ledgerVars, applied, instance, value, fact, now,
                      crashes>>

\* The run row a completion needs.
RunOpen(e) == run[e] = "running"

\* complete_run, or fail_run for malformed input.
CompleteRun(w) ==
    LET e == work[w].e
    IN /\ work[w].at = "complete"
       /\ RunOpen(e)
       /\ run' = [run EXCEPT ![e] = "settled"]
       /\ effect' = [effect EXCEPT ![e] = IF e \in Malformed THEN "failed" ELSE "completed"]
       /\ value' = [value EXCEPT ![e] = work[w].value]
       /\ work' = [work EXCEPT ![w].at = "derive"]
       /\ UNCHANGED <<leaseVars, budgetVars, ledgerVars, applied, instance, fact, now, crashes>>

DeriveFact(w) ==
    /\ work[w].at = "derive"
    /\ fact' = fact \cup {work[w].e}
    /\ work' = [work EXCEPT ![w] = Idle]
    /\ UNCHANGED <<leaseVars, budgetVars, ledgerVars, applied, instance, effect, run, value, now,
                   crashes>>

\* The store refuses the start or the terminal; the worker goes on to others.
Refused(w) ==
    /\ \/ work[w].at = "start" /\ ~Startable(work[w].e)
       \/ work[w].at = "complete" /\ ~RunOpen(work[w].e)
    /\ work' = [work EXCEPT ![w] = Idle]
    /\ UNCHANGED <<leaseVars, budgetVars, ledgerVars, applied, storeVars, now, crashes>>

Crash(w) ==
    /\ work[w] # Idle
    /\ crashes < MaxCrashes
    /\ crashes' = crashes + 1
    /\ work' = [work EXCEPT ![w] = Idle]
    /\ UNCHANGED <<leaseVars, budgetVars, ledgerVars, applied, storeVars, now>>

-----------------------------------------------------------------------------
(* Everyone else.                                                          *)

\* The rule behind `after slot held': it inserts the release or renewal when
\* the fact says that the acquire got the slot.
CommitHeldBranch(e) ==
    /\ effect[e] = "absent"
    /\ instance[InstanceOf[e]] = "running"
    /\ Acquire[e] \in fact
    /\ value[Acquire[e]].variant = "Held"
    /\ effect' = [effect EXCEPT ![e] = "queued"]
    /\ UNCHANGED <<leaseVars, budgetVars, ledgerVars, applied, instance, run, value, fact, work,
                   now, crashes>>

\* cancel_effect leaves the run alone.
CancelEffect(e) ==
    /\ effect[e] \in {"queued", "running"}
    /\ effect' = [effect EXCEPT ![e] = "cancelled"]
    /\ UNCHANGED <<leaseVars, budgetVars, ledgerVars, applied, instance, run, value, fact, work,
                   now, crashes>>

\* recover_running_provider_runs: a run without terminal is given up.
RecoverRun(e) ==
    /\ run[e] = "running"
    /\ run' = [run EXCEPT ![e] = "settled"]
    /\ effect' = [effect EXCEPT ![e] = "failed"]
    /\ UNCHANGED <<leaseVars, budgetVars, ledgerVars, applied, instance, value, fact, work, now,
                   crashes>>

\* The terminal of an instance: a rule's, cancel_instance, fail_instance_internal.
EndInstance(i) ==
    /\ instance[i] = "running"
    /\ instance' = [instance EXCEPT ![i] = "ended"]
    /\ UNCHANGED <<leaseVars, budgetVars, ledgerVars, applied, effect, run, value, fact, work,
                   now, crashes>>

\* release_holder_resources_on_terminal, after the terminal has committed.
ReleaseHolder(i) ==
    /\ instance[i] = "ended"
    /\ instance' = [instance EXCEPT ![i] = "released"]
    /\ expires' = [k \in Keys |-> [expires[k] EXCEPT ![i] = NoRow]]
    /\ promise' = [k \in Keys |-> [promise[k] EXCEPT ![i] = 0]]
    /\ UNCHANGED <<budgetVars, ledgerVars, applied, effect, run, value, fact, work, now,
                   crashes>>

Tick ==
    /\ now < MaxTime
    /\ now' = now + 1
    /\ UNCHANGED <<leaseVars, budgetVars, ledgerVars, applied, storeVars, work, crashes>>

WorkerStep(w) ==
    \/ \E e \in Effects : Claim(w, e)
    \/ Act(w)
    \/ StartRun(w)
    \/ CompleteRun(w)
    \/ DeriveFact(w)
    \/ Refused(w)

Next ==
    \/ \E w \in Workers : WorkerStep(w) \/ Crash(w)
    \/ \E e \in Cancellable : CancelEffect(e) \/ RecoverRun(e)
    \/ \E e \in DOMAIN Acquire : CommitHeldBranch(e)
    \/ \E i \in Ending : EndInstance(i) \/ ReleaseHolder(i)
    \/ Tick

CoordSpec == CoordInit /\ [][Next]_vars

-----------------------------------------------------------------------------
(* Properties.                                                             *)

LivePool == INSTANCE SlotPool
    WITH held <- [k \in Keys |-> {i \in Instances : expires[k][i] > now}]

\* The rows whose time has not come are a slot pool: whatever workers, ends of
\* instances and the clock do, a slot is granted one at a time and only when
\* one is free, although expired rows are still in the table, renewals race
\* expiry and re-entry writes nothing.
ImplementsSlotPool == LivePool!PoolSpec

\* Until the time the store told a holder, the slot is its own: no acquire,
\* release, renewal or end of another instance takes it away.
PromisesKept ==
    \A k \in Keys, i \in Instances :
        promise[k][i] > now => expires[k][i] >= promise[k][i]

\* Crashes, repeated claims and concurrent workers charge the budget for an
\* effect once, and what its terminal says is what was done.
ChargedAsRecorded ==
    \A e \in Effects : Kind[e] = "consume" =>
        LET mine == {c \in charges : c.e = e}
        IN /\ Cardinality(mine) <= 1
           /\ value[e].variant = "Ok" => mine # {}
           /\ value[e].variant = "Over" => mine = {}

\* The budget is never negative and never above the largest cap, whatever
\* amount a workflow asks for.
BudgetBounded ==
    consumed >= 0 /\ (consumed = 0 \/ \E e \in Effects : consumed <= Cap[e])

\* The budget row and the terminals tell the same story: charged once, as
\* recorded, and within bounds, through crashes and a period that turns over.
BudgetAccounted == ChargedAsRecorded /\ BudgetBounded

\* The ledger numbers every append once: no two effects share a number, an
\* effect has at most one entry, and the number a terminal recorded is the
\* number of the entry for as long as retention keeps it.
LedgerNumbersOnce ==
    /\ \A x, y \in entries : (x.seq = y.seq \/ x.by = y.by) => x = y
    /\ \A e \in Effects : value[e].variant = "Appended" =>
            /\ \A x \in entries : x.by = e <=> x.seq = value[e].number
            /\ \A f \in Effects : value[f] = value[e] => f = e
=============================================================================
