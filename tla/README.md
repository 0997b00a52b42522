# WhippleScript: a TLA+ model of the durable runtime

WhippleScript runs workflows whose rules commit *effects* (agent turns, commands,
timers, file, lease and tracker operations) to a SQLite store; workers claim the
effects, dispatch them to the outside world and record what came of them. This directory
models the parts that make this durable and safe to repeat: the store's transactions
and their replay, the rules for resubmitting an attempt, the due-time pass, the
hash-chained event log, the coordination database, both executors with their fences and
barriers, the executor pool's admission, tracker issues kept in several clones, and the
restore of a checkpoint. It has TLC runs on small instances and TLAPS proofs for all.

Paths below are relative to `src/crates/`; `store`, `kernel`, `host-do`, `cli` stand for
`whipplescript-store/src`, `whipplescript-kernel/src`, `whipplescript-host-do/src`,
`whipplescript-cli/src`.

## 1. Inventory

### Parts that are modelled

| Part | State it keeps | Operations | Hard because |
|---|---|---|---|
| Effect and run lifecycle (`store/lib.rs`) | tables `instances`, `effects`, `effect_dependencies`, `runs`, `leases`, `effect_cancellation_requests` | `commit_rule`, `transition_instance`, `activate_revision`, `start_run`, the blocks, `complete_effect`, `resolve_effect_uncertain`, `expire_effect`, `cancel_effect`, `request_effect_cancellation`, `retry_effect`, `renew_lease`, `expire_leases` | workers, operator, rules and sweeps are separate processes; each call is one transaction, but what a caller knows between two calls is stale |
| Projection rebuild (`store/lib.rs`) | the same tables, written from the log | `rebuild_projections` and its `replay_*` handlers | written apart from the transactions it must agree with |
| Attempt ledger (`store/effect_recovery.rs`) | nothing of its own: a fold over the log | `fold_attempts`, `require_proved_absence` | what the target did is not observable; seven kinds of event are folded in durable order |
| Executor custody (`store/exec_lifetime.rs`, `exec_outcome.rs`, `exec_settlement.rs`, `kernel/exec_lifetime.rs`) | journal events: tracked, fence, proof, outcome, absence, settlement | `track_exec_lifetime`, `ensure_exec_fence`, `observe` (three transactions), `retain_exec_settlement`, `verify_retry_closure` | the process tree outlives its worker; cancellation and tracking race; a retry must not overlap what it replaces |
| Evidence reconciliation (`kernel/effect_reconciliation.rs`) | disposition events | `record_reconciliation` | evidence comes at any time, before or after a terminal |
| Due-time pass (`kernel/time_pass.rs`) | none; keys and facts in the log | `resolve_due_time_effects` | a list of calls with `?` after each: stale reads, aborts, crashes between calls |
| Event log (`store/event_chain.rs`, `log_append.rs`, the append functions of `store/lib.rs`, `host-do/do_store.rs`) | `events`, `instances.owner_epoch` | head read, ownership claim, unguarded, compare-and-set and fenced append, backfill and repair | two hosts with different atomicity; zombie owners; migration of unchained rows |
| Coordination resources (`store/coordination.rs`, `kernel/effect_handlers.rs`) | leases, a counter, a ledger and their markers in a database of their own | acquire, release, renew, append, consume, release at a terminal | two databases and up to five unconnected steps per effect; nothing reserves a claimed effect; rows expire |
| Hosted executor (controller, barrier and resolution in `whipplescript-remote-exec`, broker in `executor-broker.ts`) | receipts, placements, fence intents, records and barriers per container | submit, place, handshake, deliver, fence, drain, destroy, resolve | one container serves several invocations; evictions, late deliveries, interrupted barriers |
| Native executor (authority and managed containers in `kernel` and `cli`) | the authority's record, container, lock | prepare, claim, create, bind, deliver, complete, fence, remove | several hosts and restored copies of a workflow resume from the authority alone; a creation may take effect late |
| Pool admission (`BrokerScheduler` in `executor-broker.ts`, `AdmissionGate` in `exec_server.rs`) | free slots, queue by class, mutex and condition variable | acquire, release, serve the waiters; the gate's critical sections | the broker's state is in memory and disagrees with the containers after a fault |
| Tracker issues and sync (`store/items.rs`, `items/`) | event DAG, issue row, leases, a shared directory | file, set, finish, cancel, reopen, claim, renew, release, waits, export, import | clones diverge, hashes order events of one second, a sync reads while another writes |
| Checkpoints and restore (`store/lib.rs`, `cli/main.rs`, `kernel/rule_pass.rs`) | cuts, markers, file manifest, projections | checkpoint, plan, automatic checkpoint, reconcile files, commit marker, rebuild | three planes changed by separate steps while rules and workers go on |

Workers, rules, the time pass, the executor driver and the operator's commands call the
store's transactions; the transactions append events; the attempt ledger and the rebuild
read these events back. The store's custody records hold what the executors answer; both
executors promise the same thing (`ExecOutcome`), which is what `RuntimeStore` assumes of
evidence. Coordination and trackers are databases of their own that the effect handlers
reach beside the instance store, with nothing that makes the two writes one. A restore
runs over the instance store and the file system while the driver may go on.

### Parts that are not

Listed in `PROJECT.json` with the reason: parts reached only through the store (effect
handlers, harness loop, providers, the CLI's worker loop: what they do to the store is
covered by letting its operations come in any order); stateful parts not modelled yet
(branches and merges, workstreams, ingress, clock sources, forks); and pure or I/O parts
(language front end, information flow, norms, canonical forms, key custody, services).

### What makes the parts correct

Effects: at most one running run, dependents that run only on an outcome that stands,
capacity. Attempts: never a second dispatch after one of unknown fate, never two living
incarnations. Rebuild: the tables again. Pass: what is due is settled, and only what is
so is recorded. Log: one unbroken
chain, pinned heads stay, owners write in the order they took over. Coordination: a slot is one
holder's until the promised time, an effect is charged or entered once. Executors: a
command runs at most once, an answer is true and final, a fence ends. Admission: no idle
slot, no overtaking, whatever is accepted ends. Trackers: equal events give equal rows,
double claims are known. Restore: files, facts and log agree, nothing unseen is dropped.
The places where these can go wrong are the `hazards` of `PROJECT.json`, each at its line.

## 2. Modules

| Module | Models | Built on |
|---|---|---|
| `EffectStatus` | the status vocabulary and `DEPENDENCY_SATISFIED` | |
| `AttemptLedger` | one attempt's record in `fold_attempts`, one operator per folded event; `ProvedAbsent` is the test of `require_proved_absence` | |
| `RuntimeStore` | every store transaction as one action | both above |
| `RuntimeReplay` | the rebuild, one operator per `replay_*` handler, beside the live tables | EXTENDS `RuntimeStore` |
| `TimePass` | the pass, call by call | EXTENDS `RuntimeStore` |
| `EventLog` | the log, with a native and a Durable Object next-state relation | |
| `SlotPool` | what a lease declaration promises | |
| `Coordination` | leases, counter, ledger and the workers | implements `SlotPool` |
| `ExecOutcome` | what an executor promises about an invocation | |
| `ExecRecords` | the lifecycle record, barrier and resolution, no state | |
| `ExecBroker` | broker, controllers, containers and messages | `ExecRecords`, implements `ExecOutcome` |
| `NativeExec` | hosts, authority, daemon and managed container | `ExecRecords`, implements `ExecOutcome` |
| `ExecScheduler` | broker scheduler and container gates | |
| `TrackerLog` | the fold of the event DAG, readiness, advisories, no state | |
| `TrackerSync` | clones, operations, export and import | `TrackerLog` |
| `ContextRestore` | checkpoint and restore beside rule pass, worker and signals | |
| `*Proofs` | theorems | the module they name; `RuntimeStoreProofs` also `RuntimeReplay` and `TimePass`, `TrackerProofs` both tracker modules |
| `MC*` | small instances | the module they name |

### RuntimeStore

One instance. `effect`, `run`, `lease`, `instance` are the `status` columns, `deps` the
edges, `request` the effects with an open cancellation request, `named` the runs that
some request's evidence names, `attempt` and `gap` the fold of `fold_attempts` (`gap`: a
terminal that names no run, which the fold keeps as an attempt nobody can prove absent),
`tracked`, `fence`, `proof`, `outcome`, `absence`, `settlement` the journal events of an
executor run. `target[r]` is what run `r` really did outside; no operation of the store
reads it, and evidence, closure proofs and outcomes are assumed true of it. This is the
one assumption about the outside world, and what `ExecBroker` and `NativeExec` check of
the two executors. An executor's *answer* is not taken to end the process: after
`RetainSettlement` the target may still be live.

Every operation runs in one Immediate transaction, so it is one action; a refused
operation (`Conflict`) is an action that is not enabled. The two operations that commit
something and then refuse (`PolicyBlock`, `CapacityBlock`) are actions of their own. Some
details that are easy to get wrong and are kept:

* `expire_effect` and `cancel_effect` accept a running effect and leave its run and its
  lease alone; `expire_effect` also leaves requests and dependents alone.
* `complete_effect` needs a running *run* and overwrites the effect row whatever it says.
* an expired lease fails a provider's run; an executor's run stays running, fenced.
* `verify_retry_closure` asks nothing of a run that was never tracked.
* a dependency whose upstream row is missing is dropped by the JOIN.

Payloads, facts, evidence rows, diagnostics, profiles and capability texts are left out;
a policy gate is a choice that may close at any claim. A rule commit is a choice of
effects, statuses and edges: `commit_rule` refuses unless head, version and epoch are
those the rule was evaluated at, so evaluation and commit are one step. The cycle guard of
`insert_effect_dependency` appears as `Acyclic`.

### RuntimeReplay

`rebuilt` is the state of the tables that a rebuild at this point would write: it is
advanced by the replay handler of each event the live step appended, so that it is the
fold over the log without the log. `RebuildAgrees` compares it with the live tables in
the columns the replay covers. It does not cover blocks, lease renewals, and the open
cancellation request an expiry leaves, which the replay resolves.

### TimePass

`pass` is the program counter of `resolve_due_time_effects` with the effect it is at, the
run it read and the effects left. Each store call is an action; `Refused` is the negation
of the guards of the call it is at, and ends the pass; `Crash` ends it anywhere. `spent`
is the set of effects whose `deadline-terminal` (`timer-terminal`) key is in the log.
`Reattachable` is `start_run`'s path for a run id that is already running, the way a timer
is picked up after a crash. `lease.acquire` effects, which the pass skips, are not in
`Timed`. `facts` are the `timer.fired` and `effect.timed_out` facts it derived.
`PassRecordsTruth` asks of the moment each of its two records is written whether what it
says is so then, since the list it goes by, the run it read and the call that settled are
transactions apart.

### EventLog

A digest is modelled by the sequence of entries it hashes. The native guarded append is
three actions (`CheckEpoch` or `BeginCas`, `CompareHead`, `InsertRow`) because it runs on
a connection in autocommit; the unguarded append and the Durable Object's fenced append are one
each. `BeginRepair`/`RepairRow` is the row-by-row backfill, and the log starts with
`Legacy` unchained rows as a migrated database does. The backfill selects the rows first;
rows appended meanwhile are not among them. `epoch` in a row is the guard it was inserted
under; it is not stored, only the properties use it. On the native host an owner
superseded between its check and its INSERT still writes one row (section 5), so the
property is about the order of the rows, `OwnersWriteInOrder`: none of an owner's comes after
one of its successor's.

### Coordination

A worker handles an effect in the steps `Claim`, `Act`, `StartRun`, `CompleteRun`,
`DeriveFact`; any number do so at once, also for the same effect, and `Crash` takes one
away between two steps. `Act` is one Immediate transaction of the coordination database.
`expires` is the lease row by key and holder, `applied` the marker that makes an append or
a consume happen once. `promise` and `charges` are history. The clock a consume goes by is
the one read at `Claim`. `SlotPool` has one variable, the holders of each key; a slot is
granted singly and only when one is free, and slots come free in any number.

### The executors

`ExecOutcome` is two variables: how often each invocation has run, and the verdict the
caller has. It runs at most once; a verdict is true when given and final. `ExecRecords`
holds the pure transitions of the controller's record (`Admits`, `MayComplete`,
`MayFinish`, the resolution). In `ExecBroker` the broker's turn, a controller's turn, a
message's delivery and a container's process are separate actions; messages may be late or
lost, `Evict` and `Die` are counted by `faults`. In `NativeExec` the authority's calls are
transactions, everything a host does between two of them is lost when it dies, and the
daemon may execute a creation after the caller has given up on it. `lock` is the file lock
that a delivery holds.

`ExecScheduler` is the admission in front of these: a broker's turn is one action
(`Release` serves the waiters in the same turn), and each critical section of a gate's
mutex, the notification included, is one. A forwarded round may not get as far as the gate:
`TurnAway` is the refusals of `handle_exec_request` before it. `Cut` is a fetch that fails at the
broker, whether the container has the round or never will: a thread comes from a lost
round or it does not (`Enter` is possible and nothing forces it). `ahead` is history: the
rounds of its class that were waiting when a round asked.

### TrackerLog and TrackerSync

Events form a DAG by `parents`; an event's id stands for its hash and is chosen freely
(`anyHash`), because the importer orders events of one second by hash. A `menu` chooses which
operations a behaviour may use and how many events, clocks and crashes. A file is written
in one step unless the sync is killed in it. `blind` is history: claims granted by a clone
that lacked a parent of something it held.

### ContextRestore

One workflow, a chain of file writes in which a completion fires the next step. `log` is the
event log, `tab` the projections, `disk` the files, `seen` and `rule` the rule pass between its
reads and between evaluating and committing, `worker` and `restorer` the two processes with
what they hold between their calls. A file is the sequence of the chunks on it: `create`,
`replace` and `upsert` leave one, `append` adds one, and the fact of a write names its chunk
only, as the code's content hash does (`kernel/effect_handlers.rs:801`). `Describes` is what a
fact can therefore promise of a file: it ends with that chunk and, unless the write was an append,
holds nothing else. A write may be refused by its mode, fail before or in the middle, be left by a
worker that dies, or lose its lease, so that its settlement finds no run. The net
that fails a self-terminating workflow on an effect failure no rule handles (`kernel/rule_pass.rs:1265`) is
left out: after a failed write the model's instance stands still.

`gaps` is history: what happened after which the code makes no promise any more (`torn`:
killed after files were touched; `moved`: files written between plan and head read; `failed`,
`unrecorded`: a write failed or its worker was lost, before or after it touched the file;
`orphaned`, `spent`, `stale`, `straddled`: see section 5). Properties except exactly these.

## 3. Runs

| Run | Instance | Properties |
|---|---|---|
| `effect_lifecycle` | two agent effects with a `succeeds` edge, one executor effect, two attempts each; one kind of trouble per behaviour | `AtMostOneRunningRun`, `NoBlindResubmission`, `NoOverlappingIncarnations`, `CancelledExecIsFenced`, `SucceedsOrder`, `RebuildAgrees`, `CompletedIsFinal` |
| `due_time_pass` | one timer behind one executor effect with a deadline, one crash | `TimersFire`, `PassRecordsTruth` |
| `event_log` | two writers, two legacy rows, four rows, two transfers, either host | `ChainIntact`, `OwnersWriteInOrder`, `PinnedHeadsStay` |
| `coordination_shared` | two workers, two instances, one slot, a budget of 2, a ledger, one crash | `PromisesKept`, `BudgetAccounted`, `LedgerNumbersOnce`, `ImplementsSlotPool` |
| `executor_shared_barrier` | two invocations in one container, one fault | `ProofIsPhysical`, `BarrierCanFinish`, `EvidenceAgrees`, `KeepsPromise` |
| `executor_fence_closes` | one invocation, two containers, two fences, two faults | `KeepsPromise`, `FenceCloses` |
| `executor_slots` | four rounds of three classes, two containers of one slot, two faults | `NoIdleSlot`, `OneQueue`, `NoOvertaking`, `AcceptedEnds` |
| `native_executor` | two hosts with the same or a restored owner, one fence, two faults | `OneContainer`, `NoResultDiscarded`, `KeepsPromise`, `FenceCloses`, `NoContainerLeft` |
| `tracker_replicas` | two clones that keep syncing, up to five events, six menus | `SameEventsSameRow`, `LiveIsRebuilt`, `DoubleHoldIsConcurrent`, `ClaimsSeeNoConflict`, `Converges` |
| `context_restore` | one step with a racing restore and two faults, two steps with two restores, or three steps with an append and one restore | `PlanesAgree`, `TimelineWhole`, `NothingUnseenDropped`, `WorkflowEnds` |
| `restore_undo` (violation) | two restores, the second of the first's automatic checkpoint | `UndoRestores` |
| `restore_reopens` (violation) | a restore of a completed instance to a cut before its end | `TerminalAbsorbs` |

`restore_undo` refutes "Thus you can undo each restore" (`docs/manual/21-checkpoints.md`):
the fold drops what lies above a marker's target for good, so the automatic checkpoint
brings the files back and not the facts. `restore_reopens` refutes "A terminal absorbs the instance, also
here" (the same page, 98-101): the rebuild folds the live events from a running instance, and the end
above the cut is not live, so the instance runs again. `TimelineWhole` is therefore about ends
that are live.

### Bounds

Two runs of an effect are the smallest case in which one attempt follows another; two
effects and one edge the smallest with a dependent; capacity 1 the smallest that can be
overbooked. A clock that reaches the lease term lets a lease be granted, renewed and
expired. Two writers and two transfers let an owner be superseded and supersede again; four
rows with two legacy ones let a repair meet an append. Two workers and one crash are the
fewest that repeat and race an effect; a period of one tick and a clock to 2 turn the
budget over; an amount of the largest number makes the sum overflow. Two invocations share
a barrier; two containers make a misplaced invocation run twice; two faults allow a fault
during the recovery from one. Four rounds over two slots fill the queue, with a class
above and one below the pair. Two clones and four events hold a fork of two concurrent
edits over a common ancestor and the edit that joins them. A restore, a signal or kill
within it and a repetition of it need one and two restores; two faults let a lease expire or a
worker die and the restore still be killed or refused. Three steps put an append on a file that a
restore writes back. A rule pass with nothing to fire, and a signal outside a restore, are left out: they
change nothing another step depends on.

`effect_lifecycle` and `tracker_replicas` follow one kind of trouble per behaviour (the
`Scenario` and the `menus` of their MC modules) to keep the product small; between them
every action fires. `CHECK_DEADLOCK FALSE`: all instances end, when attempts, clock and
edits are used up. Symmetry is used between the attempts of one effect, between writers
and between clones, and only in runs without liveness. The theorems remove the bounds.

### Fairness

* `TimePass`: the pass and time. The driver (the CLI's worker loop, the Durable Object's
  alarm) calls the pass again and again, and the pass has no call it waits in. Nothing is
  assumed of workers, rules, operator or executor. `TimersFire` excepts an instance that
  is held or ended, open requests (`start_run` refuses both), and an effect the pass aborts at.
* `ExecBroker`: the host keeps its alarm armed and reconciles a fenced run again until it
  has a closure, a request that is not lost is handled, and a barrier's steps follow each other.
* `NativeExec`: calls return, the daemon serves, and every worker pass reconciles the
  runs whose journal holds a fence; strong fairness there, since a fence is refused while
  a delivery holds the lock, and passes do not stop.
* `ExecScheduler`: threads are scheduled, a command ends (it is killed at its timeout) and
  a round that is not lost arrives and is answered. Nothing makes a host ask for a slot, or
  a lost round reach its container; a thread that came to a gate is scheduled to its end.
* `TrackerSync`: each clone keeps syncing.
* `ContextRestore`: rule pass, worker and a restore that was begun go on, and file writes succeed
  except where a fault is spent on one (`WriteFails`), after which nothing is promised. Nobody has to
  take or to restore a cut.

## 4. Theorems

For all sets of effects, runs, edges, writers, keys, hosts, containers and invocations and all
bounds that satisfy the `ASSUME`s. These are types of the constants and, where the model has them,
that `None` is not one of the values it stands beside; beyond that only
`"deadline" \in DriverFences` where the pass runs: it is the pass that asks for that fence.
Each component has a type theorem, which the others rest on.

**Store** (`RuntimeStoreProofs`). No safety property is inductive
alone. Three layers, each inductive given the ones before:

1. `Backing`: `AtMostOneRunningRun`, `RunningIsBacked`, `OrphanedRunBlocksRedispatch` and
   that a running run's effect is not completed. `start_run` could add a second run only
   to a pending effect; a running run's effect is running, or it is terminal and has a gap;
   and with a gap neither `retry_effect` nor `start_run` passes `require_proved_absence`.
2. `Knowledge`: whatever the ledger and the custody records say of a run is true of its
   target. This is where the assumption on evidence enters.
3. `Succession`: of two runs of one effect one was answered for and closed before the
   other started; an effect waiting to be claimed has no tracked run without its closure.

From these follow `NoResubmission` and `NoOverlap`. `SuccessFirst`, `CancelledFenced`
and `WithinCapacity` have small invariants of their own on top of `Backing`;
`CompletedStays` is an action property from `Backing`.

For the rebuild (`RebuildIsFaithful`) there is one lemma per replay handler, on any rows, and
one step per operation: which events it appends, that no other arm of the replay applies, and that
the handler writes what the operation wrote. It needs `Backing` (an effect that ends without
a run had no gap before, so the terminal is seen) and that no lease ends later than one
granted now (a renewal is not replayed). `SafeAcrossRebuild` takes `Rebuild` as one more step of the
store: it changes only rows that wait into others that wait, terms into earlier ones and
open requests into fewer, and all three layers survive that. Without a rebuild the same
properties are the theorems above, of `Spec`; the run checks them of `ReplaySpec`.

**Pass** (`RuntimeStoreProofs`). `PassTellsTheTruth` states `PassRecordsTruth` for any timers, deadlines and
crashes. A terminal's guards are those of the call that writes it, but for `complete_effect`, which looks at
the run only. There `Backing` says that the effect of a running run is running or ended without its
run, and `OrphansKnown` that the latter was the operator's cancellation or an expiry of the pass, whose
key is then spent. `PassInv` adds that the fact the pass is about to derive is so, which no operation
undoes. `SafeBesidePass` says that the store's own
theorems hold beside the pass.

**Log** (`EventLogProofs`). `LogInv` adds to the properties: sequences are gap-free,
a digest is as long as its sequence number, a repair under way has rechained a prefix to what it
was before, a writer that compared the head still holds a digest of the log, and epochs
that are held are distinct and at most the log's. `NativeOrder` holds although the fence is not
atomic: an INSERT that passed the comparison fails on `UNIQUE(instance_id, sequence)` as
soon as anyone else has written. `NativePins` and `NativeChain` follow in the same way, and
`ObjectSafe` is all three for the Durable Object's relation, where check and insert are one step.

**Coordination** (`CoordinationProofs`). `PromisesAreKept` is inductive with the types and
`Busy`, the bound on unexpired rows of a key. `LeasesImplementPool` maps the holders of
the pool to the unexpired rows: an acquire that takes a row is a grant, time passing and a
release free slots, the rest stutters. `BudgetIsAccounted` and `LedgerIsNumberedOnce` rest on
what the markers mean: a marker is written once, in the transaction of its charge or
entry, and whatever a worker carries or a terminal says of the effect agrees with it.

**Native executor** (`NativeExecProofs`). `Custody` = what hosts, daemon and authority
know of each other (a container has an owner on record, a host that acts on a container
holds the record it acts on), that records are truthful about the container, and what a
delivery under way implies. From it `OneContainerEver`, `ResultsAreRetained` and
`NativeKeepsPromise`, the refinement of `ExecOutcome`.

**Hosted executor** (`ExecBrokerProofs`). `Custody` is the conjunction of: an invocation
has a record only in the container it was placed in; a record only moves forward and a
final one does not move, so that a late answer is an earlier version of the record; the
targets of a barrier stay as they were frozen; once the startups are drained nothing
starts and once the container is destroyed nothing lives; a later process has a later
number; what the broker was told is so. From it `TerminationIsPhysical`,
`BarriersCanFinish`, `EvidenceNeverConflicts` and the refinement `BrokerKeepsPromise`, in which
an acceptance is the start and the folding of an answer a decision or a stutter.

**Admission** (`ExecSchedulerProofs`). `Admission` says that slots, leases and queue are
counted consistently, that the queue of a class is in the order of asking (whoever stands before a
round was ahead of it when it asked), and that whoever waits waits because nothing is free. The service of the waiters is a recursive function;
what it keeps is proved by its least counterexample, since the provers cannot
instantiate the induction theorems. From it `NoSlotIdles`, `QueueIsTheOnlyOne`,
`RoundsAreNotOvertaken`.

**Restore** (`ContextRestoreProofs`). Facts are a fold of the log that skips what a marker
dropped, so the lemmas say how the fold changes under an append: an ordinary event is added to
the live ones, a marker keeps exactly the live events up to its cut. On the whole log
`Recorded` and `Held` say that an effect is committed once, a settlement has a start and a start has a
commit. `Fresh`: the tables are the fold, except between marker and rebuild or once `stale`. `Triggered`: what
a pass evaluated was triggered by a live fact, except between marker and rebuild or once `straddled` or
`stale`; this is from the tables, since the events the pass read before them may be older. `Chained`: before every live commit and every live end there is a live
completion of each earlier step; a commit gets this from the fact that triggered it and a marker keeps it, because what
precedes a kept event is kept. `TimelineIsWhole` follows. For the files, `CutsAreTrue` (a live cut's
manifest is the fold at the cut), `RunsSeen`, `DiskAsExpected` and `Planned` (what a restore
planned fits what lies on disk, and its marker comes right after its automatic cut) give
`FilesFollowFacts`. They speak of files through `Describes`: a file with one chunk is described by the fact of that
chunk whatever the mode (`SingleDescribed`), which is why a restore of an appended file, although it
writes the last chunk alone, keeps the relation. `NothingIsDroppedUnseen` is an action property from the
same invariant.

**Trackers** (`TrackerProofs`). For any clones, actors, hashes and menus that satisfy
`TrackerConstants`. The order, the ancestors, the cover and the fold are recursive functions; `Iteration`
shows that each of them exists, and what they compute follows from their least counterexample. The
argument has three parts.

1. An event written over the heads of what a clone holds has every held event among its
   ancestors, so it comes last in the topological order whatever its hash (`PlacedLast`), a rebuild folds
   it last (`FoldedLast`), and a row that equals a rebuild equals one again after the operation updated it in
   place (`TxStep`, `TransactKeeps`). Hence `LiveRowsAreRebuilt`. A rebuild is a function of the set of
   events, hence `SameEventsShowSameRow`.
2. `Ancestors` is the least set closed under parents (`AncestorsLeast`), so an operation adds no pair of
   concurrent claims (`NoNewAdvisory`): only an import finds new pairs, and it reports them. This is
   `AllReported`.
3. `EndsFollow`: an end descends from its claim. `ClaimsFollow`: a claim that was not granted blind
   descends from an end of every claim it descends from. For both, the leases in the table have to be those
   the fold of the log gives, which is `LiveIsRebuilt`. With them, of two active leases in a
   complete clone neither claim descends from the other: `DoubleHoldsAreConcurrent`.

`TrackerInv` is the type invariant with `LiveIsRebuilt`, `AllReported`, `EndsFollow` and `ClaimsFollow`; one lemma per
operation says that it is kept. `ClaimsSeeConflicts` is an action property: the cover that
`analyze_issue_dag` propagates marks only setters that a descendant supersedes
(`CoveredSuperseded`), so a claim that finds at most one value left finds no fork that disagrees.

Only model-checked: liveness under fairness (`TimersFire`, `FenceCloses`,
`NoContainerLeft`, `AcceptedEnds`, `Converges`, `WorkflowEnds`), which the prover does not reach. Every safety
property of a passing run is stated by a theorem.

## 5. Disagreements seen while modelling

`restore_undo` and `restore_reopens` are runs. The following were met in the same way, by a TLC
counterexample on a smaller instance, and are described at the line where the code does it.
The properties of section 2 and 3 are stated so that they hold beside them.

*Store and pass*
* `kernel/exec_lifetime.rs:345`: for a run that never executed, `observe` retains the closure, then the outcome,
  then the absence "Without [which] a later retry cannot be admitted at all" (314-328). The fold
  has already set the attempt to not dispatched; the last record is a different disposition, the
  attempt becomes disputed, and the retry it is to license is refused for good.
* `kernel/time_pass.rs:115`: a worker's start between the pass's read and its expiry is completed
  later, over the `timed_out` row; "their late completion is refused" (110-111).
* `kernel/time_pass.rs:187`: terminal and fact are two transactions, and no later pass lists a
  settled effect, so a crash between them loses the fact; "settled outcomes are facts"
  (`kernel/lib.rs:2358`).
* `kernel/time_pass.rs:154`: a timed-out effect that is retried is due at once, its
  `deadline-terminal` key is spent, and the pass aborts at it, now and ever after. `TimersFire` excepts a
  timer listed behind such an effect.
* `kernel/time_pass.rs:154`: an effect the operator cancelled while its run was running is overwritten by the
  pass's terminal for that run, because `complete_effect` looks at the run; `PassRecordsTruth` excepts it.
* `store/lib.rs:10882`: a native fenced append of an owner superseded between its epoch read and its
  INSERT still lands, as the one row `OwnersWriteInOrder` allows; "every append under it is refused" (15240). The code says that fencing is
  the object host's mechanism (15257).
* `store/lib.rs:8337`: blocks, renewals and requests left open by an expiry are not replayed,
  so a rebuild differs there from the live tables.

*Coordination*
* `store/coordination.rs:540`: a consume with a clock read before the boundary takes the
  counter back to the old period; both periods then begin from zero, and a period can be charged
  its cap twice. `BudgetAccounted` is about what the row holds, effect by effect, not about a period's sum
  (`docs/manual/14-coordination.md:182`: capped "for each period").
* `kernel/effect_handlers.rs:1852`: a replayed consume names the period of the replaying pass,
  not the charged one (1836: "instead of re-deriving one from a later `now`").
* `kernel/effect_handlers.rs:1626`: an instance that ends between the claim list and the acquire
  keeps the slot until the TTL (`docs/language-reference.md:3227`).
* `kernel/effect_handlers.rs:1725`: a release whose acquire has expired frees the row of a later
  acquire of the same instance (1723: "only ever frees its own acquire's").

*Executors*
* `executor-broker.ts:256`: after an eviction or a failed round the broker admits more than a
  container runs, and rounds queue at the container's gate (46: "the only queue").

*Trackers*
* `store/items.rs:973`: closing without a summary clears it, the fold keeps the old one (1771: "reproduces
  the live projection exactly").
* `store/items/readiness_native.rs:114`: an import orders events of one second by hash, so a removal may
  precede its wait, which then stays live in that clone (8: "merge-stable").
* `store/items.rs:3125`: closing releases one of two merged leases (933: "any active lease").
* `store/items.rs:2478`: a file torn by a killed sync is neither imported nor replaced (2520: "converge");
  `Converges` excepts an event whose file is torn.

*Restore* (`store/lib.rs`, `cli/main.rs`; the names are those of `gaps`)
* `kernel/effect_handlers.rs:801`: the fact of an append carries the hash of its chunk, so the folded manifest
  does not describe the file and a restore writes back the last chunk alone; "so the folded map is the
  file-plane state as of the cut" (`store/lib.rs:10641`).
* `unrecorded`: the file is written before the run is settled; a write that fails part way, a worker that dies
  or a lease that expires in between leaves bytes no fact names, and a restore removes only files that
  a live fact names.
* `torn`, `moved`: the files are reconciled before the head is compared; a refusal or a kill after that,
  or files written between plan and head, leaves files and facts apart (`docs/manual/21-checkpoints.md:105`).
* `orphaned`: a cut that an earlier restore dropped can be restored; its files then come back and its facts do not.
* `spent`: an effect queued at the cut that ran since can never start again, because `start_run`
  finds its attempt in the log.
* `stale`, `straddled`: a start, a completion or a rule commit between marker and rebuild may refer to a
  dropped effect or trigger; the rebuild then fails on a foreign key, or the live timeline lacks a step.
* repeating a restore of the same cut ends at the spent key of the automatic checkpoint.

## 6. Not modelled, and plan

Of the modelled parts: forks of a checkpoint, invocation (child workflow) linkage, clock sources, the
net that fails an instance on an unhandled effect failure (`kernel/rule_pass.rs:1265`), the
walk of `edge_closes_cycle` (its result appears as `Acyclic`), evidence rows and diagnostics.
Whole parts: branches and merges, workstreams and result delivery, ingress; and the pure
and I/O parts listed in `PROJECT.json`.

Next, in this order:

1. forks of a checkpoint, as a second instance whose log begins with a cut;
2. branches and merges, workstreams and result delivery, each beside the store;
3. clock sources and invocation linkage in `RuntimeStore`, ingress before it, and the walk of
   `edge_closes_cycle` checked against `Acyclic`.

