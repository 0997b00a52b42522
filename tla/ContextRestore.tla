--------------------------- MODULE ContextRestore ---------------------------
(***************************************************************************)
(* Checkpoint and restore of one instance (lib.rs capture_checkpoint,      *)
(* plan_restore, commit_restore; main.rs restore).  The log only grows: a  *)
(* restore appends a marker that every reader folds as "drop what is live  *)
(* above the cut", and re-executed rules derive new effect keys from the   *)
(* number of markers.  The restore runs as a process of its own, step by   *)
(* step, beside the rule pass, a worker that writes files and an ingress   *)
(* that admits signals.  A file write may fail, its worker may die, and    *)
(* its lease may expire under it.                                          *)
(*                                                                         *)
(* The workflow is a chain of file writes: step k is fired by the          *)
(* completion of step k - 1, and the rule after the last step ends the     *)
(* instance.  The body a run writes is named after its effect, and a file  *)
(* is the sequence of the bodies on it: none when it does not exist, more  *)
(* than one after an append.                                               *)
(***************************************************************************)
EXTENDS Naturals, Sequences, FiniteSets, FiniteSetsExt

CONSTANTS Paths,         \* the files the workflow writes
          PathOf,        \* the path a step writes
          ModeOf,        \* and its write mode
          Scenarios,     \* bounds, one of which a behaviour keeps to: the steps of
                         \* the workflow, the cuts an operator takes, the restores,
                         \* the faults (signals, kills, writes that fail, leases
                         \* that expire), and whether the driver pauses for a restore
          None

Bounds == [steps : Nat \ {0}, cuts : Nat, restores : Nat, faults : Nat, paused : BOOLEAN]

ASSUME ConstantsAssumption ==
    /\ Scenarios \subseteq Bounds
    /\ \A s \in Scenarios : 1..s.steps \subseteq DOMAIN PathOf
    /\ \A k \in DOMAIN PathOf : PathOf[k] \in Paths
    /\ ModeOf \in [DOMAIN PathOf -> {"create", "replace", "upsert", "append"}]

\* A firing of a rule, which is also the key of the effect it commits: the step,
\* the generation it was evaluated in, and the event of the fact that triggered it.
Firing == [step : Nat, gen : Nat, trig : Nat]

\* The cuts operators take are numbered, and their automatic ones numbered after them.
CutNames == Nat \X Nat

Manifests == [Paths -> Firing \cup {None}]

\* What is on a file: None stands for bytes that no accepted write accounts for.
Bodies == Seq(Firing \cup {None})
Absent == <<>>

Events == [t : {"commit", "start", "done", "failed", "end"}, e : Firing]
          \cup [t : {"cut"}, cut : CutNames, manifest : Manifests]
          \cup [t : {"restored"}, cut : CutNames, to : Nat]
          \cup [t : {"signal"}]

\* What the worker and the restore hold between two of their calls.
Workers == [pc : {"claimed", "started", "written", "refused"}, e : Firing]
Plans == [cut : CutNames, to : Nat, writes : Manifests, removes : SUBSET Paths, at : Nat]
Restorers == [pc : {"planned", "saved", "headed", "reconciled", "marked"}, plan : Plans,
              head : Nat]

ASSUME NoneAssumption == None \notin Workers \cup Restorers \cup Firing \cup Nat

VARIABLES log,       \* the events of the instance, by sequence
          tab,       \* the projection tables: instance status, effects, facts
          disk,      \* the file plane: path -> the bodies on it
          seen,      \* the rule pass between its reads: the length of the log it read
          rule,      \* the rule pass between evaluating and committing
          worker,    \* the worker between claiming and settling
          restorer,  \* the restore command
          left,      \* the cuts, restores and faults the scenario has left
          gaps       \* the documented gaps this behaviour went through

LastStep == left.steps
Steps == 1..LastStep

vars == <<log, tab, disk, seen, rule, worker, restorer, left, gaps>>

-----------------------------------------------------------------------------
(* The log and its folds.                                                  *)

Entry(t, e) == [t |-> t, e |-> e]
CutEntry(cut, manifest) == [t |-> "cut", cut |-> cut, manifest |-> manifest]
Marker(cut, to) == [t |-> "restored", cut |-> cut, to |-> to]

Is(l, t) == {n \in DOMAIN l : l[n].t = t}

\* The checkpoint a restore takes before it changes anything.
auto_before(cut) == <<cut[1], cut[2] + 1>>

\* The events that survive every marker after them.
live(l) ==
    LET markers == Is(l, "restored")
    IN  {n \in DOMAIN l \ markers : \A m \in markers : m > n => n <= l[m].to}

LiveOf(l, t) == {l[n].e : n \in live(l) \cap Is(l, t)}

\* The file plane the live write facts describe: the latest write of a path.
fold_file_manifest(l) ==
    [p \in Paths |->
        LET writes == {n \in live(l) \cap Is(l, "done") : PathOf[l[n].e.step] = p}
        IN  IF writes = {} THEN None ELSE l[Max(writes)].e]

\* Mutant: re-executed rules derive the keys of the dropped timeline.
NoGeneration(l) == 0

restore_generation(l) == Cardinality(Is(l, "restored"))

FoldedEffects(l) ==
    [e \in LiveOf(l, "commit") |->
        IF e \in LiveOf(l, "done") THEN "completed"
        ELSE IF e \in LiveOf(l, "failed") THEN "failed"
        ELSE IF e \in LiveOf(l, "start") THEN "running"
        ELSE "queued"]

FoldedStatus(l) == IF live(l) \cap Is(l, "end") = {} THEN "running" ELSE "completed"

\* Mutant: a rebuild keeps the facts of the dropped timeline.
FoldKeepingFacts(l) ==
    [status |-> FoldedStatus(l), effects |-> FoldedEffects(l), facts |-> Is(l, "done")]

\* What the tables hold when they are rebuilt from the live events.
Fold(l) ==
    [status |-> FoldedStatus(l), effects |-> FoldedEffects(l),
     facts |-> live(l) \cap Is(l, "done")]

\* A run or a completion whose effect is not live violates a foreign key.
Rebuildable(l) ==
    LiveOf(l, "start") \cup LiveOf(l, "done") \cup LiveOf(l, "failed")
        \subseteq LiveOf(l, "commit")

Running == {e \in DOMAIN tab.effects : tab.effects[e] = "running"}

Use(what) == left[what] > 0 /\ left' = [left EXCEPT ![what] = @ - 1]

-----------------------------------------------------------------------------
(* The rule pass, the worker and the ingress.                              *)

\* The firings the pass would commit: the facts come from the tables, what has
\* fired already and the generation from the events it read before them.
Firings(known) ==
    LET fired == LiveOf(known, "commit") \cup LiveOf(known, "end")
    IN  {f \in [step : 1..(LastStep + 1), gen : {restore_generation(known)},
                trig : {0} \cup tab.facts] :
            /\ IF f.trig = 0 THEN f.step = 1 ELSE f.step = log[f.trig].e.step + 1
            /\ \A e \in fired : ~(e.step = f.step /\ e.trig = f.trig)}

\* A pass reads the status and the events, and then, in calls of their own,
\* the tables.  (The status is read before the events; commit_rule reads it again.)
ReadLog ==
    /\ rule = None /\ seen = None
    /\ tab.status = "running"
    /\ Firings(log) # {}      \* bound: a pass with nothing to fire is left out
    /\ seen' = Len(log)
    /\ UNCHANGED <<log, tab, disk, rule, worker, restorer, left, gaps>>

Evaluate ==
    /\ seen # None
    /\ seen' = None
    /\ LET found == Firings(SubSeq(log, 1, seen))
       IN  \/ rule' \in found
           \/ found = {} /\ rule' = rule
    /\ UNCHANGED <<log, tab, disk, worker, restorer, left, gaps>>

At(pc) == restorer # None /\ restorer.pc = pc

\* A firing outlives the fact that triggered it: the pass evaluated it before
\* the rebuild that drops the fact.
Straddled ==
    IF rule # None /\ rule.trig \notin {0} \cup live(log) THEN {"straddled"} ELSE {}

\* The effects table with a new row.
WithQueued(effects, e) ==
    [x \in DOMAIN effects \cup {e} |-> IF x = e THEN "queued" ELSE effects[x]]

\* commit_rule, for rules without managed actions: a spent key acknowledges the stored commit and changes
\* nothing; a new firing needs a running instance, not the head it saw.
CommitRule ==
    /\ rule # None
    /\ rule' = None
    /\ LET ends      == rule.step > LastStep
           spent     == \E n \in Is(log, "commit") \cup Is(log, "end") : log[n].e = rule
       IN  IF spent \/ tab.status # "running"
           THEN UNCHANGED <<log, tab, gaps>>
           ELSE /\ log' = Append(log, Entry(IF ends THEN "end" ELSE "commit", rule))
                /\ tab' = IF ends
                          THEN [tab EXCEPT !.status = "completed"]
                          ELSE [tab EXCEPT !.effects = WithQueued(@, rule)]
                /\ gaps' = IF At("marked") THEN gaps \cup Straddled ELSE gaps
    /\ UNCHANGED <<disk, seen, worker, restorer, left>>

\* claimable_effects: queued, and created by a live event.
Claim(e) ==
    /\ worker = None
    /\ tab.effects[e] = "queued"
    /\ e \in LiveOf(log, "commit")
    /\ worker' = [pc |-> "claimed", e |-> e]
    /\ UNCHANGED <<log, tab, disk, seen, rule, restorer, left, gaps>>

\* start_run: refused when the row is gone or settled, the instance is not
\* running, or the log holds an attempt of the effect: dropped or not.
Start ==
    /\ worker # None /\ worker.pc = "claimed"
    /\ LET e == worker.e
           granted == /\ tab.status = "running"
                      /\ e \in DOMAIN tab.effects
                      /\ tab.effects[e] = "queued"
                      /\ \A n \in Is(log, "start") : log[n].e # e
       IN  IF granted
           THEN /\ log' = Append(log, Entry("start", e))
                /\ tab' = [tab EXCEPT !.effects = [@ EXCEPT ![e] = "running"]]
                /\ worker' = [worker EXCEPT !.pc = "started"]
           ELSE worker' = None /\ UNCHANGED <<log, tab>>
    /\ UNCHANGED <<disk, seen, rule, restorer, left, gaps>>

\* write_mode_policy: create refuses a path that is there, replace one that is not.
Admitted(mode, body) ==
    /\ mode = "create" => body = Absent
    /\ mode = "replace" => body # Absent

\* The file after a write: an append adds its chunk, every other mode replaces.
Written(mode, body, chunk) == IF mode = "append" THEN Append(body, chunk) ELSE <<chunk>>

WriteFile ==
    /\ worker # None /\ worker.pc = "started"
    /\ LET p == PathOf[worker.e.step]
           mode == ModeOf[worker.e.step]
       IN  IF Admitted(mode, disk[p])
           THEN /\ disk' = [disk EXCEPT ![p] = Written(mode, @, worker.e)]
                /\ worker' = [worker EXCEPT !.pc = "written"]
           ELSE worker' = [worker EXCEPT !.pc = "refused"] /\ UNCHANGED disk
    /\ UNCHANGED <<log, tab, seen, rule, restorer, left, gaps>>

\* The write fails: before it touches the file, or part way.
WriteFails ==
    /\ worker # None /\ worker.pc = "started"
    /\ Use("faults")
    /\ LET p == PathOf[worker.e.step]
           mode == ModeOf[worker.e.step]
       IN  /\ Admitted(mode, disk[p])
           /\ \/ /\ UNCHANGED disk
                 /\ gaps' = gaps \cup {"failed"}
              \/ /\ disk' = [disk EXCEPT ![p] = Written(mode, @, None)]
                 /\ gaps' = gaps \cup {"failed", "unrecorded"}
    /\ worker' = [worker EXCEPT !.pc = "refused"]
    /\ UNCHANGED <<log, tab, seen, rule, restorer>>

\* The sequence of the fact a settlement records.
FactRecorded == Len(log) + 1

\* settle_file_run, for a run that still runs: the terminal and its fact, which
\* names the chunk that was written, or the failure.
Settle ==
    /\ worker # None /\ worker.pc \in {"written", "refused"}
    /\ worker' = None
    /\ LET e == worker.e
           written == worker.pc = "written"
       IN  IF e \in Running
           THEN /\ log' = Append(log, Entry(IF written THEN "done" ELSE "failed", e))
                /\ tab' = [status  |-> tab.status,
                           effects |-> [tab.effects EXCEPT ![e] =
                                            IF written THEN "completed" ELSE "failed"],
                           facts   |-> IF written THEN tab.facts \cup {FactRecorded}
                                       ELSE tab.facts]
           ELSE UNCHANGED <<log, tab>>
    /\ UNCHANGED <<disk, seen, rule, restorer, left, gaps>>

\* The worker dies where it stands; a file it has written stays unrecorded.
WorkerDies ==
    /\ worker # None
    /\ Use("faults")
    /\ worker' = None
    /\ gaps' = gaps \cup {"failed"}
                    \cup (IF worker.pc = "written" THEN {"unrecorded"} ELSE {})
    /\ UNCHANGED <<log, tab, disk, seen, rule, restorer>>

\* expire_leases: the lease of a run passed its deadline, with its worker dead
\* or only slow, whose write then finds no run to settle.
ExpireLease(e) ==
    /\ e \in Running
    /\ Use("faults")
    /\ log' = Append(log, Entry("failed", e))
    /\ tab' = [tab EXCEPT !.effects = [@ EXCEPT ![e] = "failed"]]
    /\ gaps' = gaps \cup {"failed"}
                    \cup (IF worker # None /\ worker.e = e THEN {"unrecorded"} ELSE {})
    /\ UNCHANGED <<disk, seen, rule, worker, restorer>>

\* Bound: a signal outside a restore only lengthens the log.
Signal ==
    /\ restorer # None
    /\ Use("faults")
    /\ log' = Append(log, [t |-> "signal"])
    /\ UNCHANGED <<tab, disk, seen, rule, worker, restorer, gaps>>

-----------------------------------------------------------------------------
(* Checkpoints.                                                            *)

Cuts == {log[n].cut : n \in Is(log, "cut")}

\* capture_checkpoint: only while no effect runs; the cut records the file
\* plane the live facts describe.
capture_checkpoint(cut) ==
    /\ Running = {}
    /\ log' = Append(log, CutEntry(cut, fold_file_manifest(log)))

\* whip checkpoint.  Repeating a name returns the retained cut and changes
\* nothing, so the cuts an operator takes are simply numbered.
Checkpoint ==
    /\ Use("cuts")
    /\ left.restores > 0      \* bound: a restore can follow the cut
    /\ LET taken == {cut \in Cuts : cut[2] = 0}
       IN  capture_checkpoint(<<Cardinality(taken) + 1, 0>>)
    /\ UNCHANGED <<tab, disk, seen, rule, worker, restorer, gaps>>

-----------------------------------------------------------------------------
(* whip restore: plan, save, read the head, reconcile the files, commit    *)
(* the marker, rebuild.  An error or a kill ends it where it stands.       *)

\* Mutant: the plan removes no file.
PlanWrites(cut) ==
    LET n == CHOOSE m \in Is(log, "cut") : log[m].cut = cut
    IN  [cut |-> cut, to |-> n, writes |-> log[n].manifest, removes |-> {}, at |-> Len(log)]

\* What is written is what the cut records; what is removed, the files that
\* are live now and not in the cut.
plan_restore(cut) ==
    LET n == CHOOSE m \in Is(log, "cut") : log[m].cut = cut
        now == fold_file_manifest(log)
    IN  [cut     |-> cut,
         to      |-> n,
         writes  |-> log[n].manifest,
         removes |-> {p \in Paths : now[p] # None /\ log[n].manifest[p] = None},
         at      |-> Len(log)]

Plan(cut) ==
    /\ restorer = None
    /\ Use("restores")
    /\ cut \in Cuts
    /\ restorer' = [pc |-> "planned", plan |-> plan_restore(cut), head |-> 0]
    /\ UNCHANGED <<log, tab, disk, seen, rule, worker, gaps>>

\* The key of the automatic cut is spent by the first restore of the cut, and
\* an effect that runs refuses it: either error ends the restore.
Save ==
    /\ At("planned")
    /\ LET cut == auto_before(restorer.plan.cut)
       IN  \/ /\ cut \notin Cuts
              /\ capture_checkpoint(cut)
              /\ restorer' = [restorer EXCEPT !.pc = "saved"]
           \/ /\ cut \in Cuts \/ Running # {}
              /\ restorer' = None
              /\ UNCHANGED log
    /\ UNCHANGED <<tab, disk, seen, rule, worker, left, gaps>>

ReadHead ==
    /\ At("saved")
    /\ restorer' = [restorer EXCEPT !.pc = "headed", !.head = Len(log)]
    /\ UNCHANGED <<log, tab, disk, seen, rule, worker, left, gaps>>

\* The file plane with the plan applied to the paths of a set.
Reconciled(done) ==
    [p \in Paths |->
        IF p \in done /\ restorer.plan.writes[p] # None THEN <<restorer.plan.writes[p]>>
        ELSE IF p \in done \cap restorer.plan.removes THEN Absent
        ELSE disk[p]]

Reconcile ==
    /\ At("headed")
    /\ disk' = Reconciled(Paths)
    /\ restorer' = [restorer EXCEPT !.pc = "reconciled"]
    /\ UNCHANGED <<log, tab, seen, rule, worker, left, gaps>>

\* A write or a remove fails, or the command is killed, part way.
ReconcileFails ==
    /\ At("headed")
    /\ Use("faults")
    /\ \E done \in SUBSET Paths \ {Paths} : disk' = Reconciled(done)
    /\ restorer' = None
    /\ gaps' = gaps \cup {"torn"}
    /\ UNCHANGED <<log, tab, seen, rule, worker>>

\* An effect the cut holds queued although the log holds an attempt of it:
\* start_run will refuse it for ever.
Spent(l) ==
    \E e \in LiveOf(l, "commit") \ LiveOf(l, "start") : \E n \in Is(l, "start") : l[n].e = e

\* What the marker is about to leave behind that the command does not see:
\* the log moved between the plan and the head, or the cut itself is not live.
MarkerGaps(l) ==
    {g \in {"moved", "orphaned", "spent"} :
        CASE g = "moved"    -> restorer.head # restorer.plan.at + 1
          [] g = "orphaned" -> restorer.plan.to \notin live(log)
          [] g = "spent"    -> Spent(l)}

\* Mutant: the marker is appended wherever the log is.
HeadUnchecked == TRUE

HeadUnmoved == Len(log) = restorer.head

\* commit_restore: the compare-and-set on the head and the marker, together.
CommitMarker ==
    /\ At("reconciled")
    /\ IF HeadUnmoved
       THEN /\ log' = Append(log, Marker(restorer.plan.cut, restorer.plan.to))
            /\ restorer' = [restorer EXCEPT !.pc = "marked"]
            /\ gaps' = gaps \cup MarkerGaps(log')
       ELSE /\ restorer' = None
            /\ gaps' = gaps \cup {"torn"}
            /\ UNCHANGED log
    /\ UNCHANGED <<tab, disk, seen, rule, worker, left>>

\* rebuild_projections, in a transaction of its own.
Rebuild ==
    /\ At("marked")
    /\ restorer' = None
    /\ IF Rebuildable(log)
       THEN tab' = Fold(log) /\ gaps' = gaps \cup Straddled
       ELSE tab' = tab /\ gaps' = gaps \cup {"stale"}
    /\ UNCHANGED <<log, disk, seen, rule, worker, left>>

\* The command is killed between two steps.
Killed ==
    /\ restorer # None
    /\ Use("faults")
    /\ restorer' = None
    /\ gaps' = gaps \cup (CASE At("reconciled") -> {"torn"}
                            [] At("marked") -> {"stale"}
                            [] OTHER -> {})
    /\ UNCHANGED <<log, tab, disk, seen, rule, worker>>

-----------------------------------------------------------------------------
Init ==
    /\ log = <<>>
    /\ tab = Fold(<<>>)
    /\ disk = [p \in Paths |-> Absent]
    /\ seen = None /\ rule = None /\ worker = None /\ restorer = None
    /\ left \in Scenarios
    /\ gaps = {}

RulePass == ReadLog \/ Evaluate \/ CommitRule

Work == (\E e \in DOMAIN tab.effects : Claim(e)) \/ Start \/ WriteFile \/ Settle

WorkerFaults == WriteFails \/ WorkerDies \/ (\E e \in Running : ExpireLease(e))

Restore ==
    Save \/ ReadHead \/ Reconcile \/ ReconcileFails \/ CommitMarker \/ Rebuild \/ Killed

\* The driver: beside a restore, or waiting for it.
Drive == (left.paused => restorer = None) /\ (RulePass \/ Work)

Next ==
    \/ Drive
    \/ WorkerFaults
    \/ Restore
    \/ Signal
    \/ Checkpoint
    \/ \E cut \in Cuts : Plan(cut)

Spec == Init /\ [][Next]_vars

\* A driven instance: the rule pass, the worker and a restore that was begun
\* go on, and a file write succeeds unless a fault is spent on it; nobody has
\* to take or to restore a cut.
FairSpec == Spec /\ WF_vars(Drive /\ RulePass) /\ WF_vars(Drive /\ Work) /\ WF_vars(Restore)

-----------------------------------------------------------------------------
TypeOK ==
    /\ log \in Seq(Events)
    /\ tab = [status |-> tab.status, effects |-> tab.effects, facts |-> tab.facts]
    /\ tab.status \in {"running", "completed"}
    /\ DOMAIN tab.effects \subseteq Firing
    /\ tab.effects \in [DOMAIN tab.effects -> {"queued", "running", "completed", "failed"}]
    /\ tab.facts \subseteq Nat
    /\ disk \in [Paths -> Bodies]
    /\ seen \in Nat \cup {None}
    /\ seen # None => rule = None /\ seen <= Len(log)
    /\ rule \in Firing \cup {None}
    /\ worker \in Workers \cup {None}
    /\ restorer \in Restorers \cup {None}
    /\ left \in Bounds
    /\ \E s \in Scenarios : left.steps = s.steps
    /\ gaps \subseteq {"torn", "moved", "orphaned", "spent", "stale", "straddled", "failed",
                    "unrecorded"}

\* The file a manifest entry describes: none, or one that ends with the chunk
\* the entry names and, unless that was appended, holds nothing else.
Describes(m, body) ==
    IF m = None THEN body = Absent
    ELSE /\ body # Absent
         /\ body[Len(body)] = m
         /\ ModeOf[m.step] # "append" => body = <<m>>

\* The files on disk are as the live facts describe them, whatever was
\* restored, run again and restored again: outside the write of a run and the
\* reconcile of a restore, and unless a write was cut off from its record, a
\* restore stopped after it touched the files, the log moved between its plan
\* and its head, or its cut was dropped.
PlanesAgree ==
    \/ gaps \cap {"torn", "moved", "orphaned", "unrecorded"} # {}
    \/ worker # None /\ worker.pc = "written"
    \/ At("reconciled")
    \/ \A p \in Paths : Describes(fold_file_manifest(log)[p], disk[p])

\* An end that is live has, in its timeline, a completion of every step, each by
\* an effect of that timeline: no rule fires on what a restore dropped, and no
\* run of a dropped effect counts.  (Not when a firing was evaluated before the
\* rebuild that drops its trigger, nor while the tables are not rebuilt.)
TimelineWhole ==
    \/ gaps \cap {"straddled", "stale"} # {}
    \/ At("marked")
    \/ live(log) \cap Is(log, "end") = {}
    \/ \A k \in Steps :
          \E e \in LiveOf(log, "commit") \cap LiveOf(log, "done") : e.step = k

\* What a marker drops was in the log when the restore read its head: a signal
\* admitted during the file reconcile is never truncated away unseen.
NothingUnseenDropped ==
    [][\A n \in live(log) \ live(log') : At("reconciled") /\ n <= restorer.head]_vars

\* However often it is restored, a driven workflow ends.  (Not when a cut held
\* an effect queued that has run since, nor after a write that failed, nor
\* through the other gaps.)
WorkflowEnds == [](gaps = {}) => <>(tab.status = "completed")

\* "A terminal absorbs the instance, also here": a restore does not put a
\* complete instance back into the running state.
TerminalAbsorbs == [][tab.status = "completed" => tab.status' = "completed"]_vars

\* "Thus you can undo each restore": restoring an automatic cut brings the
\* facts back to what they were when it was taken.
UndoRestores ==
    \A n \in Is(log, "restored") :
        (n = Len(log) /\ log[n].cut[2] > 0) =>
            LiveOf(log, "done") = LiveOf(SubSeq(log, 1, log[n].to), "done")
=============================================================================
