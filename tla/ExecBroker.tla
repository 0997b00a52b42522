---------------------------- MODULE ExecBroker ----------------------------
(***************************************************************************)
(* External commands on the hosted executor pool.  A broker object retains *)
(* the claim, the placement, the fence intent and the lifetime evidence of *)
(* every invocation (executor-receipts.ts); a controller object per        *)
(* container retains admission and completion and runs the termination     *)
(* barrier (executor-controller.ts, executor-controller-routes.ts); the    *)
(* container's process runs the command for the incarnation it announced   *)
(* (exec_server.rs, exec_incarnation.rs).                                  *)
(*                                                                         *)
(* Each object's tables are durable and change in transactions.  What is   *)
(* in memory is lost when the object is evicted: the calls the broker      *)
(* waits in, the deliveries and the barrier work of a controller.          *)
(* Requests and answers are in flight until they arrive or are lost.  A    *)
(* step is what an object does without awaiting anything.                  *)
(*                                                                         *)
(* Left out: the pool's slot scheduling (ExecScheduler), the unreceipted   *)
(* /exec route, placements of the first protocol version, the check of     *)
(* the norm runtime's profile between handshake and admission, and the     *)
(* comparison of placements, which are immutable once retained.            *)
(***************************************************************************)
EXTENDS ExecRecords, FiniteSets

CONSTANTS Containers,       \* the controllers of the pool
          FenceContainer,   \* where an invocation without placement is fenced
          Nowhere,
          Recalled,         \* invocations whose host asks again for the result
          MaxStarts,        \* bound: processes one container starts
          MaxFaults         \* bound: evictions, losses, deaths, failed destructions

ASSUME PoolAssumption ==
  /\ FenceContainer \in Containers /\ Nowhere \notin Containers
  /\ Recalled \subseteq Invocations
  /\ MaxStarts \in Nat /\ MaxFaults \in Nat

VARIABLES
  receipt,    \* broker, durable: [st, res] of the claim
  placed,     \* broker, durable: the container an invocation is bound to
  intent,     \* broker, durable: the fence the broker asks for
  life,       \* broker, durable: lifetime evidence
  owner,      \* broker, memory: the call that holds the claim
  net,        \* requests in flight from the broker to controllers
  answers,    \* answers in flight to the broker
  rec,        \* controller, durable: the record of each invocation
  bar,        \* controller, durable: the barrier
  task,       \* controller, memory: the delivery being handled
  joined,     \* controller, memory: fence requests awaiting the barrier
  work,       \* controller, memory: the step of the physical barrier
  proc,       \* the incarnation running in the container, 0 for none
  starts,     \* incarnations the container has had
  cmd,        \* the process side of a bound delivery
  runs,       \* how often the command of an invocation was started
  faults

brokerVars == <<receipt, placed, intent, life, owner>>
ctrlVars == <<rec, bar, task, joined, work>>
procVars == <<proc, starts, cmd, runs>>
vars == <<receipt, placed, intent, life, owner, net, answers, rec, bar, task, joined,
          work, proc, starts, cmd, runs, faults>>

NoTask == [pc |-> "none", gen |-> 0, inc |-> 0]
NoCmd == [st |-> "none", inc |-> 0, res |-> NoResult]
NoReceipt == [st |-> "none", res |-> NoResult]

Request(i, c, op, f, to) == [inv |-> i, at |-> c, op |-> op, fence |-> f, to |-> to]

\* An answer reaches the call that asked, if that call is still there.
Answer(i, to, r) ==
  IF to = "gone" \/ (to = "owner" /\ owner[i] # "sent") THEN {}
  ELSE {[inv |-> i, to |-> to, rec |-> r]}

Init ==
  /\ receipt = [i \in Invocations |-> NoReceipt]
  /\ placed = [i \in Invocations |-> Nowhere]
  /\ intent = [i \in Invocations |-> NoFence]
  /\ life = [i \in Invocations |-> PendingLife]
  /\ owner = [i \in Invocations |-> "none"]
  /\ net = {} /\ answers = {}
  /\ rec = [c \in Containers |-> [i \in Invocations |-> Absent]]
  /\ bar = [c \in Containers |-> NoBarrier]
  /\ task = [c \in Containers |-> [i \in Invocations |-> NoTask]]
  /\ joined = {}
  /\ work = [c \in Containers |-> "idle"]
  /\ proc = [c \in Containers |-> 0]
  /\ starts = [c \in Containers |-> 0]
  /\ cmd = [c \in Containers |-> [i \in Invocations |-> NoCmd]]
  /\ runs = [i \in Invocations |-> 0]
  /\ faults = 0

-----------------------------------------------------------------------------
(* The broker.                                                             *)

\* First call for an invocation: the claim commits before anything is sent.
Claim(i) ==
  /\ receipt[i].st = "none"
  /\ receipt' = [receipt EXCEPT ![i].st = "started"]
  /\ owner' = [owner EXCEPT ![i] = "queued"]
  /\ UNCHANGED <<placed, intent, life, net, answers, ctrlVars, procVars, faults>>

\* Mutant of Place: a placement made meanwhile is replaced.
PlaceAnyway(i, c) ==
  /\ owner[i] = "queued"
  /\ placed' = [placed EXCEPT ![i] = c]
  /\ owner' = [owner EXCEPT ![i] = "sent"]
  /\ net' = net \cup {Request(i, c, "deliver", NoFence, "owner")}
  /\ UNCHANGED <<receipt, intent, life, answers, ctrlVars, procVars, faults>>

\* A slot was granted: the placement commits before the delivery is sent.  A
\* placement made meanwhile by a fence cannot be replaced, and the call fails.
Place(i, c) ==
  /\ owner[i] = "queued"
  /\ \/ /\ placed[i] = Nowhere
        /\ placed' = [placed EXCEPT ![i] = c]
        /\ owner' = [owner EXCEPT ![i] = "sent"]
        /\ net' = net \cup {Request(i, c, "deliver", NoFence, "owner")}
     \/ /\ placed[i] # Nowhere
        /\ owner' = [owner EXCEPT ![i] = "none"]
        /\ UNCHANGED <<placed, net>>
  /\ UNCHANGED <<receipt, intent, life, answers, ctrlVars, procVars, faults>>

\* The queue is full or the caller's round fails: the claim stays, unplaced.
Refused(i) ==
  /\ owner[i] \in {"queued", "sent"}
  /\ owner' = [owner EXCEPT ![i] = "none"]
  /\ answers' = {a \in answers : a.inv # i \/ a.to # "owner"}
  /\ UNCHANGED <<receipt, placed, intent, life, net, ctrlVars, procVars, faults>>

\* A later call finds the claim: it never dispatches, it asks the controller.
Recall(i) ==
  /\ i \in Recalled
  /\ receipt[i].st = "started" /\ placed[i] # Nowhere
  /\ net' = net \cup {Request(i, placed[i], "read", NoFence, "call")}
  /\ UNCHANGED <<brokerVars, answers, ctrlVars, procVars, faults>>

\* Reconciliation with a fence, joining the retained intent.  An invocation
\* that was never placed is claimed and bound to the fence container in the
\* same transaction, so that no dispatch can follow.
Reconcile(i, f) ==
  /\ life[i] = PendingLife
  /\ receipt' = [receipt EXCEPT ![i].st = IF @ = "none" THEN "started" ELSE @]
  /\ placed' = [placed EXCEPT ![i] = IF @ = Nowhere THEN FenceContainer ELSE @]
  /\ intent' = [intent EXCEPT ![i] = IF @ = NoFence THEN f ELSE @]
  /\ net' = net \cup {Request(i, placed'[i], "fence", intent'[i], "reconcile")}
  /\ UNCHANGED <<life, owner, answers, ctrlVars, procVars, faults>>

\* The answer to a claim's delivery or to a later call: a completion is
\* retained in the receipt, anything else leaves the invocation pending.
RetainAnswer(a) ==
  /\ a \in answers /\ a.to \in {"owner", "call"}
  /\ MayRetain(receipt[a.inv], a.rec)
  /\ receipt' = [receipt EXCEPT ![a.inv] =
                   IF a.rec.st = "completed" THEN [st |-> "completed", res |-> a.rec.res] ELSE @]
  /\ owner' = [owner EXCEPT ![a.inv] = IF a.to = "owner" THEN "none" ELSE @]
  /\ answers' = answers \ {a}
  /\ UNCHANGED <<placed, intent, life, net, ctrlVars, procVars, faults>>

\* The answer to a reconciliation: result and lifetime evidence, together.
Observe(a) ==
  /\ a \in answers /\ a.to = "reconcile"
  /\ MayObserve(receipt[a.inv], life[a.inv], a.rec)
  /\ receipt' = [receipt EXCEPT ![a.inv] =
                   IF a.rec.st = "completed" THEN [st |-> "completed", res |-> a.rec.res] ELSE @]
  /\ life' = [life EXCEPT ![a.inv] =
                IF LifeSeen(a.rec) # PendingLife THEN LifeSeen(a.rec) ELSE @]
  /\ answers' = answers \ {a}
  /\ UNCHANGED <<placed, intent, owner, net, ctrlVars, procVars, faults>>

\* Eviction of the broker: its calls are gone; what they sent is in flight.
EvictBroker ==
  /\ faults < MaxFaults
  /\ owner' = [i \in Invocations |-> "none"]
  /\ answers' = {}
  /\ net' = {[m EXCEPT !.to = "gone"] : m \in net}
  /\ joined' = {[m EXCEPT !.to = "gone"] : m \in joined}
  /\ <<owner, answers, net, joined>> # <<owner, answers, net, joined>>'
  /\ faults' = faults + 1
  /\ UNCHANGED <<receipt, placed, intent, life, rec, bar, task, work, procVars>>

\* A request or an answer is lost.
Lose ==
  /\ faults < MaxFaults
  /\ \/ \E m \in net : net' = net \ {m} /\ UNCHANGED answers
     \/ \E a \in answers : answers' = answers \ {a} /\ UNCHANGED net
  /\ faults' = faults + 1
  /\ UNCHANGED <<brokerVars, ctrlVars, procVars>>

-----------------------------------------------------------------------------
(* A controller and its container.                                         *)

ReceiveRead(m) ==
  /\ m \in net /\ m.op = "read"
  /\ net' = net \ {m}
  /\ answers' = answers \cup Answer(m.inv, m.to, rec[m.at][m.inv])
  /\ UNCHANGED <<brokerVars, ctrlVars, procVars, faults>>

\* Mutant of BarrierWork: an interrupted barrier is not taken up again.
BarrierWorkOnce(c, recs) ==
  LET begun == Begin(bar[c], recs)
  IN /\ rec' = [rec EXCEPT ![c] = begun.recs]
     /\ bar' = [bar EXCEPT ![c] = begun.barrier]
     /\ work' = [work EXCEPT ![c] = IF begun.barrier # bar[c] THEN "prepared" ELSE @]

\* Join the barrier work, or start it from what is retained.
BarrierWork(c, recs) ==
  IF work[c] # "idle"
    THEN /\ rec' = [rec EXCEPT ![c] = recs]
         /\ UNCHANGED <<bar, work>>
    ELSE LET begun == Begin(bar[c], recs)
         IN /\ rec' = [rec EXCEPT ![c] = begun.recs]
            /\ bar' = [bar EXCEPT ![c] = begun.barrier]
            /\ work' = [work EXCEPT ![c] = IF begun.barrier.closing THEN "prepared" ELSE "idle"]

\* A fence request.  One that finds nothing to prove, and no barrier closing,
\* is answered at once; the others await the barrier.
ReceiveFence(m) ==
  LET c == m.at
      r == EnsureFence(rec[c][m.inv], m.fence)
      recs == [rec[c] EXCEPT ![m.inv] = r]
      waits == PendingFence(r) \/ bar[c].closing
  IN /\ m \in net /\ m.op = "fence"
     /\ net' = net \ {m}
     /\ \/ /\ waits
           /\ BarrierWork(c, recs)
           /\ joined' = joined \cup {m}
           /\ UNCHANGED answers
        \/ /\ ~waits
           /\ rec' = [rec EXCEPT ![c] = recs]
           /\ answers' = answers \cup Answer(m.inv, m.to, r)
           /\ UNCHANGED <<bar, work, joined>>
     /\ UNCHANGED <<brokerVars, task, procVars, faults>>

\* A delivery.  A record answers it; a closing barrier is awaited first; else
\* the process is prepared under the generation observed here.
ReceiveDeliver(m) ==
  LET c == m.at  i == m.inv
  IN /\ m \in net /\ m.op = "deliver"
     /\ net' = net \ {m}
     /\ \/ /\ rec[c][i].st # "absent"
           /\ answers' = answers \cup Answer(i, m.to, rec[c][i])
           /\ UNCHANGED <<rec, bar, work, task>>
        \/ /\ rec[c][i].st = "absent" /\ bar[c].closing
           /\ BarrierWork(c, rec[c])
           /\ task' = [task EXCEPT ![c][i].pc = "awaiting"]
           /\ UNCHANGED answers
        \/ /\ rec[c][i].st = "absent" /\ ~bar[c].closing
           /\ task' = [task EXCEPT ![c][i] = [@ EXCEPT !.pc = "starting", !.gen = bar[c].gen]]
           /\ UNCHANGED <<answers, rec, bar, work>>
     /\ UNCHANGED <<brokerVars, joined, procVars, faults>>

\* The process is up, started now if there was none.  The record is read
\* again: a fence may have come while the container started.
Started(c, i) ==
  /\ task[c][i].pc = "starting"
  /\ \/ proc[c] # 0 /\ UNCHANGED <<proc, starts>>
     \/ /\ proc[c] = 0 /\ starts[c] < MaxStarts
        /\ starts' = [starts EXCEPT ![c] = @ + 1]
        /\ proc' = [proc EXCEPT ![c] = starts[c] + 1]
  /\ \/ /\ rec[c][i].st = "absent"
        /\ task' = [task EXCEPT ![c][i].pc = "started"]
        /\ UNCHANGED answers
     \/ /\ rec[c][i].st # "absent"
        /\ task' = [task EXCEPT ![c][i] = NoTask]
        /\ answers' = answers \cup Answer(i, "owner", rec[c][i])
  /\ UNCHANGED <<brokerVars, net, rec, bar, joined, work, cmd, runs, faults>>

\* The running process announces its incarnation.
Handshake(c, i) ==
  /\ task[c][i].pc = "started" /\ proc[c] # 0
  /\ task' = [task EXCEPT ![c][i] = [@ EXCEPT !.pc = "known", !.inc = proc[c]]]
  /\ UNCHANGED <<brokerVars, net, answers, rec, bar, joined, work, procVars, faults>>

\* Admission, against the barrier as it is now, and the bound delivery.
Admit(c, i) ==
  /\ task[c][i].pc = "known"
  /\ rec[c][i].inc \in {0, task[c][i].inc}
  /\ IF Admits(rec[c][i], bar[c], task[c][i].gen)
       THEN /\ rec' = [rec EXCEPT ![c][i] = Admitted(task[c][i].inc)]
            /\ task' = [task EXCEPT ![c][i].pc = "executing"]
            /\ cmd' = [cmd EXCEPT ![c][i] = [NoCmd EXCEPT !.st = "sent", !.inc = task[c][i].inc]]
            /\ UNCHANGED answers
       ELSE /\ task' = [task EXCEPT ![c][i] = NoTask]
            /\ answers' = answers \cup Answer(i, "owner", rec[c][i])
            /\ UNCHANGED <<rec, cmd>>
  /\ UNCHANGED <<brokerVars, net, bar, joined, work, proc, starts, runs, faults>>

\* The process checks the incarnation before it runs anything.
Accept(c, i) ==
  /\ cmd[c][i].st = "sent"
  /\ IF cmd[c][i].inc = proc[c]
       THEN /\ cmd' = [cmd EXCEPT ![c][i].st = "running"]
            /\ runs' = [runs EXCEPT ![i] = @ + 1]
       ELSE cmd' = [cmd EXCEPT ![c][i] = NoCmd] /\ UNCHANGED runs
  /\ UNCHANGED <<brokerVars, net, answers, ctrlVars, proc, starts, faults>>

Return(c, i) ==
  /\ cmd[c][i].st = "running"
  /\ \E v \in Results : cmd' = [cmd EXCEPT ![c][i] = [@ EXCEPT !.st = "done", !.res = v]]
  /\ UNCHANGED <<brokerVars, net, answers, ctrlVars, proc, starts, runs, faults>>

\* The result arrives at the delivery that waits for it, and is retained.
Completed(c, i) ==
  LET v == cmd[c][i].res  r == Complete(rec[c][i], v)
  IN /\ task[c][i].pc = "executing" /\ cmd[c][i].st = "done"
     /\ MayComplete(rec[c][i], task[c][i].inc, v)
     /\ rec' = [rec EXCEPT ![c][i] = r]
     /\ task' = [task EXCEPT ![c][i] = NoTask]
     /\ cmd' = [cmd EXCEPT ![c][i] = NoCmd]
     /\ answers' = answers \cup Answer(i, "owner", r)
     /\ UNCHANGED <<brokerVars, net, bar, joined, work, proc, starts, runs, faults>>

\* The delivery fails where it stands: startup or the process failed, its
\* caller is gone, or a barrier aborts it.  The process may go on.
Abandon(c, i) ==
  /\ task[c][i].pc \notin {"none", "awaiting"}
  /\ task' = [task EXCEPT ![c][i] = NoTask]
  /\ UNCHANGED <<brokerVars, net, answers, rec, bar, joined, work, procVars, faults>>

\* The physical barrier: settle the startups, destroy the container, settle
\* the executions, end the barrier.
Quiet(c, pc) == \A i \in Invocations : task[c][i].pc # pc

DrainStartups(c) ==
  /\ work[c] = "prepared" /\ Quiet(c, "starting")
  /\ work' = [work EXCEPT ![c] = "drained"]
  /\ UNCHANGED <<brokerVars, net, answers, rec, bar, task, joined, procVars, faults>>

Killed(c) ==
  /\ proc' = [proc EXCEPT ![c] = 0]
  /\ cmd' = [cmd EXCEPT ![c] = [i \in Invocations |->
               IF cmd[c][i].st = "done" THEN cmd[c][i] ELSE NoCmd]]
  /\ UNCHANGED <<starts, runs>>

\* Mutant of Destroy: the container is left running.
DestroyNothing(c) ==
  /\ work[c] = "drained"
  /\ work' = [work EXCEPT ![c] = "destroyed"]
  /\ UNCHANGED <<brokerVars, net, answers, rec, bar, task, joined, procVars, faults>>

Destroy(c) ==
  /\ work[c] = "drained"
  /\ work' = [work EXCEPT ![c] = "destroyed"]
  /\ Killed(c)
  /\ UNCHANGED <<brokerVars, net, answers, rec, bar, task, joined, faults>>

\* Mutant of FinishBarrier: executions are not settled first.
FinishUndrained(c) ==
  LET done == Finish(bar[c], rec[c])
  IN /\ work[c] = "destroyed"
     /\ MayFinish(bar[c], rec[c])
     /\ rec' = [rec EXCEPT ![c] = done.recs]
     /\ bar' = [bar EXCEPT ![c] = done.barrier]
     /\ work' = [work EXCEPT ![c] = "idle"]
     /\ answers' = answers \cup UNION {Answer(m.inv, m.to, done.recs[m.inv]) :
                                         m \in {n \in joined : n.at = c}}
     /\ joined' = {m \in joined : m.at # c}
     /\ task' = [task EXCEPT ![c] = [i \in Invocations |->
                   IF task[c][i].pc = "awaiting"
                     THEN [NoTask EXCEPT !.pc = "starting", !.gen = bar[c].gen]
                     ELSE task[c][i]]]
     /\ UNCHANGED <<brokerVars, net, procVars, faults>>

\* The end of the barrier wakes what awaited it, in the same turn: fence
\* requests are answered, deliveries observe the new generation.
FinishBarrier(c) ==
  LET done == Finish(bar[c], rec[c])
  IN /\ work[c] = "destroyed" /\ Quiet(c, "executing")
     /\ MayFinish(bar[c], rec[c])
     /\ rec' = [rec EXCEPT ![c] = done.recs]
     /\ bar' = [bar EXCEPT ![c] = done.barrier]
     /\ work' = [work EXCEPT ![c] = "idle"]
     /\ answers' = answers \cup UNION {Answer(m.inv, m.to, done.recs[m.inv]) :
                                         m \in {n \in joined : n.at = c}}
     /\ joined' = {m \in joined : m.at # c}
     /\ task' = [task EXCEPT ![c] = [i \in Invocations |->
                   IF task[c][i].pc = "awaiting"
                     THEN [NoTask EXCEPT !.pc = "starting", !.gen = bar[c].gen]
                     ELSE task[c][i]]]
     /\ UNCHANGED <<brokerVars, net, procVars, faults>>

\* The barrier work ends without ending the barrier: destruction failed, or
\* the controller was evicted, which also ends its deliveries.
Interrupted(c, evicted) ==
  /\ faults < MaxFaults
  /\ \/ evicted /\ \E i \in Invocations : task[c][i].pc # "none" \/ work[c] # "idle"
     \/ ~evicted /\ work[c] = "drained"
  /\ work' = [work EXCEPT ![c] = "idle"]
  /\ joined' = {m \in joined : m.at # c}
  /\ task' = [task EXCEPT ![c] = [i \in Invocations |->
                IF evicted \/ task[c][i].pc = "awaiting" THEN NoTask ELSE task[c][i]]]
  /\ faults' = faults + 1
  /\ UNCHANGED <<brokerVars, net, answers, rec, bar, procVars>>

\* The process dies by itself, or the idle container is put to sleep.
Die(c) ==
  /\ proc[c] # 0 /\ faults < MaxFaults
  /\ Killed(c)
  /\ faults' = faults + 1
  /\ UNCHANGED <<brokerVars, net, answers, ctrlVars>>

-----------------------------------------------------------------------------
Receive == \E m \in net : ReceiveRead(m) \/ ReceiveFence(m) \/ ReceiveDeliver(m)

Barrier(c) == DrainStartups(c) \/ Destroy(c) \/ FinishBarrier(c)

Fault ==
  \/ EvictBroker
  \/ Lose
  \/ \E c \in Containers : Die(c) \/ \E evicted \in BOOLEAN : Interrupted(c, evicted)

Next ==
  \/ \E i \in Invocations :
       Claim(i) \/ Refused(i) \/ Recall(i) \/ \E c \in Containers : Place(i, c)
  \/ \E i \in Invocations, f \in FenceIds : Reconcile(i, f)
  \/ \E a \in answers : RetainAnswer(a) \/ Observe(a)
  \/ Receive
  \/ \E c \in Containers, i \in Invocations :
       Started(c, i) \/ Handshake(c, i) \/ Admit(c, i) \/ Accept(c, i) \/ Return(c, i)
         \/ Completed(c, i) \/ Abandon(c, i)
  \/ \E c \in Containers : Barrier(c)
  \/ Fault

Spec == Init /\ [][Next]_vars

(***************************************************************************)
(* Fairness, for what the code drives by itself.  The workflow host keeps  *)
(* an alarm armed and reconciles every fenced run again until it holds a   *)
(* closure; a request that is not lost is handled; the barrier's steps     *)
(* follow each other, and the barrier aborts what it waits for.            *)
(***************************************************************************)
AbortForBarrier(c, i) ==
  /\ \/ work[c] = "prepared" /\ task[c][i].pc = "starting"
     \/ work[c] = "destroyed" /\ task[c][i].pc = "executing"
  /\ Abandon(c, i)

FairSpec ==
  /\ Spec
  /\ \A i \in Invocations :
       /\ WF_vars(intent[i] # NoFence /\ Reconcile(i, intent[i]))
       /\ WF_vars(\E m \in net : m.inv = i /\ ReceiveFence(m))
       /\ WF_vars(\E a \in answers : a.inv = i /\ Observe(a))
  /\ \A c \in Containers :
       /\ WF_vars(Barrier(c))
       /\ \A i \in Invocations : WF_vars(AbortForBarrier(c, i))

-----------------------------------------------------------------------------
(* Properties.                                                             *)

TypeOK ==
  /\ receipt \in [Invocations -> [st : {"none", "started", "completed"},
                                  res : Results \cup {NoResult}]]
  /\ placed \in [Invocations -> Containers \cup {Nowhere}]
  /\ intent \in [Invocations -> FenceIds \cup {NoFence}]
  /\ life \in [Invocations -> Lives]
  /\ owner \in [Invocations -> {"none", "queued", "sent"}]
  /\ \A c \in Containers : \A i \in Invocations : Valid(rec[c][i])
  /\ \A c \in Containers :
       bar[c].gen \in Nat /\ bar[c].closing \in BOOLEAN /\ Targeted(bar[c]) \subseteq Invocations
  /\ \A c \in Containers : \A i \in Invocations :
       task[c][i].pc \in {"none", "awaiting", "starting", "started", "known", "executing"}
  /\ work \in [Containers -> {"idle", "prepared", "drained", "destroyed"}]
  /\ runs \in [Invocations -> Nat]

\* What the broker states about each invocation, from what it retains.
Outcome == [i \in Invocations |-> OutcomeOf(receipt[i], life[i])]

\* The broker and its controllers implement the executor's promise: through
\* evictions, losses, late deliveries and barriers of sibling invocations, a
\* command runs at most once and the broker's statement about it is final.
Promise == INSTANCE ExecOutcome WITH verdict <- Outcome
KeepsPromise == Promise!Spec

\* A termination proof is physical: the incarnation a proved record was
\* admitted under does not run any more, and neither does its command.
ProofIsPhysical ==
  \A c \in Containers : \A i \in Invocations :
    rec[c][i].bar # 0 => proc[c] # rec[c][i].inc /\ cmd[c][i].st \notin {"sent", "running"}

\* A closing barrier can always end: nothing was admitted behind it, and no
\* target changed otherwise than by completing.  The errors of finish_json,
\* which would leave the container closed for good, are never raised.
BarrierCanFinish ==
  \A c \in Containers : bar[c].closing => MayFinish(bar[c], rec[c])

\* No evidence is ever refused as contradictory: an answer in flight, however
\* late, agrees with what the broker has retained, and a result that arrives
\* at its delivery is accepted by the record.
EvidenceAgrees ==
  /\ \A a \in answers :
       IF a.to = "reconcile" THEN MayObserve(receipt[a.inv], life[a.inv], a.rec)
                             ELSE MayRetain(receipt[a.inv], a.rec)
  /\ \A c \in Containers : \A i \in Invocations :
       task[c][i].pc = "executing" /\ cmd[c][i].st = "done"
         => MayComplete(rec[c][i], task[c][i].inc, cmd[c][i].res)

\* A fence is answered: once the broker holds a fence intent, the lifetime of
\* the invocation is eventually proved, whatever was in progress.
FenceCloses ==
  \A i \in Invocations : intent[i] # NoFence ~> life[i] # PendingLife

=============================================================================
