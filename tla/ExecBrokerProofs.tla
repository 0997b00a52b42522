-------------------------- MODULE ExecBrokerProofs --------------------------
(***************************************************************************)
(* Theorems about ExecBroker: its types, that a termination proof is       *)
(* physical, that a barrier can end, that no evidence is contradictory,    *)
(* and that broker and controllers implement ExecOutcome.                  *)
(*                                                                         *)
(* The argument.  An invocation has a record at the container it is placed *)
(* at and nowhere else.  A record only moves forward, and its final forms, *)
(* never admitted or proved by a barrier, do not move at all (Forward);    *)
(* so an answer in flight, however old, is an earlier version of the       *)
(* record, and what the broker retains from it stays true (Told).  While a *)
(* barrier closes, its targets are exactly the records that are not over,  *)
(* as they are (Frozen), nothing is admitted, and once startups are        *)
(* drained no process can start: so the destruction leaves nothing alive   *)
(* until the barrier has ended, and later processes have later numbers     *)
(* (Housed, Bound).                                                        *)
(***************************************************************************)
EXTENDS ExecBroker, TLAPS

Fences == FenceIds \cup Nat \cup {NoFence}
Tasks == [pc : {"none", "awaiting", "starting", "started", "known", "executing"}, gen : Nat, inc : Nat]
Commands == [st : {"none", "sent", "running", "done"}, inc : Nat, res : Results \cup {NoResult}]
Barriers ==
  [gen : Nat, closing : BOOLEAN, targets : SUBSET [inv : Invocations, inc : Nat, fence : Fences]]
Messages ==
  [inv : Invocations, at : Containers, op : {"deliver", "read", "fence"},
   fence : FenceIds \cup {NoFence}, to : {"owner", "call", "reconcile", "gone"}]
Replies == [inv : Invocations, to : {"owner", "call", "reconcile"}, rec : Records]
Receipts == [st : {"none", "started", "completed"}, res : Results \cup {NoResult}]

Fields ==
  /\ receipt \in [Invocations -> Receipts]
  /\ placed \in [Invocations -> Containers \cup {Nowhere}]
  /\ intent \in [Invocations -> FenceIds \cup {NoFence}]
  /\ life \in [Invocations -> Lives]
  /\ owner \in [Invocations -> {"none", "queued", "sent"}]
  /\ net \in SUBSET Messages /\ joined \in SUBSET Messages
  /\ answers \in SUBSET Replies
  /\ rec \in [Containers -> [Invocations -> Records]]
  /\ bar \in [Containers -> Barriers]
  /\ task \in [Containers -> [Invocations -> Tasks]]
  /\ work \in [Containers -> {"idle", "prepared", "drained", "destroyed"}]
  /\ proc \in [Containers -> Nat] /\ starts \in [Containers -> Nat]
  /\ cmd \in [Containers -> [Invocations -> Commands]]
  /\ runs \in [Invocations -> {0, 1}]
  /\ faults \in Nat

\* A record, a delivery and a command of an invocation are where it is placed,
\* and requests go there.
Placed ==
  /\ \A c \in Containers, i \in Invocations :
       rec[c][i].st # "absent" \/ task[c][i].pc # "none" \/ cmd[c][i].st # "none" => placed[i] = c
  /\ \A m \in net \cup joined : placed[m.inv] = m.at /\ (m.op = "fence" => m.fence # NoFence)

\* Records are well-formed, and no incarnation is known that was not started.
\* The incarnation of a proved record is past.
Bound ==
  \A c \in Containers, i \in Invocations :
    /\ Valid(rec[c][i]) /\ rec[c][i].inc <= starts[c] /\ task[c][i].inc <= starts[c]
    /\ task[c][i].pc \in {"known", "executing"} => task[c][i].inc # 0
    /\ rec[c][i].bar # 0 => proc[c] # rec[c][i].inc

\* A delivery that executes, and a command that lives, belong to a record that
\* is open under their incarnation.
Open ==
  \A c \in Containers, i \in Invocations :
    /\ task[c][i].pc = "executing" =>
         rec[c][i].st \in {"admitted", "fencing"} /\ rec[c][i].inc = task[c][i].inc
    /\ cmd[c][i].st # "none" =>
         rec[c][i].st \in {"admitted", "fencing", "terminated"} /\ rec[c][i].inc = cmd[c][i].inc
    /\ cmd[c][i].st \in {"sent", "running"} => rec[c][i].st # "terminated"

\* The command has been started exactly if its record was admitted and its
\* process accepted it.
Counted ==
  /\ \A c \in Containers, i \in Invocations :
       /\ cmd[c][i].st = "sent" => runs[i] = 0
       /\ cmd[c][i].st \in {"running", "done"} => runs[i] = 1
       /\ cmd[c][i].st = "done" => cmd[c][i].res \in Results
       /\ rec[c][i].st = "completed" => runs[i] = 1
  /\ \A i \in Invocations :
       runs[i] = 1 => placed[i] # Nowhere /\ rec[placed[i]][i].inc # 0

\* While a barrier closes, its targets are the executions that are not proved
\* over, as their records are.
FrozenAt(b, recs) ==
  /\ b.gen # 0
  /\ \A t \in b.targets :
       /\ recs[t.inv].st \in {"fencing", "completed"} /\ recs[t.inv].bar = 0
       /\ recs[t.inv].inc = t.inc /\ recs[t.inv].fence = t.fence /\ t.fence # NoFence
  /\ \A i \in Invocations :
       recs[i].st # "admitted" /\ (recs[i].st = "fencing" => i \in Targeted(b))

Frozen == \A c \in Containers : bar[c].closing => FrozenAt(bar[c], rec[c])

\* The physical barrier: after the startups are drained nothing starts, and
\* after the destruction nothing lives.
Housed ==
  \A c \in Containers :
    /\ proc[c] <= starts[c]
    /\ work[c] # "idle" => bar[c].closing
    /\ work[c] \in {"drained", "destroyed"} => Quiet(c, "starting")
    /\ work[c] = "destroyed" =>
         proc[c] = 0 /\ \A i \in Invocations : cmd[c][i].st \notin {"sent", "running"}

\* A record that does not change any more.
Final(r) == r.st = "not_admitted" \/ r.bar # 0

\* A later version of a record.
Forward(r, s) ==
  /\ r.st = "completed" => s.st = "completed" /\ s.res = r.res
  /\ Final(r) => s = r

\* What the broker retains, and what is on its way to it, is what the record
\* says or said.
Told ==
  /\ \A i \in Invocations :
       /\ receipt[i].res # NoResult =>
            /\ placed[i] # Nowhere
            /\ rec[placed[i]][i].st = "completed" /\ rec[placed[i]][i].res = receipt[i].res
       /\ life[i] # PendingLife =>
            /\ placed[i] # Nowhere
            /\ Final(rec[placed[i]][i]) /\ LifeSeen(rec[placed[i]][i]) = life[i]
            /\ rec[placed[i]][i].st = "completed" => receipt[i].res = rec[placed[i]][i].res
  /\ \A a \in answers :
       placed[a.inv] # Nowhere /\ Valid(a.rec) /\ Forward(a.rec, rec[placed[a.inv]][a.inv])

Custody ==
  Fields /\ Placed /\ Bound /\ Open /\ Counted /\ Frozen /\ Housed /\ Told

-----------------------------------------------------------------------------
(* Functions of a container and an invocation, changed at one pair.        *)

\* A change at one pair is at that pair only.
LEMMA Changed ==
  ASSUME NEW S, NEW f \in [Containers -> [Invocations -> S]], NEW c \in Containers,
         NEW i \in Invocations, NEW x \in S
  PROVE  /\ [f EXCEPT ![c][i] = x] \in [Containers -> [Invocations -> S]]
         /\ \A d \in Containers, j \in Invocations :
              [f EXCEPT ![c][i] = x][d][j] = IF d = c /\ j = i THEN x ELSE f[d][j]
  OBVIOUS

-----------------------------------------------------------------------------
(* Records move forward.                                                   *)

\* Being a later version is transitive.
LEMMA ForwardChain ==
  ASSUME NEW r, NEW s, NEW t, Forward(r, s), Forward(s, t)
  PROVE  Forward(r, t)
  BY DEF Forward, Final

\* Joining or establishing a fence.
LEMMA FenceEnsured ==
  ASSUME NEW r, Valid(r), NEW f \in FenceIds \cup Nat
  PROVE  /\ Valid(EnsureFence(r, f)) /\ Forward(r, EnsureFence(r, f))
         /\ EnsureFence(r, f).st \notin {"absent", "admitted"}
         /\ EnsureFence(r, f).fence # NoFence
         /\ r.st \in {"fencing", "completed"} /\ r.fence # NoFence => EnsureFence(r, f).fence = r.fence
         /\ EnsureFence(r, f).inc = r.inc /\ EnsureFence(r, f).res = r.res
         /\ EnsureFence(r, f).bar = r.bar
         /\ r.st \in {"admitted", "fencing"} => EnsureFence(r, f).st = "fencing"
         /\ r.st = "absent" => EnsureFence(r, f).st = "not_admitted"
         /\ r.st \in {"not_admitted", "terminated", "completed"} => EnsureFence(r, f).st = r.st
  <1>1. r \in Records /\ f # NoFence
    BY Distinct DEF Valid
  <1>2. CASE r.st = "absent"
    <2>1. EnsureFence(r, f) = [r EXCEPT !.st = "not_admitted", !.fence = f]
      BY <1>2 DEF EnsureFence
    <2>2. /\ EnsureFence(r, f) \in Records
          /\ EnsureFence(r, f).st = "not_admitted" /\ EnsureFence(r, f).fence = f
          /\ EnsureFence(r, f).inc = r.inc /\ EnsureFence(r, f).bar = r.bar
          /\ EnsureFence(r, f).res = r.res
      BY <1>1, <2>1 DEF Records, States
    <2>3. r.bar = 0 /\ r.fence \in Fences
      BY <1>1, <1>2 DEF Valid, Records, Fences
    <2> QED BY <1>1, <1>2, <2>2, <2>3 DEF Valid, Forward, Final
  <1>3. CASE r.st = "admitted"
    <2>1. EnsureFence(r, f) = [r EXCEPT !.st = "fencing", !.fence = f]
      BY <1>3 DEF EnsureFence
    <2>2. /\ EnsureFence(r, f) \in Records
          /\ EnsureFence(r, f).st = "fencing" /\ EnsureFence(r, f).fence = f
          /\ EnsureFence(r, f).inc = r.inc /\ EnsureFence(r, f).bar = r.bar
          /\ EnsureFence(r, f).res = r.res
      BY <1>1, <2>1 DEF Records, States
    <2>3. r.bar = 0 /\ r.fence \in Fences
      BY <1>1, <1>3 DEF Valid, Records, Fences
    <2> QED BY <1>1, <1>3, <2>2, <2>3 DEF Valid, Forward, Final
  <1>4. CASE r.st = "completed" /\ r.fence = NoFence
    <2>1. EnsureFence(r, f) = [r EXCEPT !.fence = f]
      BY <1>4 DEF EnsureFence
    <2> QED BY <1>1, <1>4, <2>1 DEF Valid, Records, States, Forward, Final
  <1>5. CASE r.st \notin {"absent", "admitted"} /\ ~(r.st = "completed" /\ r.fence = NoFence)
    <2>1. EnsureFence(r, f) = r
      BY <1>5 DEF EnsureFence
    <2> QED BY <1>1, <1>5, <2>1 DEF Valid, Records, States, Forward, Final
  <1> QED BY <1>2, <1>3, <1>4, <1>5

\* The statement an observed record makes about the lifetime.
LEMMA LifeStated ==
  ASSUME NEW r, Valid(r)
  PROVE  /\ LifeSeen(r) \in Lives
         /\ LifeSeen(r) # PendingLife <=> Final(r)
         /\ LifeSeen(r).st = "not_admitted" <=> r.st = "not_admitted"
  <1>1. r \in Records
    BY DEF Valid
  <1>2. CASE r.st = "not_admitted"
    <2>1. r.bar = 0
      BY <1>2 DEF Valid
    <2>2. LifeSeen(r) = [st |-> "not_admitted", inc |-> 0, fence |-> r.fence, bar |-> 0]
      BY <1>2, <2>1 DEF LifeSeen
    <2>3. /\ LifeSeen(r).st = "not_admitted" /\ LifeSeen(r) \in Lives /\ PendingLife.st = "pending"
      BY <1>1, <2>2 DEF PendingLife, Lives, Records
    <2> QED BY <1>2, <2>3 DEF Final
  <1>3. CASE r.st # "not_admitted" /\ r.bar # 0
    <2>1. LifeSeen(r) = [st |-> "terminated", inc |-> r.inc, fence |-> r.fence, bar |-> r.bar]
      BY <1>3 DEF LifeSeen
    <2> QED BY <1>1, <1>3, <2>1 DEF PendingLife, Lives, Records, Final
  <1>4. CASE r.st # "not_admitted" /\ r.bar = 0
    <2>1. LifeSeen(r) = PendingLife
      BY <1>4 DEF LifeSeen
    <2> QED BY <1>1, <1>4, <2>1, Distinct DEF PendingLife, Lives, Records, Final
  <1> QED BY <1>2, <1>3, <1>4

\* A record to which at most a fence was added.
Fenced(r, s) ==
  /\ Valid(s) /\ Forward(r, s) /\ s.inc = r.inc /\ s.bar = r.bar /\ s.res = r.res
  /\ \/ s.st = r.st
     \/ r.st = "admitted" /\ s.st = "fencing"
     \/ r.st = "absent" /\ s.st = "not_admitted"

\* Fences added one after the other.
LEMMA FencedChain ==
  ASSUME NEW r, NEW s, NEW t, Fenced(r, s), Fenced(s, t)
  PROVE  Fenced(r, t)
  BY ForwardChain DEF Fenced

\* The beginning of a barrier freezes what is not over.
LEMMA Begun ==
  ASSUME NEW b \in Barriers, ~b.closing,
         NEW recs \in [Invocations -> Records], \A i \in Invocations : Valid(recs[i])
  PROVE  /\ Begin(b, recs).barrier \in Barriers
         /\ Begin(b, recs).recs \in [Invocations -> Records]
         /\ \A i \in Invocations : Fenced(recs[i], Begin(b, recs).recs[i])
         /\ \A i \in Invocations : recs[i].st = "absent" => Begin(b, recs).recs[i] = recs[i]
         /\ Begin(b, recs).barrier.closing => FrozenAt(Begin(b, recs).barrier, Begin(b, recs).recs)
  <1> DEFINE g == b.gen + 1
             fenced == FencedBy(g, recs)
             Pend == {j \in Invocations : PendingFence(fenced[j])}
             targets == {[inv |-> i, inc |-> fenced[i].inc, fence |-> fenced[i].fence] : i \in Pend}
             frozen == [gen |-> g, closing |-> TRUE, targets |-> targets]
  <1>1. g \in Nat /\ g # 0 /\ b.gen \in Nat
    BY DEF Barriers
  <1>2. \A i \in Invocations :
          fenced[i] = IF recs[i].st = "admitted" \/ (recs[i].st = "completed" /\ recs[i].fence = NoFence)
                        THEN EnsureFence(recs[i], g) ELSE recs[i]
    BY DEF FencedBy
  <1>3. DOMAIN fenced = Invocations /\ fenced = [i \in Invocations |-> fenced[i]]
    BY DEF FencedBy
  <1>4. Begin(b, recs) = IF targets = {} THEN [barrier |-> b, recs |-> recs]
                         ELSE [barrier |-> frozen, recs |-> fenced]
    BY DEF Begin
  <1> HIDE DEF fenced, g
  <1>5. \A i \in Invocations :
          /\ Fenced(recs[i], fenced[i])
          /\ recs[i].st = "absent" => fenced[i] = recs[i]
          /\ fenced[i].st # "admitted"
    <2> TAKE i \in Invocations
    <2>1. CASE recs[i].st = "admitted" \/ (recs[i].st = "completed" /\ recs[i].fence = NoFence)
      <3>1. fenced[i] = EnsureFence(recs[i], g)
        BY <1>2, <2>1
      <3> QED BY <1>1, <2>1, <3>1, FenceEnsured DEF Fenced
    <2>2. CASE ~(recs[i].st = "admitted" \/ (recs[i].st = "completed" /\ recs[i].fence = NoFence))
      <3>1. fenced[i] = recs[i]
        BY <1>2, <2>2
      <3> QED BY <2>2, <3>1 DEF Fenced, Forward
    <2> QED BY <2>1, <2>2
  <1>6. \A i \in Invocations : fenced[i] \in Records /\ Valid(fenced[i])
    BY <1>5 DEF Fenced, Valid
  <1>7. fenced \in [Invocations -> Records]
    BY <1>3, <1>6
  <1>8. \A i \in Pend : /\ i \in Invocations /\ fenced[i].st \in {"fencing", "completed"}
                        /\ fenced[i].bar = 0 /\ fenced[i].fence # NoFence
    BY <1>6 DEF PendingFence, Valid
  <1>9. frozen \in Barriers
    <2>1. \A i \in Pend : fenced[i].inc \in Nat /\ fenced[i].fence \in Fences
      BY <1>6 DEF Records, Fences
    <2>2. targets \in SUBSET [inv : Invocations, inc : Nat, fence : Fences]
      BY <2>1
    <2> HIDE DEF targets
    <2> QED BY <1>1, <2>2 DEF Barriers
  <1>10. FrozenAt(frozen, fenced)
    <2>1. \A t \in targets :
            /\ fenced[t.inv].st \in {"fencing", "completed"} /\ fenced[t.inv].bar = 0
            /\ fenced[t.inv].inc = t.inc /\ fenced[t.inv].fence = t.fence /\ t.fence # NoFence
      BY <1>8
    <2>2. ASSUME NEW i \in Invocations, fenced[i].st = "fencing" PROVE i \in Targeted(frozen)
      <3>1. i \in Pend
        BY <2>2 DEF PendingFence
      <3>2. [inv |-> i, inc |-> fenced[i].inc, fence |-> fenced[i].fence] \in targets
        BY <3>1
      <3>3. [inv |-> i, inc |-> fenced[i].inc, fence |-> fenced[i].fence].inv = i
        OBVIOUS
      <3> HIDE DEF targets
      <3> QED BY <3>2, <3>3 DEF Targeted
    <2> HIDE DEF targets
    <2> QED BY <1>1, <1>5, <2>1, <2>2 DEF FrozenAt
  <1> HIDE DEF targets, frozen
  <1>11. CASE targets = {}
    <2>1. Begin(b, recs).barrier = b /\ Begin(b, recs).recs = recs
      BY <1>4, <1>11
    <2> QED BY <2>1 DEF Fenced, Forward
  <1>12. CASE targets # {}
    <2>1. Begin(b, recs).barrier = frozen /\ Begin(b, recs).recs = fenced
      BY <1>4, <1>12
    <2> QED BY <1>5, <1>7, <1>9, <1>10, <2>1
  <1> QED BY <1>11, <1>12

\* The barrier work is joined or taken up: records get fences, and what is
\* frozen is frozen as it is.
LEMMA WorkJoined ==
  ASSUME Fields, Housed, NEW c \in Containers,
         NEW recs \in [Invocations -> Records], \A i \in Invocations : Valid(recs[i]),
         bar[c].closing => FrozenAt(bar[c], recs), BarrierWork(c, recs)
  PROVE  /\ rec' \in [Containers -> [Invocations -> Records]]
         /\ bar' \in [Containers -> Barriers]
         /\ work' \in [Containers -> {"idle", "prepared", "drained", "destroyed"}]
         /\ \A d \in Containers : d # c => rec'[d] = rec[d] /\ bar'[d] = bar[d] /\ work'[d] = work[d]
         /\ \A i \in Invocations :
              Fenced(recs[i], rec'[c][i]) /\ (recs[i].st = "absent" => rec'[c][i] = recs[i])
         /\ bar'[c].closing => FrozenAt(bar'[c], rec'[c])
         /\ work'[c] \in {work[c], "idle", "prepared"} /\ (work'[c] # "idle" => bar'[c].closing)
  <1>1. /\ rec \in [Containers -> [Invocations -> Records]] /\ bar \in [Containers -> Barriers]
        /\ work \in [Containers -> {"idle", "prepared", "drained", "destroyed"}]
        /\ bar[c] \in Barriers
    BY DEF Fields
  <1>2. \A i \in Invocations : Fenced(recs[i], recs[i])
    BY DEF Fenced, Forward
  <1>3. CASE work[c] # "idle"
    <2>1. rec' = [rec EXCEPT ![c] = recs] /\ bar' = bar /\ work' = work
      BY <1>3 DEF BarrierWork
    <2>2. rec'[c] = recs /\ \A d \in Containers : d # c => rec'[d] = rec[d]
      BY <1>1, <2>1
    <2>3. rec' \in [Containers -> [Invocations -> Records]]
      BY <1>1, <2>1
    <2>4. bar[c].closing
      BY <1>3 DEF Housed
    <2> QED BY <1>1, <1>2, <2>1, <2>2, <2>3, <2>4
  <1>4. CASE work[c] = "idle"
    <2> DEFINE b == Begin(bar[c], recs).barrier
               s == Begin(bar[c], recs).recs
               w == IF b.closing THEN "prepared" ELSE "idle"
    <2>1. /\ rec' = [rec EXCEPT ![c] = s] /\ bar' = [bar EXCEPT ![c] = b]
          /\ work' = [work EXCEPT ![c] = w]
      BY <1>4 DEF BarrierWork
    <2>2. /\ b \in Barriers /\ s \in [Invocations -> Records]
          /\ \A i \in Invocations : Fenced(recs[i], s[i]) /\ (recs[i].st = "absent" => s[i] = recs[i])
          /\ b.closing => FrozenAt(b, s)
      <3>1. CASE bar[c].closing
        <4>1. Begin(bar[c], recs) = [barrier |-> bar[c], recs |-> recs]
          BY <3>1 DEF Begin
        <4>2. b = bar[c] /\ s = recs
          BY <4>1
        <4> HIDE DEF b, s
        <4> QED BY <1>1, <1>2, <4>2
      <3>2. CASE ~bar[c].closing
        BY <1>1, <3>2, Begun
      <3> QED BY <3>1, <3>2
    <2> HIDE DEF b, s
    <2>3. w \in {"idle", "prepared"} /\ (w # "idle" => b.closing)
      OBVIOUS
    <2> HIDE DEF w
    <2>4. /\ rec' \in [Containers -> [Invocations -> Records]]
          /\ bar' \in [Containers -> Barriers]
          /\ work' \in [Containers -> {"idle", "prepared", "drained", "destroyed"}]
      BY <1>1, <2>1, <2>2, <2>3
    <2>5. /\ rec'[c] = s /\ bar'[c] = b /\ work'[c] = w
          /\ \A d \in Containers : d # c => rec'[d] = rec[d] /\ bar'[d] = bar[d] /\ work'[d] = work[d]
      BY <1>1, <2>1
    <2> QED BY <2>2, <2>3, <2>4, <2>5
  <1> QED BY <1>3, <1>4

\* The end of a barrier: its targets are proved over, as they were frozen.
LEMMA Finished ==
  ASSUME NEW b \in Barriers, b.closing,
         NEW recs \in [Invocations -> Records], \A i \in Invocations : Valid(recs[i]),
         FrozenAt(b, recs)
  PROVE  /\ MayFinish(b, recs)
         /\ Finish(b, recs).barrier \in Barriers /\ ~Finish(b, recs).barrier.closing
         /\ Finish(b, recs).recs \in [Invocations -> Records]
         /\ \A i \in Invocations :
              LET r == recs[i]  s == Finish(b, recs).recs[i]
              IN /\ Valid(s) /\ Forward(r, s) /\ s.inc = r.inc /\ s.res = r.res
                 /\ r.st # "fencing" => s.st = r.st
                 /\ r.st = "fencing" => s.st = "terminated"
                 /\ s.bar # 0 /\ s.bar # r.bar => r.st \in {"fencing", "completed"}
  <1>1. b.gen \in Nat /\ b.gen # 0 /\ b.targets \in SUBSET [inv : Invocations, inc : Nat, fence : Fences]
    BY DEF Barriers, FrozenAt
  <1>2. MayFinish(b, recs)
    <2>1. \A i \in Invocations \ Targeted(b) : recs[i].st \notin {"admitted", "fencing"}
      BY DEF FrozenAt
    <2>2. \A t \in b.targets :
            /\ recs[t.inv].inc = t.inc
            /\ \/ b.closing /\ recs[t.inv].st = "fencing" /\ recs[t.inv].fence = t.fence
               \/ b.closing /\ recs[t.inv].st = "completed" /\ recs[t.inv].fence \in {NoFence, t.fence}
                            /\ recs[t.inv].bar = 0
      BY DEF FrozenAt
    <2> QED BY <2>1, <2>2 DEF MayFinish
  <1> DEFINE s == Finish(b, recs).recs
  <1>3. Finish(b, recs).barrier = [b EXCEPT !.closing = FALSE]
    BY DEF Finish
  <1>4. Finish(b, recs).barrier \in Barriers /\ ~Finish(b, recs).barrier.closing
    BY <1>3 DEF Barriers
  <1>5. /\ DOMAIN s = Invocations /\ s = [i \in Invocations |-> s[i]]
        /\ \A i \in Invocations :
          s[i] = IF i \notin Targeted(b) THEN recs[i]
                 ELSE [recs[i] EXCEPT !.st = IF @ = "fencing" THEN "terminated" ELSE @,
                                      !.fence = TargetOf(b, i).fence, !.bar = b.gen]
    BY DEF Finish
  <1> HIDE DEF s
  <1>6. ASSUME NEW i \in Invocations
        PROVE  /\ Valid(s[i]) /\ Forward(recs[i], s[i]) /\ s[i].inc = recs[i].inc /\ s[i].res = recs[i].res
               /\ recs[i].st # "fencing" => s[i].st = recs[i].st
               /\ recs[i].st = "fencing" => s[i].st = "terminated"
               /\ s[i].bar # 0 /\ s[i].bar # recs[i].bar => recs[i].st \in {"fencing", "completed"}
    <2>1. CASE i \notin Targeted(b)
      <3>1. s[i] = recs[i] /\ recs[i].st # "fencing"
        BY <1>5, <2>1 DEF FrozenAt
      <3> QED BY <3>1 DEF Forward
    <2>2. CASE i \in Targeted(b)
      <3>1. \E t \in b.targets : t.inv = i
        BY <2>2 DEF Targeted
      <3>2. TargetOf(b, i) \in b.targets /\ TargetOf(b, i).inv = i
        BY <3>1 DEF TargetOf
      <3>3. /\ recs[i].st \in {"fencing", "completed"} /\ recs[i].bar = 0
            /\ recs[i].fence = TargetOf(b, i).fence /\ TargetOf(b, i).fence # NoFence
        BY <3>2 DEF FrozenAt
      <3>4. s[i] = [recs[i] EXCEPT !.st = IF @ = "fencing" THEN "terminated" ELSE @,
                                   !.fence = TargetOf(b, i).fence, !.bar = b.gen]
        BY <1>5, <2>2
      <3>5. /\ recs[i] \in Records /\ Valid(recs[i])
        BY DEF Valid
      <3>6. /\ s[i] \in Records
            /\ s[i].st = IF recs[i].st = "fencing" THEN "terminated" ELSE recs[i].st
            /\ s[i].fence = recs[i].fence /\ s[i].bar = b.gen
            /\ s[i].inc = recs[i].inc /\ s[i].res = recs[i].res
        BY <1>1, <3>3, <3>4, <3>5 DEF Records, States
      <3> QED BY <1>1, <3>3, <3>5, <3>6 DEF Valid, Forward, Final
    <2> QED BY <2>1, <2>2
  <1>7. s \in [Invocations -> Records]
    BY <1>5, <1>6 DEF Valid
  <1> QED BY <1>2, <1>4, <1>6, <1>7 DEF s

-----------------------------------------------------------------------------
(* What a step leaves alone.                                               *)

\* Records stay, and no delivery starts to execute and no command appears.
LEMMA OpenKept ==
  ASSUME Open, UNCHANGED rec,
         \A c \in Containers, i \in Invocations :
           /\ task'[c][i].pc = "executing" => task'[c][i] = task[c][i]
           /\ cmd'[c][i].st # "none" => cmd'[c][i] = cmd[c][i]
  PROVE  Open'
  BY DEF Open

\* Records and counts stay, and no command appears.
LEMMA CountedKept ==
  ASSUME Counted, UNCHANGED <<rec, runs>>,
         \A i \in Invocations : placed[i] # Nowhere => placed'[i] = placed[i],
         \A c \in Containers, i \in Invocations : cmd'[c][i].st # "none" => cmd'[c][i] = cmd[c][i]
  PROVE  Counted'
  <1>1. rec' = rec /\ runs' = runs
    OBVIOUS
  <1> QED BY <1>1 DEF Counted

\* Records and barriers stay.
LEMMA FrozenKept ==
  ASSUME Frozen, UNCHANGED <<rec, bar>>
  PROVE  Frozen'
  BY DEF Frozen, FrozenAt, Targeted

\* Records that move forward leave true what was told about them, and new
\* answers are what they say now.
LEMMA ToldKept ==
  ASSUME Fields, Told, UNCHANGED <<receipt, life, placed>>,
         \A c \in Containers, i \in Invocations : Valid(rec'[c][i]) /\ Forward(rec[c][i], rec'[c][i]),
         \A a \in answers' :
           \/ a \in answers
           \/ /\ a.inv \in Invocations /\ placed[a.inv] # Nowhere
              /\ a.rec = rec'[placed[a.inv]][a.inv]
  PROVE  Told'
  <1>1. receipt' = receipt /\ life' = life /\ placed' = placed
    OBVIOUS
  <1>2. \A i \in Invocations : placed[i] # Nowhere => placed[i] \in Containers
    BY DEF Fields
  <1>3. ASSUME NEW i \in Invocations
        PROVE  /\ receipt[i].res # NoResult =>
                    /\ placed[i] # Nowhere
                    /\ rec'[placed[i]][i].st = "completed" /\ rec'[placed[i]][i].res = receipt[i].res
               /\ life[i] # PendingLife =>
                    /\ placed[i] # Nowhere
                    /\ Final(rec'[placed[i]][i]) /\ LifeSeen(rec'[placed[i]][i]) = life[i]
                    /\ rec'[placed[i]][i].st = "completed" => receipt[i].res = rec'[placed[i]][i].res
    <2>1. placed[i] # Nowhere => Forward(rec[placed[i]][i], rec'[placed[i]][i])
      BY <1>2
    <2>2. receipt[i].res # NoResult =>
            /\ placed[i] # Nowhere
            /\ rec[placed[i]][i].st = "completed" /\ rec[placed[i]][i].res = receipt[i].res
      BY DEF Told
    <2>3. life[i] # PendingLife =>
            /\ placed[i] # Nowhere
            /\ Final(rec[placed[i]][i]) /\ LifeSeen(rec[placed[i]][i]) = life[i]
            /\ rec[placed[i]][i].st = "completed" => receipt[i].res = rec[placed[i]][i].res
      BY DEF Told
    <2>4. life[i] # PendingLife => rec'[placed[i]][i] = rec[placed[i]][i]
      BY <2>1, <2>3 DEF Forward
    <2> QED BY <2>1, <2>2, <2>3, <2>4 DEF Forward
  <1>4. ASSUME NEW a \in answers'
        PROVE  /\ placed[a.inv] # Nowhere /\ Valid(a.rec)
               /\ Forward(a.rec, rec'[placed[a.inv]][a.inv])
    <2>1. CASE a \in answers
      <3>1. a.inv \in Invocations
        BY <2>1 DEF Fields, Replies
      <3>2. /\ placed[a.inv] # Nowhere /\ Valid(a.rec)
            /\ Forward(a.rec, rec[placed[a.inv]][a.inv])
        BY <2>1 DEF Told
      <3>3. Forward(rec[placed[a.inv]][a.inv], rec'[placed[a.inv]][a.inv])
        BY <1>2, <3>1, <3>2
      <3> QED BY <3>2, <3>3, ForwardChain
    <2>2. CASE a \notin answers
      <3>1. /\ a.inv \in Invocations /\ placed[a.inv] # Nowhere /\ placed[a.inv] \in Containers
            /\ a.rec = rec'[placed[a.inv]][a.inv]
        BY <1>2, <2>2
      <3> QED BY <3>1 DEF Forward
    <2> QED BY <2>1, <2>2
  <1> QED BY <1>1, <1>3, <1>4 DEF Told

-----------------------------------------------------------------------------
(* The steps of the broker.                                                *)

\* The broker changes nothing of a controller, and a placement is final.
LEMMA BrokerStep ==
  ASSUME Custody, UNCHANGED <<rec, bar, task, work, procVars>>,
         \A i \in Invocations : placed[i] # Nowhere => placed'[i] = placed[i]
  PROVE  /\ Bound' /\ Open' /\ Counted' /\ Frozen' /\ Housed'
         /\ \A c \in Containers, i \in Invocations :
              rec'[c][i].st # "absent" \/ task'[c][i].pc # "none" \/ cmd'[c][i].st # "none" => placed'[i] = c
  <1>1. rec' = rec /\ bar' = bar /\ task' = task /\ work' = work
        /\ proc' = proc /\ starts' = starts /\ cmd' = cmd /\ runs' = runs
    BY DEF procVars
  <1>2. Bound' /\ Open' /\ Frozen' /\ Housed'
    BY <1>1, FrozenKept DEF Custody, Bound, Open, Housed, Quiet
  <1>3. Counted'
    BY <1>1, CountedKept DEF Custody
  <1>4. \A c \in Containers, i \in Invocations :
          rec[c][i].st # "absent" \/ task[c][i].pc # "none" \/ cmd[c][i].st # "none" => placed[i] = c
    BY DEF Custody, Placed
  <1>5. \A c \in Containers : c # Nowhere
    BY PoolAssumption
  <1> QED BY <1>1, <1>2, <1>3, <1>4, <1>5

\* Nothing new is told, and what was told is not changed.
LEMMA NothingTold ==
  ASSUME Fields, Told, UNCHANGED <<rec, receipt, life>>, answers' \subseteq answers,
         \A i \in Invocations : placed[i] # Nowhere => placed'[i] = placed[i]
  PROVE  Told'
  <1>1. rec' = rec /\ receipt' = receipt /\ life' = life
    OBVIOUS
  <1>2. \A a \in answers' : a \in answers /\ a.inv \in Invocations
    BY DEF Fields, Replies
  <1> QED BY <1>1, <1>2 DEF Told

\* The claim of an invocation.
LEMMA ClaimKeeps == ASSUME Custody, NEW i \in Invocations, Claim(i) PROVE Custody'
  <1>1. Fields /\ Placed /\ Told
    BY DEF Custody
  <1>2. /\ receipt' = [receipt EXCEPT ![i].st = "started"] /\ owner' = [owner EXCEPT ![i] = "queued"]
        /\ UNCHANGED <<placed, intent, life, net, answers, ctrlVars, procVars, faults>>
    BY DEF Claim
  <1>3. Fields'
    <2>1. receipt' \in [Invocations -> Receipts] /\ owner' \in [Invocations -> {"none", "queued", "sent"}]
      BY <1>1, <1>2 DEF Fields, Receipts
    <2> QED BY <1>1, <1>2, <2>1 DEF Fields, ctrlVars, procVars
  <1>4. /\ Bound' /\ Open' /\ Counted' /\ Frozen' /\ Housed'
        /\ \A c \in Containers, j \in Invocations :
             rec'[c][j].st # "absent" \/ task'[c][j].pc # "none" \/ cmd'[c][j].st # "none" => placed'[j] = c
    BY <1>2, BrokerStep DEF ctrlVars
  <1>5. Placed'
    BY <1>1, <1>2, <1>4 DEF Placed, ctrlVars
  <1>6. Told'
    <2>1. \A j \in Invocations : receipt'[j].res = receipt[j].res
      BY <1>1, <1>2 DEF Fields, Receipts
    <2> QED BY <1>1, <1>2, <2>1 DEF Told, ctrlVars
  <1> QED BY <1>3, <1>4, <1>5, <1>6 DEF Custody

\* The placement, and the delivery it sends.
LEMMA PlaceKeeps ==
  ASSUME Custody, NEW i \in Invocations, NEW c \in Containers, Place(i, c) PROVE Custody'
  <1>1. Fields /\ Placed /\ Told
    BY DEF Custody
  <1>2. UNCHANGED <<receipt, intent, life, answers, ctrlVars, procVars, faults>>
    BY DEF Place
  <1>3. \/ /\ placed[i] = Nowhere /\ placed' = [placed EXCEPT ![i] = c]
           /\ owner' = [owner EXCEPT ![i] = "sent"]
           /\ net' = net \cup {Request(i, c, "deliver", NoFence, "owner")}
        \/ owner' = [owner EXCEPT ![i] = "none"] /\ placed' = placed /\ net' = net
    BY DEF Place
  <1>4. \A j \in Invocations : placed[j] # Nowhere => placed'[j] = placed[j]
    BY <1>1, <1>3 DEF Fields
  <1>5. /\ Bound' /\ Open' /\ Counted' /\ Frozen' /\ Housed'
        /\ \A d \in Containers, j \in Invocations :
             rec'[d][j].st # "absent" \/ task'[d][j].pc # "none" \/ cmd'[d][j].st # "none" => placed'[j] = d
    BY <1>2, <1>4, BrokerStep DEF ctrlVars
  <1>6. Told'
    BY <1>1, <1>2, <1>4, NothingTold DEF ctrlVars
  <1>7. joined' = joined /\ c # Nowhere
    BY <1>2, PoolAssumption DEF ctrlVars
  <1> DEFINE new == Request(i, c, "deliver", NoFence, "owner")
  <1>8. new \in Messages /\ new.inv = i /\ new.at = c /\ new.op = "deliver"
    BY DEF Request, Messages
  <1> HIDE DEF new
  <1>9. \A m \in net \cup joined : m.inv \in Invocations /\ placed[m.inv] = m.at /\ m.at # Nowhere
    BY <1>1, PoolAssumption DEF Placed, Fields, Messages
  <1>10. Fields'
    <2>1. /\ placed' \in [Invocations -> Containers \cup {Nowhere}]
          /\ owner' \in [Invocations -> {"none", "queued", "sent"}]
          /\ net' \in SUBSET Messages
      BY <1>1, <1>3, <1>8 DEF Fields, new
    <2> QED BY <1>1, <1>2, <2>1 DEF Fields, ctrlVars, procVars
  <1>11. Placed'
    <2>1. ASSUME NEW m \in net' \cup joined
          PROVE  placed'[m.inv] = m.at /\ (m.op = "fence" => m.fence # NoFence)
      <3>1. CASE m \in net \cup joined
        BY <1>1, <1>4, <1>9, <3>1 DEF Placed
      <3>2. CASE m \notin net \cup joined
        <4>1. m = new /\ placed' = [placed EXCEPT ![i] = c]
          BY <1>3, <3>2 DEF new
        <4> QED BY <1>1, <1>8, <4>1 DEF Fields
      <3> QED BY <3>1, <3>2
    <2> QED BY <1>5, <1>7, <2>1 DEF Placed
  <1> QED BY <1>5, <1>6, <1>10, <1>11 DEF Custody

\* Reconciliation: the fence request goes where the invocation is placed.
LEMMA ReconcileKeeps ==
  ASSUME Custody, NEW i \in Invocations, NEW f \in FenceIds, Reconcile(i, f) PROVE Custody'
  <1>1. Fields /\ Placed /\ Told
    BY DEF Custody
  <1>2. /\ UNCHANGED <<life, owner, answers, ctrlVars, procVars, faults>>
        /\ receipt' = [receipt EXCEPT ![i].st = IF @ = "none" THEN "started" ELSE @]
        /\ placed' = [placed EXCEPT ![i] = IF @ = Nowhere THEN FenceContainer ELSE @]
        /\ intent' = [intent EXCEPT ![i] = IF @ = NoFence THEN f ELSE @]
        /\ net' = net \cup {Request(i, placed'[i], "fence", intent'[i], "reconcile")}
    BY DEF Reconcile
  <1>3. \A j \in Invocations : placed[j] # Nowhere => placed'[j] = placed[j]
    BY <1>1, <1>2 DEF Fields
  <1>4. /\ Bound' /\ Open' /\ Counted' /\ Frozen' /\ Housed'
        /\ \A d \in Containers, j \in Invocations :
             rec'[d][j].st # "absent" \/ task'[d][j].pc # "none" \/ cmd'[d][j].st # "none" => placed'[j] = d
    BY <1>2, <1>3, BrokerStep DEF ctrlVars
  <1>5. /\ placed' \in [Invocations -> Containers \cup {Nowhere}] /\ placed'[i] \in Containers
        /\ intent' \in [Invocations -> FenceIds \cup {NoFence}] /\ intent'[i] \in FenceIds
        /\ receipt' \in [Invocations -> Receipts] /\ \A j \in Invocations : receipt'[j].res = receipt[j].res
    <2>1. placed' \in [Invocations -> Containers \cup {Nowhere}] /\ placed'[i] \in Containers
      BY <1>1, <1>2, PoolAssumption DEF Fields
    <2>2. intent' \in [Invocations -> FenceIds \cup {NoFence}] /\ intent'[i] \in FenceIds
      BY <1>1, <1>2 DEF Fields
    <2>3. receipt' \in [Invocations -> Receipts] /\ \A j \in Invocations : receipt'[j].res = receipt[j].res
      BY <1>1, <1>2 DEF Fields, Receipts
    <2> QED BY <2>1, <2>2, <2>3
  <1> DEFINE new == Request(i, placed'[i], "fence", intent'[i], "reconcile")
  <1>6. new \in Messages /\ new.inv = i /\ new.at = placed'[i] /\ new.fence = intent'[i]
    BY <1>5 DEF Request, Messages
  <1>7. net' = net \cup {new} /\ joined' = joined
    BY <1>2 DEF ctrlVars
  <1> HIDE DEF new
  <1>8. \A m \in net \cup joined : m.inv \in Invocations /\ placed[m.inv] = m.at /\ m.at # Nowhere
    BY <1>1, PoolAssumption DEF Placed, Fields, Messages
  <1>9. Fields'
    <2>1. net' \in SUBSET Messages
      BY <1>1, <1>6, <1>7 DEF Fields
    <2> QED BY <1>1, <1>2, <1>5, <2>1 DEF Fields, ctrlVars, procVars
  <1>10. Placed'
    <2>1. ASSUME NEW m \in net' \cup joined
          PROVE  placed'[m.inv] = m.at /\ (m.op = "fence" => m.fence # NoFence)
      <3>1. CASE m \in net \cup joined
        BY <1>1, <1>3, <1>8, <3>1 DEF Placed
      <3>2. CASE m \notin net \cup joined
        BY <1>5, <1>6, <1>7, <3>2, Distinct
      <3> QED BY <3>1, <3>2
    <2> QED BY <1>4, <1>7, <2>1 DEF Placed
  <1>11. Told'
    <2>1. rec' = rec /\ life' = life /\ answers' = answers
      BY <1>2 DEF ctrlVars
    <2>2. \A a \in answers : a.inv \in Invocations
      BY <1>1 DEF Fields, Replies
    <2> QED BY <1>1, <1>3, <1>5, <2>1, <2>2 DEF Told
  <1> QED BY <1>4, <1>9, <1>10, <1>11 DEF Custody

\* Calls that end, ask again, or are lost.
LEMMA CallsKeep ==
  ASSUME Custody, (\E i \in Invocations : Refused(i) \/ Recall(i)) \/ EvictBroker \/ Lose
  PROVE  Custody'
  <1>1. Fields /\ Placed /\ Told
    BY DEF Custody
  <1>2. /\ UNCHANGED <<receipt, placed, intent, life, rec, bar, task, work, procVars>>
        /\ answers' \subseteq answers
    BY DEF Refused, Recall, EvictBroker, Lose, brokerVars, ctrlVars
  <1>3. /\ Bound' /\ Open' /\ Counted' /\ Frozen' /\ Housed'
        /\ \A d \in Containers, j \in Invocations :
             rec'[d][j].st # "absent" \/ task'[d][j].pc # "none" \/ cmd'[d][j].st # "none" => placed'[j] = d
    BY <1>2, BrokerStep
  <1>4. Told'
    BY <1>1, <1>2, NothingTold
  <1> DEFINE Sound ==
        /\ owner' \in [Invocations -> {"none", "queued", "sent"}] /\ faults' \in Nat
        /\ net' \in SUBSET Messages /\ joined' \in SUBSET Messages
        /\ \A m \in net' \cup joined' : placed[m.inv] = m.at /\ (m.op = "fence" => m.fence # NoFence)
  <1>5. ASSUME NEW i \in Invocations, Refused(i) PROVE Sound
    <2>1. owner' = [owner EXCEPT ![i] = "none"] /\ net' = net /\ joined' = joined /\ faults' = faults
      BY <1>5 DEF Refused, ctrlVars
    <2> QED BY <1>1, <2>1 DEF Fields, Placed
  <1>6. ASSUME NEW i \in Invocations, Recall(i) PROVE Sound
    <2> DEFINE new == Request(i, placed[i], "read", NoFence, "call")
    <2>1. /\ owner' = owner /\ net' = net \cup {new} /\ joined' = joined /\ faults' = faults
          /\ placed[i] # Nowhere
      BY <1>6 DEF Recall, brokerVars, ctrlVars
    <2>2. placed[i] \in Containers
      BY <1>1, <2>1 DEF Fields
    <2>3. new \in Messages /\ new.inv = i /\ new.at = placed[i] /\ new.op = "read"
      BY <2>2 DEF Request, Messages
    <2> HIDE DEF new
    <2> QED BY <1>1, <2>1, <2>3 DEF Fields, Placed
  <1>7. ASSUME EvictBroker PROVE Sound
    <2>1. /\ owner' = [i \in Invocations |-> "none"] /\ faults' = faults + 1
          /\ net' = {[m EXCEPT !.to = "gone"] : m \in net}
          /\ joined' = {[m EXCEPT !.to = "gone"] : m \in joined}
      BY <1>7 DEF EvictBroker
    <2>2. ASSUME NEW m \in net \cup joined
          PROVE  LET n == [m EXCEPT !.to = "gone"]
                 IN n \in Messages /\ placed[n.inv] = n.at /\ (n.op = "fence" => n.fence # NoFence)
      <3>1. m \in Messages /\ placed[m.inv] = m.at /\ (m.op = "fence" => m.fence # NoFence)
        BY <1>1 DEF Fields, Placed
      <3> QED BY <3>1 DEF Messages
    <2>3. owner' \in [Invocations -> {"none", "queued", "sent"}] /\ faults' \in Nat
      BY <1>1, <2>1 DEF Fields
    <2>4. ASSUME NEW n \in net' \cup joined'
          PROVE  n \in Messages /\ placed[n.inv] = n.at /\ (n.op = "fence" => n.fence # NoFence)
      <3>1. PICK m \in net \cup joined : n = [m EXCEPT !.to = "gone"]
        BY <2>1
      <3> QED BY <2>2, <3>1
    <2> QED BY <2>3, <2>4
  <1>8. ASSUME Lose PROVE Sound
    <2>1. owner' = owner /\ net' \subseteq net /\ joined' = joined /\ faults' = faults + 1
      BY <1>8 DEF Lose, brokerVars, ctrlVars
    <2>2. faults' \in Nat /\ owner' \in [Invocations -> {"none", "queued", "sent"}]
      BY <1>1, <2>1 DEF Fields
    <2>3. net' \in SUBSET Messages /\ joined' \in SUBSET Messages
      BY <1>1, <2>1 DEF Fields
    <2>4. \A m \in net' \cup joined' : placed[m.inv] = m.at /\ (m.op = "fence" => m.fence # NoFence)
      BY <1>1, <2>1 DEF Placed
    <2> QED BY <2>2, <2>3, <2>4
  <1> HIDE DEF Sound
  <1>9. Sound
    BY <1>5, <1>6, <1>7, <1>8
  <1> USE DEF Sound
  <1>10. Fields'
    <2>1. answers' \in SUBSET Replies
      BY <1>1, <1>2 DEF Fields
    <2> QED BY <1>1, <1>2, <1>9, <2>1 DEF Fields, procVars
  <1>11. Placed'
    BY <1>2, <1>3, <1>9 DEF Placed
  <1> QED BY <1>3, <1>4, <1>10, <1>11 DEF Custody

\* What an answer in flight says is compatible with what the broker retains.
LEMMA AnswerAgrees ==
  ASSUME Custody, NEW a \in answers
  PROVE  /\ MayRetain(receipt[a.inv], a.rec)
         /\ MayObserve(receipt[a.inv], life[a.inv], a.rec)
  <1> DEFINE i == a.inv
             r == rec[placed[i]][i]
  <1>1. i \in Invocations /\ placed[i] # Nowhere /\ Valid(a.rec) /\ Forward(a.rec, r)
    BY DEF Custody, Told, Fields, Replies
  <1>2. /\ receipt[i].res # NoResult => r.st = "completed" /\ r.res = receipt[i].res
        /\ life[i] # PendingLife => Final(r) /\ LifeSeen(r) = life[i]
    BY <1>1 DEF Custody, Told
  <1>3. Valid(r)
    <2>1. placed[i] \in Containers
      BY <1>1 DEF Custody, Fields
    <2> QED BY <1>1, <2>1 DEF Custody, Bound
  <1> HIDE DEF r, i
  <1>4. MayRetain(receipt[i], a.rec)
    BY <1>1, <1>2 DEF MayRetain, Forward
  <1>5. LifeSeen(a.rec) # PendingLife => r = a.rec
    BY <1>1, LifeStated DEF Forward
  <1>6. LifeSeen(a.rec) # PendingLife => life[i] \in {PendingLife, LifeSeen(a.rec)}
    BY <1>2, <1>5
  <1>7. ASSUME "not_admitted" \in {life[i].st, LifeSeen(a.rec).st}
        PROVE  receipt[i].res = NoResult /\ a.rec.st # "completed"
    <2>1. PendingLife.st = "pending"
      BY DEF PendingLife
    <2>2. r.st = "not_admitted"
      <3>1. CASE life[i].st = "not_admitted"
        <4>1. LifeSeen(r).st = "not_admitted"
          BY <1>2, <2>1, <3>1
        <4> QED BY <1>3, <4>1, LifeStated
      <3>2. CASE LifeSeen(a.rec).st = "not_admitted"
        BY <1>1, <1>5, <2>1, <3>2, LifeStated
      <3> QED BY <1>7, <3>1, <3>2
    <2> QED BY <1>1, <1>2, <2>2 DEF Forward
  <1>8. MayObserve(receipt[i], life[i], a.rec)
    BY <1>4, <1>6, <1>7 DEF MayObserve
  <1> QED BY <1>4, <1>8 DEF i

\* The broker folds an answer: what it retains is what the record says.
LEMMA EvidenceKeeps ==
  ASSUME Custody, NEW a \in answers, RetainAnswer(a) \/ Observe(a)
  PROVE  Custody'
  <1>1. Fields /\ Placed /\ Told
    BY DEF Custody
  <1> DEFINE i == a.inv
             r == rec[placed[i]][i]
  <1>2. /\ receipt' = [receipt EXCEPT ![i] =
                         IF a.rec.st = "completed" THEN [st |-> "completed", res |-> a.rec.res] ELSE @]
        /\ answers' = answers \ {a}
        /\ UNCHANGED <<placed, intent, net, ctrlVars, procVars, faults>>
    BY DEF RetainAnswer, Observe
  <1>3. \/ life' = life /\ owner' = [owner EXCEPT ![i] = IF a.to = "owner" THEN "none" ELSE @]
        \/ /\ owner' = owner
           /\ life' = [life EXCEPT ![i] = IF LifeSeen(a.rec) # PendingLife THEN LifeSeen(a.rec) ELSE @]
    BY DEF RetainAnswer, Observe
  <1>4. i \in Invocations /\ placed[i] # Nowhere /\ Valid(a.rec) /\ a.rec \in Records /\ Forward(a.rec, r)
    BY <1>1 DEF Told, Fields, Replies
  <1>5. /\ Bound' /\ Open' /\ Counted' /\ Frozen' /\ Housed'
        /\ \A d \in Containers, j \in Invocations :
             rec'[d][j].st # "absent" \/ task'[d][j].pc # "none" \/ cmd'[d][j].st # "none" => placed'[j] = d
    BY <1>2, BrokerStep DEF ctrlVars
  <1>6. Placed'
    BY <1>1, <1>2, <1>5 DEF Placed, ctrlVars
  <1>7. Fields'
    <2>1. receipt' \in [Invocations -> Receipts]
      <3>1. a.rec.res \in Results \cup {NoResult}
        BY <1>4 DEF Records
      <3> QED BY <1>1, <1>2, <3>1 DEF Fields, Receipts
    <2>2. life' \in [Invocations -> Lives] /\ owner' \in [Invocations -> {"none", "queued", "sent"}]
      <3>1. LifeSeen(a.rec) \in Lives
        BY <1>4, LifeStated
      <3>2. [life EXCEPT ![i] = IF LifeSeen(a.rec) # PendingLife THEN LifeSeen(a.rec) ELSE @]
              \in [Invocations -> Lives]
        BY <1>1, <1>4, <3>1 DEF Fields
      <3>3. [owner EXCEPT ![i] = IF a.to = "owner" THEN "none" ELSE @]
              \in [Invocations -> {"none", "queued", "sent"}]
        BY <1>1, <1>4 DEF Fields
      <3> QED BY <1>1, <1>3, <3>2, <3>3 DEF Fields
    <2>3. answers' \in SUBSET Replies
      BY <1>1, <1>2 DEF Fields
    <2> QED BY <1>1, <1>2, <2>1, <2>2, <2>3 DEF Fields, ctrlVars, procVars
  <1>8. Told'
    <2>1. rec' = rec /\ placed' = placed
      BY <1>2 DEF ctrlVars
    <2>2. ASSUME NEW j \in Invocations, j # i
          PROVE  receipt'[j] = receipt[j] /\ life'[j] = life[j]
      BY <1>1, <1>2, <1>3, <2>2 DEF Fields
    <2>3. /\ receipt'[i].res = IF a.rec.st = "completed" THEN a.rec.res ELSE receipt[i].res
          /\ life'[i] \in {life[i], LifeSeen(a.rec)}
      <3>1. receipt'[i] = IF a.rec.st = "completed" THEN [st |-> "completed", res |-> a.rec.res]
                          ELSE receipt[i]
        BY <1>1, <1>2, <1>4 DEF Fields
      <3>2. life'[i] \in {life[i], LifeSeen(a.rec)}
        BY <1>1, <1>3, <1>4 DEF Fields
      <3> QED BY <3>1, <3>2
    <2>4. /\ receipt[i].res # NoResult => r.st = "completed" /\ r.res = receipt[i].res
          /\ life[i] # PendingLife =>
               Final(r) /\ LifeSeen(r) = life[i] /\ (r.st = "completed" => receipt[i].res = r.res)
      BY <1>1, <1>4 DEF Told
    <2>5. LifeSeen(a.rec) # PendingLife => r = a.rec /\ Final(r)
      BY <1>4, LifeStated DEF Forward
    <2> HIDE DEF r
    <2>6. receipt'[i].res # NoResult => r.st = "completed" /\ r.res = receipt'[i].res
      BY <1>4, <2>3, <2>4 DEF Forward
    <2>7. life'[i] # PendingLife =>
            Final(r) /\ LifeSeen(r) = life'[i] /\ (r.st = "completed" => receipt'[i].res = r.res)
      <3>1. CASE life'[i] = life[i]
        BY <1>4, <2>3, <2>4, <3>1 DEF Forward
      <3>2. CASE life'[i] = LifeSeen(a.rec)
        BY <2>3, <2>5, <3>2
      <3> QED BY <2>3, <3>1, <3>2
    <2>8. ASSUME NEW j \in Invocations
          PROVE  /\ receipt'[j].res # NoResult =>
                      /\ placed[j] # Nowhere
                      /\ rec[placed[j]][j].st = "completed" /\ rec[placed[j]][j].res = receipt'[j].res
                 /\ life'[j] # PendingLife =>
                      /\ placed[j] # Nowhere
                      /\ Final(rec[placed[j]][j]) /\ LifeSeen(rec[placed[j]][j]) = life'[j]
                      /\ rec[placed[j]][j].st = "completed" => receipt'[j].res = rec[placed[j]][j].res
      <3>1. CASE j = i
        BY <1>4, <2>6, <2>7, <3>1 DEF r
      <3>2. CASE j # i
        BY <1>1, <2>2, <3>2 DEF Told
      <3> QED BY <3>1, <3>2
    <2>9. \A b \in answers' :
            placed[b.inv] # Nowhere /\ Valid(b.rec) /\ Forward(b.rec, rec[placed[b.inv]][b.inv])
      BY <1>1, <1>2 DEF Told
    <2> QED BY <2>1, <2>8, <2>9 DEF Told
  <1> QED BY <1>5, <1>6, <1>7, <1>8 DEF Custody

-----------------------------------------------------------------------------
(* The steps of a controller and its container.                            *)

\* An answer carries the record it was read from.
LEMMA AnswerIs ==
  ASSUME NEW i \in Invocations, NEW to \in {"owner", "call", "reconcile", "gone"}, NEW r \in Records
  PROVE  /\ Answer(i, to, r) \in SUBSET Replies
         /\ \A a \in Answer(i, to, r) : a.inv = i /\ a.rec = r
  <1>1. Answer(i, to, r) # {} => to # "gone" /\ Answer(i, to, r) = {[inv |-> i, to |-> to, rec |-> r]}
    BY DEF Answer
  <1>2. to # "gone" => [inv |-> i, to |-> to, rec |-> r] \in Replies
    BY DEF Replies
  <1> QED BY <1>1, <1>2

\* Fences are added to records of a container and the barrier work is joined.
LEMMA FenceStep ==
  ASSUME Custody, NEW c \in Containers,
         rec' \in [Containers -> [Invocations -> Records]],
         bar' \in [Containers -> Barriers],
         work' \in [Containers -> {"idle", "prepared", "drained", "destroyed"}],
         task' \in [Containers -> [Invocations -> Tasks]],
         \A d \in Containers : d # c => rec'[d] = rec[d] /\ bar'[d] = bar[d] /\ work'[d] = work[d],
         \A i \in Invocations :
           /\ Fenced(rec[c][i], rec'[c][i])
           /\ rec[c][i].st = "absent" /\ rec'[c][i].st # "absent" => placed[i] = c,
         bar'[c].closing => FrozenAt(bar'[c], rec'[c]),
         work'[c] \in {work[c], "idle", "prepared"}, work'[c] # "idle" => bar'[c].closing,
         \A d \in Containers, i \in Invocations :
           /\ task'[d][i].inc = task[d][i].inc
           /\ task'[d][i].pc = task[d][i].pc \/ (task'[d][i].pc = "awaiting" /\ placed[i] = d),
         net' \cup joined' \subseteq net \cup joined,
         answers' \in SUBSET Replies,
         \A a \in answers' :
           \/ a \in answers
           \/ /\ a.inv \in Invocations /\ placed[a.inv] # Nowhere
              /\ a.rec = rec'[placed[a.inv]][a.inv],
         UNCHANGED <<brokerVars, procVars, faults>>
  PROVE  Custody'
  <1>1. Fields /\ Placed /\ Bound /\ Open /\ Counted /\ Frozen /\ Housed /\ Told
    BY DEF Custody
  <1>2. /\ receipt' = receipt /\ placed' = placed /\ intent' = intent /\ life' = life /\ owner' = owner
        /\ proc' = proc /\ starts' = starts /\ cmd' = cmd /\ runs' = runs /\ faults' = faults
    BY DEF brokerVars, procVars
  <1>3. ASSUME NEW d \in Containers, NEW i \in Invocations
        PROVE  /\ Fenced(rec[d][i], rec'[d][i])
               /\ rec[d][i].st = "absent" /\ rec'[d][i].st # "absent" => placed[i] = d
    <2>1. CASE d = c
      BY <2>1
    <2>2. CASE d # c
      <3>1. rec'[d][i] = rec[d][i] /\ Valid(rec[d][i])
        BY <1>1, <2>2 DEF Bound
      <3> QED BY <3>1 DEF Fenced, Forward
    <2> QED BY <2>1, <2>2
  <1>4. Fields'
    <2>1. net' \in SUBSET Messages /\ joined' \in SUBSET Messages
      BY <1>1 DEF Fields
    <2> QED BY <1>1, <1>2, <2>1 DEF Fields
  <1>5. Placed'
    <2>1. ASSUME NEW d \in Containers, NEW i \in Invocations,
                 rec'[d][i].st # "absent" \/ task'[d][i].pc # "none" \/ cmd'[d][i].st # "none"
          PROVE  placed[i] = d
      <3>1. rec[d][i].st # "absent" \/ task[d][i].pc # "none" \/ cmd[d][i].st # "none" => placed[i] = d
        BY <1>1 DEF Placed
      <3>2. rec[d][i].st = "absent" /\ rec'[d][i].st # "absent" => placed[i] = d
        BY <1>3
      <3>3. task'[d][i].pc = task[d][i].pc \/ placed[i] = d
        OBVIOUS
      <3> QED BY <1>2, <2>1, <3>1, <3>2, <3>3
    <2>2. \A m \in net' \cup joined' : placed[m.inv] = m.at /\ (m.op = "fence" => m.fence # NoFence)
      BY <1>1 DEF Placed
    <2> QED BY <1>2, <2>1, <2>2 DEF Placed
  <1>6. Bound'
    <2>1. ASSUME NEW d \in Containers, NEW i \in Invocations
          PROVE  /\ Valid(rec'[d][i]) /\ rec'[d][i].inc <= starts[d] /\ task'[d][i].inc <= starts[d]
                 /\ task'[d][i].pc \in {"known", "executing"} => task'[d][i].inc # 0
                 /\ rec'[d][i].bar # 0 => proc[d] # rec'[d][i].inc
      <3>1. Fenced(rec[d][i], rec'[d][i])
        BY <1>3
      <3>2. /\ rec[d][i].inc <= starts[d] /\ task[d][i].inc <= starts[d]
            /\ task[d][i].pc \in {"known", "executing"} => task[d][i].inc # 0
            /\ rec[d][i].bar # 0 => proc[d] # rec[d][i].inc
        BY <1>1 DEF Bound
      <3>3. /\ task'[d][i].inc = task[d][i].inc
            /\ task'[d][i].pc = task[d][i].pc \/ task'[d][i].pc = "awaiting"
        OBVIOUS
      <3> QED BY <3>1, <3>2, <3>3 DEF Fenced
    <2> QED BY <1>2, <2>1 DEF Bound
  <1>7. Open'
    <2>1. ASSUME NEW d \in Containers, NEW i \in Invocations
          PROVE  /\ task'[d][i].pc = "executing" =>
                      rec'[d][i].st \in {"admitted", "fencing"} /\ rec'[d][i].inc = task'[d][i].inc
                 /\ cmd[d][i].st # "none" =>
                      rec'[d][i].st \in {"admitted", "fencing", "terminated"} /\ rec'[d][i].inc = cmd[d][i].inc
                 /\ cmd[d][i].st \in {"sent", "running"} => rec'[d][i].st # "terminated"
      <3>1. Fenced(rec[d][i], rec'[d][i])
        BY <1>3
      <3>2. /\ task[d][i].pc = "executing" =>
                 rec[d][i].st \in {"admitted", "fencing"} /\ rec[d][i].inc = task[d][i].inc
            /\ cmd[d][i].st # "none" =>
                 rec[d][i].st \in {"admitted", "fencing", "terminated"} /\ rec[d][i].inc = cmd[d][i].inc
            /\ cmd[d][i].st \in {"sent", "running"} => rec[d][i].st # "terminated"
        BY <1>1 DEF Open
      <3>3. /\ task'[d][i].inc = task[d][i].inc
            /\ task'[d][i].pc = task[d][i].pc \/ task'[d][i].pc = "awaiting"
        OBVIOUS
      <3> QED BY <3>1, <3>2, <3>3 DEF Fenced
    <2> QED BY <1>2, <2>1 DEF Open
  <1>8. Counted'
    <2>1. ASSUME NEW d \in Containers, NEW i \in Invocations, rec'[d][i].st = "completed"
          PROVE  runs[i] = 1
      <3>1. Fenced(rec[d][i], rec'[d][i])
        BY <1>3
      <3>2. rec[d][i].st = "completed"
        BY <2>1, <3>1 DEF Fenced
      <3> QED BY <1>1, <3>2 DEF Counted
    <2>2. ASSUME NEW i \in Invocations, runs[i] = 1
          PROVE  placed[i] # Nowhere /\ rec'[placed[i]][i].inc # 0
      <3>1. placed[i] # Nowhere /\ rec[placed[i]][i].inc # 0 /\ placed[i] \in Containers
        BY <1>1, <2>2 DEF Counted, Fields
      <3> QED BY <1>3, <3>1 DEF Fenced
    <2> QED BY <1>1, <1>2, <2>1, <2>2 DEF Counted
  <1>9. Frozen'
    <2>1. ASSUME NEW d \in Containers, bar'[d].closing PROVE FrozenAt(bar'[d], rec'[d])
      <3>1. CASE d = c
        BY <2>1, <3>1
      <3>2. CASE d # c
        BY <1>1, <2>1, <3>2 DEF Frozen
      <3> QED BY <3>1, <3>2
    <2>2. \A d : FrozenAt(bar[d], rec[d])' <=> FrozenAt(bar'[d], rec'[d])
      BY DEF FrozenAt, Targeted
    <2> QED BY <2>1, <2>2 DEF Frozen
  <1>10. Housed'
    <2>1. ASSUME NEW d \in Containers
          PROVE  /\ work'[d] # "idle" => bar'[d].closing
                 /\ work'[d] \in {"drained", "destroyed"} => work[d] = work'[d]
      <3>1. work[d] # "idle" => bar[d].closing
        BY <1>1 DEF Housed
      <3>2. CASE d = c
        BY <3>2
      <3>3. CASE d # c
        BY <3>1, <3>3
      <3> QED BY <3>2, <3>3
    <2>2. ASSUME NEW d \in Containers, work'[d] \in {"drained", "destroyed"}
          PROVE  Quiet(d, "starting")'
      <3>1. \A i \in Invocations : task[d][i].pc # "starting"
        BY <1>1, <2>1, <2>2 DEF Housed, Quiet
      <3>2. \A i \in Invocations : task'[d][i].pc = task[d][i].pc \/ task'[d][i].pc = "awaiting"
        OBVIOUS
      <3>3. \A i \in Invocations : task'[d][i].pc # "starting"
        <4> TAKE i \in Invocations
        <4>1. task[d][i].pc # "starting" /\ (task'[d][i].pc = task[d][i].pc \/ task'[d][i].pc = "awaiting")
          BY <3>1, <3>2
        <4> QED BY <4>1
      <3> QED BY <3>3 DEF Quiet
    <2> QED BY <1>1, <1>2, <2>1, <2>2 DEF Housed
  <1>11. Told'
    <2>1. \A d \in Containers, i \in Invocations :
            Valid(rec'[d][i]) /\ Forward(rec[d][i], rec'[d][i])
      BY <1>3 DEF Fenced
    <2> QED BY <1>1, <1>2, <2>1, ToldKept
  <1> QED BY <1>4, <1>5, <1>6, <1>7, <1>8, <1>9, <1>10, <1>11 DEF Custody

\* A delivery or the barrier work moves on; records and commands stay.
LEMMA TaskStep ==
  ASSUME Custody,
         UNCHANGED <<brokerVars, rec, bar, cmd, runs>>,
         task' \in [Containers -> [Invocations -> Tasks]],
         work' \in [Containers -> {"idle", "prepared", "drained", "destroyed"}],
         proc' \in [Containers -> Nat], starts' \in [Containers -> Nat], faults' \in Nat,
         \A d \in Containers, i \in Invocations :
           /\ task'[d][i].pc # "none" => placed[i] = d
           /\ task'[d][i].inc <= starts'[d]
           /\ task'[d][i].pc \in {"known", "executing"} => task'[d][i].inc # 0
           /\ task'[d][i].pc = "executing" => task'[d][i] = task[d][i]
           /\ work'[d] \in {"drained", "destroyed"} => task'[d][i].pc # "starting",
         \A d \in Containers :
           /\ starts[d] <= starts'[d] /\ proc'[d] <= starts'[d]
           /\ proc'[d] = proc[d] \/ starts[d] < proc'[d]
           /\ work'[d] # "idle" => bar[d].closing
           /\ work'[d] = "destroyed" => work[d] = "destroyed" /\ proc'[d] = 0,
         net' \cup joined' \subseteq net \cup joined,
         answers' \in SUBSET Replies,
         \A a \in answers' :
           \/ a \in answers
           \/ /\ a.inv \in Invocations /\ placed[a.inv] # Nowhere
              /\ a.rec = rec[placed[a.inv]][a.inv]
  PROVE  Custody'
  <1>1. Fields /\ Placed /\ Bound /\ Open /\ Counted /\ Frozen /\ Housed /\ Told
    BY DEF Custody
  <1>2. /\ receipt' = receipt /\ placed' = placed /\ intent' = intent /\ life' = life /\ owner' = owner
        /\ rec' = rec /\ bar' = bar /\ cmd' = cmd /\ runs' = runs
    BY DEF brokerVars
  <1>3. Fields'
    <2>1. net' \in SUBSET Messages /\ joined' \in SUBSET Messages
      BY <1>1 DEF Fields
    <2> QED BY <1>1, <1>2, <2>1 DEF Fields
  <1>4. Placed'
    <2>1. \A m \in net' \cup joined' : placed[m.inv] = m.at /\ (m.op = "fence" => m.fence # NoFence)
      BY <1>1 DEF Placed
    <2> QED BY <1>1, <1>2, <2>1 DEF Placed
  <1>5. Bound'
    <2>1. ASSUME NEW d \in Containers, NEW i \in Invocations
          PROVE  /\ Valid(rec[d][i]) /\ rec[d][i].inc <= starts'[d] /\ task'[d][i].inc <= starts'[d]
                 /\ task'[d][i].pc \in {"known", "executing"} => task'[d][i].inc # 0
                 /\ rec[d][i].bar # 0 => proc'[d] # rec[d][i].inc
      <3>1. /\ rec[d][i].inc \in Nat /\ starts[d] \in Nat /\ starts'[d] \in Nat /\ proc'[d] \in Nat
            /\ rec[d][i].inc <= starts[d]
        BY <1>1 DEF Fields, Records, Bound
      <3>2. rec[d][i].inc <= starts'[d] /\ (starts[d] < proc'[d] => proc'[d] # rec[d][i].inc)
        BY <3>1
      <3> QED BY <1>1, <3>2 DEF Bound
    <2> QED BY <1>2, <2>1 DEF Bound
  <1>6. Open'
    BY <1>1, <1>2, OpenKept
  <1>7. Counted'
    BY <1>1, <1>2, CountedKept
  <1>8. Frozen'
    BY <1>1, <1>2, FrozenKept
  <1>9. Housed'
    <2>1. ASSUME NEW d \in Containers
          PROVE  /\ work'[d] \in {"drained", "destroyed"} => Quiet(d, "starting")'
                 /\ work'[d] = "destroyed" =>
                      proc'[d] = 0 /\ \A i \in Invocations : cmd[d][i].st \notin {"sent", "running"}
      BY <1>1 DEF Housed, Quiet
    <2> QED BY <1>2, <2>1 DEF Housed
  <1>10. Told'
    <2>1. \A d \in Containers, i \in Invocations :
            Valid(rec'[d][i]) /\ Forward(rec[d][i], rec'[d][i])
      BY <1>1, <1>2 DEF Bound, Forward
    <2> QED BY <1>1, <1>2, <2>1, ToldKept
  <1> QED BY <1>3, <1>4, <1>5, <1>6, <1>7, <1>8, <1>9, <1>10 DEF Custody

\* What the invariant says of deliveries and of the barrier work.
LEMMA Standing ==
  ASSUME Custody
  PROVE  /\ \A d \in Containers, i \in Invocations :
              /\ task[d][i].pc # "none" => placed[i] = d
              /\ task[d][i].inc <= starts[d] /\ task[d][i] \in Tasks
              /\ task[d][i].pc \in {"known", "executing"} => task[d][i].inc # 0
              /\ work[d] \in {"drained", "destroyed"} => task[d][i].pc # "starting"
         /\ \A d \in Containers :
              /\ starts[d] \in Nat /\ proc[d] \in Nat
              /\ starts[d] <= starts[d] /\ proc[d] <= starts[d]
              /\ work[d] # "idle" => bar[d].closing
              /\ work[d] = "destroyed" => proc[d] = 0
  BY DEF Custody, Fields, Placed, Bound, Housed, Quiet

\* A read of the record.
LEMMA ReadKeeps == ASSUME Custody, NEW m \in net, ReceiveRead(m) PROVE Custody'
  <1>1. Fields /\ Placed /\ Bound /\ Housed
    BY DEF Custody
  <1>2. /\ m \in Messages /\ m.inv \in Invocations /\ m.at \in Containers /\ placed[m.inv] = m.at
        /\ m.to \in {"owner", "call", "reconcile", "gone"} /\ rec[m.at][m.inv] \in Records
        /\ m.at # Nowhere
    BY <1>1, PoolAssumption DEF Fields, Messages, Placed
  <1>3. /\ net' = net \ {m} /\ answers' = answers \cup Answer(m.inv, m.to, rec[m.at][m.inv])
        /\ UNCHANGED <<brokerVars, ctrlVars, procVars, faults>>
    BY DEF ReceiveRead
  <1>4. /\ UNCHANGED <<brokerVars, rec, bar, cmd, runs>> /\ task' = task /\ work' = work
        /\ proc' = proc /\ starts' = starts /\ faults' = faults /\ joined' = joined
    BY <1>3 DEF ctrlVars, procVars
  <1>5. /\ answers' \in SUBSET Replies
        /\ \A a \in answers' : a \in answers \/ (a.inv = m.inv /\ a.rec = rec[m.at][m.inv])
    BY <1>1, <1>2, <1>3, AnswerIs DEF Fields
  <1>6. net' \cup joined' \subseteq net \cup joined
    BY <1>3, <1>4
  <1> QED BY <1>1, <1>2, <1>4, <1>5, <1>6, Standing, TaskStep DEF Fields

\* A fence request: its record is fenced, and the barrier work joined if there
\* is something to prove.
LEMMA FenceKeeps == ASSUME Custody, NEW m \in net, ReceiveFence(m) PROVE Custody'
  <1>1. Fields /\ Placed /\ Bound /\ Housed /\ Frozen
    BY DEF Custody
  <1> DEFINE c == m.at
             r == EnsureFence(rec[c][m.inv], m.fence)
             recs == [rec[c] EXCEPT ![m.inv] = r]
             waits == PendingFence(r) \/ bar[c].closing
  <1>2. /\ m \in Messages /\ m.inv \in Invocations /\ c \in Containers /\ placed[m.inv] = c
        /\ m.to \in {"owner", "call", "reconcile", "gone"} /\ c # Nowhere
        /\ m.op = "fence" /\ m.fence \in FenceIds \cup Nat
    BY <1>1, PoolAssumption DEF Fields, Messages, Placed, ReceiveFence
  <1>3. /\ net' = net \ {m} /\ UNCHANGED <<brokerVars, task, procVars, faults>>
        /\ \/ waits /\ BarrierWork(c, recs) /\ joined' = joined \cup {m} /\ answers' = answers
           \/ /\ ~waits /\ rec' = [rec EXCEPT ![c] = recs]
              /\ answers' = answers \cup Answer(m.inv, m.to, r)
              /\ UNCHANGED <<bar, work, joined>>
    BY DEF ReceiveFence
  <1>4. rec[c] \in [Invocations -> Records] /\ \A i \in Invocations : Valid(rec[c][i])
    BY <1>1, <1>2 DEF Fields, Bound
  <1>5. /\ Fenced(rec[c][m.inv], r) /\ r \in Records /\ r.st # "admitted"
        /\ rec[c][m.inv].st \in {"fencing", "completed"} /\ rec[c][m.inv].fence # NoFence
             => r.fence = rec[c][m.inv].fence
        /\ rec[c][m.inv].st # "admitted" => r.st # "fencing" \/ rec[c][m.inv].st = "fencing"
    <2>1. Valid(rec[c][m.inv])
      BY <1>2, <1>4
    <2>2. rec[c][m.inv].st \in States
      BY <1>2, <1>4 DEF Records
    <2> HIDE DEF c
    <2> QED BY <1>2, <2>1, <2>2, FenceEnsured DEF Fenced, Valid, States
  <1> HIDE DEF r
  <1>6. /\ recs \in [Invocations -> Records]
        /\ \A i \in Invocations : recs[i] = IF i = m.inv THEN r ELSE rec[c][i]
    BY <1>2, <1>4, <1>5
  <1> HIDE DEF recs
  <1>7. \A i \in Invocations : Fenced(rec[c][i], recs[i])
    BY <1>4, <1>5, <1>6 DEF Fenced, Forward
  <1>8. \A i \in Invocations : Valid(recs[i])
    BY <1>7 DEF Fenced
  <1>9. bar[c].closing => FrozenAt(bar[c], recs)
    <2> HAVE bar[c].closing
    <2>1. FrozenAt(bar[c], rec[c])
      BY <1>1, <1>2 DEF Frozen
    <2>2. ASSUME NEW t \in bar[c].targets
          PROVE  /\ recs[t.inv].st \in {"fencing", "completed"} /\ recs[t.inv].bar = 0
                 /\ recs[t.inv].inc = t.inc /\ recs[t.inv].fence = t.fence /\ t.fence # NoFence
      <3>1. t.inv \in Invocations
        BY <1>1, <1>2 DEF Fields, Barriers
      <3>2. /\ rec[c][t.inv].st \in {"fencing", "completed"} /\ rec[c][t.inv].bar = 0
            /\ rec[c][t.inv].inc = t.inc /\ rec[c][t.inv].fence = t.fence /\ t.fence # NoFence
        BY <2>1 DEF FrozenAt
      <3>3. CASE t.inv = m.inv
        <4>1. recs[t.inv] = r
          BY <1>6, <3>1, <3>3
        <4> QED BY <1>5, <3>2, <3>3, <4>1 DEF Fenced
      <3>4. CASE t.inv # m.inv
        BY <1>6, <3>1, <3>2, <3>4
      <3> QED BY <3>3, <3>4
    <2>3. ASSUME NEW i \in Invocations
          PROVE  recs[i].st # "admitted" /\ (recs[i].st = "fencing" => i \in Targeted(bar[c]))
      <3>1. rec[c][i].st # "admitted" /\ (rec[c][i].st = "fencing" => i \in Targeted(bar[c]))
        BY <2>1 DEF FrozenAt
      <3> QED BY <1>5, <1>6, <3>1
    <2>4. bar[c].gen # 0
      BY <2>1 DEF FrozenAt
    <2> QED BY <2>2, <2>3, <2>4 DEF FrozenAt
  <1> DEFINE Joined ==
        /\ rec' \in [Containers -> [Invocations -> Records]]
        /\ bar' \in [Containers -> Barriers]
        /\ work' \in [Containers -> {"idle", "prepared", "drained", "destroyed"}]
        /\ \A d \in Containers : d # c => rec'[d] = rec[d] /\ bar'[d] = bar[d] /\ work'[d] = work[d]
        /\ \A i \in Invocations :
             Fenced(recs[i], rec'[c][i]) /\ (recs[i].st = "absent" => rec'[c][i] = recs[i])
        /\ bar'[c].closing => FrozenAt(bar'[c], rec'[c])
        /\ work'[c] \in {work[c], "idle", "prepared"} /\ (work'[c] # "idle" => bar'[c].closing)
        /\ net' \cup joined' \subseteq net \cup joined
        /\ answers' \in SUBSET Replies
        /\ \A a \in answers' : a \in answers \/ (a.inv = m.inv /\ a.rec = rec'[c][m.inv])
  <1>10. Joined
    <2>1. ASSUME waits, BarrierWork(c, recs), joined' = joined \cup {m}, answers' = answers
          PROVE  Joined
      <3>1. net' \cup joined' \subseteq net \cup joined
        BY <1>3, <2>1
      <3>2. answers' \in SUBSET Replies
        BY <1>1, <2>1 DEF Fields
      <3> HIDE DEF c
      <3> QED BY <1>1, <1>2, <1>6, <1>8, <1>9, <2>1, <3>1, <3>2, WorkJoined
    <2>2. ASSUME rec' = [rec EXCEPT ![c] = recs], answers' = answers \cup Answer(m.inv, m.to, r),
                 UNCHANGED <<bar, work, joined>>
          PROVE  Joined
      <3>1. /\ rec' \in [Containers -> [Invocations -> Records]] /\ rec'[c] = recs
            /\ \A d \in Containers : d # c => rec'[d] = rec[d]
        BY <1>1, <1>2, <1>6, <2>2 DEF Fields
      <3>2. \A i \in Invocations : Fenced(recs[i], recs[i])
        BY <1>8 DEF Fenced, Forward
      <3>3. /\ bar' = bar /\ work' = work /\ joined' = joined /\ bar \in [Containers -> Barriers]
            /\ work \in [Containers -> {"idle", "prepared", "drained", "destroyed"}]
            /\ work[c] # "idle" => bar[c].closing
        BY <1>1, <1>2, <2>2 DEF Fields, Housed
      <3>4. /\ answers' \in SUBSET Replies
            /\ \A a \in answers' : a \in answers \/ (a.inv = m.inv /\ a.rec = r)
        BY <1>1, <1>2, <1>5, <2>2, AnswerIs DEF Fields
      <3>5. rec'[c][m.inv] = r
        BY <1>2, <1>6, <3>1
      <3>6. net' \cup joined' \subseteq net \cup joined
        BY <1>3, <3>3
      <3> QED BY <1>9, <3>1, <3>2, <3>3, <3>4, <3>5, <3>6
    <2> QED BY <1>3, <2>1, <2>2
  <1>11. ASSUME NEW i \in Invocations
         PROVE  /\ Fenced(rec[c][i], rec'[c][i])
                /\ rec[c][i].st = "absent" /\ rec'[c][i].st # "absent" => placed[i] = c
    <2>1. Fenced(rec[c][i], recs[i]) /\ Fenced(recs[i], rec'[c][i])
      BY <1>7, <1>10
    <2>2. Fenced(rec[c][i], rec'[c][i])
      BY <2>1, FencedChain
    <2>3. CASE i = m.inv
      BY <1>2, <2>2, <2>3
    <2>4. CASE i # m.inv
      <3>1. recs[i] = rec[c][i] /\ (recs[i].st = "absent" => rec'[c][i] = recs[i])
        BY <1>6, <1>10, <2>4
      <3> QED BY <2>2, <3>1
    <2> QED BY <2>3, <2>4
  <1>12. \A d \in Containers, i \in Invocations :
           /\ task'[d][i].inc = task[d][i].inc
           /\ task'[d][i].pc = task[d][i].pc
    BY <1>3
  <1>13. task' \in [Containers -> [Invocations -> Tasks]]
    BY <1>1, <1>3 DEF Fields
  <1>14. \A a \in answers' :
           \/ a \in answers
           \/ /\ a.inv \in Invocations /\ placed[a.inv] # Nowhere
              /\ a.rec = rec'[placed[a.inv]][a.inv]
    BY <1>2, <1>10
  <1> HIDE DEF c
  <1> QED BY <1>2, <1>3, <1>10, <1>11, <1>12, <1>13, <1>14, FenceStep

\* A delivery is answered from its record, waits for a barrier, or starts.
LEMMA DeliverKeeps == ASSUME Custody, NEW m \in net, ReceiveDeliver(m) PROVE Custody'
  <1>1. Fields /\ Placed /\ Bound /\ Housed /\ Frozen
    BY DEF Custody
  <1> DEFINE c == m.at
             i == m.inv
  <1>2. /\ i \in Invocations /\ c \in Containers /\ placed[i] = c /\ c # Nowhere
        /\ m.to \in {"owner", "call", "reconcile", "gone"} /\ rec[c][i] \in Records
        /\ task \in [Containers -> [Invocations -> Tasks]] /\ bar[c].gen \in Nat
    BY <1>1, PoolAssumption DEF Fields, Messages, Placed, Barriers
  <1>3. /\ net' = net \ {m} /\ UNCHANGED <<brokerVars, joined, procVars, faults>>
        /\ joined' = joined /\ proc' = proc /\ starts' = starts /\ faults' = faults
        /\ cmd' = cmd /\ runs' = runs
    BY DEF ReceiveDeliver, procVars
  <1>4. net' \cup joined' \subseteq net \cup joined
    BY <1>3
  <1> HIDE DEF c, i
  <1>5. ASSUME answers' = answers \cup Answer(i, m.to, rec[c][i]), UNCHANGED <<rec, bar, work, task>>
        PROVE  Custody'
    <2>1. /\ answers' \in SUBSET Replies
          /\ \A a \in answers' : a \in answers \/ (a.inv = i /\ a.rec = rec[c][i])
      BY <1>1, <1>2, <1>5, AnswerIs DEF Fields
    <2>2. UNCHANGED <<brokerVars, rec, bar, cmd, runs>>
      BY <1>3, <1>5
    <2> QED BY <1>1, <1>2, <1>3, <1>4, <1>5, <2>1, <2>2, Standing, TaskStep DEF Fields
  <1>6. ASSUME rec[c][i].st = "absent", bar[c].closing, BarrierWork(c, rec[c]),
               task' = [task EXCEPT ![c][i].pc = "awaiting"], answers' = answers
        PROVE  Custody'
    <2>1. /\ task' \in [Containers -> [Invocations -> Tasks]]
          /\ \A d \in Containers, j \in Invocations :
               /\ task'[d][j].inc = task[d][j].inc
               /\ task'[d][j].pc = task[d][j].pc \/ (task'[d][j].pc = "awaiting" /\ placed[j] = d)
      <3> DEFINE new == [task[c][i] EXCEPT !.pc = "awaiting"]
      <3>1. new \in Tasks /\ new.pc = "awaiting" /\ new.inc = task[c][i].inc
        BY <1>2 DEF Tasks
      <3>2. task' = [task EXCEPT ![c][i] = new]
        BY <1>2, <1>6
      <3> HIDE DEF new
      <3>3. /\ task' \in [Containers -> [Invocations -> Tasks]]
            /\ \A d \in Containers, j \in Invocations :
                 task'[d][j] = IF d = c /\ j = i THEN new ELSE task[d][j]
        BY <1>2, <3>1, <3>2, Changed
      <3> QED BY <1>2, <3>1, <3>3
    <2>2. rec[c] \in [Invocations -> Records] /\ \A j \in Invocations : Valid(rec[c][j])
      BY <1>1, <1>2 DEF Fields, Bound
    <2>3. FrozenAt(bar[c], rec[c])
      BY <1>1, <1>2, <1>6 DEF Frozen
    <2>4. answers' \in SUBSET Replies /\ \A a \in answers' : a \in answers
      BY <1>1, <1>6 DEF Fields
    <2>5. /\ rec' \in [Containers -> [Invocations -> Records]]
          /\ bar' \in [Containers -> Barriers]
          /\ work' \in [Containers -> {"idle", "prepared", "drained", "destroyed"}]
          /\ \A d \in Containers : d # c => rec'[d] = rec[d] /\ bar'[d] = bar[d] /\ work'[d] = work[d]
          /\ \A j \in Invocations :
               Fenced(rec[c][j], rec'[c][j]) /\ (rec[c][j].st = "absent" => rec'[c][j] = rec[c][j])
          /\ bar'[c].closing => FrozenAt(bar'[c], rec'[c])
          /\ work'[c] \in {work[c], "idle", "prepared"} /\ (work'[c] # "idle" => bar'[c].closing)
      BY <1>1, <1>2, <1>6, <2>2, <2>3, WorkJoined
    <2>6. UNCHANGED <<brokerVars, procVars, faults>>
      BY <1>3
    <2>7. /\ \A j \in Invocations :
               /\ Fenced(rec[c][j], rec'[c][j])
               /\ rec[c][j].st = "absent" /\ rec'[c][j].st # "absent" => placed[j] = c
          /\ work'[c] \in {work[c], "idle", "prepared"}
          /\ work'[c] # "idle" => bar'[c].closing
      BY <2>5
    <2>8. /\ rec' \in [Containers -> [Invocations -> Records]]
          /\ bar' \in [Containers -> Barriers]
          /\ work' \in [Containers -> {"idle", "prepared", "drained", "destroyed"}]
          /\ \A d \in Containers : d # c => rec'[d] = rec[d] /\ bar'[d] = bar[d] /\ work'[d] = work[d]
          /\ bar'[c].closing => FrozenAt(bar'[c], rec'[c])
          /\ c \in Containers
      BY <1>2, <2>5
    <2> QED BY <1>4, <2>1, <2>4, <2>6, <2>7, <2>8, FenceStep
  <1>7. ASSUME rec[c][i].st = "absent", ~bar[c].closing, UNCHANGED <<answers, rec, bar, work>>,
               task' = [task EXCEPT ![c][i] = [@ EXCEPT !.pc = "starting", !.gen = bar[c].gen]]
        PROVE  Custody'
    <2> DEFINE new == [task[c][i] EXCEPT !.pc = "starting", !.gen = bar[c].gen]
    <2>0. new \in Tasks /\ new.pc = "starting" /\ new.inc = task[c][i].inc
      <3>1. task[c][i] \in Tasks
        BY <1>2
      <3> QED BY <1>2, <3>1 DEF Tasks
    <2>1. /\ task' \in [Containers -> [Invocations -> Tasks]]
          /\ \A d \in Containers, j \in Invocations :
               task'[d][j] = IF d = c /\ j = i THEN new ELSE task[d][j]
      <3>1. task' = [task EXCEPT ![c][i] = new]
        BY <1>2, <1>7
      <3> HIDE DEF new
      <3> QED BY <1>2, <2>0, <3>1, Changed
    <2> HIDE DEF new
    <2>2. work[c] = "idle"
      BY <1>1, <1>2, <1>7 DEF Housed
    <2>3. \A d \in Containers, j \in Invocations :
            /\ task'[d][j].pc # "none" => placed[j] = d
            /\ task'[d][j].inc <= starts[d]
            /\ task'[d][j].pc \in {"known", "executing"} => task'[d][j].inc # 0
            /\ task'[d][j].pc = "executing" => task'[d][j] = task[d][j]
            /\ work[d] \in {"drained", "destroyed"} => task'[d][j].pc # "starting"
      BY <1>2, <2>0, <2>1, <2>2, Standing
    <2>4. UNCHANGED <<brokerVars, rec, bar, cmd, runs>> /\ work' = work /\ answers' = answers
      BY <1>3, <1>7
    <2> QED BY <1>1, <1>3, <1>4, <2>1, <2>3, <2>4, Standing, TaskStep DEF Fields
  <1> QED BY <1>5, <1>6, <1>7 DEF ReceiveDeliver, c, i

\* One delivery takes a step and does not start executing.
LEMMA TaskMoved ==
  ASSUME Custody, NEW c \in Containers, NEW i \in Invocations, NEW t \in Tasks,
         task' = [task EXCEPT ![c][i] = t], t.pc \notin {"starting", "executing"},
         t.pc # "none" => placed[i] = c, t.pc = "known" => t.inc # 0, t.inc <= starts[c],
         starts' \in [Containers -> Nat], \A d \in Containers : starts[d] <= starts'[d]
  PROVE  /\ task' \in [Containers -> [Invocations -> Tasks]]
         /\ \A d \in Containers, j \in Invocations :
              /\ task'[d][j].pc # "none" => placed[j] = d
              /\ task'[d][j].inc <= starts'[d]
              /\ task'[d][j].pc \in {"known", "executing"} => task'[d][j].inc # 0
              /\ task'[d][j].pc = "executing" => task'[d][j] = task[d][j]
              /\ work[d] \in {"drained", "destroyed"} => task'[d][j].pc # "starting"
  <1>1. task \in [Containers -> [Invocations -> Tasks]]
    BY DEF Custody, Fields
  <1>2. /\ task' \in [Containers -> [Invocations -> Tasks]]
        /\ \A d \in Containers, j \in Invocations :
             task'[d][j] = IF d = c /\ j = i THEN t ELSE task[d][j]
    BY <1>1, Changed
  <1>3. ASSUME NEW d \in Containers, NEW j \in Invocations
        PROVE  /\ task'[d][j].pc # "none" => placed[j] = d
               /\ task'[d][j].inc <= starts[d] /\ task'[d][j].inc \in Nat
               /\ task'[d][j].pc \in {"known", "executing"} => task'[d][j].inc # 0
               /\ task'[d][j].pc = "executing" => task'[d][j] = task[d][j]
               /\ work[d] \in {"drained", "destroyed"} => task'[d][j].pc # "starting"
    <2>1. CASE d = c /\ j = i
      <3>1. task'[d][j] = t /\ t.inc \in Nat
        BY <1>2, <2>1 DEF Tasks
      <3> QED BY <2>1, <3>1
    <2>2. CASE ~(d = c /\ j = i)
      <3>1. task'[d][j] = task[d][j] /\ task[d][j] \in Tasks
        BY <1>1, <1>2, <2>2
      <3>2. task[d][j].inc \in Nat
        BY <3>1 DEF Tasks
      <3> QED BY <3>1, <3>2, Standing
    <2> QED BY <2>1, <2>2
  <1>4. ASSUME NEW d \in Containers, NEW j \in Invocations
        PROVE  task'[d][j].inc <= starts'[d]
    <2>1. starts[d] \in Nat /\ starts'[d] \in Nat /\ starts[d] <= starts'[d]
      BY Standing
    <2>2. task'[d][j].inc <= starts[d] /\ task'[d][j].inc \in Nat
      BY <1>3
    <2> QED BY <2>1, <2>2
  <1> QED BY <1>2, <1>3, <1>4

\* No delivery.
LEMMA NoTaskIs == NoTask \in Tasks /\ NoTask.pc = "none" /\ NoTask.inc = 0
  BY DEF NoTask, Tasks

\* A delivery ends where it stands, or learns the incarnation.
LEMMA AbandonKeeps ==
  ASSUME Custody, NEW c \in Containers, NEW i \in Invocations, Abandon(c, i) \/ Handshake(c, i)
  PROVE  Custody'
  <1>1. Fields
    BY DEF Custody
  <1>2. /\ UNCHANGED <<brokerVars, rec, bar, cmd, runs>> /\ work' = work /\ proc' = proc
        /\ starts' = starts /\ faults' = faults /\ net' = net /\ joined' = joined /\ answers' = answers
    BY DEF Abandon, Handshake, procVars
  <1>3. starts' \in [Containers -> Nat] /\ \A d \in Containers : starts[d] <= starts'[d]
    BY <1>1, <1>2, Standing DEF Fields
  <1> DEFINE Moved(t) ==
        /\ t \in Tasks /\ task' = [task EXCEPT ![c][i] = t] /\ t.pc \notin {"starting", "executing"}
        /\ t.pc # "none" => placed[i] = c
        /\ t.pc = "known" => t.inc # 0
        /\ t.inc <= starts[c]
  <1>4. ASSUME Abandon(c, i) PROVE Moved(NoTask)
    <2>1. task' = [task EXCEPT ![c][i] = NoTask]
      BY <1>4 DEF Abandon
    <2>2. 0 <= starts[c]
      BY Standing
    <2> QED BY <2>1, <2>2, NoTaskIs
  <1>5. ASSUME Handshake(c, i) PROVE \E t : Moved(t)
    <2> DEFINE new == [task[c][i] EXCEPT !.pc = "known", !.inc = proc[c]]
    <2>1. /\ task' = [task EXCEPT ![c][i] = new] /\ task[c][i].pc = "started" /\ proc[c] # 0
      BY <1>5 DEF Handshake
    <2>2. task[c][i] \in Tasks /\ proc[c] \in Nat /\ proc[c] <= starts[c] /\ placed[i] = c
      BY <2>1, Standing
    <2>3. new \in Tasks /\ new.pc = "known" /\ new.inc = proc[c]
      BY <2>2 DEF Tasks
    <2> HIDE DEF new
    <2>4. Moved(new)
      BY <2>1, <2>2, <2>3
    <2> HIDE DEF Moved
    <2> QED BY <2>4
  <1> HIDE DEF Moved
  <1>6. PICK t : Moved(t)
    BY <1>4, <1>5
  <1>7. /\ task' \in [Containers -> [Invocations -> Tasks]]
        /\ \A d \in Containers, j \in Invocations :
              /\ task'[d][j].pc # "none" => placed[j] = d
              /\ task'[d][j].inc <= starts'[d]
              /\ task'[d][j].pc \in {"known", "executing"} => task'[d][j].inc # 0
              /\ task'[d][j].pc = "executing" => task'[d][j] = task[d][j]
              /\ work[d] \in {"drained", "destroyed"} => task'[d][j].pc # "starting"
    BY <1>3, <1>6, TaskMoved DEF Moved
  <1> QED BY <1>1, <1>2, <1>7, Standing, TaskStep DEF Fields

\* The process is up: its number is new if it was started now.
LEMMA StartedKeeps ==
  ASSUME Custody, NEW c \in Containers, NEW i \in Invocations, Started(c, i) PROVE Custody'
  <1>1. Fields
    BY DEF Custody
  <1>2. /\ UNCHANGED <<brokerVars, rec, bar, cmd, runs>> /\ work' = work
        /\ faults' = faults /\ net' = net /\ joined' = joined /\ task[c][i].pc = "starting"
    BY DEF Started
  <1>3. \/ proc' = proc /\ starts' = starts
        \/ starts' = [starts EXCEPT ![c] = @ + 1] /\ proc' = [proc EXCEPT ![c] = starts[c] + 1]
    BY DEF Started
  <1>4. task[c][i] \in Tasks /\ placed[i] = c /\ task[c][i].inc <= starts[c] /\ rec[c][i] \in Records
        /\ work[c] \notin {"drained", "destroyed"} /\ c # Nowhere
    BY <1>1, <1>2, Standing, PoolAssumption DEF Fields
  <1>5. /\ starts' \in [Containers -> Nat] /\ proc' \in [Containers -> Nat]
        /\ \A d \in Containers : /\ starts[d] <= starts'[d] /\ proc'[d] <= starts'[d]
                                 /\ proc'[d] = proc[d] \/ (d = c /\ starts[d] < proc'[d])
    <2>1. /\ starts \in [Containers -> Nat] /\ proc \in [Containers -> Nat]
          /\ \A d \in Containers : starts[d] \in Nat /\ proc[d] \in Nat /\ proc[d] <= starts[d]
      BY <1>1, Standing DEF Fields
    <2>2. CASE proc' = proc /\ starts' = starts
      BY <2>1, <2>2
    <2>3. CASE starts' = [starts EXCEPT ![c] = @ + 1] /\ proc' = [proc EXCEPT ![c] = starts[c] + 1]
      <3>1. starts' \in [Containers -> Nat] /\ proc' \in [Containers -> Nat]
        BY <2>1, <2>3
      <3>2. ASSUME NEW d \in Containers
            PROVE  /\ starts[d] <= starts'[d] /\ proc'[d] <= starts'[d]
                   /\ proc'[d] = proc[d] \/ (d = c /\ starts[d] < proc'[d])
        <4>1. starts'[d] = (IF d = c THEN starts[c] + 1 ELSE starts[d])
              /\ proc'[d] = (IF d = c THEN starts[c] + 1 ELSE proc[d])
          BY <2>1, <2>3
        <4> QED BY <2>1, <4>1
      <3> QED BY <3>1, <3>2
    <2> QED BY <1>3, <2>2, <2>3
  <1> DEFINE Moved(t) ==
        /\ t \in Tasks /\ task' = [task EXCEPT ![c][i] = t] /\ t.pc \in {"none", "started"}
        /\ t.inc <= starts[c]
  <1>6. \E t : Moved(t)
    <2>1. CASE task' = [task EXCEPT ![c][i].pc = "started"]
      <3> DEFINE new == [task[c][i] EXCEPT !.pc = "started"]
      <3>1. task' = [task EXCEPT ![c][i] = new]
        BY <2>1
      <3>2. new \in Tasks /\ new.pc = "started" /\ new.inc = task[c][i].inc
        BY <1>4 DEF Tasks
      <3> HIDE DEF new
      <3>3. Moved(new)
        BY <1>4, <3>1, <3>2
      <3> HIDE DEF Moved
      <3> QED BY <3>3
    <2>2. CASE task' = [task EXCEPT ![c][i] = NoTask]
      <3>1. 0 <= starts[c]
        BY Standing
      <3>2. Moved(NoTask)
        BY <2>2, <3>1, NoTaskIs
      <3> HIDE DEF Moved
      <3> QED BY <3>2
    <2> QED BY <2>1, <2>2 DEF Started
  <1>7. /\ answers' \in SUBSET Replies
        /\ \A a \in answers' :
             \/ a \in answers
             \/ /\ a.inv \in Invocations /\ placed[a.inv] # Nowhere
                /\ a.rec = rec[placed[a.inv]][a.inv]
    <2>1. answers' = answers \/ answers' = answers \cup Answer(i, "owner", rec[c][i])
      BY DEF Started
    <2>2. /\ Answer(i, "owner", rec[c][i]) \in SUBSET Replies
          /\ \A a \in Answer(i, "owner", rec[c][i]) : a.inv = i /\ a.rec = rec[c][i]
      BY <1>4, AnswerIs
    <2> QED BY <1>1, <1>4, <2>1, <2>2 DEF Fields
  <1> HIDE DEF Moved
  <1>8. PICK t : Moved(t)
    BY <1>6
  <1>9. /\ task' \in [Containers -> [Invocations -> Tasks]]
        /\ \A d \in Containers, j \in Invocations :
              /\ task'[d][j].pc # "none" => placed[j] = d
              /\ task'[d][j].inc <= starts'[d]
              /\ task'[d][j].pc \in {"known", "executing"} => task'[d][j].inc # 0
              /\ task'[d][j].pc = "executing" => task'[d][j] = task[d][j]
              /\ work[d] \in {"drained", "destroyed"} => task'[d][j].pc # "starting"
    BY <1>4, <1>5, <1>8, TaskMoved DEF Moved
  <1>10. \A d \in Containers :
           /\ starts[d] <= starts'[d] /\ proc'[d] <= starts'[d]
           /\ proc'[d] = proc[d] \/ starts[d] < proc'[d]
           /\ work[d] # "idle" => bar[d].closing
           /\ work[d] = "destroyed" => proc'[d] = 0
    BY <1>4, <1>5, Standing
  <1>11. work' \in [Containers -> {"idle", "prepared", "drained", "destroyed"}] /\ faults' \in Nat
    BY <1>1, <1>2 DEF Fields
  <1>12. net' \cup joined' \subseteq net \cup joined
    BY <1>2
  <1> QED BY <1>2, <1>5, <1>7, <1>9, <1>10, <1>11, <1>12, TaskStep

\* The startups are settled.
LEMMA DrainKeeps == ASSUME Custody, NEW c \in Containers, DrainStartups(c) PROVE Custody'
  <1>1. Fields
    BY DEF Custody
  <1>2. /\ UNCHANGED <<brokerVars, rec, bar, cmd, runs>> /\ task' = task /\ proc' = proc
        /\ starts' = starts /\ faults' = faults /\ net' = net /\ joined' = joined /\ answers' = answers
    BY DEF DrainStartups, procVars
  <1>3. /\ work[c] = "prepared" /\ work' = [work EXCEPT ![c] = "drained"]
        /\ \A i \in Invocations : task[c][i].pc # "starting"
    BY DEF DrainStartups, Quiet
  <1>4. /\ work' \in [Containers -> {"idle", "prepared", "drained", "destroyed"}]
        /\ \A d \in Containers : work'[d] = IF d = c THEN "drained" ELSE work[d]
    BY <1>1, <1>3 DEF Fields
  <1>5. \A d \in Containers, j \in Invocations :
          /\ task'[d][j].pc # "none" => placed[j] = d
          /\ task'[d][j].inc <= starts'[d]
          /\ task'[d][j].pc \in {"known", "executing"} => task'[d][j].inc # 0
          /\ task'[d][j].pc = "executing" => task'[d][j] = task[d][j]
          /\ work'[d] \in {"drained", "destroyed"} => task'[d][j].pc # "starting"
    BY <1>2, <1>3, <1>4, Standing
  <1>6. \A d \in Containers :
          /\ starts[d] <= starts'[d] /\ proc'[d] <= starts'[d]
          /\ proc'[d] = proc[d] \/ starts[d] < proc'[d]
          /\ work'[d] # "idle" => bar[d].closing
          /\ work'[d] = "destroyed" => work[d] = "destroyed" /\ proc'[d] = 0
    BY <1>2, <1>3, <1>4, Standing
  <1> QED BY <1>1, <1>2, <1>4, <1>5, <1>6, TaskStep DEF Fields

\* The barrier work ends early; the barrier stays closing.
LEMMA InterruptedKeeps ==
  ASSUME Custody, NEW c \in Containers, NEW evicted \in BOOLEAN, Interrupted(c, evicted)
  PROVE  Custody'
  <1>1. Fields
    BY DEF Custody
  <1>2. /\ UNCHANGED <<brokerVars, rec, bar, cmd, runs>> /\ proc' = proc
        /\ starts' = starts /\ faults' = faults + 1 /\ net' = net /\ answers' = answers
        /\ joined' = {m \in joined : m.at # c} /\ work' = [work EXCEPT ![c] = "idle"]
        /\ task' = [task EXCEPT ![c] = [i \in Invocations |->
                      IF evicted \/ task[c][i].pc = "awaiting" THEN NoTask ELSE task[c][i]]]
    BY DEF Interrupted, procVars
  <1>3. /\ work' \in [Containers -> {"idle", "prepared", "drained", "destroyed"}]
        /\ \A d \in Containers : work'[d] = IF d = c THEN "idle" ELSE work[d]
    BY <1>1, <1>2 DEF Fields
  <1>4. /\ task' \in [Containers -> [Invocations -> Tasks]]
        /\ \A d \in Containers, j \in Invocations : task'[d][j] = task[d][j] \/ task'[d][j] = NoTask
    <2> DEFINE row == [i \in Invocations |->
                 IF evicted \/ task[c][i].pc = "awaiting" THEN NoTask ELSE task[c][i]]
    <2>1. task \in [Containers -> [Invocations -> Tasks]] /\ NoTask \in Tasks
      BY <1>1, NoTaskIs DEF Fields
    <2>2. row \in [Invocations -> Tasks] /\ \A j \in Invocations : row[j] = task[c][j] \/ row[j] = NoTask
      BY <2>1
    <2>3. task' = [task EXCEPT ![c] = row]
      BY <1>2
    <2> HIDE DEF row
    <2> QED BY <2>1, <2>2, <2>3
  <1>5. \A d \in Containers, j \in Invocations :
          /\ task'[d][j].pc # "none" => placed[j] = d
          /\ task'[d][j].inc <= starts'[d]
          /\ task'[d][j].pc \in {"known", "executing"} => task'[d][j].inc # 0
          /\ task'[d][j].pc = "executing" => task'[d][j] = task[d][j]
          /\ work'[d] \in {"drained", "destroyed"} => task'[d][j].pc # "starting"
    <2> TAKE d \in Containers, j \in Invocations
    <2>1. CASE task'[d][j] = task[d][j]
      BY <1>2, <1>3, <2>1, Standing
    <2>2. CASE task'[d][j] = NoTask
      <3>1. starts[d] \in Nat
        BY Standing
      <3> QED BY <1>2, <2>2, <3>1, NoTaskIs
    <2> QED BY <1>4, <2>1, <2>2
  <1>6. \A d \in Containers :
          /\ starts[d] <= starts'[d] /\ proc'[d] <= starts'[d]
          /\ proc'[d] = proc[d] \/ starts[d] < proc'[d]
          /\ work'[d] # "idle" => bar[d].closing
          /\ work'[d] = "destroyed" => work[d] = "destroyed" /\ proc'[d] = 0
    BY <1>2, <1>3, Standing
  <1>7. net' \cup joined' \subseteq net \cup joined
    BY <1>2
  <1>8. faults' \in Nat
    BY <1>1, <1>2 DEF Fields
  <1> QED BY <1>1, <1>2, <1>3, <1>4, <1>5, <1>6, <1>7, <1>8, TaskStep DEF Fields

\* A step at one invocation of one container: to record r, delivery t, command
\* k and its count.
PairSteps(c, i, r, t, k) ==
  /\ placed[i] = c /\ r \in Records /\ t \in Tasks /\ k \in Commands
  /\ rec' \in [Containers -> [Invocations -> Records]]
  /\ task' \in [Containers -> [Invocations -> Tasks]]
  /\ cmd' \in [Containers -> [Invocations -> Commands]]
  /\ runs' \in [Invocations -> {0, 1}]
  /\ \A d \in Containers, j \in Invocations :
       /\ rec'[d][j] = IF d = c /\ j = i THEN r ELSE rec[d][j]
       /\ task'[d][j] = IF d = c /\ j = i THEN t ELSE task[d][j]
       /\ cmd'[d][j] = IF d = c /\ j = i THEN k ELSE cmd[d][j]
  /\ \A j \in Invocations : j # i => runs'[j] = runs[j]
  /\ UNCHANGED <<brokerVars, net, bar, joined, work, proc, starts, faults>>
  /\ Valid(r) /\ r.inc <= starts[c] /\ t.inc <= starts[c]
  /\ t.pc \in {"known", "executing"} => t.inc # 0
  /\ t.pc = "starting" => t = task[c][i]
  /\ r.bar # 0 => proc[c] # r.inc
  /\ t.pc = "executing" => r.st \in {"admitted", "fencing"} /\ r.inc = t.inc
  /\ k.st # "none" => r.st \in {"admitted", "fencing", "terminated"} /\ r.inc = k.inc
  /\ k.st \in {"sent", "running"} => r.st # "terminated"
  /\ k.st = "sent" => runs'[i] = 0
  /\ k.st \in {"running", "done"} => runs'[i] = 1
  /\ k.st = "done" => k.res \in Results
  /\ r.st = "completed" => runs'[i] = 1
  /\ runs'[i] = 1 => r.inc # 0
  /\ Forward(rec[c][i], r)
  /\ bar[c].closing =>
       \/ r = rec[c][i]
       \/ /\ rec[c][i].st = "fencing" /\ r.st = "completed" /\ r.bar = rec[c][i].bar
          /\ r.inc = rec[c][i].inc /\ r.fence = rec[c][i].fence
  /\ work[c] = "destroyed" => k.st \notin {"sent", "running"}
  /\ answers' \in SUBSET Replies
  /\ \A a \in answers' :
       \/ a \in answers
       \/ /\ a.inv \in Invocations /\ placed[a.inv] # Nowhere
          /\ a.rec = rec'[placed[a.inv]][a.inv]

\* Such a step preserves the invariant.
LEMMA PairStep ==
  ASSUME Custody, NEW c \in Containers, NEW i \in Invocations,
         NEW r, NEW t, NEW k, PairSteps(c, i, r, t, k)
  PROVE  Custody'
  <1> USE DEF PairSteps
  <1>1. Fields /\ Placed /\ Bound /\ Open /\ Counted /\ Frozen /\ Housed /\ Told
    BY DEF Custody
  <1>2. /\ receipt' = receipt /\ placed' = placed /\ intent' = intent /\ life' = life /\ owner' = owner
        /\ net' = net /\ bar' = bar /\ joined' = joined /\ work' = work /\ proc' = proc
        /\ starts' = starts /\ faults' = faults /\ c # Nowhere
    BY PoolAssumption DEF brokerVars
  <1>3. /\ rec'[c][i] = r /\ task'[c][i] = t /\ cmd'[c][i] = k
        /\ \A d \in Containers, j \in Invocations :
             ~(d = c /\ j = i) =>
               rec'[d][j] = rec[d][j] /\ task'[d][j] = task[d][j] /\ cmd'[d][j] = cmd[d][j]
    OBVIOUS
  <1>4. Fields'
    BY <1>1, <1>2 DEF Fields
  <1>5. Placed'
    <2>1. ASSUME NEW d \in Containers, NEW j \in Invocations,
                 rec'[d][j].st # "absent" \/ task'[d][j].pc # "none" \/ cmd'[d][j].st # "none"
          PROVE  placed[j] = d
      <3>1. CASE d = c /\ j = i
        BY <3>1
      <3>2. CASE ~(d = c /\ j = i)
        <4>1. rec'[d][j] = rec[d][j] /\ task'[d][j] = task[d][j] /\ cmd'[d][j] = cmd[d][j]
          BY <1>3, <3>2
        <4>2. rec[d][j].st # "absent" \/ task[d][j].pc # "none" \/ cmd[d][j].st # "none" => placed[j] = d
          BY <1>1 DEF Placed
        <4> QED BY <2>1, <4>1, <4>2
      <3> QED BY <3>1, <3>2
    <2> QED BY <1>1, <1>2, <2>1 DEF Placed
  <1>6. Bound'
    <2>1. ASSUME NEW d \in Containers, NEW j \in Invocations
          PROVE  /\ Valid(rec'[d][j]) /\ rec'[d][j].inc <= starts[d] /\ task'[d][j].inc <= starts[d]
                 /\ task'[d][j].pc \in {"known", "executing"} => task'[d][j].inc # 0
                 /\ rec'[d][j].bar # 0 => proc[d] # rec'[d][j].inc
      <3>1. CASE d = c /\ j = i
        BY <1>3, <3>1
      <3>2. CASE ~(d = c /\ j = i)
        <4>1. rec'[d][j] = rec[d][j] /\ task'[d][j] = task[d][j] /\ cmd'[d][j] = cmd[d][j]
          BY <1>3, <3>2
        <4>2. /\ Valid(rec[d][j]) /\ rec[d][j].inc <= starts[d] /\ task[d][j].inc <= starts[d]
              /\ task[d][j].pc \in {"known", "executing"} => task[d][j].inc # 0
              /\ rec[d][j].bar # 0 => proc[d] # rec[d][j].inc
          BY <1>1 DEF Bound
        <4> QED BY <4>1, <4>2
      <3> QED BY <3>1, <3>2
    <2> QED BY <1>2, <2>1 DEF Bound
  <1>7. Open'
    <2>1. ASSUME NEW d \in Containers, NEW j \in Invocations
          PROVE  /\ task'[d][j].pc = "executing" =>
                      rec'[d][j].st \in {"admitted", "fencing"} /\ rec'[d][j].inc = task'[d][j].inc
                 /\ cmd'[d][j].st # "none" =>
                      /\ rec'[d][j].st \in {"admitted", "fencing", "terminated"}
                      /\ rec'[d][j].inc = cmd'[d][j].inc
                 /\ cmd'[d][j].st \in {"sent", "running"} => rec'[d][j].st # "terminated"
      <3>1. CASE d = c /\ j = i
        BY <1>3, <3>1
      <3>2. CASE ~(d = c /\ j = i)
        <4>1. rec'[d][j] = rec[d][j] /\ task'[d][j] = task[d][j] /\ cmd'[d][j] = cmd[d][j]
          BY <1>3, <3>2
        <4>2. /\ task[d][j].pc = "executing" =>
                   rec[d][j].st \in {"admitted", "fencing"} /\ rec[d][j].inc = task[d][j].inc
              /\ cmd[d][j].st # "none" =>
                   /\ rec[d][j].st \in {"admitted", "fencing", "terminated"}
                   /\ rec[d][j].inc = cmd[d][j].inc
              /\ cmd[d][j].st \in {"sent", "running"} => rec[d][j].st # "terminated"
          BY <1>1 DEF Open
        <4> QED BY <4>1, <4>2
      <3> QED BY <3>1, <3>2
    <2> QED BY <2>1 DEF Open
  <1>8. Counted'
    <2>1. ASSUME NEW d \in Containers, NEW j \in Invocations
          PROVE  /\ cmd'[d][j].st = "sent" => runs'[j] = 0
                 /\ cmd'[d][j].st \in {"running", "done"} => runs'[j] = 1
                 /\ cmd'[d][j].st = "done" => cmd'[d][j].res \in Results
                 /\ rec'[d][j].st = "completed" => runs'[j] = 1
      <3>1. CASE d = c /\ j = i
        BY <1>3, <3>1
      <3>2. CASE j # i
        <4>1. rec'[d][j] = rec[d][j] /\ cmd'[d][j] = cmd[d][j] /\ runs'[j] = runs[j]
          BY <1>3, <3>2
        <4>2. /\ cmd[d][j].st = "sent" => runs[j] = 0
              /\ cmd[d][j].st \in {"running", "done"} => runs[j] = 1
              /\ cmd[d][j].st = "done" => cmd[d][j].res \in Results
              /\ rec[d][j].st = "completed" => runs[j] = 1
          BY <1>1 DEF Counted
        <4> QED BY <4>1, <4>2
      <3>3. CASE j = i /\ d # c
        <4>1. rec'[d][j].st = "absent" /\ cmd'[d][j].st = "none"
          <5>1. rec'[d][j] = rec[d][j] /\ cmd'[d][j] = cmd[d][j]
            BY <1>3, <3>3
          <5>2. rec[d][j].st # "absent" \/ cmd[d][j].st # "none" => placed[j] = d
            BY <1>1 DEF Placed
          <5> QED BY <3>3, <5>1, <5>2
        <4> QED BY <4>1
      <3> QED BY <3>1, <3>2, <3>3
    <2>2. ASSUME NEW j \in Invocations, runs'[j] = 1
          PROVE  placed[j] # Nowhere /\ rec'[placed[j]][j].inc # 0
      <3>1. CASE j = i
        BY <1>2, <1>3, <2>2, <3>1
      <3>2. CASE j # i
        <4>1. placed[j] # Nowhere /\ rec[placed[j]][j].inc # 0 /\ placed[j] \in Containers
          BY <1>1, <2>2, <3>2 DEF Counted, Fields
        <4> QED BY <1>3, <3>2, <4>1
      <3> QED BY <3>1, <3>2
    <2> QED BY <1>2, <2>1, <2>2 DEF Counted
  <1>9. Frozen'
    <2>1. ASSUME NEW d \in Containers, bar[d].closing PROVE FrozenAt(bar[d], rec'[d])
      <3>1. FrozenAt(bar[d], rec[d])
        BY <1>1, <2>1 DEF Frozen
      <3>2. ASSUME NEW j \in Invocations
            PROVE  \/ rec'[d][j] = rec[d][j]
                   \/ /\ rec[d][j].st = "fencing" /\ rec'[d][j].st = "completed"
                      /\ rec'[d][j].bar = rec[d][j].bar
                      /\ rec'[d][j].inc = rec[d][j].inc /\ rec'[d][j].fence = rec[d][j].fence
        <4>1. CASE d = c /\ j = i
          BY <1>3, <2>1, <4>1
        <4>2. CASE ~(d = c /\ j = i)
          BY <1>3, <4>2
        <4> QED BY <4>1, <4>2
      <3>3. \A u \in bar[d].targets : u.inv \in Invocations
        BY <1>1 DEF Fields, Barriers
      <3>4. ASSUME NEW u \in bar[d].targets
            PROVE  /\ rec'[d][u.inv].st \in {"fencing", "completed"} /\ rec'[d][u.inv].bar = 0
                   /\ rec'[d][u.inv].inc = u.inc /\ rec'[d][u.inv].fence = u.fence /\ u.fence # NoFence
        <4>1. /\ rec[d][u.inv].st \in {"fencing", "completed"} /\ rec[d][u.inv].bar = 0
              /\ rec[d][u.inv].inc = u.inc /\ rec[d][u.inv].fence = u.fence /\ u.fence # NoFence
          BY <3>1 DEF FrozenAt
        <4>2. \/ rec'[d][u.inv] = rec[d][u.inv]
              \/ /\ rec'[d][u.inv].st = "completed" /\ rec'[d][u.inv].bar = rec[d][u.inv].bar
                 /\ rec'[d][u.inv].inc = rec[d][u.inv].inc /\ rec'[d][u.inv].fence = rec[d][u.inv].fence
          BY <3>2, <3>3
        <4> QED BY <4>1, <4>2
      <3>5. ASSUME NEW j \in Invocations
            PROVE  rec'[d][j].st # "admitted" /\ (rec'[d][j].st = "fencing" => j \in Targeted(bar[d]))
        <4>1. rec[d][j].st # "admitted" /\ (rec[d][j].st = "fencing" => j \in Targeted(bar[d]))
          BY <3>1 DEF FrozenAt
        <4>2. rec'[d][j].st \in {rec[d][j].st, "completed"}
          BY <3>2
        <4> QED BY <4>1, <4>2
      <3> QED BY <3>1, <3>4, <3>5 DEF FrozenAt
    <2>2. \A d : FrozenAt(bar[d], rec[d])' <=> FrozenAt(bar'[d], rec'[d])
      BY DEF FrozenAt, Targeted
    <2> QED BY <1>2, <2>1, <2>2 DEF Frozen
  <1>10. Housed'
    <2>1. ASSUME NEW d \in Containers
          PROVE  /\ work[d] \in {"drained", "destroyed"} => Quiet(d, "starting")'
                 /\ work[d] = "destroyed" => \A j \in Invocations : cmd'[d][j].st \notin {"sent", "running"}
      <3>1. ASSUME NEW j \in Invocations, task[d][j].pc # "starting" PROVE task'[d][j].pc # "starting"
        BY <1>3, <3>1
      <3>2. ASSUME work[d] = "destroyed", NEW j \in Invocations PROVE cmd'[d][j].st \notin {"sent", "running"}
        <4>1. cmd[d][j].st \notin {"sent", "running"}
          BY <1>1, <3>2 DEF Housed
        <4> QED BY <1>3, <3>2, <4>1
      <3> QED BY <1>1, <3>1, <3>2 DEF Housed, Quiet
    <2> QED BY <1>1, <1>2, <2>1 DEF Housed
  <1>11. Told'
    <2>1. \A d \in Containers, j \in Invocations :
            Valid(rec'[d][j]) /\ Forward(rec[d][j], rec'[d][j])
      <3> TAKE d \in Containers, j \in Invocations
      <3>1. CASE d = c /\ j = i
        BY <1>3, <3>1
      <3>2. CASE ~(d = c /\ j = i)
        BY <1>1, <1>3, <3>2 DEF Bound, Forward
      <3> QED BY <3>1, <3>2
    <2> QED BY <1>1, <1>2, <2>1, ToldKept
  <1> QED BY <1>4, <1>5, <1>6, <1>7, <1>8, <1>9, <1>10, <1>11 DEF Custody

\* What the invariant says of one pair.
LEMMA PairHas ==
  ASSUME Custody, NEW c \in Containers, NEW i \in Invocations
  PROVE  /\ rec[c][i] \in Records /\ task[c][i] \in Tasks /\ cmd[c][i] \in Commands
         /\ runs[i] \in {0, 1} /\ starts[c] \in Nat /\ proc[c] \in Nat /\ c # Nowhere
         /\ rec[c][i].st # "absent" \/ task[c][i].pc # "none" \/ cmd[c][i].st # "none" => placed[i] = c
         /\ Valid(rec[c][i]) /\ rec[c][i].inc <= starts[c] /\ task[c][i].inc <= starts[c]
         /\ task[c][i].pc \in {"known", "executing"} => task[c][i].inc # 0
         /\ rec[c][i].bar # 0 => proc[c] # rec[c][i].inc
         /\ task[c][i].pc = "executing" =>
              rec[c][i].st \in {"admitted", "fencing"} /\ rec[c][i].inc = task[c][i].inc
         /\ cmd[c][i].st # "none" =>
              rec[c][i].st \in {"admitted", "fencing", "terminated"} /\ rec[c][i].inc = cmd[c][i].inc
         /\ cmd[c][i].st \in {"sent", "running"} => rec[c][i].st # "terminated"
         /\ cmd[c][i].st = "sent" => runs[i] = 0
         /\ cmd[c][i].st \in {"running", "done"} => runs[i] = 1
         /\ cmd[c][i].st = "done" => cmd[c][i].res \in Results
         /\ rec[c][i].st = "completed" => runs[i] = 1
         /\ placed[i] = c /\ runs[i] = 1 => rec[c][i].inc # 0
         /\ work[c] # "idle" => bar[c].closing
         /\ work[c] = "destroyed" => cmd[c][i].st \notin {"sent", "running"}
  <1>1. /\ rec[c][i] \in Records /\ task[c][i] \in Tasks /\ cmd[c][i] \in Commands
        /\ runs[i] \in {0, 1} /\ starts[c] \in Nat /\ proc[c] \in Nat /\ c # Nowhere
    BY PoolAssumption DEF Custody, Fields
  <1>2. rec[c][i].st # "absent" \/ task[c][i].pc # "none" \/ cmd[c][i].st # "none" => placed[i] = c
    BY DEF Custody, Placed
  <1>3. /\ Valid(rec[c][i]) /\ rec[c][i].inc <= starts[c] /\ task[c][i].inc <= starts[c]
        /\ task[c][i].pc \in {"known", "executing"} => task[c][i].inc # 0
        /\ rec[c][i].bar # 0 => proc[c] # rec[c][i].inc
    BY DEF Custody, Bound
  <1>4. /\ task[c][i].pc = "executing" =>
             rec[c][i].st \in {"admitted", "fencing"} /\ rec[c][i].inc = task[c][i].inc
        /\ cmd[c][i].st # "none" =>
             rec[c][i].st \in {"admitted", "fencing", "terminated"} /\ rec[c][i].inc = cmd[c][i].inc
        /\ cmd[c][i].st \in {"sent", "running"} => rec[c][i].st # "terminated"
    BY DEF Custody, Open
  <1>5. /\ cmd[c][i].st = "sent" => runs[i] = 0
        /\ cmd[c][i].st \in {"running", "done"} => runs[i] = 1
        /\ cmd[c][i].st = "done" => cmd[c][i].res \in Results
        /\ rec[c][i].st = "completed" => runs[i] = 1
        /\ placed[i] = c /\ runs[i] = 1 => rec[c][i].inc # 0
    BY DEF Custody, Counted
  <1>6. /\ work[c] # "idle" => bar[c].closing
        /\ work[c] = "destroyed" => cmd[c][i].st \notin {"sent", "running"}
    BY DEF Custody, Housed
  <1> QED BY <1>1, <1>2, <1>3, <1>4, <1>5, <1>6

\* Admission: only an absent record, and only while no barrier closes.
LEMMA AdmitKeeps ==
  ASSUME Custody, NEW c \in Containers, NEW i \in Invocations, Admit(c, i) PROVE Custody'
  <1> DEFINE t == task[c][i]
  <1>1. /\ UNCHANGED <<brokerVars, net, bar, joined, work, proc, starts, faults>>
        /\ runs' = runs /\ t.pc = "known" /\ Fields
    BY DEF Admit, Custody
  <1>2. /\ t \in Tasks /\ placed[i] = c /\ t.inc # 0 /\ t.inc <= starts[c] /\ rec[c][i] \in Records
        /\ Valid(rec[c][i]) /\ c # Nowhere /\ runs \in [Invocations -> {0, 1}]
        /\ runs[i] = 1 => rec[c][i].inc # 0
    BY <1>1, PairHas DEF Fields
  <1>3. ASSUME Admits(rec[c][i], bar[c], t.gen) PROVE Custody'
    <2> DEFINE r == Admitted(t.inc)
               s == [t EXCEPT !.pc = "executing"]
               k == [NoCmd EXCEPT !.st = "sent", !.inc = t.inc]
    <2>1. /\ rec' = [rec EXCEPT ![c][i] = r] /\ task' = [task EXCEPT ![c][i] = s]
          /\ cmd' = [cmd EXCEPT ![c][i] = k] /\ answers' = answers
      BY <1>3 DEF Admit
    <2>2. rec[c][i].st = "absent" /\ ~bar[c].closing
      BY <1>3 DEF Admits
    <2>3. rec[c][i].inc = 0 /\ rec[c][i].bar = 0
      BY <1>2, <2>2 DEF Valid
    <2>4. runs[i] = 0
      BY <1>2, <2>3
    <2>5. t.inc \in Nat
      BY <1>2 DEF Tasks
    <2>6. /\ r \in Records /\ r.st = "admitted" /\ r.inc = t.inc /\ r.bar = 0 /\ r.res = NoResult
      BY <2>5 DEF Admitted, Absent, Records, States
    <2>7. /\ s \in Tasks /\ s.pc = "executing" /\ s.inc = t.inc
      BY <1>2 DEF Tasks
    <2>8. k \in Commands /\ k.st = "sent" /\ k.inc = t.inc
      BY <2>5 DEF NoCmd, Commands
    <2> HIDE DEF r, s, k
    <2>9. Valid(r) /\ Forward(rec[c][i], r)
      BY <1>2, <2>2, <2>3, <2>6 DEF Valid, Forward, Final
    <2>10. work[c] = "idle"
      BY <2>2, PairHas
    <2>11. /\ rec' \in [Containers -> [Invocations -> Records]]
           /\ task' \in [Containers -> [Invocations -> Tasks]]
           /\ cmd' \in [Containers -> [Invocations -> Commands]]
           /\ \A d \in Containers, j \in Invocations :
                /\ rec'[d][j] = IF d = c /\ j = i THEN r ELSE rec[d][j]
                /\ task'[d][j] = IF d = c /\ j = i THEN s ELSE task[d][j]
                /\ cmd'[d][j] = IF d = c /\ j = i THEN k ELSE cmd[d][j]
      <3>1. /\ rec \in [Containers -> [Invocations -> Records]]
            /\ task \in [Containers -> [Invocations -> Tasks]]
            /\ cmd \in [Containers -> [Invocations -> Commands]]
        BY <1>1 DEF Fields
      <3> HIDE DEF t
      <3> QED BY <2>1, <2>6, <2>7, <2>8, <3>1, Changed
    <2>12. answers' \in SUBSET Replies
      BY <1>1, <2>1 DEF Fields
    <2> HIDE DEF t
    <2>13. /\ placed[i] = c /\ runs' \in [Invocations -> {0, 1}] /\ runs'[i] = 0
           /\ \A j \in Invocations : j # i => runs'[j] = runs[j]
           /\ \A a \in answers' : a \in answers
      BY <1>1, <1>2, <2>1, <2>4
    <2>14. /\ r.inc <= starts[c] /\ s.inc <= starts[c] /\ s.inc # 0
           /\ r.st = "admitted" /\ r.inc = s.inc /\ r.inc = k.inc /\ r.bar = 0
           /\ k.st = "sent" /\ s.pc = "executing"
           /\ r \in Records /\ s \in Tasks /\ k \in Commands
           /\ ~bar[c].closing /\ work[c] # "destroyed"
      BY <1>2, <2>2, <2>6, <2>7, <2>8, <2>10
    <2>15. UNCHANGED <<brokerVars, net, bar, joined, work, proc, starts, faults>>
      BY <1>1
    <2>16. PairSteps(c, i, r, s, k)
      BY <2>9, <2>11, <2>12, <2>13, <2>14, <2>15 DEF PairSteps
    <2> QED BY <2>16, PairStep
  <1>4. ASSUME ~Admits(rec[c][i], bar[c], t.gen) PROVE Custody'
    <2>1. /\ task' = [task EXCEPT ![c][i] = NoTask] /\ rec' = rec /\ cmd' = cmd
          /\ answers' = answers \cup Answer(i, "owner", rec[c][i])
      BY <1>4 DEF Admit
    <2>2. /\ answers' \in SUBSET Replies
          /\ \A a \in answers' :
               \/ a \in answers
               \/ /\ a.inv \in Invocations /\ placed[a.inv] # Nowhere
                  /\ a.rec = rec[placed[a.inv]][a.inv]
      <3>1. /\ Answer(i, "owner", rec[c][i]) \in SUBSET Replies
            /\ \A a \in Answer(i, "owner", rec[c][i]) : a.inv = i /\ a.rec = rec[c][i]
        BY <1>2, AnswerIs
      <3> QED BY <1>1, <1>2, <2>1, <3>1 DEF Fields
    <2>3. /\ work' = work /\ proc' = proc /\ starts' = starts /\ faults' = faults /\ net' = net
          /\ joined' = joined /\ UNCHANGED <<brokerVars, rec, bar, cmd, runs>>
      BY <1>1, <2>1
    <2>4. starts' \in [Containers -> Nat] /\ \A d \in Containers : starts[d] <= starts'[d]
      BY <1>1, <2>3, Standing DEF Fields
    <2>5. 0 <= starts[c]
      BY PairHas
    <2>6. /\ task' \in [Containers -> [Invocations -> Tasks]]
          /\ \A d \in Containers, j \in Invocations :
                /\ task'[d][j].pc # "none" => placed[j] = d
                /\ task'[d][j].inc <= starts'[d]
                /\ task'[d][j].pc \in {"known", "executing"} => task'[d][j].inc # 0
                /\ task'[d][j].pc = "executing" => task'[d][j] = task[d][j]
                /\ work[d] \in {"drained", "destroyed"} => task'[d][j].pc # "starting"
      BY <2>1, <2>4, <2>5, NoTaskIs, TaskMoved
    <2> QED BY <1>1, <2>2, <2>3, <2>6, Standing, TaskStep DEF Fields
  <1> QED BY <1>3, <1>4

\* No command.
LEMMA NoCmdIs == NoCmd \in Commands /\ NoCmd.st = "none"
  BY DEF NoCmd, Commands

\* A step of a command: the record and the delivery stay.
LEMMA CommandStep ==
  ASSUME Custody, NEW c \in Containers, NEW i \in Invocations, NEW k \in Commands,
         placed[i] = c, rec[c][i].st \in {"admitted", "fencing", "terminated"},
         cmd' = [cmd EXCEPT ![c][i] = k],
         runs' \in [Invocations -> {0, 1}], \A j \in Invocations : j # i => runs'[j] = runs[j],
         UNCHANGED <<brokerVars, net, answers, ctrlVars, proc, starts, faults>>,
         k.st # "none" => rec[c][i].inc = k.inc,
         k.st \in {"sent", "running"} => rec[c][i].st # "terminated" /\ work[c] # "destroyed",
         k.st = "sent" => runs'[i] = 0,
         k.st \in {"running", "done"} => runs'[i] = 1,
         k.st = "done" => k.res \in Results
  PROVE  Custody'
  <1> DEFINE r == rec[c][i]
             t == task[c][i]
  <1>1. Fields /\ rec' = rec /\ task' = task /\ UNCHANGED <<brokerVars, net, bar, joined, work, proc, starts, faults>>
        /\ answers' = answers
    BY DEF Custody, ctrlVars
  <1>2. /\ r \in Records /\ t \in Tasks /\ Valid(r) /\ r.inc <= starts[c] /\ t.inc <= starts[c]
        /\ t.pc \in {"known", "executing"} => t.inc # 0
        /\ r.bar # 0 => proc[c] # r.inc
        /\ t.pc = "executing" => r.st \in {"admitted", "fencing"} /\ r.inc = t.inc
    BY PairHas
  <1>3. r.inc # 0 /\ r.st # "completed" /\ Forward(r, r)
    BY <1>2 DEF Valid, Forward
  <1>4. /\ rec' \in [Containers -> [Invocations -> Records]]
        /\ task' \in [Containers -> [Invocations -> Tasks]]
        /\ cmd' \in [Containers -> [Invocations -> Commands]]
        /\ \A d \in Containers, j \in Invocations :
             /\ rec'[d][j] = IF d = c /\ j = i THEN r ELSE rec[d][j]
             /\ task'[d][j] = IF d = c /\ j = i THEN t ELSE task[d][j]
             /\ cmd'[d][j] = IF d = c /\ j = i THEN k ELSE cmd[d][j]
    <2>1. /\ rec' \in [Containers -> [Invocations -> Records]]
          /\ task' \in [Containers -> [Invocations -> Tasks]]
          /\ cmd \in [Containers -> [Invocations -> Commands]]
      BY <1>1 DEF Fields
    <2>2. /\ cmd' \in [Containers -> [Invocations -> Commands]]
          /\ \A d \in Containers, j \in Invocations :
               cmd'[d][j] = IF d = c /\ j = i THEN k ELSE cmd[d][j]
      BY <2>1, Changed
    <2> QED BY <1>1, <2>1, <2>2
  <1>5. answers' \in SUBSET Replies /\ \A a \in answers' : a \in answers
    BY <1>1 DEF Fields
  <1>6. r.st \in {"admitted", "fencing", "terminated"} /\ r = rec[c][i] /\ t = task[c][i]
        /\ (k.st # "none" => r.inc = k.inc)
        /\ (k.st \in {"sent", "running"} => r.st # "terminated")
    OBVIOUS
  <1>7. Forward(rec[c][i], r) /\ (work[c] = "destroyed" => k.st \notin {"sent", "running"})
    BY <1>3
  <1> HIDE DEF r, t
  <1>8. /\ t.pc = "starting" => t = task[c][i]
        /\ bar[c].closing => r = rec[c][i]
        /\ r.st # "completed" /\ r.inc # 0
        /\ k.st # "none" => r.st \in {"admitted", "fencing", "terminated"} /\ r.inc = k.inc
        /\ k.st \in {"sent", "running"} => r.st # "terminated"
    BY <1>3, <1>6
  <1>9. UNCHANGED <<brokerVars, net, bar, joined, work, proc, starts, faults>>
    BY <1>1
  <1>10. PairSteps(c, i, r, t, k)
    BY <1>2, <1>4, <1>5, <1>7, <1>8, <1>9 DEF PairSteps
  <1> QED BY <1>10, PairStep

\* The process takes the command or refuses it.
LEMMA AcceptKeeps ==
  ASSUME Custody, NEW c \in Containers, NEW i \in Invocations, Accept(c, i) PROVE Custody'
  <1>1. /\ cmd[c][i].st = "sent"
        /\ UNCHANGED <<brokerVars, net, answers, ctrlVars, proc, starts, faults>>
        /\ IF cmd[c][i].inc = proc[c]
             THEN /\ cmd' = [cmd EXCEPT ![c][i].st = "running"] /\ runs' = [runs EXCEPT ![i] = @ + 1]
             ELSE cmd' = [cmd EXCEPT ![c][i] = NoCmd] /\ runs' = runs
    BY DEF Accept
  <1>2. /\ cmd[c][i] \in Commands /\ placed[i] = c /\ runs[i] = 0 /\ rec[c][i].inc = cmd[c][i].inc
        /\ rec[c][i].st \in {"admitted", "fencing", "terminated"} /\ rec[c][i].st # "terminated"
        /\ work[c] # "destroyed" /\ runs \in [Invocations -> {0, 1}]
    BY <1>1, PairHas DEF Custody, Fields
  <1>3. ASSUME cmd[c][i].inc = proc[c] PROVE Custody'
    <2> DEFINE k == [cmd[c][i] EXCEPT !.st = "running"]
    <2>1. cmd' = [cmd EXCEPT ![c][i] = k] /\ runs' = [runs EXCEPT ![i] = @ + 1]
      BY <1>1, <1>3
    <2>2. k \in Commands /\ k.st = "running" /\ k.inc = cmd[c][i].inc
      BY <1>2 DEF Commands
    <2>3. runs' \in [Invocations -> {0, 1}] /\ runs'[i] = 1 /\ \A j \in Invocations : j # i => runs'[j] = runs[j]
      BY <1>2, <2>1
    <2> HIDE DEF k
    <2> QED BY <1>1, <1>2, <2>1, <2>2, <2>3, CommandStep
  <1>4. ASSUME cmd[c][i].inc # proc[c] PROVE Custody'
    <2>1. cmd' = [cmd EXCEPT ![c][i] = NoCmd] /\ runs' = runs
      BY <1>1, <1>4
    <2> QED BY <1>1, <1>2, <2>1, NoCmdIs, CommandStep
  <1> QED BY <1>3, <1>4

\* The command returns.
LEMMA ReturnKeeps ==
  ASSUME Custody, NEW c \in Containers, NEW i \in Invocations, Return(c, i) PROVE Custody'
  <1>1. PICK v \in Results : cmd' = [cmd EXCEPT ![c][i] = [@ EXCEPT !.st = "done", !.res = v]]
    BY DEF Return
  <1>2. /\ cmd[c][i].st = "running" /\ runs' = runs
        /\ UNCHANGED <<brokerVars, net, answers, ctrlVars, proc, starts, faults>>
    BY DEF Return
  <1>3. /\ cmd[c][i] \in Commands /\ placed[i] = c /\ runs[i] = 1 /\ rec[c][i].inc = cmd[c][i].inc
        /\ rec[c][i].st \in {"admitted", "fencing", "terminated"}
        /\ runs \in [Invocations -> {0, 1}]
    BY <1>2, PairHas DEF Custody, Fields
  <1> DEFINE k == [cmd[c][i] EXCEPT !.st = "done", !.res = v]
  <1>4. k \in Commands /\ k.st = "done" /\ k.inc = cmd[c][i].inc /\ k.res = v
    BY <1>3 DEF Commands
  <1>5. cmd' = [cmd EXCEPT ![c][i] = k]
    BY <1>1
  <1> HIDE DEF k
  <1> QED BY <1>2, <1>3, <1>4, <1>5, CommandStep

\* The result is retained: the record was open under its incarnation.
LEMMA CompletedKeeps ==
  ASSUME Custody, NEW c \in Containers, NEW i \in Invocations, Completed(c, i) PROVE Custody'
  <1> DEFINE v == cmd[c][i].res
             r == Complete(rec[c][i], v)
  <1>1. /\ task[c][i].pc = "executing" /\ cmd[c][i].st = "done"
        /\ rec' = [rec EXCEPT ![c][i] = r] /\ task' = [task EXCEPT ![c][i] = NoTask]
        /\ cmd' = [cmd EXCEPT ![c][i] = NoCmd] /\ answers' = answers \cup Answer(i, "owner", r)
        /\ UNCHANGED <<brokerVars, net, bar, joined, work, proc, starts, faults>> /\ runs' = runs
    BY DEF Completed
  <1>2. /\ rec[c][i] \in Records /\ Valid(rec[c][i]) /\ rec[c][i].inc <= starts[c]
        /\ rec[c][i].st \in {"admitted", "fencing"} /\ placed[i] = c /\ c # Nowhere
        /\ v \in Results /\ runs[i] = 1 /\ starts[c] \in Nat
        /\ rec[c][i].bar # 0 => proc[c] # rec[c][i].inc
    BY <1>1, PairHas
  <1>3. /\ r \in Records /\ r.st = "completed" /\ r.res = v /\ r.inc = rec[c][i].inc
        /\ r.bar = rec[c][i].bar /\ r.fence = rec[c][i].fence
    BY <1>2 DEF Complete, Records, States
  <1>4. Valid(r) /\ Forward(rec[c][i], r) /\ r.inc # 0 /\ r.bar = 0
    <2>1. v # NoResult
      BY <1>2, Distinct
    <2> HIDE DEF r, v
    <2> QED BY <1>2, <1>3, <2>1 DEF Valid, Forward, Final
  <1>5. bar[c].closing => rec[c][i].st = "fencing"
    <2>1. bar[c].closing => rec[c][i].st # "admitted"
      BY DEF Custody, Frozen, FrozenAt
    <2> QED BY <1>2, <2>1
  <1> HIDE DEF r
  <1>6. /\ rec' \in [Containers -> [Invocations -> Records]]
        /\ task' \in [Containers -> [Invocations -> Tasks]]
        /\ cmd' \in [Containers -> [Invocations -> Commands]]
        /\ \A d \in Containers, j \in Invocations :
             /\ rec'[d][j] = IF d = c /\ j = i THEN r ELSE rec[d][j]
             /\ task'[d][j] = IF d = c /\ j = i THEN NoTask ELSE task[d][j]
             /\ cmd'[d][j] = IF d = c /\ j = i THEN NoCmd ELSE cmd[d][j]
    <2>1. /\ rec \in [Containers -> [Invocations -> Records]]
          /\ task \in [Containers -> [Invocations -> Tasks]]
          /\ cmd \in [Containers -> [Invocations -> Commands]]
      BY DEF Custody, Fields
    <2> QED BY <1>1, <1>3, <2>1, NoTaskIs, NoCmdIs, Changed
  <1>7. /\ answers' \in SUBSET Replies
        /\ \A a \in answers' :
             \/ a \in answers
             \/ /\ a.inv \in Invocations /\ placed[a.inv] # Nowhere
                /\ a.rec = rec'[placed[a.inv]][a.inv]
    <2>1. /\ Answer(i, "owner", r) \in SUBSET Replies
          /\ \A a \in Answer(i, "owner", r) : a.inv = i /\ a.rec = r
      BY <1>3, AnswerIs
    <2>2. rec'[c][i] = r /\ answers \in SUBSET Replies
      BY <1>6 DEF Custody, Fields
    <2> QED BY <1>1, <1>2, <2>1, <2>2
  <1>8. /\ runs' \in [Invocations -> {0, 1}] /\ runs'[i] = 1
        /\ \A j \in Invocations : j # i => runs'[j] = runs[j]
    BY <1>1, <1>2 DEF Custody, Fields
  <1>9. NoTask.inc <= starts[c] /\ r.inc <= starts[c] /\ placed[i] = c
    BY <1>2, <1>3, NoTaskIs
  <1>10. bar[c].closing =>
           /\ rec[c][i].st = "fencing" /\ r.st = "completed" /\ r.bar = rec[c][i].bar
           /\ r.inc = rec[c][i].inc /\ r.fence = rec[c][i].fence
    BY <1>3, <1>5
  <1>11. UNCHANGED <<brokerVars, net, bar, joined, work, proc, starts, faults>>
    BY <1>1
  <1>12. PairSteps(c, i, r, NoTask, NoCmd)
    BY <1>3, <1>4, <1>6, <1>7, <1>8, <1>9, <1>10, <1>11, NoTaskIs, NoCmdIs DEF PairSteps
  <1> QED BY <1>12, PairStep

\* The process is gone: a command that has not returned is gone with it.
LEMMA KilledKeeps ==
  ASSUME Custody, NEW c \in Containers, Killed(c),
         UNCHANGED <<brokerVars, net, answers, rec, bar, task, joined>>, faults' \in Nat,
         \/ work' = work
         \/ work[c] = "drained" /\ work' = [work EXCEPT ![c] = "destroyed"]
  PROVE  Custody'
  <1>1. Fields /\ Placed /\ Bound /\ Open /\ Counted /\ Frozen /\ Housed /\ Told
    BY DEF Custody
  <1>2. /\ receipt' = receipt /\ placed' = placed /\ intent' = intent /\ life' = life /\ owner' = owner
        /\ net' = net /\ answers' = answers /\ rec' = rec /\ bar' = bar /\ task' = task
        /\ joined' = joined /\ starts' = starts /\ runs' = runs /\ proc' = [proc EXCEPT ![c] = 0]
    BY DEF Killed, brokerVars
  <1>3. /\ proc' \in [Containers -> Nat] /\ proc'[c] = 0
        /\ \A d \in Containers : proc'[d] = proc[d] \/ proc'[d] = 0
    BY <1>1, <1>2 DEF Fields
  <1>4. /\ cmd' \in [Containers -> [Invocations -> Commands]]
        /\ \A d \in Containers, j \in Invocations :
             /\ cmd'[d][j].st # "none" => cmd'[d][j] = cmd[d][j]
             /\ cmd'[d][j] = cmd[d][j] \/ cmd'[d][j] = NoCmd
        /\ \A j \in Invocations : cmd'[c][j].st \notin {"sent", "running"}
    <2> DEFINE row == [i \in Invocations |-> IF cmd[c][i].st = "done" THEN cmd[c][i] ELSE NoCmd]
    <2>1. cmd' = [cmd EXCEPT ![c] = row]
      BY DEF Killed
    <2>2. cmd \in [Containers -> [Invocations -> Commands]]
      BY <1>1 DEF Fields
    <2>3. /\ row \in [Invocations -> Commands]
          /\ \A j \in Invocations : /\ row[j] = cmd[c][j] \/ row[j] = NoCmd
                                    /\ row[j].st \notin {"sent", "running"}
      BY <2>2, NoCmdIs
    <2> HIDE DEF row
    <2>4. /\ cmd' \in [Containers -> [Invocations -> Commands]] /\ cmd'[c] = row
          /\ \A d \in Containers : d # c => cmd'[d] = cmd[d]
      BY <2>1, <2>2, <2>3
    <2> QED BY <2>3, <2>4, NoCmdIs
  <1>5. /\ work' \in [Containers -> {"idle", "prepared", "drained", "destroyed"}]
        /\ \A d \in Containers : work'[d] = work[d] \/ (d = c /\ work[d] = "drained" /\ work'[d] = "destroyed")
    BY <1>1 DEF Fields
  <1>6. Fields'
    BY <1>1, <1>2, <1>3, <1>4, <1>5 DEF Fields
  <1>7. Placed'
    BY <1>1, <1>2, <1>4 DEF Placed
  <1>8. Bound'
    <2>1. ASSUME NEW d \in Containers, NEW j \in Invocations, rec[d][j].bar # 0
          PROVE  proc'[d] # rec[d][j].inc
      <3>1. Valid(rec[d][j]) /\ proc[d] # rec[d][j].inc
        BY <1>1, <2>1 DEF Bound
      <3>2. rec[d][j].inc # 0
        BY <2>1, <3>1 DEF Valid
      <3> QED BY <1>3, <3>1, <3>2
    <2> QED BY <1>1, <1>2, <2>1 DEF Bound
  <1>9. Open'
    BY <1>1, <1>2, <1>4, OpenKept
  <1>10. Counted'
    BY <1>1, <1>2, <1>4, CountedKept
  <1>11. Frozen'
    BY <1>1, <1>2, FrozenKept
  <1>12. Housed'
    <2>1. ASSUME NEW d \in Containers
          PROVE  /\ proc'[d] <= starts[d]
                 /\ work'[d] # "idle" => bar[d].closing
                 /\ work'[d] \in {"drained", "destroyed"} => Quiet(d, "starting")
                 /\ work'[d] = "destroyed" =>
                      proc'[d] = 0 /\ \A j \in Invocations : cmd'[d][j].st \notin {"sent", "running"}
      <3>1. /\ proc[d] <= starts[d] /\ starts[d] \in Nat /\ proc[d] \in Nat
            /\ work[d] # "idle" => bar[d].closing
            /\ work[d] \in {"drained", "destroyed"} => Quiet(d, "starting")
            /\ work[d] = "destroyed" =>
                 proc[d] = 0 /\ \A j \in Invocations : cmd[d][j].st \notin {"sent", "running"}
        BY <1>1 DEF Housed, Fields
      <3>2. proc'[d] <= starts[d]
        BY <1>3, <3>1
      <3>3. CASE work'[d] = work[d]
        <4>1. ASSUME work[d] = "destroyed", NEW j \in Invocations
              PROVE  cmd'[d][j].st \notin {"sent", "running"}
          BY <1>4, <3>1, <4>1, NoCmdIs
        <4> QED BY <1>3, <3>1, <3>2, <3>3, <4>1
      <3>4. CASE d = c /\ work[d] = "drained" /\ work'[d] = "destroyed"
        BY <1>3, <1>4, <3>1, <3>2, <3>4
      <3> QED BY <1>5, <3>3, <3>4
    <2>2. \A d \in Containers : Quiet(d, "starting")' <=> Quiet(d, "starting")
      BY <1>2 DEF Quiet
    <2> QED BY <1>2, <2>1, <2>2 DEF Housed
  <1>13. Told'
    BY <1>1, <1>2, NothingTold
  <1> QED BY <1>6, <1>7, <1>8, <1>9, <1>10, <1>11, <1>12, <1>13 DEF Custody

\* The container is destroyed by the barrier, or dies.
LEMMA DestroyKeeps ==
  ASSUME Custody, NEW c \in Containers, Destroy(c) \/ Die(c) PROVE Custody'
  <1>1. faults \in Nat
    BY DEF Custody, Fields
  <1>2. /\ Killed(c) /\ UNCHANGED <<brokerVars, net, answers, rec, bar, task, joined>>
        /\ faults' \in Nat
        /\ \/ work' = work
           \/ work[c] = "drained" /\ work' = [work EXCEPT ![c] = "destroyed"]
    BY <1>1 DEF Destroy, Die, ctrlVars
  <1> QED BY <1>2, KilledKeeps

\* The end of a barrier: nothing of the container lives, its targets are
\* proved over, and what awaited the barrier goes on.
LEMMA FinishKeeps == ASSUME Custody, NEW c \in Containers, FinishBarrier(c) PROVE Custody'
  <1>1. Fields /\ Placed /\ Bound /\ Open /\ Counted /\ Frozen /\ Housed /\ Told
    BY DEF Custody
  <1> DEFINE b == Finish(bar[c], rec[c]).barrier
             s == Finish(bar[c], rec[c]).recs
             row == [i \in Invocations |->
                       IF task[c][i].pc = "awaiting"
                         THEN [NoTask EXCEPT !.pc = "starting", !.gen = bar[c].gen] ELSE task[c][i]]
  <1>2. /\ work[c] = "destroyed" /\ \A i \in Invocations : task[c][i].pc # "executing"
        /\ rec' = [rec EXCEPT ![c] = s] /\ bar' = [bar EXCEPT ![c] = b]
        /\ work' = [work EXCEPT ![c] = "idle"] /\ task' = [task EXCEPT ![c] = row]
        /\ answers' = answers \cup UNION {Answer(m.inv, m.to, s[m.inv]) : m \in {n \in joined : n.at = c}}
        /\ joined' = {m \in joined : m.at # c}
    BY DEF FinishBarrier, Quiet
  <1>3. /\ receipt' = receipt /\ placed' = placed /\ intent' = intent /\ life' = life /\ owner' = owner
        /\ net' = net /\ proc' = proc /\ starts' = starts /\ cmd' = cmd /\ runs' = runs
        /\ faults' = faults
    BY DEF FinishBarrier, brokerVars, procVars
  <1>4. /\ bar[c].closing /\ proc[c] = 0
        /\ \A i \in Invocations : cmd[c][i].st \notin {"sent", "running"}
    BY <1>1, <1>2 DEF Housed
  <1>5. /\ b \in Barriers /\ ~b.closing /\ s \in [Invocations -> Records]
        /\ \A i \in Invocations :
             /\ Valid(s[i]) /\ Forward(rec[c][i], s[i]) /\ s[i].inc = rec[c][i].inc
             /\ rec[c][i].st # "fencing" => s[i].st = rec[c][i].st
             /\ rec[c][i].st = "fencing" => s[i].st = "terminated"
             /\ s[i].bar # 0 /\ s[i].bar # rec[c][i].bar => rec[c][i].st \in {"fencing", "completed"}
    <2>1. /\ bar[c] \in Barriers /\ rec[c] \in [Invocations -> Records]
          /\ \A i \in Invocations : Valid(rec[c][i])
          /\ FrozenAt(bar[c], rec[c])
      BY <1>1, <1>4 DEF Fields, Bound, Frozen
    <2> QED BY <1>4, <2>1, Finished
  <1> HIDE DEF b, s
  <1>6. /\ rec' \in [Containers -> [Invocations -> Records]] /\ bar' \in [Containers -> Barriers]
        /\ work' \in [Containers -> {"idle", "prepared", "drained", "destroyed"}]
        /\ rec'[c] = s /\ bar'[c] = b /\ work'[c] = "idle"
        /\ \A d \in Containers : d # c => rec'[d] = rec[d] /\ bar'[d] = bar[d] /\ work'[d] = work[d]
    BY <1>1, <1>2, <1>5 DEF Fields
  <1>7. /\ task' \in [Containers -> [Invocations -> Tasks]]
        /\ \A d \in Containers : d # c => task'[d] = task[d]
        /\ \A i \in Invocations :
             \/ task'[c][i] = task[c][i]
             \/ task[c][i].pc = "awaiting" /\ task'[c][i].pc = "starting" /\ task'[c][i].inc = 0
    <2> DEFINE new == [NoTask EXCEPT !.pc = "starting", !.gen = bar[c].gen]
    <2>1. bar[c].gen \in Nat /\ task \in [Containers -> [Invocations -> Tasks]]
      BY <1>1 DEF Fields, Barriers
    <2>2. new \in Tasks /\ new.pc = "starting" /\ new.inc = 0
      BY <2>1 DEF NoTask, Tasks
    <2>3. row = [i \in Invocations |-> IF task[c][i].pc = "awaiting" THEN new ELSE task[c][i]]
      OBVIOUS
    <2> HIDE DEF new, row
    <2>4. /\ row \in [Invocations -> Tasks]
          /\ \A i \in Invocations : row[i] = IF task[c][i].pc = "awaiting" THEN new ELSE task[c][i]
      BY <2>1, <2>2, <2>3
    <2>5. /\ task' \in [Containers -> [Invocations -> Tasks]] /\ task'[c] = row
          /\ \A d \in Containers : d # c => task'[d] = task[d]
      BY <1>2, <2>1, <2>4
    <2> QED BY <2>2, <2>4, <2>5
  <1> HIDE DEF row
  <1>8. /\ answers' \in SUBSET Replies
        /\ \A a \in answers' :
             \/ a \in answers
             \/ /\ a.inv \in Invocations /\ placed[a.inv] # Nowhere
                /\ a.rec = rec'[placed[a.inv]][a.inv]
    <2>1. ASSUME NEW a \in answers', a \notin answers
          PROVE  /\ a \in Replies /\ a.inv \in Invocations /\ placed[a.inv] # Nowhere
                 /\ a.rec = rec'[placed[a.inv]][a.inv]
      <3>1. PICK m \in joined : m.at = c /\ a \in Answer(m.inv, m.to, s[m.inv])
        BY <1>2, <2>1
      <3>2. /\ m.inv \in Invocations /\ m.to \in {"owner", "call", "reconcile", "gone"}
            /\ placed[m.inv] = c /\ c # Nowhere
        BY <1>1, <3>1, PoolAssumption DEF Fields, Messages, Placed
      <3>3. s[m.inv] \in Records /\ rec'[c][m.inv] = s[m.inv]
        BY <1>5, <1>6, <3>2
      <3>4. a \in Replies /\ a.inv = m.inv /\ a.rec = s[m.inv]
        BY <3>1, <3>2, <3>3, AnswerIs
      <3> QED BY <3>2, <3>3, <3>4
    <2>2. answers \in SUBSET Replies
      BY <1>1 DEF Fields
    <2> QED BY <2>1, <2>2
  <1>9. Fields'
    <2>1. joined' \in SUBSET Messages
      BY <1>1, <1>2 DEF Fields
    <2> QED BY <1>1, <1>3, <1>6, <1>7, <1>8, <2>1 DEF Fields
  <1>10. Placed'
    <2>1. ASSUME NEW d \in Containers, NEW i \in Invocations,
                 rec'[d][i].st # "absent" \/ task'[d][i].pc # "none" \/ cmd[d][i].st # "none"
          PROVE  placed[i] = d
      <3>1. rec[d][i].st # "absent" \/ task[d][i].pc # "none" \/ cmd[d][i].st # "none" => placed[i] = d
        BY <1>1 DEF Placed
      <3>2. CASE d = c
        <4>1. rec'[d][i] = s[i] /\ (rec[c][i].st # "fencing" => s[i].st = rec[c][i].st)
          BY <1>5, <1>6, <3>2
        <4>2. task'[d][i].pc # "none" => task[d][i].pc # "none"
          BY <1>7, <3>2
        <4> QED BY <2>1, <3>1, <3>2, <4>1, <4>2
      <3>3. CASE d # c
        BY <1>6, <1>7, <2>1, <3>1, <3>3
      <3> QED BY <3>2, <3>3
    <2>2. \A m \in net' \cup joined' : placed[m.inv] = m.at /\ (m.op = "fence" => m.fence # NoFence)
      BY <1>1, <1>2, <1>3 DEF Placed
    <2> QED BY <1>3, <2>1, <2>2 DEF Placed
  <1>11. Bound'
    <2>1. ASSUME NEW d \in Containers, NEW i \in Invocations
          PROVE  /\ Valid(rec'[d][i]) /\ rec'[d][i].inc <= starts[d] /\ task'[d][i].inc <= starts[d]
                 /\ task'[d][i].pc \in {"known", "executing"} => task'[d][i].inc # 0
                 /\ rec'[d][i].bar # 0 => proc[d] # rec'[d][i].inc
      <3>1. /\ Valid(rec[d][i]) /\ rec[d][i].inc <= starts[d] /\ task[d][i].inc <= starts[d]
            /\ task[d][i].pc \in {"known", "executing"} => task[d][i].inc # 0
            /\ rec[d][i].bar # 0 => proc[d] # rec[d][i].inc
            /\ starts[d] \in Nat
        BY <1>1 DEF Bound, Fields
      <3>2. CASE d = c
        <4>1. /\ rec'[d][i] = s[i] /\ Valid(s[i]) /\ s[i].inc = rec[d][i].inc
              /\ s[i].bar # 0 /\ s[i].bar # rec[d][i].bar => rec[d][i].st \in {"fencing", "completed"}
          BY <1>5, <1>6, <3>2
        <4>2. /\ task'[d][i].inc <= starts[d]
              /\ task'[d][i].pc \in {"known", "executing"} => task'[d][i].inc # 0
          BY <1>7, <3>1, <3>2
        <4>3. rec[d][i].st \in {"fencing", "completed"} => rec[d][i].inc # 0
          BY <3>1 DEF Valid
        <4> QED BY <1>4, <3>1, <3>2, <4>1, <4>2, <4>3
      <3>3. CASE d # c
        BY <1>6, <1>7, <3>1, <3>3
      <3> QED BY <3>2, <3>3
    <2> QED BY <1>3, <2>1 DEF Bound
  <1>12. Open'
    <2>1. ASSUME NEW d \in Containers, NEW i \in Invocations
          PROVE  /\ task'[d][i].pc = "executing" =>
                      rec'[d][i].st \in {"admitted", "fencing"} /\ rec'[d][i].inc = task'[d][i].inc
                 /\ cmd[d][i].st # "none" =>
                      rec'[d][i].st \in {"admitted", "fencing", "terminated"} /\ rec'[d][i].inc = cmd[d][i].inc
                 /\ cmd[d][i].st \in {"sent", "running"} => rec'[d][i].st # "terminated"
      <3>1. /\ task[d][i].pc = "executing" =>
                 rec[d][i].st \in {"admitted", "fencing"} /\ rec[d][i].inc = task[d][i].inc
            /\ cmd[d][i].st # "none" =>
                 rec[d][i].st \in {"admitted", "fencing", "terminated"} /\ rec[d][i].inc = cmd[d][i].inc
            /\ cmd[d][i].st \in {"sent", "running"} => rec[d][i].st # "terminated"
        BY <1>1 DEF Open
      <3>2. CASE d = c
        <4>1. /\ rec'[d][i] = s[i] /\ s[i].inc = rec[d][i].inc
              /\ rec[d][i].st # "fencing" => s[i].st = rec[d][i].st
              /\ rec[d][i].st = "fencing" => s[i].st = "terminated"
          BY <1>5, <1>6, <3>2
        <4>2. task'[d][i].pc # "executing" /\ cmd[d][i].st \notin {"sent", "running"}
          BY <1>2, <1>4, <1>7, <3>2
        <4> QED BY <3>1, <4>1, <4>2
      <3>3. CASE d # c
        BY <1>6, <1>7, <3>1, <3>3
      <3> QED BY <3>2, <3>3
    <2> QED BY <1>3, <2>1 DEF Open
  <1>13. Counted'
    <2>1. ASSUME NEW d \in Containers, NEW i \in Invocations
          PROVE  /\ rec'[d][i].inc = rec[d][i].inc
                 /\ rec'[d][i].st = "completed" => rec[d][i].st = "completed"
      <3>1. CASE d = c
        <4>1. /\ rec'[d][i] = s[i] /\ s[i].inc = rec[d][i].inc
              /\ rec[d][i].st # "fencing" => s[i].st = rec[d][i].st
              /\ rec[d][i].st = "fencing" => s[i].st = "terminated"
          BY <1>5, <1>6, <3>1
        <4> QED BY <4>1
      <3>2. CASE d # c
        BY <1>6, <3>2
      <3> QED BY <3>1, <3>2
    <2>2. \A i \in Invocations : placed[i] # Nowhere => placed[i] \in Containers
      BY <1>1 DEF Fields
    <2> QED BY <1>1, <1>3, <2>1, <2>2 DEF Counted
  <1>14. Frozen'
    <2>1. ASSUME NEW d \in Containers, bar'[d].closing PROVE FrozenAt(bar'[d], rec'[d])
      <3>1. d # c /\ bar'[d] = bar[d] /\ rec'[d] = rec[d]
        BY <1>5, <1>6, <2>1
      <3> QED BY <1>1, <2>1, <3>1 DEF Frozen
    <2>2. \A d : FrozenAt(bar[d], rec[d])' <=> FrozenAt(bar'[d], rec'[d])
      BY DEF FrozenAt, Targeted
    <2> QED BY <2>1, <2>2 DEF Frozen
  <1>15. Housed'
    <2>1. ASSUME NEW d \in Containers
          PROVE  /\ work'[d] # "idle" => bar'[d].closing
                 /\ work'[d] \in {"drained", "destroyed"} => \A i \in Invocations : task'[d][i].pc # "starting"
                 /\ work'[d] = "destroyed" =>
                      proc[d] = 0 /\ \A i \in Invocations : cmd[d][i].st \notin {"sent", "running"}
      <3>1. CASE d = c
        BY <1>6, <3>1
      <3>2. CASE d # c
        <4>1. work'[d] = work[d] /\ bar'[d] = bar[d] /\ task'[d] = task[d]
          BY <1>6, <1>7, <3>2
        <4> QED BY <1>1, <4>1 DEF Housed, Quiet
      <3> QED BY <3>1, <3>2
    <2>2. \A d \in Containers : proc[d] <= starts[d]
      BY <1>1 DEF Housed
    <2> QED BY <1>3, <2>1, <2>2 DEF Housed, Quiet
  <1>16. Told'
    <2>1. \A d \in Containers, i \in Invocations :
            Valid(rec'[d][i]) /\ Forward(rec[d][i], rec'[d][i])
      <3> TAKE d \in Containers, i \in Invocations
      <3>1. CASE d = c
        BY <1>5, <1>6, <3>1
      <3>2. CASE d # c
        BY <1>1, <1>6, <3>2 DEF Bound, Forward
      <3> QED BY <3>1, <3>2
    <2> QED BY <1>1, <1>3, <1>8, <2>1, ToldKept
  <1> QED BY <1>9, <1>10, <1>11, <1>12, <1>13, <1>14, <1>15, <1>16 DEF Custody

-----------------------------------------------------------------------------
(* The invariant.                                                          *)

\* The invariant holds initially.
LEMMA CustodyInitially == Init => Custody
  <1> SUFFICES ASSUME Init PROVE Custody
    OBVIOUS
  <1> USE DEF Init
  <1>1. /\ Absent \in Records /\ Absent.st = "absent" /\ Absent.inc = 0 /\ Absent.bar = 0
        /\ Absent.res = NoResult
    BY DEF Absent, Records, States
  <1>2. Valid(Absent)
    BY <1>1 DEF Valid
  <1>3. NoBarrier \in Barriers /\ ~NoBarrier.closing
    BY DEF NoBarrier, Barriers
  <1>4. NoReceipt \in Receipts /\ NoReceipt.res = NoResult /\ PendingLife \in Lives
    BY DEF NoReceipt, Receipts, PendingLife, Lives
  <1>5. Fields
    BY <1>1, <1>3, <1>4, NoTaskIs, NoCmdIs DEF Fields
  <1>6. Placed
    BY <1>1, NoTaskIs, NoCmdIs DEF Placed
  <1>7. Bound
    <2>1. \A c \in Containers, i \in Invocations :
            rec[c][i] = Absent /\ task[c][i] = NoTask /\ starts[c] = 0
      OBVIOUS
    <2>2. 0 <= 0
      OBVIOUS
    <2> HIDE DEF Init
    <2> QED BY <1>1, <1>2, <2>1, <2>2, NoTaskIs DEF Bound
  <1>8. Open
    BY NoTaskIs, NoCmdIs DEF Open
  <1>9. Counted
    BY <1>1, NoCmdIs DEF Counted
  <1>10. Frozen /\ Housed
    BY <1>3 DEF Frozen, Housed
  <1>11. Told
    BY <1>4 DEF Told
  <1> QED BY <1>5, <1>6, <1>7, <1>8, <1>9, <1>10, <1>11 DEF Custody

\* Every step preserves the invariant.
LEMMA CustodyKept == ASSUME Custody, [Next]_vars PROVE Custody'
  <1>1. CASE UNCHANGED vars
    <2>1. UNCHANGED <<brokerVars, rec, bar, cmd, runs>> /\ task' = task /\ work' = work
          /\ proc' = proc /\ starts' = starts /\ faults' = faults /\ net' = net
          /\ joined' = joined /\ answers' = answers
      BY <1>1 DEF vars, brokerVars
    <2> QED BY <2>1, Standing, TaskStep DEF Custody, Fields
  <1>2. ASSUME NEW i \in Invocations,
               Claim(i) \/ Refused(i) \/ Recall(i) \/ \E c \in Containers : Place(i, c)
        PROVE  Custody'
    BY <1>2, ClaimKeeps, CallsKeep, PlaceKeeps
  <1>3. ASSUME NEW i \in Invocations, NEW f \in FenceIds, Reconcile(i, f) PROVE Custody'
    BY <1>3, ReconcileKeeps
  <1>4. ASSUME NEW a \in answers, RetainAnswer(a) \/ Observe(a) PROVE Custody'
    BY <1>4, EvidenceKeeps
  <1>5. CASE Receive
    BY <1>5, ReadKeeps, FenceKeeps, DeliverKeeps DEF Receive
  <1>6. ASSUME NEW c \in Containers, NEW i \in Invocations,
               Started(c, i) \/ Handshake(c, i) \/ Admit(c, i) \/ Accept(c, i) \/ Return(c, i)
                 \/ Completed(c, i) \/ Abandon(c, i)
        PROVE  Custody'
    BY <1>6, StartedKeeps, AbandonKeeps, AdmitKeeps, AcceptKeeps, ReturnKeeps, CompletedKeeps
  <1>7. ASSUME NEW c \in Containers, Barrier(c) PROVE Custody'
    BY <1>7, DrainKeeps, DestroyKeeps, FinishKeeps DEF Barrier
  <1>8. CASE Fault
    BY <1>8, CallsKeep, DestroyKeeps, InterruptedKeeps DEF Fault
  <1> QED BY <1>1, <1>2, <1>3, <1>4, <1>5, <1>6, <1>7, <1>8 DEF Next

\* The invariant of all behaviours.
LEMMA CustodyInvariant == Spec => []Custody
  BY CustodyInitially, CustodyKept, PTL DEF Spec

-----------------------------------------------------------------------------
(* The theorems.                                                           *)

\* Records are well-formed and only what can be written is written, whatever
\* is evicted, lost or dies.
THEOREM BrokerTypeCorrect == Spec => []TypeOK
  <1>1. Custody => TypeOK
    <2> SUFFICES ASSUME Custody PROVE TypeOK
      OBVIOUS
    <2>1. Fields /\ \A c \in Containers : \A i \in Invocations : Valid(rec[c][i])
      BY DEF Custody, Bound
    <2>2. \A c \in Containers :
            bar[c].gen \in Nat /\ bar[c].closing \in BOOLEAN /\ Targeted(bar[c]) \subseteq Invocations
      BY <2>1 DEF Fields, Barriers, Targeted
    <2>3. \A c \in Containers : \A i \in Invocations :
            task[c][i].pc \in {"none", "awaiting", "starting", "started", "known", "executing"}
      BY <2>1 DEF Fields, Tasks
    <2>4. runs \in [Invocations -> Nat]
      BY <2>1 DEF Fields
    <2> QED BY <2>1, <2>2, <2>3, <2>4 DEF TypeOK, Fields, Receipts
  <1> QED BY <1>1, CustodyInvariant, PTL

\* A termination proof is physical, for every pool and every interleaving of
\* deliveries, fences, evictions, deaths and interrupted barriers.
THEOREM TerminationIsPhysical == Spec => []ProofIsPhysical
  <1>1. Custody => ProofIsPhysical
    <2> SUFFICES ASSUME Custody, NEW c \in Containers, NEW i \in Invocations, rec[c][i].bar # 0
                 PROVE  proc[c] # rec[c][i].inc /\ cmd[c][i].st \notin {"sent", "running"}
      BY DEF ProofIsPhysical
    <2>1. Valid(rec[c][i]) /\ proc[c] # rec[c][i].inc
      BY PairHas
    <2>2. rec[c][i].st \in {"terminated", "completed"}
      BY <2>1 DEF Valid
    <2>3. cmd[c][i].st \in {"sent", "running"} => rec[c][i].st \in {"admitted", "fencing"}
      BY PairHas
    <2> QED BY <2>1, <2>2, <2>3
  <1> QED BY <1>1, CustodyInvariant, PTL

\* finish_json raises none of its errors: a closing barrier finds its targets
\* as it froze them, and no other execution.
THEOREM BarriersCanFinish == Spec => []BarrierCanFinish
  <1>1. Custody => BarrierCanFinish
    <2> SUFFICES ASSUME Custody, NEW c \in Containers, bar[c].closing PROVE MayFinish(bar[c], rec[c])
      BY DEF BarrierCanFinish
    <2>1. /\ bar[c] \in Barriers /\ rec[c] \in [Invocations -> Records]
          /\ \A i \in Invocations : Valid(rec[c][i])
          /\ FrozenAt(bar[c], rec[c])
      BY DEF Custody, Fields, Bound, Frozen
    <2> QED BY <2>1, Finished
  <1> QED BY <1>1, CustodyInvariant, PTL

\* The conflict errors of exec_resolution and complete_json are never raised:
\* every answer in flight agrees with what the broker retains.
THEOREM EvidenceNeverConflicts == Spec => []EvidenceAgrees
  <1>1. Custody => EvidenceAgrees
    <2> SUFFICES ASSUME Custody PROVE EvidenceAgrees
      OBVIOUS
    <2>1. \A a \in answers : /\ MayRetain(receipt[a.inv], a.rec)
                             /\ MayObserve(receipt[a.inv], life[a.inv], a.rec)
      BY AnswerAgrees
    <2>2. ASSUME NEW c \in Containers, NEW i \in Invocations,
                 task[c][i].pc = "executing" /\ cmd[c][i].st = "done"
          PROVE  MayComplete(rec[c][i], task[c][i].inc, cmd[c][i].res)
      <3>1. rec[c][i].st \in {"admitted", "fencing"} /\ rec[c][i].inc = task[c][i].inc
        BY <2>2, PairHas
      <3> QED BY <3>1 DEF MayComplete
    <2> QED BY <2>1, <2>2 DEF EvidenceAgrees
  <1> QED BY <1>1, CustodyInvariant, PTL

\* What the broker states depends on results and evidence only.
LEMMA OutcomeKept ==
  ASSUME \A i \in Invocations : receipt'[i].res = receipt[i].res /\ life'[i] = life[i]
  PROVE  Outcome' = Outcome
  BY DEF Outcome, OutcomeOf

\* Folding an answer decides the invocation, or changes no statement.
LEMMA OutcomeStep ==
  ASSUME Custody, Custody', NEW a \in answers, RetainAnswer(a) \/ Observe(a)
  PROVE  [Promise!Next]_<<runs, Outcome>>
  <1> DEFINE i == a.inv
             r == rec[placed[i]][i]
             o == OutcomeOf(receipt[i], life[i])
             p == OutcomeOf(receipt'[i], life'[i])
  <1>1. /\ Fields /\ Fields' /\ Told /\ Told' /\ rec' = rec /\ placed' = placed /\ runs' = runs
        /\ receipt' = [receipt EXCEPT ![i] =
                         IF a.rec.st = "completed" THEN [st |-> "completed", res |-> a.rec.res] ELSE @]
    BY DEF Custody, RetainAnswer, Observe, ctrlVars, procVars
  <1>2. life' = life \/ life' = [life EXCEPT ![i] = IF LifeSeen(a.rec) # PendingLife THEN LifeSeen(a.rec) ELSE @]
    BY DEF RetainAnswer, Observe
  <1>3. i \in Invocations /\ placed[i] # Nowhere /\ placed[i] \in Containers /\ Forward(a.rec, r)
    BY <1>1 DEF Told, Fields, Replies
  <1>4. /\ receipt[i].res # NoResult => r.st = "completed" /\ r.res = receipt[i].res
        /\ life[i] # PendingLife =>
             Final(r) /\ LifeSeen(r) = life[i] /\ (r.st = "completed" => receipt[i].res = r.res)
        /\ receipt'[i].res # NoResult => r.st = "completed" /\ r.res = receipt'[i].res
        /\ life'[i] # PendingLife =>
             Final(r) /\ LifeSeen(r) = life'[i] /\ (r.st = "completed" => receipt'[i].res = r.res)
    <2>1. /\ receipt[i].res # NoResult => r.st = "completed" /\ r.res = receipt[i].res
          /\ life[i] # PendingLife =>
               Final(r) /\ LifeSeen(r) = life[i] /\ (r.st = "completed" => receipt[i].res = r.res)
      BY <1>1, <1>3 DEF Told
    <2>2. /\ receipt'[i].res # NoResult =>
               rec'[placed'[i]][i].st = "completed" /\ rec'[placed'[i]][i].res = receipt'[i].res
          /\ life'[i] # PendingLife =>
               /\ Final(rec'[placed'[i]][i]) /\ LifeSeen(rec'[placed'[i]][i]) = life'[i]
               /\ (rec'[placed'[i]][i].st = "completed" => receipt'[i].res = rec'[placed'[i]][i].res)
      BY <1>1, <1>3 DEF Told
    <2> QED BY <1>1, <2>1, <2>2
  <1>5. Valid(r) /\ (r.st = "completed" => runs[i] = 1) /\ (runs[i] = 1 => r.inc # 0) /\ runs[i] \in {0, 1}
    BY <1>3, PairHas
  <1>6. /\ receipt[i].res # NoResult => receipt'[i].res = receipt[i].res
        /\ life[i] # PendingLife => life'[i] = life[i]
    <2>1. /\ receipt'[i].res = IF a.rec.st = "completed" THEN a.rec.res ELSE receipt[i].res
      <3>1. receipt'[i] = IF a.rec.st = "completed" THEN [st |-> "completed", res |-> a.rec.res]
                          ELSE receipt[i]
        BY <1>1, <1>3 DEF Fields
      <3> QED BY <3>1
    <2>2. life'[i] = life[i] \/ (life'[i] = LifeSeen(a.rec) /\ LifeSeen(a.rec) # PendingLife)
      BY <1>1, <1>2, <1>3 DEF Fields
    <2>3. a.rec.st = "completed" => receipt[i].res \in {NoResult, a.rec.res}
      BY AnswerAgrees DEF MayRetain
    <2>4. LifeSeen(a.rec) # PendingLife => life[i] \in {PendingLife, LifeSeen(a.rec)}
      BY AnswerAgrees DEF MayObserve
    <2> HIDE DEF i, r
    <2> QED BY <2>1, <2>2, <2>3, <2>4
  <1>7. \A j \in Invocations : j # i => receipt'[j] = receipt[j] /\ life'[j] = life[j]
    BY <1>1, <1>2, <1>3 DEF Fields
  <1>8. /\ Outcome[i] = o /\ Outcome'[i] = p /\ DOMAIN Outcome = Invocations
        /\ Outcome' = [Outcome EXCEPT ![i] = p]
    BY <1>3, <1>7 DEF Outcome
  <1>9. receipt[i] \in Receipts /\ receipt'[i] \in Receipts /\ life[i] \in Lives /\ life'[i] \in Lives
    BY <1>1, <1>3 DEF Fields
  <1> HIDE DEF r, i
  <1>10. /\ life[i] # PendingLife => life[i].st \in {"not_admitted", "terminated"}
         /\ life'[i] # PendingLife => life'[i].st \in {"not_admitted", "terminated"}
    <2>1. ASSUME LifeSeen(r) # PendingLife PROVE LifeSeen(r).st \in {"not_admitted", "terminated"}
      BY <2>1 DEF LifeSeen
    <2> QED BY <1>4, <2>1
  <1>11. PendingLife.st = "pending"
    BY DEF PendingLife
  <1>12. /\ o.res = receipt[i].res /\ p.res = receipt'[i].res
         /\ o = Promise!Pending <=> receipt[i].res = NoResult /\ life[i] = PendingLife
    BY <1>9, <1>10, <1>11 DEF OutcomeOf, Promise!Pending
  <1>13. CASE o # Promise!Pending
    <2>1. p = o
      <3>1. CASE receipt[i].res # NoResult
        BY <1>6, <3>1 DEF OutcomeOf
      <3>2. CASE receipt[i].res = NoResult
        <4>1. life[i] # PendingLife /\ life'[i] = life[i]
          BY <1>6, <1>12, <1>13, <3>2
        <4>2. receipt'[i].res = NoResult
          BY <1>4, <3>2, <4>1
        <4> QED BY <3>2, <4>1, <4>2 DEF OutcomeOf
      <3> QED BY <3>1, <3>2
    <2>2. Outcome' = Outcome
      <3>1. \A j \in Invocations : Outcome'[j] = Outcome[j]
        BY <1>8, <2>1 DEF Outcome
      <3> QED BY <1>8, <2>1 DEF Outcome
    <2> QED BY <1>1, <2>2
  <1>14. CASE o = Promise!Pending /\ p = Promise!Pending
    <2>1. Outcome' = Outcome
      BY <1>8, <1>14 DEF Outcome
    <2> QED BY <1>1, <2>1
  <1>15. CASE o = Promise!Pending /\ p # Promise!Pending
    <2>1. p \in Promise!Answers
      BY <1>9 DEF OutcomeOf, Promise!Answers, Receipts
    <2>2. p.said = "not_executed" => runs[i] = 0
      <3>1. p.said = "not_executed" => life'[i].st = "not_admitted"
        BY DEF OutcomeOf
      <3>2. life'[i].st = "not_admitted" => LifeSeen(r).st = "not_admitted"
        BY <1>4, <1>11
      <3>3. LifeSeen(r).st = "not_admitted" => r.st = "not_admitted"
        BY <1>5, LifeStated
      <3>4. r.st = "not_admitted" => r.inc = 0
        BY <1>5 DEF Valid
      <3> QED BY <1>5, <3>1, <3>2, <3>3, <3>4
    <2>3. p.said = "completed" => runs[i] = 1
      <3>1. p.said = "completed" => receipt'[i].res # NoResult
        BY DEF OutcomeOf
      <3> QED BY <1>4, <1>5, <3>1
    <2> HIDE DEF o, p
    <2>4. Promise!Decide(i, p)
      BY <1>1, <1>8, <1>15, <2>2, <2>3 DEF Promise!Decide
    <2> QED BY <1>3, <2>1, <2>4 DEF Promise!Next
  <1> QED BY <1>13, <1>14, <1>15

\* A command is accepted by its process while nothing has been said about it.
LEMMA StartStep ==
  ASSUME Custody, NEW c \in Containers, NEW i \in Invocations, Accept(c, i)
  PROVE  [Promise!Next]_<<runs, Outcome>>
  <1>1. Outcome' = Outcome
    BY OutcomeKept DEF Accept, brokerVars
  <1>2. CASE runs' = runs
    BY <1>1, <1>2
  <1>3. CASE runs' # runs
    <2>1. cmd[c][i].st = "sent" /\ runs' = [runs EXCEPT ![i] = @ + 1]
      BY <1>3 DEF Accept
    <2>2. /\ runs[i] = 0 /\ placed[i] = c /\ Valid(rec[c][i]) /\ rec[c][i].st \in {"admitted", "fencing"}
          /\ runs \in [Invocations -> {0, 1}]
      BY <2>1, PairHas DEF Custody, Fields
    <2>3. ~Final(rec[c][i]) /\ rec[c][i].st # "completed"
      BY <2>2 DEF Final, Valid
    <2>4. receipt[i].res = NoResult /\ life[i] = PendingLife
      BY <2>2, <2>3 DEF Custody, Told
    <2>5. Outcome[i] = Promise!Pending
      BY <2>4 DEF Outcome, OutcomeOf, Promise!Pending, PendingLife
    <2>6. Promise!Start(i)
      BY <1>1, <2>1, <2>2, <2>5 DEF Promise!Start
    <2> QED BY <2>6 DEF Promise!Next
  <1> QED BY <1>2, <1>3

\* The broker, its controllers and their containers implement ExecOutcome: a
\* command starts at most once and only before an answer, and what the broker
\* states is true and final.
THEOREM BrokerKeepsPromise == Spec => KeepsPromise
  <1>1. Init => Promise!Init
    <2> SUFFICES ASSUME Init PROVE Promise!Init
      OBVIOUS
    <2>1. \A i \in Invocations : OutcomeOf(receipt[i], life[i]) = Promise!Pending
      BY DEF Init, NoReceipt, PendingLife, OutcomeOf, Promise!Pending
    <2> QED BY <2>1 DEF Init, Outcome, Promise!Init
  <1>2. Custody /\ Custody' /\ [Next]_vars => [Promise!Next]_<<runs, Outcome>>
    <2> SUFFICES ASSUME Custody, Custody', [Next]_vars PROVE [Promise!Next]_<<runs, Outcome>>
      OBVIOUS
    <2>1. ASSUME UNCHANGED <<receipt, life, runs>> PROVE [Promise!Next]_<<runs, Outcome>>
      BY <2>1, OutcomeKept
    <2>2. CASE UNCHANGED vars
      BY <2>1, <2>2 DEF vars
    <2>3. ASSUME NEW i \in Invocations, Claim(i) \/ \E f \in FenceIds : Reconcile(i, f)
          PROVE  [Promise!Next]_<<runs, Outcome>>
      <3>1. receipt \in [Invocations -> Receipts]
        BY DEF Custody, Fields
      <3>2. \A j \in Invocations : receipt'[j].res = receipt[j].res
        BY <2>3, <3>1 DEF Claim, Reconcile, Receipts
      <3>3. life' = life /\ runs' = runs
        BY <2>3 DEF Claim, Reconcile, procVars
      <3> QED BY <3>2, <3>3, OutcomeKept
    <2>4. ASSUME NEW i \in Invocations, Refused(i) \/ Recall(i) \/ \E c \in Containers : Place(i, c)
          PROVE  [Promise!Next]_<<runs, Outcome>>
      BY <2>1, <2>4 DEF Refused, Recall, Place, brokerVars, procVars
    <2>5. CASE Receive
      BY <2>1, <2>5 DEF Receive, ReceiveRead, ReceiveFence, ReceiveDeliver, brokerVars, procVars
    <2>6. ASSUME NEW c \in Containers, NEW i \in Invocations,
                 Started(c, i) \/ Handshake(c, i) \/ Admit(c, i) \/ Return(c, i)
                   \/ Completed(c, i) \/ Abandon(c, i)
          PROVE  [Promise!Next]_<<runs, Outcome>>
      BY <2>1, <2>6 DEF Started, Handshake, Admit, Return, Completed, Abandon, brokerVars, procVars
    <2>7. ASSUME NEW c \in Containers, Barrier(c) PROVE [Promise!Next]_<<runs, Outcome>>
      BY <2>1, <2>7 DEF Barrier, DrainStartups, Destroy, FinishBarrier, Killed, brokerVars, procVars
    <2>8. CASE Fault
      BY <2>1, <2>8 DEF Fault, EvictBroker, Lose, Die, Interrupted, Killed, brokerVars, procVars
    <2> QED BY <2>2, <2>3, <2>4, <2>5, <2>6, <2>7, <2>8, OutcomeStep, StartStep DEF Next
  <1> QED BY <1>1, <1>2, CustodyInvariant, PTL DEF Spec, KeepsPromise, Promise!Spec

=============================================================================
