------------------------- MODULE NativeExecProofs -------------------------
(***************************************************************************)
(* Theorems about NativeExec: its types, its one container, the results it *)
(* keeps, and that it implements ExecOutcome.                              *)
(*                                                                         *)
(* The argument.  Only the owner the authority retained is ever created,   *)
(* and what a host holds of owner and container between two calls is still *)
(* what the authority says (Owned, HostsAgree).  A record settles once:    *)
(* what it says then is never taken back, and no earlier reply that a host *)
(* holds says anything else (Truthful).  While a helper holds the lock its *)
(* record is admitted or fencing under its incarnation, because the one    *)
(* step that could end it, the end of the barrier, waits for the lock      *)
(* (Delivering); this is why a command does not start after its answer and *)
(* why no result is discarded.                                             *)
(***************************************************************************)
EXTENDS NativeExec, TLAPS

Barriers ==
  [gen : Nat, closing : BOOLEAN,
   targets : SUBSET [inv : Invocations, inc : Nat, fence : FenceIds \cup Nat]]

Authorities ==
  [owner : Owners \cup {NoOwner}, cid : Owners \cup {NoOwner}, rec : Records, bar : Barriers]

\* The steps at which a host holds an owner, and those at which it holds a
\* bound container.
Seeking == {"create", "created", "inspect", "bind", "find", "found"}
Holding == {"deliver", "start", "started", "waiting", "remove", "finish"}
HostSteps == {"idle", "claim"} \cup Seeking \cup Holding

\* The steps of a fence, which end with an answer to the workflow.
Fencing == {"find", "found", "remove", "finish"}

\* The steps at which a helper holds the lock.
Answering == {"send", "running", "received"}
HelperSteps == {"none", "handshake", "lock"} \cup Answering
HelperRecords == [pc : HelperSteps, inc : Nat, res : Results \cup {NoResult}]

Conditions == {"none", "created", "running", "exited", "gone"}
Processes == [inc : Nat, consumed : BOOLEAN]
Commands == [st : {"none", "running", "done"}, res : Results \cup {NoResult}]

Fields ==
  /\ auth \in Authorities
  /\ lock \in Hosts \cup {"free"}
  /\ cont \in [Owners -> Conditions]
  /\ creating \in SUBSET Owners
  /\ proc \in Processes
  /\ starts \in Nat
  /\ cmd \in Commands
  /\ host \in [Hosts -> [pc : HostSteps, held : Authorities, candidate : Owners]]
  /\ helper \in [Hosts -> HelperRecords]
  /\ runs \in [Invocations -> {0, 1}]
  /\ verdict \in [Invocations -> Promise!Answers]

\* Nothing exists, or is being created, but for the retained owner.
Owned ==
  /\ auth.cid \in {NoOwner, auth.owner}
  /\ creating \subseteq {auth.owner}
  /\ \A o \in Owners : cont[o] # "none" => o = auth.owner

HostsAgree ==
  \A h \in Hosts :
    /\ host[h].pc \in Seeking => auth.owner # NoOwner /\ host[h].held.owner = auth.owner
    /\ host[h].pc \in Holding => auth.cid # NoOwner /\ host[h].held.cid = auth.cid

\* A process lives in the container that runs, and nowhere else.
Housed == proc.inc # 0 <=> \E o \in Owners : cont[o] = "running"

\* The record is well-formed, and a barrier that closes has a number.
Recorded ==
  /\ Valid(auth.rec)
  /\ auth.bar.closing => auth.bar.gen # 0

\* A helper at the lock has shaken hands with a process; the one that holds
\* the lock is the one whose incarnation was admitted, and its record is open.
Delivering ==
  /\ \A h \in Hosts :
       /\ helper[h].pc \in Answering <=> lock = h
       /\ helper[h].pc = "lock" => helper[h].inc # 0
       /\ helper[h].pc \in Answering =>
            auth.rec.st \in {"admitted", "fencing"} /\ auth.rec.inc = helper[h].inc
       /\ helper[h].pc = "send" => runs[Inv] = 0
       /\ helper[h].pc \in {"running", "received"} => runs[Inv] = 1
       /\ helper[h].pc = "received" => helper[h].res \in Results
  /\ cmd.st = "done" => cmd.res \in Results

\* What the record says was run was run, and what the workflow was told, or a
\* fencing host is about to tell it, is what the record says.
Truthful ==
  /\ auth.rec.st \in {"absent", "not_admitted"} => runs[Inv] = 0
  /\ auth.rec.st = "completed" => runs[Inv] = 1
  /\ verdict[Inv] \in {Promise!Pending, View(auth)}
  /\ \A h \in Hosts :
       host[h].pc \in Fencing => View(host[h].held) \in {Promise!Pending, View(auth)}

Custody == Fields /\ Owned /\ HostsAgree /\ Housed /\ Recorded /\ Delivering /\ Truthful

-----------------------------------------------------------------------------
(* Records, barriers and what they say.                                    *)

\* The authority after the transaction of a fence, and of a barrier's end.
FencedAuth(f) ==
  LET begun == Begin(auth.bar, Recs(Ensured(f)))
  IN [Ensured(f) EXCEPT !.rec = begun.recs[Inv], !.bar = begun.barrier]

FinishedAuth ==
  LET done == Finish(auth.bar, Recs(auth))
  IN [auth EXCEPT !.rec = done.recs[Inv], !.bar = done.barrier]

\* Joining or establishing a fence keeps a record well-formed and closes the
\* ways in: nothing is absent, admitted or completed without a fence after it.
LEMMA FenceEnsured ==
  ASSUME NEW r, Valid(r), NEW f \in FenceIds
  PROVE  /\ Valid(EnsureFence(r, f))
         /\ EnsureFence(r, f).st \notin {"absent", "admitted"}
         /\ EnsureFence(r, f).fence # NoFence
         /\ EnsureFence(r, f).inc = r.inc /\ EnsureFence(r, f).res = r.res
         /\ r.st \in {"admitted", "fencing"} => EnsureFence(r, f).st = "fencing"
         /\ r.st = "absent" => EnsureFence(r, f).st = "not_admitted"
         /\ r.st \in {"not_admitted", "terminated", "completed"} => EnsureFence(r, f).st = r.st
  <1>1. r \in Records /\ f # NoFence /\ f \in FenceIds \cup Nat
    BY Distinct DEF Valid
  <1>2. CASE r.st = "absent"
    <2>1. EnsureFence(r, f) = [r EXCEPT !.st = "not_admitted", !.fence = f]
      BY <1>2 DEF EnsureFence
    <2> QED BY <1>1, <1>2, <2>1 DEF Valid, Records, States
  <1>3. CASE r.st = "admitted"
    <2>1. EnsureFence(r, f) = [r EXCEPT !.st = "fencing", !.fence = f]
      BY <1>3 DEF EnsureFence
    <2> QED BY <1>1, <1>3, <2>1 DEF Valid, Records, States
  <1>4. CASE r.st = "completed" /\ r.fence = NoFence
    <2>1. EnsureFence(r, f) = [r EXCEPT !.fence = f]
      BY <1>4 DEF EnsureFence
    <2> QED BY <1>1, <1>4, <2>1 DEF Valid, Records, States
  <1>5. CASE r.st \notin {"absent", "admitted"} /\ ~(r.st = "completed" /\ r.fence = NoFence)
    <2>1. EnsureFence(r, f) = r
      BY <1>5 DEF EnsureFence
    <2> QED BY <1>1, <1>5, <2>1 DEF Valid, Records, States
  <1> QED BY <1>2, <1>3, <1>4, <1>5

\* What a well-formed record lets an authority say.
LEMMA Says ==
  ASSUME NEW a, Valid(a.rec)
  PROVE  /\ a.rec.st = "completed" => View(a) = [said |-> "completed", res |-> a.rec.res]
         /\ a.rec.st = "not_admitted" => View(a) = [said |-> "not_executed", res |-> NoResult]
         /\ a.rec.st = "terminated" => View(a) = [said |-> "uncertain", res |-> NoResult]
         /\ a.rec.st \in {"absent", "admitted", "fencing"} => View(a) = Promise!Pending
         /\ View(a) \in Promise!Answers
         /\ View(a).said = "pending" <=> View(a) = Promise!Pending
         /\ a.rec.st \in States
  <1>1. a.rec.st \in States /\ a.rec.res \in Results \cup {NoResult}
    BY DEF Valid, Records
  <1>2. CASE a.rec.st = "completed"
    <2>1. a.rec.res \in Results /\ a.rec.res # NoResult
      BY <1>1, <1>2 DEF Valid
    <2>2. View(a) = [said |-> "completed", res |-> a.rec.res]
      BY <2>1 DEF View, OutcomeOf
    <2> QED BY <1>1, <1>2, <2>1, <2>2 DEF Promise!Pending, Promise!Answers
  <1>3. CASE a.rec.st = "not_admitted"
    BY <1>1, <1>3 DEF Valid, View, OutcomeOf, LifeSeen, PendingLife, Promise!Pending, Promise!Answers
  <1>4. CASE a.rec.st = "terminated"
    BY <1>1, <1>4 DEF Valid, View, OutcomeOf, LifeSeen, PendingLife, Promise!Pending, Promise!Answers
  <1>5. CASE a.rec.st \in {"absent", "admitted", "fencing"}
    BY <1>1, <1>5 DEF Valid, View, OutcomeOf, LifeSeen, PendingLife, Promise!Pending, Promise!Answers
  <1> QED BY <1>1, <1>2, <1>3, <1>4, <1>5 DEF States

\* The transaction of a fence writes the ensured record and a barrier with a
\* number over it.
LEMMA FenceWrites ==
  ASSUME Fields, Recorded, NEW f \in FenceIds
  PROVE  /\ FencedAuth(f) \in Authorities
         /\ FencedAuth(f).rec = EnsureFence(auth.rec, f)
         /\ FencedAuth(f).bar.closing => FencedAuth(f).bar.gen # 0
         /\ FencedAuth(f).owner = auth.owner /\ FencedAuth(f).cid = auth.cid
  <1> DEFINE r == EnsureFence(auth.rec, f)
             recs == Recs(Ensured(f))
             g == auth.bar.gen + 1
             targets == {[inv |-> i, inc |-> recs[i].inc, fence |-> recs[i].fence] :
                            i \in {j \in Invocations : PendingFence(recs[j])}}
             b == [gen |-> g, closing |-> TRUE, targets |-> targets]
  <1>1. auth \in Authorities /\ Valid(auth.rec)
    BY DEF Fields, Recorded
  <1>2. /\ Valid(r) /\ r.st # "admitted" /\ r.fence # NoFence
        /\ r \in Records
    BY <1>1, FenceEnsured DEF Valid
  <1>3. Ensured(f) = [auth EXCEPT !.rec = r] /\ Ensured(f).rec = r
    BY <1>1 DEF Ensured, Authorities
  <1>4. recs = [i \in Invocations |-> r]
    BY <1>3 DEF Recs
  <1>5. FencedBy(g, recs) = recs
    BY <1>2, <1>4 DEF FencedBy
  <1>6. /\ Begin(auth.bar, recs).recs = recs
        /\ Begin(auth.bar, recs).barrier \in {auth.bar, b}
    BY <1>5 DEF Begin
  <1>7. Inv \in Invocations
    BY NativeAssumption
  <1>8. targets \in SUBSET [inv : Invocations, inc : Nat, fence : FenceIds \cup Nat]
    BY <1>2, <1>4 DEF Records
  <1>9. b \in Barriers /\ b.gen # 0 /\ auth.bar \in Barriers
    BY <1>1, <1>8 DEF Barriers, Authorities
  <1>10. FencedAuth(f) = [auth EXCEPT !.rec = r, !.bar = Begin(auth.bar, recs).barrier]
    BY <1>1, <1>3, <1>4, <1>6, <1>7 DEF FencedAuth, Authorities
  <1>11. /\ FencedAuth(f).rec = r /\ FencedAuth(f).bar \in {auth.bar, b}
         /\ FencedAuth(f).owner = auth.owner /\ FencedAuth(f).cid = auth.cid
    BY <1>1, <1>6, <1>10 DEF Authorities
  <1>12. FencedAuth(f) \in Authorities
    BY <1>1, <1>2, <1>6, <1>9, <1>10 DEF Authorities
  <1> QED BY <1>9, <1>11, <1>12 DEF Recorded

\* The end of a barrier keeps the record well-formed, terminates a record that
\* was fencing, and leaves what any other one says.
LEMMA FinishWrites ==
  ASSUME Fields, Recorded, MayFinish(auth.bar, Recs(auth))
  PROVE  /\ FinishedAuth \in Authorities
         /\ Valid(FinishedAuth.rec)
         /\ ~FinishedAuth.bar.closing
         /\ FinishedAuth.owner = auth.owner /\ FinishedAuth.cid = auth.cid
         /\ FinishedAuth.rec.res = auth.rec.res /\ FinishedAuth.rec.inc = auth.rec.inc
         /\ auth.rec.st = "fencing" => FinishedAuth.rec.st \in {"fencing", "terminated"}
         /\ auth.rec.st # "fencing" => FinishedAuth.rec.st = auth.rec.st
  <1> DEFINE b == auth.bar
             r == auth.rec
             done == Finish(b, Recs(auth))
  <1>1. auth \in Authorities /\ Valid(r) /\ b \in Barriers /\ r \in Records
    BY DEF Fields, Recorded, Authorities
  <1>2. Inv \in Invocations /\ Recs(auth)[Inv] = r
    BY NativeAssumption DEF Recs
  <1>3. done.barrier = [b EXCEPT !.closing = FALSE] /\ done.barrier \in Barriers /\ ~done.barrier.closing
    BY <1>1 DEF Finish, Barriers
  <1>4. CASE Inv \notin Targeted(b)
    <2>1. done.recs[Inv] = r
      BY <1>2, <1>4 DEF Finish
    <2>2. FinishedAuth = [auth EXCEPT !.rec = r, !.bar = done.barrier]
      BY <2>1 DEF FinishedAuth
    <2> QED BY <1>1, <1>3, <2>2 DEF Authorities
  <1>5. CASE Inv \in Targeted(b)
    <2> DEFINE t == TargetOf(b, Inv)
               new == [r EXCEPT !.st = IF @ = "fencing" THEN "terminated" ELSE @,
                                !.fence = t.fence, !.bar = b.gen]
    <2>1. t \in b.targets /\ t.inv = Inv
      BY <1>5 DEF TargetOf, Targeted
    <2>2. t.fence \in FenceIds \cup Nat /\ t.fence # NoFence /\ b.gen \in Nat
      BY <1>1, <2>1, Distinct DEF Barriers
    <2>3. done.recs[Inv] = new
      BY <1>2, <1>5 DEF Finish
    <2>4. /\ r.inc = t.inc
          /\ \/ b.closing /\ r.st = "fencing" /\ r.fence = t.fence
             \/ b.closing /\ r.st = "completed" /\ r.fence \in {NoFence, t.fence} /\ r.bar = 0
             \/ ~b.closing /\ r.st \in {"terminated", "completed"}
                           /\ r.fence = t.fence /\ r.bar = b.gen
      BY <1>2, <2>1 DEF MayFinish
    <2>5. /\ new.st = (IF r.st = "fencing" THEN "terminated" ELSE r.st)
          /\ new.fence = t.fence /\ new.bar = b.gen /\ new.inc = r.inc /\ new.res = r.res
          /\ new \in Records
      BY <1>1, <2>2 DEF Records, States
    <2>6. Valid(new)
      BY <1>1, <2>2, <2>4, <2>5 DEF Valid, Recorded
    <2>7. FinishedAuth = [auth EXCEPT !.rec = new, !.bar = done.barrier]
      BY <2>3 DEF FinishedAuth
    <2>8. /\ FinishedAuth.rec = new /\ FinishedAuth.bar = done.barrier
          /\ FinishedAuth.owner = auth.owner /\ FinishedAuth.cid = auth.cid
          /\ FinishedAuth \in Authorities
      BY <1>1, <1>3, <2>5, <2>7 DEF Authorities
    <2> QED BY <1>3, <2>4, <2>5, <2>6, <2>8
  <1> QED BY <1>4, <1>5

-----------------------------------------------------------------------------
(* The invariant, part by part.                                            *)

\* No authority, no container and no host at work at the start.
LEMMA CustodyInitially == Init => Custody
  <1> SUFFICES ASSUME Init PROVE Custody
    OBVIOUS
  <1>1. Absent \in Records /\ Valid(Absent)
    BY Distinct DEF Absent, Records, Valid, States
  <1>2. NoAuthority \in Authorities /\ NoAuthority.rec = Absent /\ ~NoAuthority.bar.closing
    BY <1>1 DEF NoAuthority, Authorities, Barriers, NoBarrier
  <1>3. PICK o \in Candidates :
          host = [h \in Hosts |-> [pc |-> "idle", held |-> NoAuthority, candidate |-> o[h]]]
    BY DEF Init
  <1>4. \A h \in Hosts : host[h].pc = "idle" /\ o[h] \in Owners
    BY <1>3, NativeAssumption
  <1>5. host \in [Hosts -> [pc : HostSteps, held : Authorities, candidate : Owners]]
    BY <1>2, <1>3, <1>4 DEF HostSteps
  <1>6. helper \in [Hosts -> HelperRecords]
        /\ \A h \in Hosts : helper[h].pc = "none"
    BY DEF Init, NoHelper, HelperSteps, HelperRecords
  <1>7. verdict = [i \in Invocations |-> Promise!Pending] /\ Promise!Pending \in Promise!Answers
    BY DEF Init, OutcomeOf, Absent, PendingLife, Promise!Pending, Promise!Answers
  <1>8. Fields
    BY <1>2, <1>5, <1>6, <1>7 DEF Init, Fields, NoProcess, NoCmd, Conditions, Processes, Commands
  <1>9. Inv \in Invocations /\ Absent.st = "absent"
    BY NativeAssumption DEF Absent
  <1>10. Owned /\ Housed
    BY DEF Init, Owned, Housed, NoAuthority, NoProcess
  <1>11. HostsAgree
    BY <1>4 DEF HostsAgree, Seeking, Holding
  <1>12. Recorded
    BY <1>1, <1>2 DEF Init, Recorded
  <1>13. Delivering
    BY <1>6, NativeAssumption DEF Init, Delivering, Answering, NoCmd
  <1>14. Truthful
    BY <1>2, <1>4, <1>7, <1>9 DEF Init, Truthful, Fencing
  <1> QED BY <1>8, <1>10, <1>11, <1>12, <1>13, <1>14 DEF Custody

\* A host's move changes that host alone.
LEMMA Moved ==
  ASSUME Fields, NEW h \in Hosts, NEW pc \in HostSteps, NEW held \in Authorities, Goes(h, pc, held)
  PROVE  /\ host' \in [Hosts -> [pc : HostSteps, held : Authorities, candidate : Owners]]
         /\ host'[h].pc = pc /\ host'[h].held = held
         /\ \A g \in Hosts : g # h => host'[g] = host[g]
  <1> DEFINE new == [host[h] EXCEPT !.pc = pc, !.held = held]
  <1>1. host \in [Hosts -> [pc : HostSteps, held : Authorities, candidate : Owners]]
    BY DEF Fields
  <1>2. /\ new \in [pc : HostSteps, held : Authorities, candidate : Owners]
        /\ new.pc = pc /\ new.held = held
    BY <1>1
  <1>3. host' = [host EXCEPT ![h] = new]
    BY <1>1 DEF Goes
  <1> HIDE DEF new
  <1> QED BY <1>1, <1>2, <1>3

HelperGoes(h, x) == helper' = [helper EXCEPT ![h] = x]
HelperAt(h, pc) == HelperGoes(h, [helper[h] EXCEPT !.pc = pc])
HelperShakes(h) == HelperGoes(h, [helper[h] EXCEPT !.pc = "lock", !.inc = proc.inc])
HelperGets(h) == HelperGoes(h, [helper[h] EXCEPT !.pc = "received", !.res = cmd.res])

\* A helper's move changes that helper alone.
LEMMA HelperMoved ==
  ASSUME Fields, NEW h \in Hosts, NEW x \in HelperRecords, HelperGoes(h, x)
  PROVE  /\ helper' \in [Hosts -> HelperRecords]
         /\ helper'[h] = x
         /\ \A g \in Hosts : g # h => helper'[g] = helper[g]
  BY DEF Fields, HelperGoes

\* Where a helper's move takes it.
LEMMA HelperMoves ==
  ASSUME Fields, NEW h \in Hosts
  PROVE  /\ HelperGoes(h, NoHelper) =>
              /\ helper' \in [Hosts -> HelperRecords] /\ helper'[h].pc = "none"
              /\ \A g \in Hosts : g # h => helper'[g] = helper[g]
         /\ \A pc \in HelperSteps : HelperAt(h, pc) =>
              /\ helper' \in [Hosts -> HelperRecords]
              /\ helper'[h].pc = pc /\ helper'[h].inc = helper[h].inc
              /\ \A g \in Hosts : g # h => helper'[g] = helper[g]
         /\ HelperShakes(h) =>
              /\ helper' \in [Hosts -> HelperRecords]
              /\ helper'[h].pc = "lock" /\ helper'[h].inc = proc.inc
              /\ \A g \in Hosts : g # h => helper'[g] = helper[g]
         /\ HelperGets(h) =>
              /\ helper' \in [Hosts -> HelperRecords]
              /\ helper'[h].pc = "received" /\ helper'[h].inc = helper[h].inc /\ helper'[h].res = cmd.res
              /\ \A g \in Hosts : g # h => helper'[g] = helper[g]
  <1>1. helper[h] \in HelperRecords /\ proc.inc \in Nat /\ cmd.res \in Results \cup {NoResult}
    BY DEF Fields, Processes, Commands
  <1>2. NoHelper \in HelperRecords /\ NoHelper.pc = "none"
    BY DEF NoHelper, HelperRecords, HelperSteps
  <1>3. ASSUME NEW pc \in HelperSteps, HelperAt(h, pc)
        PROVE  /\ helper' \in [Hosts -> HelperRecords]
               /\ helper'[h].pc = pc /\ helper'[h].inc = helper[h].inc
               /\ \A g \in Hosts : g # h => helper'[g] = helper[g]
    <2> DEFINE x == [helper[h] EXCEPT !.pc = pc]
    <2>1. x \in HelperRecords /\ x.pc = pc /\ x.inc = helper[h].inc
      BY <1>1 DEF HelperRecords
    <2>2. HelperGoes(h, x)
      BY <1>3 DEF HelperAt
    <2> HIDE DEF x
    <2> QED BY <2>1, <2>2, HelperMoved
  <1>4. ASSUME HelperShakes(h)
        PROVE  /\ helper' \in [Hosts -> HelperRecords]
               /\ helper'[h].pc = "lock" /\ helper'[h].inc = proc.inc
               /\ \A g \in Hosts : g # h => helper'[g] = helper[g]
    <2> DEFINE x == [helper[h] EXCEPT !.pc = "lock", !.inc = proc.inc]
    <2>1. x \in HelperRecords /\ x.pc = "lock" /\ x.inc = proc.inc
      BY <1>1 DEF HelperRecords, HelperSteps
    <2>2. HelperGoes(h, x)
      BY <1>4 DEF HelperShakes
    <2> HIDE DEF x
    <2> QED BY <2>1, <2>2, HelperMoved
  <1>5. ASSUME HelperGets(h)
        PROVE  /\ helper' \in [Hosts -> HelperRecords]
               /\ helper'[h].pc = "received" /\ helper'[h].inc = helper[h].inc /\ helper'[h].res = cmd.res
               /\ \A g \in Hosts : g # h => helper'[g] = helper[g]
    <2> DEFINE x == [helper[h] EXCEPT !.pc = "received", !.res = cmd.res]
    <2>1. x \in HelperRecords /\ x.pc = "received" /\ x.inc = helper[h].inc /\ x.res = cmd.res
      BY <1>1 DEF HelperRecords, HelperSteps, Answering
    <2>2. HelperGoes(h, x)
      BY <1>5 DEF HelperGets
    <2> HIDE DEF x
    <2> QED BY <2>1, <2>2, HelperMoved
  <1>6. ASSUME HelperGoes(h, NoHelper)
        PROVE  /\ helper' \in [Hosts -> HelperRecords] /\ helper'[h].pc = "none"
               /\ \A g \in Hosts : g # h => helper'[g] = helper[g]
    BY <1>2, <1>6, HelperMoved
  <1> QED BY <1>3, <1>4, <1>5, <1>6

\* The steps of a helper, as moves of its record.
LEMMA HelperWrites ==
  ASSUME Fields, NEW h \in Hosts
  PROVE  /\ SendHelper(h) => \/ UNCHANGED helper
                             \/ HelperAt(h, "handshake")
         /\ Handshake(h) =>
              \/ HelperGoes(h, NoHelper)
              \/ /\ HelperShakes(h)
                 /\ proc.inc # 0
         /\ Admit(h) =>
              \/ HelperGoes(h, NoHelper)
              \/ HelperAt(h, "send")
         /\ Accept(h) =>
              \/ HelperGoes(h, NoHelper)
              \/ HelperAt(h, "running")
         /\ Receive(h) =>
              HelperGets(h)
         /\ CompleteDelivery(h) \/ TransportFails(h) \/ HelperKilled(h) =>
              HelperGoes(h, NoHelper)
  <1>1. helper \in [Hosts -> HelperRecords] /\ helper[h] \in HelperRecords
    BY DEF Fields
  <1>2. SendHelper(h) => \/ UNCHANGED helper
                         \/ HelperAt(h, "handshake")
    BY DEF SendHelper, HelperAt, HelperGoes
  <1>3. Handshake(h) =>
              \/ HelperGoes(h, NoHelper)
              \/ /\ HelperShakes(h)
                 /\ proc.inc # 0
    BY DEF Handshake, HelperShakes, HelperGoes
  <1>4. Admit(h) =>
              \/ HelperGoes(h, NoHelper)
              \/ HelperAt(h, "send")
    BY DEF Admit, HelperAt, HelperGoes
  <1>5. Accept(h) =>
              \/ HelperGoes(h, NoHelper)
              \/ HelperAt(h, "running")
    BY DEF Accept, HelperAt, HelperGoes
  <1>6. Receive(h) =>
              HelperGets(h)
    BY DEF Receive, HelperGets, HelperGoes
  <1> QED BY <1>2, <1>3, <1>4, <1>5, <1>6 DEF CompleteDelivery, TransportFails, HelperKilled, HelperGoes

\* No step of a helper leaves its vocabulary.
LEMMA HelpersTyped ==
  ASSUME Fields, NEW h \in Hosts,
         SendHelper(h) \/ Helps(h) \/ HelperKilled(h)
  PROVE  helper' \in [Hosts -> HelperRecords]
  <1>1. {"handshake", "lock", "send", "running", "received"} \subseteq HelperSteps
    BY DEF HelperSteps, Answering
  <1>2. CASE SendHelper(h)
    BY <1>1, <1>2, HelperWrites, HelperMoves DEF Fields
  <1>3. CASE Handshake(h)
    BY <1>3, HelperWrites, HelperMoves
  <1>4. CASE Admit(h) \/ Accept(h)
    BY <1>1, <1>4, HelperWrites, HelperMoves
  <1>5. CASE Receive(h)
    BY <1>5, HelperWrites, HelperMoves
  <1>6. CASE CompleteDelivery(h) \/ TransportFails(h) \/ HelperKilled(h)
    BY <1>6, HelperWrites, HelperMoves
  <1> QED BY <1>2, <1>3, <1>4, <1>5, <1>6 DEF Helps

\* Types are preserved, as long as every record is well-formed.
LEMMA FieldsKept ==
  Custody /\ [Next]_vars => Fields'
  <1> SUFFICES ASSUME Fields, HostsAgree, Recorded, Delivering, Truthful, Next PROVE Fields'
    BY DEF Custody, vars, Fields, dockerVars
  <1>n. NoAuthority \in Authorities
    BY Distinct DEF NoAuthority, Authorities, Barriers, NoBarrier, Absent, Records, States
  <1>i. Inv \in Invocations
    BY NativeAssumption
  <1>a. auth \in Authorities /\ \A h \in Hosts : host[h].held \in Authorities /\ host[h].candidate \in Owners
    BY DEF Fields
  <1>h. "idle" \in HostSteps /\ "claim" \in HostSteps /\ Seeking \subseteq HostSteps /\ Holding \subseteq HostSteps
    BY DEF HostSteps
  <1>1. ASSUME NEW h \in Hosts, Prepare(h) PROVE Fields'
    <2>1. PICK pc \in {"claim", "inspect", "deliver"} : Goes(h, pc, auth)
      BY <1>1 DEF Prepare
    <2>2. pc \in HostSteps
      BY DEF HostSteps, Seeking, Holding
    <2> QED BY <1>1, <1>a, <2>1, <2>2, Moved DEF Prepare, Fields, dockerVars
  <1>2. ASSUME NEW h \in Hosts, Claim(h) PROVE Fields'
    <2>1. auth' \in Authorities
      BY <1>2, <1>a DEF Claim, Authorities
    <2>2. PICK pc \in {"create", "inspect", "idle"}, held \in {auth', NoAuthority} : Goes(h, pc, held)
      BY <1>2 DEF Claim
    <2>3. pc \in HostSteps /\ held \in Authorities
      BY <1>n, <2>1 DEF HostSteps, Seeking
    <2> QED BY <1>2, <2>1, <2>2, <2>3, Moved DEF Claim, Fields, dockerVars
  <1>3. ASSUME NEW h \in Hosts, Create(h) PROVE Fields'
    <2>1. host[h].held.owner \in Owners
      BY <1>3, <1>a, NativeAssumption DEF Create, HostsAgree, Seeking, Authorities
    <2>2. "created" \in HostSteps
      BY DEF HostSteps, Seeking
    <2> QED BY <1>3, <1>a, <2>1, <2>2, Moved DEF Create, Fields
  <1>4. ASSUME NEW h \in Hosts, Inspect(h) PROVE Fields'
    <2>1. PICK pc \in {"bind", "idle"}, held \in {host[h].held, NoAuthority} : Goes(h, pc, held)
      BY <1>4 DEF Inspect
    <2>2. pc \in HostSteps
      BY DEF HostSteps, Seeking
    <2> QED BY <1>4, <1>a, <1>n, <2>1, <2>2, Moved DEF Inspect, Fields, dockerVars
  <1>5. ASSUME NEW h \in Hosts, Bind(h) \/ BindFound(h) PROVE Fields'
    <2>1. auth' \in Authorities
      BY <1>5, <1>a DEF Bind, BindFound, Bound, Authorities
    <2>2. PICK pc \in {"deliver", "idle", "remove"} : Goes(h, pc, auth')
      BY <1>5 DEF Bind, BindFound
    <2>3. pc \in HostSteps
      BY DEF HostSteps, Holding
    <2> QED BY <1>5, <2>1, <2>2, <2>3, Moved DEF Bind, BindFound, Fields, dockerVars
  <1>6. ASSUME NEW h \in Hosts, Deliver(h) PROVE Fields'
    <2>1. PICK pc \in {"start", "idle"}, held \in {auth, NoAuthority} : Goes(h, pc, held)
      BY <1>6 DEF Deliver
    <2>2. pc \in HostSteps
      BY DEF HostSteps, Holding
    <2> QED BY <1>6, <1>a, <1>n, <2>1, <2>2, Moved DEF Deliver, Fields, dockerVars
  <1>7. ASSUME NEW h \in Hosts, Start(h) PROVE Fields'
    <2>1. PICK pc \in {"started", "idle"}, held \in {host[h].held, NoAuthority} : Goes(h, pc, held)
      BY <1>7 DEF Start
    <2>2. pc \in HostSteps
      BY DEF HostSteps, Holding
    <2>3. /\ cont' \in [Owners -> Conditions]
          /\ proc' \in Processes /\ starts' \in Nat
      <3>1. CASE UNCHANGED <<cont, proc, starts>>
        BY <3>1 DEF Fields
      <3>2. CASE /\ cont' = [cont EXCEPT ![host[h].held.cid] = "running"]
                 /\ starts' = starts + 1
                 /\ proc' = [inc |-> starts + 1, consumed |-> FALSE]
        <4>1. cont' \in [Owners -> Conditions]
          BY <3>2 DEF Fields, Conditions
        <4>2. starts' \in Nat /\ proc' \in Processes
          BY <3>2 DEF Fields, Processes
        <4> QED BY <4>1, <4>2
      <3> QED BY <1>7, <3>1, <3>2 DEF Start
    <2> QED BY <1>7, <1>a, <1>n, <2>1, <2>2, <2>3, Moved DEF Start, Fields
  <1>8. ASSUME NEW h \in Hosts, SendHelper(h) PROVE Fields'
    <2>1. PICK pc \in {"waiting", "idle"}, held \in {auth, NoAuthority} : Goes(h, pc, held)
      BY <1>8 DEF SendHelper
    <2>2. pc \in HostSteps
      BY DEF HostSteps, Holding
    <2>3. helper' \in [Hosts -> HelperRecords]
      BY <1>8, HelpersTyped DEF Helps
    <2> QED BY <1>8, <1>a, <1>n, <2>1, <2>2, <2>3, Moved DEF SendHelper, Fields, dockerVars
  <1>9. ASSUME NEW h \in Hosts, Handshake(h) \/ Receive(h) PROVE Fields'
    <2>1. helper' \in [Hosts -> HelperRecords]
      BY <1>9, HelpersTyped DEF Helps
    <2> QED BY <1>9, <2>1 DEF Handshake, Receive, Fields, dockerVars
  <1>10. ASSUME NEW h \in Hosts, Admit(h) PROVE Fields'
    <2>1. helper' \in [Hosts -> HelperRecords]
      BY <1>10, HelpersTyped DEF Helps
    <2>2. Admitted(helper[h].inc) \in Records
      BY DEF Fields, HelperRecords, Admitted, Absent, Records, States
    <2>3. auth' \in Authorities
      BY <1>10, <1>a, <2>2 DEF Admit, Authorities
    <2> QED BY <1>10, <2>1, <2>3 DEF Admit, Fields, dockerVars
  <1>11. ASSUME NEW h \in Hosts, Accept(h) PROVE Fields'
    <2>1. helper' \in [Hosts -> HelperRecords]
      BY <1>11, HelpersTyped DEF Helps
    <2>2. runs' \in [Invocations -> {0, 1}]
      <3>1. runs' = runs \/ (runs[Inv] = 0 /\ runs' = [runs EXCEPT ![Inv] = 0 + 1])
        BY <1>11 DEF Accept, Delivering
      <3> QED BY <1>i, <3>1 DEF Fields
    <2>3. proc' \in Processes /\ lock' \in Hosts \cup {"free"}
          /\ cmd' \in Commands
      <3>1. proc' = proc \/ proc' = [proc EXCEPT !.consumed = TRUE]
        BY <1>11 DEF Accept
      <3>2. cmd' = cmd \/ cmd' = [st |-> "running", res |-> NoResult]
        BY <1>11 DEF Accept, NoCmd
      <3>3. proc' \in Processes
        BY <3>1 DEF Fields, Processes
      <3>4. cmd' \in Commands
        BY <3>2 DEF Fields, Commands
      <3> QED BY <1>11, <3>3, <3>4 DEF Accept, Fields
    <2> QED BY <1>11, <2>1, <2>2, <2>3 DEF Accept, Fields
  <1>12. ASSUME NEW h \in Hosts, CompleteDelivery(h) PROVE Fields'
    <2>1. helper' \in [Hosts -> HelperRecords]
      BY <1>12, HelpersTyped DEF Helps
    <2>2. Complete(auth.rec, helper[h].res) \in Records
      BY <1>a DEF Complete, Fields, HelperRecords, Records, States, Authorities
    <2>3. auth' \in Authorities
      BY <1>12, <1>a, <2>2 DEF CompleteDelivery, Authorities
    <2> QED BY <1>12, <2>1, <2>3 DEF CompleteDelivery, Fields, dockerVars
  <1>13. ASSUME NEW h \in Hosts, TransportFails(h) \/ HelperKilled(h) PROVE Fields'
    <2>1. helper' \in [Hosts -> HelperRecords]
      BY <1>13, HelpersTyped DEF Helps
    <2> QED BY <1>13, <2>1 DEF TransportFails, HelperKilled, Fields, dockerVars
  <1>14. ASSUME NEW h \in Hosts, HelperAnswers(h) \/ HostCrash(h) PROVE Fields'
    <2>1. Goes(h, "idle", NoAuthority)
      BY <1>14 DEF HelperAnswers, HostCrash
    <2> QED BY <1>14, <1>n, <1>h, <2>1, Moved DEF HelperAnswers, HostCrash, Fields, dockerVars
  <1>t. ASSUME NEW a, Tell(a), View(a) \in Promise!Answers PROVE verdict' \in [Invocations -> Promise!Answers]
    BY <1>t, <1>i DEF Tell, Fields
  <1>v. View(auth) \in Promise!Answers /\ Promise!Pending \in Promise!Answers
    BY Says DEF Recorded, Promise!Pending, Promise!Answers
  <1>15. ASSUME NEW h \in Hosts, NEW f \in FenceIds, Fence(h, f) PROVE Fields'
    <2>1. auth' = FencedAuth(f)
      BY <1>15 DEF Fence, FencedAuth
    <2>2. auth' \in Authorities /\ Valid(auth'.rec)
      BY <2>1, FenceWrites, FenceEnsured DEF Recorded
    <2>3. View(auth') \in Promise!Answers
      BY <2>2, Says
    <2>4. PICK pc \in {"idle", "find", "remove"}, held \in {auth', NoAuthority} : Goes(h, pc, held)
      BY <1>15, <2>1 DEF Fence, FencedAuth
    <2>5. pc \in HostSteps
      BY DEF HostSteps, Seeking, Holding
    <2>6. Tell(auth') \/ UNCHANGED verdict
      BY <1>15, <2>1 DEF Fence, FencedAuth
    <2>7. verdict' \in [Invocations -> Promise!Answers]
      BY <1>t, <2>3, <2>6 DEF Fields
    <2> QED BY <1>15, <1>n, <2>2, <2>4, <2>5, <2>7, Moved DEF Fence, Fields, dockerVars
  <1>16. ASSUME NEW h \in Hosts, Find(h) PROVE Fields'
    <2>1. PICK pc \in {"idle", "found"}, held \in {host[h].held, NoAuthority} : Goes(h, pc, held)
      BY <1>16 DEF Find
    <2>2. pc \in HostSteps
      BY DEF HostSteps, Seeking
    <2>3. View(host[h].held) \in Promise!Answers
      BY <1>16, <1>v DEF Find, Truthful, Fencing
    <2>4. verdict' \in [Invocations -> Promise!Answers]
      BY <1>16, <1>t, <2>3 DEF Find, Fields
    <2> QED BY <1>16, <1>a, <1>n, <2>1, <2>2, <2>4, Moved DEF Find, Fields, dockerVars
  <1>k. Killed => proc' \in Processes /\ cmd' \in Commands
    BY DEF Killed, NoProcess, NoCmd, Fields, Processes, Commands
  <1>17. ASSUME NEW h \in Hosts, Remove(h) PROVE Fields'
    <2>1. "finish" \in HostSteps
      BY DEF HostSteps, Holding
    <2>2. /\ cont' \in [Owners -> Conditions]
          /\ proc' \in Processes
          /\ cmd' \in Commands
      BY <1>17, <1>k DEF Remove, Fields, Conditions
    <2> QED BY <1>17, <1>a, <2>1, <2>2, Moved DEF Remove, Fields
  <1>18. ASSUME NEW h \in Hosts, FinishFence(h) PROVE Fields'
    <2>1. Goes(h, "idle", NoAuthority)
      BY <1>18 DEF FinishFence
    <2>2. auth' \in Authorities /\ verdict' \in [Invocations -> Promise!Answers]
      <3>1. CASE host[h].held.bar.closing
        <4>1. MayFinish(auth.bar, Recs(auth)) /\ auth' = FinishedAuth /\ Tell(auth')
          BY <1>18, <3>1 DEF FinishFence, FinishedAuth
        <4>2. auth' \in Authorities /\ View(auth') \in Promise!Answers
          BY <4>1, FinishWrites, Says
        <4> QED BY <1>t, <4>1, <4>2
      <3>2. CASE ~host[h].held.bar.closing
        <4>1. Tell(host[h].held) /\ UNCHANGED auth
          BY <1>18, <3>2 DEF FinishFence
        <4>2. View(host[h].held) \in Promise!Answers
          BY <1>18, <1>v DEF FinishFence, Truthful, Fencing
        <4> QED BY <1>a, <1>t, <4>1, <4>2
      <3> QED BY <3>1, <3>2
    <2> QED BY <1>18, <1>n, <1>h, <2>1, <2>2, Moved DEF FinishFence, Fields, dockerVars
  <1>19. ASSUME NEW o \in Owners, DaemonCreates(o) \/ ContainerExits(o) PROVE Fields'
    BY <1>19, <1>k DEF DaemonCreates, ContainerExits, Fields, Conditions
  <1>20. ASSUME NEW v \in Results, Return(v) PROVE Fields'
    BY <1>20 DEF Return, Fields, dockerVars, Commands
  <1> QED
    BY <1>1, <1>2, <1>3, <1>4, <1>5, <1>6, <1>7, <1>8, <1>9, <1>10, <1>11, <1>12, <1>13,
       <1>14, <1>15, <1>16, <1>17, <1>18, <1>19, <1>20 DEF Next, Works, Helps

\* An owner, once retained, and a container, once bound, are for good.
LEMMA OwnerStays ==
  ASSUME Custody, [Next]_vars
  PROVE  /\ auth.owner # NoOwner => auth'.owner = auth.owner
         /\ auth.cid # NoOwner => auth'.cid = auth.cid
         /\ auth'.cid \in {NoOwner, auth'.owner}
  <1> USE DEF Custody
  <1>a. auth \in Authorities
    BY DEF Fields
  <1>1. ASSUME NEW h \in Hosts, Claim(h)
        PROVE  /\ auth.owner # NoOwner => auth'.owner = auth.owner
               /\ auth'.cid = auth.cid
               /\ auth.cid # NoOwner => auth'.owner = auth.owner
    BY <1>1, <1>a DEF Claim, Owned, Authorities
  <1>2. ASSUME NEW h \in Hosts, Bind(h) \/ BindFound(h)
        PROVE  auth'.owner = auth.owner /\ auth'.cid = auth.owner
    BY <1>2, <1>a DEF Bind, BindFound, Bound, HostsAgree, Seeking, Authorities
  <1>3. ASSUME NEW h \in Hosts, Admit(h) \/ CompleteDelivery(h)
        PROVE  auth'.owner = auth.owner /\ auth'.cid = auth.cid
    BY <1>3, <1>a DEF Admit, CompleteDelivery, Authorities
  <1>4. ASSUME NEW h \in Hosts, NEW f \in FenceIds, Fence(h, f)
        PROVE  auth'.owner = auth.owner /\ auth'.cid = auth.cid
    <2>1. auth' = FencedAuth(f)
      BY <1>4 DEF Fence, FencedAuth
    <2> QED BY <2>1, FenceWrites
  <1>5. ASSUME NEW h \in Hosts, FinishFence(h)
        PROVE  auth'.owner = auth.owner /\ auth'.cid = auth.cid
    <2>1. auth' = auth \/ (auth' = FinishedAuth /\ MayFinish(auth.bar, Recs(auth)))
      BY <1>5 DEF FinishFence, FinishedAuth
    <2> QED BY <2>1, FinishWrites
  <1>6. ASSUME \/ UNCHANGED vars
               \/ \E h \in Hosts :
                    \/ Prepare(h) \/ Create(h) \/ Inspect(h) \/ Deliver(h) \/ Start(h)
                    \/ SendHelper(h) \/ HelperAnswers(h) \/ Find(h) \/ Remove(h)
                    \/ Handshake(h) \/ Accept(h) \/ Receive(h) \/ TransportFails(h)
                    \/ HostCrash(h) \/ HelperKilled(h)
               \/ \E o \in Owners : DaemonCreates(o) \/ ContainerExits(o)
               \/ \E v \in Results : Return(v)
        PROVE  UNCHANGED auth
    BY <1>6 DEF vars, Prepare, Create, Inspect, Deliver, Start, SendHelper, HelperAnswers, Find, Remove,
                Handshake, Accept, Receive, TransportFails, HostCrash, HelperKilled,
                DaemonCreates, ContainerExits, Return
  <1> QED BY <1>1, <1>2, <1>3, <1>4, <1>5, <1>6 DEF Next, Works, Helps, Owned

\* The containers stay the owner's.
LEMMA OwnedKept == Custody /\ [Next]_vars => Owned'
  <1> SUFFICES ASSUME Custody, [Next]_vars PROVE Owned'
    OBVIOUS
  <1> USE DEF Custody
  <1>a. /\ auth.owner # NoOwner => auth'.owner = auth.owner
        /\ auth'.cid \in {NoOwner, auth'.owner}
    BY OwnerStays
  <1>o. \A o \in Owners : o # NoOwner
    BY NativeAssumption
  <1>1. ASSUME NEW h \in Hosts, Create(h) PROVE Owned'
    BY <1>1, <1>a DEF Create, Owned, HostsAgree, Seeking
  <1>2. ASSUME NEW o \in Owners, DaemonCreates(o) \/ ContainerExits(o) PROVE Owned'
    BY <1>2, <1>a, <1>o DEF DaemonCreates, ContainerExits, Owned, Fields
  <1>3. ASSUME NEW h \in Hosts, Start(h) \/ Remove(h) PROVE Owned'
    <2>1. host[h].held.cid = auth.cid /\ auth.cid # NoOwner /\ auth.cid = auth.owner
      BY <1>3 DEF Start, Remove, HostsAgree, Holding, Owned
    <2>2. UNCHANGED <<auth, creating>>
      BY <1>3 DEF Start, Remove
    <2>3. \A o \in Owners : o # auth.cid => cont'[o] = cont[o]
      BY <1>3, <2>1 DEF Start, Remove, Fields
    <2> QED BY <2>1, <2>2, <2>3 DEF Owned
  <1>4. ASSUME UNCHANGED <<cont, creating>> PROVE Owned'
    <2>1. CASE auth.owner # NoOwner
      BY <1>4, <1>a, <2>1 DEF Owned
    <2>2. CASE auth.owner = NoOwner
      <3>1. creating = {} /\ \A o \in Owners : cont[o] = "none"
        BY <1>o, <2>2 DEF Owned, Fields
      <3> QED BY <1>4, <1>a, <3>1 DEF Owned
    <2> QED BY <2>1, <2>2
  <1>5. ASSUME \/ UNCHANGED vars
               \/ \E h \in Hosts :
                    \/ Prepare(h) \/ Claim(h) \/ Inspect(h) \/ Bind(h) \/ Deliver(h)
                    \/ SendHelper(h) \/ HelperAnswers(h) \/ Find(h) \/ BindFound(h) \/ FinishFence(h)
                    \/ Helps(h) \/ (\E f \in FenceIds : Fence(h, f))
                    \/ HostCrash(h) \/ HelperKilled(h)
               \/ \E v \in Results : Return(v)
        PROVE  UNCHANGED <<cont, creating>>
    BY <1>5 DEF vars, dockerVars, Prepare, Claim, Inspect, Bind, Deliver, SendHelper, HelperAnswers, Find,
                BindFound, FinishFence, Helps, Handshake, Admit, Accept, Receive, CompleteDelivery,
                TransportFails, Fence, HostCrash, HelperKilled, Return
  <1> QED BY <1>1, <1>2, <1>3, <1>4, <1>5 DEF Next, Works

\* A process goes with its container.
LEMMA HousedKept == Custody /\ [Next]_vars => Housed'
  <1> SUFFICES ASSUME Custody, [Next]_vars PROVE Housed'
    OBVIOUS
  <1> USE DEF Custody
  <1>k. Killed => proc'.inc = 0
    BY DEF Killed, NoProcess
  <1>1. ASSUME NEW h \in Hosts, Start(h) PROVE Housed'
    <2>1. CASE UNCHANGED <<cont, proc>>
      BY <2>1 DEF Housed
    <2>2. CASE /\ cont' = [cont EXCEPT ![host[h].held.cid] = "running"]
               /\ proc' = [inc |-> starts + 1, consumed |-> FALSE]
      <3>1. host[h].held.cid = auth.cid /\ auth.cid # NoOwner
        BY <1>1 DEF Start, HostsAgree, Holding
      <3>2. host[h].held.cid \in Owners /\ starts \in Nat
        BY <3>1 DEF Fields, Authorities
      <3>3. cont'[host[h].held.cid] = "running" /\ proc'.inc # 0
        BY <2>2, <3>2 DEF Fields
      <3> QED BY <3>2, <3>3 DEF Housed
    <2> QED BY <1>1, <2>1, <2>2 DEF Start
  <1>2. ASSUME NEW h \in Hosts, Remove(h) PROVE Housed'
    <2>1. host[h].held.cid = auth.cid /\ auth.cid = auth.owner
      BY <1>2 DEF Remove, HostsAgree, Holding, Owned
    <2>2. CASE UNCHANGED <<cont, proc>>
      BY <2>2 DEF Housed
    <2>3. CASE cont' = [cont EXCEPT ![host[h].held.cid] = "gone"] /\ Killed
      <3>1. \A o \in Owners : cont'[o] # "running"
        BY <2>1, <2>3 DEF Owned, Fields
      <3> QED BY <1>k, <2>3, <3>1 DEF Housed
    <2> QED BY <1>2, <2>2, <2>3 DEF Remove
  <1>3. ASSUME NEW o \in Owners, DaemonCreates(o) PROVE Housed'
    <2>1. \A p \in Owners : cont'[p] = "running" <=> cont[p] = "running"
      BY <1>3 DEF DaemonCreates, Fields
    <2> QED BY <1>3, <2>1 DEF DaemonCreates, Housed
  <1>4. ASSUME NEW o \in Owners, ContainerExits(o) PROVE Housed'
    <2>1. \A p \in Owners : cont'[p] # "running"
      BY <1>4 DEF ContainerExits, Owned, Fields
    <2> QED BY <1>4, <1>k, <2>1 DEF ContainerExits, Housed
  <1>5. ASSUME NEW h \in Hosts, Accept(h) PROVE Housed'
    <2>1. proc'.inc = proc.inc /\ cont' = cont
      BY <1>5 DEF Accept, Fields, Processes
    <2> QED BY <2>1 DEF Housed
  <1>6. ASSUME \/ UNCHANGED vars
               \/ \E h \in Hosts :
                    \/ Prepare(h) \/ Claim(h) \/ Create(h) \/ Inspect(h) \/ Bind(h) \/ Deliver(h)
                    \/ SendHelper(h) \/ HelperAnswers(h) \/ Find(h) \/ BindFound(h) \/ FinishFence(h)
                    \/ Handshake(h) \/ Admit(h) \/ Receive(h) \/ CompleteDelivery(h) \/ TransportFails(h)
                    \/ (\E f \in FenceIds : Fence(h, f)) \/ HostCrash(h) \/ HelperKilled(h)
               \/ \E v \in Results : Return(v)
        PROVE  UNCHANGED <<cont, proc>>
    BY <1>6 DEF vars, dockerVars, Prepare, Claim, Create, Inspect, Bind, Deliver, SendHelper, HelperAnswers,
                Find, BindFound, FinishFence, Handshake, Admit, Receive, CompleteDelivery,
                TransportFails, Fence, HostCrash, HelperKilled, Return
  <1>7. UNCHANGED <<cont, proc>> => Housed'
    BY DEF Housed
  <1> QED BY <1>1, <1>2, <1>3, <1>4, <1>5, <1>6, <1>7 DEF Next, Works, Helps

\* What a host holds stays what the authority says.
LEMMA HostsAgreeKept == Custody /\ [Next]_vars => HostsAgree'
  <1> SUFFICES ASSUME Custody, [Next]_vars PROVE HostsAgree'
    OBVIOUS
  <1> USE DEF Custody
  <1> DEFINE Agrees(g) ==
        /\ host'[g].pc \in Seeking => auth'.owner # NoOwner /\ host'[g].held.owner = auth'.owner
        /\ host'[g].pc \in Holding => auth'.cid # NoOwner /\ host'[g].held.cid = auth'.cid
  <1>a. /\ auth.owner # NoOwner => auth'.owner = auth.owner
        /\ auth.cid # NoOwner => auth'.cid = auth.cid
        /\ auth.cid \in {NoOwner, auth.owner}
    BY OwnerStays DEF Owned
  <1>n. NoAuthority \in Authorities /\ auth' \in Authorities /\ auth \in Authorities
    BY Distinct, FieldsKept DEF Fields, NoAuthority, Authorities, Barriers, NoBarrier, Absent, Records, States
  <1>h. \A h \in Hosts : host[h].held \in Authorities
    BY DEF Fields
  <1>s. \A g \in Hosts : host'[g] = host[g] => Agrees(g)
    BY <1>a DEF HostsAgree
  <1>i. ASSUME NEW h \in Hosts, Goes(h, "idle", NoAuthority) PROVE HostsAgree'
    <2>1. Agrees(h)
      BY <1>i, <1>n, Moved DEF HostSteps, Seeking, Holding
    <2> QED BY <1>i, <1>n, <1>s, <2>1, Moved DEF HostsAgree, HostSteps
  <1>m. ASSUME NEW h \in Hosts, NEW pc \in HostSteps, NEW held \in Authorities, Goes(h, pc, held),
               pc \in Seeking => auth'.owner # NoOwner /\ held.owner = auth'.owner,
               pc \in Holding => auth'.cid # NoOwner /\ held.cid = auth'.cid
        PROVE  HostsAgree'
    <2>1. Agrees(h)
      BY <1>m, Moved
    <2> QED BY <1>m, <1>s, <2>1, Moved DEF HostsAgree
  <1>p. /\ {"idle", "claim"} \cap (Seeking \cup Holding) = {} /\ Seeking \cap Holding = {}
        /\ {"idle", "claim"} \cup Seeking \cup Holding \subseteq HostSteps
    BY DEF Seeking, Holding, HostSteps
  <1>1. ASSUME NEW h \in Hosts, Prepare(h) PROVE HostsAgree'
    <2>1. UNCHANGED auth
      BY <1>1 DEF Prepare
    <2>2. \/ Goes(h, "claim", auth)
          \/ Goes(h, "inspect", auth) /\ auth.owner # NoOwner
          \/ Goes(h, "deliver", auth) /\ auth.cid # NoOwner
      BY <1>1, <1>a DEF Prepare
    <2>3. "inspect" \in Seeking /\ "deliver" \in Holding
      BY DEF Seeking, Holding
    <2> QED BY <1>m, <1>n, <1>p, <2>1, <2>2, <2>3
  <1>2. ASSUME NEW h \in Hosts, Claim(h) PROVE HostsAgree'
    <2>1. \/ Goes(h, "create", auth') /\ auth'.owner = host[h].candidate
          \/ Goes(h, "inspect", auth') /\ auth' = auth /\ auth.owner = host[h].candidate
          \/ Goes(h, "idle", NoAuthority)
      BY <1>2, <1>n DEF Claim, Authorities
    <2>2. host[h].candidate # NoOwner
      BY NativeAssumption DEF Fields
    <2>3. "inspect" \in Seeking /\ "create" \in Seeking
      BY DEF Seeking
    <2> QED BY <1>i, <1>m, <1>n, <1>p, <2>1, <2>2, <2>3
  <1>3. ASSUME NEW h \in Hosts, Create(h) \/ Inspect(h) PROVE HostsAgree'
    <2>1. UNCHANGED auth /\ host[h].pc \in Seeking
      BY <1>3 DEF Create, Inspect, Seeking
    <2>2. \/ Goes(h, "created", host[h].held)
          \/ Goes(h, "bind", host[h].held)
          \/ Goes(h, "idle", NoAuthority)
      BY <1>3 DEF Create, Inspect
    <2>3. "created" \in Seeking /\ "bind" \in Seeking
      BY DEF Seeking
    <2> QED BY <1>h, <1>i, <1>m, <1>p, <2>1, <2>2, <2>3 DEF HostsAgree
  <1>4. ASSUME NEW h \in Hosts, Bind(h) \/ BindFound(h) PROVE HostsAgree'
    <2>1. \/ Goes(h, "deliver", auth')
          \/ Goes(h, "remove", auth')
          \/ Goes(h, "idle", auth')
      BY <1>4 DEF Bind, BindFound
    <2>2. host[h].held.owner = auth.owner /\ auth.owner # NoOwner
      BY <1>4 DEF Bind, BindFound, HostsAgree, Seeking
    <2>3. auth'.cid = host[h].held.owner
      BY <1>4, <1>n DEF Bind, BindFound, Bound, Authorities
    <2>4. "deliver" \in Holding /\ "remove" \in Holding
      BY DEF Holding
    <2> QED BY <1>m, <1>n, <1>p, <2>1, <2>2, <2>3, <2>4
  <1>5. ASSUME NEW h \in Hosts, Deliver(h) \/ SendHelper(h) PROVE HostsAgree'
    <2>1. UNCHANGED auth /\ auth.cid # NoOwner
      BY <1>5 DEF Deliver, SendHelper, HostsAgree, Holding
    <2>2. \/ Goes(h, "start", auth)
          \/ Goes(h, "waiting", auth)
          \/ Goes(h, "idle", NoAuthority)
      BY <1>5 DEF Deliver, SendHelper
    <2>3. "start" \in Holding /\ "waiting" \in Holding
      BY DEF Holding
    <2> QED BY <1>i, <1>m, <1>n, <1>p, <2>1, <2>2, <2>3
  <1>6. ASSUME NEW h \in Hosts, Start(h) \/ Remove(h) PROVE HostsAgree'
    <2>1. UNCHANGED auth /\ host[h].pc \in Holding
      BY <1>6 DEF Start, Remove, Holding
    <2>2. \/ Goes(h, "started", host[h].held)
          \/ Goes(h, "finish", host[h].held)
          \/ Goes(h, "idle", NoAuthority)
      BY <1>6 DEF Start, Remove
    <2>3. "started" \in Holding /\ "finish" \in Holding
      BY DEF Holding
    <2> QED BY <1>h, <1>i, <1>m, <1>p, <2>1, <2>2, <2>3 DEF HostsAgree
  <1>7. ASSUME NEW h \in Hosts, NEW f \in FenceIds, Fence(h, f) PROVE HostsAgree'
    <2>1. \/ Goes(h, "idle", NoAuthority)
          \/ Goes(h, "find", auth') /\ auth'.owner # NoOwner
          \/ Goes(h, "remove", auth') /\ auth'.cid # NoOwner
      BY <1>7 DEF Fence
    <2>2. "find" \in Seeking /\ "remove" \in Holding
      BY DEF Seeking, Holding
    <2> QED BY <1>i, <1>m, <1>n, <1>p, <2>1, <2>2
  <1>8. ASSUME NEW h \in Hosts, Find(h) PROVE HostsAgree'
    <2>1. UNCHANGED auth /\ host[h].pc \in Seeking
      BY <1>8 DEF Find, Seeking
    <2>2. Goes(h, "found", host[h].held) \/ Goes(h, "idle", NoAuthority)
      BY <1>8 DEF Find
    <2>3. "found" \in Seeking
      BY DEF Seeking
    <2> QED BY <1>h, <1>i, <1>m, <1>p, <2>1, <2>2, <2>3 DEF HostsAgree
  <1>9. ASSUME NEW h \in Hosts, HelperAnswers(h) \/ FinishFence(h) \/ HostCrash(h) PROVE HostsAgree'
    BY <1>9, <1>i DEF HelperAnswers, FinishFence, HostCrash
  <1>10. ASSUME \/ UNCHANGED vars
                \/ \E h \in Hosts : Helps(h) \/ HelperKilled(h)
                \/ \E o \in Owners : DaemonCreates(o) \/ ContainerExits(o)
                \/ \E v \in Results : Return(v)
         PROVE  HostsAgree'
    <2>1. UNCHANGED host
      BY <1>10 DEF vars, Helps, Handshake, Admit, Accept, Receive, CompleteDelivery, TransportFails,
                   HelperKilled, DaemonCreates, ContainerExits, Return
    <2> QED BY <1>s, <2>1 DEF HostsAgree
  <1> QED
    BY <1>1, <1>2, <1>3, <1>4, <1>5, <1>6, <1>7, <1>8, <1>9, <1>10 DEF Next, Works

\* How a step may change the record: not at all, by an admission, a completion
\* or a fence, or by the end of the barrier while nobody holds the lock.
RecordStep ==
  \/ auth'.rec = auth.rec /\ auth'.bar = auth.bar
  \/ \E h \in Hosts :
       /\ helper[h].pc = "lock" /\ auth.rec.st = "absent"
       /\ auth'.rec = Admitted(helper[h].inc) /\ auth'.bar = auth.bar
       /\ Admit(h)
  \/ \E h \in Hosts :
       /\ helper[h].pc = "received" /\ auth.rec.st \in {"admitted", "fencing"}
       /\ auth'.rec = Complete(auth.rec, helper[h].res) /\ auth'.bar = auth.bar
       /\ CompleteDelivery(h)
  \/ \E h \in Hosts, f \in FenceIds : auth' = FencedAuth(f) /\ Fence(h, f)
  \/ \E h \in Hosts : /\ lock = "free" /\ MayFinish(auth.bar, Recs(auth))
                      /\ auth' = FinishedAuth /\ FinishFence(h)

\* Every step does to the custody record what RecordStep allows.
LEMMA RecordSteps == ASSUME Custody, [Next]_vars PROVE RecordStep
  <1> USE DEF Custody
  <1>a. auth \in Authorities
    BY DEF Fields
  <1>1. ASSUME NEW h \in Hosts, Claim(h) \/ Bind(h) \/ BindFound(h) PROVE RecordStep
    <2>1. auth'.rec = auth.rec /\ auth'.bar = auth.bar
      BY <1>1, <1>a DEF Claim, Bind, BindFound, Bound, Authorities
    <2> QED BY <2>1 DEF RecordStep
  <1>2. ASSUME NEW h \in Hosts, Admit(h) PROVE RecordStep
    <2>1. \/ auth' = auth
          \/ auth.rec.st = "absent" /\ auth' = [auth EXCEPT !.rec = Admitted(helper[h].inc)]
      BY <1>2 DEF Admit, Admits
    <2> QED BY <1>2, <1>a, <2>1 DEF RecordStep, Admit, Authorities
  <1>3. ASSUME NEW h \in Hosts, CompleteDelivery(h) PROVE RecordStep
    <2>1. \/ auth' = auth
          \/ auth' = [auth EXCEPT !.rec = Complete(auth.rec, helper[h].res)]
      BY <1>3 DEF CompleteDelivery
    <2>2. helper[h].pc = "received" /\ auth.rec.st \in {"admitted", "fencing"}
      BY <1>3 DEF CompleteDelivery, Delivering, Answering
    <2> QED BY <1>3, <1>a, <2>1, <2>2 DEF RecordStep, Authorities
  <1>4. ASSUME NEW h \in Hosts, NEW f \in FenceIds, Fence(h, f) PROVE RecordStep
    <2>1. auth' = FencedAuth(f)
      BY <1>4 DEF Fence, FencedAuth
    <2> QED BY <1>4, <2>1 DEF RecordStep
  <1>5. ASSUME NEW h \in Hosts, FinishFence(h) PROVE RecordStep
    <2>1. auth' = auth \/ (auth' = FinishedAuth /\ MayFinish(auth.bar, Recs(auth)) /\ lock = "free")
      BY <1>5 DEF FinishFence, FinishedAuth
    <2> QED BY <1>5, <2>1 DEF RecordStep
  <1>6. ASSUME \/ UNCHANGED vars
               \/ \E h \in Hosts :
                    \/ Prepare(h) \/ Create(h) \/ Inspect(h) \/ Deliver(h) \/ Start(h)
                    \/ SendHelper(h) \/ HelperAnswers(h) \/ Find(h) \/ Remove(h)
                    \/ Handshake(h) \/ Accept(h) \/ Receive(h) \/ TransportFails(h)
                    \/ HostCrash(h) \/ HelperKilled(h)
               \/ \E o \in Owners : DaemonCreates(o) \/ ContainerExits(o)
               \/ \E v \in Results : Return(v)
        PROVE  UNCHANGED auth
    BY <1>6 DEF vars, Prepare, Create, Inspect, Deliver, Start, SendHelper, HelperAnswers, Find, Remove,
                Handshake, Accept, Receive, TransportFails, HostCrash, HelperKilled,
                DaemonCreates, ContainerExits, Return
  <1>7. UNCHANGED auth => RecordStep
    BY DEF RecordStep
  <1> QED BY <1>1, <1>2, <1>3, <1>4, <1>5, <1>6, <1>7 DEF Next, Works, Helps

\* The record stays well-formed; what it says, once it says something, it says
\* for good; and an open record stays open unless the lock is free or its
\* holder completes.
LEMMA RecordKept ==
  ASSUME Custody, [Next]_vars
  PROVE  /\ Recorded'
         /\ View(auth) # Promise!Pending => View(auth') = View(auth)
         /\ auth.rec.st \in {"admitted", "fencing"} =>
              /\ auth'.rec.inc = auth.rec.inc
              /\ \/ auth'.rec.st \in {"admitted", "fencing"}
                 \/ lock = "free" /\ auth'.rec.st = "terminated"
                 \/ /\ auth'.rec.st = "completed"
                    /\ \E h \in Hosts : helper[h].pc = "received" /\ CompleteDelivery(h)
         /\ auth'.rec.st \in {"absent", "not_admitted"} => auth.rec.st \in {"absent", "not_admitted"}
         /\ auth'.rec.st = "completed" =>
              auth.rec.st = "completed" \/ \E h \in Hosts : helper[h].pc = "received"
  <1> USE DEF Custody
  <1>a. auth \in Authorities /\ Valid(auth.rec) /\ auth.rec \in Records
    BY DEF Fields, Recorded, Valid
  <1>1. CASE auth'.rec = auth.rec /\ auth'.bar = auth.bar
    <2>1. View(auth') = View(auth)
      BY <1>1 DEF View
    <2> QED BY <1>1, <2>1 DEF Recorded
  <1>2. ASSUME NEW h \in Hosts, helper[h].pc = "lock", auth.rec.st = "absent",
               auth'.rec = Admitted(helper[h].inc), auth'.bar = auth.bar
        PROVE  /\ Recorded' /\ auth'.rec.st = "admitted" /\ View(auth) = Promise!Pending
    <2>1. helper[h].inc # 0 /\ helper[h].inc \in Nat
      BY <1>2 DEF Delivering, Fields, HelperRecords
    <2>2. Valid(Admitted(helper[h].inc)) /\ Admitted(helper[h].inc).st = "admitted"
      BY <2>1, Distinct DEF Admitted, Absent, Valid, Records, States
    <2> QED BY <1>2, <1>a, <2>2, Says DEF Recorded
  <1>3. ASSUME NEW h \in Hosts, helper[h].pc = "received", auth.rec.st \in {"admitted", "fencing"},
               auth'.rec = Complete(auth.rec, helper[h].res), auth'.bar = auth.bar
        PROVE  /\ Recorded' /\ auth'.rec.st = "completed" /\ View(auth) = Promise!Pending
               /\ auth'.rec.inc = auth.rec.inc
    <2>1. helper[h].res \in Results
      BY <1>3 DEF Delivering
    <2>2. /\ auth'.rec \in Records /\ auth'.rec.st = "completed" /\ auth'.rec.res = helper[h].res
          /\ auth'.rec.inc = auth.rec.inc /\ auth'.rec.bar = auth.rec.bar
          /\ auth'.rec.fence = auth.rec.fence
      BY <1>3, <1>a, <2>1 DEF Complete, Records, States
    <2>3. Valid(auth'.rec)
      BY <1>3, <1>a, <2>1, <2>2, Distinct DEF Valid
    <2> QED BY <1>3, <1>a, <2>2, <2>3, Says DEF Recorded
  <1>4. ASSUME NEW f \in FenceIds, auth' = FencedAuth(f)
        PROVE  /\ Recorded'
               /\ View(auth) # Promise!Pending => View(auth') = View(auth)
               /\ auth.rec.st \in {"admitted", "fencing"} =>
                    auth'.rec.inc = auth.rec.inc /\ auth'.rec.st = "fencing"
               /\ auth'.rec.st \in {"absent", "not_admitted"} => auth.rec.st \in {"absent", "not_admitted"}
               /\ auth'.rec.st = "completed" => auth.rec.st = "completed"
    <2> DEFINE r == EnsureFence(auth.rec, f)
    <2>1. auth'.rec = r /\ (auth'.bar.closing => auth'.bar.gen # 0)
      BY <1>4, FenceWrites
    <2>2. /\ Valid(r) /\ r.inc = auth.rec.inc /\ r.res = auth.rec.res
          /\ auth.rec.st \in {"admitted", "fencing"} => r.st = "fencing"
          /\ auth.rec.st = "absent" => r.st = "not_admitted"
          /\ auth.rec.st \in {"not_admitted", "terminated", "completed"} => r.st = auth.rec.st
      BY <1>a, FenceEnsured
    <2> HIDE DEF r
    <2>3. auth.rec.st \in {"absent", "admitted", "fencing", "not_admitted", "terminated", "completed"}
      BY <1>a DEF Records, States
    <2>4. View(auth) # Promise!Pending => View(auth') = View(auth)
      BY <1>a, <2>1, <2>2, <2>3, Says
    <2> QED BY <2>1, <2>2, <2>3, <2>4 DEF Recorded
  <1>5. ASSUME lock = "free", MayFinish(auth.bar, Recs(auth)), auth' = FinishedAuth
        PROVE  /\ Recorded'
               /\ View(auth) # Promise!Pending => View(auth') = View(auth)
               /\ auth'.rec.inc = auth.rec.inc
               /\ auth.rec.st = "fencing" => auth'.rec.st \in {"fencing", "terminated"}
               /\ auth.rec.st # "fencing" => auth'.rec.st = auth.rec.st
    <2>1. /\ Valid(auth'.rec) /\ ~auth'.bar.closing
          /\ auth'.rec.res = auth.rec.res /\ auth'.rec.inc = auth.rec.inc
          /\ auth.rec.st = "fencing" => auth'.rec.st \in {"fencing", "terminated"}
          /\ auth.rec.st # "fencing" => auth'.rec.st = auth.rec.st
      BY <1>5, FinishWrites
    <2>3. auth.rec.st \in {"absent", "admitted", "fencing", "not_admitted", "terminated", "completed"}
      BY <1>a DEF Records, States
    <2>4. View(auth) # Promise!Pending => View(auth') = View(auth)
      BY <1>a, <2>1, <2>3, Says
    <2> QED BY <2>1, <2>4 DEF Recorded
  <1>6. RecordStep
    BY RecordSteps
  <1> QED BY <1>1, <1>2, <1>3, <1>4, <1>5, <1>6 DEF RecordStep

\* The holder of the lock keeps its record open until it is through.
LEMMA DeliveringKept == Custody /\ [Next]_vars => Delivering'
  <1> SUFFICES ASSUME Custody, [Next]_vars PROVE Delivering'
    OBVIOUS
  <1> USE DEF Custody
  <1> DEFINE Stands(g) ==
        /\ helper'[g].pc \in Answering <=> lock' = g
        /\ helper'[g].pc = "lock" => helper'[g].inc # 0
        /\ helper'[g].pc \in Answering =>
             auth'.rec.st \in {"admitted", "fencing"} /\ auth'.rec.inc = helper'[g].inc
        /\ helper'[g].pc = "send" => runs'[Inv] = 0
        /\ helper'[g].pc \in {"running", "received"} => runs'[Inv] = 1
        /\ helper'[g].pc = "received" => helper'[g].res \in Results
  <1>f. \A g \in Hosts : g # "free"
    BY NativeAssumption
  <1>s. {"handshake", "lock", "send", "running", "received"} \subseteq HelperSteps
    BY DEF HelperSteps, Answering
  <1>n. \A h \in Hosts : HelperGoes(h, NoHelper) =>
          /\ helper'[h].pc = "none"
          /\ \A g \in Hosts : g # h => helper'[g] = helper[g]
    BY HelperMoves
  <1>1. ASSUME NEW h \in Hosts, CompleteDelivery(h) PROVE Delivering'
    <2>1. /\ helper'[h].pc = "none" /\ \A g \in Hosts : g # h => helper'[g] = helper[g]
          /\ lock = h /\ lock' = "free" /\ UNCHANGED <<runs, cmd>>
      BY <1>1, <1>n, HelperWrites DEF CompleteDelivery, Delivering, Answering
    <2>2. \A g \in Hosts : Stands(g)
      BY <1>f, <2>1 DEF Delivering, Answering
    <2> QED BY <2>1, <2>2 DEF Delivering
  <1>2. CASE ~\E h \in Hosts : CompleteDelivery(h)
    <2>1. lock # "free" /\ auth.rec.st \in {"admitted", "fencing"} =>
            auth'.rec.st \in {"admitted", "fencing"} /\ auth'.rec.inc = auth.rec.inc
      BY <1>2, RecordKept
    <2>2. \A g \in Hosts : helper[g].pc \in Answering =>
            auth'.rec.st \in {"admitted", "fencing"} /\ auth'.rec.inc = helper[g].inc
      BY <1>f, <2>1 DEF Delivering
    <2>3. ASSUME UNCHANGED <<helper, lock, runs>> PROVE \A g \in Hosts : Stands(g)
      BY <2>2, <2>3 DEF Delivering
    <2>4. ASSUME NEW h \in Hosts, SendHelper(h) PROVE Delivering'
      <3>1. CASE UNCHANGED helper
        BY <2>3, <2>4, <3>1 DEF SendHelper, Delivering
      <3>2. CASE HelperAt(h, "handshake")
        <4>1. helper'[h].pc = "handshake" /\ \A g \in Hosts : g # h => helper'[g] = helper[g]
          BY <1>s, <3>2, HelperMoves
        <4>2. helper[h].pc = "none" /\ UNCHANGED <<lock, runs, cmd>>
          BY <2>4 DEF SendHelper
        <4>3. \A g \in Hosts : Stands(g)
          BY <2>2, <4>1, <4>2 DEF Delivering, Answering
        <4> QED BY <4>2, <4>3 DEF Delivering
      <3> QED BY <2>4, <3>1, <3>2, HelperWrites
    <2>5. ASSUME NEW h \in Hosts, Handshake(h) PROVE Delivering'
      <3>1. \/ helper'[h].pc = "none"
            \/ helper'[h].pc = "lock" /\ helper'[h].inc # 0
        BY <1>n, <1>s, <2>5, HelperWrites, HelperMoves
      <3>2. \A g \in Hosts : g # h => helper'[g] = helper[g]
        BY <1>n, <1>s, <2>5, HelperWrites, HelperMoves
      <3>3. helper[h].pc = "handshake" /\ UNCHANGED <<lock, runs, cmd>>
        BY <2>5 DEF Handshake
      <3>4. \A g \in Hosts : Stands(g)
        BY <2>2, <3>1, <3>2, <3>3 DEF Delivering, Answering
      <3> QED BY <3>3, <3>4 DEF Delivering
    <2>6. ASSUME NEW h \in Hosts, Admit(h) PROVE Delivering'
      <3>1. /\ helper[h].pc = "lock" /\ lock = "free" /\ UNCHANGED <<runs, cmd>>
            /\ \A g \in Hosts : helper[g].pc \notin Answering
        BY <1>f, <2>6 DEF Admit, Delivering
      <3>2. CASE Admits(auth.rec, auth.bar, auth.bar.gen)
        <4>1. /\ auth' = [auth EXCEPT !.rec = Admitted(helper[h].inc)] /\ lock' = h
              /\ HelperAt(h, "send")
          BY <2>6, <3>2 DEF Admit, HelperAt, HelperGoes
        <4>2. /\ helper'[h].pc = "send" /\ helper'[h].inc = helper[h].inc
              /\ \A g \in Hosts : g # h => helper'[g] = helper[g]
          BY <1>s, <4>1, HelperMoves
        <4>3. auth'.rec.st = "admitted" /\ auth'.rec.inc = helper[h].inc
          BY <4>1 DEF Fields, Authorities, Admitted, Absent
        <4>4. runs'[Inv] = 0
          BY <3>1, <3>2 DEF Admits, Truthful
        <4>5. \A g \in Hosts : Stands(g)
          BY <3>1, <4>1, <4>2, <4>3, <4>4 DEF Delivering, Answering
        <4> QED BY <3>1, <4>5 DEF Delivering
      <3>3. CASE ~Admits(auth.rec, auth.bar, auth.bar.gen)
        <4>1. HelperGoes(h, NoHelper) /\ lock' = lock
          BY <2>6, <3>3 DEF Admit, HelperAt, HelperGoes
        <4>2. \A g \in Hosts : Stands(g)
          BY <1>f, <1>n, <3>1, <4>1 DEF Delivering, Answering
        <4> QED BY <3>1, <4>2 DEF Delivering
      <3> QED BY <3>2, <3>3
    <2>7. ASSUME NEW h \in Hosts, Accept(h) PROVE Delivering'
      <3>1. /\ helper[h].pc = "send" /\ lock = h /\ runs[Inv] = 0
            /\ \A g \in Hosts : g # h => helper[g].pc \notin Answering
        BY <2>7 DEF Accept, Delivering, Answering
      <3>2. CASE proc.inc = helper[h].inc /\ ~proc.consumed
        <4>1. /\ HelperAt(h, "running")
              /\ lock' = lock /\ cmd'.st = "running" /\ runs' = [runs EXCEPT ![Inv] = runs[Inv] + 1]
          BY <2>7, <3>2 DEF Accept, NoCmd, HelperAt, HelperGoes
        <4>2. /\ helper'[h].pc = "running" /\ helper'[h].inc = helper[h].inc
              /\ \A g \in Hosts : g # h => helper'[g] = helper[g]
          BY <1>s, <4>1, HelperMoves
        <4>3. runs'[Inv] = 1
          BY <3>1, <4>1, NativeAssumption DEF Fields
        <4>4. \A g \in Hosts : Stands(g)
          BY <2>2, <3>1, <4>1, <4>2, <4>3 DEF Delivering, Answering
        <4> QED BY <4>1, <4>4 DEF Delivering
      <3>3. CASE ~(proc.inc = helper[h].inc /\ ~proc.consumed)
        <4>1. HelperGoes(h, NoHelper) /\ lock' = "free" /\ UNCHANGED <<cmd, runs>>
          BY <2>7, <3>3 DEF Accept, HelperGoes
        <4>2. \A g \in Hosts : Stands(g)
          BY <1>f, <1>n, <3>1, <4>1 DEF Delivering, Answering
        <4> QED BY <4>1, <4>2 DEF Delivering
      <3> QED BY <3>2, <3>3
    <2>8. ASSUME NEW h \in Hosts, Receive(h) PROVE Delivering'
      <3>1. /\ helper[h].pc = "running" /\ lock = h /\ runs[Inv] = 1 /\ cmd.res \in Results
            /\ UNCHANGED <<lock, runs, cmd>>
        BY <2>8 DEF Receive, Delivering, Answering
      <3>2. /\ helper'[h].pc = "received" /\ helper'[h].inc = helper[h].inc /\ helper'[h].res = cmd.res
            /\ \A g \in Hosts : g # h => helper'[g] = helper[g]
        BY <1>s, <2>8, HelperWrites, HelperMoves
      <3>3. \A g \in Hosts : Stands(g)
        BY <2>2, <3>1, <3>2 DEF Delivering, Answering
      <3> QED BY <3>1, <3>3 DEF Delivering
    <2>9. ASSUME NEW h \in Hosts, TransportFails(h) PROVE Delivering'
      <3>1. /\ helper[h].pc = "running" /\ lock = h /\ lock' = "free" /\ UNCHANGED <<runs, cmd>>
            /\ helper'[h].pc = "none" /\ \A g \in Hosts : g # h => helper'[g] = helper[g]
        BY <1>n, <2>9, HelperWrites DEF TransportFails, Delivering, Answering
      <3>2. \A g \in Hosts : Stands(g)
        BY <1>f, <2>2, <3>1 DEF Delivering, Answering
      <3> QED BY <3>1, <3>2 DEF Delivering
    <2>10. ASSUME NEW h \in Hosts, HelperKilled(h) PROVE Delivering'
      <3>1. /\ lock' = IF lock = h THEN "free" ELSE lock
            /\ UNCHANGED <<runs, cmd>>
            /\ helper'[h].pc = "none" /\ \A g \in Hosts : g # h => helper'[g] = helper[g]
        BY <1>n, <2>10, HelperWrites DEF HelperKilled
      <3>2. \A g \in Hosts : Stands(g)
        BY <1>f, <2>2, <3>1 DEF Delivering, Answering
      <3> QED BY <3>1, <3>2 DEF Delivering
    <2>11. ASSUME NEW v \in Results, Return(v) PROVE Delivering'
      <3>1. UNCHANGED <<helper, lock, runs>> /\ cmd'.res \in Results
        BY <2>11 DEF Return
      <3> QED BY <2>3, <3>1 DEF Delivering
    <2>12. ASSUME \/ \E h \in Hosts : Remove(h)
                  \/ \E o \in Owners : ContainerExits(o)
           PROVE  Delivering'
      <3>1. UNCHANGED <<helper, lock, runs>> /\ (cmd' = cmd \/ Killed)
        BY <2>12 DEF Remove, ContainerExits
      <3>2. cmd'.st = "done" => cmd'.res \in Results
        BY <3>1 DEF Killed, NoCmd, Delivering
      <3> QED BY <2>3, <3>1, <3>2 DEF Delivering
    <2>13. ASSUME \/ UNCHANGED vars
                  \/ \E h \in Hosts :
                       \/ Prepare(h) \/ Claim(h) \/ Create(h) \/ Inspect(h) \/ Bind(h) \/ Deliver(h)
                       \/ Start(h) \/ HelperAnswers(h) \/ Find(h) \/ BindFound(h) \/ FinishFence(h)
                       \/ (\E f \in FenceIds : Fence(h, f)) \/ HostCrash(h)
                  \/ \E o \in Owners : DaemonCreates(o)
           PROVE  Delivering'
      <3>1. UNCHANGED <<helper, lock, runs, cmd>>
        BY <2>13 DEF vars, Prepare, Claim, Create, Inspect, Bind, Deliver, Start, HelperAnswers, Find,
                     BindFound, FinishFence, Fence, HostCrash, DaemonCreates
      <3> QED BY <2>3, <3>1 DEF Delivering
    <2> QED
      BY <1>2, <2>4, <2>5, <2>6, <2>7, <2>8, <2>9, <2>10, <2>11, <2>12, <2>13 DEF Next, Works, Helps
  <1> QED BY <1>1, <1>2

\* What a step tells the workflow, it takes from the new record or from what a
\* fencing host holds.
LEMMA Telling ==
  ASSUME Custody, [Next]_vars
  PROVE  \/ UNCHANGED verdict
         \/ Tell(auth') /\ UNCHANGED runs
         \/ \E h \in Hosts : Tell(host[h].held) /\ host[h].pc \in Fencing /\ UNCHANGED <<auth, runs>>
  <1>1. ASSUME NEW h \in Hosts, NEW f \in FenceIds, Fence(h, f)
        PROVE  UNCHANGED verdict \/ (Tell(auth') /\ UNCHANGED runs)
    BY <1>1 DEF Fence
  <1>2. ASSUME NEW h \in Hosts, Find(h)
        PROVE  \/ UNCHANGED verdict
               \/ Tell(host[h].held) /\ host[h].pc \in Fencing /\ UNCHANGED <<auth, runs>>
    BY <1>2 DEF Find, Fencing
  <1>3. ASSUME NEW h \in Hosts, FinishFence(h)
        PROVE  \/ Tell(auth') /\ UNCHANGED runs
               \/ Tell(host[h].held) /\ host[h].pc \in Fencing /\ UNCHANGED <<auth, runs>>
    BY <1>3 DEF FinishFence, Fencing
  <1>4. ASSUME \/ UNCHANGED vars
               \/ \E h \in Hosts :
                    \/ Prepare(h) \/ Claim(h) \/ Create(h) \/ Inspect(h) \/ Bind(h) \/ Deliver(h) \/ Start(h)
                    \/ SendHelper(h) \/ HelperAnswers(h) \/ BindFound(h) \/ Remove(h)
                    \/ Helps(h) \/ HostCrash(h) \/ HelperKilled(h)
               \/ \E o \in Owners : DaemonCreates(o) \/ ContainerExits(o)
               \/ \E v \in Results : Return(v)
        PROVE  UNCHANGED verdict
    BY <1>4 DEF vars, Prepare, Claim, Create, Inspect, Bind, Deliver, Start, SendHelper, HelperAnswers,
                BindFound, Remove, Helps, Handshake, Admit, Accept, Receive, CompleteDelivery,
                TransportFails, HostCrash, HelperKilled, DaemonCreates, ContainerExits, Return
  <1> QED BY <1>1, <1>2, <1>3, <1>4 DEF Next, Works

\* A command starts in one step only, under the lock and an open record.
LEMMA Starting ==
  ASSUME Custody, [Next]_vars
  PROVE  \/ UNCHANGED runs
         \/ /\ runs[Inv] = 0 /\ runs' = [runs EXCEPT ![Inv] = 1]
            /\ auth.rec.st \in {"admitted", "fencing"}
            /\ UNCHANGED <<auth, verdict>>
  <1> USE DEF Custody
  <1>1. ASSUME NEW h \in Hosts, Accept(h)
        PROVE  \/ UNCHANGED runs
               \/ /\ runs[Inv] = 0 /\ runs' = [runs EXCEPT ![Inv] = 1]
                  /\ auth.rec.st \in {"admitted", "fencing"}
                  /\ UNCHANGED <<auth, verdict>>
    <2>1. runs[Inv] = 0 /\ auth.rec.st \in {"admitted", "fencing"} /\ UNCHANGED <<auth, verdict>>
      BY <1>1 DEF Accept, Delivering, Answering
    <2>2. UNCHANGED runs \/ runs' = [runs EXCEPT ![Inv] = 0 + 1]
      BY <1>1, <2>1 DEF Accept
    <2> QED BY <2>1, <2>2
  <1>2. ASSUME \/ UNCHANGED vars
               \/ \E h \in Hosts :
                    \/ Prepare(h) \/ Works(h) \/ (\E f \in FenceIds : Fence(h, f))
                    \/ Handshake(h) \/ Admit(h) \/ Receive(h) \/ CompleteDelivery(h) \/ TransportFails(h)
                    \/ HostCrash(h) \/ HelperKilled(h)
               \/ \E o \in Owners : DaemonCreates(o) \/ ContainerExits(o)
               \/ \E v \in Results : Return(v)
        PROVE  UNCHANGED runs
    BY <1>2 DEF vars, Prepare, Works, Claim, Create, Inspect, Bind, Deliver, Start, SendHelper, HelperAnswers,
                Find, BindFound, Remove, FinishFence, Fence, Handshake, Admit, Receive, CompleteDelivery,
                TransportFails, HostCrash, HelperKilled, DaemonCreates, ContainerExits, Return
  <1> QED BY <1>1, <1>2 DEF Next, Helps

\* The record, the workflow's verdict and the replies under way stay of one mind.
LEMMA TruthfulKept == Custody /\ [Next]_vars => Truthful'
  <1> SUFFICES ASSUME Custody, [Next]_vars PROVE Truthful'
    OBVIOUS
  <1> USE DEF Custody
  <1>r. /\ Recorded'
        /\ View(auth) # Promise!Pending => View(auth') = View(auth)
    BY RecordKept
  <1>i. Inv \in Invocations
    BY NativeAssumption
  <1>1. /\ auth'.rec.st \in {"absent", "not_admitted"} => runs'[Inv] = 0
        /\ auth'.rec.st = "completed" => runs'[Inv] = 1
    <2>1. CASE UNCHANGED runs
      <3>1. auth'.rec.st \in {"absent", "not_admitted"} => auth.rec.st \in {"absent", "not_admitted"}
        BY RecordKept
      <3>2. auth'.rec.st = "completed" =>
              auth.rec.st = "completed" \/ \E h \in Hosts : helper[h].pc = "received"
        BY RecordKept
      <3> QED BY <2>1, <3>1, <3>2 DEF Truthful, Delivering
    <2>2. CASE auth.rec.st \in {"admitted", "fencing"} /\ UNCHANGED auth
      BY <2>2
    <2> QED BY <2>1, <2>2, Starting
  <1>2. ASSUME NEW a, View(a) \in {Promise!Pending, View(auth)}
        PROVE  View(a) \in {Promise!Pending, View(auth')}
    BY <1>r, <1>2
  <1>3. verdict'[Inv] \in {Promise!Pending, View(auth')}
    <2>1. CASE UNCHANGED verdict
      BY <1>r, <2>1 DEF Truthful
    <2>2. ASSUME NEW a, Tell(a), View(a) \in {Promise!Pending, View(auth')}
          PROVE  verdict'[Inv] \in {Promise!Pending, View(auth')}
      BY <1>i, <1>r, <2>2 DEF Tell, Fields, Truthful
    <2>3. ASSUME NEW h \in Hosts, host[h].pc \in Fencing
          PROVE  View(host[h].held) \in {Promise!Pending, View(auth')}
      BY <1>2, <2>3 DEF Truthful
    <2> QED BY <2>1, <2>2, <2>3, Telling
  <1>4. ASSUME NEW g \in Hosts, host'[g].pc \in Fencing
        PROVE  View(host'[g].held) \in {Promise!Pending, View(auth')}
    <2>n. NoAuthority \in Authorities /\ auth' \in Authorities /\ auth \in Authorities
          /\ host[g].held \in Authorities
      BY Distinct, FieldsKept DEF Fields, NoAuthority, Authorities, Barriers, NoBarrier, Absent, Records, States
    <2>p. Fencing \subseteq HostSteps /\ HostSteps \ Fencing \subseteq HostSteps
          /\ {"idle", "claim", "inspect", "create", "created", "bind", "deliver", "start", "started", "waiting"}
               \cap Fencing = {}
          /\ {"idle", "claim", "inspect", "create", "created", "bind", "deliver", "start", "started", "waiting"}
               \subseteq HostSteps
      BY DEF Fencing, HostSteps, Seeking, Holding
    <2>1. CASE host'[g] = host[g]
      BY <1>2, <1>4, <2>1 DEF Truthful
    <2>2. ASSUME host[g].pc \in Fencing, NEW pc \in Fencing, Goes(g, pc, host[g].held)
          PROVE  View(host'[g].held) \in {Promise!Pending, View(auth')}
      <3>1. host'[g].held = host[g].held
        BY <2>2, <2>n, <2>p, Moved
      <3> QED BY <1>2, <2>2, <3>1 DEF Truthful
    <2>3. ASSUME NEW pc \in Fencing, Goes(g, pc, auth')
          PROVE  View(host'[g].held) \in {Promise!Pending, View(auth')}
      <3>1. host'[g].held = auth'
        BY <2>3, <2>n, <2>p, Moved
      <3> QED BY <3>1
    <2>4. ASSUME NEW h \in Hosts, NEW pc \in HostSteps, NEW held \in Authorities,
                 Goes(h, pc, held), pc \notin Fencing
          PROVE  host'[g] = host[g]
      BY <1>4, <2>4, Moved
    <2>5. ASSUME NEW h \in Hosts, NEW pc \in HostSteps, NEW held \in Authorities, Goes(h, pc, held)
          PROVE  h = g \/ host'[g] = host[g]
      BY <2>5, Moved
    <2>6. ASSUME NEW h \in Hosts,
                 Prepare(h) \/ Claim(h) \/ Create(h) \/ Inspect(h) \/ Bind(h) \/ Deliver(h) \/ Start(h)
                   \/ SendHelper(h) \/ HelperAnswers(h) \/ FinishFence(h) \/ HostCrash(h)
          PROVE  host'[g] = host[g]
      <3>1. host[h].held \in Authorities
        BY DEF Fields
      <3>2. \E pc \in {"idle", "claim", "inspect", "create", "created", "bind", "deliver", "start", "started",
                       "waiting"},
               held \in {auth, auth', host[h].held, NoAuthority} : Goes(h, pc, held)
        <4>1. CASE Prepare(h) \/ Claim(h)
          BY <4>1 DEF Prepare, Claim
        <4>2. CASE Create(h) \/ Inspect(h)
          BY <4>2 DEF Create, Inspect
        <4>3. CASE Bind(h) \/ Deliver(h)
          BY <4>3 DEF Bind, Deliver
        <4>4. CASE Start(h) \/ SendHelper(h)
          BY <4>4 DEF Start, SendHelper
        <4>5. CASE HelperAnswers(h) \/ FinishFence(h) \/ HostCrash(h)
          BY <4>5 DEF HelperAnswers, FinishFence, HostCrash
        <4> QED BY <2>6, <4>1, <4>2, <4>3, <4>4, <4>5
      <3> QED BY <2>4, <2>n, <2>p, <3>1, <3>2
    <2>7. ASSUME NEW h \in Hosts, NEW f \in FenceIds, Fence(h, f)
          PROVE  View(host'[g].held) \in {Promise!Pending, View(auth')}
      <3>1. \/ Goes(h, "idle", NoAuthority)
            \/ \E pc \in {"find", "remove"} : Goes(h, pc, auth')
        BY <2>7 DEF Fence
      <3>2. "find" \in Fencing /\ "remove" \in Fencing
        BY DEF Fencing
      <3> QED BY <2>1, <2>3, <2>4, <2>5, <2>n, <2>p, <3>1, <3>2
    <2>8. ASSUME NEW h \in Hosts, Find(h) \/ Remove(h)
          PROVE  View(host'[g].held) \in {Promise!Pending, View(auth')}
      <3>1. \/ Goes(h, "idle", NoAuthority)
            \/ \E pc \in {"found", "finish"} : Goes(h, pc, host[h].held)
        BY <2>8 DEF Find, Remove
      <3>2. "found" \in Fencing /\ "finish" \in Fencing /\ host[h].pc \in Fencing
        BY <2>8 DEF Fencing, Find, Remove
      <3>3. host[h].held \in Authorities
        BY DEF Fields
      <3> QED BY <2>1, <2>2, <2>4, <2>5, <2>n, <2>p, <3>1, <3>2, <3>3
    <2>9. ASSUME NEW h \in Hosts, BindFound(h)
          PROVE  View(host'[g].held) \in {Promise!Pending, View(auth')}
      <3>1. Goes(h, "remove", auth') /\ "remove" \in Fencing
        BY <2>9 DEF BindFound, Fencing
      <3> QED BY <2>1, <2>3, <2>5, <2>n, <2>p, <3>1
    <2>10. ASSUME \/ UNCHANGED vars
                  \/ \E h \in Hosts : Helps(h) \/ HelperKilled(h)
                  \/ \E o \in Owners : DaemonCreates(o) \/ ContainerExits(o)
                  \/ \E v \in Results : Return(v)
           PROVE  host'[g] = host[g]
      BY <2>10 DEF vars, Helps, Handshake, Admit, Accept, Receive, CompleteDelivery, TransportFails,
                   HelperKilled, DaemonCreates, ContainerExits, Return
    <2> QED BY <2>1, <2>6, <2>7, <2>8, <2>9, <2>10 DEF Next, Works
  <1> QED BY <1>1, <1>3, <1>4 DEF Truthful

\* The parts of the invariant, together.
LEMMA CustodyInvariant == Spec => []Custody
  <1>1. Custody /\ [Next]_vars => Custody'
    <2> SUFFICES ASSUME Custody, [Next]_vars PROVE Custody'
      OBVIOUS
    <2>1. Recorded'
      BY RecordKept
    <2> QED BY <2>1, FieldsKept, OwnedKept, HostsAgreeKept, HousedKept, DeliveringKept, TruthfulKept
            DEF Custody
  <1> QED BY <1>1, CustodyInitially, PTL DEF Spec

-----------------------------------------------------------------------------
(* The theorems.                                                           *)

\* The authority's record is well-formed, a bound container is the owner's,
\* the lock is held by exactly the helper that delivers, and a process lives
\* in the container that runs: whatever hosts and helpers crash.
THEOREM TypeCorrect == Spec => []TypeOK
  <1>1. Custody => TypeOK
    BY DEF Custody, Fields, Owned, Recorded, Delivering, Answering, Housed, TypeOK, Authorities
  <1> QED BY <1>1, CustodyInvariant, PTL

\* claim_managed and bind_managed: for any number of hosts and candidates, an
\* invocation has one container in all its life.
THEOREM OneContainerEver == Spec => []OneContainer
  <1>1. Custody => OneContainer
    BY DEF Custody, Owned, OneContainer
  <1> QED BY <1>1, CustodyInvariant, PTL

\* A result that reached a helper is accepted by the authority: no barrier
\* ends between the response and its completion.
THEOREM ResultsAreRetained == Spec => []NoResultDiscarded
  <1>1. Custody => NoResultDiscarded
    BY DEF Custody, Delivering, Answering, NoResultDiscarded, MayComplete
  <1> QED BY <1>1, CustodyInvariant, PTL

\* The native executor implements ExecOutcome: a command starts at most once
\* and only before an answer, and an answer is true and final.
THEOREM NativeKeepsPromise == Spec => KeepsPromise
  <1>i. Inv \in Invocations
    BY NativeAssumption
  <1>1. Init => Promise!Init
    BY DEF Init, Promise!Init, Promise!Pending, OutcomeOf, Absent, PendingLife
  <1>2. Custody /\ Custody' /\ [Next]_vars => [Promise!Next]_<<runs, verdict>>
    <2> SUFFICES ASSUME Custody, Custody', [Next]_vars PROVE [Promise!Next]_<<runs, verdict>>
      OBVIOUS
    <2> USE DEF Custody
    <2>1. CASE runs' # runs
      <3>1. /\ runs[Inv] = 0 /\ runs' = [runs EXCEPT ![Inv] = 1] /\ UNCHANGED verdict
            /\ auth.rec.st \in {"admitted", "fencing"}
        BY <2>1, Starting
      <3>2. verdict[Inv] = Promise!Pending
        BY <3>1, Says DEF Truthful, Recorded
      <3>3. Promise!Start(Inv)
        BY <3>1, <3>2 DEF Promise!Start
      <3> QED BY <1>i, <3>3 DEF Promise!Next
    <2>2. ASSUME NEW a, Tell(a), UNCHANGED runs, View(a) \in {Promise!Pending, View(auth')}
          PROVE  [Promise!Next]_<<runs, verdict>>
      <3>1. Promise!Pending.said = "pending"
        BY DEF Promise!Pending
      <3>2. CASE View(a).said = "pending"
        BY <2>2, <3>2 DEF Tell
      <3>3. CASE View(a).said # "pending"
        <4>1. verdict' = [verdict EXCEPT ![Inv] = View(auth')] /\ View(auth') # Promise!Pending
          BY <2>2, <3>1, <3>3 DEF Tell
        <4>2. CASE verdict[Inv] # Promise!Pending
          <5>1. verdict[Inv] = View(auth')
            BY <4>2, RecordKept DEF Truthful
          <5>2. verdict' = verdict
            BY <4>1, <5>1, <1>i DEF Fields
          <5> QED BY <2>2, <5>2
        <4>3. CASE verdict[Inv] = Promise!Pending
          <5>1. Valid(auth'.rec)
            BY DEF Recorded
          <5>2. View(auth') \in Promise!Answers
            BY <5>1, Says
          <5>3. /\ View(auth').said = "not_executed" => auth'.rec.st = "not_admitted"
                /\ View(auth').said = "completed" => auth'.rec.st = "completed"
            BY <5>1, <3>1, Says DEF States
          <5>4. /\ View(auth').said = "not_executed" => runs[Inv] = 0
                /\ View(auth').said = "completed" => runs[Inv] = 1
            BY <2>2, <5>3 DEF Truthful
          <5>5. Promise!Decide(Inv, View(auth'))
            BY <2>2, <4>1, <4>3, <5>4 DEF Promise!Decide
          <5> QED BY <1>i, <5>2, <5>5 DEF Promise!Next
        <4> QED BY <4>2, <4>3
      <3> QED BY <3>2, <3>3
    <2>3. ASSUME NEW h \in Hosts, Tell(host[h].held), host[h].pc \in Fencing, UNCHANGED <<auth, runs>>
          PROVE  [Promise!Next]_<<runs, verdict>>
      <3>1. View(host[h].held) \in {Promise!Pending, View(auth')}
        BY <2>3 DEF Truthful
      <3> QED BY <2>2, <2>3, <3>1
    <2> QED BY <2>1, <2>2, <2>3, Telling
  <1> QED BY <1>1, <1>2, CustodyInvariant, PTL DEF Spec, KeepsPromise, Promise!Spec

=============================================================================
