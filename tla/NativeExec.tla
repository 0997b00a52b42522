---------------------------- MODULE NativeExec ----------------------------
(***************************************************************************)
(* One external command on the native executor.  Host processes drive it   *)
(* (norm_driver.rs, managed.rs): they claim the authority of the           *)
(* invocation, create an inert container, bind it, start it and send a     *)
(* helper to deliver; or they fence, remove the container and end the      *)
(* barrier.  The authority is a database on a volume of its own that only  *)
(* helpers open (native_controller.rs, native_controller_helper.rs); its   *)
(* transactions use the reducers of ExecRecords.  A helper that delivers   *)
(* holds a file lock from admission to completion.                         *)
(*                                                                         *)
(* Hosts may crash between any two calls, and lose any answer; helpers may *)
(* be killed; the container may exit; a creation may take effect after its *)
(* host is gone.  A container is named after its owner, which is the       *)
(* tracking record of the workflow that allocated it: a workflow restored  *)
(* from a checkpoint brings another candidate for the same invocation.     *)
(*                                                                         *)
(* Left out: the identity of the Docker daemon, of images and of profiles  *)
(* (a mismatch refuses before anything changes), the hash chain of the     *)
(* authority's history, and the journal of the workflow (RuntimeStore).    *)
(***************************************************************************)
EXTENDS ExecRecords, FiniteSets

CONSTANTS Inv,           \* the invocation
          Hosts,         \* host processes
          Candidates,    \* the owners they would claim: one function per restore history
          Owners, NoOwner,
          MaxStarts,     \* bound: processes started in containers
          MaxFaults      \* bound: crashes, kills, exits

ASSUME NativeAssumption ==
  /\ Invocations = {Inv}
  /\ Candidates \subseteq [Hosts -> Owners] /\ NoOwner \notin Owners
  /\ MaxStarts \in Nat /\ MaxFaults \in Nat
  /\ "free" \notin Hosts

VARIABLES
  auth,       \* authority, durable: [owner, cid, rec, bar]
  lock,       \* the host whose helper holds the lock, or "free"
  cont,       \* the container of each owner
  creating,   \* creations the daemon has not carried out yet
  proc,       \* the process in the container: [inc, consumed]
  starts,     \* processes started so far
  cmd,        \* the bound delivery in that process: [st, res]
  host,       \* where each host is, its candidate and the last reply it holds
  helper,     \* where the helper of each host is
  runs,       \* how often the command was started
  verdict,    \* what the workflow was told
  faults

dockerVars == <<cont, creating, proc, starts>>
vars == <<auth, lock, cont, creating, proc, starts, cmd, host, helper, runs, verdict, faults>>

NoAuthority == [owner |-> NoOwner, cid |-> NoOwner, rec |-> Absent, bar |-> NoBarrier]
NoProcess == [inc |-> 0, consumed |-> FALSE]
NoCmd == [st |-> "none", res |-> NoResult]
NoHelper == [pc |-> "none", inc |-> 0, res |-> NoResult]

Recs(a) == [i \in Invocations |-> a.rec]

Init ==
  /\ auth = NoAuthority /\ lock = "free"
  /\ cont = [o \in Owners |-> "none"] /\ creating = {}
  /\ proc = NoProcess /\ starts = 0 /\ cmd = NoCmd
  /\ \E o \in Candidates :
       host = [h \in Hosts |-> [pc |-> "idle", held |-> NoAuthority, candidate |-> o[h]]]
  /\ helper = [h \in Hosts |-> NoHelper]
  /\ runs = [i \in Invocations |-> 0]
  /\ verdict = [i \in Invocations |-> OutcomeOf(Absent, PendingLife)]
  /\ faults = 0

Present(o) == cont[o] \in {"created", "running", "exited"}

Goes(h, pc, held) == host' = [host EXCEPT ![h].pc = pc, ![h].held = held]

\* What the workflow retains from an authority's reply.
View(a) == OutcomeOf(a.rec, LifeSeen(a.rec))

Tell(a) ==
  verdict' = IF View(a).said = "pending" THEN verdict ELSE [verdict EXCEPT ![Inv] = View(a)]

-----------------------------------------------------------------------------
(* prepare_managed.                                                        *)

\* Read the authority: claim it, look for its container, or deliver.  One
\* that is fenced without an owner, or admitted, is left alone.
Prepare(h) ==
  /\ host[h].pc = "idle"
  /\ auth.rec # Absent => auth.owner # NoOwner /\ auth.cid = NoOwner
  /\ Goes(h, CASE auth.owner = NoOwner -> "claim"
               [] auth.owner # NoOwner /\ auth.cid = NoOwner -> "inspect"
               [] OTHER -> "deliver", auth)
  /\ UNCHANGED <<auth, lock, dockerVars, cmd, helper, runs, verdict, faults>>

\* Mutant of Claim: a claim that was retained before creates again.
ClaimAgain(h) ==
  LET o == host[h].candidate
      next == IF auth.owner = NoOwner /\ auth.rec = Absent THEN [auth EXCEPT !.owner = o] ELSE auth
  IN /\ host[h].pc = "claim"
     /\ auth' = next
     /\ IF next.owner = NoOwner THEN Goes(h, "idle", next) ELSE Goes(h, "create", [next EXCEPT !.owner = o])
     /\ UNCHANGED <<lock, dockerVars, cmd, helper, runs, verdict, faults>>

\* Only the transaction that first retains the owner may create; a fenced
\* authority retains none; another owner is refused.
Claim(h) ==
  LET o == host[h].candidate
      fresh == auth.owner = NoOwner /\ auth.rec = Absent
      next == IF fresh THEN [auth EXCEPT !.owner = o] ELSE auth
  IN /\ host[h].pc = "claim"
     /\ auth' = next
     /\ IF fresh THEN Goes(h, "create", next)
        ELSE IF auth.owner = o /\ auth.cid = NoOwner THEN Goes(h, "inspect", next)
        ELSE Goes(h, "idle", NoAuthority)
     /\ UNCHANGED <<lock, dockerVars, cmd, helper, runs, verdict, faults>>

Create(h) ==
  /\ host[h].pc = "create"
  /\ creating' = creating \cup {host[h].held.owner}
  /\ Goes(h, "created", host[h].held)
  /\ UNCHANGED <<auth, lock, cont, proc, starts, cmd, helper, runs, verdict, faults>>

\* The daemon carries the creation out, whether its client waits or not.
DaemonCreates(o) ==
  /\ o \in creating
  /\ creating' = creating \ {o}
  /\ cont' = [cont EXCEPT ![o] = IF @ = "none" THEN "created" ELSE @]
  /\ UNCHANGED <<auth, lock, proc, starts, cmd, host, helper, runs, verdict, faults>>

\* The container is looked up by its owner, after the creation's answer if
\* this host made it.
Inspect(h) ==
  /\ host[h].pc \in {"inspect", "created"}
  /\ host[h].pc = "created" => host[h].held.owner \notin creating
  /\ IF Present(host[h].held.owner) THEN Goes(h, "bind", host[h].held) ELSE Goes(h, "idle", NoAuthority)
  /\ UNCHANGED <<auth, lock, dockerVars, cmd, helper, runs, verdict, faults>>

Bound(o) == [auth EXCEPT !.cid = o]

Bind(h) ==
  /\ host[h].pc = "bind"
  /\ auth' = Bound(host[h].held.owner)
  /\ Goes(h, IF auth.rec = Absent THEN "deliver" ELSE "idle", auth')
  /\ UNCHANGED <<lock, dockerVars, cmd, helper, runs, verdict, faults>>

-----------------------------------------------------------------------------
(* deliver_managed and the helper.                                         *)

\* Read the authority once more, and the profile of the bound container.
Deliver(h) ==
  /\ host[h].pc = "deliver"
  /\ IF auth.rec = Absent /\ Present(auth.cid) THEN Goes(h, "start", auth) ELSE Goes(h, "idle", NoAuthority)
  /\ UNCHANGED <<auth, lock, dockerVars, cmd, helper, runs, verdict, faults>>

\* Start the bound container, fenced meanwhile or not; one that runs is left
\* alone, one that is gone is an error.
Start(h) ==
  LET o == host[h].held.cid
  IN /\ host[h].pc = "start"
     /\ IF Present(o)
          THEN /\ \/ cont[o] = "running" /\ UNCHANGED <<cont, proc, starts>>
                  \/ /\ cont[o] # "running" /\ starts < MaxStarts
                     /\ cont' = [cont EXCEPT ![o] = "running"]
                     /\ starts' = starts + 1
                     /\ proc' = [inc |-> starts + 1, consumed |-> FALSE]
               /\ Goes(h, "started", host[h].held)
          ELSE Goes(h, "idle", NoAuthority) /\ UNCHANGED <<cont, proc, starts>>
     /\ UNCHANGED <<auth, lock, creating, cmd, helper, runs, verdict, faults>>

\* A competing helper or fence may have committed during startup.
SendHelper(h) ==
  /\ host[h].pc = "started" /\ helper[h].pc = "none"   \* bound: one helper per host
  /\ IF auth.rec = Absent /\ Present(auth.cid)
       THEN Goes(h, "waiting", auth) /\ helper' = [helper EXCEPT ![h].pc = "handshake"]
       ELSE Goes(h, "idle", NoAuthority) /\ UNCHANGED helper
  /\ UNCHANGED <<auth, lock, dockerVars, cmd, runs, verdict, faults>>

\* The helper reads the record again and asks the process for its identity.
Handshake(h) ==
  /\ helper[h].pc = "handshake"
  /\ helper' = [helper EXCEPT ![h] = IF auth.rec = Absent /\ proc.inc # 0
                                       THEN [@ EXCEPT !.pc = "lock", !.inc = proc.inc] ELSE NoHelper]
  /\ UNCHANGED <<auth, lock, dockerVars, cmd, host, runs, verdict, faults>>

\* Under the lock: admission in one transaction, then the delivery.
Admit(h) ==
  /\ helper[h].pc = "lock" /\ lock = "free"
  /\ IF Admits(auth.rec, auth.bar, auth.bar.gen)
       THEN /\ auth' = [auth EXCEPT !.rec = Admitted(helper[h].inc)]
            /\ lock' = h
            /\ helper' = [helper EXCEPT ![h].pc = "send"]
       ELSE helper' = [helper EXCEPT ![h] = NoHelper] /\ UNCHANGED <<auth, lock>>
  /\ UNCHANGED <<dockerVars, cmd, host, runs, verdict, faults>>

\* The process takes one delivery of its incarnation, ever.
Accept(h) ==
  /\ helper[h].pc = "send"
  /\ IF proc.inc = helper[h].inc /\ ~proc.consumed
       THEN /\ proc' = [proc EXCEPT !.consumed = TRUE]
            /\ cmd' = [NoCmd EXCEPT !.st = "running"]
            /\ runs' = [runs EXCEPT ![Inv] = @ + 1]
            /\ helper' = [helper EXCEPT ![h].pc = "running"]
            /\ UNCHANGED lock
       ELSE /\ helper' = [helper EXCEPT ![h] = NoHelper]
            /\ lock' = "free"
            /\ UNCHANGED <<proc, cmd, runs>>
  /\ UNCHANGED <<auth, cont, creating, starts, host, verdict, faults>>

Return(v) ==
  /\ cmd.st = "running"
  /\ cmd' = [st |-> "done", res |-> v]
  /\ UNCHANGED <<auth, lock, dockerVars, host, helper, runs, verdict, faults>>

\* The response reaches the helper, which has it even if the container goes.
Receive(h) ==
  /\ helper[h].pc = "running" /\ cmd.st = "done"
  /\ helper' = [helper EXCEPT ![h].pc = "received", ![h].res = cmd.res]
  /\ UNCHANGED <<auth, lock, dockerVars, cmd, host, runs, verdict, faults>>

CompleteDelivery(h) ==
  /\ helper[h].pc = "received"
  /\ lock' = "free"
  /\ helper' = [helper EXCEPT ![h] = NoHelper]
  /\ IF MayComplete(auth.rec, helper[h].inc, helper[h].res)
       THEN auth' = [auth EXCEPT !.rec = Complete(@, helper[h].res)]
       ELSE UNCHANGED auth
  /\ UNCHANGED <<dockerVars, cmd, host, runs, verdict, faults>>

\* Mutant of TransportFails: the lock is kept.
TransportFailsHolding(h) ==
  /\ helper[h].pc = "running"
  /\ helper' = [helper EXCEPT ![h] = NoHelper]
  /\ UNCHANGED <<auth, lock, dockerVars, cmd, host, runs, verdict, faults>>

\* The transport fails: the container is gone, or the timeout has passed.
TransportFails(h) ==
  /\ helper[h].pc = "running"
  /\ helper' = [helper EXCEPT ![h] = NoHelper]
  /\ lock' = "free"
  /\ UNCHANGED <<auth, dockerVars, cmd, host, runs, verdict, faults>>

\* The helper is through: its host has a reply, or an error.
HelperAnswers(h) ==
  /\ host[h].pc = "waiting" /\ helper[h].pc = "none"
  /\ Goes(h, "idle", NoAuthority)
  /\ UNCHANGED <<auth, lock, dockerVars, cmd, helper, runs, verdict, faults>>

-----------------------------------------------------------------------------
(* fence_managed, and what reconciliation observes of its reply.           *)

Ensured(f) == [auth EXCEPT !.rec = EnsureFence(@, f)]

\* One transaction: the fence and the barrier over what it has to prove.
Fence(h, f) ==
  LET begun == Begin(auth.bar, Recs(Ensured(f)))
      next == [Ensured(f) EXCEPT !.rec = begun.recs[Inv], !.bar = begun.barrier]
  IN /\ host[h].pc = "idle"
     /\ auth' = next
     /\ IF next.owner = NoOwner THEN Tell(next) /\ Goes(h, "idle", NoAuthority)
        ELSE UNCHANGED verdict /\ Goes(h, IF next.cid = NoOwner THEN "find" ELSE "remove", next)
     /\ UNCHANGED <<lock, dockerVars, cmd, helper, runs, faults>>

\* Mutant of Find: a container that is not bound is nobody's.
FindNothing(h) ==
  /\ host[h].pc = "find"
  /\ Tell(host[h].held)
  /\ Goes(h, "idle", NoAuthority)
  /\ UNCHANGED <<auth, lock, dockerVars, cmd, helper, runs, faults>>

\* No container is bound: look for one, to bind it; else leave it at that.
Find(h) ==
  /\ host[h].pc = "find"
  /\ IF Present(host[h].held.owner)
       THEN Goes(h, "found", host[h].held) /\ UNCHANGED verdict
       ELSE Goes(h, "idle", NoAuthority) /\ Tell(host[h].held)
  /\ UNCHANGED <<auth, lock, dockerVars, cmd, helper, runs, faults>>

BindFound(h) ==
  /\ host[h].pc = "found"
  /\ auth' = Bound(host[h].held.owner)
  /\ Goes(h, "remove", auth')
  /\ UNCHANGED <<lock, dockerVars, cmd, helper, runs, verdict, faults>>

Killed ==
  /\ proc' = NoProcess
  /\ cmd' = IF cmd.st = "done" THEN cmd ELSE NoCmd

Remove(h) ==
  /\ host[h].pc = "remove"
  /\ IF Present(host[h].held.cid)
       THEN cont' = [cont EXCEPT ![host[h].held.cid] = "gone"] /\ Killed
       ELSE UNCHANGED <<cont, proc, cmd>>
  /\ Goes(h, "finish", host[h].held)
  /\ UNCHANGED <<auth, lock, creating, starts, helper, runs, verdict, faults>>

\* Mutant of FinishFence: the barrier ends without waiting for the lock.
FinishUnlocked(h) ==
  LET held == host[h].held
      done == Finish(auth.bar, Recs(auth))
      next == [auth EXCEPT !.rec = done.recs[Inv], !.bar = done.barrier]
  IN /\ host[h].pc = "finish" /\ ~Present(held.cid)
     /\ Goes(h, "idle", NoAuthority)
     /\ IF held.bar.closing
          THEN /\ MayFinish(auth.bar, Recs(auth)) /\ auth.bar.gen = held.bar.gen
               /\ auth' = next /\ Tell(next)
          ELSE Tell(held) /\ UNCHANGED auth
     /\ UNCHANGED <<lock, dockerVars, cmd, helper, runs, faults>>

\* The container is seen to be gone.  A barrier that was closing in the reply
\* is ended, after any helper that still holds the lock.
FinishFence(h) ==
  LET held == host[h].held
      done == Finish(auth.bar, Recs(auth))
      next == [auth EXCEPT !.rec = done.recs[Inv], !.bar = done.barrier]
  IN /\ host[h].pc = "finish" /\ ~Present(held.cid)
     /\ Goes(h, "idle", NoAuthority)
     /\ IF held.bar.closing
          THEN /\ lock = "free"
               /\ MayFinish(auth.bar, Recs(auth)) /\ auth.bar.gen = held.bar.gen
               /\ auth' = next /\ Tell(next)
          ELSE Tell(held) /\ UNCHANGED auth
     /\ UNCHANGED <<lock, dockerVars, cmd, helper, runs, faults>>

-----------------------------------------------------------------------------
(* Faults.                                                                 *)

\* A host dies, or loses an answer and gives up; its helper goes on.
HostCrash(h) ==
  /\ faults < MaxFaults /\ host[h].pc # "idle"
  /\ Goes(h, "idle", NoAuthority)
  /\ faults' = faults + 1
  /\ UNCHANGED <<auth, lock, dockerVars, cmd, helper, runs, verdict>>

\* A helper is killed: the lock of a dead process is free.
HelperKilled(h) ==
  /\ faults < MaxFaults /\ helper[h].pc # "none"
  /\ helper' = [helper EXCEPT ![h] = NoHelper]
  /\ lock' = IF lock = h THEN "free" ELSE lock
  /\ faults' = faults + 1
  /\ UNCHANGED <<auth, dockerVars, cmd, host, runs, verdict>>

ContainerExits(o) ==
  /\ faults < MaxFaults /\ cont[o] = "running"
  /\ cont' = [cont EXCEPT ![o] = "exited"] /\ Killed
  /\ faults' = faults + 1
  /\ UNCHANGED <<auth, lock, creating, starts, host, helper, runs, verdict>>

-----------------------------------------------------------------------------
Works(h) ==
  \/ Claim(h) \/ Create(h) \/ Inspect(h) \/ Bind(h)
  \/ Deliver(h) \/ Start(h) \/ SendHelper(h) \/ HelperAnswers(h)
  \/ Find(h) \/ BindFound(h) \/ Remove(h) \/ FinishFence(h)

Helps(h) ==
  Handshake(h) \/ Admit(h) \/ Accept(h) \/ Receive(h) \/ CompleteDelivery(h) \/ TransportFails(h)

Next ==
  \/ \E h \in Hosts : Prepare(h) \/ Works(h) \/ Helps(h) \/ \E f \in FenceIds : Fence(h, f)
  \/ \E o \in Owners : DaemonCreates(o) \/ ContainerExits(o)
  \/ \E v \in Results : Return(v)
  \/ \E h \in Hosts : HostCrash(h) \/ HelperKilled(h)

Spec == Init /\ [][Next]_vars

(***************************************************************************)
(* Fairness: calls return, the daemon serves its requests, and every pass  *)
(* of a worker reconciles the runs whose journal holds a fence, settled or *)
(* not (recover_norm_instance).                                            *)
(***************************************************************************)
FairSpec ==
  /\ Spec
  /\ \A h \in Hosts :
       /\ WF_vars(Works(h)) /\ WF_vars(Helps(h))
       /\ SF_vars(auth.rec.fence # NoFence /\ \E f \in FenceIds : Fence(h, f))
  /\ \A o \in Owners : WF_vars(DaemonCreates(o))

-----------------------------------------------------------------------------
(* Properties.                                                             *)

TypeOK ==
  /\ Valid(auth.rec) /\ auth.owner \in Owners \cup {NoOwner} /\ auth.cid \in {NoOwner, auth.owner}
  /\ lock \in Hosts \cup {"free"}
  /\ \A h \in Hosts : helper[h].pc \in {"send", "running", "received"} <=> lock = h
  /\ proc.inc # 0 <=> \E o \in Owners : cont[o] = "running"

\* The native executor makes the promise of ExecOutcome, whichever hosts
\* race, crash and restore, and whenever a creation takes effect.
Promise == INSTANCE ExecOutcome
KeepsPromise == Promise!Spec

\* An invocation has one container in all its life: neither a lost answer nor
\* a restored workflow's candidate makes a second one.
OneContainer ==
  \A o, p \in Owners : cont[o] # "none" /\ cont[p] # "none" => o = p

\* A result that reached a helper is retained: the barrier is not ended
\* between the response and its completion.
NoResultDiscarded ==
  \A h \in Hosts :
    helper[h].pc = "received" => MayComplete(auth.rec, helper[h].inc, helper[h].res)

\* A fence ends in a closure the workflow holds.
FenceCloses == auth.rec.fence # NoFence ~> verdict[Inv].said # "pending"

\* No container outlives a fence, a late creation included.
NoContainerLeft ==
  \A o \in Owners :
    (auth.rec.fence # NoFence /\ cont[o] # "none") ~> (cont[o] = "gone")

=============================================================================
