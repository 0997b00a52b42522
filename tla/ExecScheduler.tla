--------------------------- MODULE ExecScheduler ---------------------------
(***************************************************************************)
(* Admission to the executor pool.  The workspace broker grants each round *)
(* a slot of a container (BrokerScheduler in executor-broker.ts); inside a *)
(* container's process every round passes a second gate, a mutex with a    *)
(* condition variable (AdmissionGate in exec_server.rs).                   *)
(*                                                                         *)
(* A step of the broker is one synchronous turn of its object; a step of   *)
(* the gate is one critical section of its mutex, or the notification that *)
(* follows it.  The broker's state is in memory: an eviction, or a round   *)
(* that fails while its command goes on, lets go of slots that the         *)
(* containers still use.  Whether a round reached its container before it  *)
(* was lost, nobody knows: it may run later, or never.                     *)
(***************************************************************************)
EXTENDS Naturals, FiniteSets, Sequences

CONSTANTS Requests,      \* rounds submitted by workflow hosts
          Class,         \* their priority class, 0 best
          Pool,          \* number of containers
          Slots,         \* slots of a container, at the broker and at its gate
          MaxWaiting,    \* bound of the broker's queue
          MaxFaults      \* bound: evictions and failed rounds

Containers == 0 .. (Pool - 1)
Classes == 0 .. 2

ASSUME SchedulerAssumption ==
  /\ Class \in [Requests -> Classes]
  /\ Pool \in Nat /\ Slots \in Nat \ {0} /\ MaxWaiting \in Nat /\ MaxFaults \in Nat

VARIABLES
  free,      \* broker: free slots of each container
  queue,     \* broker: waiting rounds of each class, oldest first
  phase,     \* the round, as the broker sees it
  at,        \* the container a granted round was sent to
  gfree,     \* gate: free slots
  thread,    \* gate: the thread that handles the round
  ahead,     \* history: the rounds of its class that waited when the round asked
  faults

brokerVars == <<free, queue, phase, at>>
gateVars == <<gfree, thread>>
vars == <<free, queue, phase, at, gfree, thread, ahead, faults>>

Init ==
  /\ free = [c \in Containers |-> Slots]
  /\ queue = [p \in Classes |-> <<>>]
  /\ phase = [r \in Requests |-> "new"]
  /\ at = [r \in Requests |-> 0]
  /\ gfree = [c \in Containers |-> Slots]
  /\ thread = [r \in Requests |-> "none"]
  /\ ahead = [r \in Requests |-> {}]
  /\ faults = 0

-----------------------------------------------------------------------------
(* The broker.  Its operators work on the state <<free, queue, phase, at>>. *)

\* The container with the most free slots, the first of equals.
LeastLoadedFree(f) ==
  {c \in Containers :
     /\ f[c] > 0
     /\ \A d \in Containers : f[d] < f[c] \/ (f[d] = f[c] /\ c <= d)}

Grant(s, r, c) ==
  [free |-> [s.free EXCEPT ![c] = @ - 1], queue |-> s.queue,
   phase |-> [s.phase EXCEPT ![r] = "forwarded"], at |-> [s.at EXCEPT ![r] = c]]

WaitingCount(q) == Len(q[0]) + Len(q[1]) + Len(q[2])

BestClass(q) == CHOOSE p \in Classes : q[p] # <<>> /\ \A o \in Classes : q[o] # <<>> => p <= o

\* Mutant of ServeOne: the youngest round of the best class.
ServeYoungest(s) ==
  LET p == BestClass(s.queue)
  IN IF WaitingCount(s.queue) = 0 \/ LeastLoadedFree(s.free) = {} THEN s
     ELSE Grant([s EXCEPT !.queue[p] = SubSeq(@, 1, Len(@) - 1)],
                s.queue[p][Len(s.queue[p])], CHOOSE c \in LeastLoadedFree(s.free) : TRUE)

\* Grant a free slot, if there is one, to the oldest round of the best class.
ServeOne(s) ==
  LET p == BestClass(s.queue)
  IN IF WaitingCount(s.queue) = 0 \/ LeastLoadedFree(s.free) = {} THEN s
     ELSE Grant([s EXCEPT !.queue[p] = Tail(@)], Head(s.queue[p]),
                CHOOSE c \in LeastLoadedFree(s.free) : TRUE)

\* Mutant of ServeWaiters: a freed slot waits for the next request.
ServeNobody(start) == start

\* The loop: as long as a slot is free and somebody waits.
ServeWaiters(start) ==
  LET served[n \in 0 .. Pool * Slots] == IF n = 0 THEN start ELSE ServeOne(served[n - 1])
  IN served[Pool * Slots]

State == [free |-> free, queue |-> queue, phase |-> phase, at |-> at]

Becomes(s) == free' = s.free /\ queue' = s.queue /\ phase' = s.phase /\ at' = s.at

\* A round asks for a slot: granted at once, queued, or refused for good when
\* the pool is empty or the queue full.
Acquire(r) ==
  /\ phase[r] = "new"
  /\ \/ \E c \in LeastLoadedFree(free) : Becomes(Grant(State, r, c))
     \/ /\ Pool > 0 /\ LeastLoadedFree(free) = {} /\ WaitingCount(queue) < MaxWaiting
        /\ Becomes([State EXCEPT !.queue[Class[r]] = Append(@, r), !.phase[r] = "queued"])
     \/ /\ Pool = 0 \/ (LeastLoadedFree(free) = {} /\ WaitingCount(queue) >= MaxWaiting)
        /\ Becomes([State EXCEPT !.phase[r] = "refused"])
  /\ ahead' = [ahead EXCEPT ![r] = {q \in Requests : phase[q] = "queued" /\ Class[q] = Class[r]}]
  /\ UNCHANGED <<gateVars, faults>>

\* The round is over at the broker, with the container's answer or failed:
\* its slot is returned and the waiters are served in the same turn.
Release(r, outcome) ==
  Becomes(ServeWaiters([free |-> [free EXCEPT ![at[r]] = @ + 1], queue |-> queue,
                        phase |-> [phase EXCEPT ![r] = outcome], at |-> at]))

\* Mutant of Settle: the slot is returned when the command has started.
SettleEarly(r) ==
  /\ phase[r] = "forwarded" /\ thread[r] \in {"running", "done"}
  /\ Release(r, "settled")
  /\ UNCHANGED <<gateVars, ahead, faults>>

Settle(r) ==
  /\ phase[r] = "forwarded" /\ thread[r] = "done"
  /\ Release(r, "settled")
  /\ UNCHANGED <<gateVars, ahead, faults>>

\* The container answers before its gate: a malformed request, a script whose
\* hash differs, a barrier over the controller.
TurnAway(r) ==
  /\ phase[r] = "forwarded" /\ thread[r] = "none"
  /\ Release(r, "settled")
  /\ UNCHANGED <<gateVars, ahead, faults>>

-----------------------------------------------------------------------------
(* The gate of a container.                                                *)

WaitingAt(c, p) == {r \in Requests : at[r] = c /\ Class[r] = p /\ thread[r] \in {"asleep", "awake"}}

\* One pass of acquire's loop under the mutex: take a slot or wait.
Pass(r) ==
  LET c == at[r]
      taken == gfree[c] > 0 /\ \A p \in Classes : p < Class[r] => WaitingAt(c, p) = {}
  IN /\ gfree' = IF taken THEN [gfree EXCEPT ![c] = @ - 1] ELSE gfree
     /\ thread' = [thread EXCEPT ![r] = IF taken THEN "running" ELSE "asleep"]
     /\ UNCHANGED <<brokerVars, ahead, faults>>

\* A round that was lost may have reached the container all the same.
Enter(r) == phase[r] \in {"forwarded", "lost"} /\ thread[r] = "none" /\ Pass(r)

Recheck(r) == thread[r] = "awake" /\ Pass(r)

\* A condition variable may wake a thread by itself.
Spurious(r) ==
  /\ thread[r] = "asleep"
  /\ thread' = [thread EXCEPT ![r] = "awake"]
  /\ UNCHANGED <<brokerVars, gfree, ahead, faults>>

\* The command exited or was killed at its timeout.  The slot is free before
\* anybody is notified.
GateRelease(r) ==
  /\ thread[r] = "running"
  /\ gfree' = [gfree EXCEPT ![at[r]] = @ + 1]
  /\ thread' = [thread EXCEPT ![r] = "notifying"]
  /\ UNCHANGED <<brokerVars, ahead, faults>>

\* Mutant of Notify: one sleeper is woken instead of all.
NotifyOne(r) ==
  /\ thread[r] = "notifying"
  /\ LET sleepers == {q \in Requests : at[q] = at[r] /\ thread[q] = "asleep"}
     IN \/ sleepers = {} /\ thread' = [thread EXCEPT ![r] = "done"]
        \/ \E q \in sleepers : thread' = [thread EXCEPT ![r] = "done", ![q] = "awake"]
  /\ UNCHANGED <<brokerVars, gfree, ahead, faults>>

Notify(r) ==
  /\ thread[r] = "notifying"
  /\ thread' = [q \in Requests |-> IF q = r THEN "done"
                                   ELSE IF at[q] = at[r] /\ thread[q] = "asleep" THEN "awake"
                                   ELSE thread[q]]
  /\ UNCHANGED <<brokerVars, gfree, ahead, faults>>

-----------------------------------------------------------------------------
(* Faults.                                                                 *)

\* The fetch of a round fails at the broker, before the container has the round
\* or while it goes on with it.
Cut(r) ==
  /\ faults < MaxFaults /\ phase[r] = "forwarded"
  /\ Release(r, "lost")
  /\ faults' = faults + 1
  /\ UNCHANGED <<gateVars, ahead>>

\* The broker's object is evicted: slots and queue start anew.
Evict ==
  /\ faults < MaxFaults
  /\ \E r \in Requests : phase[r] \in {"queued", "forwarded"}
  /\ free' = [c \in Containers |-> Slots]
  /\ queue' = [p \in Classes |-> <<>>]
  /\ phase' = [r \in Requests |->
                 CASE phase[r] = "forwarded" -> "lost"
                   [] phase[r] = "queued" -> "dropped"
                   [] OTHER -> phase[r]]
  /\ faults' = faults + 1
  /\ UNCHANGED <<at, gateVars, ahead>>

-----------------------------------------------------------------------------
Gate(r) == Recheck(r) \/ GateRelease(r) \/ Notify(r)

Next ==
  \/ \E r \in Requests : \/ Acquire(r) \/ Settle(r) \/ TurnAway(r) \/ Cut(r)
                        \/ Enter(r) \/ Gate(r) \/ Spurious(r)
  \/ Evict

Spec == Init /\ [][Next]_vars

\* A round that was forwarded and not lost reaches its container and is answered,
\* threads that exist are scheduled and commands end (each is killed at its
\* timeout).  Nothing makes a host ask for a slot or a lost round arrive.
FairSpec ==
  /\ Spec
  /\ \A r \in Requests : /\ WF_vars(TurnAway(r) \/ (phase[r] = "forwarded" /\ Enter(r)))
                         /\ WF_vars(Gate(r))
                         /\ WF_vars(Settle(r))

-----------------------------------------------------------------------------
(* Properties.                                                             *)

TypeOK ==
  /\ free \in [Containers -> 0 .. Slots] /\ gfree \in [Containers -> 0 .. Slots]
  /\ \A p \in Classes : \A n \in 1 .. Len(queue[p]) :
       phase[queue[p][n]] = "queued" /\ Class[queue[p][n]] = p
  /\ WaitingCount(queue) = Cardinality({r \in Requests : phase[r] = "queued"})
  /\ WaitingCount(queue) <= MaxWaiting
  /\ \A c \in Containers :
       gfree[c] + Cardinality({r \in Requests : at[r] = c /\ thread[r] = "running"}) = Slots

\* The comment in acquire: a free slot never coexists with a waiting round,
\* so that a grant on arrival overtakes nobody.
NoIdleSlot == (\E c \in Containers : free[c] > 0) => WaitingCount(queue) = 0

\* A waiting round is overtaken by rounds of a better class only: within its
\* class no round that asked after it is granted a slot first.
NoOvertaking ==
  [][\A r, q \in Requests :
       /\ phase[r] # "forwarded" /\ phase'[r] = "forwarded"
       /\ phase[q] = "queued" /\ phase'[q] = "queued"
       => Class[r] < Class[q] \/ (Class[r] = Class[q] /\ q \notin ahead'[r])]_vars

\* SLOTS_PER_CONTAINER: the broker admits exactly as much per container as
\* the process will run without queueing, so the workspace queue is the only
\* queue: until the broker has lost a round, nobody waits at a gate.
OneQueue == faults = 0 => \A r \in Requests : thread[r] \notin {"asleep", "awake"}

\* A round is under way at the broker, or a thread of a gate has it.
UnderWay(r) == phase[r] \in {"queued", "forwarded"} \/ thread[r] \notin {"none", "done"}

\* A queued waiter is served in the end unless an eviction drops it, what was
\* forwarded is answered or lost, and a thread that came to a gate runs its
\* command, whatever its class and whoever was notified, also when the broker has
\* let go of the round.  The rounds are finitely many, so nothing stays under way
\* for ever exactly if there is always a later moment when nothing is.
AcceptedEnds == []<>(\A r \in Requests : ~UnderWay(r))

=============================================================================
