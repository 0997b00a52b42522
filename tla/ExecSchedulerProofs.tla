------------------------ MODULE ExecSchedulerProofs ------------------------
(***************************************************************************)
(* Theorems about ExecScheduler: no slot idles while a round waits, a      *)
(* round is overtaken by better classes only, also within its class in the *)
(* order of arrival (Ordered), and nobody waits at a gate until the broker *)
(* has lost a round.                                                       *)
(*                                                                         *)
(* The loop that serves the waiters is a recursive function.  Induction    *)
(* goes by the least counterexample, a consequence of WFMin: no free slot  *)
(* coexists with a waiter, so a release frees the only slot and the loop   *)
(* grants once; from then on it stands still (ServedOnce).  The accounting *)
(* of slots at the broker and at the gates is by cardinality (Booked,      *)
(* Seated).                                                                *)
(***************************************************************************)
EXTENDS ExecScheduler, FiniteSetTheorems, SequenceTheorems, WellFoundedInduction, TLAPS

-----------------------------------------------------------------------------
(* Least elements, and the iteration of one service.                       *)

\* A set of naturals with an element has a least one.
LEMMA Least ==
  ASSUME NEW S \in SUBSET Nat, S # {}
  PROVE  \E n \in S : \A m \in S : n <= m
  <1>1. IsWellFoundedOn(OpToRel(<, Nat), Nat)
    BY NatLessThanWellFounded
  <1>2. PICK n \in S : \A y \in S : ~(<<y, n>> \in OpToRel(<, Nat))
    BY <1>1, WFMin
  <1>3. \A y \in S : ~(y < n)
    BY <1>2 DEF OpToRel
  <1> QED BY <1>3

\* The prefix of the iteration up to k.
Iterates(f, start, k) == f = [n \in 0 .. k |-> IF n = 0 THEN start ELSE ServeOne(f[n - 1])]

\* The iteration exists, to any length.
LEMMA Iteration ==
  ASSUME NEW start, NEW k \in Nat
  PROVE  \E f : Iterates(f, start, k)
  <1> DEFINE Bad == {j \in Nat : ~\E f : Iterates(f, start, j)}
  <1>1. SUFFICES ASSUME Bad # {} PROVE FALSE
    BY <1>1
  <1>2. PICK j \in Bad : \A m \in Bad : j <= m
    BY <1>1, Least
  <1>3. j \in Nat /\ ~\E f : Iterates(f, start, j)
    BY <1>2
  <1>4. CASE j = 0
    <2> DEFINE f == [n \in 0 .. 0 |-> start]
    <2>1. Iterates(f, start, 0)
      BY DEF Iterates
    <2> QED BY <1>3, <1>4, <2>1
  <1>5. CASE j # 0
    <2>1. j - 1 \in Nat /\ j - 1 \notin Bad
      BY <1>2, <1>3, <1>5
    <2>2. PICK g : Iterates(g, start, j - 1)
      BY <2>1
    <2> DEFINE f == [n \in 0 .. j |-> IF n = j THEN ServeOne(g[j - 1]) ELSE g[n]]
    <2>3. \A n \in 0 .. (j - 1) : g[n] = IF n = 0 THEN start ELSE ServeOne(g[n - 1])
      BY <2>1, <2>2 DEF Iterates
    <2>4. \A n \in 0 .. j : f[n] = IF n = 0 THEN start ELSE ServeOne(f[n - 1])
      <3> TAKE n \in 0 .. j
      <3>1. CASE n = j
        BY <1>3, <1>5, <3>1
      <3>2. CASE n # j
        <4>1. n \in 0 .. (j - 1) /\ f[n] = g[n]
          BY <1>3, <3>2
        <4>2. n # 0 => n - 1 \in 0 .. j /\ n - 1 # j /\ f[n - 1] = g[n - 1]
          BY <1>3, <4>1
        <4> HIDE DEF f
        <4> QED BY <2>3, <4>1, <4>2
      <3> QED BY <3>1, <3>2
    <2>5. f = [n \in 0 .. j |-> f[n]]
      OBVIOUS
    <2> HIDE DEF f
    <2>6. Iterates(f, start, j)
      BY <2>4, <2>5 DEF Iterates
    <2> QED BY <1>3, <2>6
  <1> QED BY <1>4, <1>5

\* Where one service is enough, the loop does exactly that one.
LEMMA ServedOnce ==
  ASSUME NEW start, ServeOne(ServeOne(start)) = ServeOne(start), Pool * Slots \in Nat \ {0}
  PROVE  ServeWaiters(start) = ServeOne(start)
  <1> DEFINE K == Pool * Slots
             served == CHOOSE f : f = [n \in 0 .. K |-> IF n = 0 THEN start ELSE ServeOne(f[n - 1])]
  <1>1. ServeWaiters(start) = served[K]
    BY DEF ServeWaiters
  <1>2. \E f : f = [n \in 0 .. K |-> IF n = 0 THEN start ELSE ServeOne(f[n - 1])]
    BY Iteration DEF Iterates
  <1>3. served = [n \in 0 .. K |-> IF n = 0 THEN start ELSE ServeOne(served[n - 1])]
    BY <1>2
  <1> HIDE DEF served
  <1>4. \A n \in 0 .. K : served[n] = IF n = 0 THEN start ELSE ServeOne(served[n - 1])
    BY <1>3
  <1> DEFINE Bad == {n \in 1 .. K : served[n] # ServeOne(start)}
  <1>5. ASSUME Bad # {} PROVE FALSE
    <2>0. Bad \in SUBSET Nat
      OBVIOUS
    <2>1. PICK n \in Bad : \A m \in Bad : n <= m
      BY <1>5, <2>0, Least
    <2>2. n \in 1 .. K /\ served[n] = ServeOne(served[n - 1])
      BY <1>4, <2>1
    <2>3. CASE n = 1
      <3>1. n - 1 = 0 /\ served[0] = start
        BY <1>4, <2>3
      <3> QED BY <2>1, <2>2, <3>1
    <2>4. CASE n # 1
      <3>1. n - 1 \in 1 .. K /\ n - 1 \notin Bad
        BY <2>1, <2>2, <2>4
      <3> QED BY <2>1, <2>2, <3>1
    <2> QED BY <2>3, <2>4
  <1> QED BY <1>1, <1>5

-----------------------------------------------------------------------------
(* The choices of the broker.                                              *)

Phases == {"new", "queued", "forwarded", "settled", "lost", "dropped", "refused"}
Threads == {"none", "asleep", "awake", "running", "notifying", "done"}

Queues == [Classes -> Seq(Requests)]

\* A free slot means a container to grant it on, and the other way round.
LEMMA SlotToGrant ==
  ASSUME NEW f \in [Containers -> 0 .. Slots]
  PROVE  LeastLoadedFree(f) # {} <=> \E c \in Containers : f[c] > 0
  <1>a. Slots \in Nat /\ Pool \in Nat
    BY SchedulerAssumption
  <1>1. ASSUME NEW c \in Containers, f[c] > 0 PROVE LeastLoadedFree(f) # {}
    <2> DEFINE Loads == {Slots - f[d] : d \in Containers}
    <2>1. Loads \in SUBSET Nat /\ Loads # {}
      BY <1>a, <1>1
    <2>2. PICK load \in Loads : \A m \in Loads : load <= m
      BY <2>1, Least
    <2>3. PICK d \in Containers : load = Slots - f[d]
      BY <2>2
    <2>4. ASSUME NEW e \in Containers PROVE f[e] <= f[d]
      <3>1. Slots - f[e] \in Loads /\ f[e] \in 0 .. Slots /\ f[d] \in 0 .. Slots
        OBVIOUS
      <3>2. Slots - f[d] <= Slots - f[e]
        BY <2>2, <2>3, <3>1
      <3> QED BY <1>a, <3>1, <3>2
    <2> DEFINE Best == {e \in Containers : f[e] = f[d]}
    <2>5. Best \in SUBSET Nat /\ Best # {}
      BY <1>a, <2>3 DEF Containers
    <2>6. PICK b \in Best : \A m \in Best : b <= m
      BY <2>5, Least
    <2>7. f[b] > 0 /\ \A e \in Containers : f[e] < f[b] \/ (f[e] = f[b] /\ b <= e)
      BY <1>a, <1>1, <2>4, <2>6
    <2> QED BY <2>6, <2>7 DEF LeastLoadedFree
  <1> QED BY <1>1 DEF LeastLoadedFree

\* Nobody waits exactly when every queue is empty, and the best class is the
\* lowest that has a waiter.
LEMMA BestClassIsBest ==
  ASSUME NEW q \in Queues
  PROVE  /\ WaitingCount(q) \in Nat
         /\ WaitingCount(q) = 0 <=> \A p \in Classes : q[p] = <<>>
         /\ WaitingCount(q) # 0 =>
              /\ BestClass(q) \in Classes /\ q[BestClass(q)] # <<>>
              /\ \A o \in Classes : q[o] # <<>> => BestClass(q) <= o
  <1>1. Classes = {0, 1, 2}
    BY DEF Classes
  <1>2. \A p \in Classes : Len(q[p]) \in Nat /\ (Len(q[p]) = 0 <=> q[p] = <<>>)
    BY DEF Queues
  <1>3. WaitingCount(q) \in Nat /\ (WaitingCount(q) = 0 <=> \A p \in Classes : q[p] = <<>>)
    <2>1. /\ Len(q[0]) \in Nat /\ (Len(q[0]) = 0 <=> q[0] = <<>>)
          /\ Len(q[1]) \in Nat /\ (Len(q[1]) = 0 <=> q[1] = <<>>)
          /\ Len(q[2]) \in Nat /\ (Len(q[2]) = 0 <=> q[2] = <<>>)
      BY <1>1, <1>2
    <2>2. (\A p \in Classes : q[p] = <<>>) <=> (q[0] = <<>> /\ q[1] = <<>> /\ q[2] = <<>>)
      BY <1>1
    <2>3. \A k, m, n \in Nat : k + m + n \in Nat /\ (k + m + n = 0 <=> k = 0 /\ m = 0 /\ n = 0)
      OBVIOUS
    <2> DEFINE k == Len(q[0])
               m == Len(q[1])
               n == Len(q[2])
    <2>4. WaitingCount(q) = k + m + n
      BY DEF WaitingCount
    <2>5. k \in Nat /\ m \in Nat /\ n \in Nat
      BY <2>1
    <2> HIDE DEF k, m, n
    <2>6. WaitingCount(q) \in Nat /\ (WaitingCount(q) = 0 <=> k = 0 /\ m = 0 /\ n = 0)
      BY <2>3, <2>4, <2>5
    <2> QED BY <2>1, <2>2, <2>6 DEF k, m, n
  <1>4. ASSUME WaitingCount(q) # 0
        PROVE  \E p \in Classes : q[p] # <<>> /\ \A o \in Classes : q[o] # <<>> => p <= o
    <2>1. CASE q[0] # <<>>
      BY <1>1, <2>1
    <2>2. CASE q[0] = <<>> /\ q[1] # <<>>
      BY <1>1, <2>2
    <2>3. CASE q[0] = <<>> /\ q[1] = <<>>
      <3>1. q[2] # <<>>
        BY <1>1, <1>3, <1>4, <2>3
      <3> QED BY <1>1, <2>3, <3>1
    <2> QED BY <2>1, <2>2, <2>3
  <1> QED BY <1>3, <1>4 DEF BestClass

-----------------------------------------------------------------------------
(* The invariant.                                                          *)

Sent == {"forwarded", "lost", "settled"}

\* The rounds that hold a slot of a container at the broker, those that hold
\* one at its gate, and those that wait at the broker.
Out(c) == {r \in Requests : phase[r] = "forwarded" /\ at[r] = c}
In(c) == {r \in Requests : at[r] = c /\ thread[r] = "running"}
Waiting == {r \in Requests : phase[r] = "queued"}

Shape ==
  /\ free \in [Containers -> 0 .. Slots]
  /\ queue \in Queues
  /\ phase \in [Requests -> Phases]
  /\ at \in [Requests -> Nat]
  /\ gfree \in [Containers -> 0 .. Slots]
  /\ thread \in [Requests -> Threads]
  /\ faults \in Nat
  /\ \A r \in Requests : phase[r] \in Sent => at[r] \in Containers

\* The queues hold the waiting rounds, each once and in the queue of its class.
Queued ==
  /\ \A p \in Classes : \A n \in 1 .. Len(queue[p]) :
       phase[queue[p][n]] = "queued" /\ Class[queue[p][n]] = p
  /\ \A p \in Classes : \A m, n \in 1 .. Len(queue[p]) : m # n => queue[p][m] # queue[p][n]
  /\ \A r \in Requests : phase[r] = "queued" =>
       \E n \in 1 .. Len(queue[Class[r]]) : queue[Class[r]][n] = r

Counted ==
  /\ IsFiniteSet(Waiting) /\ WaitingCount(queue) = Cardinality(Waiting)
  /\ WaitingCount(queue) <= MaxWaiting

\* Every slot is free or held, at the broker and at the gates.
Booked == \A c \in Containers : IsFiniteSet(Out(c)) /\ free[c] + Cardinality(Out(c)) = Slots
Seated == \A c \in Containers : IsFiniteSet(In(c)) /\ gfree[c] + Cardinality(In(c)) = Slots

\* Who is at a gate was sent there; the broker is done with it only when its
\* thread is or it was turned away, unless the broker lost it.
Entered ==
  \A r \in Requests :
    /\ thread[r] # "none" => phase[r] \in Sent
    /\ phase[r] = "settled" => thread[r] \in {"none", "done"}
    /\ phase[r] = "lost" => faults # 0

Admission ==
  Shape /\ Queued /\ Counted /\ Booked /\ Seated /\ Entered /\ NoIdleSlot /\ OneQueue

\* A round that ends frees its slot, or hands it to the round that is next.
Frees(r, outcome) ==
  /\ WaitingCount(queue) = 0
  /\ free' = [free EXCEPT ![at[r]] = @ + 1]
  /\ queue' = queue
  /\ phase' = [phase EXCEPT ![r] = outcome]
  /\ at' = at

HandsOn(r, outcome, p, w) ==
  /\ \A c \in Containers : free[c] = 0
  /\ queue[p] # <<>> /\ w = Head(queue[p])
  /\ \A o \in Classes : queue[o] # <<>> => p <= o
  /\ free' = free
  /\ queue' = [queue EXCEPT ![p] = Tail(@)]
  /\ phase' = [[phase EXCEPT ![r] = outcome] EXCEPT ![w] = "forwarded"]
  /\ at' = [at EXCEPT ![w] = at[r]]

\* release: with nobody waiting the slot is free, else the loop grants it once.
LEMMA ReleaseDoes ==
  ASSUME Shape, Queued, NoIdleSlot,
         NEW r \in Requests, NEW outcome, phase[r] = "forwarded", free[at[r]] < Slots,
         Release(r, outcome)
  PROVE  Frees(r, outcome) \/ \E p \in Classes, w \in Requests : HandsOn(r, outcome, p, w)
  <1> DEFINE c == at[r]
             freed == [free EXCEPT ![c] = @ + 1]
             ended == [phase EXCEPT ![r] = outcome]
             start == [free |-> freed, queue |-> queue, phase |-> ended, at |-> at]
  <1>a. /\ Pool \in Nat /\ Slots \in Nat /\ Slots # 0
        /\ c \in Containers /\ free[c] \in 0 .. Slots /\ free[c] < Slots
    BY SchedulerAssumption DEF Shape, Sent
  <1>b. Pool # 0 /\ Pool * Slots \in Nat \ {0}
    <2>1. Pool # 0 /\ Pool > 0 /\ Slots > 0
      BY <1>a DEF Containers
    <2>2. Pool * Slots > 0
      BY <1>a, <2>1
    <2> QED BY <1>a, <2>1, <2>2
  <1>2. start.free = freed /\ start.queue = queue /\ start.phase = ended /\ start.at = at
    OBVIOUS
  <1>3. Becomes(ServeWaiters(start))
    BY DEF Release
  <1>4. queue \in Queues /\ freed \in [Containers -> 0 .. Slots]
    BY <1>a DEF Shape
  <1>5. CASE WaitingCount(queue) = 0
    <2>1. ServeOne(start) = start
      BY <1>2, <1>5 DEF ServeOne
    <2>2. ServeWaiters(start) = start
      BY <1>b, <2>1, ServedOnce
    <2> QED BY <1>2, <1>3, <1>5, <2>2 DEF Becomes, Frees
  <1>6. CASE WaitingCount(queue) # 0
    <2> DEFINE p == BestClass(queue)
               w == Head(queue[p])
               d == CHOOSE e \in LeastLoadedFree(freed) : TRUE
               next == Grant([start EXCEPT !.queue[p] = Tail(@)], w, d)
    <2>1. /\ p \in Classes /\ queue[p] # <<>>
          /\ \A o \in Classes : queue[o] # <<>> => p <= o
      BY <1>4, <1>6, BestClassIsBest
    <2>2. w \in Requests
      BY <1>4, <2>1 DEF Queues
    <2>3. \A e \in Containers : free[e] = 0
      BY <1>6 DEF NoIdleSlot, Shape
    <2>4. freed[c] = 1 /\ \A e \in Containers : e # c => freed[e] = 0
      BY <1>a, <2>3 DEF Shape
    <2>5. LeastLoadedFree(freed) # {}
      <3> HIDE DEF freed, c
      <3>1. freed[c] > 0
        BY <2>4
      <3> QED BY <1>4, <1>a, <3>1, SlotToGrant
    <2>6. d = c
      <3>1. d \in LeastLoadedFree(freed)
        BY <2>5
      <3> HIDE DEF d
      <3>2. d \in Containers /\ freed[d] > 0
        BY <3>1 DEF LeastLoadedFree
      <3> HIDE DEF freed
      <3> QED BY <2>4, <3>2
    <2>7. [freed EXCEPT ![c] = @ - 1] = free
      <3>1. freed[c] - 1 = 0 /\ free \in [Containers -> 0 .. Slots]
        BY <2>4 DEF Shape
      <3> QED BY <1>a, <2>3, <3>1
    <2>8. ServeOne(start) = next
      BY <1>2, <1>6, <2>5 DEF ServeOne
    <2>9. /\ next.free = free /\ next.queue = [queue EXCEPT ![p] = Tail(@)]
          /\ next.phase = [ended EXCEPT ![w] = "forwarded"] /\ next.at = [at EXCEPT ![w] = c]
      <3> DEFINE taken == [start EXCEPT !.queue[p] = Tail(@)]
      <3>1. /\ taken.free = freed /\ taken.phase = ended /\ taken.at = at
            /\ taken.queue = [queue EXCEPT ![p] = Tail(@)]
        OBVIOUS
      <3>2. /\ next.free = [taken.free EXCEPT ![d] = @ - 1] /\ next.queue = taken.queue
            /\ next.phase = [taken.phase EXCEPT ![w] = "forwarded"]
            /\ next.at = [taken.at EXCEPT ![w] = d]
        <4> HIDE DEF taken, d, w, start
        <4> QED BY DEF Grant, taken
      <3> HIDE DEF taken, freed, ended, d, w, p, c, next
      <3>3. next.free = [freed EXCEPT ![c] = @ - 1]
        BY <2>6, <3>1, <3>2
      <3>4. next.at = [at EXCEPT ![w] = c]
        BY <2>6, <3>1, <3>2
      <3>5. next.phase = [ended EXCEPT ![w] = "forwarded"]
        BY <3>1, <3>2
      <3> QED BY <2>7, <3>1, <3>2, <3>3, <3>4, <3>5
    <2>10. LeastLoadedFree(free) = {}
      BY <2>3, SlotToGrant DEF Shape
    <2> HIDE DEF next
    <2>11. ServeOne(next) = next
      BY <2>9, <2>10 DEF ServeOne
    <2>12. ServeWaiters(start) = next
      BY <1>b, <2>8, <2>11, ServedOnce
    <2>13. HandsOn(r, outcome, p, w)
      BY <1>3, <2>1, <2>3, <2>9, <2>12 DEF Becomes, HandsOn
    <2> QED BY <2>1, <2>2, <2>13
  <1> QED BY <1>5, <1>6

-----------------------------------------------------------------------------
(* Slots and queues, one round more or less.                               *)

\* A set with one element more, and with one less.
LEMMA OneMore ==
  ASSUME NEW S, NEW T, NEW x, IsFiniteSet(S), x \notin S, T = S \cup {x}
  PROVE  IsFiniteSet(T) /\ Cardinality(S) \in Nat /\ Cardinality(T) = Cardinality(S) + 1
  BY FS_AddElement, FS_CardinalityType

\* A set that loses an element counts one less.
LEMMA OneLess ==
  ASSUME NEW S, NEW T, NEW x, IsFiniteSet(S), x \in S, T = S \ {x}
  PROVE  IsFiniteSet(T) /\ Cardinality(S) \in Nat /\ Cardinality(T) = Cardinality(S) - 1
  BY FS_RemoveElement, FS_CardinalityType

\* A queue that grows or shrinks by one moves the count by one.
LEMMA CountMoves ==
  ASSUME NEW q \in Queues, NEW p \in Classes, NEW s \in Seq(Requests), NEW k \in Int,
         Len(s) = Len(q[p]) + k
  PROVE  WaitingCount([q EXCEPT ![p] = s]) = WaitingCount(q) + k
  <1>1. Classes = {0, 1, 2}
    BY DEF Classes
  <1>2. Len(q[0]) \in Nat /\ Len(q[1]) \in Nat /\ Len(q[2]) \in Nat
    BY <1>1 DEF Queues
  <1> DEFINE n == [q EXCEPT ![p] = s]
  <1>3. \A o \in Classes : n[o] = IF o = p THEN s ELSE q[o]
    BY DEF Queues
  <1> HIDE DEF n
  <1>4. /\ Len(n[0]) = IF p = 0 THEN Len(q[0]) + k ELSE Len(q[0])
        /\ Len(n[1]) = IF p = 1 THEN Len(q[1]) + k ELSE Len(q[1])
        /\ Len(n[2]) = IF p = 2 THEN Len(q[2]) + k ELSE Len(q[2])
    BY <1>1, <1>3
  <1>5. WaitingCount(n) = Len(n[0]) + Len(n[1]) + Len(n[2])
    BY DEF WaitingCount
  <1>6. WaitingCount(q) = Len(q[0]) + Len(q[1]) + Len(q[2])
    BY DEF WaitingCount
  <1>7. p = 0 \/ p = 1 \/ p = 2
    BY <1>1
  <1>8. WaitingCount(n) = WaitingCount(q) + k
    <2> DEFINE x == Len(q[0])
               y == Len(q[1])
               z == Len(q[2])
    <2>1. x \in Nat /\ y \in Nat /\ z \in Nat /\ WaitingCount(q) = x + y + z
      BY <1>2, <1>6
    <2>2. \/ WaitingCount(n) = (x + k) + y + z
          \/ WaitingCount(n) = x + (y + k) + z
          \/ WaitingCount(n) = x + y + (z + k)
      <3>1. CASE p = 0
        <4>1. Len(n[0]) = x + k /\ Len(n[1]) = y /\ Len(n[2]) = z
          BY <1>4, <3>1
        <4> QED BY <1>5, <4>1
      <3>2. CASE p = 1
        <4>1. Len(n[0]) = x /\ Len(n[1]) = y + k /\ Len(n[2]) = z
          BY <1>4, <3>2
        <4> QED BY <1>5, <4>1
      <3>3. CASE p = 2
        <4>1. Len(n[0]) = x /\ Len(n[1]) = y /\ Len(n[2]) = z + k
          BY <1>4, <3>3
        <4> QED BY <1>5, <4>1
      <3> QED BY <1>7, <3>1, <3>2, <3>3
    <2>3. \A a, b, c \in Nat :
            /\ (a + k) + b + c = (a + b + c) + k
            /\ a + (b + k) + c = (a + b + c) + k
            /\ a + b + (c + k) = (a + b + c) + k
      OBVIOUS
    <2> HIDE DEF x, y, z
    <2> QED BY <2>1, <2>2, <2>3
  <1> QED BY <1>8 DEF n

\* A round joins the queue of its class.
LEMMA Enqueued ==
  ASSUME Shape, Queued, Counted, NEW r \in Requests, phase[r] \notin {"queued", "forwarded"},
         WaitingCount(queue) < MaxWaiting,
         queue' = [queue EXCEPT ![Class[r]] = Append(@, r)],
         phase' = [phase EXCEPT ![r] = "queued"]
  PROVE  queue' \in Queues /\ Queued' /\ Counted'
  <1> DEFINE p == Class[r]
             s == Append(queue[p], r)
  <1>1. p \in Classes /\ queue[p] \in Seq(Requests) /\ Len(queue[p]) \in Nat
    <2>1. p \in Classes
      BY SchedulerAssumption
    <2> HIDE DEF p
    <2> QED BY <2>1 DEF Shape, Queues
  <1>2. /\ s \in Seq(Requests) /\ Len(s) = Len(queue[p]) + 1
        /\ \A n \in 1 .. Len(queue[p]) : s[n] = queue[p][n]
        /\ s[Len(queue[p]) + 1] = r
    BY <1>1, AppendProperties
  <1>3. queue' = [queue EXCEPT ![p] = s] /\ queue' \in Queues
    BY <1>1, <1>2 DEF Shape, Queues
  <1>4. \A o \in Classes : queue'[o] = IF o = p THEN s ELSE queue[o]
    BY <1>3 DEF Shape, Queues
  <1>5. \A q \in Requests : phase'[q] = IF q = r THEN "queued" ELSE phase[q]
    BY DEF Shape
  <1>6. \A o \in Classes : \A n \in 1 .. Len(queue[o]) :
          queue[o][n] \in Requests /\ queue[o][n] # r
    <2> SUFFICES ASSUME NEW o \in Classes, NEW n \in 1 .. Len(queue[o])
                 PROVE  queue[o][n] \in Requests /\ queue[o][n] # r
      OBVIOUS
    <2>1. queue[o] \in Seq(Requests)
      BY DEF Shape, Queues
    <2>2. queue[o][n] \in Requests
      BY <2>1
    <2>3. phase[queue[o][n]] = "queued"
      BY DEF Queued
    <2> QED BY <2>2, <2>3
  <1> HIDE DEF p, s
  <1>7. Queued'
    <2>1. ASSUME NEW o \in Classes, NEW n \in 1 .. Len(queue'[o])
          PROVE  phase'[queue'[o][n]] = "queued" /\ Class[queue'[o][n]] = o
      <3>1. CASE o = p /\ n = Len(queue[p]) + 1
        BY <1>2, <1>4, <1>5, <3>1 DEF p
      <3>2. CASE ~(o = p /\ n = Len(queue[p]) + 1)
        <4>1. n \in 1 .. Len(queue[o]) /\ queue'[o][n] = queue[o][n]
          BY <1>1, <1>2, <1>4, <3>2
        <4> QED BY <1>5, <1>6, <4>1 DEF Queued
      <3> QED BY <3>1, <3>2
    <2>2. ASSUME NEW o \in Classes, NEW m \in 1 .. Len(queue'[o]), NEW n \in 1 .. Len(queue'[o]), m # n
          PROVE  queue'[o][m] # queue'[o][n]
      <3>1. CASE o = p
        BY <1>1, <1>2, <1>4, <1>6, <2>2, <3>1 DEF Queued
      <3>2. CASE o # p
        BY <1>4, <2>2, <3>2 DEF Queued
      <3> QED BY <3>1, <3>2
    <2>3. ASSUME NEW q \in Requests, phase'[q] = "queued"
          PROVE  \E n \in 1 .. Len(queue'[Class[q]]) : queue'[Class[q]][n] = q
      <3>1. CASE q = r
        <4>1. Class[q] = p /\ Len(queue[p]) + 1 \in 1 .. Len(queue'[p])
          BY <1>1, <1>2, <1>4, <3>1 DEF p
        <4> QED BY <1>1, <1>2, <1>4, <3>1, <4>1
      <3>2. CASE q # r
        <4>1. Class[q] \in Classes
          BY SchedulerAssumption
        <4>2. PICK n \in 1 .. Len(queue[Class[q]]) : queue[Class[q]][n] = q
          BY <1>5, <2>3, <3>2 DEF Queued
        <4>3. n \in 1 .. Len(queue'[Class[q]]) /\ queue'[Class[q]][n] = q
          BY <1>1, <1>2, <1>4, <4>1, <4>2
        <4> QED BY <4>3
      <3> QED BY <3>1, <3>2
    <2> QED BY <2>1, <2>2, <2>3 DEF Queued
  <1>8. Counted'
    <2>1. Waiting' = Waiting \cup {r} /\ r \notin Waiting
      BY <1>5 DEF Waiting
    <2>2. IsFiniteSet(Waiting') /\ Cardinality(Waiting) \in Nat
          /\ Cardinality(Waiting') = Cardinality(Waiting) + 1
      BY <2>1, OneMore DEF Counted
    <2>3. WaitingCount(queue') = WaitingCount(queue) + 1
      <3>1. \A k \in Int : Len(s) = Len(queue[p]) + k
                             => WaitingCount([queue EXCEPT ![p] = s]) = WaitingCount(queue) + k
        BY <1>1, <1>2, CountMoves DEF Shape
      <3>2. 1 \in Int
        OBVIOUS
      <3> QED BY <1>2, <1>3, <3>1, <3>2
    <2>4. WaitingCount(queue) = Cardinality(Waiting) /\ MaxWaiting \in Nat
      BY SchedulerAssumption DEF Counted
    <2> HIDE DEF Waiting
    <2>5. WaitingCount(queue)' = WaitingCount(queue')
      BY DEF WaitingCount
    <2>6. WaitingCount(queue') = Cardinality(Waiting') /\ WaitingCount(queue') <= MaxWaiting
      BY <2>2, <2>3, <2>4
    <2> QED BY <2>2, <2>5, <2>6 DEF Counted
  <1> QED BY <1>3, <1>7, <1>8

\* The oldest round of a class leaves its queue; another round has ended.
LEMMA Dequeued ==
  ASSUME Shape, Queued, Counted,
         NEW p \in Classes, queue[p] # <<>>, NEW w, w = Head(queue[p]),
         NEW r \in Requests, phase[r] = "forwarded", NEW outcome, outcome # "queued",
         queue' = [queue EXCEPT ![p] = Tail(@)],
         phase' = [[phase EXCEPT ![r] = outcome] EXCEPT ![w] = "forwarded"]
  PROVE  queue' \in Queues /\ Queued' /\ Counted' /\ w \in Requests /\ phase[w] = "queued"
  <1> DEFINE s == Tail(queue[p])
  <1>1. queue[p] \in Seq(Requests) /\ Len(queue[p]) \in Nat /\ Len(queue[p]) # 0
    BY DEF Shape, Queues
  <1>2. /\ s \in Seq(Requests) /\ Len(s) = Len(queue[p]) - 1
        /\ \A n \in 1 .. Len(s) : s[n] = queue[p][n + 1]
        /\ w \in Requests
    BY <1>1, HeadTailProperties
  <1>3. w = queue[p][1] /\ 1 \in 1 .. Len(queue[p])
    BY <1>1
  <1>4. phase[w] = "queued" /\ Class[w] = p /\ w # r
    BY <1>3 DEF Queued
  <1>5. queue' = [queue EXCEPT ![p] = s] /\ queue' \in Queues
    BY <1>1, <1>2 DEF Shape, Queues
  <1>6. \A o \in Classes : queue'[o] = IF o = p THEN s ELSE queue[o]
    BY <1>5 DEF Shape, Queues
  <1>7. \A q \in Requests :
          phase'[q] = IF q = w THEN "forwarded" ELSE IF q = r THEN outcome ELSE phase[q]
    BY <1>2 DEF Shape
  <1>8. \A o \in Classes : \A n \in 1 .. Len(queue[o]) :
          /\ queue[o][n] \in Requests /\ queue[o][n] # r
          /\ queue[o][n] = w => o = p /\ n = 1
    <2> TAKE o \in Classes
    <2> TAKE n \in 1 .. Len(queue[o])
    <2>2. queue[o][n] \in Requests /\ queue[o][n] # r
      BY DEF Shape, Queues, Queued
    <2>3. queue[o][n] = w => o = p
      BY <1>4 DEF Queued
    <2>4. o = p /\ n # 1 => queue[o][n] # w
      BY <1>3 DEF Queued
    <2> QED BY <2>2, <2>3, <2>4
  <1> HIDE DEF s
  <1>9. Queued'
    <2>1. ASSUME NEW o \in Classes, NEW n \in 1 .. Len(queue'[o])
          PROVE  phase'[queue'[o][n]] = "queued" /\ Class[queue'[o][n]] = o
      <3>1. CASE o = p
        <4>1. n + 1 \in 1 .. Len(queue[p]) /\ queue'[o][n] = queue[p][n + 1] /\ n + 1 # 1
          BY <1>1, <1>2, <1>6, <3>1
        <4>2. /\ queue[p][n + 1] \in Requests /\ queue[p][n + 1] # r /\ queue[p][n + 1] # w
              /\ phase[queue[p][n + 1]] = "queued" /\ Class[queue[p][n + 1]] = p
          BY <1>8, <4>1 DEF Queued
        <4> QED BY <1>7, <3>1, <4>1, <4>2
      <3>2. CASE o # p
        <4>1. n \in 1 .. Len(queue[o]) /\ queue'[o][n] = queue[o][n]
          BY <1>6, <3>2
        <4>2. /\ queue[o][n] \in Requests /\ queue[o][n] # r /\ queue[o][n] # w
              /\ phase[queue[o][n]] = "queued" /\ Class[queue[o][n]] = o
          BY <1>8, <3>2, <4>1 DEF Queued
        <4> QED BY <1>7, <4>1, <4>2
      <3> QED BY <3>1, <3>2
    <2>2. ASSUME NEW o \in Classes, NEW m \in 1 .. Len(queue'[o]), NEW n \in 1 .. Len(queue'[o]), m # n
          PROVE  queue'[o][m] # queue'[o][n]
      <3>1. CASE o = p
        <4>1. /\ n + 1 \in 1 .. Len(queue[p]) /\ queue'[o][n] = queue[p][n + 1]
              /\ m + 1 \in 1 .. Len(queue[p]) /\ queue'[o][m] = queue[p][m + 1]
              /\ m + 1 # n + 1
          BY <1>1, <1>2, <1>6, <2>2, <3>1
        <4> QED BY <4>1 DEF Queued
      <3>2. CASE o # p
        BY <1>6, <2>2, <3>2 DEF Queued
      <3> QED BY <3>1, <3>2
    <2>3. ASSUME NEW q \in Requests, phase'[q] = "queued"
          PROVE  \E n \in 1 .. Len(queue'[Class[q]]) : queue'[Class[q]][n] = q
      <3>1. phase[q] = "queued" /\ q # w /\ Class[q] \in Classes
        BY <1>7, <2>3, SchedulerAssumption
      <3>2. PICK n \in 1 .. Len(queue[Class[q]]) : queue[Class[q]][n] = q
        BY <3>1 DEF Queued
      <3>3. CASE Class[q] = p
        <4>1. n # 1
          BY <1>3, <3>1, <3>2, <3>3
        <4>2. n - 1 \in 1 .. Len(s) /\ (n - 1) + 1 = n
          BY <1>1, <1>2, <3>2, <3>3, <4>1
        <4>3. queue'[Class[q]][n - 1] = q
          BY <1>2, <1>6, <3>2, <3>3, <4>2
        <4> QED BY <1>6, <3>3, <4>2, <4>3
      <3>4. CASE Class[q] # p
        BY <1>6, <3>1, <3>2, <3>4
      <3> QED BY <3>3, <3>4
    <2> QED BY <2>1, <2>2, <2>3 DEF Queued
  <1>10. Counted'
    <2>1. Waiting' = Waiting \ {w} /\ w \in Waiting
      BY <1>2, <1>4, <1>7 DEF Waiting
    <2>2. IsFiniteSet(Waiting') /\ Cardinality(Waiting) \in Nat
          /\ Cardinality(Waiting') = Cardinality(Waiting) - 1
      BY <2>1, OneLess DEF Counted
    <2>3. WaitingCount(queue') = WaitingCount(queue) + (-1)
      <3>1. \A k \in Int : Len(s) = Len(queue[p]) + k
                             => WaitingCount([queue EXCEPT ![p] = s]) = WaitingCount(queue) + k
        BY <1>2, CountMoves DEF Shape
      <3>2. -1 \in Int /\ Len(s) = Len(queue[p]) + (-1)
        BY <1>1, <1>2
      <3> QED BY <1>5, <3>1, <3>2
    <2>4. /\ WaitingCount(queue) = Cardinality(Waiting) /\ MaxWaiting \in Nat
          /\ WaitingCount(queue) <= MaxWaiting
      BY SchedulerAssumption DEF Counted
    <2> HIDE DEF Waiting
    <2>5. WaitingCount(queue)' = WaitingCount(queue')
      BY DEF WaitingCount
    <2>6. WaitingCount(queue') = Cardinality(Waiting') /\ WaitingCount(queue') <= MaxWaiting
      BY <2>2, <2>3, <2>4
    <2> QED BY <2>2, <2>5, <2>6 DEF Counted
  <1> QED BY <1>2, <1>4, <1>5, <1>9, <1>10

-----------------------------------------------------------------------------
(* The invariant is inductive.                                             *)

\* At the start every slot is free and nobody waits.
LEMMA InitAdmission == ASSUME Init PROVE Admission
  <1>1. Slots \in Nat /\ Slots # 0 /\ MaxWaiting \in Nat /\ 0 \in Classes /\ 1 \in Classes /\ 2 \in Classes
    BY SchedulerAssumption DEF Classes
  <1>2. Shape
    BY <1>1 DEF Init, Shape, Queues, Phases, Threads, Sent
  <1>3. Queued
    BY DEF Init, Queued
  <1>4. WaitingCount(queue) = 0
    <2>1. queue[0] = <<>> /\ queue[1] = <<>> /\ queue[2] = <<>>
      BY <1>1 DEF Init
    <2> QED BY <2>1 DEF WaitingCount
  <1>5. Counted
    <2>1. Waiting = {}
      BY DEF Init, Waiting
    <2> QED BY <1>1, <1>4, <2>1, FS_EmptySet DEF Counted
  <1>6. Booked
    <2>1. \A c \in Containers : Out(c) = {} /\ free[c] = Slots
      BY DEF Init, Out
    <2> QED BY <1>1, <2>1, FS_EmptySet DEF Booked
  <1>7. Seated
    <2>1. \A c \in Containers : In(c) = {} /\ gfree[c] = Slots
      BY DEF Init, In
    <2> QED BY <1>1, <2>1, FS_EmptySet DEF Seated
  <1>8. Entered /\ OneQueue
    BY DEF Init, Entered, OneQueue
  <1> QED BY <1>2, <1>3, <1>4, <1>5, <1>6, <1>7, <1>8 DEF Admission, NoIdleSlot

\* The broker sends nobody elsewhere who runs at a gate.
LEMMA GateUntouched ==
  ASSUME Seated, UNCHANGED gateVars, \A r \in Requests : thread[r] = "running" => at'[r] = at[r]
  PROVE  Seated'
  <1>1. \A c : In(c)' = In(c)
    BY DEF In, gateVars
  <1> QED BY <1>1 DEF Seated, gateVars

\* What the gates do leaves the broker's accounts alone.
LEMMA BrokerUntouched ==
  ASSUME Queued, Counted, Booked, NoIdleSlot, UNCHANGED brokerVars
  PROVE  Queued' /\ Counted' /\ Booked' /\ NoIdleSlot'
  <1>1. free' = free /\ queue' = queue /\ phase' = phase /\ at' = at
    BY DEF brokerVars
  <1>2. Waiting' = Waiting /\ \A c : Out(c)' = Out(c)
    BY <1>1 DEF Waiting, Out
  <1>3. Queued'
    BY <1>1 DEF Queued
  <1>4. Counted' /\ NoIdleSlot'
    BY <1>1, <1>2 DEF Counted, NoIdleSlot, WaitingCount
  <1>5. Booked'
    BY <1>1, <1>2 DEF Booked
  <1> QED BY <1>3, <1>4, <1>5

\* A round asks for a slot: granted, queued or refused.
LEMMA AcquireKeeps ==
  ASSUME Admission, NEW r \in Requests, Acquire(r)
  PROVE  Admission'
  <1>1. Shape /\ Queued /\ Counted /\ Booked /\ Seated /\ Entered /\ NoIdleSlot /\ OneQueue
    BY DEF Admission
  <1>2. phase[r] = "new" /\ UNCHANGED gateVars /\ faults' = faults /\ thread[r] = "none"
    BY <1>1 DEF Acquire, Entered, Sent
  <1>a. Slots \in Nat /\ Class[r] \in Classes
    BY SchedulerAssumption
  <1>3. ASSUME NEW c \in LeastLoadedFree(free), Becomes(Grant(State, r, c))
        PROVE  Admission'
    <2>1. /\ free' = [free EXCEPT ![c] = @ - 1] /\ queue' = queue
          /\ phase' = [phase EXCEPT ![r] = "forwarded"] /\ at' = [at EXCEPT ![r] = c]
      BY <1>3 DEF Becomes, Grant, State
    <2>2. c \in Containers /\ free[c] > 0 /\ free[c] \in 0 .. Slots
      BY <1>1 DEF LeastLoadedFree, Shape
    <2>3. /\ \A q \in Requests : phase'[q] = IF q = r THEN "forwarded" ELSE phase[q]
          /\ \A q \in Requests : at'[q] = IF q = r THEN c ELSE at[q]
          /\ \A d \in Containers : free'[d] = IF d = c THEN free[d] - 1 ELSE free[d]
      BY <1>1, <2>1, <2>2 DEF Shape
    <2>4. Shape'
      <3>1. free' \in [Containers -> 0 .. Slots]
        BY <1>1, <1>a, <2>1, <2>2 DEF Shape
      <3>2. phase' \in [Requests -> Phases] /\ at' \in [Requests -> Nat]
        <4>1. c \in Nat
          BY <2>2, SchedulerAssumption DEF Containers
        <4> QED BY <1>1, <2>1, <4>1 DEF Shape, Phases
      <3>3. \A q \in Requests : phase'[q] \in Sent => at'[q] \in Containers
        BY <1>1, <2>2, <2>3 DEF Shape
      <3> QED BY <1>1, <1>2, <2>1, <3>1, <3>2, <3>3 DEF Shape, gateVars
    <2>5. WaitingCount(queue) = 0 /\ queue \in Queues
      BY <1>1, <2>2 DEF NoIdleSlot, Shape
    <2>6. Queued' /\ Counted' /\ NoIdleSlot'
      <3>1. \A p \in Classes : \A n \in 1 .. Len(queue[p]) : queue[p][n] # r
        BY <1>1, <1>2 DEF Queued
      <3>2. Waiting' = Waiting
        BY <1>2, <2>3 DEF Waiting
      <3>3. Queued'
        <4>1. \A p \in Classes : \A n \in 1 .. Len(queue[p]) : queue[p][n] \in Requests
          BY <1>1 DEF Shape, Queues
        <4> QED BY <1>1, <2>1, <2>3, <3>1, <4>1 DEF Queued
      <3> QED BY <1>1, <2>1, <2>5, <3>2, <3>3 DEF Counted, NoIdleSlot, WaitingCount
    <2>7. Booked'
      <3>1. ASSUME NEW d \in Containers
            PROVE  IsFiniteSet(Out(d)') /\ free'[d] + Cardinality(Out(d)') = Slots
        <4>1. CASE d = c
          <5>1. Out(c)' = Out(c) \cup {r} /\ r \notin Out(c)
            BY <1>2, <2>3 DEF Out
          <5>2. /\ IsFiniteSet(Out(c)') /\ Cardinality(Out(c)) \in Nat
                /\ Cardinality(Out(c)') = Cardinality(Out(c)) + 1
            BY <1>1, <2>2, <5>1, OneMore DEF Booked
          <5>3. free[c] + Cardinality(Out(c)) = Slots /\ free'[c] = free[c] - 1
            BY <1>1, <2>2, <2>3 DEF Booked
          <5> QED BY <1>a, <2>2, <4>1, <5>2, <5>3
        <4>2. CASE d # c
          <5>1. Out(d)' = Out(d)
            BY <1>2, <2>3, <4>2 DEF Out
          <5> QED BY <1>1, <2>3, <4>2, <5>1 DEF Booked
        <4> QED BY <4>1, <4>2
      <3> QED BY <3>1 DEF Booked
    <2>8. Seated'
      BY <1>1, <1>2, <2>3, GateUntouched
    <2>9. Entered' /\ OneQueue'
      BY <1>1, <1>2, <2>3 DEF Entered, OneQueue, Sent, gateVars
    <2> QED BY <2>4, <2>6, <2>7, <2>8, <2>9 DEF Admission
  <1>4. ASSUME LeastLoadedFree(free) = {}, WaitingCount(queue) < MaxWaiting,
               Becomes([State EXCEPT !.queue[Class[r]] = Append(@, r), !.phase[r] = "queued"])
        PROVE  Admission'
    <2>1. /\ free' = free /\ queue' = [queue EXCEPT ![Class[r]] = Append(@, r)]
          /\ phase' = [phase EXCEPT ![r] = "queued"] /\ at' = at
      BY <1>4 DEF Becomes, State
    <2>2. queue' \in Queues /\ Queued' /\ Counted'
      BY <1>1, <1>2, <1>4, <2>1, Enqueued
    <2>3. \A q \in Requests : phase'[q] = IF q = r THEN "queued" ELSE phase[q]
      BY <1>1, <2>1 DEF Shape
    <2>4. Shape'
      <3>1. phase' \in [Requests -> Phases]
        BY <1>1, <2>1 DEF Shape, Phases
      <3>2. \A q \in Requests : phase'[q] \in Sent => at'[q] \in Containers
        BY <1>1, <2>1, <2>3 DEF Shape, Sent
      <3> QED BY <1>1, <1>2, <2>1, <2>2, <3>1, <3>2 DEF Shape, gateVars
    <2>5. NoIdleSlot'
      BY <1>1, <1>4, <2>1, SlotToGrant DEF NoIdleSlot, Shape
    <2>6. Booked'
      <3>1. \A c : Out(c)' = Out(c)
        BY <1>2, <2>1, <2>3 DEF Out
      <3> QED BY <1>1, <2>1, <3>1 DEF Booked
    <2>7. Seated'
      BY <1>1, <1>2, <2>1, GateUntouched
    <2>8. Entered' /\ OneQueue'
      BY <1>1, <1>2, <2>3 DEF Entered, OneQueue, Sent, gateVars
    <2> QED BY <2>2, <2>4, <2>5, <2>6, <2>7, <2>8 DEF Admission
  <1>5. ASSUME Becomes([State EXCEPT !.phase[r] = "refused"])
        PROVE  Admission'
    <2>1. /\ free' = free /\ queue' = queue
          /\ phase' = [phase EXCEPT ![r] = "refused"] /\ at' = at
      BY <1>5 DEF Becomes, State
    <2>2. \A q \in Requests : phase'[q] = IF q = r THEN "refused" ELSE phase[q]
      BY <1>1, <2>1 DEF Shape
    <2>3. Shape'
      <3>1. phase' \in [Requests -> Phases]
        BY <1>1, <2>1 DEF Shape, Phases
      <3>2. \A q \in Requests : phase'[q] \in Sent => at'[q] \in Containers
        BY <1>1, <2>1, <2>2 DEF Shape, Sent
      <3> QED BY <1>1, <1>2, <2>1, <3>1, <3>2 DEF Shape, gateVars
    <2>4. Queued'
      <3>1. \A p \in Classes : \A n \in 1 .. Len(queue[p]) : queue[p][n] # r /\ queue[p][n] \in Requests
        BY <1>1, <1>2 DEF Queued, Shape, Queues
      <3> QED BY <1>1, <2>1, <2>2, <3>1 DEF Queued
    <2>5. Counted' /\ NoIdleSlot' /\ Booked'
      <3>1. Waiting' = Waiting /\ \A c : Out(c)' = Out(c)
        BY <1>2, <2>1, <2>2 DEF Waiting, Out
      <3> QED BY <1>1, <2>1, <3>1 DEF Counted, NoIdleSlot, Booked, WaitingCount
    <2>6. Seated'
      BY <1>1, <1>2, <2>1, GateUntouched
    <2>7. Entered' /\ OneQueue'
      BY <1>1, <1>2, <2>2 DEF Entered, OneQueue, Sent, gateVars
    <2> QED BY <2>3, <2>4, <2>5, <2>6, <2>7 DEF Admission
  <1> QED BY <1>3, <1>4, <1>5 DEF Acquire

\* A round that ends, answered or lost.
LEMMA ReleaseKeeps ==
  ASSUME Admission, NEW r \in Requests, phase[r] = "forwarded",
         NEW outcome \in {"settled", "lost"}, Release(r, outcome), UNCHANGED gateVars,
         outcome = "settled" => thread[r] \in {"none", "done"} /\ faults' = faults,
         outcome = "lost" => faults' = faults + 1
  PROVE  Admission'
  <1>1. Shape /\ Queued /\ Counted /\ Booked /\ Seated /\ Entered /\ NoIdleSlot /\ OneQueue
    BY DEF Admission
  <1> DEFINE c == at[r]
  <1>2. /\ c \in Containers /\ free[c] \in 0 .. Slots /\ Slots \in Nat /\ faults \in Nat
        /\ r \in Out(c)
    BY <1>1, SchedulerAssumption DEF Shape, Sent, Out
  <1>3. /\ IsFiniteSet(Out(c)) /\ Cardinality(Out(c)) \in Nat /\ Cardinality(Out(c)) # 0
        /\ free[c] + Cardinality(Out(c)) = Slots
    BY <1>1, <1>2, FS_CardinalityType, FS_EmptySet DEF Booked
  <1>4. free[c] < Slots
    BY <1>2, <1>3
  <1>5. Frees(r, outcome) \/ \E p \in Classes, w \in Requests : HandsOn(r, outcome, p, w)
    BY <1>1, <1>4, ReleaseDoes
  <1>6. faults' \in Nat /\ (faults' = 0 => faults = 0) /\ (outcome = "lost" => faults' # 0)
    BY <1>2
  <1>7. gfree' = gfree /\ thread' = thread
    BY DEF gateVars
  <1>8. outcome \in Phases /\ outcome \in Sent /\ outcome # "queued" /\ outcome # "forwarded"
    BY DEF Phases, Sent
  <1>9. CASE Frees(r, outcome)
    <2>1. /\ WaitingCount(queue) = 0 /\ free' = [free EXCEPT ![c] = @ + 1] /\ queue' = queue
          /\ phase' = [phase EXCEPT ![r] = outcome] /\ at' = at
      BY <1>9 DEF Frees
    <2>2. /\ \A q \in Requests : phase'[q] = IF q = r THEN outcome ELSE phase[q]
          /\ \A d \in Containers : free'[d] = IF d = c THEN free[d] + 1 ELSE free[d]
      BY <1>1, <2>1 DEF Shape
    <2>3. Shape'
      <3>1. free' \in [Containers -> 0 .. Slots]
        BY <1>1, <1>2, <1>4, <2>1 DEF Shape
      <3>2. phase' \in [Requests -> Phases]
        BY <1>1, <1>8, <2>1 DEF Shape
      <3>3. \A q \in Requests : phase'[q] \in Sent => at'[q] \in Containers
        BY <1>1, <1>2, <2>1, <2>2 DEF Shape
      <3> QED BY <1>1, <1>6, <1>7, <2>1, <3>1, <3>2, <3>3 DEF Shape
    <2>4. Queued'
      <3>1. \A p \in Classes : \A n \in 1 .. Len(queue[p]) : queue[p][n] # r /\ queue[p][n] \in Requests
        BY <1>1 DEF Queued, Shape, Queues
      <3> QED BY <1>1, <1>8, <2>1, <2>2, <3>1 DEF Queued
    <2>5. Counted' /\ NoIdleSlot'
      <3>1. Waiting' = Waiting
        BY <1>8, <2>2 DEF Waiting
      <3> QED BY <1>1, <2>1, <3>1 DEF Counted, NoIdleSlot, WaitingCount
    <2>6. Booked'
      <3>1. ASSUME NEW d \in Containers
            PROVE  IsFiniteSet(Out(d)') /\ free'[d] + Cardinality(Out(d)') = Slots
        <4>1. CASE d = c
          <5>1. Out(d)' = Out(d) \ {r}
            BY <1>8, <2>1, <2>2, <4>1 DEF Out
          <5>2. IsFiniteSet(Out(d)') /\ Cardinality(Out(d)') = Cardinality(Out(d)) - 1
            BY <1>2, <1>3, <4>1, <5>1, OneLess
          <5>3. free'[d] = free[d] + 1
            BY <2>2, <4>1
          <5>4. \A k, m \in Nat : k + m = Slots => (k + 1) + (m - 1) = Slots
            BY <1>2
          <5>5. free[d] \in Nat /\ Cardinality(Out(d)) \in Nat /\ free[d] + Cardinality(Out(d)) = Slots
            BY <1>2, <1>3, <4>1
          <5> QED BY <5>2, <5>3, <5>4, <5>5
        <4>2. CASE d # c
          <5>1. Out(d)' = Out(d)
            BY <1>8, <2>1, <2>2, <4>2 DEF Out
          <5> QED BY <1>1, <2>2, <4>2, <5>1 DEF Booked
        <4> QED BY <4>1, <4>2
      <3> QED BY <3>1 DEF Booked
    <2>7. Seated'
      BY <1>1, <2>1, GateUntouched
    <2>8. Entered' /\ OneQueue'
      <3>1. OneQueue'
        BY <1>1, <1>6, <1>7 DEF OneQueue
      <3>2. ASSUME NEW q \in Requests
            PROVE  /\ thread'[q] # "none" => phase'[q] \in Sent
                   /\ phase'[q] = "settled" => thread'[q] \in {"none", "done"}
                   /\ phase'[q] = "lost" => faults' # 0
        BY <1>1, <1>2, <1>6, <1>7, <1>8, <2>2 DEF Entered
      <3> QED BY <3>1, <3>2 DEF Entered
    <2> QED BY <2>3, <2>4, <2>5, <2>6, <2>7, <2>8 DEF Admission
  <1>10. ASSUME NEW p \in Classes, NEW w \in Requests, HandsOn(r, outcome, p, w)
         PROVE  Admission'
    <2>1. /\ \A d \in Containers : free[d] = 0
          /\ queue[p] # <<>> /\ w = Head(queue[p])
          /\ free' = free /\ queue' = [queue EXCEPT ![p] = Tail(@)]
          /\ phase' = [[phase EXCEPT ![r] = outcome] EXCEPT ![w] = "forwarded"]
          /\ at' = [at EXCEPT ![w] = c]
      BY <1>10 DEF HandsOn
    <2>2. queue' \in Queues /\ Queued' /\ Counted' /\ phase[w] = "queued"
      BY <1>1, <1>8, <2>1, Dequeued
    <2>3. thread[w] = "none" /\ w # r
      BY <1>1, <2>2 DEF Entered, Sent
    <2>4. /\ \A q \in Requests :
               phase'[q] = IF q = w THEN "forwarded" ELSE IF q = r THEN outcome ELSE phase[q]
          /\ \A q \in Requests : at'[q] = IF q = w THEN c ELSE at[q]
      BY <1>1, <2>1 DEF Shape
    <2>5. Shape'
      <3>1. phase' \in [Requests -> Phases] /\ at' \in [Requests -> Nat]
        <4>1. "forwarded" \in Phases
          BY DEF Phases
        <4> QED BY <1>1, <1>8, <2>1, <4>1 DEF Shape
      <3>2. \A q \in Requests : phase'[q] \in Sent => at'[q] \in Containers
        BY <1>1, <1>2, <2>4 DEF Shape
      <3> QED BY <1>1, <1>6, <1>7, <2>1, <2>2, <3>1, <3>2 DEF Shape
    <2>6. NoIdleSlot'
      BY <2>1 DEF NoIdleSlot
    <2>7. Booked'
      <3>1. ASSUME NEW d \in Containers
            PROVE  IsFiniteSet(Out(d)') /\ free'[d] + Cardinality(Out(d)') = Slots
        <4>1. CASE d = c
          <5>1. Out(d)' = (Out(d) \ {r}) \cup {w} /\ w \notin Out(d)
            BY <1>8, <2>2, <2>3, <2>4, <4>1 DEF Out
          <5>2. /\ IsFiniteSet(Out(d) \ {r}) /\ Cardinality(Out(d)) \in Nat
                /\ Cardinality(Out(d) \ {r}) = Cardinality(Out(d)) - 1
            BY <1>2, <1>3, <4>1, OneLess
          <5>3. IsFiniteSet(Out(d)') /\ Cardinality(Out(d)') = Cardinality(Out(d) \ {r}) + 1
            BY <5>1, <5>2, OneMore
          <5>4. Cardinality(Out(d)') = Cardinality(Out(d))
            BY <5>2, <5>3
          <5>5. free'[d] + Cardinality(Out(d)') = Slots
            BY <1>3, <2>1, <4>1, <5>4
          <5> QED BY <5>3, <5>5
        <4>2. CASE d # c
          <5>1. Out(d)' = Out(d)
            BY <1>8, <2>2, <2>3, <2>4, <4>2 DEF Out
          <5> QED BY <1>1, <2>1, <5>1 DEF Booked
        <4> QED BY <4>1, <4>2
      <3> QED BY <3>1 DEF Booked
    <2>8. Seated'
      BY <1>1, <2>3, <2>4, GateUntouched
    <2>9. Entered' /\ OneQueue'
      <3>1. OneQueue'
        BY <1>1, <1>6, <1>7 DEF OneQueue
      <3>2. ASSUME NEW q \in Requests
            PROVE  /\ thread'[q] # "none" => phase'[q] \in Sent
                   /\ phase'[q] = "settled" => thread'[q] \in {"none", "done"}
                   /\ phase'[q] = "lost" => faults' # 0
        <4>1. "forwarded" \in Sent
          BY DEF Sent
        <4> QED BY <1>1, <1>2, <1>6, <1>7, <1>8, <2>4, <4>1 DEF Entered
      <3> QED BY <3>1, <3>2 DEF Entered
    <2> QED BY <2>2, <2>5, <2>6, <2>7, <2>8, <2>9 DEF Admission
  <1> QED BY <1>5, <1>9, <1>10

\* A pass of the gate.  Until the broker has lost a round, a round that comes
\* finds a slot: it has one at the broker that none of those inside has.
LEMMA PassKeeps ==
  ASSUME Admission, NEW r \in Requests, Enter(r) \/ Recheck(r)
  PROVE  Admission'
  <1>1. Shape /\ Queued /\ Counted /\ Booked /\ Seated /\ Entered /\ NoIdleSlot /\ OneQueue
    BY DEF Admission
  <1> DEFINE c == at[r]
             taken == gfree[c] > 0 /\ \A p \in Classes : p < Class[r] => WaitingAt(c, p) = {}
  <1>2. /\ gfree' = IF taken THEN [gfree EXCEPT ![c] = @ - 1] ELSE gfree
        /\ thread' = [thread EXCEPT ![r] = IF taken THEN "running" ELSE "asleep"]
        /\ UNCHANGED brokerVars /\ faults' = faults
    BY DEF Enter, Recheck, Pass
  <1>3. phase[r] \in Sent /\ thread[r] # "running" /\ thread[r] # "done"
    BY <1>1 DEF Enter, Recheck, Entered, Sent
  <1>4. /\ c \in Containers /\ gfree[c] \in 0 .. Slots /\ Slots \in Nat
        /\ free[c] \in 0 .. Slots
    BY <1>1, <1>3, SchedulerAssumption DEF Shape
  <1>5. Queued' /\ Counted' /\ Booked' /\ NoIdleSlot'
    BY <1>1, <1>2, BrokerUntouched
  <1>6. free' = free /\ queue' = queue /\ phase' = phase /\ at' = at
    BY <1>2 DEF brokerVars
  <1> HIDE DEF taken
  <1>7. \A q \in Requests :
          thread'[q] = IF q = r THEN IF taken THEN "running" ELSE "asleep" ELSE thread[q]
    BY <1>1, <1>2 DEF Shape
  <1>8. \A d \in Containers : gfree'[d] = IF taken /\ d = c THEN gfree[d] - 1 ELSE gfree[d]
    BY <1>1, <1>2 DEF Shape
  <1>9. taken => gfree[c] > 0
    BY DEF taken
  <1>10. Shape'
    <2>1. gfree' \in [Containers -> 0 .. Slots]
      BY <1>1, <1>2, <1>4, <1>9 DEF Shape
    <2>2. thread' \in [Requests -> Threads]
      BY <1>1, <1>2 DEF Shape, Threads
    <2> QED BY <1>1, <1>2, <1>6, <2>1, <2>2 DEF Shape
  <1>11. Seated'
    <2>1. ASSUME NEW d \in Containers
          PROVE  IsFiniteSet(In(d)') /\ gfree'[d] + Cardinality(In(d)') = Slots
      <3>1. CASE taken /\ d = c
        <4>1. In(d)' = In(d) \cup {r} /\ r \notin In(d)
          BY <1>3, <1>6, <1>7, <3>1 DEF In
        <4>2. /\ IsFiniteSet(In(d)') /\ Cardinality(In(d)) \in Nat
              /\ Cardinality(In(d)') = Cardinality(In(d)) + 1
          BY <1>1, <4>1, OneMore DEF Seated
        <4>3. gfree[d] + Cardinality(In(d)) = Slots /\ gfree'[d] = gfree[d] - 1 /\ gfree[d] \in Nat
          BY <1>1, <1>4, <1>8, <3>1 DEF Seated
        <4>4. \A k, m \in Nat : k + m = Slots => (k - 1) + (m + 1) = Slots
          BY <1>4
        <4> QED BY <4>2, <4>3, <4>4
      <3>2. CASE ~(taken /\ d = c)
        <4>1. In(d)' = In(d)
          BY <1>3, <1>6, <1>7, <3>2 DEF In
        <4> QED BY <1>1, <1>8, <3>2, <4>1 DEF Seated
      <3> QED BY <3>1, <3>2
    <2> QED BY <2>1 DEF Seated
  <1>12. Entered'
    <2>1. phase[r] # "settled"
      BY <1>1 DEF Enter, Recheck, Entered
    <2> QED BY <1>1, <1>2, <1>3, <1>6, <1>7, <2>1 DEF Entered
  <1>13. OneQueue'
    <2>1. SUFFICES ASSUME faults = 0 PROVE taken
      BY <1>1, <1>2, <1>7 DEF OneQueue
    <2>2. \A q \in Requests : thread[q] \notin {"asleep", "awake"}
      BY <1>1, <2>1 DEF OneQueue
    <2>3. phase[r] = "forwarded" /\ r \in Out(c)
      BY <1>1, <2>1, <2>2 DEF Enter, Recheck, Entered, Out
    <2>4. In(c) \subseteq Out(c) \ {r}
      BY <1>1, <1>3, <2>1 DEF In, Out, Entered, Sent
    <2>5. /\ IsFiniteSet(Out(c)) /\ Cardinality(Out(c)) \in Nat
          /\ free[c] + Cardinality(Out(c)) = Slots
          /\ gfree[c] + Cardinality(In(c)) = Slots /\ IsFiniteSet(In(c))
      BY <1>1, <1>4, FS_CardinalityType DEF Booked, Seated
    <2>6. /\ IsFiniteSet(Out(c) \ {r})
          /\ Cardinality(Out(c) \ {r}) = Cardinality(Out(c)) - 1
      BY <2>3, <2>5, OneLess
    <2>7. Cardinality(In(c)) <= Cardinality(Out(c) \ {r}) /\ Cardinality(In(c)) \in Nat
      BY <2>4, <2>5, <2>6, FS_Subset, FS_CardinalityType
    <2>8. gfree[c] > 0
      <3> DEFINE k == Cardinality(In(c))
                 m == Cardinality(Out(c))
      <3>1. k \in Nat /\ m \in Nat /\ k <= m - 1 /\ free[c] + m = Slots /\ gfree[c] + k = Slots
        BY <2>5, <2>6, <2>7
      <3> HIDE DEF k, m
      <3> QED BY <1>4, <3>1
    <2>9. \A p : WaitingAt(c, p) = {}
      BY <2>2 DEF WaitingAt
    <2> QED BY <2>8, <2>9 DEF taken
  <1> QED BY <1>5, <1>10, <1>11, <1>12, <1>13 DEF Admission

\* A command ends, a notification or a spurious wake-up.
LEMMA WakeKeeps ==
  ASSUME Admission, NEW r \in Requests, Spurious(r) \/ GateRelease(r) \/ Notify(r)
  PROVE  Admission'
  <1>1. Shape /\ Queued /\ Counted /\ Booked /\ Seated /\ Entered /\ NoIdleSlot /\ OneQueue
    BY DEF Admission
  <1>2. UNCHANGED brokerVars /\ faults' = faults
    BY DEF Spurious, GateRelease, Notify
  <1>3. Queued' /\ Counted' /\ Booked' /\ NoIdleSlot'
    BY <1>1, <1>2, BrokerUntouched
  <1>4. free' = free /\ queue' = queue /\ phase' = phase /\ at' = at
    BY <1>2 DEF brokerVars
  <1>5. CASE Spurious(r)
    <2>1. thread[r] = "asleep" /\ gfree' = gfree /\ thread' = [thread EXCEPT ![r] = "awake"]
      BY <1>5 DEF Spurious
    <2>2. \A q \in Requests : thread'[q] = IF q = r THEN "awake" ELSE thread[q]
      BY <1>1, <2>1 DEF Shape
    <2>3. Shape'
      <3>1. thread' \in [Requests -> Threads]
        BY <1>1, <2>1 DEF Shape, Threads
      <3> QED BY <1>1, <1>2, <1>4, <2>1, <3>1 DEF Shape
    <2>4. Seated'
      <3>1. \A c : In(c)' = In(c)
        BY <1>4, <2>1, <2>2 DEF In
      <3> QED BY <1>1, <2>1, <3>1 DEF Seated
    <2>5. Entered' /\ OneQueue'
      BY <1>1, <1>2, <1>4, <2>1, <2>2 DEF Entered, OneQueue
    <2> QED BY <1>3, <2>3, <2>4, <2>5 DEF Admission
  <1>6. CASE GateRelease(r)
    <2> DEFINE c == at[r]
    <2>1. /\ thread[r] = "running" /\ gfree' = [gfree EXCEPT ![c] = @ + 1]
          /\ thread' = [thread EXCEPT ![r] = "notifying"]
      BY <1>6 DEF GateRelease
    <2>2. \A q \in Requests : thread'[q] = IF q = r THEN "notifying" ELSE thread[q]
      BY <1>1, <2>1 DEF Shape
    <2>3. c \in Containers /\ gfree[c] \in 0 .. Slots /\ Slots \in Nat
      BY <1>1, <2>1, SchedulerAssumption DEF Shape, Entered
    <2>4. \A d \in Containers : gfree'[d] = IF d = c THEN gfree[d] + 1 ELSE gfree[d]
      BY <1>1, <2>1 DEF Shape
    <2>5. r \in In(c) /\ IsFiniteSet(In(c)) /\ gfree[c] + Cardinality(In(c)) = Slots
      BY <1>1, <2>1, <2>3 DEF In, Seated
    <2>6. /\ IsFiniteSet(In(c) \ {r}) /\ Cardinality(In(c)) \in Nat
          /\ Cardinality(In(c) \ {r}) = Cardinality(In(c)) - 1 /\ Cardinality(In(c) \ {r}) \in Nat
      BY <2>5, OneLess, FS_CardinalityType
    <2>7. gfree[c] + 1 \in 0 .. Slots
      <3> DEFINE k == Cardinality(In(c))
      <3>1. k \in Nat /\ k - 1 \in Nat /\ gfree[c] + k = Slots
        BY <2>5, <2>6
      <3> HIDE DEF k
      <3> QED BY <2>3, <3>1
    <2>8. Shape'
      <3>1. gfree' \in [Containers -> 0 .. Slots]
        BY <1>1, <2>1, <2>7 DEF Shape
      <3>2. thread' \in [Requests -> Threads]
        BY <1>1, <2>1 DEF Shape, Threads
      <3> QED BY <1>1, <1>2, <1>4, <3>1, <3>2 DEF Shape
    <2>9. Seated'
      <3>1. ASSUME NEW d \in Containers
            PROVE  IsFiniteSet(In(d)') /\ gfree'[d] + Cardinality(In(d)') = Slots
        <4>1. CASE d = c
          <5>1. In(d)' = In(d) \ {r} /\ gfree'[d] = gfree[d] + 1
            BY <1>4, <2>2, <2>4, <4>1 DEF In
          <5>2. \A k, m \in Nat : k + m = Slots => (k + 1) + (m - 1) = Slots
            BY <2>3
          <5>3. /\ gfree[d] \in Nat /\ Cardinality(In(d)) \in Nat /\ gfree[d] + Cardinality(In(d)) = Slots
                /\ IsFiniteSet(In(d)') /\ Cardinality(In(d)') = Cardinality(In(d)) - 1
            BY <2>3, <2>5, <2>6, <4>1, <5>1
          <5> QED BY <5>1, <5>2, <5>3
        <4>2. CASE d # c
          <5>1. In(d)' = In(d)
            BY <1>4, <2>2, <4>2 DEF In
          <5> QED BY <1>1, <2>4, <4>2, <5>1 DEF Seated
        <4> QED BY <4>1, <4>2
      <3> QED BY <3>1 DEF Seated
    <2>10. Entered' /\ OneQueue'
      BY <1>1, <1>2, <1>4, <2>1, <2>2 DEF Entered, OneQueue
    <2> QED BY <1>3, <2>8, <2>9, <2>10 DEF Admission
  <1>7. CASE Notify(r)
    <2>1. /\ thread[r] = "notifying" /\ gfree' = gfree
          /\ thread' = [q \in Requests |-> IF q = r THEN "done"
                                           ELSE IF at[q] = at[r] /\ thread[q] = "asleep" THEN "awake"
                                           ELSE thread[q]]
      BY <1>7 DEF Notify
    <2>2. \A q \in Requests :
            /\ thread'[q] = IF q = r THEN "done"
                            ELSE IF at[q] = at[r] /\ thread[q] = "asleep" THEN "awake" ELSE thread[q]
            /\ thread[q] \in Threads
      BY <1>1, <2>1 DEF Shape
    <2>3. Shape'
      <3>1. thread' \in [Requests -> Threads]
        BY <2>1, <2>2 DEF Threads
      <3> QED BY <1>1, <1>2, <1>4, <2>1, <3>1 DEF Shape
    <2>4. Seated'
      <3>1. \A c : In(c)' = In(c)
        BY <1>4, <2>1, <2>2 DEF In
      <3> QED BY <1>1, <2>1, <3>1 DEF Seated
    <2>5. Entered' /\ OneQueue'
      BY <1>1, <1>2, <1>4, <2>1, <2>2 DEF Entered, OneQueue
    <2> QED BY <1>3, <2>3, <2>4, <2>5 DEF Admission
  <1> QED BY <1>5, <1>6, <1>7

\* The broker's object starts anew: its accounts are those of the start.
LEMMA EvictKeeps ==
  ASSUME Admission, Evict
  PROVE  Admission'
  <1>1. Shape /\ Queued /\ Counted /\ Booked /\ Seated /\ Entered /\ NoIdleSlot /\ OneQueue
    BY DEF Admission
  <1>2. /\ free' = [c \in Containers |-> Slots] /\ queue' = [p \in Classes |-> <<>>]
        /\ phase' = [r \in Requests |->
                       CASE phase[r] = "forwarded" -> "lost"
                         [] phase[r] = "queued" -> "dropped"
                         [] OTHER -> phase[r]]
        /\ faults' = faults + 1 /\ at' = at /\ gfree' = gfree /\ thread' = thread
    BY DEF Evict, gateVars
  <1>3. \A r \in Requests :
          phase'[r] = IF phase[r] = "forwarded" THEN "lost"
                      ELSE IF phase[r] = "queued" THEN "dropped" ELSE phase[r]
    BY <1>2
  <1>4. faults' \in Nat /\ faults' # 0 /\ Slots \in Nat /\ MaxWaiting \in Nat
    BY <1>1, <1>2, SchedulerAssumption DEF Shape
  <1>5. \A r \in Requests : phase'[r] \notin {"queued", "forwarded"}
    BY <1>3
  <1>6. Shape'
    <2>1. free' \in [Containers -> 0 .. Slots] /\ queue' \in Queues
      BY <1>2, <1>4 DEF Queues
    <2>2. phase' \in [Requests -> Phases]
      BY <1>1, <1>2 DEF Shape, Phases
    <2>3. \A r \in Requests : phase'[r] \in Sent => at'[r] \in Containers
      BY <1>1, <1>2, <1>3 DEF Shape, Sent
    <2> QED BY <1>1, <1>2, <1>4, <2>1, <2>2, <2>3 DEF Shape
  <1>7. Queued'
    <2>1. \A p \in Classes : Len(queue'[p]) = 0
      BY <1>2
    <2> QED BY <1>5, <2>1 DEF Queued
  <1>8. WaitingCount(queue') = 0
    <2>1. queue'[0] = <<>> /\ queue'[1] = <<>> /\ queue'[2] = <<>>
      BY <1>2 DEF Classes
    <2> QED BY <2>1 DEF WaitingCount
  <1>9. Counted' /\ NoIdleSlot'
    <2>1. Waiting' = {}
      BY <1>5 DEF Waiting
    <2>2. WaitingCount(queue)' = WaitingCount(queue')
      BY DEF WaitingCount
    <2> QED BY <1>4, <1>8, <2>1, <2>2, FS_EmptySet DEF Counted, NoIdleSlot
  <1>10. Booked'
    <2>1. \A c \in Containers : Out(c)' = {} /\ free'[c] = Slots
      BY <1>2, <1>5 DEF Out
    <2> QED BY <1>4, <2>1, FS_EmptySet DEF Booked
  <1>11. Seated'
    <2>1. UNCHANGED gateVars
      BY <1>2 DEF gateVars
    <2> QED BY <1>1, <1>2, <2>1, GateUntouched
  <1>12. Entered' /\ OneQueue'
    BY <1>1, <1>2, <1>3, <1>4 DEF Entered, OneQueue, Sent
  <1> QED BY <1>6, <1>7, <1>9, <1>10, <1>11, <1>12 DEF Admission

\* Every step keeps the accounts of the broker and of the gates.
THEOREM SlotsAreAccounted == Spec => []Admission
  <1>1. Init => Admission
    BY InitAdmission
  <1>2. Admission /\ [Next]_vars => Admission'
    <2> SUFFICES ASSUME Admission, [Next]_vars PROVE Admission'
      OBVIOUS
    <2>1. ASSUME NEW r \in Requests, Acquire(r) PROVE Admission'
      BY <2>1, AcquireKeeps
    <2>2. ASSUME NEW r \in Requests, Settle(r) \/ TurnAway(r) PROVE Admission'
      BY <2>2, ReleaseKeeps DEF Settle, TurnAway
    <2>3. ASSUME NEW r \in Requests, Cut(r) PROVE Admission'
      BY <2>3, ReleaseKeeps DEF Cut
    <2>4. ASSUME NEW r \in Requests, Enter(r) \/ Recheck(r) PROVE Admission'
      BY <2>4, PassKeeps
    <2>5. ASSUME NEW r \in Requests, Spurious(r) \/ GateRelease(r) \/ Notify(r) PROVE Admission'
      BY <2>5, WakeKeeps
    <2>6. CASE Evict
      BY <2>6, EvictKeeps
    <2>7. CASE UNCHANGED vars
      <3>1. UNCHANGED brokerVars /\ UNCHANGED gateVars /\ faults' = faults
        BY <2>7 DEF vars, brokerVars, gateVars
      <3>2. free' = free /\ queue' = queue /\ phase' = phase /\ at' = at
            /\ gfree' = gfree /\ thread' = thread
        BY <3>1 DEF brokerVars, gateVars
      <3>3. Queued' /\ Counted' /\ Booked' /\ NoIdleSlot' /\ Seated'
        BY <3>1, <3>2, BrokerUntouched, GateUntouched DEF Admission
      <3>4. Shape' /\ Entered' /\ OneQueue'
        BY <3>1, <3>2 DEF Admission, Shape, Entered, OneQueue
      <3> QED BY <3>3, <3>4 DEF Admission
    <2> QED BY <2>1, <2>2, <2>3, <2>4, <2>5, <2>6, <2>7 DEF Next, Gate
  <1> QED BY <1>1, <1>2, PTL DEF Spec

-----------------------------------------------------------------------------
(* What the invariant gives.                                               *)

\* Slots are neither lost nor made, at the broker and at the gates, and the
\* queues hold exactly the waiting rounds, within the bound.
THEOREM SchedulerTypeCorrect == Spec => []TypeOK
  <1>1. Admission => TypeOK
    <2> SUFFICES ASSUME Admission PROVE TypeOK
      OBVIOUS
    <2>1. \A c \in Containers : In(c) = {r \in Requests : at[r] = c /\ thread[r] = "running"}
      BY DEF In
    <2>2. Waiting = {r \in Requests : phase[r] = "queued"}
      BY DEF Waiting
    <2>3. /\ free \in [Containers -> 0 .. Slots] /\ gfree \in [Containers -> 0 .. Slots]
          /\ WaitingCount(queue) = Cardinality(Waiting) /\ WaitingCount(queue) <= MaxWaiting
      BY DEF Admission, Shape, Counted
    <2>4. \A p \in Classes : \A n \in 1 .. Len(queue[p]) :
            phase[queue[p][n]] = "queued" /\ Class[queue[p][n]] = p
      BY DEF Admission, Queued
    <2>5. \A c \in Containers : gfree[c] + Cardinality(In(c)) = Slots
      BY DEF Admission, Seated
    <2> QED BY <2>1, <2>2, <2>3, <2>4, <2>5 DEF TypeOK
  <1> QED BY <1>1, SlotsAreAccounted, PTL

\* The comment in acquire: no slot is free while a round waits.
THEOREM NoSlotIdles == Spec => []NoIdleSlot
  <1>1. Admission => NoIdleSlot
    BY DEF Admission
  <1> QED BY <1>1, SlotsAreAccounted, PTL

\* Until the broker has lost a round, nobody waits at a gate.
THEOREM QueueIsTheOnlyOne == Spec => []OneQueue
  <1>1. Admission => OneQueue
    BY DEF Admission
  <1> QED BY <1>1, SlotsAreAccounted, PTL

\* Within a class the queue is in the order of asking: who stands behind had not
\* asked when the one before asked.
Ordered ==
  /\ ahead \in [Requests -> SUBSET Requests]
  /\ \A r, q \in Requests : r \in ahead[q] => phase[r] # "new"
  /\ \A p \in Classes : \A i, j \in 1 .. Len(queue[p]) :
       i < j => queue[p][j] \notin ahead[queue[p][i]]

\* A round that ends takes at most the first one out of a queue.
LEMMA ReleaseOrders ==
  ASSUME Admission, Ordered, NEW r \in Requests, phase[r] = "forwarded",
         NEW outcome \in {"settled", "lost"}, Release(r, outcome), ahead' = ahead
  PROVE  /\ Ordered'
         /\ \/ \A q \in Requests : phase'[q] = "forwarded" => phase[q] = "forwarded"
            \/ \E p \in Classes, w \in Requests : HandsOn(r, outcome, p, w)
  <1>1. Shape /\ Queued /\ Booked /\ NoIdleSlot
    BY DEF Admission
  <1>2. free[at[r]] < Slots
    <2>1. at[r] \in Containers /\ r \in Out(at[r])
      BY <1>1 DEF Shape, Sent, Out
    <2>2. /\ IsFiniteSet(Out(at[r])) /\ Cardinality(Out(at[r])) \in Nat
          /\ Cardinality(Out(at[r])) # 0 /\ free[at[r]] + Cardinality(Out(at[r])) = Slots
      BY <1>1, <2>1, FS_CardinalityType, FS_EmptySet DEF Booked
    <2>3. free[at[r]] \in Nat /\ Slots \in Nat
      BY <1>1, <2>1, SchedulerAssumption DEF Shape
    <2> QED BY <2>2, <2>3
  <1>3. Frees(r, outcome) \/ \E p \in Classes, w \in Requests : HandsOn(r, outcome, p, w)
    BY <1>1, <1>2, ReleaseDoes
  <1>4. CASE Frees(r, outcome)
    <2>1. queue' = queue /\ \A q \in Requests : phase'[q] = IF q = r THEN outcome ELSE phase[q]
      BY <1>1, <1>4 DEF Frees, Shape
    <2> QED BY <2>1 DEF Ordered
  <1>5. ASSUME NEW p \in Classes, NEW w \in Requests, HandsOn(r, outcome, p, w)
        PROVE  Ordered'
    <2>1. \A q \in Requests : phase'[q] \in {phase[q], outcome, "forwarded"}
      BY <1>1, <1>5 DEF HandsOn, Shape
    <2>2. queue[p] \in Seq(Requests) /\ queue[p] # <<>>
      BY <1>1, <1>5 DEF HandsOn, Shape, Queues
    <2>3. /\ Len(Tail(queue[p])) = Len(queue[p]) - 1 /\ Len(queue[p]) \in Nat
          /\ \A i \in 1 .. Len(Tail(queue[p])) : Tail(queue[p])[i] = queue[p][i + 1]
      BY <2>2
    <2>4. \A o \in Classes : queue'[o] = IF o = p THEN Tail(queue[p]) ELSE queue[o]
      BY <1>1, <1>5 DEF HandsOn, Shape, Queues
    <2>5. ASSUME NEW o \in Classes, NEW i \in 1 .. Len(queue'[o]), NEW j \in 1 .. Len(queue'[o]),
                 i < j
          PROVE  queue'[o][j] \notin ahead[queue'[o][i]]
      <3>1. CASE o # p
        BY <2>4, <2>5, <3>1 DEF Ordered
      <3>2. CASE o = p
        <4>1. /\ queue'[o][i] = queue[p][i + 1] /\ queue'[o][j] = queue[p][j + 1]
              /\ i + 1 \in 1 .. Len(queue[p]) /\ j + 1 \in 1 .. Len(queue[p]) /\ i + 1 < j + 1
          <5>1. queue'[o] = Tail(queue[p]) /\ Len(queue'[o]) = Len(queue[p]) - 1
            BY <2>3, <2>4, <3>2
          <5>2. i \in 1 .. (Len(queue[p]) - 1) /\ j \in 1 .. (Len(queue[p]) - 1)
            BY <2>5, <5>1
          <5>3. queue'[o][i] = queue[p][i + 1] /\ queue'[o][j] = queue[p][j + 1]
            BY <2>3, <5>1, <5>2
          <5>4. \A n \in Nat, x, y \in Int :
                  /\ x \in 1 .. (n - 1) /\ y \in 1 .. (n - 1) /\ x < y
                  => x + 1 \in 1 .. n /\ y + 1 \in 1 .. n /\ x + 1 < y + 1
            OBVIOUS
          <5>5. i + 1 \in 1 .. Len(queue[p]) /\ j + 1 \in 1 .. Len(queue[p]) /\ i + 1 < j + 1
            BY <2>3, <2>5, <5>2, <5>4
          <5> QED BY <5>3, <5>5
        <4> QED BY <4>1 DEF Ordered
      <3> QED BY <3>1, <3>2
    <2> QED BY <2>1, <2>5 DEF Ordered
  <1>6. ASSUME Frees(r, outcome), NEW q \in Requests, phase'[q] = "forwarded"
        PROVE  phase[q] = "forwarded"
    BY <1>1, <1>6 DEF Frees, Shape
  <1> QED BY <1>3, <1>4, <1>5, <1>6

\* A round that asks goes behind those that wait, or waits for nothing.
LEMMA AcquireOrders ==
  ASSUME Admission, Ordered, NEW r \in Requests, Acquire(r)
  PROVE  Ordered'
  <1>1. Shape /\ Queued
    BY DEF Admission
  <1> DEFINE now == {q \in Requests : phase[q] = "queued" /\ Class[q] = Class[r]}
  <1>2. /\ phase[r] = "new" /\ ahead' = [ahead EXCEPT ![r] = now]
    BY DEF Acquire
  <1>3. \A q \in Requests : ahead'[q] = IF q = r THEN now ELSE ahead[q]
    BY <1>2 DEF Ordered
  <1>4. \A o \in Classes : \A n \in 1 .. Len(queue[o]) :
          queue[o][n] \in Requests /\ queue[o][n] # r
    BY <1>1, <1>2 DEF Shape, Queues, Queued
  <1>5. \A q \in Requests : q # r => phase'[q] = phase[q]
    <2>1. CASE \E c \in LeastLoadedFree(free) : Becomes(Grant(State, r, c))
      BY <1>1, <2>1 DEF Becomes, Grant, State, Shape
    <2>2. CASE LeastLoadedFree(free) = {}
      BY <1>1, <2>2 DEF Acquire, Becomes, State, Shape
    <2>3. CASE Pool = 0
      BY <1>1, <2>3 DEF Acquire, Becomes, Grant, State, Shape
    <2> QED BY <2>1, <2>2, <2>3 DEF Acquire
  <1>6. phase'[r] # "new"
    <2>1. CASE \E c \in LeastLoadedFree(free) : Becomes(Grant(State, r, c))
      BY <1>1, <2>1 DEF Becomes, Grant, State, Shape
    <2>2. CASE ~\E c \in LeastLoadedFree(free) : Becomes(Grant(State, r, c))
      BY <1>1, <2>2 DEF Acquire, Becomes, State, Shape
    <2> QED BY <2>1, <2>2
  <1>7. /\ ahead' \in [Requests -> SUBSET Requests]
        /\ \A x, q \in Requests : x \in ahead'[q] => phase'[x] # "new"
    <2>1. ahead' \in [Requests -> SUBSET Requests]
      BY <1>2 DEF Ordered
    <2>2. \A x, q \in Requests : x \in ahead'[q] => x = r \/ phase[x] # "new"
      BY <1>3 DEF Ordered
    <2> QED BY <1>5, <1>6, <2>1, <2>2
  <1>8. CASE queue' = queue
    BY <1>3, <1>4, <1>7, <1>8 DEF Ordered
  <1>9. CASE queue' = [queue EXCEPT ![Class[r]] = Append(@, r)]
    <2> DEFINE p == Class[r]
    <2>1. p \in Classes /\ queue[p] \in Seq(Requests) /\ Len(queue[p]) \in Nat
      BY <1>1, SchedulerAssumption DEF Shape, Queues
    <2>2. /\ Len(Append(queue[p], r)) = Len(queue[p]) + 1
          /\ \A n \in 1 .. Len(queue[p]) : Append(queue[p], r)[n] = queue[p][n]
          /\ Append(queue[p], r)[Len(queue[p]) + 1] = r
      BY <2>1, AppendProperties
    <2>3. \A o \in Classes : queue'[o] = IF o = p THEN Append(queue[p], r) ELSE queue[o]
      BY <1>1, <1>9, <2>1 DEF Shape, Queues
    <2> HIDE DEF p
    <2>4. ASSUME NEW o \in Classes, NEW i \in 1 .. Len(queue'[o]), NEW j \in 1 .. Len(queue'[o]),
                 i < j
          PROVE  queue'[o][j] \notin ahead'[queue'[o][i]]
      <3>0. Len(queue[o]) \in Nat
        BY <1>1, <2>4 DEF Shape, Queues
      <3>1. i \in 1 .. Len(queue[o]) /\ queue'[o][i] = queue[o][i]
        <4>1. CASE o = p
          <5>1. Len(queue'[o]) = Len(queue[p]) + 1
            BY <2>2, <2>3, <4>1
          <5>2. i \in 1 .. Len(queue[p])
            BY <2>1, <2>4, <5>1
          <5> QED BY <2>2, <2>3, <4>1, <5>2
        <4>2. CASE o # p
          BY <2>3, <2>4, <4>2
        <4> QED BY <4>1, <4>2
      <3>2. queue[o][i] \in Requests /\ ahead'[queue'[o][i]] = ahead[queue[o][i]]
        BY <1>3, <1>4, <3>1
      <3>3. CASE o = p /\ j = Len(queue[p]) + 1
        <4>1. queue'[o][j] = r
          BY <2>2, <2>3, <3>3
        <4> QED BY <1>2, <3>2, <4>1 DEF Ordered
      <3>4. CASE ~(o = p /\ j = Len(queue[p]) + 1)
        <4>1. j \in 1 .. Len(queue[o]) /\ queue'[o][j] = queue[o][j]
          <5>1. CASE o = p
            <6>1. Len(queue'[o]) = Len(queue[p]) + 1 /\ j # Len(queue[p]) + 1
              BY <2>2, <2>3, <3>4, <5>1
            <6>2. j \in 1 .. Len(queue[p])
              BY <2>1, <2>4, <6>1
            <6> QED BY <2>2, <2>3, <5>1, <6>2
          <5>2. CASE o # p
            BY <2>3, <2>4, <5>2
          <5> QED BY <5>1, <5>2
        <4> QED BY <2>4, <3>1, <3>2, <4>1 DEF Ordered
      <3> QED BY <3>3, <3>4
    <2> QED BY <1>7, <2>4 DEF Ordered
  <1>10. queue' = queue \/ queue' = [queue EXCEPT ![Class[r]] = Append(@, r)]
    BY DEF Acquire, Becomes, Grant, State
  <1> QED BY <1>8, <1>9, <1>10

\* The order of asking is kept by every step.
LEMMA StepOrders ==
  ASSUME Admission, Ordered, [Next]_vars
  PROVE  Ordered'
  <1>1. ASSUME NEW r \in Requests, Acquire(r) PROVE Ordered'
    BY <1>1, AcquireOrders
  <1>2. ASSUME NEW r \in Requests, Settle(r) \/ TurnAway(r) \/ Cut(r) PROVE Ordered'
    BY <1>2, ReleaseOrders DEF Settle, TurnAway, Cut
  <1>3. CASE UNCHANGED <<queue, phase, ahead>>
    BY <1>3 DEF Ordered
  <1>4. ASSUME NEW r \in Requests, Enter(r) \/ Gate(r) \/ Spurious(r) PROVE Ordered'
    <2>1. UNCHANGED <<queue, phase, ahead>>
      BY <1>4 DEF Gate, Enter, Recheck, Pass, GateRelease, Notify, Spurious, brokerVars
    <2> QED BY <1>3, <2>1
  <1>5. CASE Evict
    <2>1. /\ \A p \in Classes : Len(queue'[p]) = 0
          /\ \A q \in Requests : phase'[q] = "new" => phase[q] = "new"
          /\ ahead' = ahead
      BY <1>5 DEF Evict
    <2> QED BY <2>1 DEF Ordered
  <1>6. CASE UNCHANGED vars
    BY <1>3, <1>6 DEF vars
  <1> QED BY <1>1, <1>2, <1>4, <1>5, <1>6 DEF Next

\* A round is sent ahead of a waiting one only if its class is better, or the
\* same and the other had not asked before it: on arrival nobody waits where a
\* slot is free, and a release hands its slot to the first of the best class
\* that has a waiter, whose queue is in the order of asking.
THEOREM RoundsAreNotOvertaken == Spec => NoOvertaking
  <1> DEFINE Fair == \A r, q \in Requests :
        /\ phase[r] # "forwarded" /\ phase'[r] = "forwarded"
        /\ phase[q] = "queued" /\ phase'[q] = "queued"
        => Class[r] < Class[q] \/ (Class[r] = Class[q] /\ q \notin ahead'[r])
  <1>1. ASSUME Admission, Ordered, [Next]_vars PROVE Fair
    <2>1. Shape /\ Queued /\ Booked /\ NoIdleSlot
      BY <1>1 DEF Admission
    <2>2. \A q \in Requests : phase[q] = "queued" => Class[q] \in Classes /\ queue[Class[q]] # <<>>
      BY <2>1, SchedulerAssumption DEF Queued
    <2>3. ASSUME NEW r \in Requests, Acquire(r) PROVE Fair
      <3>1. ASSUME NEW c \in LeastLoadedFree(free) PROVE \A q \in Requests : phase[q] # "queued"
        <4>1. WaitingCount(queue) = 0
          BY <2>1, <3>1 DEF LeastLoadedFree, NoIdleSlot
        <4> QED BY <2>1, <2>2, <4>1, BestClassIsBest DEF Shape
      <3>2. ASSUME LeastLoadedFree(free) = {} PROVE phase' \in {[phase EXCEPT ![r] = "queued"],
                                                                 [phase EXCEPT ![r] = "refused"]}
        BY <2>3, <3>2 DEF Acquire, Becomes, State
      <3>3. CASE LeastLoadedFree(free) = {}
        BY <2>1, <3>2, <3>3 DEF Shape
      <3> QED BY <3>1, <3>3
    <2>4. ASSUME NEW r \in Requests, NEW outcome \in {"settled", "lost"}, phase[r] = "forwarded",
                 Release(r, outcome), ahead' = ahead
          PROVE  Fair
      <3>1. \/ \A q \in Requests : phase'[q] = "forwarded" => phase[q] = "forwarded"
            \/ \E p \in Classes, w \in Requests : HandsOn(r, outcome, p, w)
        BY <1>1, <2>4, ReleaseOrders
      <3>2. ASSUME NEW p \in Classes, NEW w \in Requests, HandsOn(r, outcome, p, w)
            PROVE  Fair
        <4>1. \A q \in Requests : phase'[q] = "forwarded" => q = w \/ phase[q] = "forwarded"
          BY <2>1, <2>4, <3>2 DEF HandsOn, Shape
        <4>2. queue[p] \in Seq(Requests) /\ queue[p] # <<>> /\ w = Head(queue[p])
          BY <2>1, <3>2 DEF HandsOn, Shape, Queues
        <4>3. 1 \in 1 .. Len(queue[p]) /\ w = queue[p][1]
          BY <4>2
        <4>4. Class[w] = p
          BY <2>1, <4>3 DEF Queued
        <4>5. \A q \in Requests : phase[q] = "queued" => p <= Class[q] /\ Class[q] \in Nat
          BY <2>2, <3>2 DEF HandsOn, Classes
        <4>6. p \in Nat
          BY DEF Classes
        <4>7. phase'[w] = "forwarded"
          BY <2>1, <3>2 DEF HandsOn, Shape
        <4>8. ASSUME NEW q \in Requests, phase[q] = "queued", phase'[q] = "queued", Class[q] = p
              PROVE  q \notin ahead[w]
          <5>1. PICK n \in 1 .. Len(queue[p]) : queue[p][n] = q
            BY <2>1, <4>8 DEF Queued
          <5>2. n # 1
            BY <4>3, <4>7, <4>8, <5>1
          <5>3. 1 < n
            BY <4>2, <5>1, <5>2
          <5> QED BY <1>1, <4>3, <5>1, <5>3 DEF Ordered
        <4>9. ASSUME NEW q \in Requests, phase[q] = "queued", phase'[q] = "queued"
              PROVE  Class[w] < Class[q] \/ (Class[w] = Class[q] /\ q \notin ahead'[w])
          <5>1. CASE Class[q] = p
            BY <2>4, <4>4, <4>8, <4>9, <5>1
          <5>2. CASE Class[q] # p
            BY <4>4, <4>5, <4>6, <4>9, <5>2
          <5> QED BY <5>1, <5>2
        <4> QED BY <4>1, <4>9
      <3> QED BY <3>1, <3>2
    <2>5. ASSUME phase' = phase PROVE Fair
      BY <2>5
    <2>6. CASE Evict
      <3>1. \A q \in Requests : phase'[q] = "forwarded" => phase[q] = "forwarded"
        BY <2>6 DEF Evict
      <3> QED BY <3>1
    <2>7. ASSUME NEW r \in Requests, Settle(r) \/ TurnAway(r) \/ Cut(r) PROVE Fair
      BY <2>4, <2>7 DEF Settle, TurnAway, Cut
    <2>8. ASSUME NEW r \in Requests, Enter(r) \/ Gate(r) \/ Spurious(r) PROVE Fair
      <3>1. phase' = phase
        BY <2>8 DEF Gate, Enter, Recheck, Pass, GateRelease, Notify, Spurious, brokerVars
      <3> QED BY <2>5, <3>1
    <2>9. CASE UNCHANGED vars
      BY <2>5, <2>9 DEF vars
    <2> HIDE DEF Fair
    <2> QED BY <1>1, <2>3, <2>6, <2>7, <2>8, <2>9 DEF Next
  <1>2. Admission /\ Ordered /\ [Next]_vars => [Fair]_vars
    BY <1>1
  <1>3. Spec => []Ordered
    <2>1. Init => Ordered
      <3> SUFFICES ASSUME Init PROVE Ordered
        OBVIOUS
      <3>1. \A p \in Classes : Len(queue[p]) = 0
        BY DEF Init
      <3> QED BY <3>1 DEF Init, Ordered
    <2> QED BY <2>1, StepOrders, SlotsAreAccounted, PTL DEF Spec
  <1> QED BY <1>2, <1>3, SlotsAreAccounted, PTL DEF Spec, NoOvertaking

=============================================================================
