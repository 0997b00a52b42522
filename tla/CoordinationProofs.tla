------------------------- MODULE CoordinationProofs -------------------------
(***************************************************************************)
(* Leases, budget and ledger for any number of instances, workers, effects *)
(* and keys, any slots, caps and amounts, and any crashes.                 *)
(***************************************************************************)
EXTENDS Coordination, TLAPS, FiniteSetTheorems

-----------------------------------------------------------------------------
(* What a worker answers with is well-typed, and the answer is all it       *)
(* changes of its own state.                                               *)

\* An answer leaves the worker in a well-typed state.
LEMMA AnswerType ==
  ASSUME CoordTypeOK, NEW w \in Workers, NEW v \in Variants, NEW n \in Nat, Answer(w, v, n)
  PROVE  work' \in [Workers -> WorkStates]
<1>1. [variant |-> v, number |-> n] \in Values
  BY DEF Values
<1>2. work[w] \in WorkStates
  BY DEF CoordTypeOK
<1>3. [work[w] EXCEPT !.at = "start", !.value = [variant |-> v, number |-> n]] \in WorkStates
  BY <1>1, <1>2 DEF WorkStates
<1> QED
  BY <1>3 DEF CoordTypeOK, Answer

\* An instant lies in a period.
LEMMA PeriodType == ASSUME NEW t \in Nat PROVE PeriodOf(t) \in Nat
  BY CoordinationAssumption DEF PeriodOf

\* A worker that is not idle has an effect, and only finitely many charges
\* have been made.
Busy == /\ \A w \in Workers : work[w].at # "idle" => work[w].e \in Effects
        /\ IsFiniteSet(charges)

\* The tables start empty and the workers idle.
LEMMA InitCoord == CoordInit => CoordTypeOK /\ Busy
<1> SUFFICES ASSUME CoordInit PROVE CoordTypeOK /\ Busy
  OBVIOUS
<1>1. None \in Values
  BY DEF Values, None, Variants
<1>2. Idle \in WorkStates
  BY <1>1 DEF Idle, WorkStates, NoEffect
<1>3. work \in [Workers -> WorkStates] /\ Busy
  BY <1>2, FS_EmptySet DEF CoordInit, Busy, Idle
<1> QED
  BY <1>1, <1>3, CoordinationAssumption DEF CoordInit, CoordTypeOK, NoRow

\* The coordination transaction of a busy worker.
LEMMA ActType ==
  ASSUME CoordTypeOK, Busy, NEW w \in Workers, Act(w)
  PROVE  CoordTypeOK' /\ Busy'
<1> DEFINE e == work[w].e
<1>1. /\ e \in Effects
      /\ work[w] \in WorkStates
      /\ work[w].at = "act"
  BY DEF Act, Busy, CoordTypeOK
<1>2. /\ KeyOf[e] \in Keys /\ InstanceOf[e] \in Instances
      /\ Ttl \in Nat /\ now \in Nat /\ work[w].clock \in Nat
  BY <1>1, CoordinationAssumption DEF CoordTypeOK, WorkStates
<1>3. UNCHANGED <<storeVars, now, crashes>>
  BY DEF Act
<1> DEFINE Working == \A u \in Workers : work[u].at # "idle" => work[u].e \in Effects
<1>a. ASSUME NEW v \in Variants, NEW n \in Nat, Answer(w, v, n)
      PROVE  work' \in [Workers -> WorkStates] /\ Working'
  <2>1. work' \in [Workers -> WorkStates]
    BY <1>a, AnswerType
  <2>2. \A u \in Workers : work'[u].e = work[u].e /\ (work'[u].at # "idle" => work[u].at # "idle")
    BY <1>1, <1>a DEF Answer, CoordTypeOK, WorkStates
  <2> QED
    BY <2>1, <2>2 DEF Busy
<1>b. ASSUME work' = [work EXCEPT ![w] = Idle]
      PROVE  work' \in [Workers -> WorkStates] /\ Working'
  <2>1. Idle \in WorkStates
    BY DEF Idle, WorkStates, NoEffect, None, Values, Variants
  <2> QED
    BY <1>b, <2>1 DEF Busy, CoordTypeOK, Idle
<1>4. CASE e \in Malformed /\ Answer(w, "Malformed", 0)
            /\ UNCHANGED <<leaseVars, budgetVars, ledgerVars, applied>>
  <2>1. work' \in [Workers -> WorkStates] /\ Working'
    BY <1>4, <1>a DEF Variants
  <2> QED
    BY <1>3, <1>4, <2>1 DEF CoordTypeOK, leaseVars, budgetVars, ledgerVars, storeVars, Busy
<1>5. CASE TryAcquire(w, e)
  <2> DEFINE k == KeyOf[e]
             i == InstanceOf[e]
             rows == LiveRows(k)
  <2>1. rows \in [Instances -> Nat \cup {NoRow}]
    BY <1>2 DEF LiveRows, CoordTypeOK, NoRow
  <2>2. /\ expires' \in [Keys -> [Instances -> Nat \cup {NoRow}]]
        /\ promise' \in [Keys -> [Instances -> Nat]]
    <3>1. CASE rows[i] # NoRow \/ ~FreeSlot(rows)
      BY <1>2, <1>5, <2>1, <3>1 DEF TryAcquire, CoordTypeOK
    <3>2. CASE rows[i] = NoRow /\ FreeSlot(rows)
      <4>1. now + Ttl \in Nat
        BY <1>2
      <4>2. [rows EXCEPT ![i] = now + Ttl] \in [Instances -> Nat \cup {NoRow}]
        BY <2>1, <4>1
      <4>3. /\ expires' = [expires EXCEPT ![k] = [rows EXCEPT ![i] = now + Ttl]]
            /\ promise' = [promise EXCEPT ![k][i] = now + Ttl]
        BY <1>5, <3>2 DEF TryAcquire
      <4> QED
        BY <1>2, <4>1, <4>2, <4>3 DEF CoordTypeOK
    <3> QED
      BY <3>1, <3>2
  <2>3. work' \in [Workers -> WorkStates] /\ Working'
    <3>1. \/ Answer(w, "Held", 0)
          \/ work' = [work EXCEPT ![w] = Idle]
          \/ Answer(w, "Contended", 0)
      BY <1>5 DEF TryAcquire
    <3> QED
      BY <1>a, <1>b, <3>1 DEF Variants
  <2> QED
    BY <1>3, <1>5, <2>2, <2>3
    DEF TryAcquire, CoordTypeOK, budgetVars, ledgerVars, storeVars, Busy
<1>6. CASE Kind[e] = "release" /\ Release(w, e)
  <2>1. KeyOf[Acquire[e]] \in Keys
    BY <1>1, <1>6, CoordinationAssumption
  <2>2. work' \in [Workers -> WorkStates] /\ Working'
    BY <1>6, <1>a DEF Variants, Release
  <2>3. /\ expires' \in [Keys -> [Instances -> Nat \cup {NoRow}]]
        /\ promise' \in [Keys -> [Instances -> Nat]]
    BY <1>2, <1>6, <2>1 DEF Release, CoordTypeOK
  <2> QED
    BY <1>3, <1>6, <2>2, <2>3 DEF Release, CoordTypeOK, budgetVars, ledgerVars, storeVars, Busy
<1>7. CASE Kind[e] = "renew" /\ Renew(w, e)
  <2>1. KeyOf[Acquire[e]] \in Keys
    BY <1>1, <1>7, CoordinationAssumption
  <2>2. now + Ttl \in Nat
    BY <1>2
  <2>3. work' \in [Workers -> WorkStates] /\ Working'
    BY <1>7, <1>a, <2>2 DEF Variants, Renew
  <2>4. /\ expires' \in [Keys -> [Instances -> Nat \cup {NoRow}]]
        /\ promise' \in [Keys -> [Instances -> Nat]]
    <3>1. CASE expires[KeyOf[Acquire[e]]][InstanceOf[e]] > now
      <4>1. /\ expires' = [expires EXCEPT ![KeyOf[Acquire[e]]][InstanceOf[e]] = now + Ttl]
            /\ promise' = [promise EXCEPT ![KeyOf[Acquire[e]]][InstanceOf[e]] = now + Ttl]
        BY <1>7, <3>1 DEF Renew
      <4> QED
        BY <1>2, <2>1, <2>2, <4>1 DEF CoordTypeOK
    <3>2. CASE ~(expires[KeyOf[Acquire[e]]][InstanceOf[e]] > now)
      BY <1>7, <3>2 DEF Renew, CoordTypeOK
    <3> QED
      BY <3>1, <3>2
  <2> QED
    BY <1>3, <1>7, <2>3, <2>4 DEF Renew, CoordTypeOK, budgetVars, ledgerVars, storeVars, Busy
<1>8. CASE AppendEntry(w, e)
  <2>1. applied[e].number \in Nat /\ nextSeq \in Nat
    BY <1>1 DEF CoordTypeOK, Values
  <2>2. work' \in [Workers -> WorkStates] /\ Working'
    BY <1>8, <1>a, <2>1 DEF Variants, AppendEntry
  <2>3. [variant |-> "Appended", number |-> nextSeq] \in Values
    BY <2>1 DEF Values, Variants
  <2>4. [seq |-> nextSeq, by |-> e, at |-> now] \in [seq : Nat, by : Effects, at : Nat]
    BY <1>1, <1>2, <2>1
  <2>5. applied' \in [Effects -> Values] /\ nextSeq' \in Nat
    BY <1>8, <2>1, <2>3 DEF AppendEntry, CoordTypeOK, ledgerVars
  <2>6. entries' \subseteq [seq : Nat, by : Effects, at : Nat]
    BY <1>8, <2>4 DEF AppendEntry, CoordTypeOK, ledgerVars
  <2> QED
    BY <1>3, <1>8, <2>2, <2>5, <2>6 DEF AppendEntry, CoordTypeOK, budgetVars, leaseVars, storeVars, Busy
<1>9. CASE Kind[e] = "consume" /\ Consume(w, e)
  <2> DEFINE p == PeriodOf(work[w].clock)
             current == IF period = p THEN consumed ELSE 0
             verdict == IF Chargeable(current, e) THEN "Ok" ELSE "Over"
  <2>1. p \in Nat
    BY <1>2, PeriodType
  <2> HIDE DEF p
  <2>2. current \in Int /\ verdict \in {"Ok", "Over"} /\ Amount[e] \in Int
    BY <1>1, CoordinationAssumption DEF CoordTypeOK
  <2>3. applied[e].variant \in Variants
    BY <1>1 DEF CoordTypeOK, Values
  <2>4. IF Marked(e)
        THEN /\ Answer(w, applied[e].variant, p)
             /\ UNCHANGED <<budgetVars, applied, leaseVars, ledgerVars>>
        ELSE /\ period' = p
             /\ consumed' = IF verdict = "Ok" THEN current + Amount[e] ELSE current
             /\ charges' = IF verdict = "Ok"
                           THEN charges \cup {[e |-> e,
                                               nth |-> Cardinality({c \in charges : c.e = e}),
                                               period |-> p, amount |-> Amount[e]]}
                           ELSE charges
             /\ applied' = [applied EXCEPT ![e] = [variant |-> verdict, number |-> 0]]
             /\ Answer(w, verdict, p)
             /\ UNCHANGED <<leaseVars, ledgerVars>>
    BY <1>9 DEF Consume, p
  <2> HIDE DEF current, verdict
  <2>5. work' \in [Workers -> WorkStates] /\ Working'
    BY <1>a, <2>1, <2>2, <2>3, <2>4 DEF Variants
  <2>6. [variant |-> verdict, number |-> 0] \in Values
    BY <2>2 DEF Values, Variants
  <2>7. applied' \in [Effects -> Values]
    BY <1>1, <2>4, <2>6 DEF CoordTypeOK
  <2>8. period' \in Nat /\ consumed' \in Int
    BY <2>1, <2>2, <2>4 DEF CoordTypeOK, budgetVars
  <2>9. charges' \subseteq [e : Effects, nth : Nat, period : Nat, amount : Int]
        /\ IsFiniteSet(charges')
    <3> DEFINE mine == {c \in charges : c.e = e}
               charge == [e |-> e, nth |-> Cardinality(mine), period |-> p, amount |-> Amount[e]]
    <3>1. IsFiniteSet(mine)
      BY FS_Subset DEF Busy
    <3>2. Cardinality(mine) \in Nat
      BY <3>1, FS_CardinalityType
    <3>3. charge \in [e : Effects, nth : Nat, period : Nat, amount : Int]
      BY <1>1, <2>1, <2>2, <3>2
    <3>4. charges' = charges \/ charges' = charges \cup {charge}
      BY <2>4 DEF budgetVars
    <3> HIDE DEF charge
    <3> QED
      BY <3>3, <3>4, FS_AddElement DEF CoordTypeOK, Busy
  <2> QED
    BY <1>3, <2>4, <2>5, <2>7, <2>8, <2>9 DEF CoordTypeOK, ledgerVars, leaseVars, storeVars, Busy
<1> QED
  BY <1>4, <1>5, <1>6, <1>7, <1>8, <1>9 DEF Act

\* Every step keeps the types.
LEMMA TypeStep ==
  ASSUME CoordTypeOK, Busy, [Next]_vars
  PROVE  CoordTypeOK' /\ Busy'
<1> USE DEF leaseVars, budgetVars, ledgerVars, storeVars
<1> DEFINE Working == \A u \in Workers : work[u].at # "idle" => work[u].e \in Effects
<1>a. Idle \in WorkStates /\ None \in Values
  BY DEF Idle, WorkStates, NoEffect, None, Values, Variants
<1>b. ASSUME NEW w \in Workers, work' = [work EXCEPT ![w] = Idle]
      PROVE  work' \in [Workers -> WorkStates] /\ Working'
  BY <1>a, <1>b DEF Busy, CoordTypeOK, Idle
<1>c. ASSUME NEW w \in Workers, NEW at \in {"complete", "derive"},
             work[w].at # "idle", work' = [work EXCEPT ![w].at = at]
      PROVE  work' \in [Workers -> WorkStates] /\ Working'
  <2>1. [work[w] EXCEPT !.at = at] \in WorkStates
    BY DEF CoordTypeOK, WorkStates
  <2>2. \A u \in Workers : work'[u].e = work[u].e /\ (work'[u].at # "idle" => work[u].at # "idle")
    BY <1>c DEF CoordTypeOK, WorkStates
  <2> QED
    BY <1>c, <2>1, <2>2 DEF Busy, CoordTypeOK
<1>1. ASSUME NEW w \in Workers, NEW e \in Effects, Claim(w, e)
      PROVE  CoordTypeOK' /\ Busy'
  <2> DEFINE job == [Idle EXCEPT !.at = "act", !.e = e, !.clock = ReadClock(e)]
  <2>1. ReadClock(e) \in Nat
    BY DEF ReadClock, CoordTypeOK
  <2>2. job \in WorkStates /\ job.e = e
    BY <1>a, <2>1 DEF WorkStates, Idle
  <2>3. work' = [work EXCEPT ![w] = job]
    BY <1>1 DEF Claim
  <2> HIDE DEF job
  <2>4. work' \in [Workers -> WorkStates] /\ Working'
    BY <2>2, <2>3 DEF Busy, CoordTypeOK
  <2> QED
    BY <1>1, <2>4 DEF Claim, CoordTypeOK, Busy
<1>2. ASSUME NEW w \in Workers, Act(w) PROVE CoordTypeOK' /\ Busy'
  BY <1>2, ActType
<1>3. ASSUME NEW w \in Workers, StartRun(w) PROVE CoordTypeOK' /\ Busy'
  <2>1. work[w].e \in Effects /\ work[w].at # "idle"
    BY <1>3 DEF StartRun, Busy
  <2>2. work' \in [Workers -> WorkStates] /\ Working'
    BY <1>3, <1>c, <2>1 DEF StartRun
  <2> QED
    BY <1>3, <2>1, <2>2 DEF StartRun, CoordTypeOK, Busy
<1>4. ASSUME NEW w \in Workers, CompleteRun(w) PROVE CoordTypeOK' /\ Busy'
  <2>1. work[w].e \in Effects /\ work[w].at # "idle" /\ work[w].value \in Values
    BY <1>4 DEF CompleteRun, Busy, CoordTypeOK, WorkStates
  <2>2. work' \in [Workers -> WorkStates] /\ Working'
    BY <1>4, <1>c, <2>1 DEF CompleteRun
  <2>3. value' \in [Effects -> Values]
    BY <1>4, <2>1 DEF CompleteRun, CoordTypeOK
  <2>4. /\ effect' \in [Effects -> {"absent", "queued", "running", "completed", "failed",
                                    "cancelled"}]
        /\ run' \in [Effects -> {"absent", "running", "settled"}]
    BY <1>4, <2>1 DEF CompleteRun, CoordTypeOK
  <2> QED
    BY <1>4, <2>2, <2>3, <2>4 DEF CompleteRun, CoordTypeOK, Busy
<1>5. ASSUME NEW w \in Workers, DeriveFact(w) PROVE CoordTypeOK' /\ Busy'
  <2>1. work[w].e \in Effects
    BY <1>5 DEF DeriveFact, Busy
  <2>2. work' \in [Workers -> WorkStates] /\ Working'
    BY <1>5, <1>b DEF DeriveFact
  <2> QED
    BY <1>5, <2>1, <2>2 DEF DeriveFact, CoordTypeOK, Busy
<1>6. ASSUME NEW w \in Workers, Refused(w) PROVE CoordTypeOK' /\ Busy'
  <2>1. work' \in [Workers -> WorkStates] /\ Working'
    BY <1>6, <1>b DEF Refused
  <2> QED
    BY <1>6, <2>1 DEF Refused, CoordTypeOK, Busy
<1>7. ASSUME NEW w \in Workers, Crash(w) PROVE CoordTypeOK' /\ Busy'
  <2>1. work' \in [Workers -> WorkStates] /\ Working'
    BY <1>7, <1>b DEF Crash
  <2>2. crashes' \in 0..MaxCrashes
    BY <1>7, CoordinationAssumption DEF Crash, CoordTypeOK
  <2> QED
    BY <1>7, <2>1, <2>2 DEF Crash, CoordTypeOK, Busy
<1>8. ASSUME NEW e \in Effects, CancelEffect(e) \/ RecoverRun(e) \/ CommitHeldBranch(e)
      PROVE  CoordTypeOK' /\ Busy'
  BY <1>8 DEF CancelEffect, RecoverRun, CommitHeldBranch, CoordTypeOK, Busy
<1>9. ASSUME NEW i \in Instances, EndInstance(i) PROVE CoordTypeOK' /\ Busy'
  BY <1>9 DEF EndInstance, CoordTypeOK, Busy
<1>10. ASSUME NEW i \in Instances, ReleaseHolder(i) PROVE CoordTypeOK' /\ Busy'
  <2>1. /\ expires' \in [Keys -> [Instances -> Nat \cup {NoRow}]]
        /\ promise' \in [Keys -> [Instances -> Nat]]
    BY <1>10 DEF ReleaseHolder, CoordTypeOK
  <2>2. instance' \in [Instances -> {"running", "ended", "released"}]
    BY <1>10 DEF ReleaseHolder, CoordTypeOK
  <2> QED
    BY <1>10, <2>1, <2>2 DEF ReleaseHolder, CoordTypeOK, Busy
<1>11. CASE Tick
  <2>1. now' \in 0..MaxTime
    BY <1>11, CoordinationAssumption DEF Tick, CoordTypeOK
  <2> QED
    BY <1>11, <2>1 DEF Tick, CoordTypeOK, Busy
<1>12. CASE UNCHANGED vars
  BY <1>12 DEF vars, CoordTypeOK, Busy
<1>d. Cancellable \subseteq Effects /\ DOMAIN Acquire \subseteq Effects /\ Ending \subseteq Instances
  BY CoordinationAssumption
<1> QED
  BY <1>1, <1>2, <1>3, <1>4, <1>5, <1>6, <1>7, <1>8, <1>9, <1>10, <1>11, <1>12, <1>d
  DEF Next, WorkerStep

\* Every table of both databases, and what every worker holds between two of
\* its steps, stays within its vocabulary.
THEOREM CoordTypeCorrect == CoordSpec => []CoordTypeOK
<1>1. CoordInit => CoordTypeOK /\ Busy
  BY InitCoord
<1>2. CoordTypeOK /\ Busy /\ [Next]_vars => (CoordTypeOK /\ Busy)'
  BY TypeStep
<1> QED
  BY <1>1, <1>2, PTL DEF CoordSpec

-----------------------------------------------------------------------------
(* Leases.                                                                 *)

\* The steps that touch a lease row or the clock.
LEMMA LeaseFrame ==
  ASSUME CoordTypeOK, Busy, [Next]_vars
  PROVE  \/ UNCHANGED <<leaseVars, now>>
         \/ now' = now /\ \E w \in Workers, e \in Effects :
              \/ TryAcquire(w, e)
              \/ Kind[e] = "release" /\ Release(w, e)
              \/ Kind[e] = "renew" /\ Renew(w, e)
         \/ now' = now /\ \E i \in Instances : ReleaseHolder(i)
         \/ Tick
<1> USE DEF leaseVars, budgetVars, ledgerVars, storeVars
<1>1. ASSUME NEW w \in Workers, Act(w)
      PROVE  \/ UNCHANGED <<leaseVars, now>>
             \/ now' = now /\ \E e \in Effects :
                  \/ TryAcquire(w, e)
                  \/ Kind[e] = "release" /\ Release(w, e)
                  \/ Kind[e] = "renew" /\ Renew(w, e)
  <2>1. work[w].e \in Effects
    BY <1>1 DEF Act, Busy
  <2> QED
    BY <1>1, <2>1 DEF Act, AppendEntry, Consume
<1>2. ASSUME NEW w \in Workers, WorkerStep(w) \/ Crash(w), ~Act(w)
      PROVE  UNCHANGED <<leaseVars, now>>
  BY <1>2 DEF WorkerStep, Claim, StartRun, CompleteRun, DeriveFact, Refused, Crash
<1>3. ASSUME NEW e \in Effects, CancelEffect(e) \/ RecoverRun(e) \/ CommitHeldBranch(e)
      PROVE  UNCHANGED <<leaseVars, now>>
  BY <1>3 DEF CancelEffect, RecoverRun, CommitHeldBranch
<1>4. ASSUME NEW i \in Instances, EndInstance(i) PROVE UNCHANGED <<leaseVars, now>>
  BY <1>4 DEF EndInstance
<1>5. ASSUME NEW i \in Instances, ReleaseHolder(i) PROVE now' = now
  BY <1>5 DEF ReleaseHolder
<1>6. CASE UNCHANGED vars
  BY <1>6 DEF vars
<1>7. Cancellable \subseteq Effects /\ DOMAIN Acquire \subseteq Effects /\ Ending \subseteq Instances
  BY CoordinationAssumption
<1> QED
  BY <1>1, <1>2, <1>3, <1>4, <1>5, <1>6, <1>7 DEF Next

\* Expired rows are the only ones an acquire's DELETE removes.
LEMMA LiveRowsFact ==
  ASSUME CoordTypeOK, NEW k \in Keys, NEW i \in Instances
  PROVE  /\ now \in Nat /\ expires[k][i] \in Nat \cup {NoRow}
         /\ LiveRows(k)[i] = IF expires[k][i] > now THEN expires[k][i] ELSE NoRow
         /\ LiveRows(k)[i] # NoRow <=> expires[k][i] > now
  BY CoordinationAssumption DEF CoordTypeOK, LiveRows, NoRow

\* No step takes back a lease before the expiry its holder was told.
LEMMA PromiseStep ==
  ASSUME CoordTypeOK, Busy, PromisesKept, [Next]_vars
  PROVE  PromisesKept'
<1> SUFFICES ASSUME NEW k \in Keys, NEW i \in Instances, promise'[k][i] > now'
             PROVE  expires'[k][i] >= promise'[k][i]
  BY DEF PromisesKept
<1>0. /\ now \in Nat /\ Ttl \in Nat \ {0}
      /\ expires[k][i] \in Nat \cup {NoRow} /\ promise[k][i] \in Nat
      /\ promise[k][i] > now => expires[k][i] >= promise[k][i]
  BY CoordinationAssumption DEF CoordTypeOK, PromisesKept
<1>1. CASE UNCHANGED <<leaseVars, now>>
  BY <1>0, <1>1 DEF leaseVars
<1>2. ASSUME NEW w \in Workers, NEW e \in Effects, now' = now, TryAcquire(w, e)
      PROVE  expires'[k][i] >= promise'[k][i]
  <2>0. KeyOf[e] \in Keys /\ InstanceOf[e] \in Instances
    BY CoordinationAssumption
  <2>1. CASE promise' = promise /\ expires' = [expires EXCEPT ![KeyOf[e]] = LiveRows(KeyOf[e])]
    <3>1. expires'[k][i] = expires[k][i] \/ expires'[k][i] = LiveRows(k)[i]
      BY <2>0, <2>1 DEF CoordTypeOK
    <3>2. promise'[k][i] = promise[k][i] /\ expires[k][i] >= promise[k][i] /\ expires[k][i] > now
      BY <1>0, <1>2, <2>1 DEF NoRow
    <3> QED
      BY <3>1, <3>2, LiveRowsFact
  <2>2. CASE /\ expires' = [expires EXCEPT ![KeyOf[e]] =
                              [LiveRows(KeyOf[e]) EXCEPT ![InstanceOf[e]] = now + Ttl]]
             /\ promise' = [promise EXCEPT ![KeyOf[e]][InstanceOf[e]] = now + Ttl]
    <3>1. CASE k = KeyOf[e] /\ i = InstanceOf[e]
      <4>1. LiveRows(k) \in [Instances -> Nat \cup {NoRow}]
        BY DEF LiveRows, CoordTypeOK, NoRow
      <4>2. expires'[k][i] = now + Ttl /\ promise'[k][i] = now + Ttl
        BY <2>2, <3>1, <4>1 DEF CoordTypeOK
      <4> QED
        BY <4>2, <1>0
    <3>2. CASE ~(k = KeyOf[e] /\ i = InstanceOf[e])
      <4>1. promise'[k][i] = promise[k][i]
        BY <2>0, <2>2, <3>2 DEF CoordTypeOK
      <4>2. expires'[k][i] = expires[k][i] \/ expires'[k][i] = LiveRows(k)[i]
        BY <2>0, <2>2, <3>2 DEF CoordTypeOK, LiveRows
      <4>3. expires[k][i] >= promise[k][i] /\ expires[k][i] > now
        BY <1>0, <1>2, <4>1 DEF NoRow
      <4> QED
        BY <4>1, <4>2, <4>3, LiveRowsFact
    <3> QED
      BY <3>1, <3>2
  <2> QED
    BY <1>2, <2>1, <2>2 DEF TryAcquire
<1>3. ASSUME NEW w \in Workers, NEW e \in Effects, now' = now, Kind[e] = "release", Release(w, e)
      PROVE  expires'[k][i] >= promise'[k][i]
  <2>0. KeyOf[Acquire[e]] \in Keys /\ InstanceOf[e] \in Instances
    BY <1>3, CoordinationAssumption
  <2>1. CASE k = KeyOf[Acquire[e]] /\ i = InstanceOf[e]
    <3>1. promise'[k][i] = 0
      BY <1>3, <2>1 DEF Release, CoordTypeOK
    <3> QED
      BY <1>0, <1>3, <3>1
  <2>2. CASE ~(k = KeyOf[Acquire[e]] /\ i = InstanceOf[e])
    <3>1. promise'[k][i] = promise[k][i] /\ expires'[k][i] = expires[k][i]
      BY <1>3, <2>0, <2>2 DEF Release, CoordTypeOK
    <3> QED
      BY <1>0, <1>3, <3>1
  <2> QED
    BY <2>1, <2>2
<1>4. ASSUME NEW w \in Workers, NEW e \in Effects, now' = now, Kind[e] = "renew", Renew(w, e)
      PROVE  expires'[k][i] >= promise'[k][i]
  <2>0. KeyOf[Acquire[e]] \in Keys /\ InstanceOf[e] \in Instances
    BY <1>4, CoordinationAssumption
  <2>1. CASE UNCHANGED <<expires, promise>>
    BY <1>0, <1>4, <2>1
  <2>2. CASE /\ expires' = [expires EXCEPT ![KeyOf[Acquire[e]]][InstanceOf[e]] = now + Ttl]
             /\ promise' = [promise EXCEPT ![KeyOf[Acquire[e]]][InstanceOf[e]] = now + Ttl]
    <3>1. \/ promise'[k][i] = promise[k][i] /\ expires'[k][i] = expires[k][i]
          \/ promise'[k][i] = now + Ttl /\ expires'[k][i] = now + Ttl
      BY <2>0, <2>2 DEF CoordTypeOK
    <3> QED
      BY <1>0, <1>4, <3>1
  <2> QED
    BY <1>4, <2>1, <2>2 DEF Renew
<1>5. ASSUME NEW j \in Instances, now' = now, ReleaseHolder(j)
      PROVE  expires'[k][i] >= promise'[k][i]
  <2>1. \/ promise'[k][i] = promise[k][i] /\ expires'[k][i] = expires[k][i]
        \/ promise'[k][i] = 0
    BY <1>5 DEF ReleaseHolder, CoordTypeOK
  <2> QED
    BY <1>0, <1>5, <2>1
<1>6. CASE Tick
  <2>1. promise' = promise /\ expires' = expires /\ now' = now + 1
    BY <1>6 DEF Tick, leaseVars
  <2> QED
    BY <1>0, <2>1
<1> QED
  BY <1>1, <1>2, <1>3, <1>4, <1>5, <1>6, LeaseFrame

\* Until the time the store told a holder, nobody else's operation and no end
\* of another instance takes the slot away.
THEOREM PromisesAreKept == CoordSpec => []PromisesKept
<1> DEFINE I == CoordTypeOK /\ Busy /\ PromisesKept
<1>1. CoordInit => I
  <2>1. CoordInit => PromisesKept
    BY CoordinationAssumption DEF CoordInit, PromisesKept
  <2> QED
    BY <2>1, InitCoord
<1>2. I /\ [Next]_vars => I'
  BY TypeStep, PromiseStep
<1> QED
  BY <1>1, <1>2, PTL DEF CoordSpec

\* The instances whose row has not expired.
Live == [k \in Keys |-> {i \in Instances : expires[k][i] > now}]

\* Rows that only go, or whose time only comes, free slots.
LEMMA SlotsFreed ==
  ASSUME \A k \in Keys, i \in Instances : expires'[k][i] > now' => expires[k][i] > now
  PROVE  LivePool!PoolNext \/ UNCHANGED Live
<1>1. \A k \in Keys : Live'[k] \subseteq Live[k]
  BY DEF Live
<1>2. Live' \in [Keys -> SUBSET Instances]
  BY DEF Live
<1>3. CASE Live' # Live
  <2>1. LivePool!Free
    BY <1>1, <1>2, <1>3 DEF LivePool!Free, Live
  <2> QED
    BY <2>1 DEF LivePool!PoolNext
<1> QED
  BY <1>3

\* The abstract pool counts as this module does.
LEMMA SameCardinality == \A S : LivePool!Cardinality(S) = Cardinality(S)
  BY Zenon DEF LivePool!Cardinality, Cardinality

\* Every step is a step of the abstract pool of slots, or none.
LEMMA PoolStep ==
  ASSUME CoordTypeOK, Busy, [Next]_vars
  PROVE  LivePool!PoolNext \/ UNCHANGED Live
<1>0. now \in Nat /\ Ttl \in Nat \ {0}
  BY CoordinationAssumption DEF CoordTypeOK
<1>1. CASE UNCHANGED <<leaseVars, now>>
  BY <1>1 DEF leaseVars, Live
<1>2. ASSUME NEW w \in Workers, NEW e \in Effects, now' = now, TryAcquire(w, e)
      PROVE  LivePool!PoolNext \/ UNCHANGED Live
  <2> DEFINE key == KeyOf[e]
             me == InstanceOf[e]
             rows == LiveRows(key)
  <2>0. key \in Keys /\ me \in Instances
    BY CoordinationAssumption
  <2>1. CASE expires' = [expires EXCEPT ![key] = rows]
    <3> SUFFICES ASSUME NEW k \in Keys, NEW i \in Instances, expires'[k][i] > now'
                 PROVE  expires[k][i] > now
      BY SlotsFreed
    <3>1. expires'[k][i] = expires[k][i] \/ expires'[k][i] = LiveRows(k)[i]
      BY <2>0, <2>1 DEF CoordTypeOK
    <3> QED
      BY <1>0, <1>2, <3>1, LiveRowsFact DEF NoRow
  <2>2. CASE /\ rows[me] = NoRow /\ FreeSlot(rows)
             /\ expires' = [expires EXCEPT ![key] = [rows EXCEPT ![me] = now + Ttl]]
    <3>1. Holders(rows) = Live[key]
      BY <2>0, LiveRowsFact DEF Holders, Live
    <3>2. me \notin Live[key]
      BY <2>0, <2>2, LiveRowsFact DEF Live
    <3>3. Cardinality(Live[key]) < Slots
      BY <2>2, <3>1 DEF FreeSlot
    <3>4. ASSUME NEW k \in Keys
          PROVE  Live'[k] = IF k = key THEN Live[key] \cup {me} ELSE Live[k]
      <4>1. CASE k = key
        <5>1. rows \in [Instances -> Nat \cup {NoRow}]
          BY <2>0 DEF LiveRows, CoordTypeOK, NoRow
        <5>2. \A i \in Instances : expires'[k][i] = IF i = me THEN now + Ttl ELSE rows[i]
          BY <2>0, <2>2, <4>1, <5>1 DEF CoordTypeOK
        <5>3. \A i \in Instances : expires'[k][i] > now' <=> (i = me \/ expires[k][i] > now)
          <6> SUFFICES ASSUME NEW i \in Instances
                       PROVE  expires'[k][i] > now' <=> (i = me \/ expires[k][i] > now)
            OBVIOUS
          <6>1. CASE i = me
            BY <1>0, <1>2, <5>2, <6>1
          <6>2. CASE i # me
            <7>1. expires'[k][i] = LiveRows(k)[i]
              BY <4>1, <5>2, <6>2
            <7> QED
              BY <1>0, <1>2, <6>2, <7>1, LiveRowsFact DEF NoRow
          <6> QED
            BY <6>1, <6>2
        <5> QED
          BY <2>0, <4>1, <5>3 DEF Live
      <4>2. CASE k # key
        <5>1. expires'[k] = expires[k]
          BY <2>2, <4>2 DEF CoordTypeOK
        <5> QED
          BY <1>2, <4>2, <5>1 DEF Live
      <4> QED
        BY <4>1, <4>2
    <3>5. Live' = [Live EXCEPT ![key] = @ \cup {me}]
      BY <3>4 DEF Live
    <3>6. LivePool!Grant(key, me)
      <4>1. LivePool!Cardinality(Live[key]) < Slots
        BY <3>3, SameCardinality
      <4> QED
        BY <3>2, <3>5, <4>1, Zenon DEF LivePool!Grant, Live
    <3> QED
      BY <2>0, <3>6 DEF LivePool!PoolNext
  <2> QED
    BY <1>2, <2>1, <2>2 DEF TryAcquire
<1>3. ASSUME NEW w \in Workers, NEW e \in Effects, now' = now, Kind[e] = "release", Release(w, e)
      PROVE  LivePool!PoolNext \/ UNCHANGED Live
  <2>0. KeyOf[Acquire[e]] \in Keys /\ InstanceOf[e] \in Instances
    BY <1>3, CoordinationAssumption
  <2> SUFFICES ASSUME NEW k \in Keys, NEW i \in Instances, expires'[k][i] > now'
               PROVE  expires[k][i] > now
    BY SlotsFreed
  <2>1. expires'[k][i] = expires[k][i] \/ expires'[k][i] = NoRow
    BY <1>3, <2>0 DEF Release, CoordTypeOK
  <2> QED
    BY <1>0, <1>3, <2>1 DEF NoRow
<1>4. ASSUME NEW w \in Workers, NEW e \in Effects, now' = now, Kind[e] = "renew", Renew(w, e)
      PROVE  LivePool!PoolNext \/ UNCHANGED Live
  <2> DEFINE key == KeyOf[Acquire[e]]
             me == InstanceOf[e]
  <2>0. key \in Keys /\ me \in Instances
    BY <1>4, CoordinationAssumption
  <2> SUFFICES ASSUME NEW k \in Keys, NEW i \in Instances, expires'[k][i] > now'
               PROVE  expires[k][i] > now
    BY SlotsFreed
  <2>1. CASE expires[key][me] > now
    <3>1. expires' = [expires EXCEPT ![key][me] = now + Ttl]
      BY <1>4, <2>1 DEF Renew
    <3>2. expires'[k][i] = expires[k][i] \/ (k = key /\ i = me)
      BY <2>0, <3>1 DEF CoordTypeOK
    <3> QED
      BY <1>4, <2>1, <3>2
  <2>2. CASE ~(expires[key][me] > now)
    BY <1>4, <2>2 DEF Renew
  <2> QED
    BY <2>1, <2>2
<1>5. ASSUME NEW j \in Instances, now' = now, ReleaseHolder(j)
      PROVE  LivePool!PoolNext \/ UNCHANGED Live
  <2> SUFFICES ASSUME NEW k \in Keys, NEW i \in Instances, expires'[k][i] > now'
               PROVE  expires[k][i] > now
    BY SlotsFreed
  <2>1. expires'[k][i] = expires[k][i] \/ expires'[k][i] = NoRow
    BY <1>5 DEF ReleaseHolder, CoordTypeOK
  <2> QED
    BY <1>0, <1>5, <2>1 DEF NoRow
<1>6. CASE Tick
  <2>1. expires' = expires /\ now' = now + 1
    BY <1>6 DEF Tick, leaseVars
  <2> SUFFICES ASSUME NEW k \in Keys, NEW i \in Instances, expires'[k][i] > now'
               PROVE  expires[k][i] > now
    BY SlotsFreed
  <2>2. expires[k][i] \in Int
    BY DEF CoordTypeOK, NoRow
  <2> QED
    BY <1>0, <2>1, <2>2
<1> QED
  BY <1>1, <1>2, <1>3, <1>4, <1>5, <1>6, LeaseFrame

\* The lease table implements the slot pool: the initial table maps to an
\* empty pool and every step to a grant of one free slot, to slots coming
\* free, or to no change of the pool.
THEOREM LeasesImplementPool == CoordSpec => ImplementsSlotPool
<1>1. CoordInit => LivePool!PoolInit
  <2> SUFFICES ASSUME CoordInit PROVE Live = [k \in Keys |-> {}]
    BY DEF LivePool!PoolInit, Live
  <2>1. \A k \in Keys, i \in Instances : ~(expires[k][i] > now)
    BY DEF CoordInit, NoRow
  <2> QED
    BY <2>1 DEF Live
<1>2. CoordTypeOK /\ Busy /\ [Next]_vars => [LivePool!PoolNext]_Live
  BY PoolStep
<1>3. CoordInit => CoordTypeOK /\ Busy
  BY InitCoord
<1>4. CoordTypeOK /\ Busy /\ [Next]_vars => (CoordTypeOK /\ Busy)'
  BY TypeStep
<1> QED
  BY <1>1, <1>2, <1>3, <1>4, PTL DEF CoordSpec, ImplementsSlotPool, LivePool!PoolSpec, Live

-----------------------------------------------------------------------------
(* Budget and ledger.                                                      *)

\* The marker of an effect is written once, by the transaction of its kind.
Markers ==
    \A e \in Effects :
        \/ applied[e] = None
        \/ /\ Kind[e] = "consume"
           /\ applied[e] \in [variant : {"Ok", "Over"}, number : {0}]
        \/ /\ Kind[e] = "append"
           /\ applied[e].variant = "Appended" /\ applied[e].number < nextSeq

\* The numbers of the markers are all different.
MarkersDiffer ==
    \A e, f \in Effects :
        applied[e].variant = "Appended" /\ applied[f].variant = "Appended"
          /\ applied[e].number = applied[f].number => e = f

\* A charge and its marker are one transaction.
ChargesMarked ==
    /\ \A c \in charges : applied[c.e].variant = "Ok"
    /\ \A e \in Effects : applied[e].variant = "Ok" => \E c \in charges : c.e = e
    /\ \A c, d \in charges : c.e = d.e => c = d

\* An entry and its marker are one transaction.
EntriesMarked ==
    /\ \A x \in entries : applied[x.by].variant = "Appended" /\ applied[x.by].number = x.seq
    /\ \A x, y \in entries : x.by = y.by => x = y

\* What a worker was told, and what a terminal records, is what the marker says.
Agrees(marker, v) ==
    /\ v.variant = "Appended" => marker = v
    /\ v.variant \in {"Ok", "Over"} => marker.variant = v.variant
Told ==
    /\ \A w \in Workers : work[w].at # "idle" => Agrees(applied[work[w].e], work[w].value)
    /\ \A e \in Effects : Agrees(applied[e], value[e])

Marks == Markers /\ MarkersDiffer /\ ChargesMarked /\ EntriesMarked /\ Told

\* Nothing is marked as applied at the start.
LEMMA InitMarks == CoordInit => Marks
  BY DEF CoordInit, Marks, Markers, MarkersDiffer, ChargesMarked, EntriesMarked, Told, Agrees,
         None, Idle

\* An answer the marker backs keeps the workers' and the terminals' story: a
\* marker, once written, stays.
LEMMA ToldStep ==
  ASSUME CoordTypeOK, Busy, Told, NEW w \in Workers, work[w].at = "act",
         NEW v \in Variants, NEW n \in Nat, Answer(w, v, n),
         value' = value,
         \/ applied' = applied
         \/ /\ applied[work[w].e] = None
            /\ \E m \in Values : applied' = [applied EXCEPT ![work[w].e] = m],
         Agrees(applied'[work[w].e], [variant |-> v, number |-> n])
  PROVE  Told'
<1> DEFINE e == work[w].e
<1>0. e \in Effects /\ work[w] \in WorkStates
  BY DEF Busy, CoordTypeOK
<1>1. ASSUME NEW f \in Effects, NEW u \in Values, Agrees(applied[f], u)
      PROVE  Agrees(applied'[f], u)
  <2>1. CASE applied'[f] = applied[f]
    BY <1>1, <2>1
  <2>2. CASE applied'[f] # applied[f]
    <3>1. f = e /\ applied[f] = None
      BY <1>0, <2>2 DEF CoordTypeOK
    <3>2. u.variant \notin {"Appended", "Ok", "Over"}
      BY <1>1, <3>1 DEF Agrees, None
    <3> QED
      BY <3>2 DEF Agrees
  <2> QED
    BY <2>1, <2>2
<1>2. \A f \in Effects : Agrees(applied'[f], value'[f])
  BY <1>1 DEF CoordTypeOK, Told
<1>3. ASSUME NEW u \in Workers, work'[u].at # "idle"
      PROVE  Agrees(applied'[work'[u].e], work'[u].value)
  <2>1. CASE u = w
    <3>1. work'[u].e = e /\ work'[u].value = [variant |-> v, number |-> n]
      BY <1>0, <2>1 DEF Answer, CoordTypeOK, WorkStates
    <3> QED
      BY <3>1
  <2>2. CASE u # w
    <3>1. work'[u] = work[u]
      BY <2>2 DEF Answer, CoordTypeOK
    <3>2. /\ work[u].e \in Effects /\ work[u].value \in Values
          /\ Agrees(applied[work[u].e], work[u].value)
      BY <1>3, <3>1 DEF Busy, CoordTypeOK, WorkStates, Told
    <3> QED
      BY <1>1, <3>1, <3>2
  <2> QED
    BY <2>1, <2>2
<1> QED
  BY <1>2, <1>3 DEF Told

\* append_for_owner_marked, for an effect without marker.
LEMMA AppendStep ==
  ASSUME CoordTypeOK, Busy, Marks, NEW w \in Workers, Act(w),
         Kind[work[w].e] = "append", AppendEntry(w, work[w].e), ~Marked(work[w].e)
  PROVE  Marks'
<1> DEFINE e == work[w].e
           mark == [variant |-> "Appended", number |-> nextSeq]
           entry == [seq |-> nextSeq, by |-> e, at |-> now]
<1>0. /\ e \in Effects /\ nextSeq \in Nat /\ work[w].at = "act"
      /\ applied \in [Effects -> Values] /\ value' = value
  BY DEF Act, Busy, CoordTypeOK, storeVars
<1>1. /\ applied[e] = None
      /\ nextSeq' = nextSeq + 1
      /\ entries' = {x \in entries \cup {entry} : x.at > now - Retain}
      /\ applied' = [applied EXCEPT ![e] = mark]
      /\ Answer(w, "Appended", nextSeq)
      /\ charges' = charges
  BY DEF AppendEntry, Marked, budgetVars
<1>2. /\ applied'[e] = mark
      /\ \A f \in Effects : f # e => applied'[f] = applied[f]
  BY <1>0, <1>1
<1>3. mark.variant = "Appended" /\ mark.number = nextSeq /\ mark \in Values
  BY <1>0 DEF Values, Variants
<1>4. entry.seq = nextSeq /\ entry.by = e
  OBVIOUS
<1> HIDE DEF mark, entry
<1>5. \A f \in Effects : applied[f].variant = "Appended" => applied[f].number < nextSeq
  BY DEF Marks, Markers, None
<1>6. \A f \in Effects : applied[f].number \in Nat
  BY <1>0 DEF Values
<1>7. Markers'
  <2> SUFFICES ASSUME NEW f \in Effects
               PROVE  \/ applied'[f] = None
                      \/ /\ Kind[f] = "consume"
                         /\ applied'[f] \in [variant : {"Ok", "Over"}, number : {0}]
                      \/ /\ Kind[f] = "append"
                         /\ applied'[f].variant = "Appended" /\ applied'[f].number < nextSeq'
    BY DEF Markers
  <2>1. CASE f = e
    BY <1>0, <1>1, <1>2, <1>3, <2>1
  <2>2. CASE f # e
    BY <1>0, <1>1, <1>2, <1>6, <2>2 DEF Marks, Markers
  <2> QED
    BY <2>1, <2>2
<1>8. MarkersDiffer'
  BY <1>0, <1>2, <1>3, <1>5, <1>6 DEF Marks, MarkersDiffer
<1>9. ChargesMarked'
  <2>1. \A c \in charges : c.e \in Effects /\ c.e # e
    BY <1>1 DEF CoordTypeOK, Marks, ChargesMarked, None
  <2> QED
    BY <1>1, <1>2, <1>3, <2>1 DEF Marks, ChargesMarked
<1>10. EntriesMarked'
  <2>1. \A x \in entries : x.by \in Effects /\ x.by # e
    BY <1>1 DEF CoordTypeOK, Marks, EntriesMarked, None
  <2>2. \A x \in entries' : x = entry \/ x \in entries
    BY <1>1
  <2> QED
    BY <1>2, <1>3, <1>4, <2>1, <2>2 DEF Marks, EntriesMarked
<1>11. Told'
  <2>1. Agrees(applied'[e], [variant |-> "Appended", number |-> nextSeq])
    BY <1>2 DEF Agrees, mark
  <2>2. "Appended" \in Variants
    BY DEF Variants
  <2> QED
    BY <1>0, <1>1, <1>3, <2>1, <2>2, ToldStep DEF Marks
<1> QED
  BY <1>7, <1>8, <1>9, <1>10, <1>11 DEF Marks

\* consume_for_owner_marked, for an effect without marker.
LEMMA ConsumeStep ==
  ASSUME CoordTypeOK, Busy, Marks, NEW w \in Workers, Act(w),
         Kind[work[w].e] = "consume", Consume(w, work[w].e), ~Marked(work[w].e)
  PROVE  Marks'
<1> DEFINE e == work[w].e
           p == PeriodOf(work[w].clock)
           current == IF period = p THEN consumed ELSE 0
           verdict == IF Chargeable(current, e) THEN "Ok" ELSE "Over"
           mark == [variant |-> verdict, number |-> 0]
           charge == [e |-> e, nth |-> Cardinality({c \in charges : c.e = e}),
                      period |-> p, amount |-> Amount[e]]
<1>0. /\ e \in Effects /\ work[w].at = "act" /\ work[w].clock \in Nat
      /\ applied \in [Effects -> Values] /\ value' = value
  BY DEF Act, Busy, CoordTypeOK, WorkStates, storeVars
<1>1. /\ applied[e] = None
      /\ charges' = IF verdict = "Ok" THEN charges \cup {charge} ELSE charges
      /\ applied' = [applied EXCEPT ![e] = mark]
      /\ Answer(w, verdict, p)
      /\ nextSeq' = nextSeq /\ entries' = entries
  BY DEF Consume, Marked, ledgerVars
<1>2. verdict \in {"Ok", "Over"} /\ p \in Nat
  BY <1>0, PeriodType
<1> HIDE DEF verdict, p
<1>3. mark.variant = verdict /\ mark \in [variant : {"Ok", "Over"}, number : {0}] /\ mark \in Values
  BY <1>2 DEF Values, Variants
<1>4. charge.e = e
  OBVIOUS
<1> HIDE DEF mark, charge
<1>5. applied'[e] = mark /\ \A f \in Effects : f # e => applied'[f] = applied[f]
  BY <1>0, <1>1
<1>6. Markers'
  BY <1>0, <1>1, <1>3, <1>5 DEF Marks, Markers
<1>7. MarkersDiffer'
  BY <1>2, <1>3, <1>5 DEF Marks, MarkersDiffer
<1>8. ChargesMarked'
  <2>1. \A c \in charges : c.e \in Effects /\ c.e # e
    BY <1>1 DEF CoordTypeOK, Marks, ChargesMarked, None
  <2> QED
    BY <1>0, <1>1, <1>2, <1>3, <1>4, <1>5, <2>1 DEF Marks, ChargesMarked
<1>9. EntriesMarked'
  <2>1. \A x \in entries : x.by \in Effects /\ x.by # e
    BY <1>1 DEF CoordTypeOK, Marks, EntriesMarked, None
  <2> QED
    BY <1>1, <1>5, <2>1 DEF Marks, EntriesMarked
<1>10. Told'
  <2>1. Agrees(applied'[e], [variant |-> verdict, number |-> p])
    BY <1>2, <1>3, <1>5 DEF Agrees
  <2>2. verdict \in Variants
    BY <1>2 DEF Variants
  <2> QED
    BY <1>0, <1>1, <1>2, <1>3, <2>1, <2>2, ToldStep DEF Marks
<1> QED
  BY <1>6, <1>7, <1>8, <1>9, <1>10 DEF Marks

\* Every step keeps markers, charges and entries in agreement.
LEMMA MarksStep ==
  ASSUME CoordTypeOK, Busy, Marks, [Next]_vars
  PROVE  Marks'
<1> USE DEF leaseVars, budgetVars, ledgerVars, storeVars
<1> DEFINE Kept == UNCHANGED <<charges, nextSeq, entries, applied>>
<1>a. ASSUME Kept, Told' PROVE Marks'
  BY <1>a DEF Marks, Markers, MarkersDiffer, ChargesMarked, EntriesMarked
<1>b. ASSUME Kept, UNCHANGED <<work, value>> PROVE Marks'
  BY <1>a, <1>b DEF Marks, Told
<1>c. ASSUME NEW w \in Workers, Kept, value' = value,
             \A u \in Workers : work'[u] = work[u] \/ work'[u].at = "idle"
                  \/ work'[u].value = None
                  \/ /\ work[u].at # "idle"
                     /\ work'[u].e = work[u].e /\ work'[u].value = work[u].value
      PROVE  Marks'
  <2>1. \A m : Agrees(m, None)
    BY DEF Agrees, None
  <2>2. \A u \in Workers : work'[u].at # "idle" => Agrees(applied'[work'[u].e], work'[u].value)
    BY <1>c, <2>1 DEF Marks, Told
  <2> QED
    BY <1>a, <1>c, <2>2 DEF Marks, Told
<1>1. ASSUME NEW w \in Workers, NEW e \in Effects, Claim(w, e) PROVE Marks'
  <2>1. \A u \in Workers : work'[u] = work[u] \/ work'[u].value = None
    BY <1>1 DEF Claim, CoordTypeOK, Idle
  <2> QED
    BY <1>1, <1>c, <2>1 DEF Claim
<1>2. ASSUME NEW w \in Workers, Act(w) PROVE Marks'
  <2> DEFINE e == work[w].e
  <2>0. /\ e \in Effects /\ work[w].at = "act" /\ value' = value
        /\ applied[e] \in Values
    BY <1>2 DEF Act, Busy, CoordTypeOK
  <2>a. ASSUME NEW v \in Variants, NEW n \in Nat, Answer(w, v, n), Kept,
               Agrees(applied[e], [variant |-> v, number |-> n])
        PROVE  Marks'
    BY <1>a, <2>0, <2>a, ToldStep DEF Marks
  <2>b. ASSUME NEW v \in Variants \ {"Appended", "Ok", "Over"}, NEW n \in Nat,
               Answer(w, v, n), Kept
        PROVE  Marks'
    <3>1. Agrees(applied[e], [variant |-> v, number |-> n])
      BY DEF Agrees
    <3> QED
      BY <2>a, <2>b, <3>1
  <2>1. CASE e \in Malformed /\ Answer(w, "Malformed", 0)
              /\ UNCHANGED <<leaseVars, budgetVars, ledgerVars, applied>>
    BY <2>1, <2>b DEF Variants
  <2>2. CASE TryAcquire(w, e)
    <3>1. CASE work' = [work EXCEPT ![w] = Idle]
      <4>1. \A u \in Workers : work'[u] = work[u] \/ work'[u].at = "idle"
        BY <3>1 DEF CoordTypeOK, Idle
      <4> QED
        BY <1>c, <2>0, <2>2, <4>1 DEF TryAcquire
    <3>2. CASE Answer(w, "Held", 0) \/ Answer(w, "Contended", 0)
      BY <2>2, <2>b, <3>2 DEF TryAcquire, Variants
    <3> QED
      BY <2>2, <3>1, <3>2 DEF TryAcquire
  <2>3. CASE Release(w, e)
    BY <2>3, <2>b DEF Release, Variants
  <2>4. CASE Renew(w, e)
    <3>1. now + Ttl \in Nat
      BY CoordinationAssumption DEF CoordTypeOK
    <3> QED
      BY <2>4, <2>b, <3>1 DEF Renew, Variants
  <2>5. CASE Kind[e] = "append" /\ AppendEntry(w, e)
    <3>1. CASE Marked(e)
      <4>1. Answer(w, "Appended", applied[e].number) /\ Kept
        BY <2>5, <3>1 DEF AppendEntry
      <4>2. applied[e].variant = "Appended" /\ applied[e].number \in Nat
        BY <2>0, <2>5, <3>1 DEF Marked, Marks, Markers, Values
      <4>3. applied[e] = [variant |-> "Appended", number |-> applied[e].number]
        BY <2>0, <4>2 DEF Values
      <4>4. Agrees(applied[e], [variant |-> "Appended", number |-> applied[e].number])
        BY <4>3 DEF Agrees
      <4> QED
        BY <2>a, <4>1, <4>2, <4>4 DEF Variants
    <3>2. CASE ~Marked(e)
      BY <1>2, <2>5, <3>2, AppendStep
    <3> QED
      BY <3>1, <3>2
  <2>6. CASE Kind[e] = "consume" /\ Consume(w, e)
    <3>1. CASE Marked(e)
      <4>0. work[w].clock \in Nat
        BY DEF CoordTypeOK, WorkStates
      <4>1. PICK n \in Nat : Answer(w, applied[e].variant, n) /\ Kept
        BY <2>6, <3>1, <4>0, PeriodType DEF Consume
      <4>2. applied[e].variant \in {"Ok", "Over"}
        BY <2>0, <2>6, <3>1 DEF Marked, Marks, Markers
      <4>3. Agrees(applied[e], [variant |-> applied[e].variant, number |-> n])
        BY <4>2 DEF Agrees
      <4> QED
        BY <2>a, <4>1, <4>2, <4>3 DEF Variants
    <3>2. CASE ~Marked(e)
      BY <1>2, <2>6, <3>2, ConsumeStep
    <3> QED
      BY <3>1, <3>2
  <2> QED
    BY <1>2, <2>1, <2>2, <2>3, <2>4, <2>5, <2>6 DEF Act
<1>3. ASSUME NEW w \in Workers, StartRun(w) PROVE Marks'
  <2>1. \A u \in Workers : work'[u] = work[u]
            \/ /\ work[u].at # "idle"
               /\ work'[u].e = work[u].e /\ work'[u].value = work[u].value
    BY <1>3 DEF StartRun, CoordTypeOK, WorkStates
  <2> QED
    BY <1>3, <1>c, <2>1 DEF StartRun
<1>4. ASSUME NEW w \in Workers, CompleteRun(w) PROVE Marks'
  <2> DEFINE e == work[w].e
  <2>0. e \in Effects /\ Agrees(applied[e], work[w].value)
    BY <1>4 DEF CompleteRun, Busy, Marks, Told
  <2>1. \A u \in Workers : work'[u] = work[u]
            \/ /\ work[u].at # "idle"
               /\ work'[u].e = work[u].e /\ work'[u].value = work[u].value
    BY <1>4 DEF CompleteRun, CoordTypeOK, WorkStates
  <2>2. \A f \in Effects : Agrees(applied[f], value'[f])
    BY <1>4, <2>0 DEF CompleteRun, CoordTypeOK, Marks, Told
  <2>3. Kept
    BY <1>4 DEF CompleteRun
  <2>4. Told'
    BY <2>1, <2>2, <2>3 DEF Told, Marks
  <2> QED
    BY <1>a, <2>3, <2>4
<1>5. ASSUME NEW w \in Workers, DeriveFact(w) \/ Refused(w) \/ Crash(w) PROVE Marks'
  <2>1. \A u \in Workers : work'[u] = work[u] \/ work'[u].at = "idle"
    BY <1>5 DEF DeriveFact, Refused, Crash, CoordTypeOK, Idle
  <2> QED
    BY <1>5, <1>c, <2>1 DEF DeriveFact, Refused, Crash
<1>6. ASSUME NEW e, CancelEffect(e) \/ RecoverRun(e) \/ CommitHeldBranch(e) PROVE Marks'
  BY <1>6, <1>b DEF CancelEffect, RecoverRun, CommitHeldBranch
<1>7. ASSUME NEW i, EndInstance(i) \/ ReleaseHolder(i) PROVE Marks'
  BY <1>7, <1>b DEF EndInstance, ReleaseHolder
<1>8. CASE Tick \/ UNCHANGED vars
  BY <1>8, <1>b DEF Tick, vars
<1> QED
  BY <1>1, <1>2, <1>3, <1>4, <1>5, <1>6, <1>7, <1>8 DEF Next, WorkerStep

\* The budget row: only an unmarked consume writes it.
LEMMA BudgetStep ==
  ASSUME CoordTypeOK, Busy, BudgetBounded, [Next]_vars
  PROVE  BudgetBounded'
<1> USE DEF leaseVars, budgetVars, ledgerVars, storeVars
<1>1. ASSUME NEW w \in Workers, Act(w), consumed' # consumed PROVE BudgetBounded'
  <2> DEFINE e == work[w].e
             p == PeriodOf(work[w].clock)
             current == IF period = p THEN consumed ELSE 0
  <2>0. e \in Effects
    BY <1>1 DEF Act, Busy
  <2>1. Consume(w, e) /\ ~Marked(e)
    BY <1>1 DEF Act, TryAcquire, Release, Renew, AppendEntry, Consume
  <2>2. consumed' = IF Chargeable(current, e) THEN current + Amount[e] ELSE current
    BY <2>1 DEF Consume
  <2>3. /\ consumed \in Int /\ Amount[e] \in Int /\ Cap[e] \in Int
        /\ consumed >= 0
    BY <2>0, CoordinationAssumption DEF CoordTypeOK, BudgetBounded
  <2>4. CASE Chargeable(current, e)
    <3>1. Amount[e] >= 0 /\ consumed' <= Cap[e] /\ consumed' = current + Amount[e]
      BY <2>2, <2>4 DEF Chargeable
    <3>2. current \in Int /\ current >= 0
      BY <2>3
    <3> HIDE DEF current
    <3>3. consumed' >= 0
      BY <2>3, <3>1, <3>2
    <3> QED
      BY <2>0, <3>1, <3>3 DEF BudgetBounded
  <2>5. CASE ~Chargeable(current, e)
    <3>1. consumed' = 0
      BY <1>1, <2>2, <2>5
    <3> QED
      BY <3>1 DEF BudgetBounded
  <2> QED
    BY <2>4, <2>5
<1>2. CASE consumed' = consumed
  BY <1>2 DEF BudgetBounded
<1>3. consumed' = consumed \/ \E w \in Workers : Act(w)
  BY DEF Next, WorkerStep, Claim, StartRun, CompleteRun, DeriveFact, Refused, Crash, CancelEffect,
         RecoverRun, CommitHeldBranch, EndInstance, ReleaseHolder, Tick, vars
<1> QED
  BY <1>1, <1>2, <1>3

\* What the markers say gives the two properties.
LEMMA MarksSuffice ==
  ASSUME CoordTypeOK, Marks
  PROVE  ChargedAsRecorded /\ LedgerNumbersOnce
<1>1. ChargedAsRecorded
  <2> SUFFICES ASSUME NEW e \in Effects
               PROVE  LET mine == {c \in charges : c.e = e}
                      IN /\ Cardinality(mine) <= 1
                         /\ value[e].variant = "Ok" => mine # {}
                         /\ value[e].variant = "Over" => mine = {}
    BY DEF ChargedAsRecorded
  <2> DEFINE mine == {c \in charges : c.e = e}
  <2>1. Cardinality(mine) <= 1
    <3>1. CASE mine = {}
      BY <3>1, FS_EmptySet
    <3>2. CASE mine # {}
      <4>1. PICK c : c \in mine
        BY <3>2
      <4>2. mine = {c}
        BY <4>1 DEF Marks, ChargesMarked
      <4>3. Cardinality({c}) = 1
        BY FS_Singleton
      <4> QED
        BY <4>2, <4>3
    <3> QED
      BY <3>1, <3>2
  <2>2. value[e].variant = "Ok" => mine # {}
    BY DEF Marks, Told, Agrees, ChargesMarked
  <2>3. value[e].variant = "Over" => mine = {}
    BY DEF Marks, Told, Agrees, ChargesMarked
  <2> QED
    BY <2>1, <2>2, <2>3
<1>2. LedgerNumbersOnce
  <2>1. \A x \in entries : x.by \in Effects
    BY DEF CoordTypeOK
  <2>2. \A x, y \in entries : (x.seq = y.seq \/ x.by = y.by) => x = y
    BY <2>1 DEF Marks, EntriesMarked, MarkersDiffer
  <2>3. ASSUME NEW e \in Effects, value[e].variant = "Appended"
        PROVE  /\ \A x \in entries : x.by = e <=> x.seq = value[e].number
               /\ \A f \in Effects : value[f] = value[e] => f = e
    <3>1. applied[e] = value[e]
      BY <2>3 DEF Marks, Told, Agrees
    <3>2. \A x \in entries : x.by = e <=> x.seq = value[e].number
      BY <2>1, <2>3, <3>1 DEF Marks, EntriesMarked, MarkersDiffer
    <3>3. \A f \in Effects : value[f] = value[e] => applied[f] = value[e]
      BY <2>3 DEF Marks, Told, Agrees
    <3> QED
      BY <2>3, <3>1, <3>2, <3>3 DEF Marks, MarkersDiffer
  <2> QED
    BY <2>2, <2>3 DEF LedgerNumbersOnce
<1> QED
  BY <1>1, <1>2

\* An effect is charged at most once whatever workers repeat, race or die, its
\* terminal says what was done, and the row never leaves its bounds.
THEOREM BudgetIsAccounted == CoordSpec => []BudgetAccounted
<1> DEFINE I == CoordTypeOK /\ Busy /\ Marks /\ BudgetBounded
<1>1. CoordInit => I
  <2>1. CoordInit => BudgetBounded
    BY DEF CoordInit, BudgetBounded
  <2> QED
    BY <2>1, InitCoord, InitMarks
<1>2. I /\ [Next]_vars => I'
  BY TypeStep, MarksStep, BudgetStep
<1>3. I => BudgetAccounted
  BY MarksSuffice DEF BudgetAccounted
<1> QED
  BY <1>1, <1>2, <1>3, PTL DEF CoordSpec

\* No two appends share a number, no append is entered twice, and a terminal
\* names the number its entry has.
THEOREM LedgerIsNumberedOnce == CoordSpec => []LedgerNumbersOnce
<1> DEFINE I == CoordTypeOK /\ Busy /\ Marks
<1>1. CoordInit => I
  BY InitCoord, InitMarks
<1>2. I /\ [Next]_vars => I'
  BY TypeStep, MarksStep
<1>3. I => LedgerNumbersOnce
  BY MarksSuffice
<1> QED
  BY <1>1, <1>2, <1>3, PTL DEF CoordSpec
=============================================================================
