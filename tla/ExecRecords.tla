---------------------------- MODULE ExecRecords ----------------------------
(***************************************************************************)
(* The reducers of executor custody, shared by the hosted controller and   *)
(* the native one: the lifecycle record of one invocation at its           *)
(* controller (exec_controller.rs), the controller-wide admission barrier  *)
(* (exec_barrier.rs) and the lifetime evidence a broker folds from the     *)
(* controller's answers (exec_resolution.rs).  Pure operators: a host      *)
(* commits what they return in one transaction.                            *)
(*                                                                         *)
(* A record is one shape for the five states of the source's enumeration;  *)
(* a field a state does not have holds its empty value.  "bar" is the      *)
(* generation of the barrier that proved termination, in a terminated      *)
(* record and in a completed record whose fence was proved.  The barrier's *)
(* identity is its generation, and serves as a fence identity too.         *)
(* Malformed and foreign records (empty identities, another placement) are *)
(* refused by validation before the reducers and are left out.             *)
(***************************************************************************)
EXTENDS Naturals

CONSTANTS Invocations,   \* one per attempt of an external command
          FenceIds,      \* the identities callers propose for a fence
          Results,       \* what a command may return: a status with a body
          NoFence, NoResult

ASSUME Distinct == NoResult \notin Results /\ NoFence \notin FenceIds \cup Nat

States == {"absent", "admitted", "fencing", "not_admitted", "terminated", "completed"}

Records ==
  [st : States, inc : Nat, fence : FenceIds \cup Nat \cup {NoFence},
   bar : Nat, res : Results \cup {NoResult}]

Absent == [st |-> "absent", inc |-> 0, fence |-> NoFence, bar |-> 0, res |-> NoResult]

\* The identities a record of each state must have.
Valid(r) ==
  /\ r \in Records
  /\ r.st \notin {"absent", "not_admitted"} <=> r.inc # 0
  /\ r.st \in {"fencing", "not_admitted", "terminated"} => r.fence # NoFence
  /\ r.bar # 0 => r.fence # NoFence /\ r.st \in {"terminated", "completed"}
  /\ r.st = "terminated" => r.bar # 0
  /\ r.st = "completed" <=> r.res # NoResult

-----------------------------------------------------------------------------
(* One record.                                                             *)

\* The fence a barrier still has to prove.
PendingFence(r) ==
  \/ r.st = "fencing"
  \/ r.st = "completed" /\ r.fence # NoFence /\ r.bar = 0

\* Mutants of Admits: a fenced record is admitted; the barrier is not looked at.
AdmitsFenced(r, barrier, observed) == ~barrier.closing /\ barrier.gen = observed
AdmitsBehindBarrier(r, barrier, observed) == r.st = "absent"

\* A first admission: everything but an absent record is only read back.
Admits(r, barrier, observed) ==
  /\ r.st = "absent"
  /\ ~barrier.closing /\ barrier.gen = observed

Admitted(incarnation) == [Absent EXCEPT !.st = "admitted", !.inc = incarnation]

\* Join the fence that is there, or establish this one.
EnsureFence(r, f) ==
  CASE r.st = "absent" -> [r EXCEPT !.st = "not_admitted", !.fence = f]
    [] r.st = "admitted" -> [r EXCEPT !.st = "fencing", !.fence = f]
    [] r.st = "completed" /\ r.fence = NoFence -> [r EXCEPT !.fence = f]
    [] OTHER -> r

\* A completion is accepted from the admitted incarnation, once, before the
\* barrier has proved termination.  A pending fence stays pending on it.
MayComplete(r, incarnation, v) ==
  /\ r.st \in {"admitted", "fencing", "completed"} /\ r.inc = incarnation
  /\ r.st = "completed" => r.res = v

Complete(r, v) == [r EXCEPT !.st = "completed", !.res = v]

-----------------------------------------------------------------------------
(* The barrier over all records of one controller.                         *)

NoBarrier == [gen |-> 0, closing |-> FALSE, targets |-> {}]

FencedBy(g, recs) ==
  [i \in Invocations |->
     IF recs[i].st = "admitted" \/ (recs[i].st = "completed" /\ recs[i].fence = NoFence)
       THEN EnsureFence(recs[i], g) ELSE recs[i]]

\* Freeze every execution that is not proved over, under the next generation.
Begin(b, recs) ==
  LET g == b.gen + 1
      fenced == FencedBy(g, recs)
      targets == {[inv |-> i, inc |-> fenced[i].inc, fence |-> fenced[i].fence] :
                    i \in {j \in Invocations : PendingFence(fenced[j])}}
  IN IF b.closing \/ targets = {}
       THEN [barrier |-> b, recs |-> recs]
       ELSE [barrier |-> [gen |-> g, closing |-> TRUE, targets |-> targets], recs |-> fenced]

TargetOf(b, i) == CHOOSE t \in b.targets : t.inv = i
Targeted(b) == {t.inv : t \in b.targets}

\* What the end of a barrier checks before it writes anything: no execution
\* outside the targets, and every target still the one frozen.  Ending a
\* barrier again finds its targets proved, and changes nothing.
MayFinish(b, recs) ==
  /\ \A i \in Invocations \ Targeted(b) : recs[i].st \notin {"admitted", "fencing"}
  /\ \A t \in b.targets :
       LET r == recs[t.inv]
       IN /\ r.inc = t.inc
          /\ \/ b.closing /\ r.st = "fencing" /\ r.fence = t.fence
             \/ b.closing /\ r.st = "completed" /\ r.fence \in {NoFence, t.fence} /\ r.bar = 0
             \/ ~b.closing /\ r.st \in {"terminated", "completed"}
                           /\ r.fence = t.fence /\ r.bar = b.gen

Finish(b, recs) ==
  [barrier |-> [b EXCEPT !.closing = FALSE],
   recs |-> [i \in Invocations |->
               IF i \notin Targeted(b) THEN recs[i]
               ELSE [recs[i] EXCEPT
                       !.st = IF @ = "fencing" THEN "terminated" ELSE @,
                       !.fence = TargetOf(b, i).fence,
                       !.bar = b.gen]]]

-----------------------------------------------------------------------------
(* Lifetime evidence: what an answer of the controller proves.  An answer  *)
(* is the record it was read from.                                         *)

PendingLife == [st |-> "pending", inc |-> 0, fence |-> NoFence, bar |-> 0]

Lives == [st : {"pending", "not_admitted", "terminated"}, inc : Nat,
          fence : FenceIds \cup Nat \cup {NoFence}, bar : Nat]

LifeSeen(r) ==
  CASE r.st = "not_admitted" -> [st |-> "not_admitted", inc |-> 0, fence |-> r.fence, bar |-> 0]
    [] r.bar # 0 -> [st |-> "terminated", inc |-> r.inc, fence |-> r.fence, bar |-> r.bar]
    [] OTHER -> PendingLife

\* What the broker refuses to fold: a second result, another proof than the
\* retained one, a result of an invocation proved never admitted.
MayRetain(receipt, r) == r.st = "completed" => receipt.res \in {NoResult, r.res}

MayObserve(receipt, life, r) ==
  /\ MayRetain(receipt, r)
  /\ LifeSeen(r) # PendingLife => life \in {PendingLife, LifeSeen(r)}
  /\ "not_admitted" \in {life.st, LifeSeen(r).st} => receipt.res = NoResult /\ r.st # "completed"

\* The outcome a broker states from its receipt and its evidence.
OutcomeOf(receipt, life) ==
  [said |-> IF receipt.res # NoResult THEN "completed"
            ELSE CASE life.st = "not_admitted" -> "not_executed"
                   [] life.st = "terminated" -> "uncertain"
                   [] OTHER -> "pending",
   res |-> receipt.res]

=============================================================================
