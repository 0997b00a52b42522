---------------------------- MODULE AttemptLedger ---------------------------
(***************************************************************************)
(* What the log knows about one dispatched attempt: the record that        *)
(* fold_attempts keeps per run while it reads the effect's events in       *)
(* durable order, one operator per kind of event it folds, and the test    *)
(* the resubmission doors apply to it.                                     *)
(*                                                                         *)
(* The source also keeps the evidence records and skips one it has seen.    *)
(* Folding a record twice changes nothing here either (its disposition is   *)
(* the current one, or the attempt is already disputed), so the list is     *)
(* left out.                                                                *)
(***************************************************************************)

Dispositions == {"unknown", "not_dispatched", "applied", "not_applied"}

EvidenceDispositions == {"applied", "not_applied"}

Attempts == [disposition : Dispositions,
             disputed    : BOOLEAN,
             observed    : BOOLEAN]

\* effect.run_started pushes this record.
NewAttempt == [disposition |-> "unknown", disputed |-> FALSE, observed |-> FALSE]

\* A statement about the target: the first one decides, a different one
\* disputes, an equal one changes nothing.
Stated(a, d) ==
    [disposition |-> IF a.disposition = "unknown" THEN d ELSE a.disposition,
     disputed    |-> a.disputed \/ a.disposition \notin {"unknown", d},
     observed    |-> a.observed]

\* effect.disposition.recorded / effect.disposition.reconciled
FoldEvidence(a, d) == Stated(a, d)

\* exec.fence.proved: only a not_admitted closure says anything of the target.
FoldProof(a, lifetime) ==
    IF lifetime = "not_admitted" THEN Stated(a, "not_dispatched") ELSE a

\* exec.settlement.retained: an uncertain settlement observes nothing.
FoldSettlement(a, settled) ==
    [disposition |-> a.disposition,
     disputed    |-> a.disputed,
     observed    |-> a.observed \/ settled # "uncertain"]

\* Mutant: an attempt nobody knows the fate of counts as absent.
NotKnownApplied(a) == ~a.disputed /\ a.disposition # "applied"

\* The negation of require_proved_absence's closure `unproved'.
ProvedAbsent(a) ==
    /\ ~a.disputed
    /\ \/ a.disposition \in {"not_applied", "not_dispatched"}
       \/ a.disposition = "unknown" /\ a.observed
=============================================================================
