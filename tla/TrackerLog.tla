----------------------------- MODULE TrackerLog -----------------------------
(***************************************************************************)
(* The log of one tracker issue as data: content-addressed events that     *)
(* form a DAG, and what a clone derives from the set it holds: the heads,  *)
(* the topological order, the projected row and leases, the waits and the  *)
(* conflicts.  An event is known by its id, and ev maps ids to contents;   *)
(* the order of ids is the arbitrary order of hashes.                      *)
(***************************************************************************)
EXTENDS Naturals, FiniteSets, Sequences, SequencesExt

CONSTANTS None, Never

Statuses == {"open", "closed", "canceled"}

(* One event: every kind uses the fields it needs and leaves the others.   *)
Blank == [kind |-> None, at |-> 0, parents |-> {}, actor |-> None,
          status |-> None, summary |-> None, until |-> Never, ref |-> 0,
          forced |-> FALSE]

IsAcquire(e) == e.kind = "claim.acquired"

(***************************************************************************)
(* The DAG.                                                                *)
(***************************************************************************)
\* Mutant of dag_frontier: one head only, the largest.
LastHead(ev, S) == {i \in S : \A j \in S : j <= i}
dag_frontier(ev, S) == {i \in S : \A j \in S : i \notin ev[j].parents}

(* Parents before children, the smallest id first among the ready; a       *)
(* parent that is not held does not hold its child back.                   *)
Smallest(T) == CHOOSE i \in T : \A j \in T : i <= j
ReadyEvents(ev, S, placed) == {i \in S \ placed : ev[i].parents \cap S \subseteq placed}
Place(ev, S, done) == Append(done, Smallest(ReadyEvents(ev, S, ToSet(done))))

topological_event_order(ev, S) ==
    LET order[n \in 0..Cardinality(S)] == IF n = 0 THEN <<>> ELSE Place(ev, S, order[n - 1])
    IN  order[Cardinality(S)]

(* The ancestors of i among the held events, and whether all are held.     *)
WithParents(ev, S, T) == T \cup UNION {ev[j].parents : j \in T \cap S}

Ancestors(ev, S, i) ==
    LET up[n \in 0..Cardinality(S)] ==
          IF n = 0 THEN ev[i].parents ELSE WithParents(ev, S, up[n - 1])
    IN  up[Cardinality(S)]

concurrent_claim_advisories(ev, S) ==
    LET claims == {i \in S : IsAcquire(ev[i]) /\ Ancestors(ev, S, i) \subseteq S}
        Apart(i, j) == i # j /\ i \notin Ancestors(ev, S, j) /\ j \notin Ancestors(ev, S, i)
    IN  {pair \in SUBSET claims : \E i, j \in claims : Apart(i, j) /\ pair = {i, j}}

(***************************************************************************)
(* The conflict view of the status: an event that sets it counts unless a  *)
(* descendant sets it too; covered goes up the DAG, children first.        *)
(***************************************************************************)
SetsStatus(e) == e.kind \in {"issue.field_set", "issue.closed", "issue.canceled", "issue.reopened"}

\* Mutant of analyze_issue_dag: the displayed value is the value.
LastSetter(ev, S) ==
    LET setters == SelectSeq(topological_event_order(ev, S), LAMBDA i : SetsStatus(ev[i]))
    IN  IF setters = <<>> THEN {} ELSE {ev[setters[Len(setters)]].status}
Cover(ev, S, covered, i) ==
    covered \cup {k \in {i} : \E j \in S : k \in ev[j].parents /\ (j \in covered \/ SetsStatus(ev[j]))}

CoveredBy(ev, S, s) ==
    LET covered[n \in 0..Len(s)] ==
          IF n = 0 THEN {} ELSE Cover(ev, S, covered[n - 1], s[Len(s) + 1 - n])
    IN  covered[Len(s)]

analyze_issue_dag(ev, S) ==
    LET covered == CoveredBy(ev, S, topological_event_order(ev, S))
    IN  {ev[i].status : i \in {j \in S \ covered : SetsStatus(ev[j])}}

StatusConflicted(ev, S) == Cardinality(analyze_issue_dag(ev, S)) > 1

(***************************************************************************)
(* The projection: the issue's row and the leases, one per acquisition.    *)
(***************************************************************************)
NoRow == [row |-> FALSE, status |-> None, summary |-> None, releases |-> 0, leases |-> {}]

Lease(i, e) == [id |-> i, actor |-> e.actor, since |-> e.at, until |-> e.until, out |-> Never]

Extended(p, l, until) ==
    [p EXCEPT !.leases = {IF k.id = l THEN [k EXCEPT !.until = until] ELSE k : k \in @}]

Ended(p, l, at) ==
    [p EXCEPT !.leases = {IF k.id = l THEN [k EXCEPT !.out = at] ELSE k : k \in @},
              !.releases = IF p.row THEN @ + 1 ELSE @]

(* COALESCE: a status event without a summary keeps the one that is there. *)
fold_set_status(p, e) ==
    IF p.row
    THEN [p EXCEPT !.status = e.status,
                   !.summary = IF e.summary = None THEN @ ELSE e.summary]
    ELSE p

fold_event(ev, p, i) ==
    LET e == ev[i]
    IN  CASE e.kind = "issue.created" -> [p EXCEPT !.row = TRUE, !.status = "open"]
          [] e.kind = "issue.field_set" -> IF p.row THEN [p EXCEPT !.status = e.status] ELSE p
          [] e.kind \in {"issue.closed", "issue.canceled", "issue.reopened"} -> fold_set_status(p, e)
          [] e.kind = "claim.acquired" -> [p EXCEPT !.leases = @ \cup {Lease(i, e)}]
          [] e.kind = "claim.renewed" -> Extended(p, e.ref, e.until)
          [] e.kind \in {"claim.released", "claim.expired"} -> Ended(p, e.ref, e.at)
          [] OTHER -> p

Folded(ev, s) ==
    LET fold[n \in 0..Len(s)] == IF n = 0 THEN NoRow ELSE fold_event(ev, fold[n - 1], s[n])
    IN  fold[Len(s)]

(* An issue whose creation is not held has no alias, and nothing of it is  *)
(* projected.                                                              *)
IsFiled(ev, S) == \E i \in S : ev[i].kind = "issue.created"

\* Mutant of tx_rebuild_projection: in the order of the rows.
RebuildByRow(ev, log) ==
    IF IsFiled(ev, ToSet(log)) THEN Folded(ev, log) ELSE NoRow
tx_rebuild_projection(ev, log) ==
    IF IsFiled(ev, ToSet(log)) THEN Folded(ev, topological_event_order(ev, ToSet(log))) ELSE NoRow

(* Waits are derived from the log in the order of its rows: a wait is live *)
(* unless a later row removes it.                                          *)
live_waits(ev, log) ==
    LET RemovedAfter(n) == \E m \in DOMAIN log : /\ m > n
                                                /\ ev[log[m]].kind = "wait.removed"
                                                /\ ev[log[m]].ref = log[n]
    IN  {log[n] : n \in {m \in DOMAIN log : ev[log[m]].kind = "wait.added" /\ ~RemovedAfter(m)}}

(* ACTIVE_LEASE, and the lease a query by acquired_at DESC LIMIT 1 returns *)
(* (any of those acquired in the same second).                             *)
Active(p, at) == {l \in p.leases : l.out = Never /\ l.until > at}
Latest(p, at) == {l \in Active(p, at) : \A k \in Active(p, at) : k.since <= l.since}

(* claim.expired's lapsed leases.                                          *)
\* Mutant of Lapsed: a lapsed lease is only passed over.
NoneLapsed(p, at) == {}
Lapsed(p, at) == {l \in p.leases : l.out = Never /\ l.until <= at}

(* unready_reasons of an open, unclaimed task without dependencies: a      *)
(* status in conflict, or a wait whose instant has not come.               *)
Ready(ev, log, at) ==
    /\ ~StatusConflicted(ev, ToSet(log))
    /\ \A w \in live_waits(ev, log) : ev[w].until <= at
=============================================================================
