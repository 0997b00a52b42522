---------------------------- MODULE TrackerSync ----------------------------
(***************************************************************************)
(* Clones of a tracker that edit one issue each in its own store and meet  *)
(* in a shared directory of event files (sync_dir).  An edit is one        *)
(* transaction: it appends events whose parents are the heads the clone    *)
(* holds and writes the projected tables itself.  A sync is not: it writes *)
(* the files of the log it read one by one, lists the directory, and       *)
(* imports what it read in one transaction that rebuilds the tables.       *)
(* Commands and a running sync of one clone are different processes.       *)
(***************************************************************************)
EXTENDS TrackerLog

CONSTANTS Clones,
          Values,      \* the statuses set_field is asked to write
          Menus        \* what the clones of a behaviour may do, and its bounds

ASSUME TrackerConstants ==
    /\ Never \in Nat /\ Values \subseteq Statuses
    /\ \A m \in Menus :
          /\ IsFiniteSet(m.ids) /\ m.ids \subseteq Nat \ {0} /\ m.ids # {}
          /\ m.ttls \cup m.renewals \subseteq Nat
          /\ {m.time, m.lag, m.crashes} \subseteq Nat
          /\ Never > m.time + m.time
          /\ {m.shared, m.anyHash} \subseteq BOOLEAN /\ m.forces \subseteq BOOLEAN
          /\ None \notin m.actors \cup Statuses

VARIABLE menu

Ops        == menu.ops        \* the operations the clones use
Actors     == menu.actors
Summaries  == menu.summaries
Shared     == menu.shared     \* whether the issue is filed and synced at the start
Ids        == menu.ids        \* hashes: as many as events may be written
AnyHash    == menu.anyHash    \* whether hashes come in any order, or in that of writing
Forces     == menu.forces     \* whether a claim may override what makes an issue unready
MaxTime    == menu.time       \* bound of the clock, in seconds
Ttls       == menu.ttls       \* lengths of a claim; Never for one that does not expire
Renewals   == menu.renewals   \* lengths of a renewal; Never for one without a deadline
MaxLag     == menu.lag        \* how far a caller's instant lies behind the store's clock
MaxCrashes == menu.crashes    \* syncs that are killed

VARIABLES
    ev,        \* the events ever written anywhere: what each hash is the hash of
    log,       \* tracker_events of each clone, in event_seq order
    proj,      \* its tracker_issues row and tracker_leases
    reported,  \* pairs of claims its imports reported as concurrent
    dir,       \* the shared directory: a file is whole, or torn by a crash
    pc,        \* where the clone's sync_dir is
    todo,      \* the log as its export read it
    seen,      \* the whole files when its import began to read
    now, crashes,
    blind      \* history: events written by a clone that lacked a parent of one it held

stores == <<menu, ev, log, proj, reported, blind>>
syncs == <<dir, pc, todo, seen>>
vars == <<menu, ev, log, proj, reported, blind, dir, pc, todo, seen, now, crashes>>

Stages == {"idle", "export", "import"}
Held(c) == ToSet(log[c])
Complete(c) == \A i \in Held(c) : ev[i].parents \subseteq Held(c)
WholeFiles == {i \in DOMAIN dir : dir[i] = "whole"}

(* Empty stores, or the issue filed by one clone and synced by all.        *)
Created == [Blank EXCEPT !.kind = "issue.created"]
Filed == [NoRow EXCEPT !.row = TRUE, !.status = "open"]
Root == CHOOSE i \in Ids : \A j \in Ids : i <= j

Init ==
    /\ menu \in Menus
    /\ ev = [i \in IF Shared THEN {Root} ELSE {} |-> Created]
    /\ dir = [i \in IF Shared THEN {Root} ELSE {} |-> "whole"]
    /\ log = [c \in Clones |-> IF Shared THEN <<Root>> ELSE <<>>]
    /\ proj = [c \in Clones |-> IF Shared THEN Filed ELSE NoRow]
    /\ reported = [c \in Clones |-> {}]
    /\ pc = [c \in Clones |-> "idle"]
    /\ todo = [c \in Clones |-> <<>>]
    /\ seen = [c \in Clones |-> {}]
    /\ now = 0 /\ crashes = 0 /\ blind = {}

Put(f, i, v) == [j \in DOMAIN f \cup {i} |-> IF j = i THEN v ELSE f[j]]

(***************************************************************************)
(* One transaction appends the bodies in turn.  The hash of a content is   *)
(* the one it already has, or any hash no other content has; it covers the *)
(* parents and the second of writing.                                      *)
(***************************************************************************)
tx_append_raw(st, body, i) ==
    LET content == [body EXCEPT !.at = now, !.parents = dag_frontier(st.ev, ToSet(st.log))]
        known == {j \in DOMAIN st.ev : st.ev[j] = content}
    IN  [ev  |-> Put(st.ev, i, content),
         log |-> Append(st.log, i),
         ok  |-> /\ st.ok
                 /\ IF known # {} THEN i \in known
                    ELSE i \notin DOMAIN st.ev /\ (AnyHash \/ i = Cardinality(DOMAIN st.ev) + 1)]

(* live is the row and the leases after the bodies, by the id of the last. *)
Transact(c, bodies, live) ==
    \E ids \in [DOMAIN bodies -> Ids] :
        LET st[k \in 0..Len(bodies)] ==
              IF k = 0 THEN [ev |-> ev, log |-> log[c], ok |-> TRUE]
              ELSE tx_append_raw(st[k - 1], bodies[k], ids[k])
            end == st[Len(bodies)]
        IN  /\ end.ok
            /\ ev' = end.ev
            /\ log' = [log EXCEPT ![c] = end.log]
            /\ proj' = [proj EXCEPT ![c] = live[ids[Len(bodies)]]]
            /\ blind' = IF Complete(c) THEN blind ELSE blind \cup {ids[k] : k \in DOMAIN ids}
            /\ UNCHANGED <<menu, reported, syncs, now, crashes>>

(***************************************************************************)
(* The operations of a store.                                              *)
(***************************************************************************)
file_item(c) ==
    /\ "file" \in Ops
    /\ DOMAIN ev = {}      \* one issue
    /\ Transact(c, <<Created>>, [i \in Ids |-> Filed])

set_field(c, status) ==
    /\ "set" \in Ops
    /\ proj[c].row
    /\ Transact(c, <<[Blank EXCEPT !.kind = "issue.field_set", !.status = status]>>,
                [i \in Ids |-> [proj[c] EXCEPT !.status = status]])

(* tx_holder_conflict and tx_release_active_lease: the lease the           *)
(* transaction releases, one or none.  An agent names itself and is        *)
(* refused when somebody else holds the issue; an operator names nobody.   *)
ToRelease(c, expect) ==
    {<<l>> : l \in {k \in Latest(proj[c], now) : expect \in {None, k.actor}}}
      \cup (IF Active(proj[c], now) = {} THEN {<<>>} ELSE {})

Released(ls) == [k \in DOMAIN ls |-> [Blank EXCEPT !.kind = "claim.released", !.ref = ls[k].id,
                                                   !.actor = ls[k].actor]]
WithoutLeases(p, ls) ==
    [p EXCEPT !.leases = {IF k.id \in {ls[n].id : n \in DOMAIN ls} THEN [k EXCEPT !.out = now] ELSE k :
                             k \in @},
              !.releases = IF p.row THEN @ + Len(ls) ELSE @]

(* finish_item writes the summary it was given, or NULL.                   *)
finish_item(c, summary, expect) ==
    /\ "finish" \in Ops
    /\ proj[c].row /\ proj[c].status = "open"
    /\ \E ls \in ToRelease(c, expect) :
          Transact(c, <<[Blank EXCEPT !.kind = "issue.closed", !.status = "closed",
                                      !.summary = summary]>> \o Released(ls),
                   [i \in Ids |-> WithoutLeases([proj[c] EXCEPT !.status = "closed",
                                                              !.summary = summary], ls)])

cancel_item(c, summary, expect) ==
    /\ "cancel" \in Ops
    /\ proj[c].row /\ proj[c].status = "open"
    /\ \E ls \in ToRelease(c, expect) :
          LET body == [Blank EXCEPT !.kind = "issue.canceled", !.status = "canceled",
                                    !.summary = summary]
          IN  Transact(c, <<body>> \o Released(ls),
                       [i \in Ids |-> WithoutLeases(fold_set_status(proj[c], body), ls)])

reopen_item(c, summary) ==
    /\ "reopen" \in Ops
    /\ proj[c].row /\ proj[c].status \in {"closed", "canceled"}
    /\ LET body == [Blank EXCEPT !.kind = "issue.reopened", !.status = "open", !.summary = summary]
       IN  Transact(c, <<body>>, [i \in Ids |-> fold_set_status(proj[c], body)])

Deadline(ttl) == IF ttl = Never THEN Never ELSE now + ttl

(* Lapsed leases are ended first, and stay ended when the claim is then    *)
(* refused: somebody holds the issue, or it is not open or not ready.      *)
claim_item_at(c, a, ttl, at, forced) ==
    /\ "claim" \in Ops
    /\ proj[c].row
    /\ LET stale == SetToSeq(Lapsed(proj[c], at))
           expiries == [k \in DOMAIN stale |-> [Blank EXCEPT !.kind = "claim.expired",
                                                             !.ref = stale[k].id]]
           freed == WithoutLeases(proj[c], stale)
           ready == Ready(ev, log[c], at)
           body == [Blank EXCEPT !.kind = "claim.acquired", !.actor = a,
                                 !.until = Deadline(ttl),
                                 !.forced = forced /\ ~ready]
           granted == Active(proj[c], at) = {} /\ proj[c].status = "open" /\ (ready \/ forced)
       IN  IF granted
           THEN Transact(c, Append(expiries, body),
                         [i \in Ids |-> [freed EXCEPT !.leases = @ \cup
                                          {Lease(i, [body EXCEPT !.at = now])}]])
           ELSE stale # <<>> /\ Transact(c, expiries, [i \in Ids |-> freed])

(* Only the holder, and a finite deadline only moves forward; without a    *)
(* new deadline (Never) the lease is affirmed as it is.                    *)
renew_claim(c, a, until) ==
    /\ "renew" \in Ops
    /\ \E l \in {k \in Active(proj[c], now) : k.actor = a} :
          /\ l.until = Never \/ until > l.until
          /\ LET new == IF until = Never THEN l.until ELSE until
             IN  Transact(c, <<[Blank EXCEPT !.kind = "claim.renewed", !.actor = a,
                                             !.ref = l.id, !.until = new]>>,
                          [i \in Ids |-> Extended(proj[c], l.id, new)])

release_item(c, expect) ==
    /\ "release" \in Ops
    /\ \E ls \in ToRelease(c, expect) :
          /\ ls # <<>>
          /\ Transact(c, Released(ls), [i \in Ids |-> WithoutLeases(proj[c], ls)])

release_claims_for_holder(c, a) ==
    /\ "holder" \in Ops
    /\ LET ls == SetToSeq({l \in Active(proj[c], now) : l.actor = a})
       IN  /\ ls # <<>>
           /\ Transact(c, Released(ls), [i \in Ids |-> WithoutLeases(proj[c], ls)])

add_wait(c, until) ==
    /\ "wait" \in Ops
    /\ proj[c].row
    /\ Transact(c, <<[Blank EXCEPT !.kind = "wait.added", !.until = until]>>,
                [i \in Ids |-> proj[c]])

(* remove_waits of all the live waits.                                     *)
remove_waits(c) ==
    /\ "wait" \in Ops
    /\ proj[c].row
    /\ LET ws == SetToSeq(live_waits(ev, log[c]))
       IN  /\ ws # <<>>
           /\ Transact(c, [k \in DOMAIN ws |-> [Blank EXCEPT !.kind = "wait.removed", !.ref = ws[k]]],
                       [i \in Ids |-> proj[c]])

(***************************************************************************)
(* sync_dir.                                                               *)
(***************************************************************************)
sync_dir(c) ==
    /\ pc[c] = "idle"
    /\ pc' = [pc EXCEPT ![c] = "export"]
    /\ todo' = [todo EXCEPT ![c] = log[c]]
    /\ UNCHANGED <<stores, dir, seen, now, crashes>>

(* A file that exists is skipped, whatever it holds.  A file while it is   *)
(* written is as good as absent to a reader, who skips what does not       *)
(* parse, so writing one is a single step unless it is cut short.          *)
Missing(c) == {n \in DOMAIN todo[c] : todo[c][n] \notin DOMAIN dir}
FirstMissing(c) == CHOOSE n \in Missing(c) : \A m \in Missing(c) : n <= m

export_file(c) ==
    /\ pc[c] = "export" /\ Missing(c) # {}
    /\ dir' = Put(dir, todo[c][FirstMissing(c)], "whole")
    /\ todo' = [todo EXCEPT ![c] = SubSeq(@, FirstMissing(c) + 1, Len(@))]
    /\ UNCHANGED <<stores, pc, seen, now, crashes>>

import_read(c) ==
    /\ pc[c] = "export" /\ Missing(c) = {}
    /\ pc' = [pc EXCEPT ![c] = "import"]
    /\ todo' = [todo EXCEPT ![c] = <<>>]
    /\ seen' = [seen EXCEPT ![c] = WholeFiles]
    /\ UNCHANGED <<stores, dir, now, crashes>>

(* What the import inserts, by second and hash: what it does not hold yet. *)
\* Mutant of Fresh: nothing older than what is held.
FreshSince(c, files) ==
    {i \in files \ Held(c) : \A j \in Held(c) : ev[j].at <= ev[i].at}
Fresh(c, files) == files \ Held(c)

Inserted(c, files) ==
    LET Before(i, j) == ev[i].at < ev[j].at \/ (ev[i].at = ev[j].at /\ i < j)
    IN  {s \in SetToSeqs(Fresh(c, files)) : \A m, n \in DOMAIN s : m < n => Before(s[m], s[n])}

NewlyConcurrent(c, new) ==
    concurrent_claim_advisories(ev, ToSet(new)) \ concurrent_claim_advisories(ev, Held(c))

(* The events read: every file that was whole when reading began, and any  *)
(* that became whole meanwhile.  The tables are rebuilt with the insertion.*)
import_events(c) ==
    /\ pc[c] = "import"
    /\ \E late \in SUBSET (WholeFiles \ seen[c]) : \E rows \in Inserted(c, seen[c] \cup late) :
          LET new == log[c] \o rows
          IN  /\ log' = [log EXCEPT ![c] = new]
              /\ proj' = [proj EXCEPT ![c] = tx_rebuild_projection(ev, new)]
              /\ reported' = [reported EXCEPT ![c] = @ \cup NewlyConcurrent(c, new)]
    /\ pc' = [pc EXCEPT ![c] = "idle"]
    /\ seen' = [seen EXCEPT ![c] = {}]
    /\ UNCHANGED <<menu, ev, blind, dir, todo, now, crashes>>

(* The process of a sync is killed; what it wrote stays, the file it was   *)
(* writing torn.                                                           *)
crash(c) ==
    /\ pc[c] # "idle" /\ crashes < MaxCrashes
    /\ crashes' = crashes + 1
    /\ \/ dir' = dir
       \/ /\ pc[c] = "export" /\ Missing(c) # {}
          /\ dir' = Put(dir, todo[c][FirstMissing(c)], "torn")
    /\ pc' = [pc EXCEPT ![c] = "idle"]
    /\ todo' = [todo EXCEPT ![c] = <<>>]
    /\ seen' = [seen EXCEPT ![c] = {}]
    /\ UNCHANGED <<stores, now>>

tick == now < MaxTime /\ now' = now + 1 /\ UNCHANGED <<stores, syncs, crashes>>

Edit(c) ==
    \/ file_item(c)
    \/ \E s \in Values : set_field(c, s)
    \/ \E s \in Summaries, x \in Actors \cup {None} : finish_item(c, s, x) \/ cancel_item(c, s, x)
    \/ \E s \in Summaries : reopen_item(c, s)
    \/ \E a \in Actors, t \in Ttls, g \in 0..MaxLag, f \in Forces :
          g <= now /\ claim_item_at(c, a, t, now - g, f)
    \/ \E a \in Actors, t \in Renewals : renew_claim(c, a, Deadline(t))
    \/ \E x \in Actors \cup {None} : release_item(c, x)
    \/ \E a \in Actors : release_claims_for_holder(c, a)
    \/ \E u \in 1..MaxTime : add_wait(c, u)
    \/ remove_waits(c)

Sync(c) ==
    sync_dir(c) \/ export_file(c) \/ import_read(c) \/ import_events(c)

Next == tick \/ \E c \in Clones : Edit(c) \/ Sync(c) \/ crash(c)

Spec == Init /\ [][Next]_vars

(* A clone syncs again and again, and a sync that is not killed goes on:   *)
(* every stage is left (the writing of files ends: they are finitely many).*)
Moves(c) == \E s \in Stages \ {pc[c]} : pc' = [pc EXCEPT ![c] = s]
FairSpec == Spec /\ \A c \in Clones : WF_pc(Moves(c))

(***************************************************************************)
(* Properties.                                                             *)
(***************************************************************************)
(* Every column but the summary.                                           *)
Columns(p) == <<p.row, p.status, p.releases, p.leases>>

(* Two clones that hold the same events show the same status, release      *)
(* count and leases, whatever order they wrote and imported them in: the   *)
(* fold of items.rs is over the DAG, not over event_seq.                   *)
SameEventsSameRow ==
    \A c, d \in Clones : Held(c) = Held(d) => Columns(proj[c]) = Columns(proj[d])

(* What an operation writes into the tables is what a rebuild from the     *)
(* log would: its events come last in the topological order, although the  *)
(* log may hold forks and events whose parents have not arrived.           *)
LiveIsRebuilt ==
    \A c \in Clones : Columns(proj[c]) = Columns(tx_rebuild_projection(ev, log[c]))

(* Two leases active on an issue at once were acquired by clones that had  *)
(* not seen each other's claim: no claim is granted over a known one, even *)
(* one that looked lapsed here and was renewed elsewhere meanwhile.        *)
(* Clones that hold the parents of all they hold are asked, and claims     *)
(* granted by such: a sync that reads while another writes may bring a     *)
(* renewal without the claim it renews, and hide it.  And every pair of    *)
(* claims a clone can prove concurrent has been reported by one of its     *)
(* imports, also when an ancestor arrived late.                            *)
DoubleHoldIsConcurrent ==
    \A c \in Clones :
        /\ Complete(c) =>
             \A k, l \in Active(proj[c], now) :
                 k.id # l.id /\ l.id \notin blind => k.id \notin Ancestors(ev, Held(c), l.id)
        /\ concurrent_claim_advisories(ev, Held(c)) \subseteq reported[c]

(* No workflow is granted an issue whose status two clones set differently *)
(* without having seen each other: among the events the clone held, two    *)
(* setters that no later setter supersedes never disagree.                 *)
Unsuperseded(S) ==
    {i \in S : SetsStatus(ev[i]) /\ \A j \in S : SetsStatus(ev[j]) => i \notin Ancestors(ev, S, j)}

ClaimsSeeNoConflict ==
    [][\A c \in Clones : \A i \in ToSet(log'[c]) \ Held(c) :
          (ev'[i].kind = "claim.acquired" /\ ~ev'[i].forced /\ pc'[c] = pc[c])
             => \A x, y \in Unsuperseded(Held(c)) : ev[x].status = ev[y].status]_vars

(* Clones that keep syncing one directory come to hold the same events and *)
(* to show the same row, as long as no killed sync has left half a file.   *)
Converges ==
    [](DOMAIN dir = WholeFiles)
        => <>[](\A c, d \in Clones : Held(c) = Held(d) /\ Columns(proj[c]) = Columns(proj[d]))
=============================================================================
