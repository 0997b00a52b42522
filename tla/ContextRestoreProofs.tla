------------------------ MODULE ContextRestoreProofs ------------------------
(***************************************************************************)
(* Checkpoint and restore, for workflows of any length, any number of      *)
(* cuts, restores and faults, and a driver that waits or does not.         *)
(*                                                                         *)
(* The lemmas at the beginning say how the folds over the log change when  *)
(* an event is appended.  Recorded and Held are what the whole log says,   *)
(* dropped events included; Fresh and Chained, what the tables and the     *)
(* live timeline say, and Triggered the rule pass between its evaluation   *)
(* and its commit; CutsAreTrue, RunsSeen, DiskAsExpected and Planned, what *)
(* keeps the files with the facts through a restore.                       *)
(***************************************************************************)
EXTENDS ContextRestore, FiniteSetTheorems, SequenceTheorems, WellFoundedInduction, TLAPS

-----------------------------------------------------------------------------
(* The folds under an append.                                              *)

\* The log k is the log l with x appended.
Grown(l, k, x) ==
    /\ Len(l) \in Nat /\ DOMAIN l = 1..Len(l)
    /\ Len(k) = Len(l) + 1 /\ DOMAIN k = 1..Len(k)
    /\ \A n \in 1..Len(l) : k[n] = l[n]
    /\ k[Len(k)] = x

\* What Append does, in the form the lemmas below use.
LEMMA AppendGrows ==
  ASSUME NEW l \in Seq(Events), NEW x \in Events
  PROVE  Append(l, x) \in Seq(Events) /\ Grown(l, Append(l, x), x)
  <1>1. /\ Append(l, x) \in Seq(Events)
        /\ Len(Append(l, x)) = Len(l) + 1
        /\ \A i \in 1..Len(l) : Append(l, x)[i] = l[i]
        /\ Append(l, x)[Len(l) + 1] = x
    BY AppendProperties
  <1>2. Len(l) \in Nat /\ DOMAIN l = 1..Len(l)
    BY LenProperties
  <1>3. DOMAIN Append(l, x) = 1..Len(Append(l, x))
    BY <1>1, LenProperties
  <1> QED BY <1>1, <1>2, <1>3 DEF Grown

\* The fields of an event are those of its type.
LEMMA EventFields ==
  ASSUME NEW l \in Seq(Events), NEW n \in DOMAIN l
  PROVE  /\ n \in 1..Len(l) /\ Len(l) \in Nat /\ n \in Nat
         /\ l[n].t \in {"commit", "start", "done", "failed", "end"} => l[n].e \in Firing
         /\ l[n].t = "cut" => l[n].manifest \in Manifests /\ l[n].cut \in CutNames
         /\ l[n].t = "restored" => l[n].to \in Nat
  <1>1. n \in 1..Len(l) /\ Len(l) \in Nat
    BY LenProperties
  <1>2. l[n] \in Events
    BY ElementOfSeq, <1>1
  <1> QED BY <1>1, <1>2 DEF Events

\* The events of a type, after an append.
LEMMA IsGrows ==
  ASSUME NEW l, NEW k, NEW x, Grown(l, k, x), NEW t
  PROVE  /\ Is(k, t) = IF x.t = t THEN Is(l, t) \cup {Len(k)} ELSE Is(l, t)
         /\ Is(l, t) \subseteq 1..Len(l)
         /\ \A n \in Is(l, t) : k[n] = l[n]
  BY DEF Grown, Is

\* An event that is not a marker is live and drops nothing.
LEMMA LiveGrows ==
  ASSUME NEW l, NEW k, NEW x, Grown(l, k, x), x.t # "restored"
  PROVE  live(k) = live(l) \cup {Len(k)}
  <1>1. Is(k, "restored") = Is(l, "restored") /\ Is(l, "restored") \subseteq 1..Len(l)
    BY IsGrows
  <1>2. \A m \in Is(l, "restored") : k[m] = l[m]
    BY IsGrows
  <1>3. DOMAIN k \ Is(k, "restored") = (DOMAIN l \ Is(l, "restored")) \cup {Len(k)}
    BY <1>1 DEF Grown
  <1>4. \A m \in Is(l, "restored") : ~(m > Len(k))
    BY <1>1 DEF Grown
  <1> QED BY <1>1, <1>2, <1>3, <1>4 DEF live

\* A marker leaves live what is live up to its target.
LEMMA LiveDropped ==
  ASSUME NEW l, NEW k, NEW x, Grown(l, k, x), x.t = "restored"
  PROVE  live(k) = {n \in live(l) : n <= x.to}
  <1>1. /\ Is(k, "restored") = Is(l, "restored") \cup {Len(k)}
        /\ Is(l, "restored") \subseteq 1..Len(l)
        /\ \A m \in Is(l, "restored") : k[m] = l[m]
    BY IsGrows
  <1>2. DOMAIN k \ Is(k, "restored") = DOMAIN l \ Is(l, "restored")
    BY <1>1 DEF Grown
  <1>3. \A n \in DOMAIN l : Len(k) > n /\ k[Len(k)] = x
    BY DEF Grown
  <1> QED BY <1>1, <1>2, <1>3 DEF live

\* What is live of a type, after an append that drops nothing.
LEMMA LiveIsGrows ==
  ASSUME NEW l, NEW k, NEW x, Grown(l, k, x), x.t # "restored", NEW t
  PROVE  live(k) \cap Is(k, t) =
            IF x.t = t THEN (live(l) \cap Is(l, t)) \cup {Len(k)} ELSE live(l) \cap Is(l, t)
  <1>1. live(k) = live(l) \cup {Len(k)}
    BY LiveGrows
  <1>2. /\ Is(k, t) = IF x.t = t THEN Is(l, t) \cup {Len(k)} ELSE Is(l, t)
        /\ Is(l, t) \subseteq 1..Len(l)
    BY IsGrows
  <1>3. Len(k) \notin Is(l, t) /\ Len(k) \notin live(l)
    BY <1>2 DEF Grown, live
  <1> QED BY <1>1, <1>2, <1>3

\* The effects of live entries of a kind, after an entry that is no marker.
LEMMA LiveOfGrows ==
  ASSUME NEW l, NEW k, NEW x, Grown(l, k, x), x.t # "restored", NEW t
  PROVE  LiveOf(k, t) = IF x.t = t THEN LiveOf(l, t) \cup {x.e} ELSE LiveOf(l, t)
  <1>1. live(k) \cap Is(k, t) =
            IF x.t = t THEN (live(l) \cap Is(l, t)) \cup {Len(k)} ELSE live(l) \cap Is(l, t)
    BY LiveIsGrows
  <1>2. \A n \in Is(l, t) : k[n] = l[n]
    BY IsGrows
  <1>3. k[Len(k)] = x
    BY DEF Grown
  <1> QED BY <1>1, <1>2, <1>3 DEF LiveOf

\* A set of naturals with an element has a least one.
LEMMA LeastElement ==
  ASSUME NEW S \in SUBSET Nat, S # {}
  PROVE  \E n \in S : \A m \in S : n <= m
  <1>1. PICK n \in S : \A y \in S : ~(<<y, n>> \in OpToRel(<, Nat))
    BY NatLessThanWellFounded, WFMin
  <1>2. \A y \in S : ~(y < n)
    BY <1>1 DEF OpToRel
  <1> QED BY <1>2

\* Max is the greatest element of a bounded set.
LEMMA MaxIsGreatest ==
  ASSUME NEW N \in Nat, NEW S \in SUBSET (1..N), S # {}
  PROVE  Max(S) \in S /\ \A y \in S : y <= Max(S)
  <1> DEFINE U == {u \in Nat : \A y \in S : y <= u}
  <1>1. N \in U
    OBVIOUS
  <1>2. PICK u \in U : \A v \in U : u <= v
    BY <1>1, LeastElement
  <1>3. u \in S
    <2>1. SUFFICES ASSUME u \notin S PROVE FALSE
      OBVIOUS
    <2>2. \A y \in S : y \in Nat /\ y >= 1 /\ y <= u /\ y # u
      BY <2>1
    <2>a. PICK y \in S : TRUE
      OBVIOUS
    <2>b. u \in Nat
      BY <1>2
    <2>3. u \in Nat /\ u >= 1
      BY <2>a, <2>b, <2>2
    <2>4. u - 1 \in U
      BY <2>2, <2>3
    <2>5. u <= u - 1
      BY <1>2, <2>4
    <2> QED BY <2>3, <2>5
  <1>4. u \in S /\ \A y \in S : u >= y
    BY <1>3
  <1> QED BY <1>4 DEF Max

-----------------------------------------------------------------------------
(* The file plane the facts describe.                                      *)

\* What was live just before event c.
LiveBefore(l, c) ==
    {n \in DOMAIN l \ Is(l, "restored") :
        n < c /\ \A m \in Is(l, "restored") : (m > n /\ m < c) => n <= l[m].to}

\* The writes of a path among some events, and the last of them.
Writes(l, S, p) == {n \in S \cap Is(l, "done") : PathOf[l[n].e.step] = p}
Latest(l, W) == IF W = {} THEN None ELSE l[Max(W)].e

\* The file plane just before event c.
ManifestBefore(l, c) == [p \in Paths |-> Latest(l, Writes(l, LiveBefore(l, c), p))]

\* The file plane by the live writes of each path.
LEMMA ManifestByWrites ==
  ASSUME NEW l
  PROVE  fold_file_manifest(l) = [p \in Paths |-> Latest(l, Writes(l, live(l), p))]
  BY DEF fold_file_manifest, Latest, Writes

\* The last write does not depend on what comes after it.
LEMMA LatestGrown ==
  ASSUME NEW l, NEW k, NEW x, Grown(l, k, x), NEW W \in SUBSET (1..Len(l))
  PROVE  Latest(k, W) = Latest(l, W)
  <1>1. CASE W = {}
    BY <1>1 DEF Latest
  <1>2. CASE W # {}
    <2>1. Max(W) \in 1..Len(l)
      BY <1>2, MaxIsGreatest DEF Grown
    <2> QED BY <1>2, <2>1 DEF Latest, Grown
  <1> QED BY <1>1, <1>2

\* Writes among older events stay what they are.
LEMMA WritesGrown ==
  ASSUME NEW l, NEW k, NEW x, Grown(l, k, x), NEW S \in SUBSET (1..Len(l)), NEW p
  PROVE  /\ Writes(k, S, p) = Writes(l, S, p)
         /\ Writes(l, S, p) \in SUBSET (1..Len(l))
  <1>1. Len(k) \notin S
    BY DEF Grown
  <1>2. \A n \in S : n \in Is(k, "done") <=> n \in Is(l, "done")
    BY <1>1, IsGrows
  <1>3. \A n \in S : k[n] = l[n]
    BY DEF Grown
  <1> QED BY <1>2, <1>3 DEF Writes

\* Live events are events.
LEMMA LiveInLog ==
  ASSUME NEW l, NEW k, NEW x, Grown(l, k, x)
  PROVE  live(l) \in SUBSET (1..Len(l))
  BY DEF live, Grown

\* An event that is neither a completion nor a marker leaves the plane alone.
LEMMA ManifestKept ==
  ASSUME NEW l, NEW k, NEW x, Grown(l, k, x), x.t # "restored", x.t # "done"
  PROVE  fold_file_manifest(k) = fold_file_manifest(l)
  <1>1. live(k) = live(l) \cup {Len(k)}
    BY LiveGrows
  <1>2. Len(k) \notin Is(k, "done")
    BY IsGrows DEF Grown
  <1>3. \A p : Writes(k, live(k), p) = Writes(k, live(l), p)
    BY <1>1, <1>2 DEF Writes
  <1>4. \A p : /\ Writes(k, live(l), p) = Writes(l, live(l), p)
                /\ Writes(l, live(l), p) \in SUBSET (1..Len(l))
    BY WritesGrown, LiveInLog
  <1>5. \A p : Latest(k, Writes(k, live(k), p)) = Latest(l, Writes(l, live(l), p))
    BY <1>3, <1>4, LatestGrown
  <1> QED BY <1>5, ManifestByWrites

\* A completion puts its effect on the path it wrote.
LEMMA ManifestWritten ==
  ASSUME NEW l, NEW k, NEW x, Grown(l, k, x), x.t = "done"
  PROVE  fold_file_manifest(k) =
           [p \in Paths |-> IF p = PathOf[x.e.step] THEN x.e ELSE fold_file_manifest(l)[p]]
  <1>1. live(k) = live(l) \cup {Len(k)}
    BY LiveGrows
  <1>2. Len(k) \in Is(k, "done") /\ k[Len(k)] = x /\ Len(k) = Len(l) + 1 /\ Len(l) \in Nat
    BY IsGrows DEF Grown
  <1>3. \A p : /\ Writes(k, live(l), p) = Writes(l, live(l), p)
                /\ Writes(l, live(l), p) \in SUBSET (1..Len(l))
    BY WritesGrown, LiveInLog
  <1>4. ASSUME NEW p, p # PathOf[x.e.step]
        PROVE  Latest(k, Writes(k, live(k), p)) = Latest(l, Writes(l, live(l), p))
    <2>1. Writes(k, live(k), p) = Writes(k, live(l), p)
      BY <1>1, <1>2, <1>4 DEF Writes
    <2> QED BY <1>3, <2>1, LatestGrown
  <1>5. Latest(k, Writes(k, live(k), PathOf[x.e.step])) = x.e
    <2> DEFINE W == Writes(k, live(k), PathOf[x.e.step])
    <2>1. W = Writes(l, live(l), PathOf[x.e.step]) \cup {Len(k)}
      BY <1>1, <1>2, <1>3 DEF Writes
    <2>2. W \in SUBSET (1..Len(k)) /\ W # {} /\ Len(k) \in Nat /\ Len(k) \in W
      BY <1>2, <1>3, <2>1
    <2> HIDE DEF W
    <2>3. Max(W) \in W /\ \A y \in W : y <= Max(W)
      BY <2>2, MaxIsGreatest
    <2>a. Max(W) \in 1..Len(k)
      BY <2>2, <2>3
    <2>b. Len(k) <= Max(W)
      BY <2>2, <2>3
    <2>4. Max(W) = Len(k)
      BY <2>a, <2>b, <2>2
    <2> QED BY <1>2, <2>2, <2>4 DEF Latest, W
  <1> QED BY <1>4, <1>5, ManifestByWrites

\* The plane before the next event is the plane now.
LEMMA ManifestAtEnd ==
  ASSUME NEW l, NEW k, NEW x, Grown(l, k, x)
  PROVE  /\ ManifestBefore(k, Len(k)) = fold_file_manifest(l)
         /\ \A c \in 1..Len(l) : ManifestBefore(k, c) = ManifestBefore(l, c)
  <1>1. /\ Is(l, "restored") \subseteq 1..Len(l)
        /\ Is(k, "restored") \ {Len(k)} = Is(l, "restored")
        /\ \A m \in Is(l, "restored") : k[m] = l[m]
        /\ Len(k) \notin Is(l, "restored")
    BY IsGrows DEF Grown
  <1>2. LiveBefore(k, Len(k)) = live(l)
    BY <1>1 DEF LiveBefore, live, Grown
  <1>3. \A c \in 1..Len(l) : LiveBefore(k, c) = LiveBefore(l, c)
    BY <1>1 DEF LiveBefore, Grown
  <1>4. \A S \in SUBSET (1..Len(l)) : \A p : Latest(k, Writes(k, S, p)) = Latest(l, Writes(l, S, p))
    BY WritesGrown, LatestGrown
  <1>5. live(l) \in SUBSET (1..Len(l)) /\ \A c : LiveBefore(l, c) \in SUBSET (1..Len(l))
    BY DEF live, LiveBefore, Grown
  <1>6. ManifestBefore(k, Len(k)) = fold_file_manifest(l)
    BY <1>2, <1>4, <1>5, ManifestByWrites DEF ManifestBefore
  <1>7. \A c \in 1..Len(l) : ManifestBefore(k, c) = ManifestBefore(l, c)
    BY <1>3, <1>4, <1>5 DEF ManifestBefore
  <1> QED BY <1>6, <1>7

\* A marker of a cut that is live brings the plane back to what it was before
\* the cut: no marker after the cut dropped anything the cut had.
LEMMA ManifestRestored ==
  ASSUME NEW l \in Seq(Events), NEW k, NEW x, Grown(l, k, x), x.t = "restored",
         x.to \in live(l), l[x.to].t = "cut"
  PROVE  fold_file_manifest(k) = ManifestBefore(l, x.to)
  <1>1. live(k) = {n \in live(l) : n <= x.to}
    BY LiveDropped
  <1>2. /\ x.to \in 1..Len(l) /\ Len(l) \in Nat
        /\ \A m \in Is(l, "restored") : m \in 1..Len(l) /\ l[m].to \in Nat
        /\ \A m \in Is(l, "restored") : m > x.to => x.to <= l[m].to
    BY EventFields DEF live, Is, Grown
  <1>3. \A n \in 1..Len(l) : n < x.to =>
          (n \in live(l) <=> n \in LiveBefore(l, x.to))
    BY <1>2 DEF live, LiveBefore, Grown
  <1>4. live(k) = LiveBefore(l, x.to) \cup {x.to}
    <2>1. live(l) \in SUBSET (1..Len(l)) /\ LiveBefore(l, x.to) \in SUBSET (1..Len(l))
      BY DEF live, LiveBefore, Grown
    <2>2. \A n \in LiveBefore(l, x.to) : n < x.to
      BY DEF LiveBefore
    <2> QED BY <1>1, <1>2, <1>3, <2>1, <2>2
  <1>5. x.to \notin Is(l, "done") /\ live(k) \in SUBSET (1..Len(l))
    BY <1>2, <1>4 DEF Is, LiveBefore, Grown
  <1>6. \A p : /\ Writes(k, live(k), p) = Writes(l, live(k), p)
                /\ Writes(l, live(k), p) \in SUBSET (1..Len(l))
    BY <1>5, WritesGrown
  <1>7. \A p : Writes(l, live(k), p) = Writes(l, LiveBefore(l, x.to), p)
    BY <1>4, <1>5 DEF Writes
  <1>8. \A p : Latest(k, Writes(k, live(k), p)) = Latest(l, Writes(l, LiveBefore(l, x.to), p))
    BY <1>6, <1>7, LatestGrown
  <1> QED BY <1>8, ManifestByWrites DEF ManifestBefore

\* The plane holds effects of the log.
LEMMA ManifestType ==
  ASSUME NEW l \in Seq(Events)
  PROVE  fold_file_manifest(l) \in Manifests
  <1>1. Len(l) \in Nat /\ DOMAIN l = 1..Len(l)
    BY LenProperties
  <1>2. \A n \in Is(l, "done") : l[n].e \in Firing
    BY EventFields DEF Is
  <1>3. ASSUME NEW p PROVE Latest(l, Writes(l, live(l), p)) \in Firing \cup {None}
    <2> DEFINE W == Writes(l, live(l), p)
    <2>1. W \in SUBSET (1..Len(l)) /\ W \subseteq Is(l, "done")
      BY <1>1 DEF Writes, Is
    <2>2. W # {} => Max(W) \in W
      BY <1>1, <2>1, MaxIsGreatest
    <2> QED BY <1>2, <2>1, <2>2 DEF Latest
  <1> QED BY <1>3, ManifestByWrites DEF Manifests

-----------------------------------------------------------------------------
(* Types.                                                                  *)

\* The numbers read off a log are numbers.
LEMMA CountsAreNumbers ==
  ASSUME NEW l \in Seq(Events)
  PROVE  /\ restore_generation(l) \in Nat
         /\ \A C \in SUBSET {l[n].cut : n \in Is(l, "cut")} : Cardinality(C) \in Nat
  <1>1. Len(l) \in Nat /\ DOMAIN l = 1..Len(l)
    BY LenProperties
  <1>2. \A t : IsFiniteSet(Is(l, t))
    <2>1. IsFiniteSet(1..Len(l))
      BY <1>1, FS_Interval
    <2>2. \A t : Is(l, t) \in SUBSET (1..Len(l))
      BY <1>1 DEF Is
    <2> QED BY <2>1, <2>2, FS_Subset
  <1>3. restore_generation(l) \in Nat
    BY <1>2, FS_CardinalityType DEF restore_generation
  <1>4. IsFiniteSet({l[n].cut : n \in Is(l, "cut")})
    <2> DEFINE f == [n \in Is(l, "cut") |-> l[n].cut]
    <2>1. f \in Surjection(Is(l, "cut"), {l[n].cut : n \in Is(l, "cut")})
      BY DEF Surjection
    <2> QED BY <1>2, <2>1, FS_Surjection
  <1>5. \A C \in SUBSET {l[n].cut : n \in Is(l, "cut")} : Cardinality(C) \in Nat
    BY <1>4, FS_Subset, FS_CardinalityType
  <1> QED BY <1>3, <1>5

\* A commit appends the firing, or finds it in the log and appends nothing.
LEMMA CommitAppends ==
  ASSUME TypeOK, CommitRule
  PROVE  \/ log' = log /\ tab' = tab /\ gaps' = gaps
         \/ /\ log' \in Seq(Events)
            /\ Grown(log, log', Entry(IF rule.step > LastStep THEN "end" ELSE "commit", rule))
            /\ tab.status = "running"
            /\ \A n \in Is(log, "commit") \cup Is(log, "end") : log[n].e # rule
  <1>1. rule \in Firing
    BY DEF TypeOK, CommitRule
  <1>2. Entry(IF rule.step > LastStep THEN "end" ELSE "commit", rule) \in Events
    BY <1>1 DEF Entry, Events
  <1>3. log \in Seq(Events)
    BY DEF TypeOK
  <1>4. /\ Append(log, Entry(IF rule.step > LastStep THEN "end" ELSE "commit", rule)) \in Seq(Events)
        /\ Grown(log, Append(log, Entry(IF rule.step > LastStep THEN "end" ELSE "commit", rule)), Entry(IF rule.step > LastStep THEN "end" ELSE "commit", rule))
    BY <1>2, <1>3, AppendGrows
  <1> QED BY <1>4 DEF CommitRule

\* A run starts by appending its start, or not at all.
LEMMA StartAppends ==
  ASSUME TypeOK, Start
  PROVE  \/ log' = log /\ tab' = tab /\ worker' = None
         \/ /\ log' \in Seq(Events)
            /\ Grown(log, log', Entry("start", worker.e))
            /\ worker.e \in DOMAIN tab.effects
            /\ tab.effects[worker.e] = "queued"
            /\ \A n \in Is(log, "start") : log[n].e # worker.e
            /\ tab' = [tab EXCEPT !.effects = [@ EXCEPT ![worker.e] = "running"]]
            /\ worker' = [worker EXCEPT !.pc = "started"]
  <1>1. worker \in Workers
    BY DEF TypeOK, Start
  <1>2. Entry("start", worker.e) \in Events
    BY <1>1 DEF Entry, Events, Workers
  <1>3. log \in Seq(Events)
    BY DEF TypeOK
  <1>4. /\ Append(log, Entry("start", worker.e)) \in Seq(Events)
        /\ Grown(log, Append(log, Entry("start", worker.e)), Entry("start", worker.e))
    BY <1>2, <1>3, AppendGrows
  <1> QED BY <1>4 DEF Start

\* A settlement appends the completion or the failure of a run that runs.
LEMMA SettleAppends ==
  ASSUME TypeOK, Settle
  PROVE  /\ worker' = None
         /\ \/ log' = log /\ tab' = tab /\ worker.e \notin Running
            \/ /\ log' \in Seq(Events)
               /\ worker.pc = "written"
               /\ Grown(log, log', Entry("done", worker.e))
               /\ worker.e \in Running
               /\ tab' = [status |-> tab.status,
                          effects |-> [tab.effects EXCEPT ![worker.e] = "completed"],
                          facts |-> tab.facts \cup {Len(log')}]
            \/ /\ log' \in Seq(Events)
               /\ worker.pc = "refused"
               /\ Grown(log, log', Entry("failed", worker.e))
               /\ worker.e \in Running
               /\ tab' = [status |-> tab.status,
                          effects |-> [tab.effects EXCEPT ![worker.e] = "failed"],
                          facts |-> tab.facts]
  <1>1. worker \in Workers
    BY DEF TypeOK, Settle
  <1>2. Entry("done", worker.e) \in Events /\ Entry("failed", worker.e) \in Events
    BY <1>1 DEF Entry, Events, Workers
  <1>3. log \in Seq(Events)
    BY DEF TypeOK
  <1>4. /\ Append(log, Entry("done", worker.e)) \in Seq(Events)
        /\ Grown(log, Append(log, Entry("done", worker.e)), Entry("done", worker.e))
        /\ Append(log, Entry("failed", worker.e)) \in Seq(Events)
        /\ Grown(log, Append(log, Entry("failed", worker.e)), Entry("failed", worker.e))
    BY <1>2, <1>3, AppendGrows
  <1>5. Len(Append(log, Entry("done", worker.e))) = FactRecorded
    BY <1>4 DEF Grown, FactRecorded
  <1>6. CASE worker.pc = "written"
    BY <1>4, <1>5, <1>6 DEF Settle
  <1>7. CASE worker.pc = "refused"
    BY <1>4, <1>7 DEF Settle
  <1> QED BY <1>6, <1>7 DEF Settle

\* An expiry appends the failure of the run.
LEMMA ExpireAppends ==
  ASSUME TypeOK, NEW e \in Running, ExpireLease(e)
  PROVE  /\ log' \in Seq(Events)
         /\ Grown(log, log', Entry("failed", e))
         /\ e \in Firing /\ e \in DOMAIN tab.effects /\ tab.effects[e] = "running"
  <1>1. e \in Firing /\ e \in DOMAIN tab.effects /\ tab.effects[e] = "running"
    BY DEF Running, TypeOK
  <1>2. Entry("failed", e) \in Events
    BY <1>1 DEF Entry, Events
  <1> QED BY <1>1, <1>2, AppendGrows DEF ExpireLease, TypeOK

\* A signal is appended.
LEMMA SignalAppends ==
  ASSUME TypeOK, Signal
  PROVE  log' \in Seq(Events) /\ Grown(log, log', [t |-> "signal"])
  <1>1. [t |-> "signal"] \in Events
    BY DEF Events
  <1> QED BY <1>1, AppendGrows DEF Signal, TypeOK

\* A cut records the plane of its moment.
LEMMA CutAppends ==
  ASSUME TypeOK, NEW cut \in CutNames, capture_checkpoint(cut)
  PROVE  /\ log' \in Seq(Events)
         /\ Grown(log, log', CutEntry(cut, fold_file_manifest(log)))
         /\ Running = {}
  <1>1. log \in Seq(Events)
    BY DEF TypeOK
  <1>2. CutEntry(cut, fold_file_manifest(log)) \in Events
    BY <1>1, ManifestType DEF CutEntry, Events
  <1> QED BY <1>1, <1>2, AppendGrows DEF capture_checkpoint

\* whip checkpoint appends a cut.
LEMMA CheckpointAppends ==
  ASSUME TypeOK, Checkpoint
  PROVE  \E cut \in CutNames :
            /\ log' \in Seq(Events)
            /\ Grown(log, log', CutEntry(cut, fold_file_manifest(log)))
  <1> DEFINE taken == {cut \in Cuts : cut[2] = 0}
             name == <<Cardinality(taken) + 1, 0>>
  <1>1. log \in Seq(Events)
    BY DEF TypeOK
  <1>2. Cardinality(taken) \in Nat
    <2>1. taken \in SUBSET {log[n].cut : n \in Is(log, "cut")}
      BY DEF Cuts
    <2> QED BY <1>1, <2>1, CountsAreNumbers
  <1>3. capture_checkpoint(name)
    BY DEF Checkpoint
  <1>4. name \in CutNames
    <2> HIDE DEF taken
    <2> QED BY <1>2 DEF CutNames
  <1> HIDE DEF name
  <1>5. /\ log' \in Seq(Events)
        /\ Grown(log, log', CutEntry(name, fold_file_manifest(log)))
    BY <1>3, <1>4, CutAppends
  <1> QED BY <1>4, <1>5

\* A marker names a cut and its place.
LEMMA MarkerAppends ==
  ASSUME TypeOK, CommitMarker, HeadUnmoved
  PROVE  /\ log' \in Seq(Events)
         /\ Grown(log, log', Marker(restorer.plan.cut, restorer.plan.to))
  <1>1. restorer \in Restorers
    BY DEF TypeOK, CommitMarker, At
  <1>2. Marker(restorer.plan.cut, restorer.plan.to) \in Events
    BY <1>1 DEF Marker, Events, Restorers, Plans
  <1>3. log \in Seq(Events)
    BY DEF TypeOK
  <1>4. /\ Append(log, Marker(restorer.plan.cut, restorer.plan.to)) \in Seq(Events)
        /\ Grown(log, Append(log, Marker(restorer.plan.cut, restorer.plan.to)), Marker(restorer.plan.cut, restorer.plan.to))
    BY <1>2, <1>3, AppendGrows
  <1> QED BY <1>4 DEF CommitMarker

\* The tables a rebuild writes.
LEMMA FoldType ==
  ASSUME NEW l \in Seq(Events), NEW fold, fold = Fold(l)
  PROVE  /\ fold = [status |-> fold.status, effects |-> fold.effects, facts |-> fold.facts]
         /\ fold.status \in {"running", "completed"}
         /\ DOMAIN fold.effects \subseteq Firing
         /\ fold.effects \in [DOMAIN fold.effects -> {"queued", "running", "completed", "failed"}]
         /\ fold.facts \subseteq Nat
         /\ DOMAIN fold.effects = LiveOf(l, "commit")
  <1>1. LiveOf(l, "commit") \subseteq Firing
    BY EventFields DEF LiveOf, Is
  <1>2. live(l) \cap Is(l, "done") \subseteq Nat
    BY EventFields DEF Is
  <1>3. FoldedStatus(l) \in {"running", "completed"}
    BY DEF FoldedStatus
  <1>4. /\ DOMAIN FoldedEffects(l) = LiveOf(l, "commit")
        /\ FoldedEffects(l) \in [LiveOf(l, "commit") -> {"queued", "running", "completed", "failed"}]
    BY DEF FoldedEffects
  <1> QED BY <1>1, <1>2, <1>3, <1>4 DEF Fold

\* What a behaviour has left stays within its scenario.
LEMMA UseBounds ==
  ASSUME TypeOK, NEW what \in {"cuts", "restores", "faults"}, Use(what)
  PROVE  left' \in Bounds /\ left'.steps = left.steps
  <1>1. left \in Bounds /\ left[what] > 0
    BY DEF TypeOK, Use
  <1>2. CASE what = "cuts"
    BY <1>1, <1>2 DEF Use, Bounds
  <1>3. CASE what = "restores"
    BY <1>1, <1>3 DEF Use, Bounds
  <1>4. CASE what = "faults"
    BY <1>1, <1>4 DEF Use, Bounds
  <1> QED BY <1>2, <1>3, <1>4

\* A plan is of a cut that the log holds.
LEMMA PlanFound ==
  ASSUME TypeOK, NEW cut, cut \in Cuts
  PROVE  /\ cut \in CutNames
         /\ plan_restore(cut).to \in Is(log, "cut")
         /\ plan_restore(cut).writes = log[plan_restore(cut).to].manifest
         /\ plan_restore(cut).removes =
              {p \in Paths : fold_file_manifest(log)[p] # None /\ plan_restore(cut).writes[p] = None}
         /\ plan_restore(cut).at = Len(log)
         /\ plan_restore(cut) \in Plans
  <1> DEFINE m == CHOOSE n \in Is(log, "cut") : log[n].cut = cut
  <1>1. m \in Is(log, "cut") /\ log[m].cut = cut
    BY DEF Cuts
  <1>2. log \in Seq(Events)
    BY DEF TypeOK
  <1>3. m \in DOMAIN log /\ log[m].t = "cut"
    BY <1>1 DEF Is
  <1>4. m \in Nat /\ Len(log) \in Nat /\ log[m].manifest \in Manifests /\ log[m].cut \in CutNames
    BY <1>2, <1>3, EventFields
  <1> HIDE DEF m
  <1>5. plan_restore(cut) =
          [cut |-> cut, to |-> m, writes |-> log[m].manifest,
           removes |-> {p \in Paths : fold_file_manifest(log)[p] # None /\ log[m].manifest[p] = None},
           at |-> Len(log)]
    BY DEF plan_restore, m
  <1> QED BY <1>1, <1>4, <1>5 DEF Plans

\* A firing is of the present facts.
LEMMA FiringFound ==
  ASSUME TypeOK, seen # None, NEW f \in Firings(SubSeq(log, 1, seen))
  PROVE  /\ f \in Firing /\ f.step >= 1
         /\ f.trig # 0 => f.trig \in tab.facts /\ f.step = log[f.trig].e.step + 1
         /\ f.trig = 0 => f.step = 1
  <1> DEFINE known == SubSeq(log, 1, seen)
  <1>1. known \in Seq(Events)
    <2>1. log \in Seq(Events) /\ seen \in 0..Len(log) /\ Len(log) \in Nat
      BY LenProperties DEF TypeOK
    <2> QED BY <2>1
  <1> HIDE DEF known
  <1>2. restore_generation(known) \in Nat /\ tab.facts \subseteq Nat /\ LastStep \in Nat
    BY <1>1, CountsAreNumbers DEF TypeOK, LastStep, Bounds
  <1>3. f \in [step : 1..(LastStep + 1), gen : {restore_generation(known)}, trig : {0} \cup tab.facts]
    BY DEF Firings, known
  <1>4. IF f.trig = 0 THEN f.step = 1 ELSE f.step = log[f.trig].e.step + 1
    BY DEF Firings
  <1> QED BY <1>2, <1>3, <1>4 DEF Firing

\* The tables keep their shape when an effect is added or moves on.
LEMMA TableSteps ==
  ASSUME TypeOK, NEW e
  PROVE  /\ [tab EXCEPT !.effects = WithQueued(@, e)] =
              [status |-> tab.status, effects |-> WithQueued(tab.effects, e),
               facts |-> tab.facts]
         /\ [tab EXCEPT !.status = "completed"] =
              [status |-> "completed", effects |-> tab.effects, facts |-> tab.facts]
         /\ [tab EXCEPT !.effects = [@ EXCEPT ![e] = "running"]] =
              [status |-> tab.status, effects |-> [tab.effects EXCEPT ![e] = "running"],
               facts |-> tab.facts]
         /\ [tab EXCEPT !.effects = [@ EXCEPT ![e] = "failed"]] =
              [status |-> tab.status, effects |-> [tab.effects EXCEPT ![e] = "failed"],
               facts |-> tab.facts]
  <1>1. tab = [status |-> tab.status, effects |-> tab.effects, facts |-> tab.facts]
    BY DEF TypeOK
  <1> DEFINE st == tab.status
             ef == tab.effects
             fa == tab.facts
  <1> HIDE DEF st, ef, fa
  <1>4. tab = [status |-> st, effects |-> ef, facts |-> fa]
    BY <1>1 DEF st, ef, fa
  <1>5. /\ [tab EXCEPT !.effects = WithQueued(@, e)] =
              [status |-> st, effects |-> WithQueued(ef, e), facts |-> fa]
        /\ [tab EXCEPT !.status = "completed"] =
              [status |-> "completed", effects |-> ef, facts |-> fa]
    BY <1>4
  <1>6. /\ [tab EXCEPT !.effects = [@ EXCEPT ![e] = "running"]] =
              [status |-> st, effects |-> [ef EXCEPT ![e] = "running"], facts |-> fa]
        /\ [tab EXCEPT !.effects = [@ EXCEPT ![e] = "failed"]] =
              [status |-> st, effects |-> [ef EXCEPT ![e] = "failed"], facts |-> fa]
    BY <1>4
  <1> QED BY <1>5, <1>6 DEF st, ef, fa

\* An instance starts with an empty log and the tables folded from it.
LEMMA InitTypes == Init => TypeOK
<1> SUFFICES ASSUME Init PROVE TypeOK
  OBVIOUS
<1>1. log \in Seq(Events) /\ tab = Fold(log)
  BY EmptySeq DEF Init
<1>2. /\ tab = [status |-> tab.status, effects |-> tab.effects, facts |-> tab.facts]
      /\ tab.status \in {"running", "completed"}
      /\ DOMAIN tab.effects \subseteq Firing
      /\ tab.effects \in [DOMAIN tab.effects -> {"queued", "running", "completed", "failed"}]
      /\ tab.facts \subseteq Nat
  BY <1>1, FoldType
<1>3. left \in Bounds /\ \E s \in Scenarios : left.steps = s.steps
  BY ConstantsAssumption DEF Init
<1>4. disk \in [Paths -> Bodies]
  <2>1. <<>> \in Bodies
    BY EmptySeq DEF Bodies
  <2> QED BY <2>1 DEF Init, Absent
<1> QED BY <1>1, <1>2, <1>3, <1>4 DEF Init, TypeOK

\* A write leaves a sequence of bodies.
LEMMA WrittenType ==
  ASSUME NEW mode, NEW body \in Bodies, NEW chunk \in Firing \cup {None}
  PROVE  Written(mode, body, chunk) \in Bodies
  <1>1. Append(body, chunk) \in Bodies
    BY AppendProperties DEF Bodies
  <1>2. <<chunk>> \in Bodies
    BY DEF Bodies
  <1> QED BY <1>1, <1>2 DEF Written

\* The log only grows.
LEMMA LogOnlyGrows ==
  ASSUME TypeOK, log' = log \/ \E x : Grown(log, log', x)
  PROVE  Len(log) <= Len(log') /\ Len(log) \in Nat /\ Len(log') \in Nat
  <1>1. Len(log) \in Nat
    BY LenProperties DEF TypeOK
  <1> QED BY <1>1 DEF Grown

\* Every step keeps the types.
LEMMA TypeStep ==
  ASSUME TypeOK, [Next]_vars
  PROVE  TypeOK'
<1> USE DEF TypeOK
<1> DEFINE TabOK ==
      /\ tab = [status |-> tab.status, effects |-> tab.effects, facts |-> tab.facts]
      /\ tab.status \in {"running", "completed"}
      /\ DOMAIN tab.effects \subseteq Firing
      /\ tab.effects \in [DOMAIN tab.effects -> {"queued", "running", "completed", "failed"}]
      /\ tab.facts \subseteq Nat
<1>0. TabOK
  OBVIOUS
<1> DEFINE SeenOK == seen \in Nat \cup {None} /\ (seen # None => rule = None /\ seen <= Len(log))
<1>00. ASSUME log' = log \/ \E x : Grown(log, log', x), seen' = seen, rule' = rule \/ rule' = None
       PROVE  SeenOK'
  <2>1. Len(log) <= Len(log') /\ Len(log) \in Nat /\ Len(log') \in Nat
    BY <1>00, LogOnlyGrows
  <2> QED BY <1>00, <2>1
<1> HIDE DEF SeenOK
<1>1. CASE Evaluate
  <2>1. rule' \in Firing \cup {None}
    BY <1>1, FiringFound DEF Evaluate
  <2>2. SeenOK'
    BY <1>1 DEF Evaluate, SeenOK
  <2> QED BY <1>1, <2>1, <2>2 DEF Evaluate, SeenOK
<1>18. CASE ReadLog
  <2>1. Len(log) \in Nat
    BY LenProperties
  <2> QED BY <1>18, <2>1 DEF ReadLog
<1>2. CASE CommitRule
  <2>1. rule \in Firing /\ LastStep \in Nat
    BY <1>2 DEF CommitRule, LastStep, Bounds
  <2>2. log' \in Seq(Events)
    BY <1>2, CommitAppends
  <2>3. \/ tab' = tab
        \/ tab' = [status |-> "completed", effects |-> tab.effects, facts |-> tab.facts]
        \/ tab' = [status |-> tab.status, effects |-> WithQueued(tab.effects, rule),
                   facts |-> tab.facts]
    BY <1>2, TableSteps DEF CommitRule
  <2>4. DOMAIN WithQueued(tab.effects, rule) = DOMAIN tab.effects \cup {rule}
    BY DEF WithQueued
  <2>5. WithQueued(tab.effects, rule) \in
          [DOMAIN tab.effects \cup {rule} -> {"queued", "running", "completed", "failed"}]
    BY DEF WithQueued
  <2>6. TabOK'
    BY <1>0, <2>1, <2>3, <2>4, <2>5
  <2>7. SeenOK'
    BY <1>00, <1>2, CommitAppends DEF CommitRule
  <2>8. gaps' \subseteq {"torn", "moved", "orphaned", "spent", "stale", "straddled", "failed",
                         "unrecorded"}
    BY <1>2 DEF CommitRule, Straddled
  <2> QED BY <1>2, <2>2, <2>6, <2>7, <2>8 DEF CommitRule, SeenOK
<1>3. ASSUME NEW e \in DOMAIN tab.effects, Claim(e) PROVE TypeOK'
  BY <1>3 DEF Claim, Workers
<1>4. CASE Start
  <2>1. log' \in Seq(Events) /\ worker \in Workers
    BY <1>4, StartAppends DEF Start
  <2>2. TabOK' /\ worker' \in Workers \cup {None}
    <3>1. CASE tab' = tab /\ worker' = None
      BY <3>1
    <3>2. CASE /\ tab' = [status |-> tab.status,
                          effects |-> [tab.effects EXCEPT ![worker.e] = "running"],
                          facts |-> tab.facts]
               /\ worker' = [worker EXCEPT !.pc = "started"]
      <4>1. [tab.effects EXCEPT ![worker.e] = "running"] \in
              [DOMAIN tab.effects -> {"queued", "running", "completed", "failed"}]
        OBVIOUS
      <4> QED BY <1>0, <2>1, <3>2, <4>1 DEF Workers
    <3> QED BY <1>4, <3>1, <3>2, StartAppends, TableSteps
  <2>3. SeenOK'
    BY <1>00, <1>4, StartAppends DEF Start
  <2> QED BY <1>4, <2>1, <2>2, <2>3 DEF Start, SeenOK
<1>5. CASE WriteFile
  <2>1. worker \in Workers /\ worker.e \in Firing
    BY <1>5 DEF WriteFile, Workers
  <2>2. disk' \in [Paths -> Bodies]
    BY <1>5, <2>1, WrittenType DEF WriteFile
  <2>3. worker' \in Workers
    BY <1>5, <2>1 DEF WriteFile, Workers
  <2> QED BY <1>5, <2>2, <2>3 DEF WriteFile
<1>19. CASE WriteFails
  <2>1. left' \in Bounds /\ left'.steps = left.steps
    BY <1>19, UseBounds DEF WriteFails
  <2>2. worker \in Workers
    BY <1>19 DEF WriteFails
  <2>3. disk' \in [Paths -> Bodies]
    BY <1>19, WrittenType DEF WriteFails
  <2>4. worker' \in Workers
    BY <1>19, <2>2 DEF WriteFails, Workers
  <2>5. gaps' \subseteq gaps \cup {"failed", "unrecorded"}
    BY <1>19 DEF WriteFails
  <2> QED BY <1>19, <2>1, <2>3, <2>4, <2>5 DEF WriteFails
<1>20. CASE WorkerDies
  <2>1. left' \in Bounds /\ left'.steps = left.steps
    BY <1>20, UseBounds DEF WorkerDies
  <2> QED BY <1>20, <2>1 DEF WorkerDies
<1>21. ASSUME NEW e \in Running, ExpireLease(e) PROVE TypeOK'
  <2>1. left' \in Bounds /\ left'.steps = left.steps
    BY <1>21, UseBounds DEF ExpireLease
  <2>2. log' \in Seq(Events) /\ \E x : Grown(log, log', x)
    BY <1>21, ExpireAppends
  <2>3. TabOK'
    <3>1. tab' = [status |-> tab.status, effects |-> [tab.effects EXCEPT ![e] = "failed"],
                  facts |-> tab.facts]
      BY <1>21, TableSteps DEF ExpireLease
    <3>2. [tab.effects EXCEPT ![e] = "failed"] \in
            [DOMAIN tab.effects -> {"queued", "running", "completed", "failed"}]
      OBVIOUS
    <3> QED BY <1>0, <3>1, <3>2
  <2>4. SeenOK'
    BY <1>00, <1>21, <2>2 DEF ExpireLease
  <2>5. gaps' \subseteq gaps \cup {"failed", "unrecorded"}
    BY <1>21 DEF ExpireLease
  <2> QED BY <1>21, <2>1, <2>2, <2>3, <2>4, <2>5 DEF ExpireLease, SeenOK
<1>6. CASE Settle
  <2>1. log' \in Seq(Events) /\ worker' = None
    BY <1>6, SettleAppends
  <2>2. TabOK'
    <3>1. CASE tab' = tab
      BY <3>1
    <3>2. CASE tab' = [status |-> tab.status,
                       effects |-> [tab.effects EXCEPT ![worker.e] = "completed"],
                       facts |-> tab.facts \cup {Len(log')}]
      <4>1. [tab.effects EXCEPT ![worker.e] = "completed"] \in
              [DOMAIN tab.effects -> {"queued", "running", "completed", "failed"}]
        OBVIOUS
      <4>2. Len(log') \in Nat
        BY <2>1, LenProperties
      <4> QED BY <1>0, <3>2, <4>1, <4>2
    <3>3. CASE tab' = [status |-> tab.status,
                       effects |-> [tab.effects EXCEPT ![worker.e] = "failed"],
                       facts |-> tab.facts]
      <4>1. [tab.effects EXCEPT ![worker.e] = "failed"] \in
              [DOMAIN tab.effects -> {"queued", "running", "completed", "failed"}]
        OBVIOUS
      <4> QED BY <1>0, <3>3, <4>1
    <3> QED BY <1>6, <3>1, <3>2, <3>3, SettleAppends
  <2>3. SeenOK'
    BY <1>00, <1>6, SettleAppends DEF Settle
  <2> QED BY <1>6, <2>1, <2>2, <2>3 DEF Settle, SeenOK
<1>7. CASE Signal
  <2>1. left' \in Bounds /\ left'.steps = left.steps
    BY <1>7, UseBounds DEF Signal
  <2>2. SeenOK'
    BY <1>00, <1>7, SignalAppends DEF Signal
  <2> QED BY <1>7, <2>1, <2>2, SignalAppends DEF Signal, SeenOK
<1>8. CASE Checkpoint
  <2>1. left' \in Bounds /\ left'.steps = left.steps
    BY <1>8, UseBounds DEF Checkpoint
  <2>2. log' \in Seq(Events)
    BY <1>8, CheckpointAppends
  <2>3. SeenOK'
    BY <1>00, <1>8, CheckpointAppends DEF Checkpoint
  <2> QED BY <1>8, <2>1, <2>2, <2>3 DEF Checkpoint, SeenOK
<1>9. ASSUME NEW cut \in Cuts, Plan(cut) PROVE TypeOK'
  <2>1. left' \in Bounds /\ left'.steps = left.steps
    BY <1>9, UseBounds DEF Plan
  <2>2. plan_restore(cut) \in Plans
    BY PlanFound
  <2> QED BY <1>9, <2>1, <2>2 DEF Plan, Restorers
<1>10. CASE Save
  <2>1. restorer \in Restorers
    BY <1>10 DEF Save, At
  <2>2. auto_before(restorer.plan.cut) \in CutNames
    BY <2>1 DEF auto_before, Restorers, Plans, CutNames
  <2>3. log' \in Seq(Events)
    BY <1>10, <2>2, CutAppends DEF Save
  <2>4. restorer' \in Restorers \cup {None}
    BY <1>10, <2>1 DEF Save, Restorers
  <2>5. SeenOK'
    BY <1>00, <1>10, <2>2, CutAppends DEF Save
  <2> QED BY <1>10, <2>3, <2>4, <2>5 DEF Save, SeenOK
<1>11. CASE ReadHead
  <2>1. Len(log) \in Nat
    BY LenProperties
  <2> QED BY <1>11, <2>1 DEF ReadHead, At, Restorers
<1>01. ASSUME restorer \in Restorers PROVE \A done : Reconciled(done) \in [Paths -> Bodies]
  <2>1. \A f \in Firing : <<f>> \in Bodies
    BY DEF Bodies
  <2>2. <<>> \in Bodies
    BY EmptySeq DEF Bodies
  <2>3. restorer.plan.writes \in Manifests
    BY <1>01 DEF Restorers, Plans
  <2> QED BY <2>1, <2>2, <2>3 DEF Reconciled, Manifests, Absent
<1>12. CASE Reconcile
  <2>1. restorer \in Restorers
    BY <1>12 DEF Reconcile, At
  <2>2. disk' \in [Paths -> Bodies] /\ restorer' \in Restorers
    BY <1>01, <1>12, <2>1 DEF Reconcile, Restorers
  <2> QED BY <1>12, <2>2 DEF Reconcile
<1>13. CASE ReconcileFails
  <2>1. left' \in Bounds /\ left'.steps = left.steps
    BY <1>13, UseBounds DEF ReconcileFails
  <2>2. disk' \in [Paths -> Bodies]
    BY <1>01, <1>13 DEF ReconcileFails, At
  <2> QED BY <1>13, <2>1, <2>2 DEF ReconcileFails
<1>14. CASE CommitMarker
  <2>1. log' \in Seq(Events)
    BY <1>14, MarkerAppends DEF CommitMarker
  <2>2. restorer' \in Restorers \cup {None}
    BY <1>14 DEF CommitMarker, At, Restorers
  <2>3. gaps' \subseteq {"torn", "moved", "orphaned", "spent", "stale", "straddled", "failed",
                         "unrecorded"}
    BY <1>14 DEF CommitMarker, MarkerGaps
  <2>4. SeenOK'
    BY <1>00, <1>14, MarkerAppends DEF CommitMarker
  <2> QED BY <1>14, <2>1, <2>2, <2>3, <2>4 DEF CommitMarker, SeenOK
<1>15. CASE Rebuild
  <2>1. TabOK'
    BY <1>15, <1>0, FoldType DEF Rebuild
  <2> QED BY <1>15, <2>1 DEF Rebuild, Straddled
<1>16. CASE Killed
  <2>1. left' \in Bounds /\ left'.steps = left.steps
    BY <1>16, UseBounds DEF Killed
  <2> QED BY <1>16, <2>1 DEF Killed
<1>17. CASE UNCHANGED vars
  BY <1>17 DEF vars
<1> QED
  BY <1>1, <1>2, <1>3, <1>4, <1>5, <1>6, <1>7, <1>8, <1>9, <1>10, <1>11, <1>12, <1>13,
     <1>14, <1>15, <1>16, <1>17, <1>18, <1>19, <1>20, <1>21
  DEF Next, Drive, RulePass, Work, WorkerFaults, Restore

\* The program state has its types: events, tables, and what the rule pass, the
\* worker and the restore hold between two calls.
THEOREM RestoreTypeCorrect == Spec => []TypeOK
<1>1. TypeOK /\ [Next]_vars => TypeOK'
  BY TypeStep
<1> QED BY <1>1, InitTypes, PTL DEF Spec

\* An operation but the commit of a marker leaves live what is live, and the
\* marker is committed only while the log ends where the restore read its head.
LEMMA DroppedStep ==
  ASSUME TypeOK, [Next]_vars, NEW n \in live(log) \ live(log')
  PROVE  At("reconciled") /\ n <= restorer.head
<1>1. ASSUME NEW x, Grown(log, log', x), x.t # "restored" PROVE FALSE
  BY <1>1, LiveGrows
<1>2. log' # log
  OBVIOUS
<1>3. CASE CommitMarker
  <2>1. HeadUnmoved
    BY <1>2, <1>3 DEF CommitMarker
  <2>2. n \in 1..Len(log)
    BY EventFields DEF live, TypeOK
  <2> QED BY <1>3, <2>1, <2>2 DEF CommitMarker, HeadUnmoved
<1>4. CASE CommitRule
  BY <1>1, <1>2, <1>4, CommitAppends DEF Entry
<1>5. CASE Start
  BY <1>1, <1>2, <1>5, StartAppends DEF Entry
<1>6. CASE Settle
  BY <1>1, <1>2, <1>6, SettleAppends DEF Entry
<1>9. ASSUME NEW e \in Running, ExpireLease(e) PROVE FALSE
  BY <1>1, <1>9, ExpireAppends DEF Entry
<1>7. CASE Signal
  BY <1>1, <1>7, SignalAppends
<1>8. CASE Checkpoint \/ Save
  <2>1. ASSUME NEW cut, capture_checkpoint(cut) PROVE FALSE
    <3>1. \E x : Grown(log, log', x) /\ x.t = "cut"
      <4>1. log' = Append(log, CutEntry(cut, fold_file_manifest(log)))
        BY <2>1 DEF capture_checkpoint
      <4>2. \A S : log \in Seq(S) => Len(log) \in Nat /\ DOMAIN log = 1..Len(log)
        BY LenProperties
      <4>3. CutEntry(cut, fold_file_manifest(log)).t = "cut"
        BY DEF CutEntry
      <4> QED BY <4>1, <4>2, <4>3, AppendProperties DEF Grown, TypeOK
    <3> QED BY <1>1, <3>1
  <2> QED BY <1>2, <1>8, <2>1 DEF Checkpoint, Save
<1> QED
  BY <1>2, <1>3, <1>4, <1>5, <1>6, <1>7, <1>8, <1>9
  DEF Next, Drive, RulePass, Work, WorkerFaults, Restore, ReadLog, Evaluate, Claim, WriteFile,
      WriteFails, WorkerDies, Plan, ReadHead, Reconcile, ReconcileFails, Rebuild, Killed, vars

-----------------------------------------------------------------------------
(* What the log records, dropped events included.                          *)

\* A fact is a completion; a completion and a failure have a start and a start a
\* commit, the only one of its effect; the effects in the tables were committed.
Recorded ==
    /\ tab.facts \subseteq Is(log, "done")
    /\ \A e \in DOMAIN tab.effects : \E n \in Is(log, "commit") : log[n].e = e
    /\ \A m, n \in Is(log, "commit") : log[m].e = log[n].e => m = n
    /\ \A e \in Running : \E n \in Is(log, "start") : log[n].e = e
    /\ \A n \in Is(log, "start") \cup Is(log, "done") \cup Is(log, "failed") :
          \E c \in Is(log, "commit") : c < n /\ log[c].e = log[n].e
    /\ \A n \in Is(log, "done") \cup Is(log, "failed") :
          \E m \in Is(log, "start") : log[m].e = log[n].e
    /\ \A n \in Is(log, "commit") : log[n].e.step \in Steps
    /\ \A n \in Is(log, "end") : log[n].e.step > LastStep

\* A firing that was evaluated follows its trigger; the effect a worker holds
\* was committed, and once its run is started the log has the start and not the
\* completion.
Held ==
    /\ rule # None =>
          /\ rule.step >= 1
          /\ rule.trig # 0 => rule.trig \in Is(log, "done") /\ rule.step = log[rule.trig].e.step + 1
          /\ rule.trig = 0 => rule.step = 1
    /\ worker # None => \E n \in Is(log, "commit") : log[n].e = worker.e
    /\ worker # None /\ worker.pc # "claimed" =>
          /\ \E n \in Is(log, "start") : log[n].e = worker.e
          /\ \A n \in Is(log, "done") : log[n].e # worker.e

\* Nothing is recorded and no worker holds an effect at the start.
LEMMA InitRecorded == Init => Recorded /\ Held
<1> SUFFICES ASSUME Init PROVE Recorded /\ Held
  OBVIOUS
<1>1. \A t : Is(log, t) = {}
  BY DEF Init, Is
<1>2. live(log) = {} /\ \A t : LiveOf(log, t) = {}
  BY <1>1 DEF Init, live, LiveOf
<1>3. tab.facts = {} /\ DOMAIN tab.effects = {}
  BY <1>2 DEF Init, Fold, FoldedEffects
<1> QED BY <1>1, <1>3 DEF Init, Recorded, Held, Running

\* Cuts, signals and markers leave all this alone.
LEMMA RecordedKept ==
  ASSUME TypeOK, Recorded, Held, NEW x, Grown(log, log', x) \/ log' = log,
         x.t \notin {"commit", "start", "done", "failed", "end"},
         tab' = tab, LastStep' = LastStep, rule' = rule, worker' = worker
  PROVE  Recorded' /\ Held'
<1>1. CASE log' = log
  BY <1>1 DEF Recorded, Held, Steps, Running, Is
<1>2. CASE Grown(log, log', x)
  <2>1. \A t \in {"commit", "start", "done", "failed", "end"} :
           Is(log', t) = Is(log, t) /\ \A n \in Is(log, t) : log'[n] = log[n]
    BY <1>2, IsGrows
  <2> QED BY <2>1 DEF Recorded, Held, Steps, Running
<1> QED BY <1>1, <1>2

\* A commit is of an effect that no other commit is of.
LEMMA CommitRecorded ==
  ASSUME TypeOK, Recorded, Held, CommitRule
  PROVE  Recorded' /\ Held'
<1>0. rule' = None /\ worker' = worker /\ LastStep' = LastStep
  BY DEF CommitRule, LastStep
<1>1. CASE log' = log /\ tab' = tab
  BY <1>0, <1>1 DEF Recorded, Held, Steps, Running, Is
<1>2. CASE ~(log' = log /\ tab' = tab)
  <2> DEFINE x == Entry(IF rule.step > LastStep THEN "end" ELSE "commit", rule)
  <2>1. /\ Grown(log, log', x)
        /\ \A n \in Is(log, "commit") \cup Is(log, "end") : log[n].e # rule
    BY <1>2, CommitAppends
  <2>2. /\ x.t = (IF rule.step > LastStep THEN "end" ELSE "commit") /\ x.e = rule
        /\ log'[Len(log')] = x
    BY <2>1 DEF Entry, Grown
  <2> HIDE DEF x
  <2>3. \A t : /\ Is(log', t) = IF x.t = t THEN Is(log, t) \cup {Len(log')} ELSE Is(log, t)
               /\ Is(log, t) \subseteq 1..Len(log)
               /\ \A n \in Is(log, t) : log'[n] = log[n]
    BY <2>1, IsGrows
  <2>4. rule \in Firing /\ rule.step >= 1 /\ LastStep \in Nat /\ rule.step \in Nat
    BY DEF CommitRule, TypeOK, Held, LastStep, Bounds, Firing
  <2>5. Held'
    BY <1>0, <2>2, <2>3 DEF Held
  <2>6. CASE rule.step > LastStep
    <3>1. /\ Is(log', "end") = Is(log, "end") \cup {Len(log')}
          /\ \A t \in {"commit", "start", "done", "failed"} : Is(log', t) = Is(log, t)
      BY <2>2, <2>3, <2>6
    <3>2. tab'.effects = tab.effects /\ tab'.facts = tab.facts
      BY <1>2, <2>6, TableSteps DEF CommitRule
    <3>3. Running' = Running
      BY <3>2 DEF Running
    <3> QED BY <1>0, <2>2, <2>3, <2>5, <2>6, <3>1, <3>2, <3>3 DEF Recorded, Steps
  <2>7. CASE ~(rule.step > LastStep)
    <3>1. /\ Is(log', "commit") = Is(log, "commit") \cup {Len(log')}
          /\ \A t \in {"end", "start", "done", "failed"} : Is(log', t) = Is(log, t)
      BY <2>2, <2>3, <2>7
    <3>a. tab' = [status |-> tab.status, effects |-> WithQueued(tab.effects, rule),
                  facts |-> tab.facts]
      BY <1>2, <2>7, TableSteps DEF CommitRule
    <3>b. DOMAIN WithQueued(tab.effects, rule) = DOMAIN tab.effects \cup {rule}
      BY DEF WithQueued
    <3>2. DOMAIN tab'.effects = DOMAIN tab.effects \cup {rule} /\ tab'.facts = tab.facts
      BY <3>a, <3>b
    <3>3. rule.step \in Steps
      BY <2>4, <2>7 DEF Steps
    <3>4. \A m, n \in Is(log', "commit") : log'[m].e = log'[n].e => m = n
      BY <2>1, <2>2, <2>3, <3>1 DEF Recorded
    <3>5. \A n \in Is(log', "start") \cup Is(log', "done") \cup Is(log', "failed") :
            \E c \in Is(log', "commit") : c < n /\ log'[c].e = log'[n].e
      BY <2>3, <3>1 DEF Recorded
    <3>6. \A n \in Is(log', "commit") : log'[n].e.step \in Steps'
      BY <1>0, <2>2, <2>3, <3>1, <3>3 DEF Recorded, Steps
    <3>7. \A e \in DOMAIN tab'.effects : \E n \in Is(log', "commit") : log'[n].e = e
      BY <2>2, <2>3, <3>1, <3>2 DEF Recorded
    <3>8. Running' \subseteq Running
      BY <3>a, <3>b DEF Running, WithQueued
    <3> QED BY <1>0, <2>3, <2>5, <3>1, <3>2, <3>4, <3>5, <3>6, <3>7, <3>8 DEF Recorded
  <2> QED BY <2>6, <2>7
<1> QED BY <1>1, <1>2

\* A start is of an effect that was committed.
LEMMA StartRecorded ==
  ASSUME TypeOK, Recorded, Held, Start
  PROVE  Recorded' /\ Held'
<1>0. rule' = rule /\ LastStep' = LastStep /\ worker # None /\ worker \in Workers
  BY DEF Start, LastStep, TypeOK
<1>1. CASE log' = log /\ tab' = tab /\ worker' = None
  BY <1>0, <1>1 DEF Recorded, Held, Steps, Running, Is
<1>2. CASE ~(log' = log /\ tab' = tab /\ worker' = None)
  <2> DEFINE x == Entry("start", worker.e)
  <2>1. /\ Grown(log, log', x)
        /\ \A n \in Is(log, "start") : log[n].e # worker.e
        /\ tab' = [tab EXCEPT !.effects = [@ EXCEPT ![worker.e] = "running"]]
        /\ worker' = [worker EXCEPT !.pc = "started"]
    BY <1>2, StartAppends
  <2>2. x.t = "start" /\ x.e = worker.e /\ log'[Len(log')] = x
    BY <2>1 DEF Entry, Grown
  <2> HIDE DEF x
  <2>3. /\ Is(log', "start") = Is(log, "start") \cup {Len(log')}
        /\ \A t \in {"commit", "end", "done", "failed"} : Is(log', t) = Is(log, t)
        /\ \A t \in {"commit", "end", "done", "failed", "start"} :
             Is(log, t) \subseteq 1..Len(log) /\ \A n \in Is(log, t) : log'[n] = log[n]
    BY <2>1, <2>2, IsGrows
  <2>4. DOMAIN tab'.effects = DOMAIN tab.effects /\ tab'.facts = tab.facts
    BY <2>1, TableSteps
  <2>5. worker'.e = worker.e
    BY <1>0, <2>1 DEF Workers
  <2>6. \A c \in Is(log, "commit") : c < Len(log')
    BY <2>1, <2>3 DEF Grown
  <2>7. \A n \in Is(log', "start") \cup Is(log', "done") \cup Is(log', "failed") :
          \E c \in Is(log', "commit") : c < n /\ log'[c].e = log'[n].e
    BY <1>0, <2>2, <2>3, <2>6 DEF Recorded, Held
  <2>a. Running' \subseteq Running \cup {worker.e}
    BY <2>1, TableSteps DEF Running
  <2>b. \A e \in Running' : \E n \in Is(log', "start") : log'[n].e = e
    BY <2>2, <2>3, <2>a DEF Recorded
  <2>8. Recorded'
    BY <1>0, <2>3, <2>4, <2>7, <2>b DEF Recorded, Steps
  <2>9. Held'
    <3>1. \A n \in Is(log, "done") : log[n].e # worker.e
      BY <2>1 DEF Recorded
    <3> QED BY <1>0, <2>2, <2>3, <2>5, <3>1 DEF Held
  <2> QED BY <2>8, <2>9
<1> QED BY <1>1, <1>2

\* A completion or a failure is of an effect that was committed and started.
LEMMA EndingRecorded ==
  ASSUME TypeOK, Recorded, NEW e \in Running, NEW t \in {"done", "failed"},
         Grown(log, log', Entry(t, e)), LastStep' = LastStep,
         DOMAIN tab'.effects = DOMAIN tab.effects, Running' \subseteq Running,
         tab'.facts \subseteq tab.facts \cup IF t = "done" THEN {Len(log')} ELSE {}
  PROVE  Recorded'
<1> DEFINE x == Entry(t, e)
<1>1. x.t = t /\ x.e = e /\ log'[Len(log')] = x /\ Grown(log, log', x)
  BY DEF Entry, Grown
<1> HIDE DEF x
<1>2. /\ Is(log', t) = Is(log, t) \cup {Len(log')}
      /\ \A u \in {"commit", "end", "start", "done", "failed"} \ {t} : Is(log', u) = Is(log, u)
      /\ \A u \in {"commit", "end", "done", "failed", "start"} :
           Is(log, u) \subseteq 1..Len(log) /\ \A n \in Is(log, u) : log'[n] = log[n]
  BY <1>1, IsGrows
<1>3. \A c \in Is(log, "commit") : c < Len(log')
  BY <1>1, <1>2 DEF Grown
<1>4. /\ \E c \in Is(log, "commit") : log[c].e = e
      /\ \E m \in Is(log, "start") : log[m].e = e
  BY DEF Recorded, Running
<1>8. /\ Is(log', "commit") = Is(log, "commit") /\ Is(log', "end") = Is(log, "end")
      /\ Is(log', "start") = Is(log, "start")
  BY <1>2
<1>a. Is(log', "done") \cup Is(log', "failed") = Is(log, "done") \cup Is(log, "failed") \cup {Len(log')}
  <2>1. CASE t = "done"
    BY <1>2, <2>1
  <2>2. CASE t = "failed"
    BY <1>2, <2>2
  <2> QED BY <2>1, <2>2
<1>5. ASSUME NEW n \in Is(log', "start") \cup Is(log', "done") \cup Is(log', "failed")
      PROVE  \E c \in Is(log', "commit") : c < n /\ log'[c].e = log'[n].e
  <2>1. CASE n = Len(log')
    BY <1>1, <1>2, <1>3, <1>4, <1>8, <2>1
  <2>2. CASE n \in Is(log, "start") \cup Is(log, "done") \cup Is(log, "failed")
    <3>1. PICK c \in Is(log, "commit") : c < n /\ log[c].e = log[n].e
      BY <2>2 DEF Recorded
    <3> QED BY <1>2, <1>8, <2>2, <3>1
  <2> QED BY <1>8, <1>a, <2>1, <2>2
<1>6. ASSUME NEW n \in Is(log', "done") \cup Is(log', "failed")
      PROVE  \E m \in Is(log', "start") : log'[m].e = log'[n].e
  <2>1. CASE n = Len(log')
    BY <1>1, <1>2, <1>4, <1>8, <2>1
  <2>2. CASE n \in Is(log, "done") \cup Is(log, "failed")
    <3>1. PICK m \in Is(log, "start") : log[m].e = log[n].e
      BY <2>2 DEF Recorded
    <3> QED BY <1>2, <1>8, <2>2, <3>1
  <2> QED BY <1>a, <2>1, <2>2
<1>7. tab'.facts \subseteq Is(log', "done")
  BY <1>2 DEF Recorded
<1>9. \A d \in Running' : \E n \in Is(log', "start") : log'[n].e = d
  BY <1>2, <1>8 DEF Recorded
<1> QED BY <1>2, <1>5, <1>6, <1>7, <1>8, <1>9 DEF Recorded, Steps

\* What a settlement ends was running, and the worker holds nothing after it.
LEMMA SettleRecorded ==
  ASSUME TypeOK, Recorded, Held, Settle
  PROVE  Recorded' /\ Held'
<1>0. rule' = rule /\ LastStep' = LastStep /\ worker' = None
  BY DEF Settle, LastStep
<1>1. CASE log' = log /\ tab' = tab
  BY <1>0, <1>1 DEF Recorded, Held, Steps, Running, Is
<1>2. CASE ~(log' = log /\ tab' = tab)
  <2>1. PICK t \in {"done", "failed"} :
          /\ Grown(log, log', Entry(t, worker.e)) /\ worker.e \in Running
          /\ \E v \in {"completed", "failed"} :
                tab'.effects = [tab.effects EXCEPT ![worker.e] = v]
          /\ tab'.facts = tab.facts \cup IF t = "done" THEN {Len(log')} ELSE {}
    <3>1. CASE worker.pc = "written"
      <4>1. /\ Grown(log, log', Entry("done", worker.e)) /\ worker.e \in Running
            /\ tab'.effects = [tab.effects EXCEPT ![worker.e] = "completed"]
            /\ tab'.facts = tab.facts \cup {Len(log')}
        BY <1>2, <3>1, SettleAppends
      <4> QED BY <4>1
    <3>2. CASE worker.pc = "refused"
      <4>1. /\ Grown(log, log', Entry("failed", worker.e)) /\ worker.e \in Running
            /\ tab'.effects = [tab.effects EXCEPT ![worker.e] = "failed"]
            /\ tab'.facts = tab.facts
        BY <1>2, <3>2, SettleAppends
      <4> QED BY <4>1
    <3> QED BY <3>1, <3>2 DEF Settle
  <2>2. DOMAIN tab'.effects = DOMAIN tab.effects /\ Running' \subseteq Running
    BY <2>1 DEF Running
  <2>3. Recorded'
    BY <1>0, <2>1, <2>2, EndingRecorded
  <2>4. /\ Is(log, "done") \subseteq Is(log', "done")
        /\ \A n \in Is(log, "done") : log'[n] = log[n]
    BY <2>1, IsGrows
  <2> QED BY <1>0, <2>3, <2>4 DEF Held
<1> QED BY <1>1, <1>2

\* What an expiry ends was running.
LEMMA ExpireRecorded ==
  ASSUME TypeOK, Recorded, Held, LastStep' = LastStep, NEW e \in Running, ExpireLease(e)
  PROVE  Recorded' /\ Held'
<1>1. /\ Grown(log, log', Entry("failed", e))
      /\ tab' = [status |-> tab.status, effects |-> [tab.effects EXCEPT ![e] = "failed"],
                 facts |-> tab.facts]
      /\ rule' = rule /\ worker' = worker
  BY ExpireAppends, TableSteps DEF ExpireLease
<1>2. /\ DOMAIN tab'.effects = DOMAIN tab.effects /\ Running' \subseteq Running
      /\ tab'.facts = tab.facts
  BY <1>1 DEF Running
<1>3. Recorded'
  BY <1>1, <1>2, EndingRecorded
<1>4. \A u \in {"commit", "done", "start"} :
        Is(log', u) = Is(log, u) /\ \A n \in Is(log, u) : log'[n] = log[n]
  BY <1>1, IsGrows DEF Entry
<1> QED BY <1>1, <1>3, <1>4 DEF Held

\* The scenario's number of steps never changes.
LEMMA StepsKept ==
  ASSUME TypeOK, [Next]_vars
  PROVE  LastStep' = LastStep
<1>1. ASSUME NEW what \in {"cuts", "restores", "faults"}, Use(what) PROVE LastStep' = LastStep
  BY <1>1, UseBounds DEF LastStep
<1>2. left' = left => LastStep' = LastStep
  BY DEF LastStep
<1> QED
  BY <1>1, <1>2
  DEF Next, Drive, RulePass, Work, WorkerFaults, Restore, ReadLog, Evaluate, CommitRule, Claim,
      Start, WriteFile, Settle, WriteFails, WorkerDies, ExpireLease, Signal, Checkpoint, Plan, Save, ReadHead, Reconcile, ReconcileFails, CommitMarker,
      Rebuild, Killed, vars

\* Every step keeps what the log records.
LEMMA RecordedStep ==
  ASSUME TypeOK, Recorded, Held, [Next]_vars
  PROVE  Recorded' /\ Held'
<1>0. LastStep' = LastStep
  BY StepsKept
<1>1. CASE Evaluate
  <2>1. /\ rule' \in Firings(SubSeq(log, 1, seen)) \/ rule' = rule
        /\ seen # None /\ log' = log /\ tab' = tab /\ worker' = worker
    BY <1>1 DEF Evaluate
  <2>2. CASE rule' = rule
    BY <1>0, <2>1, <2>2 DEF Recorded, Held, Steps, Running, Is
  <2>3. CASE rule' \in Firings(SubSeq(log, 1, seen))
    <3>1. /\ rule'.step >= 1
          /\ rule'.trig # 0 => rule'.trig \in tab.facts /\ rule'.step = log[rule'.trig].e.step + 1
          /\ rule'.trig = 0 => rule'.step = 1
      BY <2>1, <2>3, FiringFound
    <3> QED BY <1>0, <2>1, <3>1 DEF Recorded, Held, Steps, Running, Is
  <2> QED BY <2>1, <2>2, <2>3
<1>2. CASE CommitRule
  BY <1>2, CommitRecorded
<1>3. ASSUME NEW e \in DOMAIN tab.effects, Claim(e) PROVE Recorded' /\ Held'
  <2>1. worker'.e = e /\ worker'.pc = "claimed" /\ \E n \in Is(log, "commit") : log[n].e = e
    BY <1>3 DEF Claim, LiveOf
  <2> QED BY <1>0, <1>3, <2>1 DEF Claim, Recorded, Held, Steps, Running, Is
<1>4. CASE Start
  BY <1>4, StartRecorded
<1>5. CASE WriteFile \/ WriteFails
  <2>1. /\ worker'.e = worker.e /\ worker # None /\ worker.pc = "started"
        /\ log' = log /\ tab' = tab /\ rule' = rule
    BY <1>5 DEF WriteFile, WriteFails, TypeOK, Workers
  <2> QED BY <1>0, <2>1 DEF Recorded, Held, Steps, Running, Is
<1>15. CASE WorkerDies
  <2>1. worker' = None /\ log' = log /\ tab' = tab /\ rule' = rule
    BY <1>15 DEF WorkerDies
  <2> QED BY <1>0, <2>1 DEF Recorded, Held, Steps, Running, Is
<1>16. ASSUME NEW e \in Running, ExpireLease(e) PROVE Recorded' /\ Held'
  BY <1>0, <1>16, ExpireRecorded
<1>6. CASE Settle
  BY <1>6, SettleRecorded
<1>7. ASSUME NEW x, Grown(log, log', x) \/ log' = log,
             x.t \notin {"commit", "start", "done", "failed", "end"},
             tab' = tab, rule' = rule, worker' = worker
      PROVE  Recorded' /\ Held'
  BY <1>0, <1>7, RecordedKept
<1>8. CASE Signal
  <2>1. Grown(log, log', [t |-> "signal"]) /\ tab' = tab /\ rule' = rule /\ worker' = worker
    BY <1>8, SignalAppends DEF Signal
  <2>2. [t |-> "signal"].t \notin {"commit", "start", "done", "failed", "end"}
    OBVIOUS
  <2> QED BY <1>7, <2>1, <2>2
<1>9. \A cut, manifest : CutEntry(cut, manifest).t \notin {"commit", "start", "done", "failed", "end"}
  BY DEF CutEntry
<1>10. CASE Checkpoint
  <2>1. tab' = tab /\ rule' = rule /\ worker' = worker
    BY <1>10 DEF Checkpoint
  <2>2. \E cut : Grown(log, log', CutEntry(cut, fold_file_manifest(log)))
    BY <1>10, CheckpointAppends
  <2> QED BY <1>7, <1>9, <2>1, <2>2
<1>11. CASE Save
  <2>1. tab' = tab /\ rule' = rule /\ worker' = worker
    BY <1>11 DEF Save
  <2>2. auto_before(restorer.plan.cut) \in CutNames
    BY <1>11 DEF auto_before, Restorers, Plans, CutNames, Save, At, TypeOK
  <2>3. \/ log' = log
        \/ Grown(log, log', CutEntry(auto_before(restorer.plan.cut), fold_file_manifest(log)))
    BY <1>11, <2>2, CutAppends DEF Save
  <2> QED BY <1>7, <1>9, <2>1, <2>3
<1>12. CASE CommitMarker
  <2>1. tab' = tab /\ rule' = rule /\ worker' = worker
    BY <1>12 DEF CommitMarker
  <2>2. \/ log' = log
        \/ Grown(log, log', Marker(restorer.plan.cut, restorer.plan.to))
    BY <1>12, MarkerAppends DEF CommitMarker
  <2>3. Marker(restorer.plan.cut, restorer.plan.to).t \notin {"commit", "start", "done", "failed", "end"}
    BY DEF Marker
  <2> QED BY <1>7, <2>1, <2>2, <2>3
<1>13. CASE Rebuild
  <2>1. log' = log /\ rule' = rule /\ worker' = worker /\ (tab' = tab \/ tab' = Fold(log))
    BY <1>13 DEF Rebuild
  <2>2. CASE tab' = tab
    BY <1>0, <2>1, <2>2 DEF Recorded, Held, Steps, Running, Is
  <2>3. CASE tab' = Fold(log)
    <3>1. DOMAIN tab'.effects = LiveOf(log, "commit")
      BY <2>3, FoldType DEF TypeOK
    <3>2. tab'.facts \subseteq Is(log, "done")
      BY <2>3 DEF Fold
    <3>3. \A e \in DOMAIN tab'.effects : \E n \in Is(log, "commit") : log[n].e = e
      BY <3>1 DEF LiveOf
    <3>4. \A e \in Running' : \E n \in Is(log, "start") : log[n].e = e
      <4>1. SUFFICES ASSUME NEW e \in Running' PROVE e \in LiveOf(log, "start")
        BY DEF LiveOf
      <4>2. e \in LiveOf(log, "commit") /\ FoldedEffects(log)[e] = "running"
        BY <2>3, <3>1, <4>1 DEF Running, Fold
      <4> QED BY <4>2 DEF FoldedEffects
    <3> QED BY <1>0, <2>1, <3>2, <3>3, <3>4 DEF Recorded, Held, Steps
  <2> QED BY <2>1, <2>2, <2>3
<1>14. CASE log' = log /\ tab' = tab /\ rule' = rule /\ worker' = worker
  BY <1>0, <1>14 DEF Recorded, Held, Steps, Running, Is
<1> QED
  BY <1>1, <1>2, <1>3, <1>4, <1>5, <1>6, <1>8, <1>10, <1>11, <1>12, <1>13, <1>14, <1>15, <1>16
  DEF Next, Drive, RulePass, Work, WorkerFaults, Restore, ReadLog, Plan, ReadHead, Reconcile, ReconcileFails,
      Killed, vars

-----------------------------------------------------------------------------
(* The tables and the live timeline.                                       *)

\* The tables are the fold of the log, from which they can be rebuilt, unless
\* a restore is between its marker and its rebuild, or stopped there.
Fresh == "stale" \in gaps \/ At("marked") \/ (tab = Fold(log) /\ Rebuildable(log))

\* Every live commit has, before it, a live completion of every earlier step.
ChainOf(l) ==
    \A n \in live(l) \cap (Is(l, "commit") \cup Is(l, "end")) :
        \A k \in 1..(l[n].e.step - 1) :
            \E d \in live(l) \cap Is(l, "done") : d < n /\ l[d].e.step = k

Chained == {"straddled", "stale"} \cap gaps = {} /\ Rebuildable(log) => ChainOf(log)

\* The trigger of a firing that waits for its commit is live, but for a restore
\* between its marker and its rebuild.
Triggered ==
    {"straddled", "stale"} \cap gaps = {} /\ ~At("marked") /\ rule # None =>
        rule.trig \in {0} \cup live(log)

\* Cuts and signals are nothing to the tables.
LEMMA FoldKept ==
  ASSUME NEW l, NEW k, NEW x, Grown(l, k, x), x.t \in {"cut", "signal"}
  PROVE  Fold(k) = Fold(l) /\ (Rebuildable(k) <=> Rebuildable(l))
  <1>1. \A t \in {"commit", "start", "done", "failed", "end"} :
          LiveOf(k, t) = LiveOf(l, t) /\ live(k) \cap Is(k, t) = live(l) \cap Is(l, t)
    BY LiveOfGrows, LiveIsGrows
  <1> QED BY <1>1 DEF Fold, FoldedStatus, FoldedEffects, Rebuildable

\* A new effect is queued.
LEMMA FoldCommitted ==
  ASSUME NEW l, NEW k, NEW x, Grown(l, k, x), x.t = "commit", Rebuildable(l),
         \A n \in Is(l, "commit") : l[n].e # x.e
  PROVE  /\ Rebuildable(k)
         /\ Fold(k) = [status |-> Fold(l).status, effects |-> WithQueued(Fold(l).effects, x.e),
                       facts |-> Fold(l).facts]
  <1>1. /\ LiveOf(k, "commit") = LiveOf(l, "commit") \cup {x.e}
        /\ LiveOf(k, "start") = LiveOf(l, "start") /\ LiveOf(k, "done") = LiveOf(l, "done")
        /\ LiveOf(k, "failed") = LiveOf(l, "failed")
    BY LiveOfGrows
  <1>2. /\ live(k) \cap Is(k, "end") = live(l) \cap Is(l, "end")
        /\ live(k) \cap Is(k, "done") = live(l) \cap Is(l, "done")
    BY LiveIsGrows
  <1>3. /\ x.e \notin LiveOf(l, "commit") /\ x.e \notin LiveOf(l, "start")
        /\ x.e \notin LiveOf(l, "done") /\ x.e \notin LiveOf(l, "failed")
    BY DEF LiveOf, Rebuildable
  <1>4. FoldedEffects(k) = WithQueued(FoldedEffects(l), x.e)
    <2>1. DOMAIN FoldedEffects(l) = LiveOf(l, "commit")
      BY DEF FoldedEffects
    <2>2. \A e \in LiveOf(l, "commit") : FoldedEffects(k)[e] = FoldedEffects(l)[e]
      BY <1>1 DEF FoldedEffects
    <2>3. FoldedEffects(k)[x.e] = "queued"
      BY <1>1, <1>3 DEF FoldedEffects
    <2>4. FoldedEffects(k) = [e \in LiveOf(l, "commit") \cup {x.e} |-> FoldedEffects(k)[e]]
      BY <1>1 DEF FoldedEffects
    <2> QED BY <1>3, <2>1, <2>2, <2>3, <2>4 DEF WithQueued
  <1> QED BY <1>1, <1>2, <1>4 DEF Fold, FoldedStatus, Rebuildable

\* An end completes the instance.
LEMMA FoldEnded ==
  ASSUME NEW l, NEW k, NEW x, Grown(l, k, x), x.t = "end", Rebuildable(l)
  PROVE  /\ Rebuildable(k)
         /\ Fold(k) = [status |-> "completed", effects |-> Fold(l).effects,
                       facts |-> Fold(l).facts]
  <1>1. \A t \in {"commit", "start", "done", "failed"} :
          LiveOf(k, t) = LiveOf(l, t) /\ live(k) \cap Is(k, t) = live(l) \cap Is(l, t)
    BY LiveOfGrows, LiveIsGrows
  <1>2. live(k) \cap Is(k, "end") = (live(l) \cap Is(l, "end")) \cup {Len(k)}
    BY LiveIsGrows
  <1> QED BY <1>1, <1>2 DEF Fold, FoldedStatus, FoldedEffects, Rebuildable

\* A start makes its effect run.
LEMMA FoldStarted ==
  ASSUME NEW l, NEW k, NEW x, Grown(l, k, x), x.t = "start", Rebuildable(l),
         x.e \in LiveOf(l, "commit"), x.e \notin LiveOf(l, "done"), x.e \notin LiveOf(l, "failed")
  PROVE  /\ Rebuildable(k)
         /\ Fold(k) = [status |-> Fold(l).status,
                       effects |-> [Fold(l).effects EXCEPT ![x.e] = "running"],
                       facts |-> Fold(l).facts]
  <1>1. /\ LiveOf(k, "start") = LiveOf(l, "start") \cup {x.e}
        /\ LiveOf(k, "commit") = LiveOf(l, "commit") /\ LiveOf(k, "done") = LiveOf(l, "done")
        /\ LiveOf(k, "failed") = LiveOf(l, "failed")
    BY LiveOfGrows
  <1>2. /\ live(k) \cap Is(k, "end") = live(l) \cap Is(l, "end")
        /\ live(k) \cap Is(k, "done") = live(l) \cap Is(l, "done")
    BY LiveIsGrows
  <1>4. FoldedEffects(k) = [FoldedEffects(l) EXCEPT ![x.e] = "running"]
    BY <1>1 DEF FoldedEffects
  <1> QED BY <1>1, <1>2, <1>4 DEF Fold, FoldedStatus, Rebuildable

\* A completion is a fact and completes its effect.
LEMMA FoldSettled ==
  ASSUME NEW l, NEW k, NEW x, Grown(l, k, x), x.t = "done", Rebuildable(l),
         x.e \in LiveOf(l, "commit")
  PROVE  /\ Rebuildable(k)
         /\ Fold(k) = [status |-> Fold(l).status,
                       effects |-> [Fold(l).effects EXCEPT ![x.e] = "completed"],
                       facts |-> Fold(l).facts \cup {Len(k)}]
  <1>1. /\ LiveOf(k, "done") = LiveOf(l, "done") \cup {x.e}
        /\ LiveOf(k, "commit") = LiveOf(l, "commit") /\ LiveOf(k, "start") = LiveOf(l, "start")
        /\ LiveOf(k, "failed") = LiveOf(l, "failed")
    BY LiveOfGrows
  <1>2. /\ live(k) \cap Is(k, "end") = live(l) \cap Is(l, "end")
        /\ live(k) \cap Is(k, "done") = (live(l) \cap Is(l, "done")) \cup {Len(k)}
    BY LiveIsGrows
  <1>4. FoldedEffects(k) = [FoldedEffects(l) EXCEPT ![x.e] = "completed"]
    BY <1>1 DEF FoldedEffects
  <1> QED BY <1>1, <1>2, <1>4 DEF Fold, FoldedStatus, Rebuildable

\* A failure fails its effect.
LEMMA FoldFailed ==
  ASSUME NEW l, NEW k, NEW x, Grown(l, k, x), x.t = "failed", Rebuildable(l),
         x.e \in LiveOf(l, "commit"), x.e \notin LiveOf(l, "done")
  PROVE  /\ Rebuildable(k)
         /\ Fold(k) = [status |-> Fold(l).status,
                       effects |-> [Fold(l).effects EXCEPT ![x.e] = "failed"],
                       facts |-> Fold(l).facts]
  <1>1. /\ LiveOf(k, "failed") = LiveOf(l, "failed") \cup {x.e}
        /\ LiveOf(k, "commit") = LiveOf(l, "commit") /\ LiveOf(k, "start") = LiveOf(l, "start")
        /\ LiveOf(k, "done") = LiveOf(l, "done")
    BY LiveOfGrows
  <1>2. /\ live(k) \cap Is(k, "end") = live(l) \cap Is(l, "end")
        /\ live(k) \cap Is(k, "done") = live(l) \cap Is(l, "done")
    BY LiveIsGrows
  <1>4. FoldedEffects(k) = [FoldedEffects(l) EXCEPT ![x.e] = "failed"]
    BY <1>1 DEF FoldedEffects
  <1> QED BY <1>1, <1>2, <1>4 DEF Fold, FoldedStatus, Rebuildable

\* What is not a commit, an end or a marker keeps the chain.
LEMMA ChainKept ==
  ASSUME NEW l, NEW k, NEW x, Grown(l, k, x), x.t \notin {"restored", "commit", "end"}, ChainOf(l)
  PROVE  ChainOf(k)
  <1>1. \A t \in {"commit", "end"} : live(k) \cap Is(k, t) = live(l) \cap Is(l, t)
    BY LiveIsGrows
  <1>2. live(l) \cap Is(l, "done") \subseteq live(k) \cap Is(k, "done")
    BY LiveIsGrows
  <1>3. \A t \in {"commit", "end", "done"} : \A n \in Is(l, t) : k[n] = l[n]
    BY IsGrows
  <1> QED BY <1>1, <1>2, <1>3 DEF ChainOf

\* A marker that keeps a commit keeps what came before it.
LEMMA ChainDropped ==
  ASSUME NEW l \in Seq(Events), NEW k, NEW x, Grown(l, k, x), x.t = "restored", x.to \in Nat,
         ChainOf(l)
  PROVE  ChainOf(k)
  <1>1. live(k) = {n \in live(l) : n <= x.to}
    BY LiveDropped
  <1>2. \A t \in {"commit", "end", "done"} :
          Is(k, t) = Is(l, t) /\ \A n \in Is(l, t) : k[n] = l[n] /\ n \in Nat
    <2>1. \A t : \A n \in Is(l, t) : n \in Nat
      BY EventFields DEF Is
    <2> QED BY <2>1, IsGrows
  <1>3. \A d, n \in Nat : d < n /\ n <= x.to => d <= x.to
    OBVIOUS
  <1> QED BY <1>1, <1>2, <1>3 DEF ChainOf

\* A commit continues the chain of its trigger.
LEMMA ChainCommitted ==
  ASSUME NEW l \in Seq(Events), NEW k, NEW x, Grown(l, k, x), x.t \in {"commit", "end"}, ChainOf(l),
         Rebuildable(l), x.e.step \in Nat,
         x.e.trig = 0 => x.e.step = 1,
         x.e.trig # 0 => /\ x.e.trig \in live(l) \cap Is(l, "done")
                         /\ x.e.step = l[x.e.trig].e.step + 1
  PROVE  ChainOf(k)
  <1>1. \A t \in {"commit", "end"} :
          live(k) \cap Is(k, t) \subseteq (live(l) \cap Is(l, t)) \cup {Len(k)}
    BY LiveIsGrows
  <1>2. live(l) \cap Is(l, "done") = live(k) \cap Is(k, "done")
    BY LiveIsGrows
  <1>3. \A t \in {"commit", "end", "done"} : \A n \in Is(l, t) :
          k[n] = l[n] /\ n \in 1..Len(l) /\ l[n].e \in Firing
    <2>1. \A t \in {"commit", "end", "done"} : \A n \in Is(l, t) :
            n \in 1..Len(l) /\ l[n].e \in Firing
      BY EventFields DEF Is
    <2> QED BY <2>1, IsGrows
  <1>4. k[Len(k)] = x /\ Len(k) = Len(l) + 1 /\ Len(l) \in Nat
    BY DEF Grown
  <1>5. ASSUME NEW j \in 1..(x.e.step - 1)
        PROVE  \E d \in live(l) \cap Is(l, "done") : d < Len(k) /\ l[d].e.step = j
    <2>1. /\ x.e.trig \in live(l) \cap Is(l, "done")
          /\ x.e.step = l[x.e.trig].e.step + 1
      BY <1>5
    <2> DEFINE m == x.e.trig
    <2>2. PICK c \in live(l) \cap Is(l, "commit") : l[c].e = l[m].e
      BY <2>1 DEF Rebuildable, LiveOf
    <2>3. c \in 1..Len(l) /\ m \in 1..Len(l) /\ l[m].e.step \in Nat
      BY <1>3, <2>1, <2>2 DEF Firing
    <2>4. CASE j = l[m].e.step
      BY <1>4, <2>1, <2>3, <2>4
    <2>5. CASE j # l[m].e.step
      <3>a. j \in Nat /\ j >= 1 /\ j <= l[m].e.step
        BY <2>1, <2>3
      <3>1. j \in 1..(l[c].e.step - 1)
        BY <2>2, <2>3, <2>5, <3>a
      <3>2. PICK d \in live(l) \cap Is(l, "done") : d < c /\ l[d].e.step = j
        BY <2>2, <3>1 DEF ChainOf
      <3>3. d \in 1..Len(l)
        BY <1>3, <3>2
      <3> QED BY <1>4, <2>3, <3>2, <3>3
    <2> QED BY <2>4, <2>5
  <1>6. ASSUME NEW n \in live(k) \cap (Is(k, "commit") \cup Is(k, "end")),
               NEW j \in 1..(k[n].e.step - 1)
        PROVE  \E d \in live(k) \cap Is(k, "done") : d < n /\ k[d].e.step = j
    <2>1. CASE n = Len(k)
      BY <1>2, <1>3, <1>4, <1>5, <1>6, <2>1
    <2>2. CASE n # Len(k)
      <3>1. n \in live(l) \cap (Is(l, "commit") \cup Is(l, "end")) /\ k[n] = l[n]
        BY <1>1, <1>3, <1>6, <2>2
      <3>2. PICK d \in live(l) \cap Is(l, "done") : d < n /\ l[d].e.step = j
        BY <1>6, <3>1 DEF ChainOf
      <3> QED BY <1>2, <1>3, <3>2
    <2> QED BY <2>1, <2>2
  <1> QED BY <1>6 DEF ChainOf

\* Gaps are history.
LEMMA GapsGrow ==
  ASSUME [Next]_vars
  PROVE  gaps \subseteq gaps'
  BY DEF Next, Drive, RulePass, Work, WorkerFaults, Restore, ReadLog, Evaluate, CommitRule, Claim,
      Start, WriteFile, Settle, WriteFails, WorkerDies, ExpireLease, Signal, Checkpoint, Plan, Save, ReadHead, Reconcile, ReconcileFails, CommitMarker,
      Rebuild, Killed, vars

\* The tables are the fold of the empty log at the start.
LEMMA InitFresh == Init => Fresh /\ Chained /\ Triggered
<1> SUFFICES ASSUME Init PROVE Fresh /\ Chained /\ Triggered
  OBVIOUS
<1>1. live(log) = {} /\ \A t : LiveOf(log, t) = {}
  BY DEF Init, live, LiveOf, Is
<1> QED BY <1>1 DEF Init, Fresh, Chained, Triggered, Rebuildable, ChainOf

\* A save appends an automatic cut, or ends the restore.
LEMMA SaveAppends ==
  ASSUME TypeOK, Save
  PROVE  \/ log' = log /\ restorer' = None
         \/ /\ log' \in Seq(Events)
            /\ Grown(log, log', CutEntry(auto_before(restorer.plan.cut), fold_file_manifest(log)))
            /\ Running = {}
            /\ restorer' = [restorer EXCEPT !.pc = "saved"]
  <1>1. auto_before(restorer.plan.cut) \in CutNames
    BY DEF auto_before, Restorers, Plans, CutNames, Save, At, TypeOK
  <1> QED BY <1>1, CutAppends DEF Save

\* Every step keeps the tables the fold of the log, but for a restore under way.
LEMMA FreshStep ==
  ASSUME TypeOK, Recorded, Held, Fresh, [Next]_vars
  PROVE  Fresh'
<1>0. gaps \subseteq gaps'
  BY GapsGrow
<1>1. ASSUME restorer' = restorer,
             tab = Fold(log) /\ Rebuildable(log) => tab' = Fold(log') /\ Rebuildable(log')
      PROVE  Fresh'
  BY <1>0, <1>1 DEF Fresh, At
<1>2. CASE CommitRule
  <2>1. SUFFICES ASSUME tab = Fold(log), Rebuildable(log)
                 PROVE  tab' = Fold(log') /\ Rebuildable(log')
    BY <1>1, <1>2 DEF CommitRule
  <2>2. CASE log' = log /\ tab' = tab
    BY <2>1, <2>2
  <2>3. CASE ~(log' = log /\ tab' = tab)
    <3> DEFINE x == Entry(IF rule.step > LastStep THEN "end" ELSE "commit", rule)
    <3>1. /\ Grown(log, log', x)
          /\ \A n \in Is(log, "commit") : log[n].e # rule
      BY <1>2, <2>3, CommitAppends
    <3>2. x.t = (IF rule.step > LastStep THEN "end" ELSE "commit") /\ x.e = rule
      BY DEF Entry
    <3> HIDE DEF x
    <3>3. CASE rule.step > LastStep
      <4>1. tab' = [status |-> "completed", effects |-> tab.effects, facts |-> tab.facts]
        BY <1>2, <2>3, <3>3, TableSteps DEF CommitRule
      <4> QED BY <2>1, <3>1, <3>2, <3>3, <4>1, FoldEnded
    <3>4. CASE ~(rule.step > LastStep)
      <4>1. tab' = [status |-> tab.status, effects |-> WithQueued(tab.effects, rule),
                    facts |-> tab.facts]
        BY <1>2, <2>3, <3>4, TableSteps DEF CommitRule
      <4> QED BY <2>1, <3>1, <3>2, <3>4, <4>1, FoldCommitted
    <3> QED BY <3>3, <3>4
  <2> QED BY <2>2, <2>3
<1>3. CASE Start
  <2>1. SUFFICES ASSUME tab = Fold(log), Rebuildable(log)
                 PROVE  tab' = Fold(log') /\ Rebuildable(log')
    BY <1>1, <1>3 DEF Start
  <2>2. CASE log' = log /\ tab' = tab
    BY <2>1, <2>2
  <2>3. CASE ~(log' = log /\ tab' = tab)
    <3> DEFINE x == Entry("start", worker.e)
    <3>1. /\ Grown(log, log', x)
          /\ worker.e \in DOMAIN tab.effects /\ tab.effects[worker.e] = "queued"
          /\ tab' = [tab EXCEPT !.effects = [@ EXCEPT ![worker.e] = "running"]]
      BY <1>3, <2>3, StartAppends
    <3>2. x.t = "start" /\ x.e = worker.e
      BY DEF Entry
    <3> HIDE DEF x
    <3>3. worker.e \in LiveOf(log, "commit")
      BY <2>1, <3>1, FoldType DEF TypeOK
    <3>4. FoldedEffects(log)[worker.e] = "queued"
      BY <2>1, <3>1 DEF Fold
    <3>5. worker.e \notin LiveOf(log, "done") /\ worker.e \notin LiveOf(log, "failed")
      BY <3>3, <3>4 DEF FoldedEffects
    <3>6. tab' = [status |-> tab.status, effects |-> [tab.effects EXCEPT ![worker.e] = "running"],
                  facts |-> tab.facts]
      BY <3>1, TableSteps
    <3>7. /\ Rebuildable(log')
          /\ Fold(log') = [status |-> Fold(log).status,
                           effects |-> [Fold(log).effects EXCEPT ![worker.e] = "running"],
                           facts |-> Fold(log).facts]
      BY <2>1, <3>1, <3>2, <3>3, <3>5, FoldStarted
    <3> QED BY <2>1, <3>6, <3>7
  <2> QED BY <2>2, <2>3
<1>14. ASSUME tab = Fold(log), NEW e \in Running
       PROVE  e \in LiveOf(log, "commit") /\ e \notin LiveOf(log, "done")
  <2>1. e \in LiveOf(log, "commit") /\ FoldedEffects(log)[e] = "running"
    BY <1>14, FoldType DEF TypeOK, Running, Fold
  <2> QED BY <2>1 DEF FoldedEffects
<1>15. ASSUME tab = Fold(log), Rebuildable(log), NEW e \in Running,
              Grown(log, log', Entry("failed", e)),
              tab' = [status |-> tab.status, effects |-> [tab.effects EXCEPT ![e] = "failed"],
                      facts |-> tab.facts]
       PROVE  tab' = Fold(log') /\ Rebuildable(log')
  <2> DEFINE x == Entry("failed", e)
  <2>1. x.t = "failed" /\ x.e = e /\ Grown(log, log', x)
    BY <1>15 DEF Entry
  <2> HIDE DEF x
  <2> QED BY <1>14, <1>15, <2>1, FoldFailed
<1>4. CASE Settle
  <2>1. SUFFICES ASSUME tab = Fold(log), Rebuildable(log)
                 PROVE  tab' = Fold(log') /\ Rebuildable(log')
    BY <1>1, <1>4 DEF Settle
  <2>2. CASE log' = log /\ tab' = tab
    BY <2>1, <2>2
  <2>3. CASE ~(log' = log /\ tab' = tab) /\ worker.pc = "written"
    <3> DEFINE x == Entry("done", worker.e)
    <3>1. /\ Grown(log, log', x)
          /\ worker.e \in Running
          /\ tab' = [status |-> tab.status,
                     effects |-> [tab.effects EXCEPT ![worker.e] = "completed"],
                     facts |-> tab.facts \cup {Len(log')}]
      BY <1>4, <2>3, SettleAppends
    <3>2. x.t = "done" /\ x.e = worker.e
      BY DEF Entry
    <3> HIDE DEF x
    <3> QED BY <1>14, <2>1, <3>1, <3>2, FoldSettled
  <2>4. CASE ~(log' = log /\ tab' = tab) /\ worker.pc = "refused"
    BY <1>4, <1>15, <2>1, <2>4, SettleAppends
  <2> QED BY <1>4, <2>2, <2>3, <2>4 DEF Settle
<1>16. ASSUME NEW e \in Running, ExpireLease(e) PROVE Fresh'
  <2>1. /\ Grown(log, log', Entry("failed", e)) /\ restorer' = restorer
        /\ tab' = [status |-> tab.status, effects |-> [tab.effects EXCEPT ![e] = "failed"],
                   facts |-> tab.facts]
    BY <1>16, ExpireAppends, TableSteps DEF ExpireLease
  <2> QED BY <1>1, <1>15, <2>1
<1>5. CASE Signal
  <2>1. Grown(log, log', [t |-> "signal"]) /\ tab' = tab /\ restorer' = restorer
    BY <1>5, SignalAppends DEF Signal
  <2>2. [t |-> "signal"].t \in {"cut", "signal"}
    OBVIOUS
  <2> QED BY <1>1, <2>1, <2>2, FoldKept
<1>6. \A cut, manifest : CutEntry(cut, manifest).t \in {"cut", "signal"}
  BY DEF CutEntry
<1>7. CASE Checkpoint
  <2>1. tab' = tab /\ restorer' = restorer
    BY <1>7 DEF Checkpoint
  <2>2. PICK cut \in CutNames : Grown(log, log', CutEntry(cut, fold_file_manifest(log)))
    BY <1>7, CheckpointAppends
  <2>3. Fold(log') = Fold(log) /\ (Rebuildable(log') <=> Rebuildable(log))
    BY <1>6, <2>2, FoldKept
  <2> QED BY <1>1, <2>1, <2>3
<1>8. CASE Save
  <2>1. tab' = tab /\ gaps' = gaps /\ ~At("marked")
    BY <1>8 DEF Save, At
  <2>2. CASE log' = log
    BY <2>1, <2>2 DEF Fresh
  <2>3. CASE Grown(log, log', CutEntry(auto_before(restorer.plan.cut), fold_file_manifest(log)))
    <3>1. Fold(log') = Fold(log) /\ (Rebuildable(log') <=> Rebuildable(log))
      BY <1>6, <2>3, FoldKept
    <3> QED BY <2>1, <3>1 DEF Fresh
  <2> QED BY <1>8, <2>2, <2>3, SaveAppends
<1>9. CASE CommitMarker
  <2>1. CASE HeadUnmoved
    <3>1. restorer \in Restorers /\ restorer' = [restorer EXCEPT !.pc = "marked"]
      BY <1>9, <2>1 DEF CommitMarker, At, TypeOK
    <3>2. restorer' \in Restorers /\ restorer'.pc = "marked"
      BY <3>1 DEF Restorers
    <3> QED BY <3>2, NoneAssumption DEF Fresh, At
  <2>2. CASE ~HeadUnmoved
    <3>1. log' = log /\ tab' = tab /\ ~At("marked")
      BY <1>9, <2>2 DEF CommitMarker, At
    <3> QED BY <1>0, <3>1 DEF Fresh
  <2> QED BY <2>1, <2>2
<1>10. CASE Rebuild
  BY <1>10 DEF Rebuild, Fresh
<1>11. CASE Killed
  <2>1. CASE At("marked")
    <3>1. "stale" \in gaps'
      BY <1>11, <2>1 DEF Killed, At
    <3> QED BY <3>1 DEF Fresh
  <2>2. CASE ~At("marked")
    BY <1>0, <1>11, <2>2 DEF Killed, Fresh
  <2> QED BY <2>1, <2>2
<1>12. CASE log' = log /\ tab' = tab /\ (restorer' = restorer \/ ~At("marked"))
  BY <1>0, <1>12 DEF Fresh, At
<1>13. ReadHead \/ Reconcile \/ ReconcileFails \/ (\E cut \in Cuts : Plan(cut)) => ~At("marked")
  BY DEF ReadHead, Reconcile, ReconcileFails, Plan, At
<1> QED
  BY <1>2, <1>3, <1>4, <1>5, <1>7, <1>8, <1>9, <1>10, <1>11, <1>12, <1>13, <1>16
  DEF Next, Drive, RulePass, Work, WorkerFaults, Restore, ReadLog, Evaluate, Claim, WriteFile,
      WriteFails, WorkerDies, Plan, ReadHead,
      Reconcile, ReconcileFails, vars

\* What could be rebuilt after an event could be before it: an effect that was
\* started has its commit in the log, so that no later commit can be its own.
LEMMA RebuildableBefore ==
  ASSUME Recorded, NEW x, Grown(log, log', x), x.t # "restored", Rebuildable(log'),
         x.t = "commit" => \A n \in Is(log, "commit") : log[n].e # x.e
  PROVE  Rebuildable(log)
  <1> DEFINE attempts(l) == LiveOf(l, "start") \cup LiveOf(l, "done") \cup LiveOf(l, "failed")
  <1>1. attempts(log) \subseteq attempts(log')
    BY LiveOfGrows
  <1>2. CASE x.t # "commit"
    <2>1. LiveOf(log', "commit") = LiveOf(log, "commit")
      BY <1>2, LiveOfGrows
    <2> QED BY <1>1, <2>1 DEF Rebuildable
  <1>3. CASE x.t = "commit"
    <2>1. LiveOf(log', "commit") = LiveOf(log, "commit") \cup {x.e}
      BY <1>3, LiveOfGrows
    <2>2. x.e \notin attempts(log)
      BY <1>3 DEF LiveOf, Recorded
    <2> QED BY <1>1, <2>1, <2>2 DEF Rebuildable
  <1> QED BY <1>2, <1>3

\* Every step keeps the completions that live commits follow.
LEMMA ChainedStep ==
  ASSUME TypeOK, Recorded, Held, Fresh, Chained, Triggered, [Next]_vars
  PROVE  Chained'
<1> SUFFICES ASSUME {"straddled", "stale"} \cap gaps' = {}, Rebuildable(log')
             PROVE  ChainOf(log')
  BY DEF Chained
<1>0. {"straddled", "stale"} \cap gaps = {}
  BY GapsGrow
<1>1. CASE log' = log
  BY <1>0, <1>1 DEF Chained
<1>2. ASSUME NEW x, Grown(log, log', x), x.t \notin {"restored", "commit", "end"}
      PROVE  ChainOf(log')
  <2>1. Rebuildable(log)
    BY <1>2, RebuildableBefore
  <2> QED BY <1>0, <1>2, <2>1, ChainKept DEF Chained
<1>3. CASE CommitRule /\ log' # log
  <2> DEFINE x == Entry(IF rule.step > LastStep THEN "end" ELSE "commit", rule)
  <2>1. /\ Grown(log, log', x)
        /\ \A n \in Is(log, "commit") : log[n].e # rule
    BY <1>3, CommitAppends
  <2>2. x.t \in {"end", "commit"} /\ x.e = rule
    BY DEF Entry
  <2> HIDE DEF x
  <2>3. Rebuildable(log)
    BY <2>1, <2>2, RebuildableBefore
  <2>4. rule.trig \in {0} \cup live(log)
    <3>1. rule # None
      BY <1>3 DEF CommitRule
    <3>2. CASE At("marked")
      <4>1. Straddled \subseteq gaps'
        BY <1>3, <3>2 DEF CommitRule
      <4> QED BY <3>1, <4>1 DEF Straddled
    <3>3. CASE ~At("marked")
      BY <1>0, <3>1, <3>3 DEF Triggered
    <3> QED BY <3>2, <3>3
  <2>5. /\ rule.step \in Nat
        /\ rule.trig = 0 => rule.step = 1
        /\ rule.trig # 0 => rule.trig \in Is(log, "done") /\ rule.step = log[rule.trig].e.step + 1
    BY <1>3 DEF CommitRule, Held, TypeOK, Firing
  <2>6. log \in Seq(Events) /\ ChainOf(log)
    BY <1>0, <2>3 DEF TypeOK, Chained
  <2> QED BY <2>1, <2>2, <2>3, <2>4, <2>5, <2>6, ChainCommitted
<1>4. CASE Start /\ log' # log
  BY <1>2, <1>4, StartAppends DEF Entry
<1>5. CASE Settle /\ log' # log
  BY <1>2, <1>5, SettleAppends DEF Entry
<1>10. ASSUME NEW e \in Running, ExpireLease(e) PROVE ChainOf(log')
  BY <1>2, <1>10, ExpireAppends DEF Entry
<1>6. CASE Signal
  <2>1. [t |-> "signal"].t \notin {"restored", "commit", "end"}
    OBVIOUS
  <2> QED BY <1>2, <1>6, <2>1, SignalAppends
<1>7. CASE Checkpoint
  BY <1>2, <1>7, CheckpointAppends DEF CutEntry
<1>8. CASE Save /\ log' # log
  BY <1>2, <1>8, SaveAppends DEF CutEntry
<1>9. CASE CommitMarker /\ log' # log
  <2> DEFINE x == Marker(restorer.plan.cut, restorer.plan.to)
  <2>1. Grown(log, log', x)
    BY <1>9, MarkerAppends DEF CommitMarker
  <2>2. x.t = "restored" /\ x.to = restorer.plan.to /\ restorer.plan.to \in Nat
    BY <1>9 DEF Marker, CommitMarker, At, TypeOK, Restorers, Plans
  <2> HIDE DEF x
  <2>3. Rebuildable(log)
    BY <1>0, <1>9 DEF Fresh, CommitMarker, At
  <2>4. log \in Seq(Events) /\ ChainOf(log)
    BY <1>0, <2>3 DEF TypeOK, Chained
  <2> QED BY <2>1, <2>2, <2>4, ChainDropped
<1> QED
  BY <1>1, <1>3, <1>4, <1>5, <1>6, <1>7, <1>8, <1>9, <1>10
  DEF Next, Drive, RulePass, Work, WorkerFaults, Restore, ReadLog, Evaluate, Claim, WriteFile,
      WriteFails, WorkerDies, Plan, ReadHead, Reconcile, ReconcileFails, Rebuild, Killed, vars

\* A firing is evaluated from facts that are live, and what drops one of them
\* leaves the restore between its marker and its rebuild.
LEMMA TriggeredStep ==
  ASSUME TypeOK, Fresh, Triggered, [Next]_vars
  PROVE  Triggered'
<1> SUFFICES ASSUME {"straddled", "stale"} \cap gaps' = {}, ~At("marked")', rule' # None
             PROVE  rule'.trig \in {0} \cup live(log')
  BY DEF Triggered
<1>0. {"straddled", "stale"} \cap gaps = {}
  BY GapsGrow
<1>1. ASSUME log' = log, rule' = rule, ~At("marked") PROVE rule'.trig \in {0} \cup live(log')
  BY <1>0, <1>1 DEF Triggered
<1>2. ASSUME NEW x, Grown(log, log', x), x.t # "restored", rule' = rule, ~At("marked")
      PROVE  rule'.trig \in {0} \cup live(log')
  BY <1>0, <1>2, LiveGrows DEF Triggered
<1>3. CASE Evaluate
  <2>1. ~At("marked") /\ log' = log /\ tab' = tab /\ seen # None
    BY <1>3 DEF Evaluate, At
  <2>2. tab.facts \subseteq live(log)
    BY <1>0, <2>1 DEF Fresh, Fold
  <2>3. CASE rule' = rule
    BY <1>1, <2>1, <2>3
  <2>4. CASE rule' \in Firings(SubSeq(log, 1, seen))
    BY <2>1, <2>2, <2>4, FiringFound
  <2> QED BY <1>3, <2>3, <2>4 DEF Evaluate
<1>4. CASE CommitRule
  BY <1>4 DEF CommitRule
<1>5. CASE Start
  <2>1. ~At("marked") /\ rule' = rule
    BY <1>5 DEF Start, At
  <2> QED BY <1>1, <1>2, <1>5, <2>1, StartAppends DEF Entry
<1>6. CASE Settle
  <2>1. ~At("marked") /\ rule' = rule
    BY <1>6 DEF Settle, At
  <2> QED BY <1>1, <1>2, <1>6, <2>1, SettleAppends DEF Entry
<1>7. ASSUME NEW e \in Running, ExpireLease(e) PROVE rule'.trig \in {0} \cup live(log')
  <2>1. ~At("marked") /\ rule' = rule
    BY <1>7 DEF ExpireLease, At
  <2> QED BY <1>2, <1>7, <2>1, ExpireAppends DEF Entry
<1>8. CASE Signal
  <2>1. ~At("marked") /\ rule' = rule /\ [t |-> "signal"].t # "restored"
    BY <1>8 DEF Signal, At
  <2> QED BY <1>2, <1>8, <2>1, SignalAppends
<1>9. CASE Checkpoint
  <2>1. ~At("marked") /\ rule' = rule
    BY <1>9 DEF Checkpoint, At
  <2> QED BY <1>2, <1>9, <2>1, CheckpointAppends DEF CutEntry
<1>10. CASE Save
  <2>1. ~At("marked") /\ rule' = rule
    BY <1>10 DEF Save, At
  <2> QED BY <1>1, <1>2, <1>10, <2>1, SaveAppends DEF CutEntry
<1>11. CASE CommitMarker
  <2>1. CASE HeadUnmoved
    <3>1. restorer \in Restorers /\ restorer' = [restorer EXCEPT !.pc = "marked"]
      BY <1>11, <2>1 DEF CommitMarker, At, TypeOK
    <3>2. restorer' \in Restorers /\ restorer'.pc = "marked"
      BY <3>1 DEF Restorers
    <3> QED BY <3>2, NoneAssumption DEF At
  <2>2. CASE ~HeadUnmoved
    <3>1. log' = log /\ rule' = rule /\ ~At("marked")
      BY <1>11, <2>2 DEF CommitMarker, At
    <3> QED BY <1>1, <3>1
  <2> QED BY <2>1, <2>2
<1>12. CASE Rebuild
  <2>1. log' = log /\ rule' = rule /\ Straddled \subseteq gaps'
    BY <1>12 DEF Rebuild
  <2> QED BY <2>1 DEF Straddled
<1>13. CASE Killed
  <2>1. log' = log /\ rule' = rule
    BY <1>13 DEF Killed
  <2>2. ~At("marked")
    BY <1>13 DEF Killed, At
  <2> QED BY <1>1, <2>1, <2>2
<1>14. CASE log' = log /\ rule' = rule /\ restorer' = restorer
  BY <1>1, <1>14 DEF At
<1>15. CASE ReadHead \/ Reconcile \/ ReconcileFails \/ (\E cut \in Cuts : Plan(cut))
  <2>1. log' = log /\ rule' = rule /\ ~At("marked")
    BY <1>15 DEF ReadHead, Reconcile, ReconcileFails, Plan, At
  <2> QED BY <1>1, <2>1
<1> QED
  BY <1>3, <1>4, <1>5, <1>6, <1>7, <1>8, <1>9, <1>10, <1>11, <1>12, <1>13, <1>14, <1>15
  DEF Next, Drive, RulePass, Work, WorkerFaults, Restore, ReadLog, Claim, WriteFile, WriteFails,
      WorkerDies, vars

Timeline == TypeOK /\ Recorded /\ Held /\ Fresh /\ Chained /\ Triggered

\* The layers about the log, together.
LEMMA TimelineInvariant == Spec => []Timeline
<1>1. Init => Timeline
  BY InitTypes, InitRecorded, InitFresh DEF Timeline
<1>2. Timeline /\ [Next]_vars => Timeline'
  BY TypeStep, RecordedStep, FreshStep, ChainedStep, TriggeredStep DEF Timeline
<1> QED BY <1>1, <1>2, PTL DEF Spec

\* However an instance was restored and driven on, the timeline of a live end
\* holds a completion of every step, by an effect committed in that timeline
\* (Evaluate, CommitRule, CommitMarker, Rebuild).
THEOREM TimelineIsWhole == Spec => []TimelineWhole
<1>1. Timeline => TimelineWhole
  <2> SUFFICES ASSUME Timeline, gaps \cap {"straddled", "stale"} = {}, ~At("marked"),
                      live(log) \cap Is(log, "end") # {}, NEW k \in Steps
               PROVE  \E e \in LiveOf(log, "commit") \cap LiveOf(log, "done") : e.step = k
    BY DEF TimelineWhole
  <2>1. Rebuildable(log) /\ ChainOf(log)
    BY DEF Timeline, Fresh, Chained
  <2>2. PICK n \in live(log) \cap Is(log, "end") : TRUE
    OBVIOUS
  <2>3. log[n].e.step > LastStep /\ log[n].e.step \in Nat /\ LastStep \in Nat
    BY <2>2, EventFields DEF Timeline, Recorded, TypeOK, Is, Firing, LastStep, Bounds
  <2>4. k \in 1..(log[n].e.step - 1)
    BY <2>3 DEF Steps
  <2>5. PICK d \in live(log) \cap Is(log, "done") : log[d].e.step = k
    BY <2>1, <2>2, <2>4 DEF ChainOf
  <2>6. log[d].e \in LiveOf(log, "done")
    BY <2>5 DEF LiveOf
  <2> QED BY <2>1, <2>5, <2>6 DEF Rebuildable
<1> QED BY <1>1, TimelineInvariant, PTL

\* A step drops an event from the live timeline only by committing a marker, and
\* then only one that was in the log when the restore read its head: no signal,
\* commit or completion admitted since is truncated away (CommitMarker).
THEOREM NothingIsDroppedUnseen == Spec => NothingUnseenDropped
<1>1. TypeOK /\ [Next]_vars =>
        [\A n \in live(log) \ live(log') : At("reconciled") /\ n <= restorer.head]_vars
  BY DroppedStep
<1> QED BY <1>1, RestoreTypeCorrect, PTL DEF Spec, NothingUnseenDropped

-----------------------------------------------------------------------------
(* Files and facts.                                                        *)

\* A cut records the file plane of its moment.
CutsAreTrue == \A c \in Is(log, "cut") : log[c].manifest = ManifestBefore(log, c)

\* No restore left files and facts apart, and no write its record.
Clean == gaps \cap {"torn", "moved", "orphaned", "unrecorded"} = {}

InRun == worker # None /\ worker.pc # "claimed"

\* A run under way is running in the tables and live in the log, and has not
\* failed: a restore that would drop it is refused, or moves the log.
RunsSeen ==
    Clean /\ InRun => /\ worker.e \in Running /\ worker.e \in LiveOf(log, "start")
                      /\ \A n \in Is(log, "failed") : log[n].e # worker.e

\* The file plane of the facts, with what a run wrote and has not settled.
Expected ==
    [p \in Paths |->
        IF worker # None /\ worker.pc = "written" /\ p = PathOf[worker.e.step]
        THEN worker.e ELSE fold_file_manifest(log)[p]]

Described(m) == \A p \in Paths : Describes(m[p], disk[p])

DiskAsExpected == Clean /\ ~At("reconciled") => Described(Expected)

\* The plan removes what the facts have now and the cut has not.
Removal ==
    restorer.plan.removes =
        {p \in Paths : fold_file_manifest(log)[p] # None /\ restorer.plan.writes[p] = None}

\* A plan is of a cut in the log.  It is up to date, and no run is under way,
\* for as long as nothing but the automatic cut was appended since; and then the
\* reconcile makes the file plane the cut's.
Planned ==
    restorer # None =>
        /\ restorer.plan.to \in Is(log, "cut")
        /\ restorer.plan.writes = log[restorer.plan.to].manifest
        /\ restorer.pc = "planned" => /\ restorer.plan.at <= Len(log)
                                      /\ Len(log) = restorer.plan.at => Removal
        /\ restorer.pc \in {"saved", "headed", "reconciled"} =>
              /\ restorer.plan.at + 1 <= Len(log)
              /\ Len(log) = restorer.plan.at + 1 => Removal /\ (Clean => ~InRun)
        /\ restorer.pc = "reconciled" /\ Clean /\ Len(log) = restorer.plan.at + 1 =>
              Described(restorer.plan.writes)

\* No cut, run, file or plan at the start.
LEMMA InitPlanes == Init => CutsAreTrue /\ RunsSeen /\ DiskAsExpected /\ Planned
<1> SUFFICES ASSUME Init PROVE CutsAreTrue /\ RunsSeen /\ DiskAsExpected /\ Planned
  OBVIOUS
<1>1. \A t : Is(log, t) = {}
  BY DEF Init, Is
<1>2. fold_file_manifest(log) = [p \in Paths |-> None]
  BY <1>1 DEF fold_file_manifest
<1> QED BY <1>1, <1>2
  DEF Init, CutsAreTrue, RunsSeen, InRun, DiskAsExpected, Described, Describes, Expected, Planned

\* A file that holds one body is described by its entry.
LEMMA SingleDescribed ==
  ASSUME NEW e \in Firing
  PROVE  Describes(e, <<e>>)
<1>1. e # None
  BY NoneAssumption
<1>2. <<e>> # <<>> /\ Len(<<e>>) = 1 /\ <<e>>[1] = e
  OBVIOUS
<1> QED BY <1>1, <1>2 DEF Describes, Absent

\* A write leaves the file its entry describes.
LEMMA WrittenDescribed ==
  ASSUME NEW e \in Firing, NEW body \in Bodies
  PROVE  Describes(e, Written(ModeOf[e.step], body, e))
<1>1. e # None
  BY NoneAssumption
<1>2. CASE ModeOf[e.step] = "append"
  <2>1. /\ Len(Append(body, e)) = Len(body) + 1
        /\ Append(body, e)[Len(body) + 1] = e
        /\ Len(body) \in Nat
    BY AppendProperties, LenProperties DEF Bodies
  <2>2. Len(<<>>) = 0
    OBVIOUS
  <2>3. Append(body, e) # <<>>
    BY <2>1, <2>2
  <2> QED BY <1>1, <1>2, <2>1, <2>3 DEF Describes, Written, Absent
<1>3. CASE ModeOf[e.step] # "append"
  BY <1>3, SingleDescribed DEF Written
<1> QED BY <1>2, <1>3

\* What each operation appends, as far as files are concerned.
LEMMA LogStep ==
  ASSUME TypeOK, [Next]_vars
  PROVE  \/ log' = log
         \/ \E x : /\ Grown(log, log', x)
                   /\ x.t = "cut" => x.manifest = fold_file_manifest(log)
                   /\ x.t = "restored" => CommitMarker
                   /\ x.t = "done" => Settle /\ worker.pc = "written"
<1> DEFINE Appends(x) ==
      /\ Grown(log, log', x)
      /\ x.t = "cut" => x.manifest = fold_file_manifest(log)
      /\ x.t = "restored" => CommitMarker
      /\ x.t = "done" => Settle /\ worker.pc = "written"
<1>1. CASE CommitRule /\ log' # log
  <2>1. Appends(Entry(IF rule.step > LastStep THEN "end" ELSE "commit", rule))
    BY <1>1, CommitAppends DEF Entry
  <2> QED BY <2>1
<1>2. CASE Start /\ log' # log
  <2>1. Appends(Entry("start", worker.e))
    BY <1>2, StartAppends DEF Entry
  <2> QED BY <2>1
<1>3. CASE Settle /\ log' # log
  <2>1. Appends(Entry("done", worker.e)) \/ Appends(Entry("failed", worker.e))
    BY <1>3, SettleAppends DEF Entry
  <2> QED BY <2>1
<1>8. ASSUME NEW e \in Running, ExpireLease(e) PROVE \E x : Appends(x)
  <2>1. Appends(Entry("failed", e))
    BY <1>8, ExpireAppends DEF Entry
  <2> QED BY <2>1
<1>4. CASE Signal
  <2>1. Appends([t |-> "signal"])
    BY <1>4, SignalAppends
  <2> QED BY <2>1
<1>5. CASE Checkpoint
  <2>1. PICK cut : Grown(log, log', CutEntry(cut, fold_file_manifest(log)))
    BY <1>5, CheckpointAppends
  <2>2. Appends(CutEntry(cut, fold_file_manifest(log)))
    BY <2>1 DEF CutEntry
  <2> QED BY <2>2
<1>6. CASE Save /\ log' # log
  <2>1. Appends(CutEntry(auto_before(restorer.plan.cut), fold_file_manifest(log)))
    BY <1>6, SaveAppends DEF CutEntry
  <2> QED BY <2>1
<1>7. CASE CommitMarker /\ log' # log
  <2>1. Appends(Marker(restorer.plan.cut, restorer.plan.to))
    BY <1>7, MarkerAppends DEF CommitMarker, Marker
  <2> QED BY <2>1
<1> QED
  BY <1>1, <1>2, <1>3, <1>4, <1>5, <1>6, <1>7, <1>8
  DEF Next, Drive, RulePass, Work, WorkerFaults, Restore, ReadLog, Evaluate, Claim, WriteFile,
      WriteFails, WorkerDies, Plan, ReadHead, Reconcile, ReconcileFails, Rebuild, Killed, vars

\* A cut goes on recording the file plane of its moment.
LEMMA CutsStep ==
  ASSUME TypeOK, CutsAreTrue, [Next]_vars
  PROVE  CutsAreTrue'
<1>1. CASE log' = log
  BY <1>1 DEF CutsAreTrue
<1>2. CASE log' # log
  <2>1. PICK x : Grown(log, log', x) /\ (x.t = "cut" => x.manifest = fold_file_manifest(log))
    BY <1>2, LogStep
  <2>2. /\ ManifestBefore(log', Len(log')) = fold_file_manifest(log)
        /\ \A c \in 1..Len(log) : ManifestBefore(log', c) = ManifestBefore(log, c)
    BY <2>1, ManifestAtEnd
  <2>3. /\ Is(log', "cut") = IF x.t = "cut" THEN Is(log, "cut") \cup {Len(log')} ELSE Is(log, "cut")
        /\ Is(log, "cut") \subseteq 1..Len(log)
        /\ \A n \in Is(log, "cut") : log'[n] = log[n]
    BY <2>1, IsGrows
  <2>4. log'[Len(log')] = x
    BY <2>1 DEF Grown
  <2> QED BY <2>1, <2>2, <2>3, <2>4 DEF CutsAreTrue
<1> QED BY <1>1, <1>2

\* A marker that leaves nothing apart comes right after the automatic cut of
\* its plan, so that nothing was written or started in between.
LEMMA CleanMarker ==
  ASSUME TypeOK, Planned, CommitMarker, Clean'
  PROVE  /\ HeadUnmoved /\ Clean /\ ~InRun /\ Described(restorer.plan.writes)
         /\ restorer.plan.to \in live(log) /\ restorer.plan.to \in Is(log, "cut")
         /\ restorer.plan.writes = log[restorer.plan.to].manifest
         /\ restorer \in Restorers
  <1>1. HeadUnmoved
    BY DEF CommitMarker, Clean
  <1>2. gaps' = gaps \cup MarkerGaps(log')
    BY <1>1 DEF CommitMarker
  <1>3. Clean /\ "moved" \notin MarkerGaps(log') /\ "orphaned" \notin MarkerGaps(log')
    BY <1>2 DEF Clean
  <1>4. restorer.head = restorer.plan.at + 1
    BY <1>3 DEF MarkerGaps
  <1>5. restorer.plan.to \in live(log)
    BY <1>3 DEF MarkerGaps
  <1>6. Len(log) = restorer.plan.at + 1
    BY <1>1, <1>4 DEF HeadUnmoved
  <1>7. restorer # None /\ restorer.pc = "reconciled" /\ restorer \in Restorers
    BY DEF CommitMarker, At, TypeOK
  <1> QED BY <1>1, <1>3, <1>5, <1>6, <1>7 DEF Planned

\* An event that is neither a failure nor a marker leaves a live run live.
LEMMA RunsKept ==
  ASSUME RunsSeen, Clean' => Clean, NEW x, Grown(log, log', x), x.t # "restored",
         x.t = "failed" => (InRun => x.e # worker.e),
         worker' = worker, worker.e \in Running => worker.e \in Running'
  PROVE  RunsSeen'
  <1>1. LiveOf(log, "start") \subseteq LiveOf(log', "start")
    BY LiveOfGrows
  <1>2. /\ Is(log', "failed") = IF x.t = "failed" THEN Is(log, "failed") \cup {Len(log')}
                                ELSE Is(log, "failed")
        /\ \A n \in Is(log, "failed") : log'[n] = log[n]
        /\ log'[Len(log')] = x
    BY IsGrows DEF Grown
  <1>3. (InRun /\ \A n \in Is(log, "failed") : log[n].e # worker.e) =>
          \A n \in Is(log', "failed") : log'[n].e # worker.e
    BY <1>2
  <1> QED BY <1>1, <1>3 DEF RunsSeen, InRun

\* A run under way stays running in the tables and live in the log.
LEMMA RunsStep ==
  ASSUME TypeOK, Recorded, Held, RunsSeen, Planned, [Next]_vars
  PROVE  RunsSeen'
<1>0. Clean' => Clean
  BY GapsGrow DEF Clean
<1>1. CASE CommitRule
  <2>0. worker' = worker
    BY <1>1 DEF CommitRule
  <2>1. CASE log' = log /\ tab' = tab
    BY <1>0, <2>0, <2>1 DEF RunsSeen, InRun, Running
  <2>2. CASE ~(log' = log /\ tab' = tab)
    <3> DEFINE x == Entry(IF rule.step > LastStep THEN "end" ELSE "commit", rule)
    <3>1. /\ Grown(log, log', x)
          /\ \A n \in Is(log, "commit") : log[n].e # rule
      BY <1>1, <2>2, CommitAppends
    <3>2. x.t # "restored" /\ x.t # "failed"
      BY DEF Entry
    <3> HIDE DEF x
    <3>3. SUFFICES ASSUME worker # None, worker.e \in Running PROVE worker.e \in Running'
      <4>1. worker = None => RunsSeen'
        BY <2>0 DEF RunsSeen, InRun
      <4> QED BY <1>0, <2>0, <3>1, <3>2, <3>3, <4>1, RunsKept
    <3>4. worker.e # rule
      BY <3>1, <3>3 DEF Held
    <3>5. \/ tab' = [status |-> "completed", effects |-> tab.effects, facts |-> tab.facts]
          \/ tab' = [status |-> tab.status, effects |-> WithQueued(tab.effects, rule),
                     facts |-> tab.facts]
      BY <1>1, <2>2, TableSteps DEF CommitRule
    <3>6. worker.e \in DOMAIN tab.effects /\ tab.effects[worker.e] = "running"
      BY <3>3 DEF Running
    <3>7. /\ worker.e \in DOMAIN WithQueued(tab.effects, rule)
          /\ WithQueued(tab.effects, rule)[worker.e] = "running"
      BY <3>4, <3>6 DEF WithQueued
    <3>8. worker.e \in DOMAIN tab'.effects /\ tab'.effects[worker.e] = "running"
      BY <3>5, <3>6, <3>7
    <3> QED BY <2>0, <3>8 DEF Running
  <2> QED BY <2>1, <2>2
<1>2. CASE Start
  <2>1. CASE worker' = None
    BY <2>1 DEF RunsSeen, InRun
  <2>2. CASE worker' # None
    <3>1. /\ Grown(log, log', Entry("start", worker.e))
          /\ worker.e \in DOMAIN tab.effects
          /\ tab' = [tab EXCEPT !.effects = [@ EXCEPT ![worker.e] = "running"]]
          /\ worker' = [worker EXCEPT !.pc = "started"]
          /\ \A n \in Is(log, "start") : log[n].e # worker.e
      BY <1>2, <2>2, StartAppends
    <3>6. \A n \in Is(log', "failed") : log'[n].e # worker.e
      <4>1. /\ Is(log', "failed") = Is(log, "failed")
            /\ \A n \in Is(log, "failed") : log'[n] = log[n]
        BY <3>1, IsGrows DEF Entry
      <4> QED BY <3>1, <4>1 DEF Recorded
    <3>2. worker'.e = worker.e
      BY <1>2, <3>1 DEF TypeOK, Workers, Start
    <3>3. worker.e \in LiveOf(log', "start")
      BY <3>1, LiveOfGrows DEF Entry
    <3>4. tab' = [status |-> tab.status, effects |-> [tab.effects EXCEPT ![worker.e] = "running"],
                  facts |-> tab.facts]
      BY <3>1, TableSteps
    <3>5. worker.e \in DOMAIN tab'.effects /\ tab'.effects[worker.e] = "running"
      BY <3>1, <3>4
    <3> QED BY <3>2, <3>3, <3>5, <3>6 DEF RunsSeen, Running
  <2> QED BY <2>1, <2>2
<1>3. CASE WriteFile \/ WriteFails
  <2>1. worker'.e = worker.e /\ InRun /\ log' = log /\ tab' = tab
    BY <1>3 DEF WriteFile, WriteFails, TypeOK, Workers, InRun
  <2> QED BY <1>0, <2>1 DEF RunsSeen, Running, Is
<1>9. CASE WorkerDies
  BY <1>9 DEF WorkerDies, RunsSeen, InRun
<1>10. ASSUME NEW e \in Running, ExpireLease(e) PROVE RunsSeen'
  <2>1. /\ Grown(log, log', Entry("failed", e)) /\ worker' = worker
        /\ tab' = [status |-> tab.status, effects |-> [tab.effects EXCEPT ![e] = "failed"],
                   facts |-> tab.facts]
    BY <1>10, ExpireAppends, TableSteps DEF ExpireLease
  <2>2. CASE worker # None /\ worker.e = e
    <3>1. "unrecorded" \in gaps'
      BY <1>10, <2>2 DEF ExpireLease
    <3> QED BY <3>1 DEF RunsSeen, Clean
  <2>3. CASE worker = None
    BY <2>1, <2>3 DEF RunsSeen, InRun
  <2>4. CASE worker # None /\ worker.e # e
    <3>1. worker.e \in Running => worker.e \in Running'
      BY <2>1, <2>4 DEF Running
    <3>2. Entry("failed", e).t = "failed" /\ Entry("failed", e).e = e
      BY DEF Entry
    <3> QED BY <1>0, <2>1, <2>4, <3>1, <3>2, RunsKept
  <2> QED BY <2>2, <2>3, <2>4
<1>4. CASE Settle
  BY <1>4 DEF Settle, RunsSeen, InRun
<1>5. ASSUME NEW e \in DOMAIN tab.effects, Claim(e) PROVE RunsSeen'
  BY <1>5 DEF Claim, RunsSeen, InRun
<1>6. CASE CommitMarker
  <2>1. CASE Clean'
    BY <1>6, <2>1, CleanMarker DEF CommitMarker, RunsSeen, InRun
  <2> QED BY <2>1 DEF RunsSeen
<1>7. CASE Rebuild
  <2>1. log' = log /\ worker' = worker
    BY <1>7 DEF Rebuild
  <2>2. CASE tab' = tab
    BY <1>0, <2>1, <2>2 DEF RunsSeen, InRun, Running
  <2>3. CASE tab' = Fold(log) /\ Rebuildable(log)
    <3>1. SUFFICES ASSUME Clean', InRun, worker.e \in LiveOf(log, "start")
                   PROVE  worker.e \in Running'
      BY <1>0, <2>1 DEF RunsSeen, InRun
    <3>2. worker.e \in LiveOf(log, "commit")
      BY <2>3, <3>1 DEF Rebuildable
    <3>a. Clean
      BY <1>0, <3>1
    <3>3. worker.e \notin LiveOf(log, "done") /\ worker.e \notin LiveOf(log, "failed")
      BY <3>1, <3>a DEF Held, InRun, LiveOf, RunsSeen
    <3>4. worker.e \in DOMAIN FoldedEffects(log) /\ FoldedEffects(log)[worker.e] = "running"
      BY <3>1, <3>2, <3>3 DEF FoldedEffects
    <3>5. tab'.effects = FoldedEffects(log)
      BY <2>3 DEF Fold
    <3> QED BY <2>1, <3>4, <3>5 DEF Running
  <2> QED BY <1>7, <2>2, <2>3 DEF Rebuild
<1>8. CASE /\ tab' = tab /\ worker' = worker
           /\ log' = log \/ \E x : Grown(log, log', x) /\ x.t \notin {"restored", "failed"}
  <2>1. CASE log' = log
    BY <1>0, <1>8, <2>1 DEF RunsSeen, InRun, Running
  <2>2. CASE log' # log
    <3>1. PICK x : Grown(log, log', x) /\ x.t \notin {"restored", "failed"}
      BY <1>8, <2>2
    <3>2. worker.e \in Running => worker.e \in Running'
      BY <1>8 DEF Running
    <3> QED BY <1>0, <1>8, <3>1, <3>2, RunsKept
  <2> QED BY <2>1, <2>2
<1>11. CASE Signal \/ Checkpoint \/ Save
  <2>1. tab' = tab /\ worker' = worker
    BY <1>11 DEF Signal, Checkpoint, Save
  <2>2. [t |-> "signal"].t = "signal" /\ \A cut, manifest : CutEntry(cut, manifest).t = "cut"
    BY DEF CutEntry
  <2>3. log' = log \/ \E x : Grown(log, log', x) /\ x.t \notin {"restored", "failed"}
    BY <1>11, <2>2, SignalAppends, CheckpointAppends, SaveAppends
  <2> QED BY <1>8, <2>1, <2>3
<1> QED
  BY <1>1, <1>2, <1>3, <1>4, <1>5, <1>6, <1>7, <1>8, <1>9, <1>10, <1>11
  DEF Next, Drive, RulePass, Work, WorkerFaults, Restore, ReadLog, Evaluate, Plan, ReadHead,
      Reconcile, ReconcileFails, Killed, vars

\* The file plane stays that of the facts, but for a run or a restore under way.
LEMMA DiskStep ==
  ASSUME TypeOK, CutsAreTrue, RunsSeen, DiskAsExpected, Planned, [Next]_vars
  PROVE  DiskAsExpected'
<1>0. Clean' => Clean
  BY GapsGrow DEF Clean
<1>1. ASSUME ~CommitMarker, ~Settle \/ worker.pc # "written"
      PROVE  fold_file_manifest(log') = fold_file_manifest(log)
  <2>1. CASE log' = log
    BY <2>1
  <2>2. CASE log' # log
    BY <1>1, <2>2, LogStep, ManifestKept
  <2> QED BY <2>1, <2>2
<1>2. CASE CommitMarker
  <2> SUFFICES ASSUME Clean' PROVE Described(Expected)'
    BY DEF DiskAsExpected
  <2>1. /\ HeadUnmoved /\ ~InRun /\ Described(restorer.plan.writes)
        /\ restorer.plan.to \in live(log) /\ restorer.plan.to \in Is(log, "cut")
        /\ restorer.plan.writes = log[restorer.plan.to].manifest
        /\ restorer \in Restorers
    BY <1>2, CleanMarker
  <2> DEFINE x == Marker(restorer.plan.cut, restorer.plan.to)
  <2>2. Grown(log, log', x)
    BY <1>2, <2>1, MarkerAppends
  <2>3. x.t = "restored" /\ x.to = restorer.plan.to
    BY DEF Marker
  <2> HIDE DEF x
  <2>4. log[restorer.plan.to].t = "cut" /\ log \in Seq(Events)
    BY <2>1 DEF Is, TypeOK
  <2>5. fold_file_manifest(log') = ManifestBefore(log, restorer.plan.to)
    BY <2>1, <2>2, <2>3, <2>4, ManifestRestored
  <2>6. Described(fold_file_manifest(log'))
    BY <2>1, <2>5 DEF CutsAreTrue
  <2>8. disk' = disk /\ worker' = worker /\ ~(worker # None /\ worker.pc = "written")
    BY <1>2, <2>1 DEF CommitMarker, InRun
  <2> QED BY <2>6, <2>8 DEF Expected, Described
<1>3. CASE Settle /\ worker.pc = "written"
  <2> SUFFICES ASSUME Clean', ~At("reconciled")' PROVE Described(Expected)'
    BY DEF DiskAsExpected
  <2>1. /\ disk' = disk /\ worker' = None /\ worker # None /\ worker.pc = "written"
        /\ restorer' = restorer
    BY <1>3 DEF Settle
  <2>2. worker.e \in Running
    BY <1>0, <2>1 DEF RunsSeen, InRun
  <2>3. Grown(log, log', Entry("done", worker.e))
    BY <1>3, <2>2, SettleAppends
  <2>4. fold_file_manifest(log') =
          [p \in Paths |-> IF p = PathOf[worker.e.step] THEN worker.e
                           ELSE fold_file_manifest(log)[p]]
    <3>1. Entry("done", worker.e).t = "done" /\ Entry("done", worker.e).e = worker.e
      BY DEF Entry
    <3> QED BY <2>3, <3>1, ManifestWritten
  <2>5. ~At("reconciled")
    BY <2>1 DEF At
  <2>6. Described(Expected)
    BY <1>0, <2>5 DEF DiskAsExpected
  <2>7. \A p \in Paths : Expected[p] = fold_file_manifest(log')[p]
    BY <2>1, <2>4 DEF Expected
  <2>8. \A p \in Paths : Expected'[p] = fold_file_manifest(log')[p]
    BY <2>1 DEF Expected
  <2> QED BY <2>1, <2>6, <2>7, <2>8 DEF Described
<1>13. CASE Settle /\ worker.pc # "written"
  <2>1. disk' = disk /\ worker' = None /\ restorer' = restorer /\ ~CommitMarker
    BY <1>13 DEF Settle, CommitMarker
  <2>2. fold_file_manifest(log') = fold_file_manifest(log)
    BY <1>1, <1>13, <2>1
  <2> QED BY <1>0, <1>13, <2>1, <2>2 DEF DiskAsExpected, Described, Expected, At
<1>4. CASE WriteFile
  <2> SUFFICES ASSUME Clean', ~At("reconciled")' PROVE Described(Expected)'
    BY DEF DiskAsExpected
  <2> DEFINE path == PathOf[worker.e.step]
             mode == ModeOf[worker.e.step]
  <2>1. /\ worker # None /\ worker.pc = "started" /\ log' = log /\ restorer' = restorer
        /\ \/ /\ disk' = [disk EXCEPT ![path] = Written(mode, @, worker.e)]
              /\ worker' = [worker EXCEPT !.pc = "written"]
           \/ /\ disk' = disk
              /\ worker' = [worker EXCEPT !.pc = "refused"]
    BY <1>4 DEF WriteFile
  <2>2. worker \in Workers /\ worker.e \in Firing
    BY <2>1 DEF TypeOK, Workers
  <2>4. Described(Expected)
    BY <1>0, <2>1 DEF DiskAsExpected, At
  <2>5. \A p \in Paths : Describes(fold_file_manifest(log)[p], disk[p])
    BY <2>1, <2>4 DEF Expected, Described
  <2>6. CASE /\ disk' = [disk EXCEPT ![path] = Written(mode, @, worker.e)]
             /\ worker' = [worker EXCEPT !.pc = "written"]
    <3>1. worker' \in Workers /\ worker'.pc = "written" /\ worker'.e = worker.e
      BY <2>2, <2>6 DEF Workers
    <3>2. worker' # None
      BY <3>1, NoneAssumption
    <3>3. disk \in [Paths -> Bodies]
      BY DEF TypeOK
    <3>4. ASSUME NEW p \in Paths PROVE Describes(Expected'[p], disk'[p])
      <4>1. CASE p = path
        <5>1. Expected'[p] = worker.e
          BY <3>1, <3>2, <4>1 DEF Expected
        <5>2. disk'[p] = Written(mode, disk[p], worker.e)
          BY <2>6, <3>3, <4>1
        <5> QED BY <2>2, <3>3, <5>1, <5>2, WrittenDescribed
      <4>2. CASE p # path
        <5>1. Expected'[p] = fold_file_manifest(log)[p]
          BY <2>1, <3>1, <4>2 DEF Expected
        <5>2. disk'[p] = disk[p]
          BY <2>6, <3>3, <4>2
        <5> QED BY <2>5, <5>1, <5>2
      <4> QED BY <4>1, <4>2
    <3> QED BY <3>4 DEF Described
  <2>7. CASE disk' = disk /\ worker' = [worker EXCEPT !.pc = "refused"]
    <3>1. worker'.pc = "refused"
      BY <2>2, <2>7 DEF Workers
    <3> QED BY <2>1, <2>5, <2>7, <3>1 DEF Expected, Described
  <2> QED BY <2>1, <2>6, <2>7
<1>14. CASE WriteFails
  <2>1. /\ worker # None /\ worker.pc = "started" /\ log' = log /\ restorer' = restorer
        /\ disk' = disk \/ "unrecorded" \in gaps'
        /\ worker' = [worker EXCEPT !.pc = "refused"]
    BY <1>14 DEF WriteFails
  <2>2. worker'.pc = "refused"
    BY <2>1 DEF TypeOK, Workers
  <2>3. CASE "unrecorded" \in gaps'
    BY <2>3 DEF DiskAsExpected, Clean
  <2>4. CASE disk' = disk
    BY <1>0, <2>1, <2>2, <2>4 DEF DiskAsExpected, Described, Expected, At
  <2> QED BY <2>1, <2>3, <2>4
<1>15. CASE WorkerDies
  <2>1. /\ disk' = disk /\ log' = log /\ restorer' = restorer /\ worker' = None
        /\ worker.pc = "written" => "unrecorded" \in gaps'
    BY <1>15 DEF WorkerDies
  <2>2. CASE worker.pc = "written"
    BY <2>1, <2>2 DEF DiskAsExpected, Clean
  <2>3. CASE worker.pc # "written"
    BY <1>0, <2>1, <2>3 DEF DiskAsExpected, Described, Expected, At
  <2> QED BY <2>2, <2>3
<1>16. ASSUME NEW e \in Running, ExpireLease(e) PROVE DiskAsExpected'
  <2>1. disk' = disk /\ restorer' = restorer /\ worker' = worker
    BY <1>16 DEF ExpireLease
  <2>2. fold_file_manifest(log') = fold_file_manifest(log)
    <3>1. Entry("failed", e).t \notin {"restored", "done"}
      BY DEF Entry
    <3> QED BY <1>16, <3>1, ExpireAppends, ManifestKept
  <2> QED BY <1>0, <2>1, <2>2 DEF DiskAsExpected, Described, Expected, At
<1>5. CASE Start
  <2>1. disk' = disk /\ restorer' = restorer
    BY <1>5 DEF Start
  <2>a. fold_file_manifest(log') = fold_file_manifest(log)
    <3>1. \/ log' = log
          \/ Grown(log, log', Entry("start", worker.e))
      BY <1>5, StartAppends
    <3>2. Entry("start", worker.e).t \notin {"restored", "done"}
      BY DEF Entry
    <3> QED BY <3>1, <3>2, ManifestKept
  <2>2. /\ ~(worker # None /\ worker.pc = "written")
        /\ ~(worker' # None /\ worker'.pc = "written")
    BY <1>5, StartAppends DEF Start, TypeOK, Workers
  <2> QED BY <1>0, <2>1, <2>a, <2>2 DEF DiskAsExpected, Described, Expected, At
<1>6. ASSUME NEW e \in DOMAIN tab.effects, Claim(e) PROVE DiskAsExpected'
  <2>1. /\ disk' = disk /\ restorer' = restorer /\ log' = log
        /\ worker = None /\ worker'.pc = "claimed"
    BY <1>6 DEF Claim
  <2> QED BY <1>0, <2>1 DEF DiskAsExpected, Described, Expected, At
<1>7. CASE Reconcile
  <2>1. restorer' \in Restorers /\ restorer'.pc = "reconciled"
    BY <1>7 DEF Reconcile, At, TypeOK, Restorers
  <2> QED BY <2>1, NoneAssumption DEF DiskAsExpected, At
<1>8. CASE ReconcileFails \/ (Killed /\ At("reconciled"))
  <2>1. "torn" \in gaps'
    BY <1>8 DEF ReconcileFails, Killed, At
  <2> QED BY <2>1 DEF DiskAsExpected, Clean
<1>9. CASE /\ disk' = disk /\ worker' = worker /\ ~CommitMarker /\ ~Settle
           /\ restorer' = restorer \/ ~At("reconciled")
  BY <1>0, <1>1, <1>9 DEF DiskAsExpected, Described, Expected, At
<1>10. CASE Save \/ ReadHead \/ Rebuild \/ (\E cut \in Cuts : Plan(cut))
  BY <1>9, <1>10 DEF Save, ReadHead, Rebuild, Plan, At, CommitMarker, Settle
<1>11. CASE Killed /\ ~At("reconciled")
  BY <1>9, <1>11 DEF Killed, CommitMarker, Settle
<1>12. CASE ReadLog \/ Evaluate \/ CommitRule \/ Signal \/ Checkpoint \/ UNCHANGED vars
  <2>1. disk' = disk /\ worker' = worker /\ restorer' = restorer
    BY <1>12 DEF ReadLog, Evaluate, CommitRule, Signal, Checkpoint, vars
  <2> QED BY <1>2, <1>3, <1>9, <1>13, <2>1
<1> QED
  BY <1>2, <1>3, <1>4, <1>5, <1>6, <1>7, <1>8, <1>10, <1>11, <1>12, <1>13, <1>14, <1>15, <1>16
  DEF Next, Drive, RulePass, Work, WorkerFaults, Restore

\* A plan that something overtakes stays a plan of its cut.
LEMMA PlanOvertaken ==
  ASSUME TypeOK, Planned, NEW x, Grown(log, log', x), restorer' = restorer
  PROVE  Planned'
  <1> SUFFICES ASSUME restorer # None PROVE Planned'
    BY DEF Planned
  <1>1. /\ Is(log, "cut") \subseteq Is(log', "cut")
        /\ \A n \in Is(log, "cut") : log'[n] = log[n]
    BY IsGrows
  <1>2. Len(log') = Len(log) + 1 /\ Len(log) \in Nat
    BY DEF Grown
  <1>3. restorer.plan.at \in Nat
    BY DEF TypeOK, Restorers, Plans
  <1>4. restorer.pc = "planned" =>
          restorer.plan.at <= Len(log') /\ Len(log') # restorer.plan.at
    BY <1>2, <1>3 DEF Planned
  <1>5. restorer.pc \in {"saved", "headed", "reconciled"} =>
          restorer.plan.at + 1 <= Len(log') /\ Len(log') # restorer.plan.at + 1
    BY <1>2, <1>3 DEF Planned
  <1> QED BY <1>1, <1>4, <1>5 DEF Planned

\* A plan stays up to date while nothing but the automatic cut is appended.
LEMMA PlannedStep ==
  ASSUME TypeOK, RunsSeen, DiskAsExpected, Planned, [Next]_vars
  PROVE  Planned'
<1>0. Clean' => Clean
  BY GapsGrow DEF Clean
<1>1. CASE restorer' = None
  BY <1>1 DEF Planned
<1>2. CASE restorer' = restorer /\ log' # log
  BY <1>2, LogStep, PlanOvertaken
<1>3. CASE restorer' = restorer /\ log' = log /\ disk' = disk /\ (worker' = worker \/ ~InRun')
  BY <1>0, <1>3 DEF Planned, Removal, Described, InRun
<1>4. CASE WriteFile \/ WriteFails
  <2>1. restorer' = restorer /\ log' = log /\ InRun
    BY <1>4 DEF WriteFile, WriteFails, InRun
  <2>2. Clean' => Len(log) # restorer.plan.at + 1 \/ restorer = None
                   \/ restorer.pc \notin {"saved", "headed", "reconciled"}
    BY <1>0, <2>1 DEF Planned
  <2> QED BY <1>0, <2>1, <2>2 DEF Planned, Removal
<1>15. CASE WorkerDies
  BY <1>3, <1>15 DEF WorkerDies, InRun
<1>16. ASSUME NEW e \in Running, ExpireLease(e) PROVE Planned'
  <2>1. restorer' = restorer /\ \E x : Grown(log, log', x)
    BY <1>16, ExpireAppends DEF ExpireLease
  <2> QED BY <2>1, PlanOvertaken
<1>5. CASE Start /\ log' = log
  <2>1. restorer' = restorer /\ disk' = disk
    BY <1>5 DEF Start
  <2>2. worker' = None
    BY <1>5, StartAppends DEF Grown
  <2> QED BY <1>3, <1>5, <2>1, <2>2 DEF InRun
<1>6. CASE Settle /\ log' = log
  BY <1>3, <1>6 DEF Settle, InRun
<1>7. ASSUME NEW e \in DOMAIN tab.effects, Claim(e) PROVE Planned'
  BY <1>3, <1>7 DEF Claim, InRun
<1>8. ASSUME NEW cut \in Cuts, Plan(cut) PROVE Planned'
  <2>1. /\ restorer' = [pc |-> "planned", plan |-> plan_restore(cut), head |-> 0]
        /\ log' = log
    BY <1>8 DEF Plan
  <2>2. /\ plan_restore(cut).to \in Is(log, "cut")
        /\ plan_restore(cut).writes = log[plan_restore(cut).to].manifest
        /\ plan_restore(cut).removes =
             {p \in Paths : fold_file_manifest(log)[p] # None /\ plan_restore(cut).writes[p] = None}
        /\ plan_restore(cut).at = Len(log)
    BY PlanFound
  <2>3. Len(log) \in Nat
    BY LenProperties DEF TypeOK
  <2>4. restorer'.pc = "planned" /\ restorer'.plan = plan_restore(cut)
    BY <2>1
  <2> QED BY <2>1, <2>2, <2>3, <2>4 DEF Planned, Removal
<1>9. CASE Save /\ restorer' # None
  <2> DEFINE x == CutEntry(auto_before(restorer.plan.cut), fold_file_manifest(log))
  <2>1. /\ Grown(log, log', x) /\ Running = {}
        /\ restorer' = [restorer EXCEPT !.pc = "saved"]
    BY <1>9, SaveAppends
  <2>2. x.t = "cut"
    BY DEF CutEntry
  <2> HIDE DEF x
  <2>3. restorer # None /\ restorer.pc = "planned" /\ restorer \in Restorers
    BY <1>9 DEF Save, At, TypeOK
  <2>4. restorer'.pc = "saved" /\ restorer'.plan = restorer.plan
    BY <2>1, <2>3 DEF Restorers
  <2>5. /\ Is(log, "cut") \subseteq Is(log', "cut")
        /\ \A n \in Is(log, "cut") : log'[n] = log[n]
    BY <2>1, IsGrows
  <2>6. Len(log') = Len(log) + 1 /\ Len(log) \in Nat /\ restorer.plan.at \in Nat
    BY <2>1, <2>3 DEF Grown, Restorers, Plans
  <2>7. fold_file_manifest(log') = fold_file_manifest(log)
    BY <2>1, <2>2, ManifestKept
  <2>8. Clean' => ~InRun'
    <3>1. worker' = worker
      BY <1>9 DEF Save
    <3> QED BY <1>0, <2>1, <3>1 DEF RunsSeen, InRun
  <2>9. restorer.plan.at + 1 <= Len(log')
    BY <2>3, <2>6 DEF Planned
  <2>10. Len(log') = restorer.plan.at + 1 => Removal'
    BY <2>3, <2>4, <2>6, <2>7 DEF Planned, Removal
  <2> QED BY <2>3, <2>4, <2>5, <2>8, <2>9, <2>10 DEF Planned
<1>10. CASE ReadHead
  <2>1. restorer # None /\ restorer.pc = "saved" /\ restorer \in Restorers
    BY <1>10 DEF ReadHead, At, TypeOK
  <2>2. restorer'.pc = "headed" /\ restorer'.plan = restorer.plan
    BY <1>10, <2>1 DEF ReadHead, Restorers
  <2>3. log' = log /\ worker' = worker
    BY <1>10 DEF ReadHead
  <2> QED BY <1>0, <2>1, <2>2, <2>3 DEF Planned, Removal, InRun
<1>11. CASE Reconcile
  <2>1. restorer # None /\ restorer.pc = "headed" /\ restorer \in Restorers
    BY <1>11 DEF Reconcile, At, TypeOK
  <2>2. restorer'.pc = "reconciled" /\ restorer'.plan = restorer.plan
    BY <1>11, <2>1 DEF Reconcile, Restorers
  <2>3. log' = log /\ worker' = worker /\ disk' = Reconciled(Paths)
    BY <1>11 DEF Reconcile
  <2>4. ASSUME Clean', Len(log) = restorer.plan.at + 1
        PROVE  \A p \in Paths : Describes(restorer.plan.writes[p], disk'[p])
    <3>1. Removal /\ ~InRun /\ Clean
      BY <1>0, <2>1, <2>4 DEF Planned
    <3>2. Described(Expected)
      BY <2>1, <3>1 DEF DiskAsExpected, At
    <3>3. \A p \in Paths : Describes(fold_file_manifest(log)[p], disk[p])
      BY <3>1, <3>2 DEF Expected, Described, InRun
    <3>4. restorer.plan.writes \in Manifests
      BY <2>1 DEF Restorers, Plans
    <3>5. ASSUME NEW p \in Paths PROVE Describes(restorer.plan.writes[p], Reconciled(Paths)[p])
      <4>1. CASE restorer.plan.writes[p] # None
        <5>1. Reconciled(Paths)[p] = <<restorer.plan.writes[p]>>
          BY <4>1 DEF Reconciled
        <5>2. restorer.plan.writes[p] \in Firing
          BY <3>4, <4>1 DEF Manifests
        <5> QED BY <5>1, <5>2, SingleDescribed
      <4>2. CASE restorer.plan.writes[p] = None /\ p \in restorer.plan.removes
        <5>1. Reconciled(Paths)[p] = Absent
          BY <4>2 DEF Reconciled
        <5> QED BY <4>2, <5>1 DEF Describes
      <4>3. CASE restorer.plan.writes[p] = None /\ p \notin restorer.plan.removes
        <5>1. Reconciled(Paths)[p] = disk[p]
          BY <4>3 DEF Reconciled
        <5>2. fold_file_manifest(log)[p] = None
          BY <3>1, <4>3 DEF Removal
        <5>3. disk[p] = Absent
          BY <3>3, <5>2 DEF Describes
        <5> QED BY <4>3, <5>1, <5>3 DEF Describes
      <4> QED BY <4>1, <4>2, <4>3
    <3> QED BY <2>3, <3>5
  <2> QED BY <1>0, <2>1, <2>2, <2>3, <2>4 DEF Planned, Removal, InRun, Described
<1>12. CASE CommitMarker /\ restorer' # None
  <2>1. /\ HeadUnmoved /\ restorer' = [restorer EXCEPT !.pc = "marked"]
        /\ restorer # None /\ restorer \in Restorers
    BY <1>12 DEF CommitMarker, At, TypeOK
  <2>2. restorer'.pc = "marked" /\ restorer'.plan = restorer.plan
    BY <2>1 DEF Restorers
  <2>3. /\ Is(log, "cut") \subseteq Is(log', "cut")
        /\ \A n \in Is(log, "cut") : log'[n] = log[n]
    BY <1>12, <2>1, MarkerAppends, IsGrows
  <2> QED BY <2>1, <2>2, <2>3 DEF Planned
<1>13. Rebuild \/ ReconcileFails \/ Killed => restorer' = None
  BY DEF Rebuild, ReconcileFails, Killed
<1>14. CASE ReadLog \/ Evaluate \/ CommitRule \/ Start \/ Settle \/ Signal \/ Checkpoint \/ UNCHANGED vars
  <2>1. restorer' = restorer
    BY <1>14 DEF ReadLog, Evaluate, CommitRule, Start, Settle, Signal, Checkpoint, vars
  <2>2. CASE log' # log
    BY <1>2, <2>1, <2>2
  <2>3. CASE log' = log
    <3>1. CASE Start \/ Settle
      BY <1>5, <1>6, <2>3, <3>1
    <3>2. CASE ReadLog \/ Evaluate \/ CommitRule \/ Signal \/ Checkpoint \/ UNCHANGED vars
      <4>1. disk' = disk /\ worker' = worker
        BY <3>2 DEF ReadLog, Evaluate, CommitRule, Signal, Checkpoint, vars
      <4> QED BY <1>3, <2>1, <2>3, <4>1
    <3> QED BY <1>14, <3>1, <3>2
  <2> QED BY <2>2, <2>3
<1> QED
  BY <1>1, <1>4, <1>7, <1>8, <1>9, <1>10, <1>11, <1>12, <1>13, <1>14, <1>15, <1>16
  DEF Next, Drive, RulePass, Work, WorkerFaults, Restore

Planes == CutsAreTrue /\ RunsSeen /\ DiskAsExpected /\ Planned

\* The layers about the files, on top of those about the log.
LEMMA PlanesInvariant == Spec => [](Timeline /\ Planes)
<1>1. Init => Planes
  BY InitPlanes DEF Planes
<1>2. Timeline /\ Planes /\ [Next]_vars => Planes'
  BY CutsStep, RunsStep, DiskStep, PlannedStep DEF Planes, Timeline
<1> QED BY <1>1, <1>2, TimelineInvariant, PTL DEF Spec

\* Whatever was restored, run again and restored again, the files on disk are
\* as the live facts describe them: the last accepted chunk at the end of each
\* file, and nothing else in a file that was not appended to (WriteFile, Settle,
\* Reconcile, CommitMarker).
THEOREM FilesFollowFacts == Spec => []PlanesAgree
<1>1. Timeline /\ Planes => PlanesAgree
  <2> SUFFICES ASSUME Planes, Clean, ~(worker # None /\ worker.pc = "written"), ~At("reconciled")
               PROVE  \A p \in Paths : Describes(fold_file_manifest(log)[p], disk[p])
    BY DEF PlanesAgree, Clean
  <2>1. Described(Expected)
    BY DEF Planes, DiskAsExpected
  <2> QED BY <2>1 DEF Expected, Described
<1> QED BY <1>1, PlanesInvariant, PTL
=============================================================================
