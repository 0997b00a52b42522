--------------------------- MODULE TrackerProofs ---------------------------
(***************************************************************************)
(* The safety of TrackerSync, proved for any clones, actors, hashes,       *)
(* lengths of claims and numbers of syncs and crashes.                     *)
(*                                                                         *)
(* The functions that TrackerLog defines by recursion are unrolled first   *)
(* (Iteration); what they compute is shown by the least counterexample.    *)
(* The argument then is:                                                   *)
(*   an event written over the heads of what a clone holds comes last in   *)
(*   the topological order (PlacedLast), so a rebuild folds it last        *)
(*   (FoldedLast), and a table that was a rebuild and has the event        *)
(*   applied is one again (TxStep, TransactKeeps);                         *)
(*   Ancestors is the least set closed under parents (AncestorsLeast), so  *)
(*   an event over all that is held adds no pair of concurrent claims      *)
(*   (NoNewAdvisory), and only an import has pairs to report;              *)
(*   an end comes after its claim and, unless its writer lacked a parent,  *)
(*   a claim after an end of each earlier one (EndsFollow, ClaimsFollow):  *)
(*   of two active leases neither claim can have seen the other.           *)
(***************************************************************************)
EXTENDS TrackerSync, FiniteSetTheorems, WellFoundedInduction, TLAPS

-----------------------------------------------------------------------------
(* Induction by the least counterexample, and the recursive functions of   *)
(* the model: each iterates one of the steps below.                        *)

\* A set of naturals with an element has a least one.
LEMMA Least ==
  ASSUME NEW T \in SUBSET Nat, T # {}
  PROVE  \E n \in T : \A m \in T : n <= m
  <1>1. IsWellFoundedOn(OpToRel(<, Nat), Nat)
    BY NatLessThanWellFounded
  <1>2. PICK n \in T : \A y \in T : ~(<<y, n>> \in OpToRel(<, Nat))
    BY <1>1, WFMin
  <1>3. \A y \in T : ~(y < n)
    BY <1>2 DEF OpToRel
  <1> QED BY <1>3

\* Step n of the recursion called which, from x; e, S and s are what it reads.
Advance(which, e, S, s, x, n) ==
    CASE which = "place" -> Place(e, S, x)
      [] which = "climb" -> WithParents(e, S, x)
      [] which = "cover" -> Cover(e, S, x, s[Len(s) + 1 - n])
      [] which = "fold" -> fold_event(e, x, s[n])
      [] which = "append" -> tx_append_raw(x, S[n], s[n])

Iterates(f, which, e, S, s, start, k) ==
    f = [n \in 0..k |-> IF n = 0 THEN start ELSE Advance(which, e, S, s, f[n - 1], n)]

\* Each of these recursive definitions defines a function.
LEMMA Iteration ==
  ASSUME NEW which, NEW e, NEW S, NEW s, NEW start, NEW k \in Nat
  PROVE  \E f : Iterates(f, which, e, S, s, start, k)
  <1> DEFINE P(j) == \E f : Iterates(f, which, e, S, s, start, j)
             Bad == {j \in Nat : ~P(j)}
             Step(x, n) == Advance(which, e, S, s, x, n)
  <1>1. SUFFICES ASSUME Bad # {} PROVE FALSE
    BY <1>1
  <1>2. PICK j \in Bad : \A m \in Bad : j <= m
    BY <1>1, Least
  <1>3. j \in Nat /\ ~P(j)
    BY <1>2
  <1>4. CASE j = 0
    <2> DEFINE f == [n \in 0..0 |-> start]
    <2>1. Iterates(f, which, e, S, s, start, 0)
      BY DEF Iterates
    <2> QED BY <1>3, <1>4, <2>1
  <1>5. CASE j # 0
    <2>1. j - 1 \in Nat /\ j - 1 \notin Bad
      BY <1>2, <1>3, <1>5
    <2>2. PICK g : Iterates(g, which, e, S, s, start, j - 1)
      BY <2>1
    <2> DEFINE f == [n \in 0..j |-> IF n = j THEN Step(g[j - 1], j) ELSE g[n]]
    <2>3. \A n \in 0..(j - 1) : g[n] = IF n = 0 THEN start ELSE Step(g[n - 1], n)
      BY <2>1, <2>2 DEF Iterates
    <2> HIDE DEF Step
    <2>4. \A n \in 0..j : f[n] = IF n = 0 THEN start ELSE Step(f[n - 1], n)
      <3> TAKE n \in 0..j
      <3>1. CASE n = j
        BY <1>3, <1>5, <3>1
      <3>2. CASE n # j
        <4>1. n \in 0..(j - 1) /\ f[n] = g[n]
          BY <1>3, <3>2
        <4>2. n # 0 => n - 1 \in 0..j /\ n - 1 # j /\ f[n - 1] = g[n - 1]
          BY <1>3, <4>1
        <4> HIDE DEF f
        <4> QED BY <2>3, <4>1, <4>2
      <3> QED BY <3>1, <3>2
    <2>5. f = [n \in 0..j |-> f[n]]
      OBVIOUS
    <2> HIDE DEF f
    <2>6. Iterates(f, which, e, S, s, start, j)
      BY <2>4, <2>5 DEF Iterates, Step
    <2> QED BY <1>3, <2>6
  <1> QED BY <1>4, <1>5

\* The prefixes of the topological order.
Placing(f, e, S) ==
    /\ f[0] = <<>>
    /\ \A n \in 1..Cardinality(S) : f[n] = Place(e, S, f[n - 1])
    /\ topological_event_order(e, S) = f[Cardinality(S)]

\* topological_event_order places one event at a time.
LEMMA PlacingExists ==
  ASSUME NEW e, NEW S, IsFiniteSet(S)
  PROVE  \E f : Placing(f, e, S)
  <1> DEFINE k == Cardinality(S)
             order == CHOOSE f : f = [n \in 0..k |-> IF n = 0 THEN <<>> ELSE Place(e, S, f[n - 1])]
  <1>1. k \in Nat
    BY FS_CardinalityType
  <1>2. PICK g : Iterates(g, "place", e, S, 0, <<>>, k)
    BY <1>1, Iteration
  <1>3. g = [n \in 0..k |-> IF n = 0 THEN <<>> ELSE Place(e, S, g[n - 1])]
    BY <1>2 DEF Iterates, Advance
  <1>4. order = [n \in 0..k |-> IF n = 0 THEN <<>> ELSE Place(e, S, order[n - 1])]
    BY <1>3
  <1>5. topological_event_order(e, S) = order[k]
    BY DEF topological_event_order
  <1> HIDE DEF order
  <1>6. Placing(order, e, S)
    BY <1>1, <1>4, <1>5 DEF Placing
  <1> QED BY <1>6

\* The generations of ancestors.
Climbing(f, e, S, i) ==
    /\ f[0] = e[i].parents
    /\ \A n \in 1..Cardinality(S) : f[n] = WithParents(e, S, f[n - 1])
    /\ Ancestors(e, S, i) = f[Cardinality(S)]

\* Ancestors climbs one generation at a time.
LEMMA ClimbingExists ==
  ASSUME NEW e, NEW S, NEW i, IsFiniteSet(S)
  PROVE  \E f : Climbing(f, e, S, i)
  <1> DEFINE k == Cardinality(S)
             b == e[i].parents
             up == CHOOSE f : f = [n \in 0..k |-> IF n = 0 THEN b ELSE WithParents(e, S, f[n - 1])]
  <1>1. k \in Nat
    BY FS_CardinalityType
  <1>2. PICK g : Iterates(g, "climb", e, S, 0, b, k)
    BY <1>1, Iteration
  <1>3. g = [n \in 0..k |-> IF n = 0 THEN b ELSE WithParents(e, S, g[n - 1])]
    BY <1>2 DEF Iterates, Advance
  <1>4. up = [n \in 0..k |-> IF n = 0 THEN b ELSE WithParents(e, S, up[n - 1])]
    BY <1>3
  <1>5. Ancestors(e, S, i) = up[k]
    BY DEF Ancestors
  <1> HIDE DEF up
  <1>6. Climbing(up, e, S, i)
    BY <1>1, <1>4, <1>5 DEF Climbing
  <1> QED BY <1>6

\* The fold of a sequence of events, prefix by prefix.
Folding(f, e, s) ==
    /\ f[0] = NoRow
    /\ \A n \in 1..Len(s) : f[n] = fold_event(e, f[n - 1], s[n])
    /\ Folded(e, s) = f[Len(s)]

\* A rebuild folds one event at a time.
LEMMA FoldingExists ==
  ASSUME NEW e, NEW s, Len(s) \in Nat
  PROVE  \E f : Folding(f, e, s)
  <1> DEFINE k == Len(s)
             fold == CHOOSE f : f = [n \in 0..k |-> IF n = 0 THEN NoRow ELSE fold_event(e, f[n - 1], s[n])]
  <1>2. PICK g : Iterates(g, "fold", e, 0, s, NoRow, k)
    BY Iteration
  <1>3. g = [n \in 0..k |-> IF n = 0 THEN NoRow ELSE fold_event(e, g[n - 1], s[n])]
    BY <1>2 DEF Iterates, Advance
  <1>4. fold = [n \in 0..k |-> IF n = 0 THEN NoRow ELSE fold_event(e, fold[n - 1], s[n])]
    BY <1>3
  <1>5. Folded(e, s) = fold[k]
    BY DEF Folded
  <1> HIDE DEF fold
  <1>6. Folding(fold, e, s)
    BY <1>4, <1>5 DEF Folding
  <1> QED BY <1>6

\* The cover of the setters, children first.
Covering(f, e, S, s) ==
    /\ f[0] = {}
    /\ \A n \in 1..Len(s) : f[n] = Cover(e, S, f[n - 1], s[Len(s) + 1 - n])
    /\ CoveredBy(e, S, s) = f[Len(s)]

\* CoveredBy goes up the order one event at a time.
LEMMA CoveringExists ==
  ASSUME NEW e, NEW S, NEW s, Len(s) \in Nat
  PROVE  \E f : Covering(f, e, S, s)
  <1> DEFINE k == Len(s)
             cov == CHOOSE f : f = [n \in 0..k |-> IF n = 0 THEN {} ELSE Cover(e, S, f[n - 1], s[Len(s) + 1 - n])]
  <1>2. PICK g : Iterates(g, "cover", e, S, s, {}, k)
    BY Iteration
  <1>3. g = [n \in 0..k |-> IF n = 0 THEN {} ELSE Cover(e, S, g[n - 1], s[Len(s) + 1 - n])]
    BY <1>2 DEF Iterates, Advance
  <1>4. cov = [n \in 0..k |-> IF n = 0 THEN {} ELSE Cover(e, S, cov[n - 1], s[Len(s) + 1 - n])]
    BY <1>3
  <1>5. CoveredBy(e, S, s) = cov[k]
    BY DEF CoveredBy
  <1> HIDE DEF cov
  <1> DEFINE Step(x, n) == Cover(e, S, x, s[Len(s) + 1 - n])
  <1>6. cov = [n \in 0..k |-> IF n = 0 THEN {} ELSE Step(cov[n - 1], n)]
    BY <1>4
  <1> HIDE DEF Step
  <1>a. k \in Nat
    OBVIOUS
  <1> HIDE DEF k
  <1>b. \A n \in 0..k : cov[n] = IF n = 0 THEN {} ELSE Step(cov[n - 1], n)
    BY <1>6
  <1>7. cov[0] = {} /\ \A n \in 1..k : cov[n] = Step(cov[n - 1], n)
    BY <1>a, <1>b
  <1> USE DEF k
  <1>8. \A n \in 1..Len(s) : cov[n] = Cover(e, S, cov[n - 1], s[Len(s) + 1 - n])
    BY <1>7, Zenon DEF Step
  <1>9. Covering(cov, e, S, s)
    BY <1>5, <1>7, <1>8, Zenon DEF Covering
  <1> QED BY <1>9

-----------------------------------------------------------------------------
(* The DAG and its topological order.                                      *)

\* Parents are events, and every set of events has an oldest and a newest.
Dag(e) ==
    /\ DOMAIN e \in SUBSET Nat /\ IsFiniteSet(DOMAIN e)
    /\ \A i \in DOMAIN e : e[i].parents \in SUBSET DOMAIN e
    /\ \A T \in SUBSET DOMAIN e : T # {} => \E i \in T : e[i].parents \cap T = {}
    /\ \A T \in SUBSET DOMAIN e : T # {} => \E i \in T : \A j \in T : i \notin e[j].parents

\* The elements of a sequence, and of one with an element appended.
LEMMA ToSetSeq ==
  /\ ToSet(<<>>) = {}
  /\ \A X : \A s \in Seq(X) : ToSet(s) \in SUBSET X
  /\ \A X : \A s \in Seq(X) : \A x : ToSet(Append(s, x)) = ToSet(s) \cup {x}
  <1>1. ToSet(<<>>) = {}
    BY DEF ToSet
  <1>2. ASSUME NEW X, NEW s \in Seq(X) PROVE ToSet(s) \in SUBSET X
    BY DEF ToSet
  <1>3. ASSUME NEW X, NEW s \in Seq(X), NEW x PROVE ToSet(Append(s, x)) = ToSet(s) \cup {x}
    <2>1. DOMAIN s = 1..Len(s) /\ Len(s) \in Nat
      OBVIOUS
    <2>2. DOMAIN Append(s, x) = 1..(Len(s) + 1)
      OBVIOUS
    <2>3. \A i \in 1..Len(s) : Append(s, x)[i] = s[i]
      OBVIOUS
    <2>4. Append(s, x)[Len(s) + 1] = x
      OBVIOUS
    <2> HIDE <1>3
    <2> QED BY <2>1, <2>2, <2>3, <2>4 DEF ToSet
  <1> QED BY <1>1, <1>2, <1>3

\* While events are left one of them is ready, and the smallest is placed.
LEMMA NextReady ==
  ASSUME NEW e, Dag(e), NEW S \in SUBSET DOMAIN e, NEW P \in SUBSET S, P # S
  PROVE  Smallest(ReadyEvents(e, S, P)) \in ReadyEvents(e, S, P)
  <1> DEFINE R == ReadyEvents(e, S, P)
  <1>1. PICK i \in S \ P : e[i].parents \cap (S \ P) = {}
    BY DEF Dag
  <1>2. i \in R
    BY <1>1 DEF ReadyEvents
  <1>3. R \in SUBSET Nat
    BY DEF ReadyEvents, Dag
  <1>4. PICK n \in R : \A m \in R : n <= m
    BY <1>2, <1>3, Least
  <1> QED BY <1>4 DEF Smallest

\* A prefix of the order: as long as its number says, without repetition,
\* and with an event it has those of its parents that are held.
Prefix(s, e, S, n) ==
    /\ s \in Seq(S) /\ Len(s) = n
    /\ IsFiniteSet(ToSet(s)) /\ Cardinality(ToSet(s)) = n
    /\ \A j \in ToSet(s) : e[j].parents \cap S \in SUBSET ToSet(s)

\* What is placed after the prefix s.
Places(s, t, e, S, x) ==
    /\ x \in S \ ToSet(s) /\ e[x].parents \cap S \in SUBSET ToSet(s)
    /\ t = Append(s, x) /\ ToSet(t) = ToSet(s) \cup {x}

\* The next event placed extends a prefix of the order by one ready event.
LEMMA PlaceNext ==
  ASSUME NEW e, Dag(e), NEW S \in SUBSET DOMAIN e, NEW n \in Nat, n < Cardinality(S),
         NEW s, Prefix(s, e, S, n)
  PROVE  /\ Prefix(Place(e, S, s), e, S, n + 1)
         /\ Places(s, Place(e, S, s), e, S, Smallest(ReadyEvents(e, S, ToSet(s))))
  <1> DEFINE P == ToSet(s)
             x == Smallest(ReadyEvents(e, S, P))
             t == Append(s, x)
  <1>1. s \in Seq(S) /\ Len(s) = n /\ P \in SUBSET S /\ IsFiniteSet(P) /\ Cardinality(P) = n
    BY ToSetSeq DEF Prefix
  <1>2. x \in ReadyEvents(e, S, P)
    BY <1>1, NextReady
  <1>3. x \in S \ P /\ e[x].parents \cap S \in SUBSET P
    BY <1>2 DEF ReadyEvents
  <1>4. Place(e, S, s) = t
    BY DEF Place
  <1>5. ToSet(t) = P \cup {x}
    BY <1>1, ToSetSeq
  <1>6. t \in Seq(S) /\ Len(t) = n + 1
    BY <1>1, <1>3
  <1>7. IsFiniteSet(ToSet(t)) /\ Cardinality(ToSet(t)) = n + 1
    BY <1>1, <1>3, <1>5, FS_AddElement
  <1>8. \A j \in P : e[j].parents \cap S \in SUBSET P
    BY DEF Prefix
  <1> HIDE DEF x, P, t
  <1>9. \A j \in ToSet(t) : e[j].parents \cap S \in SUBSET ToSet(t)
    BY <1>3, <1>5, <1>8
  <1>10. Prefix(t, e, S, n + 1)
    BY <1>6, <1>7, <1>9 DEF Prefix
  <1>11. Places(s, t, e, S, x)
    BY <1>3, <1>5 DEF Places, t, P
  <1> QED BY <1>4, <1>10, <1>11 DEF x, P

\* Every stage of topological_event_order is a prefix of the order.
LEMMA OrderPrefixes ==
  ASSUME NEW e, Dag(e), NEW S \in SUBSET DOMAIN e, NEW f, Placing(f, e, S)
  PROVE  /\ IsFiniteSet(S) /\ Cardinality(S) \in Nat
         /\ \A n \in 0..Cardinality(S) : Prefix(f[n], e, S, n)
         /\ \A n \in 1..Cardinality(S) :
               Places(f[n - 1], f[n], e, S, Smallest(ReadyEvents(e, S, ToSet(f[n - 1]))))
  <1> DEFINE k == Cardinality(S)
             Bad == {n \in 0..k : ~Prefix(f[n], e, S, n)}
  <1>1. IsFiniteSet(S) /\ k \in Nat
    BY FS_Subset, FS_CardinalityType DEF Dag
  <1> HIDE DEF k
  <1>2. f[0] = <<>> /\ \A n \in 1..k : f[n] = Place(e, S, f[n - 1])
    BY DEF Placing, k
  <1>3. Prefix(<<>>, e, S, 0)
    BY FS_EmptySet, ToSetSeq DEF Prefix
  <1>4. ASSUME Bad # {} PROVE FALSE
    <2>0. Bad \in SUBSET Nat
      BY <1>1
    <2>1. PICK n \in Bad : \A m \in Bad : n <= m
      BY <1>4, <2>0, Least
    <2>2. n \in 0..k /\ ~Prefix(f[n], e, S, n)
      BY <2>1
    <2>3. n # 0
      BY <1>2, <1>3, <2>2
    <2>4. n - 1 \in Nat /\ n - 1 \notin Bad /\ n - 1 \in 0..k /\ n - 1 < k /\ (n - 1) + 1 = n /\ n \in 1..k
      BY <1>1, <2>1, <2>2, <2>3
    <2>5. Prefix(f[n - 1], e, S, n - 1)
      BY <2>4
    <2>6. Prefix(Place(e, S, f[n - 1]), e, S, (n - 1) + 1)
      BY <2>4, <2>5, PlaceNext DEF k
    <2> QED BY <1>2, <2>2, <2>4, <2>6
  <1>5. \A n \in 0..k : Prefix(f[n], e, S, n)
    BY <1>4
  <1>6. ASSUME NEW n \in 1..k
        PROVE  Places(f[n - 1], f[n], e, S, Smallest(ReadyEvents(e, S, ToSet(f[n - 1]))))
    <2>1. n - 1 \in Nat /\ n - 1 < k /\ n - 1 \in 0..k
      BY <1>1
    <2> QED BY <1>2, <1>5, <2>1, PlaceNext DEF k
  <1> QED BY <1>1, <1>5, <1>6 DEF k

\* The order is all of the events, each once.
LEMMA OrderIsWhole ==
  ASSUME NEW e, Dag(e), NEW S \in SUBSET DOMAIN e
  PROVE  /\ topological_event_order(e, S) \in Seq(S)
         /\ ToSet(topological_event_order(e, S)) = S
         /\ Len(topological_event_order(e, S)) = Cardinality(S)
         /\ Cardinality(S) \in Nat
  <1>1. IsFiniteSet(S)
    BY FS_Subset DEF Dag
  <1>2. PICK f : Placing(f, e, S)
    BY <1>1, PlacingExists
  <1>3. Cardinality(S) \in Nat /\ Prefix(f[Cardinality(S)], e, S, Cardinality(S))
    BY <1>2, OrderPrefixes
  <1>4. topological_event_order(e, S) = f[Cardinality(S)]
    BY <1>2 DEF Placing
  <1> DEFINE t == topological_event_order(e, S)
  <1>5. t \in Seq(S) /\ Len(t) = Cardinality(S) /\ Cardinality(ToSet(t)) = Cardinality(S)
    BY <1>3, <1>4 DEF Prefix
  <1>6. ToSet(t) \in SUBSET S
    BY <1>5, ToSetSeq
  <1> QED BY <1>1, <1>3, <1>5, <1>6, FS_Subset

\* What the order reads of the events is what is held.
LEMMA SameOrder ==
  ASSUME NEW e, NEW g, NEW S, IsFiniteSet(S), \A j \in S : g[j] = e[j]
  PROVE  topological_event_order(g, S) = topological_event_order(e, S)
  <1> DEFINE k == Cardinality(S)
  <1>1. k \in Nat
    BY FS_CardinalityType
  <1>2. PICK a : Placing(a, e, S)
    BY PlacingExists
  <1>3. PICK b : Placing(b, g, S)
    BY PlacingExists
  <1>4. \A x : Place(g, S, x) = Place(e, S, x)
    <2> TAKE x
    <2>1. ReadyEvents(g, S, ToSet(x)) = ReadyEvents(e, S, ToSet(x))
      BY DEF ReadyEvents
    <2> QED BY <2>1 DEF Place
  <1> DEFINE Bad == {n \in 0..k : a[n] # b[n]}
  <1> HIDE DEF k
  <1>5. ASSUME Bad # {} PROVE FALSE
    <2>1. Bad \in SUBSET Nat
      BY <1>1
    <2>2. PICK n \in Bad : \A m \in Bad : n <= m
      BY <1>5, <2>1, Least
    <2>3. n \in 0..k /\ a[n] # b[n]
      BY <2>2
    <2>4. n # 0
      BY <1>2, <1>3, <2>3 DEF Placing
    <2>5. n - 1 \in 0..k /\ n - 1 \notin Bad /\ n \in 1..k
      BY <1>1, <2>2, <2>3, <2>4
    <2>6. a[n - 1] = b[n - 1]
      BY <2>5
    <2>7. a[n] = Place(e, S, a[n - 1]) /\ b[n] = Place(g, S, b[n - 1])
      BY <1>2, <1>3, <2>5 DEF Placing, k
    <2> QED BY <1>4, <2>3, <2>6, <2>7
  <1>6. a[k] = b[k]
    BY <1>1, <1>5
  <1> QED BY <1>2, <1>3, <1>6 DEF Placing, k

\* An event over the heads of what is held: later than all of it.
Tops(e, S, i) ==
    /\ i \in DOMAIN e \ S /\ e[i].parents = dag_frontier(e, S)
    /\ \A j \in S \cup {i} : i \notin e[j].parents

\* An event whose parents are the heads of S is above all of S.
LEMMA HeadsAreNew ==
  ASSUME NEW e, Dag(e), NEW S \in SUBSET DOMAIN e, NEW i \in DOMAIN e,
         e[i].parents = dag_frontier(e, S)
  PROVE  Tops(e, S, i)
  <1>1. ASSUME i \in S PROVE FALSE
    <2>1. PICK m \in S : \A j \in S : m \notin e[j].parents
      BY <1>1 DEF Dag
    <2> QED BY <1>1, <2>1 DEF dag_frontier
  <1>2. S \cup {i} \in SUBSET DOMAIN e /\ S \cup {i} # {}
    OBVIOUS
  <1>3. PICK m \in S \cup {i} : \A j \in S \cup {i} : m \notin e[j].parents
    BY <1>2 DEF Dag
  <1>4. m = i
    <2>1. ASSUME m \in S PROVE FALSE
      <3>1. m \in dag_frontier(e, S)
        BY <1>3, <2>1 DEF dag_frontier
      <3> QED BY <1>3, <3>1
    <2> QED BY <2>1, <1>3
  <1> QED BY <1>1, <1>3, <1>4 DEF Tops

\* What has the heads of S and the held parents of what it has, has all of S.
LEMMA HeadsCover ==
  ASSUME NEW e, Dag(e), NEW S \in SUBSET DOMAIN e, NEW P,
         dag_frontier(e, S) \in SUBSET P,
         \A j \in P \cap S : e[j].parents \cap S \in SUBSET P
  PROVE  S \in SUBSET P
  <1>1. SUFFICES ASSUME S \ P # {} PROVE FALSE
    OBVIOUS
  <1>2. PICK m \in S \ P : \A j \in S \ P : m \notin e[j].parents
    <2>1. S \ P \in SUBSET DOMAIN e
      OBVIOUS
    <2> QED BY <1>1, <2>1 DEF Dag
  <1>3. m \notin dag_frontier(e, S)
    BY <1>2
  <1>4. PICK j \in S : m \in e[j].parents
    BY <1>2, <1>3 DEF dag_frontier
  <1>5. j \in P
    BY <1>2, <1>4
  <1> QED BY <1>2, <1>4, <1>5

\* So it is placed last.
LEMMA PlacedLast ==
  ASSUME NEW e, Dag(e), NEW S \in SUBSET DOMAIN e, NEW i, Tops(e, S, i)
  PROVE  topological_event_order(e, S \cup {i}) = Append(topological_event_order(e, S), i)
  <1> DEFINE k == Cardinality(S)
             T == S \cup {i}
  <1>1. IsFiniteSet(S) /\ k \in Nat /\ IsFiniteSet(T) /\ Cardinality(T) = k + 1
    BY FS_Subset, FS_CardinalityType, FS_AddElement DEF Dag, Tops
  <1>2. T \in SUBSET DOMAIN e /\ i \notin S
    BY DEF Tops
  <1>3. PICK a : Placing(a, e, S)
    BY <1>1, PlacingExists
  <1>4. PICK b : Placing(b, e, T)
    BY <1>1, PlacingExists
  <1> DEFINE Bad == {n \in 0..k : a[n] # b[n]}
  <1>5. /\ \A n \in 0..k : Prefix(a[n], e, S, n)
        /\ \A n \in 1..k : a[n] = Append(a[n - 1], Smallest(ReadyEvents(e, S, ToSet(a[n - 1]))))
        /\ \A n \in 1..(k + 1) : b[n] = Append(b[n - 1], Smallest(ReadyEvents(e, T, ToSet(b[n - 1]))))
        /\ a[0] = <<>> /\ b[0] = <<>>
    <2>1. \A n \in 0..k : Prefix(a[n], e, S, n)
      BY <1>3, OrderPrefixes
    <2>2. \A n \in 1..k : a[n] = Place(e, S, a[n - 1])
      BY <1>3 DEF Placing
    <2>3. \A n \in 1..(k + 1) : b[n] = Place(e, T, b[n - 1])
      BY <1>1, <1>4 DEF Placing
    <2>4. a[0] = <<>> /\ b[0] = <<>>
      BY <1>3, <1>4 DEF Placing
    <2> QED BY <2>1, <2>2, <2>3, <2>4 DEF Place
  <1>6. ASSUME NEW P \in SUBSET S, \A j \in P : e[j].parents \cap S \in SUBSET P, P # S
        PROVE  ReadyEvents(e, T, P) = ReadyEvents(e, S, P)
    <2>1. ASSUME i \in ReadyEvents(e, T, P) PROVE FALSE
      <3>1. e[i].parents \cap T \in SUBSET P
        BY <2>1 DEF ReadyEvents
      <3>2. dag_frontier(e, S) \in SUBSET P
        BY <3>1 DEF Tops, dag_frontier
      <3>3. S \in SUBSET P
        BY <1>6, <3>2, HeadsCover
      <3> QED BY <1>6, <3>3
    <2>2. \A j \in S : e[j].parents \cap T = e[j].parents \cap S
      BY DEF Tops
    <2> QED BY <2>1, <2>2 DEF ReadyEvents
  <1>7. k \in Nat
    BY <1>1
  <1>8. \A n \in 0..k : ToSet(a[n]) \in SUBSET S /\ Cardinality(ToSet(a[n])) = n
    BY <1>5, ToSetSeq DEF Prefix
  <1>9. ASSUME Bad # {} PROVE FALSE
    <2> HIDE DEF k
    <2>1. Bad \in SUBSET Nat
      BY <1>7
    <2>2. PICK n \in Bad : \A m \in Bad : n <= m
      BY <1>9, <2>1, Least
    <2>3. n \in 0..k /\ a[n] # b[n]
      BY <2>2
    <2>4. n # 0
      BY <1>5, <2>3
    <2>5. n - 1 \in 0..k /\ n - 1 \notin Bad /\ n \in 1..k /\ n \in 1..(k + 1)
      BY <1>7, <2>2, <2>3, <2>4
    <2>6. a[n - 1] = b[n - 1]
      BY <2>5
    <2> DEFINE P == ToSet(a[n - 1])
    <2>7. P \in SUBSET S /\ Cardinality(P) = n - 1
      BY <1>8, <2>5
    <2>8. P # S
      BY <1>7, <2>3, <2>7 DEF k
    <2>9. \A j \in P : e[j].parents \cap S \in SUBSET P
      BY <1>5, <2>5 DEF Prefix
    <2>10. ReadyEvents(e, T, P) = ReadyEvents(e, S, P)
      BY <1>6, <2>7, <2>8, <2>9
    <2> QED BY <1>5, <2>3, <2>5, <2>6, <2>10
  <1>10. a[k] = b[k] /\ b[k + 1] = Append(b[k], Smallest(ReadyEvents(e, T, ToSet(b[k]))))
    <2> HIDE DEF k
    <2>1. k \in 0..k /\ k + 1 \in 1..(k + 1) /\ (k + 1) - 1 = k
      BY <1>7
    <2>2. a[k] = b[k]
      BY <1>9, <2>1
    <2> QED BY <1>5, <2>1, <2>2
  <1>11. topological_event_order(e, S) = a[k] /\ topological_event_order(e, T) = b[k + 1]
    BY <1>1, <1>3, <1>4 DEF Placing
  <1>12. ToSet(b[k]) = S
    BY <1>10, <1>11, OrderIsWhole
  <1>13. ReadyEvents(e, T, S) = {i}
    BY <1>2 DEF ReadyEvents, Tops
  <1>14. Smallest({i}) = i
    <2>1. i \in Nat
      BY <1>2 DEF Dag
    <2> QED BY <2>1 DEF Smallest
  <1> QED BY <1>10, <1>11, <1>12, <1>13, <1>14

-----------------------------------------------------------------------------
(* The fold over the order.                                                *)

Agree(e, g, s, t) ==
    /\ Len(s) \in Nat /\ Len(t) \in Nat /\ Len(s) <= Len(t)
    /\ \A n \in 1..Len(s) : t[n] = s[n] /\ g[s[n]] = e[s[n]]

\* Folds of the same events go the same way.
LEMMA FoldsAgree ==
  ASSUME NEW e, NEW g, NEW s, NEW t, Agree(e, g, s, t),
         NEW a, Folding(a, e, s), NEW b, Folding(b, g, t)
  PROVE  \A n \in 0..Len(s) : b[n] = a[n]
  <1> DEFINE k == Len(s)
             Bad == {n \in 0..k : b[n] # a[n]}
  <1>1. k \in Nat
    BY DEF Agree
  <1>2. \A n \in 1..k : a[n] = fold_event(e, a[n - 1], s[n])
    BY DEF Folding
  <1>3. \A n \in 1..k : b[n] = fold_event(g, b[n - 1], t[n])
    <2>1. \A n \in 1..k : n \in 1..Len(t)
      BY DEF Agree
    <2>2. \A n \in 1..Len(t) : b[n] = fold_event(g, b[n - 1], t[n])
      BY DEF Folding
    <2> QED BY <2>1, <2>2
  <1>4. a[0] = b[0]
    BY DEF Folding
  <1>5. \A n \in 1..k : t[n] = s[n] /\ g[s[n]] = e[s[n]]
    BY DEF Agree
  <1> HIDE DEF k
  <1>6. ASSUME Bad # {} PROVE FALSE
    <2>1. Bad \in SUBSET Nat
      BY <1>1
    <2>2. PICK n \in Bad : \A m \in Bad : n <= m
      BY <1>6, <2>1, Least
    <2>3. n \in 0..k /\ b[n] # a[n]
      BY <2>2
    <2>4. n # 0
      BY <1>4, <2>3
    <2>5. n - 1 \in 0..k /\ n - 1 \notin Bad /\ n \in 1..k
      BY <1>1, <2>2, <2>3, <2>4
    <2>6. b[n - 1] = a[n - 1]
      BY <2>5
    <2>7. fold_event(g, a[n - 1], s[n]) = fold_event(e, a[n - 1], s[n])
      BY <1>5, <2>5 DEF fold_event
    <2> QED BY <1>2, <1>3, <1>5, <2>3, <2>5, <2>6, <2>7
  <1> QED BY <1>6 DEF k

\* Folding one more event is one more fold_event.
LEMMA FoldedAppend ==
  ASSUME NEW e, NEW X, NEW s \in Seq(X), NEW x \in X
  PROVE  Folded(e, Append(s, x)) = fold_event(e, Folded(e, s), x)
  <1> DEFINE k == Len(s)
             t == Append(s, x)
  <1>1. k \in Nat /\ Len(t) = k + 1 /\ t[k + 1] = x /\ \A n \in 1..k : t[n] = s[n]
    OBVIOUS
  <1> HIDE DEF t
  <1>2. PICK a : Folding(a, e, s)
    BY <1>1, FoldingExists
  <1>3. PICK b : Folding(b, e, t)
    BY <1>1, FoldingExists
  <1>4. \A n \in 0..k : b[n] = a[n]
    <2>1. Agree(e, e, s, t)
      BY <1>1 DEF Agree
    <2> QED BY <1>2, <1>3, <2>1, FoldsAgree
  <1>5. b[k + 1] = fold_event(e, b[k], x)
    <2>1. \A n \in 1..Len(t) : b[n] = fold_event(e, b[n - 1], t[n])
      BY <1>3 DEF Folding
    <2>2. k + 1 \in 1..Len(t) /\ (k + 1) - 1 = k
      BY <1>1
    <2> HIDE DEF k
    <2>3. b[k + 1] = fold_event(e, b[(k + 1) - 1], t[k + 1])
      BY <2>1, <2>2
    <2> QED BY <1>1, <2>2, <2>3
  <1>6. b[k] = a[k]
    BY <1>1, <1>4
  <1> QED BY <1>1, <1>2, <1>3, <1>5, <1>6 DEF Folding, t

\* Folding nothing leaves no row.
LEMMA FoldedEmpty ==
  ASSUME NEW e
  PROVE  Folded(e, <<>>) = NoRow
  <1>1. Len(<<>>) = 0
    OBVIOUS
  <1>2. PICK a : Folding(a, e, <<>>)
    BY <1>1, FoldingExists
  <1> QED BY <1>1, <1>2 DEF Folding

\* What a rebuild shows of a set of events.
Shown(e, S) == IF IsFiled(e, S) THEN Folded(e, topological_event_order(e, S)) ELSE NoRow

\* A rebuild depends on the set of events held, not on the order of the rows.
LEMMA RebuildShows ==
  ASSUME NEW e, NEW s
  PROVE  tx_rebuild_projection(e, s) = Shown(e, ToSet(s))
  BY DEF tx_rebuild_projection, Shown

\* It depends on the contents of those events only.
LEMMA SameShown ==
  ASSUME NEW e, Dag(e), NEW S \in SUBSET DOMAIN e, NEW g, \A j \in S : g[j] = e[j]
  PROVE  Shown(g, S) = Shown(e, S)
  <1> DEFINE t == topological_event_order(e, S)
  <1>1. IsFiniteSet(S)
    BY FS_Subset DEF Dag
  <1>2. topological_event_order(g, S) = t
    BY <1>1, SameOrder
  <1>3. t \in Seq(S) /\ Len(t) \in Nat
    BY OrderIsWhole
  <1> HIDE DEF t
  <1>4. PICK a : Folding(a, e, t)
    BY <1>3, FoldingExists
  <1>5. PICK b : Folding(b, g, t)
    BY <1>3, FoldingExists
  <1>6. \A n \in 1..Len(t) : g[t[n]] = e[t[n]]
    BY <1>3
  <1>7. \A n \in 0..Len(t) : b[n] = a[n]
    <2>1. Agree(e, g, t, t)
      BY <1>3, <1>6 DEF Agree
    <2> QED BY <1>4, <1>5, <2>1, FoldsAgree
  <1>8. Folded(g, t) = Folded(e, t)
    BY <1>3, <1>4, <1>5, <1>7 DEF Folding
  <1>9. IsFiled(g, S) = IsFiled(e, S)
    BY DEF IsFiled
  <1> QED BY <1>2, <1>8, <1>9 DEF Shown, t

\* An event over the heads is folded last.
LEMMA FoldedLast ==
  ASSUME NEW e, Dag(e), NEW S \in SUBSET DOMAIN e, NEW i, Tops(e, S, i),
         IsFiled(e, S) \/ (S = {} /\ e[i].kind = "issue.created")
  PROVE  Shown(e, S \cup {i}) = fold_event(e, Shown(e, S), i)
  <1> DEFINE t == topological_event_order(e, S)
  <1>1. t \in Seq(DOMAIN e) /\ Len(t) = Cardinality(S) /\ i \in DOMAIN e
    <2>1. t \in Seq(S) /\ Len(t) = Cardinality(S)
      BY OrderIsWhole
    <2> QED BY <2>1 DEF Tops
  <1>2. topological_event_order(e, S \cup {i}) = Append(t, i)
    BY PlacedLast
  <1>3. Shown(e, S) = Folded(e, t)
    <2>1. CASE S = {} /\ ~IsFiled(e, S)
      <3>1. Len(t) = 0
        BY <1>1, <2>1, FS_EmptySet
      <3>2. t = <<>>
        BY <1>1, <3>1
      <3> QED BY <2>1, <3>2, FoldedEmpty DEF Shown
    <2> QED BY <2>1 DEF Shown
  <1>4. IsFiled(e, S \cup {i})
    BY DEF IsFiled
  <1> HIDE DEF t
  <1>5. Folded(e, Append(t, i)) = fold_event(e, Folded(e, t), i)
    BY <1>1, FoldedAppend
  <1> QED BY <1>2, <1>3, <1>4, <1>5 DEF Shown

\* Writing an event over the heads of what is held keeps the DAG.
Wrote(e, g, S, i, x) ==
    /\ Dag(g) /\ DOMAIN g = DOMAIN e \cup {i}
    /\ g[i] = x /\ Tops(g, S, i)
    /\ \A j \in DOMAIN e : g[j] = e[j]

\* Writing an event over the heads of what is held keeps the DAG.
LEMMA WriteKeepsDag ==
  ASSUME NEW e, Dag(e), NEW S \in SUBSET DOMAIN e, NEW i \in Nat, NEW x,
         x.parents = dag_frontier(e, S), i \in DOMAIN e => e[i] = x
  PROVE  Wrote(e, Put(e, i, x), S, i, x)
  <1> DEFINE g == Put(e, i, x)
  <1>1. DOMAIN g = DOMAIN e \cup {i} /\ g[i] = x /\ \A j \in DOMAIN e : g[j] = e[j]
    BY DEF Put
  <1> HIDE DEF g
  <1>2. dag_frontier(g, S) = dag_frontier(e, S) /\ dag_frontier(e, S) \in SUBSET DOMAIN e
    BY <1>1 DEF dag_frontier
  <1>3. Dag(g)
    <2>1. DOMAIN g \in SUBSET Nat /\ IsFiniteSet(DOMAIN g)
      BY <1>1, FS_AddElement DEF Dag
    <2>2. \A j \in DOMAIN g : g[j].parents \in SUBSET DOMAIN g
      BY <1>1, <1>2 DEF Dag
    <2>3. ASSUME i \in DOMAIN e PROVE Dag(g)
      <3>1. DOMAIN g = DOMAIN e
        BY <1>1, <2>3
      <3>2. \A T \in SUBSET DOMAIN g : T # {} => \E m \in T : g[m].parents \cap T = {}
        BY <1>1, <3>1 DEF Dag
      <3>3. \A T \in SUBSET DOMAIN g : T # {} => \E m \in T : \A j \in T : m \notin g[j].parents
        BY <1>1, <3>1 DEF Dag
      <3> QED BY <2>1, <2>2, <3>2, <3>3 DEF Dag
    <2>4. ASSUME i \notin DOMAIN e PROVE Dag(g)
      <3>0. \A j \in DOMAIN g : i \notin g[j].parents
        BY <1>1, <1>2, <2>4 DEF Dag
      <3>1. ASSUME NEW T \in SUBSET DOMAIN g, T # {} PROVE \E m \in T : g[m].parents \cap T = {}
        <4>1. CASE T = {i}
          BY <3>0, <4>1, <1>1
        <4>2. CASE T # {i}
          <5>1. T \ {i} \in SUBSET DOMAIN e /\ T \ {i} # {}
            BY <1>1, <3>1, <4>2
          <5>2. PICK m \in T \ {i} : e[m].parents \cap (T \ {i}) = {}
            BY <5>1 DEF Dag
          <5>3. g[m].parents \cap T = {}
            BY <1>1, <3>0, <5>1, <5>2
          <5> QED BY <5>3
        <4> QED BY <4>1, <4>2
      <3>2. ASSUME NEW T \in SUBSET DOMAIN g, T # {} PROVE \E m \in T : \A j \in T : m \notin g[j].parents
        <4>1. CASE i \in T
          BY <3>0, <4>1
        <4>2. CASE i \notin T
          <5>1. T \in SUBSET DOMAIN e
            BY <1>1, <4>2
          <5> QED BY <1>1, <3>2, <5>1 DEF Dag
        <4> QED BY <4>1, <4>2
      <3> QED BY <2>1, <2>2, <3>1, <3>2 DEF Dag
    <2> QED BY <2>3, <2>4
  <1>4. Tops(g, S, i)
    <2>1. S \in SUBSET DOMAIN g /\ i \in DOMAIN g /\ g[i].parents = dag_frontier(g, S)
      BY <1>1, <1>2
    <2> QED BY <1>3, <2>1, HeadsAreNew
  <1>5. Wrote(e, g, S, i, x)
    BY <1>1, <1>3, <1>4 DEF Wrote
  <1> QED BY <1>5 DEF g

-----------------------------------------------------------------------------
(* Ancestors: the least set with the parents that is closed upwards.       *)

Closed(e, S, U) == \A j \in U \cap S : e[j].parents \in SUBSET U

\* One generation: nothing is lost, and a closed set stays as it is.
LEMMA ClimbStep ==
  ASSUME NEW e, NEW S, NEW U
  PROVE  /\ U \in SUBSET WithParents(e, S, U)
         /\ \A j \in U \cap S : e[j].parents \in SUBSET WithParents(e, S, U)
         /\ \A V : U \in SUBSET V /\ Closed(e, S, V) => WithParents(e, S, U) \in SUBSET V
         /\ Closed(e, S, U) => WithParents(e, S, U) = U
  BY DEF WithParents, Closed

\* A generation that is not closed brings an event of S that is not below yet.
LEMMA Generations ==
  ASSUME NEW e, NEW S, NEW i, IsFiniteSet(S), NEW f, Climbing(f, e, S, i)
  PROVE  \A n \in 0..Cardinality(S) :
            /\ e[i].parents \in SUBSET f[n]
            /\ \A V : e[i].parents \in SUBSET V /\ Closed(e, S, V) => f[n] \in SUBSET V
            /\ Closed(e, S, f[n]) \/ Cardinality(f[n] \cap S) >= n + 1
  <1> DEFINE k == Cardinality(S)
             b == e[i].parents
             Least1(U) == \A V : b \in SUBSET V /\ Closed(e, S, V) => U \in SUBSET V
             Grown(n) == Closed(e, S, f[n]) \/ Cardinality(f[n] \cap S) >= n + 1
             Good(n) == b \in SUBSET f[n] /\ Least1(f[n]) /\ Grown(n)
             Bad == {n \in 0..k : ~Good(n)}
  <1>1. k \in Nat
    BY FS_CardinalityType
  <1>2. f[0] = b /\ \A n \in 1..k : f[n] = WithParents(e, S, f[n - 1])
    BY DEF Climbing
  <1>3. \A U : IsFiniteSet(U \cap S) /\ Cardinality(U \cap S) \in Nat
    BY FS_Intersection, FS_CardinalityType
  <1>4. Good(0)
    <2>1. b \in SUBSET f[0] /\ Least1(f[0])
      BY <1>2
    <2>2. ASSUME ~Closed(e, S, f[0]) PROVE Cardinality(f[0] \cap S) >= 0 + 1
      <3>1. f[0] \cap S # {}
        BY <2>2 DEF Closed
      <3>2. Cardinality(f[0] \cap S) # 0
        BY <1>3, <3>1, FS_EmptySet
      <3> QED BY <1>3, <3>2
    <2> QED BY <2>1, <2>2
  <1>5. ASSUME NEW n \in 1..k, Good(n - 1) PROVE Good(n)
    <2> DEFINE U == f[n - 1]
               W == f[n]
    <2>1. W = WithParents(e, S, U)
      BY <1>2
    <2>2. b \in SUBSET U /\ Least1(U)
      BY <1>5
    <2>3. Closed(e, S, U) \/ Cardinality(U \cap S) >= n
      BY <1>1, <1>5
    <2> HIDE DEF U, W
    <2>4. b \in SUBSET W /\ Least1(W)
      BY <2>1, <2>2, ClimbStep
    <2>5. ASSUME ~Closed(e, S, W) PROVE Cardinality(W \cap S) >= n + 1
      <3>1. ~Closed(e, S, U)
        BY <2>1, <2>5, ClimbStep
      <3>2. Cardinality(U \cap S) >= n
        BY <2>3, <3>1
      <3>3. PICK j \in W \cap S : ~(e[j].parents \in SUBSET W)
        BY <2>5 DEF Closed
      <3>4. j \notin U
        BY <2>1, <3>3, ClimbStep
      <3>5. U \cap S \in SUBSET (W \cap S) /\ U \cap S # W \cap S
        BY <2>1, <3>3, <3>4, ClimbStep
      <3>6. Cardinality(U \cap S) <= Cardinality(W \cap S) /\ Cardinality(U \cap S) # Cardinality(W \cap S)
        BY <1>3, <3>5, FS_Subset
      <3>7. Cardinality(U \cap S) \in Nat /\ Cardinality(W \cap S) \in Nat
        BY <1>3
      <3> QED BY <1>1, <3>2, <3>6, <3>7
    <2> QED BY <2>4, <2>5 DEF W
  <1> HIDE DEF Good, k
  <1>6. ASSUME Bad # {} PROVE FALSE
    <2>1. Bad \in SUBSET Nat
      BY <1>1
    <2>2. PICK n \in Bad : \A m \in Bad : n <= m
      BY <1>6, <2>1, Least
    <2>3. n \in 0..k /\ ~Good(n)
      BY <2>2
    <2>4. n # 0
      BY <1>4, <2>3
    <2>5. n - 1 \in 0..k /\ n - 1 \notin Bad /\ n \in 1..k
      BY <1>1, <2>2, <2>3, <2>4
    <2>6. Good(n - 1)
      BY <2>5
    <2> QED BY <1>5, <2>3, <2>5, <2>6
  <1>7. \A n \in 0..k : Good(n)
    BY <1>6
  <1> QED BY <1>7 DEF Good, k

\* Ancestors is the least set with the parents that is closed under parents.
LEMMA AncestorsLeast ==
  ASSUME NEW e, NEW S, NEW i, IsFiniteSet(S)
  PROVE  /\ e[i].parents \in SUBSET Ancestors(e, S, i)
         /\ Closed(e, S, Ancestors(e, S, i))
         /\ \A V : e[i].parents \in SUBSET V /\ Closed(e, S, V) => Ancestors(e, S, i) \in SUBSET V
  <1> DEFINE k == Cardinality(S)
             A == Ancestors(e, S, i)
  <1>1. PICK f : Climbing(f, e, S, i)
    BY ClimbingExists
  <1>2. A = f[k]
    BY <1>1 DEF Climbing
  <1>3. k \in Nat /\ k \in 0..k
    BY FS_CardinalityType
  <1>4. /\ e[i].parents \in SUBSET f[k]
        /\ \A V : e[i].parents \in SUBSET V /\ Closed(e, S, V) => f[k] \in SUBSET V
        /\ Closed(e, S, f[k]) \/ Cardinality(f[k] \cap S) >= k + 1
    BY <1>1, <1>3, Generations
  <1>5. Cardinality(f[k] \cap S) \in Nat /\ Cardinality(f[k] \cap S) <= k
    BY FS_Intersection, FS_CardinalityType
  <1>6. Closed(e, S, f[k])
    BY <1>3, <1>4, <1>5
  <1> QED BY <1>2, <1>4, <1>6

\* It depends on the contents of the held events only.
LEMMA SameAncestors ==
  ASSUME NEW e, NEW g, NEW S, IsFiniteSet(S), NEW i \in S, \A j \in S : g[j] = e[j]
  PROVE  Ancestors(g, S, i) = Ancestors(e, S, i)
  <1>1. \A U : Closed(g, S, U) <=> Closed(e, S, U)
    BY DEF Closed
  <1>2. g[i].parents = e[i].parents
    OBVIOUS
  <1>3. Ancestors(g, S, i) \in SUBSET Ancestors(e, S, i)
    BY <1>1, <1>2, AncestorsLeast
  <1>4. Ancestors(e, S, i) \in SUBSET Ancestors(g, S, i)
    BY <1>1, <1>2, AncestorsLeast
  <1> QED BY <1>3, <1>4

\* A later event does not change what is below the earlier ones.
LEMMA AncestorsBelowTop ==
  ASSUME NEW e, Dag(e), NEW S \in SUBSET DOMAIN e, NEW i, Tops(e, S, i), NEW x \in S
  PROVE  Ancestors(e, S \cup {i}, x) = Ancestors(e, S, x) /\ i \notin Ancestors(e, S, x)
  <1> DEFINE A == Ancestors(e, S, x)
             B == Ancestors(e, S \cup {i}, x)
             U == DOMAIN e \ {i}
  <1>1. IsFiniteSet(S) /\ IsFiniteSet(S \cup {i})
    BY FS_Subset, FS_AddElement DEF Dag
  <1>2. /\ e[x].parents \in SUBSET A /\ Closed(e, S, A)
        /\ \A V : e[x].parents \in SUBSET V /\ Closed(e, S, V) => A \in SUBSET V
    BY <1>1, AncestorsLeast
  <1>3. /\ e[x].parents \in SUBSET B /\ Closed(e, S \cup {i}, B)
        /\ \A V : e[x].parents \in SUBSET V /\ Closed(e, S \cup {i}, V) => B \in SUBSET V
    BY <1>1, AncestorsLeast
  <1>4. e[x].parents \in SUBSET U /\ Closed(e, S, U)
    BY DEF Dag, Tops, Closed
  <1> HIDE DEF A, B
  <1>5. i \notin A
    BY <1>2, <1>4
  <1>6. Closed(e, S \cup {i}, A)
    BY <1>2, <1>5 DEF Closed
  <1>7. Closed(e, S, B)
    BY <1>3 DEF Closed
  <1> QED BY <1>2, <1>3, <1>5, <1>6, <1>7 DEF A, B

\* All that was held is below it.
LEMMA AllBelowTop ==
  ASSUME NEW e, Dag(e), NEW S \in SUBSET DOMAIN e, NEW i, Tops(e, S, i),
         NEW T \in SUBSET DOMAIN e, S \in SUBSET T
  PROVE  S \in SUBSET Ancestors(e, T, i)
  <1> DEFINE A == Ancestors(e, T, i)
  <1>1. IsFiniteSet(T)
    BY FS_Subset DEF Dag
  <1>2. e[i].parents \in SUBSET A /\ Closed(e, T, A)
    BY <1>1, AncestorsLeast
  <1> HIDE DEF A
  <1>3. dag_frontier(e, S) \in SUBSET A
    BY <1>2 DEF Tops
  <1>4. \A j \in A \cap S : e[j].parents \cap S \in SUBSET A
    BY <1>2 DEF Closed
  <1> QED BY <1>3, <1>4, HeadsCover DEF A

\* Claims with all their history held, and not one after the other.
Provable(e, S, x) == x \in S /\ IsAcquire(e[x]) /\ Ancestors(e, S, x) \in SUBSET S
Apart(e, S, x, y) == x # y /\ x \notin Ancestors(e, S, y) /\ y \notin Ancestors(e, S, x)

\* A pair is reported for two provable claims that are apart.
LEMMA Advisories ==
  ASSUME NEW e, NEW S
  PROVE  \A pair : pair \in concurrent_claim_advisories(e, S) <=>
            \E x, y : /\ Provable(e, S, x) /\ Provable(e, S, y) /\ Apart(e, S, x, y)
                      /\ pair = {x, y}
  BY DEF concurrent_claim_advisories, Provable, Apart

\* The advisories depend on the contents of the held events only.
LEMMA SameAdvisories ==
  ASSUME NEW e, NEW g, NEW S, IsFiniteSet(S), \A j \in S : g[j] = e[j]
  PROVE  concurrent_claim_advisories(g, S) = concurrent_claim_advisories(e, S)
  <1>1. \A x \in S : Ancestors(g, S, x) = Ancestors(e, S, x)
    BY SameAncestors
  <1>2. \A x : Provable(g, S, x) <=> Provable(e, S, x)
    BY <1>1 DEF Provable
  <1>3. \A x, y \in S : Apart(g, S, x, y) <=> Apart(e, S, x, y)
    BY <1>1 DEF Apart
  <1>4. \A x : Provable(e, S, x) => x \in S
    BY DEF Provable
  <1>5. \A pair : pair \in concurrent_claim_advisories(g, S) <=> pair \in concurrent_claim_advisories(e, S)
    BY <1>2, <1>3, <1>4, Advisories
  <1> QED BY <1>5

\* A local event makes no pair of concurrent claims.
LEMMA NoNewAdvisory ==
  ASSUME NEW e, Dag(e), NEW S \in SUBSET DOMAIN e, NEW i, Tops(e, S, i)
  PROVE  concurrent_claim_advisories(e, S \cup {i}) \in SUBSET concurrent_claim_advisories(e, S)
  <1> DEFINE T == S \cup {i}
  <1>1. T \in SUBSET DOMAIN e
    BY DEF Tops
  <1>2. S \in SUBSET Ancestors(e, T, i)
    BY <1>1, AllBelowTop
  <1>3. \A x \in S : Ancestors(e, T, x) = Ancestors(e, S, x) /\ i \notin Ancestors(e, S, x)
    BY AncestorsBelowTop
  <1> HIDE DEF T
  <1>4. ASSUME NEW x, NEW y, Provable(e, T, x), Provable(e, T, y), Apart(e, T, x, y)
        PROVE  Provable(e, S, x) /\ Provable(e, S, y) /\ Apart(e, S, x, y)
    <2>1. x \in S /\ y \in S
      BY <1>2, <1>4 DEF Provable, Apart, T
    <2> QED BY <1>3, <1>4, <2>1 DEF Provable, Apart, T
  <1>5. \A pair : pair \in concurrent_claim_advisories(e, T) => pair \in concurrent_claim_advisories(e, S)
    BY <1>4, Advisories
  <1> QED BY <1>5 DEF T

-----------------------------------------------------------------------------
(* Rows and leases.                                                        *)

Kinds == {"issue.created", "issue.field_set", "issue.closed", "issue.canceled", "issue.reopened",
          "claim.acquired", "claim.renewed", "claim.released", "claim.expired",
          "wait.added", "wait.removed"}

Events == [kind : Kinds, at : Nat, parents : SUBSET Nat, actor : Actors \cup {None},
           status : Statuses \cup {None}, summary : Summaries \cup {None}, until : Nat,
           ref : Nat, forced : BOOLEAN]

LeaseRows == [id : Nat, actor : Actors \cup {None}, since : Nat, until : Nat, out : Nat]

Rows == [row : BOOLEAN, status : Statuses \cup {None}, summary : Summaries \cup {None},
         releases : Nat, leases : SUBSET LeaseRows]

IsEnd(x) == x.kind \in {"claim.released", "claim.expired"}

\* What an event may do to the leases.
LeaseStep(e, i, L, M) ==
    /\ \A l \in L : \E m \in M : m.id = l.id
    /\ IsAcquire(e[i]) => \E m \in M : m.id = i
    /\ \A m \in M : \/ IsAcquire(e[i]) /\ m.id = i /\ m.out = Never
                    \/ \E l \in L : /\ l.id = m.id
                                    /\ \/ m.out = l.out
                                       \/ IsEnd(e[i]) /\ e[i].ref = m.id /\ m.out = e[i].at
    /\ \A m \in M : IsEnd(e[i]) /\ e[i].ref = m.id => m.out = e[i].at

\* Never is an instant that no clock reaches.
LEMMA NeverIsNat == Never \in Nat
  BY TrackerConstants

\* The image of a finite set is finite.
LEMMA FiniteImage ==
  ASSUME NEW S, IsFiniteSet(S), NEW f, DOMAIN f = S
  PROVE  IsFiniteSet({f[x] : x \in S})
  <1> DEFINE T == {f[x] : x \in S}
  <1>1. \A y \in T : \E x \in S : f[x] = y
    OBVIOUS
  <1>2. [x \in S |-> f[x]] \in Surjection(S, T)
    BY DEF Surjection
  <1> QED BY <1>2, FS_Surjection

Renewed(L, D, v) == {IF k.id \in D THEN [k EXCEPT !.until = v] ELSE k : k \in L}
Freed(L, D, v) == {IF k.id \in D THEN [k EXCEPT !.out = v] ELSE k : k \in L}

\* Renewing or ending leases keeps them leases, and finitely many.
LEMMA MappedLeases ==
  ASSUME NEW L \in SUBSET LeaseRows, IsFiniteSet(L), NEW D, NEW v \in Nat
  PROVE  /\ Renewed(L, D, v) \in SUBSET LeaseRows /\ IsFiniteSet(Renewed(L, D, v))
         /\ Freed(L, D, v) \in SUBSET LeaseRows /\ IsFiniteSet(Freed(L, D, v))
  <1> DEFINE f == [k \in L |-> IF k.id \in D THEN [k EXCEPT !.until = v] ELSE k]
             g == [k \in L |-> IF k.id \in D THEN [k EXCEPT !.out = v] ELSE k]
  <1>1. \A k \in LeaseRows : [k EXCEPT !.until = v] \in LeaseRows /\ [k EXCEPT !.out = v] \in LeaseRows
    BY DEF LeaseRows
  <1>2. {f[k] : k \in L} = Renewed(L, D, v) /\ DOMAIN f = L
    BY DEF Renewed
  <1>3. {g[k] : k \in L} = Freed(L, D, v) /\ DOMAIN g = L
    BY DEF Freed
  <1>4. Renewed(L, D, v) \in SUBSET LeaseRows /\ Freed(L, D, v) \in SUBSET LeaseRows
    BY <1>1 DEF Renewed, Freed
  <1> HIDE DEF f, g
  <1>5. IsFiniteSet({f[k] : k \in L}) /\ IsFiniteSet({g[k] : k \in L})
    BY <1>2, <1>3, FiniteImage
  <1> QED BY <1>2, <1>3, <1>4, <1>5

\* The leases after an event, by its kind.
LeasesAfter(L, i, x) ==
    IF IsAcquire(x) THEN L \cup {Lease(i, x)}
    ELSE IF x.kind = "claim.renewed"
    THEN Renewed(L, {x.ref}, x.until)
    ELSE IF IsEnd(x) THEN Freed(L, {x.ref}, x.at)
    ELSE L

\* fold_event keeps the type of a row, and does to its leases what the kind says.
LEMMA FoldType ==
  ASSUME NEW p \in Rows, IsFiniteSet(p.leases), NEW e, NEW i \in Nat, e[i] \in Events
  PROVE  /\ fold_event(e, p, i) \in Rows
         /\ fold_event(e, p, i).leases = LeasesAfter(p.leases, i, e[i])
         /\ IsFiniteSet(fold_event(e, p, i).leases)
  <1> DEFINE x == e[i]
             q == fold_event(e, p, i)
             L == p.leases
             M == Renewed(L, {x.ref}, x.until)
             N == Freed(L, {x.ref}, x.at)
  <1>a. /\ L \in SUBSET LeaseRows /\ x.ref \in Nat /\ x.until \in Nat /\ x.at \in Nat
        /\ x.status \in Statuses \cup {None} /\ x.summary \in Summaries \cup {None}
        /\ x.actor \in Actors \cup {None} /\ p.row \in BOOLEAN /\ p.releases \in Nat
    BY DEF Rows, Events
  <1>1. /\ M \in SUBSET LeaseRows /\ N \in SUBSET LeaseRows
        /\ IsFiniteSet(M) /\ IsFiniteSet(N)
    BY <1>a, MappedLeases
  <1>2. M = {IF k.id = x.ref THEN [k EXCEPT !.until = x.until] ELSE k : k \in L}
    BY DEF Renewed
  <1>3. N = {IF k.id = x.ref THEN [k EXCEPT !.out = x.at] ELSE k : k \in L}
    BY DEF Freed
  <1>4. Lease(i, x) \in LeaseRows /\ IsFiniteSet(L \cup {Lease(i, x)})
    BY <1>a, NeverIsNat, FS_AddElement DEF Lease, LeaseRows
  <1>5. CASE x.kind = "issue.created"
    <2>1. q = [p EXCEPT !.row = TRUE, !.status = "open"]
      BY <1>5 DEF fold_event
    <2>2. q \in Rows /\ q.leases = L
      BY <2>1 DEF Rows, Statuses
    <2> QED BY <1>5, <2>2 DEF LeasesAfter, IsAcquire, IsEnd
  <1>6. CASE x.kind = "issue.field_set"
    <2>1. q = IF p.row THEN [p EXCEPT !.status = x.status] ELSE p
      BY <1>6 DEF fold_event
    <2>2. q \in Rows /\ q.leases = L
      BY <1>a, <2>1 DEF Rows
    <2> QED BY <1>6, <2>2 DEF LeasesAfter, IsAcquire, IsEnd
  <1>7. CASE x.kind \in {"issue.closed", "issue.canceled", "issue.reopened"}
    <2>1. q = fold_set_status(p, x)
      BY <1>7 DEF fold_event
    <2>2. q \in Rows /\ q.leases = L
      BY <1>a, <2>1 DEF Rows, fold_set_status
    <2> QED BY <1>7, <2>2 DEF LeasesAfter, IsAcquire, IsEnd
  <1>8. CASE x.kind = "claim.acquired"
    <2>1. q = [p EXCEPT !.leases = @ \cup {Lease(i, x)}]
      BY <1>8 DEF fold_event
    <2>2. q \in Rows /\ q.leases = L \cup {Lease(i, x)}
      BY <1>a, <1>4, <2>1 DEF Rows
    <2> QED BY <1>4, <1>8, <2>2 DEF LeasesAfter, IsAcquire
  <1>9. CASE x.kind = "claim.renewed"
    <2>1. q = [p EXCEPT !.leases = M]
      BY <1>2, <1>9 DEF fold_event, Extended
    <2>2. q \in Rows /\ q.leases = M
      BY <1>1, <2>1 DEF Rows
    <2> QED BY <1>1, <1>9, <2>2 DEF LeasesAfter, IsAcquire
  <1>10. CASE x.kind \in {"claim.released", "claim.expired"}
    <2>1. q = [p EXCEPT !.leases = N, !.releases = IF p.row THEN p.releases + 1 ELSE p.releases]
      BY <1>3, <1>10 DEF fold_event, Ended
    <2> DEFINE r == IF p.row THEN p.releases + 1 ELSE p.releases
    <2>a. r \in Nat
      BY <1>a
    <2>b. q = [p EXCEPT !.leases = N, !.releases = r]
      BY <2>1
    <2> HIDE DEF r, N
    <2>2. q \in Rows /\ q.leases = N
      BY <1>1, <2>a, <2>b DEF Rows
    <2> QED BY <1>1, <1>10, <2>2 DEF LeasesAfter, IsAcquire, IsEnd, N
  <1>11. CASE x.kind \in {"wait.added", "wait.removed"}
    <2>1. q = p
      BY <1>11 DEF fold_event
    <2> QED BY <1>11, <2>1 DEF LeasesAfter, IsAcquire, IsEnd
  <1>12. x.kind \in Kinds
    BY DEF Events
  <1> QED BY <1>5, <1>6, <1>7, <1>8, <1>9, <1>10, <1>11, <1>12 DEF Kinds

\* Whatever the kind of an event, it is one of the steps of LeaseStep.
LEMMA LeaseSteps ==
  ASSUME NEW L \in SUBSET LeaseRows, NEW e, NEW i \in Nat, e[i] \in Events
  PROVE  LeaseStep(e, i, L, LeasesAfter(L, i, e[i]))
  <1> DEFINE x == e[i]
             M == LeasesAfter(L, i, x)
  <1>1. CASE IsAcquire(x)
    <2>1. M = L \cup {Lease(i, x)} /\ ~IsEnd(x)
      BY <1>1 DEF LeasesAfter, IsAcquire, IsEnd
    <2>2. Lease(i, x).id = i /\ Lease(i, x).out = Never
      BY DEF Lease
    <2> HIDE DEF M, x
    <2>3. LeaseStep(e, i, L, M)
      BY <1>1, <2>1, <2>2 DEF LeaseStep, x
    <2> QED BY <2>3 DEF M, x
  <1>2. CASE x.kind = "claim.renewed"
    <2>1. M = Renewed(L, {x.ref}, x.until) /\ ~IsEnd(x) /\ ~IsAcquire(x)
      BY <1>2 DEF LeasesAfter, IsAcquire, IsEnd
    <2>2. ASSUME NEW l \in L PROVE \E m \in M : m.id = l.id
      <3> DEFINE m == IF l.id \in {x.ref} THEN [l EXCEPT !.until = x.until] ELSE l
      <3>1. m \in M
        BY <2>1 DEF Renewed
      <3>2. m.id = l.id
        BY DEF LeaseRows
      <3> QED BY <3>1, <3>2
    <2>3. ASSUME NEW m \in M PROVE \E l \in L : l.id = m.id /\ m.out = l.out
      <3>1. PICK l \in L : m = IF l.id \in {x.ref} THEN [l EXCEPT !.until = x.until] ELSE l
        BY <2>1, <2>3 DEF Renewed
      <3>2. m.id = l.id /\ m.out = l.out
        BY <3>1 DEF LeaseRows
      <3> QED BY <3>2
    <2> HIDE DEF M
    <2>4. LeaseStep(e, i, L, M)
      BY <2>1, <2>2, <2>3 DEF LeaseStep
    <2> QED BY <2>4 DEF M
  <1>3. CASE IsEnd(x)
    <2>1. M = Freed(L, {x.ref}, x.at) /\ ~IsAcquire(x)
      BY <1>3 DEF LeasesAfter, IsAcquire, IsEnd
    <2>2. ASSUME NEW l \in L PROVE \E m \in M : m.id = l.id
      <3> DEFINE m == IF l.id \in {x.ref} THEN [l EXCEPT !.out = x.at] ELSE l
      <3>1. m \in M
        BY <2>1 DEF Freed
      <3>2. m.id = l.id
        BY DEF LeaseRows
      <3> QED BY <3>1, <3>2
    <2>3. ASSUME NEW m \in M
          PROVE  /\ \E l \in L : l.id = m.id /\ (m.out = l.out \/ (x.ref = m.id /\ m.out = x.at))
                 /\ x.ref = m.id => m.out = x.at
      <3>1. PICK l \in L : m = IF l.id \in {x.ref} THEN [l EXCEPT !.out = x.at] ELSE l
        BY <2>1, <2>3 DEF Freed
      <3>2. m.id = l.id /\ m.out = IF l.id = x.ref THEN x.at ELSE l.out
        BY <3>1 DEF LeaseRows
      <3> QED BY <3>2
    <2> HIDE DEF M
    <2>4. \A m \in M : \E l \in L : /\ l.id = m.id
                                   /\ \/ m.out = l.out
                                      \/ IsEnd(e[i]) /\ e[i].ref = m.id /\ m.out = e[i].at
      BY <1>3, <2>3
    <2>5. \A m \in M : IsEnd(e[i]) /\ e[i].ref = m.id => m.out = e[i].at
      BY <2>3
    <2>6. \A l \in L : \E m \in M : m.id = l.id
      BY <2>2
    <2>7. ~IsAcquire(e[i])
      BY <2>1
    <2>8. LeaseStep(e, i, L, M)
      BY <2>4, <2>5, <2>6, <2>7 DEF LeaseStep
    <2> QED BY <2>8 DEF M
  <1>4. CASE ~IsAcquire(x) /\ x.kind # "claim.renewed" /\ ~IsEnd(x)
    <2>1. M = L
      BY <1>4 DEF LeasesAfter
    <2> QED BY <1>4, <2>1 DEF LeaseStep
  <1> QED BY <1>1, <1>2, <1>3, <1>4

-----------------------------------------------------------------------------
(* What the leases say of the events they were folded from.                *)

\* The first events of a sequence.
Earlier(s, n) == {s[m] : m \in 1..n}

\* In order: no event twice, and none before a parent.
InOrder(s, e, S, n) ==
    /\ s \in Seq(S) /\ Len(s) = n
    /\ \A m \in 1..n : /\ s[m] \in S \ Earlier(s, m - 1)
                       /\ e[s[m]].parents \cap S \in SUBSET Earlier(s, m - 1)

\* All the elements of a sequence are the elements up to its length.
LEMMA EarlierAll ==
  ASSUME NEW X, NEW s \in Seq(X)
  PROVE  Earlier(s, Len(s)) = ToSet(s)
  BY DEF Earlier, ToSet

\* The topological order places every event after the parents that are held.
LEMMA OrderInOrder ==
  ASSUME NEW e, Dag(e), NEW S \in SUBSET DOMAIN e
  PROVE  InOrder(topological_event_order(e, S), e, S, Cardinality(S))
  <1> DEFINE k == Cardinality(S)
  <1>1. IsFiniteSet(S)
    BY FS_Subset DEF Dag
  <1>2. PICK f : Placing(f, e, S)
    BY <1>1, PlacingExists
  <1>3. k \in Nat
    BY <1>2, OrderPrefixes
  <1>4. /\ \A n \in 0..k : Prefix(f[n], e, S, n)
        /\ \A n \in 1..k : \E x : Places(f[n - 1], f[n], e, S, x)
    BY <1>2, OrderPrefixes
  <1>5. f[0] = <<>>
    BY <1>2 DEF Placing
  <1> DEFINE Bad == {n \in 0..k : ~InOrder(f[n], e, S, n)}
  <1> HIDE DEF k
  <1>6. InOrder(f[0], e, S, 0)
    BY <1>5 DEF InOrder
  <1>7. ASSUME NEW n \in 1..k, InOrder(f[n - 1], e, S, n - 1) PROVE InOrder(f[n], e, S, n)
    <2> DEFINE s == f[n - 1]
               t == f[n]
    <2>1. PICK x : Places(s, t, e, S, x)
      BY <1>4
    <2>2. t = Append(s, x) /\ x \in S \ ToSet(s) /\ e[x].parents \cap S \in SUBSET ToSet(s)
      BY <2>1 DEF Places
    <2>3. s \in Seq(S) /\ Len(s) = n - 1 /\ n \in Nat /\ n > 0
      BY <1>3, <1>7 DEF InOrder
    <2>4. \A m \in 1..(n - 1) : /\ s[m] \in S \ Earlier(s, m - 1)
                               /\ e[s[m]].parents \cap S \in SUBSET Earlier(s, m - 1)
      BY <1>7 DEF InOrder
    <2>5. ToSet(s) = Earlier(s, n - 1)
      BY <2>3, EarlierAll
    <2> HIDE DEF s, t
    <2>6. t \in Seq(S) /\ Len(t) = n /\ t[n] = x /\ \A m \in 1..(n - 1) : t[m] = s[m]
      BY <2>2, <2>3
    <2>7. \A m \in 1..n : Earlier(t, m - 1) = Earlier(s, m - 1)
      BY <2>3, <2>6 DEF Earlier
    <2>8. ASSUME NEW m \in 1..n
          PROVE  t[m] \in S \ Earlier(t, m - 1) /\ e[t[m]].parents \cap S \in SUBSET Earlier(t, m - 1)
      <3>1. CASE m = n
        BY <2>2, <2>5, <2>6, <2>7, <3>1
      <3>2. CASE m # n
        <4>1. m \in 1..(n - 1)
          BY <2>3, <3>2
        <4> QED BY <2>4, <2>6, <2>7, <4>1
      <3> QED BY <3>1, <3>2
    <2>9. InOrder(t, e, S, n)
      BY <2>6, <2>8 DEF InOrder
    <2> QED BY <2>9 DEF t
  <1>8. ASSUME Bad # {} PROVE FALSE
    <2>1. Bad \in SUBSET Nat
      BY <1>3
    <2>2. PICK n \in Bad : \A m \in Bad : n <= m
      BY <1>8, <2>1, Least
    <2>3. n \in 0..k /\ ~InOrder(f[n], e, S, n)
      BY <2>2
    <2>4. n # 0
      BY <1>6, <2>3
    <2>5. n - 1 \in 0..k /\ n - 1 \notin Bad /\ n \in 1..k
      BY <1>3, <2>2, <2>3, <2>4
    <2>6. InOrder(f[n - 1], e, S, n - 1)
      BY <2>5
    <2> QED BY <1>7, <2>3, <2>5, <2>6
  <1>9. InOrder(f[k], e, S, k)
    <2>1. k \in 0..k
      BY <1>3
    <2> QED BY <1>8, <2>1
  <1> QED BY <1>2, <1>9 DEF Placing, k

Ledger(e) == Dag(e) /\ \A i \in DOMAIN e : e[i] \in Events /\ e[i].at # Never
Whole(e, S) == \A i \in S : e[i].parents \in SUBSET S
Up(e, i) == Ancestors(e, DOMAIN e, i)

\* Every claim has its lease and every lease its claim, and one that is out
\* was ended by an event.
Traced(e, P, L) ==
    /\ \A i \in P : IsAcquire(e[i]) => \E l \in L : l.id = i
    /\ \A l \in L : /\ l.id \in P /\ IsAcquire(e[l.id])
                    /\ l.out # Never => \E r \in P : IsEnd(e[r]) /\ e[r].ref = l.id

\* A lease that an event after its claim ended is out.
Settled(e, P, L) ==
    \A r \in P, l \in L : IsEnd(e[r]) /\ e[r].ref = l.id /\ l.id \in Up(e, r) => l.out # Never

\* A step on the leases keeps them traced to their events.
LEMMA TraceStep ==
  ASSUME NEW e, NEW P, NEW i, NEW L, NEW M, Traced(e, P, L), LeaseStep(e, i, L, M)
  PROVE  Traced(e, P \cup {i}, M)
  <1>1. ASSUME NEW j \in P \cup {i}, IsAcquire(e[j]) PROVE \E m \in M : m.id = j
    <2>1. CASE j = i
      BY <1>1, <2>1 DEF LeaseStep
    <2>2. CASE j \in P
      <3>1. PICK l \in L : l.id = j
        BY <1>1, <2>2 DEF Traced
      <3>2. PICK m \in M : m.id = l.id
        BY DEF LeaseStep
      <3> QED BY <3>1, <3>2
    <2> QED BY <2>1, <2>2
  <1>2. ASSUME NEW m \in M
        PROVE  /\ m.id \in P \cup {i} /\ IsAcquire(e[m.id])
               /\ m.out # Never => \E r \in P \cup {i} : IsEnd(e[r]) /\ e[r].ref = m.id
    <2>1. CASE IsAcquire(e[i]) /\ m.id = i /\ m.out = Never
      BY <2>1
    <2>2. CASE \E l \in L : /\ l.id = m.id
                            /\ \/ m.out = l.out
                               \/ IsEnd(e[i]) /\ e[i].ref = m.id /\ m.out = e[i].at
      <3>1. PICK l \in L : /\ l.id = m.id
                           /\ \/ m.out = l.out
                              \/ IsEnd(e[i]) /\ e[i].ref = m.id /\ m.out = e[i].at
        BY <2>2
      <3>2. m.id \in P /\ IsAcquire(e[m.id])
        BY <3>1 DEF Traced
      <3>3. l.out # Never => \E r \in P : IsEnd(e[r]) /\ e[r].ref = m.id
        BY <3>1 DEF Traced
      <3> QED BY <3>1, <3>2, <3>3
    <2> QED BY <2>1, <2>2 DEF LeaseStep
  <1> QED BY <1>1, <1>2 DEF Traced

\* A lease ended after its claim stays out, whatever comes later.
LEMMA SettleStep ==
  ASSUME NEW e, NEW P, NEW i, NEW L, NEW M, Traced(e, P, L), Settled(e, P, L),
         LeaseStep(e, i, L, M), e[i].at # Never, i \notin P, \A r \in P : Up(e, r) \in SUBSET P
  PROVE  Settled(e, P \cup {i}, M)
  <1>1. SUFFICES ASSUME NEW r \in P \cup {i}, NEW m \in M,
                        IsEnd(e[r]), e[r].ref = m.id, m.id \in Up(e, r)
                 PROVE  m.out # Never
    BY DEF Settled
  <1>2. CASE r = i
    BY <1>1, <1>2 DEF LeaseStep
  <1>3. CASE r \in P
    <2>1. m.id # i
      BY <1>1, <1>3
    <2>2. PICK l \in L : l.id = m.id /\ (m.out = l.out \/ m.out = e[i].at)
      BY <2>1 DEF LeaseStep
    <2>3. l.out # Never
      BY <1>1, <1>3, <2>2 DEF Settled
    <2> QED BY <2>2, <2>3
  <1> QED BY <1>2, <1>3

\* The leases of a fold are those of the claims folded, out where they were ended.
LEMMA FoldsTrace ==
  ASSUME NEW e, Ledger(e), NEW S \in SUBSET DOMAIN e
  PROVE  LET p == Folded(e, topological_event_order(e, S))
         IN  /\ p \in Rows /\ IsFiniteSet(p.leases) /\ Traced(e, S, p.leases)
             /\ Whole(e, S) => Settled(e, S, p.leases)
  <1> DEFINE t == topological_event_order(e, S)
             k == Cardinality(S)
             P(n) == Earlier(t, n)
  <1>1. Dag(e) /\ \A i \in DOMAIN e : e[i] \in Events /\ e[i].at # Never
    BY DEF Ledger
  <1>2. k \in Nat /\ t \in Seq(S) /\ Len(t) = k /\ ToSet(t) = S
    BY <1>1, OrderIsWhole
  <1>3. \A m \in 1..k : t[m] \in S \ P(m - 1) /\ e[t[m]].parents \cap S \in SUBSET P(m - 1)
    BY <1>1, OrderInOrder DEF InOrder
  <1>4. PICK a : Folding(a, e, t)
    BY <1>2, FoldingExists
  <1>5. P(k) = S /\ P(0) = {}
    BY <1>2, EarlierAll DEF Earlier
  <1> HIDE DEF k, t
  <1>6. \A n \in 1..k : P(n) = P(n - 1) \cup {t[n]}
    BY <1>2 DEF Earlier
  <1>7. a[0] = NoRow /\ \A n \in 1..k : a[n] = fold_event(e, a[n - 1], t[n])
    BY <1>2, <1>4 DEF Folding
  <1>8. ASSUME Whole(e, S), NEW n \in 0..k PROVE \A r \in P(n) : Up(e, r) \in SUBSET P(n)
    <2>1. ASSUME NEW r \in P(n) PROVE r \in DOMAIN e /\ e[r].parents \in SUBSET P(n)
      <3>1. PICK m \in 1..n : r = t[m]
        BY DEF Earlier
      <3>2. m \in 1..k /\ P(m - 1) \in SUBSET P(n)
        BY <1>2, <3>1 DEF Earlier
      <3>3. r \in S /\ e[r].parents \in SUBSET S
        BY <1>3, <1>8, <3>1, <3>2 DEF Whole
      <3> QED BY <1>3, <3>1, <3>2, <3>3
    <2> DEFINE V == P(n)
    <2>2. Closed(e, DOMAIN e, V)
      BY <2>1 DEF Closed
    <2>3. IsFiniteSet(DOMAIN e)
      BY <1>1 DEF Dag
    <2> QED BY <2>1, <2>2, <2>3, AncestorsLeast DEF Up
  <1> DEFINE Good(n) == /\ a[n] \in Rows /\ IsFiniteSet(a[n].leases) /\ Traced(e, P(n), a[n].leases)
                        /\ Whole(e, S) => Settled(e, P(n), a[n].leases)
             Bad == {n \in 0..k : ~Good(n)}
  <1>9. Good(0)
    <2>1. NoRow \in Rows /\ NoRow.leases = {}
      BY DEF NoRow, Rows
    <2>2. Traced(e, {}, {}) /\ Settled(e, {}, {})
      BY DEF Traced, Settled
    <2> QED BY <1>5, <1>7, <2>1, <2>2, FS_EmptySet
  <1>10. ASSUME NEW n \in 1..k, Good(n - 1) PROVE Good(n)
    <2> DEFINE p == a[n - 1]
               i == t[n]
               L == p.leases
               M == a[n].leases
               Q == P(n - 1)
    <2>1. i \in S \ Q /\ i \in DOMAIN e /\ i \in Nat /\ e[i] \in Events /\ e[i].at # Never
      BY <1>1, <1>3 DEF Dag
    <2>2. p \in Rows /\ IsFiniteSet(L) /\ Traced(e, Q, L) /\ L \in SUBSET LeaseRows
      BY <1>10 DEF Rows
    <2>3. a[n] = fold_event(e, p, i) /\ P(n) = Q \cup {i}
      BY <1>6, <1>7
    <2>4. a[n] \in Rows /\ M = LeasesAfter(L, i, e[i]) /\ IsFiniteSet(M)
      BY <2>1, <2>2, <2>3, FoldType
    <2>5. LeaseStep(e, i, L, M)
      BY <2>1, <2>2, <2>4, LeaseSteps
    <2>6. n - 1 \in 0..k
      BY <1>2
    <2>7. Whole(e, S) => Settled(e, Q, L) /\ \A r \in Q : Up(e, r) \in SUBSET Q
      BY <1>8, <1>10, <2>6
    <2> HIDE DEF i, L, M, Q, p, P
    <2>8. Traced(e, Q \cup {i}, M)
      BY <2>2, <2>5, TraceStep
    <2>9. Whole(e, S) => Settled(e, Q \cup {i}, M)
      BY <2>1, <2>2, <2>5, <2>7, SettleStep
    <2> QED BY <2>3, <2>4, <2>8, <2>9 DEF M
  <1> HIDE DEF Good
  <1>11. ASSUME Bad # {} PROVE FALSE
    <2>1. Bad \in SUBSET Nat
      BY <1>2
    <2>2. PICK n \in Bad : \A m \in Bad : n <= m
      BY <1>11, <2>1, Least
    <2>3. n \in 0..k /\ ~Good(n)
      BY <2>2
    <2>4. n # 0
      BY <1>9, <2>3
    <2>5. n - 1 \in 0..k /\ n - 1 \notin Bad /\ n \in 1..k
      BY <1>2, <2>2, <2>3, <2>4
    <2>6. Good(n - 1)
      BY <2>5
    <2> QED BY <1>10, <2>3, <2>5, <2>6
  <1>12. Good(k)
    <2>1. k \in 0..k
      BY <1>2
    <2> QED BY <1>11, <2>1
  <1>13. Folded(e, t) = a[k]
    BY <1>2, <1>4 DEF Folding
  <1> QED BY <1>5, <1>12, <1>13 DEF Good, t

\* The same for what a rebuild shows.
LEMMA ShownTraces ==
  ASSUME NEW e, Ledger(e), NEW S \in SUBSET DOMAIN e
  PROVE  LET p == Shown(e, S)
         IN  /\ p \in Rows /\ IsFiniteSet(p.leases)
             /\ IsFiled(e, S) => Traced(e, S, p.leases)
             /\ ~IsFiled(e, S) => p.leases = {}
             /\ Whole(e, S) => Settled(e, S, p.leases)
  <1>1. CASE IsFiled(e, S)
    BY <1>1, FoldsTrace DEF Shown
  <1>2. CASE ~IsFiled(e, S)
    <2>1. Shown(e, S) = NoRow /\ NoRow \in Rows /\ NoRow.leases = {}
      BY <1>2 DEF Shown, NoRow, Rows
    <2>2. Settled(e, S, {})
      BY DEF Settled
    <2> QED BY <1>2, <2>1, <2>2, FS_EmptySet
  <1> QED BY <1>1, <1>2

-----------------------------------------------------------------------------
(* One event more.                                                         *)

\* What is below an event was settled when it was written.
LEMMA UpGrows ==
  ASSUME NEW e, Dag(e), NEW g, Dag(g), DOMAIN e \in SUBSET DOMAIN g,
         \A j \in DOMAIN e : g[j] = e[j]
  PROVE  \A j \in DOMAIN e : Up(g, j) = Up(e, j) /\ Up(e, j) \in SUBSET DOMAIN e
  <1> TAKE j \in DOMAIN e
  <1> DEFINE A == Up(e, j)
             B == Up(g, j)
  <1>1. IsFiniteSet(DOMAIN e) /\ IsFiniteSet(DOMAIN g)
    BY DEF Dag
  <1>2. /\ e[j].parents \in SUBSET A /\ Closed(e, DOMAIN e, A)
        /\ \A V : e[j].parents \in SUBSET V /\ Closed(e, DOMAIN e, V) => A \in SUBSET V
    BY <1>1, AncestorsLeast DEF Up
  <1>3. /\ g[j].parents \in SUBSET B /\ Closed(g, DOMAIN g, B)
        /\ \A V : g[j].parents \in SUBSET V /\ Closed(g, DOMAIN g, V) => B \in SUBSET V
    BY <1>1, AncestorsLeast DEF Up
  <1> HIDE DEF A, B
  <1>4. e[j].parents \in SUBSET DOMAIN e /\ Closed(e, DOMAIN e, DOMAIN e)
    BY DEF Dag, Closed
  <1>5. A \in SUBSET DOMAIN e
    BY <1>2, <1>4
  <1>6. Closed(g, DOMAIN g, A) /\ g[j].parents = e[j].parents
    BY <1>2, <1>5 DEF Closed
  <1>7. Closed(e, DOMAIN e, B)
    BY <1>3 DEF Closed
  <1> QED BY <1>2, <1>3, <1>5, <1>6, <1>7 DEF A, B

\* Over a history without holes, what is below is what was held.
LEMMA UpOfTop ==
  ASSUME NEW e, Dag(e), NEW S \in SUBSET DOMAIN e, NEW i, Tops(e, S, i)
  PROVE  S \in SUBSET Up(e, i) /\ (Whole(e, S) => Up(e, i) = S)
  <1>1. S \in SUBSET Up(e, i)
    BY AllBelowTop DEF Up
  <1>2. ASSUME Whole(e, S) PROVE Up(e, i) \in SUBSET S
    <2>1. IsFiniteSet(DOMAIN e)
      BY DEF Dag
    <2>2. e[i].parents \in SUBSET S
      BY DEF Tops, dag_frontier
    <2>3. Closed(e, DOMAIN e, S)
      BY <1>2 DEF Whole, Closed
    <2> QED BY <2>1, <2>2, <2>3, AncestorsLeast DEF Up
  <1> QED BY <1>1, <1>2

\* The summary decides nothing else.
LEMMA ColumnsStep ==
  ASSUME NEW p \in Rows, NEW q \in Rows, Columns(p) = Columns(q), NEW e, NEW i, e[i] \in Events
  PROVE  Columns(fold_event(e, p, i)) = Columns(fold_event(e, q, i))
  <1> DEFINE x == e[i]
  <1>1. p.row = q.row /\ p.status = q.status /\ p.releases = q.releases /\ p.leases = q.leases
    BY DEF Columns
  <1>2. CASE x.kind = "issue.created"
    BY <1>1, <1>2 DEF fold_event, Columns, Rows
  <1>3. CASE x.kind = "issue.field_set"
    BY <1>1, <1>3 DEF fold_event, Columns, Rows
  <1>4. CASE x.kind \in {"issue.closed", "issue.canceled", "issue.reopened"}
    <2>1. fold_event(e, p, i) = fold_set_status(p, x) /\ fold_event(e, q, i) = fold_set_status(q, x)
      BY <1>4 DEF fold_event
    <2>2. Columns(fold_set_status(p, x)) = Columns(fold_set_status(q, x))
      BY <1>1 DEF fold_set_status, Columns, Rows
    <2> QED BY <2>1, <2>2
  <1>5. CASE x.kind = "claim.acquired"
    BY <1>1, <1>5 DEF fold_event, Columns, Rows
  <1>6. CASE x.kind = "claim.renewed"
    <2>1. fold_event(e, p, i) = Extended(p, x.ref, x.until) /\ fold_event(e, q, i) = Extended(q, x.ref, x.until)
      BY <1>6 DEF fold_event
    <2> DEFINE M == {IF k.id = x.ref THEN [k EXCEPT !.until = x.until] ELSE k : k \in p.leases}
    <2>2. Extended(p, x.ref, x.until) = [p EXCEPT !.leases = M]
      BY DEF Extended
    <2>3. Extended(q, x.ref, x.until) = [q EXCEPT !.leases = M]
      BY <1>1 DEF Extended
    <2> HIDE DEF M
    <2> QED BY <1>1, <2>1, <2>2, <2>3 DEF Columns, Rows
  <1>7. CASE x.kind \in {"claim.released", "claim.expired"}
    <2>1. fold_event(e, p, i) = Ended(p, x.ref, x.at) /\ fold_event(e, q, i) = Ended(q, x.ref, x.at)
      BY <1>7 DEF fold_event
    <2> DEFINE M == {IF k.id = x.ref THEN [k EXCEPT !.out = x.at] ELSE k : k \in p.leases}
               r == IF p.row THEN p.releases + 1 ELSE p.releases
    <2>2. Ended(p, x.ref, x.at) = [p EXCEPT !.leases = M, !.releases = r]
      BY DEF Ended
    <2>3. Ended(q, x.ref, x.at) = [q EXCEPT !.leases = M, !.releases = r]
      BY <1>1 DEF Ended
    <2> HIDE DEF M, r
    <2> QED BY <1>1, <2>1, <2>2, <2>3 DEF Columns, Rows
  <1>8. CASE x.kind \in {"wait.added", "wait.removed"}
    BY <1>1, <1>8 DEF fold_event, Columns
  <1>9. x.kind \in Kinds
    BY DEF Events
  <1> QED BY <1>2, <1>3, <1>4, <1>5, <1>6, <1>7, <1>8, <1>9 DEF Kinds

\* The event that a body becomes.
Written(x, b) ==
    /\ x \in Events /\ x.kind = b.kind /\ x.at = now /\ x.actor = b.actor /\ x.status = b.status
    /\ x.summary = b.summary /\ x.until = b.until /\ x.ref = b.ref /\ x.forced = b.forced

\* A store after tx_append_raw.
Appended(a, t, b, i) ==
    /\ Ledger(t.ev) /\ DOMAIN t.ev = DOMAIN a.ev \cup {i} /\ \A j \in DOMAIN a.ev : t.ev[j] = a.ev[j]
    /\ t.log \in Seq(DOMAIN t.ev) /\ ToSet(t.log) = ToSet(a.log) \cup {i}
    /\ Tops(t.ev, ToSet(a.log), i) /\ Written(t.ev[i], b)

\* tx_append_raw adds one event, above all that the clone holds.
LEMMA AppendStep ==
  ASSUME NEW a, Ledger(a.ev), a.log \in Seq(DOMAIN a.ev), NEW b \in Events, NEW i \in Nat,
         now \in Nat, now # Never, tx_append_raw(a, b, i).ok
  PROVE  a.ok /\ Appended(a, tx_append_raw(a, b, i), b, i)
  <1> DEFINE e == a.ev
             S == ToSet(a.log)
             x == [b EXCEPT !.at = now, !.parents = dag_frontier(e, S)]
             known == {j \in DOMAIN e : e[j] = x}
             t == tx_append_raw(a, b, i)
             ok == /\ a.ok
                   /\ IF known # {} THEN i \in known
                      ELSE i \notin DOMAIN e /\ (AnyHash \/ i = Cardinality(DOMAIN e) + 1)
  <1>1. t = [ev |-> Put(e, i, x), log |-> Append(a.log, i), ok |-> ok]
    BY DEF tx_append_raw
  <1>2. Dag(e) /\ S \in SUBSET DOMAIN e /\ DOMAIN e \in SUBSET Nat
    <2>1. S \in SUBSET DOMAIN e
      BY ToSetSeq
    <2> QED BY <2>1 DEF Ledger, Dag
  <1>3. dag_frontier(e, S) \in SUBSET Nat
    BY <1>2 DEF dag_frontier
  <1>4. x.parents = dag_frontier(e, S) /\ Written(x, b)
    <2> DEFINE F == dag_frontier(e, S)
    <2>1. x = [b EXCEPT !.at = now, !.parents = F]
      OBVIOUS
    <2> HIDE DEF F, x
    <2>2. F \in SUBSET Nat
      BY <1>3 DEF F
    <2>3. x \in Events
      BY <2>1, <2>2 DEF Events
    <2>4. /\ x.kind = b.kind /\ x.at = now /\ x.parents = F /\ x.actor = b.actor
          /\ x.status = b.status /\ x.summary = b.summary /\ x.until = b.until
          /\ x.ref = b.ref /\ x.forced = b.forced
      BY <2>1 DEF Events
    <2> QED BY <2>3, <2>4 DEF Written, F
  <1>5. t.ev = Put(e, i, x) /\ t.log = Append(a.log, i) /\ t.ok = ok
    BY <1>1
  <1>6. ok
    BY <1>5
  <1>7. i \in DOMAIN e => e[i] = x
    BY <1>6
  <1> HIDE DEF x, ok, t
  <1>8. /\ Dag(t.ev) /\ DOMAIN t.ev = DOMAIN e \cup {i} /\ t.ev[i] = x
        /\ \A j \in DOMAIN e : t.ev[j] = e[j]
        /\ Tops(t.ev, S, i)
    <2> DEFINE g == Put(e, i, x)
    <2> HIDE DEF e, S
    <2>1. Wrote(e, g, S, i, x)
      BY <1>2, <1>4, <1>7, WriteKeepsDag
    <2> QED BY <1>5, <2>1 DEF Wrote
  <1>9. t.log \in Seq(DOMAIN t.ev) /\ ToSet(t.log) = S \cup {i}
    <2>1. a.log \in Seq(DOMAIN t.ev) /\ i \in DOMAIN t.ev
      BY <1>8
    <2> QED BY <1>5, <2>1, ToSetSeq
  <1>10. \A j \in DOMAIN t.ev : t.ev[j] \in Events /\ t.ev[j].at # Never
    BY <1>4, <1>8 DEF Ledger, Written
  <1>11. a.ok
    BY <1>6 DEF ok
  <1> QED BY <1>4, <1>8, <1>9, <1>10, <1>11 DEF Appended, Ledger, t

-----------------------------------------------------------------------------
(* One transaction.                                                        *)

\* An event that ends a lease comes after the claim.
EndsFollow(e) == \A r \in DOMAIN e : IsEnd(e[r]) => e[r].ref \in Up(e, r)

\* A claim granted over a history without holes comes after the end of every
\* earlier one; B are the claims that were not.
ClaimsFollow(e, B) ==
    \A l \in DOMAIN e \ B : IsAcquire(e[l]) =>
        \A k \in Up(e, l) : IsAcquire(e[k]) => \E r \in Up(e, l) : IsEnd(e[r]) /\ e[r].ref = k

\* It keeps ends after their claims when it ends a claim that is held.
LEMMA EndsFollowStep ==
  ASSUME NEW a, Ledger(a.ev), a.log \in Seq(DOMAIN a.ev), EndsFollow(a.ev),
         NEW t, NEW b, NEW i, Appended(a, t, b, i),
         IsEnd(b) => b.ref \in ToSet(a.log)
  PROVE  EndsFollow(t.ev)
  <1> DEFINE e == a.ev
             g == t.ev
             S == ToSet(a.log)
  <1>1. /\ Dag(e) /\ Dag(g) /\ DOMAIN g = DOMAIN e \cup {i} /\ Tops(g, S, i) /\ Written(g[i], b)
        /\ \A j \in DOMAIN e : g[j] = e[j]
    BY DEF Appended, Ledger
  <1>2. S \in SUBSET DOMAIN e
    BY ToSetSeq
  <1>3. \A r \in DOMAIN e : IsEnd(e[r]) => e[r].ref \in Up(e, r)
    BY DEF EndsFollow
  <1> HIDE DEF e, g, S
  <1>4. \A j \in DOMAIN e : Up(g, j) = Up(e, j)
    BY <1>1, UpGrows
  <1>5. S \in SUBSET Up(g, i)
    BY <1>1, <1>2, UpOfTop
  <1>6. IsEnd(g[i]) => g[i].ref \in S
    BY <1>1 DEF Written, IsEnd, S
  <1> QED BY <1>1, <1>3, <1>4, <1>5, <1>6 DEF EndsFollow, g

\* A claim over a history without holes, all of whose claims have ended.
AllEnded(e, S) ==
    \A k \in S : IsAcquire(e[k]) => \E r \in S : IsEnd(e[r]) /\ e[r].ref = k

\* It keeps claims after the ends of earlier ones when all that is held is ended.
LEMMA ClaimsFollowStep ==
  ASSUME NEW a, Ledger(a.ev), a.log \in Seq(DOMAIN a.ev), NEW B, ClaimsFollow(a.ev, B),
         NEW t, NEW b, NEW i, Appended(a, t, b, i),
         IsAcquire(b) /\ i \notin B => Whole(a.ev, ToSet(a.log)) /\ AllEnded(a.ev, ToSet(a.log))
  PROVE  ClaimsFollow(t.ev, B)
  <1> DEFINE e == a.ev
             g == t.ev
             S == ToSet(a.log)
  <1>1. /\ Dag(e) /\ Dag(g) /\ DOMAIN g = DOMAIN e \cup {i} /\ Tops(g, S, i) /\ Written(g[i], b)
        /\ \A j \in DOMAIN e : g[j] = e[j]
    BY DEF Appended, Ledger
  <1>2. S \in SUBSET DOMAIN e /\ S \in SUBSET DOMAIN g
    BY <1>1, ToSetSeq
  <1>3. IsAcquire(b) /\ i \notin B => Whole(e, S) /\ AllEnded(e, S)
    OBVIOUS
  <1>4. \A l \in DOMAIN e \ B : IsAcquire(e[l]) =>
           \A k \in Up(e, l) : IsAcquire(e[k]) => \E r \in Up(e, l) : IsEnd(e[r]) /\ e[r].ref = k
    BY DEF ClaimsFollow
  <1> HIDE DEF e, g, S
  <1>5. \A j \in DOMAIN e : Up(g, j) = Up(e, j) /\ Up(e, j) \in SUBSET DOMAIN e
    BY <1>1, UpGrows
  <1>6. ASSUME NEW l \in DOMAIN g \ B, IsAcquire(g[l]), NEW k \in Up(g, l), IsAcquire(g[k])
        PROVE  \E r \in Up(g, l) : IsEnd(g[r]) /\ g[r].ref = k
    <2>1. CASE l \in DOMAIN e
      <3>1. Up(g, l) = Up(e, l) /\ Up(e, l) \in SUBSET DOMAIN e /\ g[l] = e[l]
        BY <1>1, <1>5, <2>1
      <3>2. \A j \in Up(e, l) : g[j] = e[j]
        BY <1>1, <3>1
      <3>3. \E r \in Up(e, l) : IsEnd(e[r]) /\ e[r].ref = k
        BY <1>4, <1>6, <2>1, <3>1, <3>2
      <3> QED BY <3>1, <3>2, <3>3
    <2>2. CASE l \notin DOMAIN e
      <3>1. l = i
        BY <1>1, <2>2
      <3>2. IsAcquire(b)
        BY <1>1, <1>6, <3>1 DEF Written, IsAcquire
      <3>3. Whole(e, S) /\ AllEnded(e, S)
        BY <1>3, <1>6, <3>1, <3>2
      <3>4. Whole(g, S)
        BY <1>1, <1>2, <3>3 DEF Whole
      <3>5. Up(g, i) = S
        BY <1>1, <1>2, <3>4, UpOfTop
      <3>6. \A j \in S : g[j] = e[j]
        BY <1>1, <1>2
      <3> QED BY <1>6, <3>1, <3>3, <3>5, <3>6 DEF AllEnded
    <2> QED BY <2>1, <2>2
  <1>7. ClaimsFollow(g, B)
    BY <1>6 DEF ClaimsFollow
  <1> QED BY <1>7 DEF g

\* Every variable has its type, the events are a DAG, and nothing names an
\* event that was never written.
TrackerTypeOK ==
    /\ menu \in Menus /\ now \in 0..MaxTime /\ crashes \in 0..MaxCrashes
    /\ Ledger(ev) /\ DOMAIN ev \in SUBSET Ids
    /\ log \in [Clones -> Seq(DOMAIN ev)] /\ proj \in [Clones -> Rows]
    /\ reported \in [Clones -> SUBSET SUBSET DOMAIN ev] /\ blind \in SUBSET DOMAIN ev
    /\ DOMAIN dir \in SUBSET DOMAIN ev /\ pc \in [Clones -> Stages]
    /\ todo \in [Clones -> Seq(DOMAIN ev)] /\ seen \in [Clones -> SUBSET DOMAIN ev]

AllReported == \A c \in Clones : concurrent_claim_advisories(ev, Held(c)) \in SUBSET reported[c]

\* The inductive invariant.
TrackerInv ==
    TrackerTypeOK /\ LiveIsRebuilt /\ AllReported /\ EndsFollow(ev) /\ ClaimsFollow(ev, blind)

\* What the bodies of a transaction of c may be: of a filed issue, or its
\* filing; ends of leases the clone shows; and a claim once all are ended.
Allowed(c, bodies) ==
    /\ bodies \in Seq(Events) /\ bodies # <<>>
    /\ \/ IsFiled(ev, Held(c))
       \/ DOMAIN ev = {} /\ Len(bodies) = 1 /\ bodies[1].kind = "issue.created"
    /\ \A m \in 1..Len(bodies) : IsEnd(bodies[m]) => \E l \in proj[c].leases : l.id = bodies[m].ref
    /\ \A m \in 1..Len(bodies) : IsAcquire(bodies[m]) =>
          /\ \A n \in 1..(m - 1) : ~IsAcquire(bodies[n])
          /\ \A l \in proj[c].leases :
                l.out = Never => \E n \in 1..(m - 1) : IsEnd(bodies[n]) /\ bodies[n].ref = l.id

\* The rows q are those of the clone with the bodies applied one by one.
Applies(c, bodies, ids, q) ==
    /\ \A k \in 0..Len(bodies) : q[k] \in Rows
    /\ Columns(q[0]) = Columns(proj[c])
    /\ \A k \in 1..Len(bodies) : \A e : Written(e[ids[k]], bodies[k]) =>
          Columns(q[k]) = Columns(fold_event(e, q[k - 1], ids[k]))

BlindAfter(c, bodies, ids) == IF Complete(c) THEN blind ELSE blind \cup Earlier(ids, Len(bodies))

\* The store of the transaction after k bodies.
TxState(c, bodies, ids, q, x, k) ==
    /\ Ledger(x.ev) /\ DOMAIN x.ev = DOMAIN ev \cup Earlier(ids, k)
    /\ \A j \in DOMAIN ev : x.ev[j] = ev[j]
    /\ x.log \in Seq(DOMAIN x.ev) /\ ToSet(x.log) = Held(c) \cup Earlier(ids, k)
    /\ \A m \in 1..k : Written(x.ev[ids[m]], bodies[m])
    /\ Columns(q[k]) = Columns(Shown(x.ev, ToSet(x.log)))
    /\ concurrent_claim_advisories(x.ev, ToSet(x.log)) \in SUBSET concurrent_claim_advisories(ev, Held(c))
    /\ EndsFollow(x.ev) /\ ClaimsFollow(x.ev, BlindAfter(c, bodies, ids))
    /\ Complete(c) => Whole(x.ev, ToSet(x.log))

\* The clone's own leases, by the events it holds.
LEMMA OwnLeases ==
  ASSUME TrackerInv, NEW c \in Clones
  PROVE  /\ Held(c) \in SUBSET DOMAIN ev /\ IsFiniteSet(proj[c].leases)
         /\ proj[c].leases = Shown(ev, Held(c)).leases
         /\ proj[c].row = Shown(ev, Held(c)).row
         /\ IsFiled(ev, Held(c)) => Traced(ev, Held(c), proj[c].leases)
         /\ proj[c].leases # {} \/ proj[c].row => IsFiled(ev, Held(c))
         /\ Whole(ev, Held(c)) => Settled(ev, Held(c), proj[c].leases)
  <1>1. log[c] \in Seq(DOMAIN ev) /\ Ledger(ev)
    BY DEF TrackerInv, TrackerTypeOK
  <1>2. Held(c) \in SUBSET DOMAIN ev
    BY <1>1, ToSetSeq DEF Held
  <1>3. Columns(proj[c]) = Columns(Shown(ev, Held(c)))
    BY RebuildShows DEF TrackerInv, LiveIsRebuilt, Held
  <1> DEFINE p == Shown(ev, Held(c))
  <1>4. proj[c].leases = p.leases /\ proj[c].row = p.row
    BY <1>3 DEF Columns
  <1>5. /\ p \in Rows /\ IsFiniteSet(p.leases)
        /\ IsFiled(ev, Held(c)) => Traced(ev, Held(c), p.leases)
        /\ ~IsFiled(ev, Held(c)) => p.leases = {}
        /\ Whole(ev, Held(c)) => Settled(ev, Held(c), p.leases)
    BY <1>1, <1>2, ShownTraces
  <1>6. ~IsFiled(ev, Held(c)) => ~p.row
    BY DEF Shown, NoRow
  <1> HIDE DEF p
  <1> QED BY <1>2, <1>4, <1>5, <1>6 DEF p

\* One append keeps the state of a transaction.
LEMMA TxStep ==
  ASSUME TrackerInv, NEW c \in Clones, NEW bodies, Allowed(c, bodies), NEW ids \in [DOMAIN bodies -> Ids],
         NEW q, Applies(c, bodies, ids, q), NEW k \in 1..Len(bodies),
         NEW x, TxState(c, bodies, ids, q, x, k - 1), tx_append_raw(x, bodies[k], ids[k]).ok
  PROVE  x.ok /\ TxState(c, bodies, ids, q, tx_append_raw(x, bodies[k], ids[k]), k)
  <1> DEFINE b == bodies[k]
             i == ids[k]
             t == tx_append_raw(x, b, i)
             e == x.ev
             g == t.ev
             S == ToSet(x.log)
             T == ToSet(t.log)
             B == BlindAfter(c, bodies, ids)
             N == Len(bodies)
  <1>1. bodies \in Seq(Events) /\ N \in Nat /\ DOMAIN bodies = 1..N /\ b \in Events
    BY DEF Allowed
  <1>2. i \in Ids /\ i \in Nat
    BY <1>1, TrackerConstants DEF Ids, TrackerInv, TrackerTypeOK
  <1>3. now \in Nat /\ now # Never
    BY TrackerConstants DEF TrackerInv, TrackerTypeOK, MaxTime
  <1>4. Ledger(e) /\ x.log \in Seq(DOMAIN e)
    BY DEF TxState
  <1>5. x.ok /\ Appended(x, t, b, i)
    BY <1>1, <1>2, <1>3, <1>4, AppendStep
  <1> HIDE DEF t
  <1>6. /\ Ledger(g) /\ DOMAIN g = DOMAIN e \cup {i} /\ t.log \in Seq(DOMAIN g) /\ T = S \cup {i}
        /\ Tops(g, S, i) /\ Written(g[i], b)
        /\ \A j \in DOMAIN e : g[j] = e[j]
    BY <1>5 DEF Appended
  <1>7. k - 1 \in 0..N /\ k \in Nat /\ k \in 1..N
    BY <1>1
  <1>8. Earlier(ids, k) = Earlier(ids, k - 1) \cup {i}
    BY <1>7 DEF Earlier
  <1>9. /\ DOMAIN e = DOMAIN ev \cup Earlier(ids, k - 1) /\ S = Held(c) \cup Earlier(ids, k - 1)
        /\ \A j \in DOMAIN ev : e[j] = ev[j]
        /\ \A m \in 1..(k - 1) : Written(e[ids[m]], bodies[m])
    BY DEF TxState
  <1>10. /\ S \in SUBSET DOMAIN e /\ S \in SUBSET DOMAIN g /\ Dag(e) /\ Dag(g)
         /\ \A j \in S : g[j] = e[j]
    BY <1>4, <1>6, ToSetSeq DEF Ledger
  <1>11. DOMAIN g = DOMAIN ev \cup Earlier(ids, k) /\ T = Held(c) \cup Earlier(ids, k)
    BY <1>6, <1>8, <1>9
  <1>12. \A j \in DOMAIN ev : g[j] = ev[j]
    BY <1>6, <1>9
  <1>13. \A m \in 1..k : Written(g[ids[m]], bodies[m])
    <2> TAKE m \in 1..k
    <2>1. CASE m = k
      BY <1>6, <2>1
    <2>2. CASE m # k
      <3>1. m \in 1..(k - 1)
        BY <1>7, <2>2
      <3>2. ids[m] \in DOMAIN e
        BY <1>9, <3>1 DEF Earlier
      <3> QED BY <1>6, <1>9, <3>1, <3>2
    <2> QED BY <2>1, <2>2
  <1>14. Columns(q[k]) = Columns(Shown(g, T))
    <2>1. IsFiled(g, S) \/ (S = {} /\ g[i].kind = "issue.created")
      <3>1. CASE IsFiled(ev, Held(c))
        <4>1. Held(c) \in SUBSET DOMAIN ev
          BY OwnLeases
        <4> QED BY <1>9, <1>12, <3>1, <4>1 DEF IsFiled
      <3>2. CASE DOMAIN ev = {} /\ N = 1 /\ bodies[1].kind = "issue.created"
        <4>1. k = 1 /\ Earlier(ids, k - 1) = {}
          BY <1>7, <3>2 DEF Earlier
        <4>2. Held(c) \in SUBSET DOMAIN ev
          BY OwnLeases
        <4> QED BY <1>6, <1>9, <3>2, <4>1, <4>2 DEF Written
      <3> QED BY <3>1, <3>2 DEF Allowed
    <2>2. Shown(g, T) = fold_event(g, Shown(g, S), i)
      BY <1>6, <1>10, <2>1, FoldedLast
    <2>3. Shown(g, S) = Shown(e, S) /\ Shown(e, S) \in Rows
      BY <1>4, <1>10, SameShown, ShownTraces
    <2>4. q[k - 1] \in Rows /\ Columns(q[k - 1]) = Columns(Shown(e, S))
      BY <1>7 DEF Applies, TxState
    <2>5. g[i] \in Events
      BY <1>6 DEF Written
    <2>6. Columns(fold_event(g, q[k - 1], i)) = Columns(fold_event(g, Shown(e, S), i))
      BY <2>3, <2>4, <2>5, ColumnsStep
    <2>7. Columns(q[k]) = Columns(fold_event(g, q[k - 1], i))
      BY <1>6, <1>7 DEF Applies
    <2> QED BY <2>2, <2>3, <2>6, <2>7
  <1>15. concurrent_claim_advisories(g, T) \in SUBSET concurrent_claim_advisories(ev, Held(c))
    <2>1. concurrent_claim_advisories(g, T) \in SUBSET concurrent_claim_advisories(g, S)
      BY <1>6, <1>10, NoNewAdvisory
    <2>2. concurrent_claim_advisories(g, S) = concurrent_claim_advisories(e, S)
      <3>1. IsFiniteSet(S)
        BY <1>10, FS_Subset DEF Dag
      <3> QED BY <1>10, <3>1, SameAdvisories
    <2>3. concurrent_claim_advisories(e, S) \in SUBSET concurrent_claim_advisories(ev, Held(c))
      BY DEF TxState
    <2> QED BY <2>1, <2>2, <2>3
  <1>16. EndsFollow(g)
    <2>1. EndsFollow(e)
      BY DEF TxState
    <2>2. ASSUME IsEnd(b) PROVE b.ref \in S
      <3>1. PICK l \in proj[c].leases : l.id = b.ref
        BY <1>7, <2>2 DEF Allowed
      <3>2. Traced(ev, Held(c), proj[c].leases)
        BY <3>1, OwnLeases
      <3>3. b.ref \in Held(c)
        BY <3>1, <3>2 DEF Traced
      <3> QED BY <1>9, <3>3
    <2> QED BY <1>4, <1>5, <2>1, <2>2, EndsFollowStep
  <1>17. Complete(c) => Whole(g, T)
    <2>1. ASSUME Complete(c) PROVE Whole(g, T)
      <3>1. Whole(e, S)
        BY <2>1 DEF TxState
      <3>2. g[i].parents \in SUBSET S
        BY <1>6 DEF Tops, dag_frontier
      <3> HIDE DEF g, S, T, e
      <3> QED BY <1>6, <1>10, <3>1, <3>2 DEF Whole
    <2> QED BY <2>1
  <1>18. ClaimsFollow(g, B)
    <2>1. ClaimsFollow(e, B)
      BY DEF TxState
    <2>2. ASSUME IsAcquire(b), i \notin B PROVE Whole(e, S) /\ AllEnded(e, S)
      <3>1. Complete(c)
        <4>1. i \in Earlier(ids, N)
          BY <1>1, <1>7 DEF Earlier
        <4> QED BY <2>2, <4>1 DEF BlindAfter
      <3>2. Whole(e, S)
        BY <3>1 DEF TxState
      <3>3. IsFiled(ev, Held(c))
        <4>1. ASSUME Len(bodies) = 1, bodies[1].kind = "issue.created" PROVE FALSE
          <5>1. k = 1
            BY <1>7, <4>1
          <5> QED BY <2>2, <4>1, <5>1 DEF IsAcquire
        <4> QED BY <4>1 DEF Allowed
      <3>4. Traced(ev, Held(c), proj[c].leases) /\ Held(c) \in SUBSET DOMAIN ev
        BY <3>3, OwnLeases
      <3>5. ASSUME NEW j \in S, IsAcquire(e[j]) PROVE \E r \in S : IsEnd(e[r]) /\ e[r].ref = j
        <4>1. j \in Held(c)
          <5>1. ASSUME j \in Earlier(ids, k - 1) PROVE FALSE
            <6>1. PICK m \in 1..(k - 1) : j = ids[m]
              BY <5>1 DEF Earlier
            <6>2. IsAcquire(bodies[m])
              BY <1>9, <3>5, <6>1 DEF Written, IsAcquire
            <6> QED BY <1>7, <2>2, <6>1, <6>2 DEF Allowed
          <5> QED BY <1>9, <3>5, <5>1
        <4>2. PICK l \in proj[c].leases : l.id = j
          <5>1. IsAcquire(ev[j])
            BY <1>9, <3>4, <3>5, <4>1
          <5> QED BY <3>4, <4>1, <5>1 DEF Traced
        <4>3. CASE l.out = Never
          <5>1. PICK n \in 1..(k - 1) : IsEnd(bodies[n]) /\ bodies[n].ref = l.id
            BY <1>7, <2>2, <4>3 DEF Allowed
          <5>2. ids[n] \in S /\ Written(e[ids[n]], bodies[n])
            BY <1>9, <5>1 DEF Earlier
          <5>3. IsEnd(e[ids[n]]) /\ e[ids[n]].ref = j
            BY <4>2, <5>1, <5>2 DEF Written, IsEnd
          <5> QED BY <5>2, <5>3
        <4>4. CASE l.out # Never
          <5>1. PICK r \in Held(c) : IsEnd(ev[r]) /\ ev[r].ref = l.id
            BY <3>4, <4>4 DEF Traced
          <5>2. r \in S /\ e[r] = ev[r]
            BY <1>9, <3>4, <5>1
          <5> QED BY <4>2, <5>1, <5>2
        <4> QED BY <4>3, <4>4
      <3> QED BY <3>2, <3>5 DEF AllEnded
    <2> QED BY <1>4, <1>5, <2>1, <2>2, ClaimsFollowStep
  <1>19. TxState(c, bodies, ids, q, t, k)
    BY <1>6, <1>11, <1>12, <1>13, <1>14, <1>15, <1>16, <1>17, <1>18 DEF TxState
  <1> QED BY <1>5, <1>19 DEF t

\* The stores a transaction goes through.
Running(f, c, bodies, ids) ==
    /\ f[0] = [ev |-> ev, log |-> log[c], ok |-> TRUE]
    /\ \A k \in 1..Len(bodies) : f[k] = tx_append_raw(f[k - 1], bodies[k], ids[k])

Commits(f, c, bodies, ids, live) ==
    LET end == f[Len(bodies)]
    IN  /\ end.ok
        /\ ev' = end.ev
        /\ log' = [log EXCEPT ![c] = end.log]
        /\ proj' = [proj EXCEPT ![c] = live[ids[Len(bodies)]]]
        /\ blind' = IF Complete(c) THEN blind ELSE blind \cup {ids[k] : k \in DOMAIN ids}
        /\ UNCHANGED <<menu, reported, syncs, now, crashes>>

\* A transaction runs its appends one by one and commits the last store.
LEMMA TransactRuns ==
  ASSUME NEW c, NEW bodies, NEW live, Len(bodies) \in Nat, Transact(c, bodies, live)
  PROVE  \E ids \in [DOMAIN bodies -> Ids] : \E f :
            Running(f, c, bodies, ids) /\ Commits(f, c, bodies, ids, live)
  <1> DEFINE N == Len(bodies)
             start == [ev |-> ev, log |-> log[c], ok |-> TRUE]
             st(ids) == CHOOSE f : f = [k \in 0..Len(bodies) |->
                            IF k = 0 THEN [ev |-> ev, log |-> log[c], ok |-> TRUE]
                            ELSE tx_append_raw(f[k - 1], bodies[k], ids[k])]
  <1>1. PICK ids \in [DOMAIN bodies -> Ids] : Commits(st(ids), c, bodies, ids, live)
    BY DEF Transact, Commits
  <1> DEFINE f == st(ids)
             Step(x, k) == tx_append_raw(x, bodies[k], ids[k])
  <1>2. PICK g : Iterates(g, "append", 0, bodies, ids, start, N)
    BY Iteration
  <1>3. g = [k \in 0..N |-> IF k = 0 THEN start ELSE Step(g[k - 1], k)]
    BY <1>2 DEF Iterates, Advance
  <1>4. f = [k \in 0..N |-> IF k = 0 THEN start ELSE Step(f[k - 1], k)]
    BY <1>3
  <1>5. N \in Nat
    OBVIOUS
  <1> HIDE DEF f, N, Step, start
  <1>6. \A k \in 0..N : f[k] = IF k = 0 THEN start ELSE Step(f[k - 1], k)
    BY <1>4
  <1>7. f[0] = start /\ \A k \in 1..N : f[k] = Step(f[k - 1], k)
    BY <1>5, <1>6
  <1>8. Running(f, c, bodies, ids)
    BY <1>7 DEF Running, Step, N, start
  <1>9. Commits(f, c, bodies, ids, live)
    BY <1>1 DEF f
  <1> QED BY <1>8, <1>9

\* An append is good only on a store that was.
LEMMA AppendOk ==
  ASSUME NEW a, NEW b, NEW i, tx_append_raw(a, b, i).ok
  PROVE  a.ok
  <1> DEFINE x == [b EXCEPT !.at = now, !.parents = dag_frontier(a.ev, ToSet(a.log))]
             known == {j \in DOMAIN a.ev : a.ev[j] = x}
             ok == /\ a.ok
                   /\ IF known # {} THEN i \in known
                      ELSE i \notin DOMAIN a.ev /\ (AnyHash \/ i = Cardinality(DOMAIN a.ev) + 1)
  <1>1. tx_append_raw(a, b, i) = [ev |-> Put(a.ev, i, x), log |-> Append(a.log, i), ok |-> ok]
    BY DEF tx_append_raw
  <1> HIDE DEF ok, x
  <1>2. tx_append_raw(a, b, i).ok = ok
    BY <1>1
  <1> QED BY <1>2 DEF ok

\* All the appends of a transaction keep its state.
LEMMA RunsKeep ==
  ASSUME TrackerInv, NEW c \in Clones, NEW bodies, Allowed(c, bodies), NEW ids \in [DOMAIN bodies -> Ids],
         NEW q, Applies(c, bodies, ids, q), NEW f, Running(f, c, bodies, ids), f[Len(bodies)].ok
  PROVE  TxState(c, bodies, ids, q, f[Len(bodies)], Len(bodies))
  <1> DEFINE N == Len(bodies)
             P(k) == f[k].ok /\ TxState(c, bodies, ids, q, f[k], k)
             Bad == {k \in 0..N : f[k].ok /\ ~TxState(c, bodies, ids, q, f[k], k)}
  <1>1. N \in Nat /\ \A k \in 1..N : f[k] = tx_append_raw(f[k - 1], bodies[k], ids[k])
    BY DEF Running, Allowed
  <1>2. TxState(c, bodies, ids, q, f[0], 0)
    <2> DEFINE x == f[0]
    <2>1. x.ev = ev /\ x.log = log[c] /\ ToSet(x.log) = Held(c)
      BY DEF Running, Held
    <2>2. Earlier(ids, 0) = {}
      BY DEF Earlier
    <2>3. Ledger(ev) /\ log[c] \in Seq(DOMAIN ev)
      BY DEF TrackerInv, TrackerTypeOK
    <2>4. Columns(q[0]) = Columns(Shown(ev, Held(c)))
      BY RebuildShows DEF Applies, TrackerInv, LiveIsRebuilt, Held
    <2>5. EndsFollow(ev) /\ ClaimsFollow(ev, BlindAfter(c, bodies, ids))
      BY DEF TrackerInv, ClaimsFollow, BlindAfter
    <2>6. Complete(c) => Whole(ev, Held(c))
      BY DEF Complete, Whole
    <2>7. \A m \in 1..0 : Written(ev[ids[m]], bodies[m])
      OBVIOUS
    <2> HIDE DEF x
    <2>8. TxState(c, bodies, ids, q, x, 0)
      <3>1. DOMAIN ev = DOMAIN ev \cup Earlier(ids, 0) /\ Held(c) = Held(c) \cup Earlier(ids, 0)
        BY <2>2
      <3> HIDE DEF Earlier, Held
      <3> QED BY <2>1, <2>3, <2>4, <2>5, <2>6, <2>7, <3>1, Zenon DEF TxState
    <2> QED BY <2>8 DEF x
  <1>3. ASSUME NEW k \in 1..N, f[k].ok PROVE f[k - 1].ok
    BY <1>1, <1>3, AppendOk
  <1>4. ASSUME NEW k \in 1..N, f[k].ok, TxState(c, bodies, ids, q, f[k - 1], k - 1)
        PROVE  TxState(c, bodies, ids, q, f[k], k)
    <2>1. f[k] = tx_append_raw(f[k - 1], bodies[k], ids[k])
      BY <1>1
    <2> QED BY <1>4, <2>1, TxStep
  <1> HIDE DEF N
  <1>5. ASSUME Bad # {} PROVE FALSE
    <2>1. Bad \in SUBSET Nat
      BY <1>1
    <2>2. PICK n \in Bad : \A m \in Bad : n <= m
      BY <1>5, <2>1, Least
    <2>3. n \in 0..N /\ f[n].ok /\ ~TxState(c, bodies, ids, q, f[n], n)
      BY <2>2
    <2>4. n # 0
      BY <1>2, <2>3
    <2>5. n - 1 \in 0..N /\ n - 1 \notin Bad /\ n \in 1..N
      BY <1>1, <2>2, <2>3, <2>4
    <2>6. f[n - 1].ok
      BY <1>3, <2>3, <2>5
    <2>7. TxState(c, bodies, ids, q, f[n - 1], n - 1)
      BY <2>5, <2>6
    <2> QED BY <1>4, <2>3, <2>5, <2>7
  <1>6. N \in 0..N
    BY <1>1
  <1> QED BY <1>5, <1>6 DEF N

\* The new events of a step are the bodies.
Writes(c, bodies) ==
    /\ \A d \in Clones \ {c} : log'[d] = log[d]
    /\ \A i \in ToSet(log'[c]) \ Held(c) : \E m \in 1..Len(bodies) :
          ev'[i].kind = bodies[m].kind /\ ev'[i].forced = bodies[m].forced

\* The tables an operation writes are those of the bodies applied one by one.
Tells(c, bodies, live) ==
    \A ids \in [DOMAIN bodies -> Ids] :
        /\ live[ids[Len(bodies)]] \in Rows
        /\ \E q : Applies(c, bodies, ids, q) /\ Columns(q[Len(bodies)]) = Columns(live[ids[Len(bodies)]])

\* A transaction whose tables are those of its bodies keeps the invariant.
LEMMA TransactKeeps ==
  ASSUME TrackerInv, NEW c \in Clones, NEW bodies, NEW live, Allowed(c, bodies),
         Tells(c, bodies, live), Transact(c, bodies, live)
  PROVE  TrackerInv' /\ Writes(c, bodies)
  <1> DEFINE N == Len(bodies)
  <1>1. N \in Nat /\ DOMAIN bodies = 1..N
    BY DEF Allowed
  <1>2. PICK ids \in [DOMAIN bodies -> Ids] : \E f :
            Running(f, c, bodies, ids) /\ Commits(f, c, bodies, ids, live)
    BY <1>1, TransactRuns
  <1>3. PICK f : Running(f, c, bodies, ids) /\ Commits(f, c, bodies, ids, live)
    BY <1>2
  <1>4. PICK q : Applies(c, bodies, ids, q) /\ Columns(q[N]) = Columns(live[ids[N]])
    BY DEF Tells
  <1> DEFINE x == f[N]
             r == live[ids[N]]
  <1>5. /\ x.ok /\ ev' = x.ev /\ log' = [log EXCEPT ![c] = x.log] /\ proj' = [proj EXCEPT ![c] = r]
        /\ blind' = IF Complete(c) THEN blind ELSE blind \cup {ids[k] : k \in DOMAIN ids}
        /\ UNCHANGED <<menu, reported, syncs, now, crashes>>
    BY <1>3 DEF Commits
  <1>6. r \in Rows
    BY DEF Tells
  <1>7. TxState(c, bodies, ids, q, x, N)
    BY <1>3, <1>4, <1>5, RunsKeep
  <1> HIDE DEF x, r, N
  <1>8. {ids[k] : k \in DOMAIN ids} = Earlier(ids, N)
    BY <1>1 DEF Earlier
  <1>9. blind' = BlindAfter(c, bodies, ids)
    BY <1>5, <1>8 DEF BlindAfter, N
  <1>10. /\ Ledger(ev') /\ DOMAIN ev' = DOMAIN ev \cup Earlier(ids, N)
         /\ x.log \in Seq(DOMAIN ev') /\ ToSet(x.log) = Held(c) \cup Earlier(ids, N)
         /\ \A j \in DOMAIN ev : ev'[j] = ev[j]
         /\ \A m \in 1..N : Written(ev'[ids[m]], bodies[m])
         /\ Columns(r) = Columns(Shown(ev', ToSet(x.log)))
         /\ concurrent_claim_advisories(ev', ToSet(x.log)) \in SUBSET concurrent_claim_advisories(ev, Held(c))
         /\ EndsFollow(ev') /\ ClaimsFollow(ev', blind')
    BY <1>4, <1>5, <1>7, <1>9 DEF TxState, N, r
  <1>11. TrackerTypeOK /\ LiveIsRebuilt /\ AllReported
    BY DEF TrackerInv
  <1>12. /\ log'[c] = x.log /\ proj'[c] = r
         /\ \A d \in Clones \ {c} : log'[d] = log[d] /\ proj'[d] = proj[d]
    BY <1>5, <1>11 DEF TrackerTypeOK
  <1>13. Earlier(ids, N) \in SUBSET Ids
    BY <1>1 DEF Earlier
  <1>14. TrackerTypeOK'
    <2>1. menu' = menu /\ now' = now /\ crashes' = crashes /\ reported' = reported /\ dir' = dir
          /\ pc' = pc /\ todo' = todo /\ seen' = seen
      BY <1>5 DEF syncs
    <2>2. DOMAIN ev \in SUBSET DOMAIN ev' /\ DOMAIN ev' \in SUBSET Ids
      BY <1>10, <1>11, <1>13 DEF TrackerTypeOK
    <2>3. Ledger(ev)'
      BY <1>10, <2>1 DEF Ledger, Events, Actors, Summaries
    <2>4. (menu \in Menus /\ now \in 0..MaxTime /\ crashes \in 0..MaxCrashes)'
      BY <1>11, <2>1 DEF TrackerTypeOK, MaxTime, MaxCrashes
    <2>5. (DOMAIN ev \in SUBSET Ids)'
      BY <2>1, <2>2 DEF Ids
    <2>6. log' \in [Clones -> Seq(DOMAIN ev')] /\ todo' \in [Clones -> Seq(DOMAIN ev')]
      <3>1. \A s \in Seq(DOMAIN ev) : s \in Seq(DOMAIN ev')
        BY <2>2
      <3> HIDE DEF Earlier
      <3> QED BY <1>5, <1>10, <1>11, <2>1, <3>1 DEF TrackerTypeOK
    <2>7. (proj \in [Clones -> Rows])'
      <3>1. proj' \in [Clones -> Rows]
        BY <1>5, <1>6, <1>11 DEF TrackerTypeOK
      <3>2. Rows' = Rows
        BY <2>1 DEF Rows, LeaseRows, Actors, Summaries
      <3> QED BY <3>1, <3>2
    <2>8. reported' \in [Clones -> SUBSET SUBSET DOMAIN ev'] /\ seen' \in [Clones -> SUBSET DOMAIN ev']
      BY <1>11, <2>1, <2>2 DEF TrackerTypeOK
    <2>9. blind' \in SUBSET DOMAIN ev'
      BY <1>9, <1>10, <1>11, <2>2 DEF BlindAfter, TrackerTypeOK, N
    <2>10. DOMAIN dir' \in SUBSET DOMAIN ev' /\ pc' \in [Clones -> Stages]
      BY <1>11, <2>1, <2>2 DEF TrackerTypeOK
    <2> QED BY <2>3, <2>4, <2>5, <2>6, <2>7, <2>8, <2>9, <2>10 DEF TrackerTypeOK
  <1>15. ASSUME NEW d \in Clones \ {c}
         PROVE  /\ Held(d) \in SUBSET DOMAIN ev /\ IsFiniteSet(Held(d)) /\ ToSet(log'[d]) = Held(d)
                /\ Shown(ev', Held(d)) = Shown(ev, Held(d))
                /\ concurrent_claim_advisories(ev', Held(d)) = concurrent_claim_advisories(ev, Held(d))
    <2>1. Held(d) \in SUBSET DOMAIN ev
      BY OwnLeases
    <2>2. Dag(ev)
      BY <1>11 DEF TrackerTypeOK, Ledger
    <2>3. IsFiniteSet(Held(d))
      BY <2>1, <2>2, FS_Subset DEF Dag
    <2>4. \A j \in Held(d) : ev'[j] = ev[j]
      BY <1>10, <2>1
    <2>5. Shown(ev', Held(d)) = Shown(ev, Held(d))
      BY <2>1, <2>2, <2>4, SameShown
    <2>6. concurrent_claim_advisories(ev', Held(d)) = concurrent_claim_advisories(ev, Held(d))
      BY <2>3, <2>4, SameAdvisories
    <2> QED BY <1>12, <2>1, <2>3, <2>5, <2>6 DEF Held
  <1>16. ASSUME NEW d \in Clones
         PROVE  Columns(proj'[d]) = Columns(tx_rebuild_projection(ev', log'[d]))
    <2>1. tx_rebuild_projection(ev', log'[d]) = Shown(ev', ToSet(log'[d]))
      BY RebuildShows
    <2>2. CASE d = c
      BY <1>10, <1>12, <2>1, <2>2
    <2>3. CASE d # c
      <3>1. Columns(proj[d]) = Columns(Shown(ev, Held(d)))
        BY <1>11, RebuildShows DEF LiveIsRebuilt, Held
      <3> QED BY <1>12, <1>15, <2>1, <2>3, <3>1
    <2> QED BY <2>2, <2>3
  <1>17. ASSUME NEW d \in Clones
         PROVE  concurrent_claim_advisories(ev', ToSet(log'[d])) \in SUBSET reported'[d]
    <2>1. concurrent_claim_advisories(ev, Held(d)) \in SUBSET reported[d] /\ reported' = reported
      BY <1>5, <1>11 DEF AllReported
    <2>2. CASE d = c
      BY <1>10, <1>12, <2>1, <2>2
    <2>3. CASE d # c
      BY <1>15, <2>1, <2>3
    <2> QED BY <2>2, <2>3
  <1>18. TrackerInv'
    <2>1. LiveIsRebuilt'
      BY <1>16 DEF LiveIsRebuilt
    <2>2. AllReported'
      BY <1>17 DEF AllReported, Held
    <2>3. EndsFollow(ev)' /\ ClaimsFollow(ev, blind)'
      BY <1>10 DEF EndsFollow, ClaimsFollow
    <2> QED BY <1>14, <2>1, <2>2, <2>3 DEF TrackerInv
  <1>19. ASSUME NEW i \in ToSet(log'[c]) \ Held(c)
         PROVE  \E m \in 1..N : ev'[i].kind = bodies[m].kind /\ ev'[i].forced = bodies[m].forced
    <2>1. i \in Earlier(ids, N)
      BY <1>10, <1>12
    <2>2. PICK m \in 1..N : i = ids[m]
      BY <2>1 DEF Earlier
    <2> QED BY <1>10, <2>2 DEF Written
  <1>20. Writes(c, bodies)
    BY <1>12, <1>19 DEF Writes, N
  <1> QED BY <1>18, <1>20

-----------------------------------------------------------------------------
(* The operations.                                                         *)

\* SetToSeq and SetToSeqs list the elements of a finite set.
LEMMA Listed ==
  ASSUME NEW S, IsFiniteSet(S)
  PROVE  /\ SetToSeq(S) \in Seq(S) /\ ToSet(SetToSeq(S)) = S
         /\ \A f \in SetToSeqs(S) : f \in Seq(S) /\ ToSet(f) = S
  <1> DEFINE n == Cardinality(S)
  <1>1. n \in Nat /\ ExistsBijection(1..n, S)
    BY FS_CardinalityType
  <1>2. PICK b : b \in Bijection(1..n, S)
    BY <1>1 DEF ExistsBijection
  <1>3. b \in [1..n -> S] /\ IsInjective(b)
    BY <1>2 DEF Bijection, Injection
  <1>4. SetToSeq(S) \in [1..n -> S] /\ IsInjective(SetToSeq(S))
    BY <1>3 DEF SetToSeq
  <1>5. ASSUME NEW f \in [1..n -> S], IsInjective(f) PROVE f \in Seq(S) /\ ToSet(f) = S
    <2>1. f \in Injection(1..n, S)
      BY <1>5 DEF Injection
    <2>2. Cardinality(1..n) = n
      BY <1>1, FS_Interval
    <2>3. f \in Surjection(1..n, S)
      BY <2>1, <2>2, FS_Injection
    <2>4. f \in Seq(S)
      BY <1>1
    <2> QED BY <2>3, <2>4 DEF Surjection, ToSet
  <1>6. \A f \in SetToSeqs(S) : f \in [1..n -> S] /\ IsInjective(f)
    BY DEF SetToSeqs, IsInjective
  <1> QED BY <1>4, <1>5, <1>6


\* The step that ClaimsSeeNoConflict allows.
SeesNoConflict ==
    \A c \in Clones : \A i \in ToSet(log'[c]) \ Held(c) :
        (ev'[i].kind = "claim.acquired" /\ ~ev'[i].forced /\ pc'[c] = pc[c])
           => \A x, y \in Unsuperseded(Held(c)) : ev[x].status = ev[y].status

\* A step that writes no claim grants none.
LEMMA NoClaim ==
  ASSUME NEW c \in Clones, NEW bodies, Writes(c, bodies), \A m \in 1..Len(bodies) : ~IsAcquire(bodies[m])
  PROVE  SeesNoConflict
  <1>1. \A d \in Clones \ {c} : ToSet(log'[d]) \ Held(d) = {}
    BY DEF Writes, Held
  <1>2. \A i \in ToSet(log'[c]) \ Held(c) : ev'[i].kind # "claim.acquired"
    BY DEF Writes, IsAcquire
  <1> QED BY <1>1, <1>2 DEF SeesNoConflict

\* A transaction of one event that is neither a claim nor the end of one.
LEMMA OneBody ==
  ASSUME TrackerInv, NEW c \in Clones, NEW b \in Events, ~IsEnd(b), ~IsAcquire(b),
         IsFiled(ev, Held(c)) \/ (DOMAIN ev = {} /\ b.kind = "issue.created"), NEW r \in Rows,
         \A e, i : Written(e[i], b) => Columns(r) = Columns(fold_event(e, proj[c], i)),
         Transact(c, <<b>>, [i \in Ids |-> r])
  PROVE  TrackerInv' /\ SeesNoConflict
  <1> DEFINE bodies == <<b>>
             live == [i \in Ids |-> r]
  <1>1. bodies \in Seq(Events) /\ Len(bodies) = 1 /\ bodies[1] = b /\ DOMAIN bodies = 1..1
    OBVIOUS
  <1> HIDE DEF bodies
  <1>2. Allowed(c, bodies)
    BY <1>1 DEF Allowed
  <1>3. ASSUME NEW ids \in [DOMAIN bodies -> Ids]
        PROVE  /\ live[ids[1]] \in Rows
               /\ \E q : Applies(c, bodies, ids, q) /\ Columns(q[1]) = Columns(live[ids[1]])
    <2> DEFINE q == [k \in 0..1 |-> IF k = 0 THEN proj[c] ELSE r]
    <2>1. ids[1] \in Ids /\ live[ids[1]] = r
      BY <1>1
    <2>2. q[0] = proj[c] /\ q[1] = r
      OBVIOUS
    <2>3. proj[c] \in Rows
      BY DEF TrackerInv, TrackerTypeOK
    <2> HIDE DEF q
    <2>4. Applies(c, bodies, ids, q)
      BY <1>1, <2>2, <2>3 DEF Applies
    <2> QED BY <2>1, <2>2, <2>4
  <1>4. Tells(c, bodies, live)
    BY <1>1, <1>3 DEF Tells
  <1>5. TrackerInv' /\ Writes(c, bodies)
    BY <1>2, <1>4, TransactKeeps DEF bodies
  <1> QED BY <1>1, <1>5, NoClaim

\* file_item keeps the invariant.
LEMMA FileKeeps ==
  ASSUME TrackerInv, NEW c \in Clones, file_item(c)
  PROVE  TrackerInv' /\ SeesNoConflict
  <1>1. Created \in Events /\ Created.kind = "issue.created"
    BY NeverIsNat DEF Created, Blank, Events, Kinds
  <1>2. Filed \in Rows /\ Filed.row = TRUE /\ Filed.status = "open" /\ Filed.releases = 0 /\ Filed.leases = {}
    BY DEF Filed, NoRow, Rows, Statuses
  <1>3. DOMAIN ev = {} /\ Transact(c, <<Created>>, [i \in Ids |-> Filed])
    BY DEF file_item
  <1>4. proj[c] \in Rows /\ Columns(proj[c]) = Columns(NoRow)
    <2>1. Held(c) = {}
      BY <1>3, OwnLeases
    <2>2. Shown(ev, Held(c)) = NoRow
      BY <2>1 DEF Shown, IsFiled
    <2> QED BY <2>2, RebuildShows DEF TrackerInv, TrackerTypeOK, LiveIsRebuilt, Held
  <1>5. proj[c].releases = 0 /\ proj[c].leases = {}
    BY <1>4 DEF Columns, NoRow
  <1>6. ASSUME NEW e, NEW i, Written(e[i], Created)
        PROVE  Columns(Filed) = Columns(fold_event(e, proj[c], i))
    <2> DEFINE r == [proj[c] EXCEPT !.row = TRUE, !.status = "open"]
    <2>1. fold_event(e, proj[c], i) = r
      BY <1>1, <1>6 DEF fold_event, Written
    <2>2. r.row = TRUE /\ r.status = "open" /\ r.releases = 0 /\ r.leases = {}
      BY <1>4, <1>5 DEF Rows
    <2> HIDE DEF r
    <2> QED BY <1>2, <2>1, <2>2 DEF Columns
  <1> QED BY <1>1, <1>2, <1>3, <1>6, OneBody DEF IsEnd, IsAcquire

\* set_field keeps the invariant.
LEMMA SetKeeps ==
  ASSUME TrackerInv, NEW c \in Clones, NEW s \in Values, set_field(c, s)
  PROVE  TrackerInv' /\ SeesNoConflict
  <1> DEFINE b == [Blank EXCEPT !.kind = "issue.field_set", !.status = s]
             r == [proj[c] EXCEPT !.status = s]
             p == proj[c]
  <1>1. s \in Statuses
    BY TrackerConstants
  <1>2. b \in Events /\ b.kind = "issue.field_set" /\ b.status = s
    BY <1>1, NeverIsNat DEF Blank, Events, Kinds
  <1>3. p \in Rows /\ p.row /\ Transact(c, <<b>>, [i \in Ids |-> r]) /\ IsFiled(ev, Held(c))
    BY OwnLeases DEF set_field, TrackerInv, TrackerTypeOK
  <1>4. r \in Rows
    BY <1>1, <1>3 DEF Rows
  <1> HIDE DEF b
  <1>5. ASSUME NEW e, NEW i, Written(e[i], b)
        PROVE  Columns(r) = Columns(fold_event(e, p, i))
    BY <1>2, <1>3, <1>5 DEF fold_event, Written
  <1> HIDE DEF r
  <1> QED BY <1>2, <1>3, <1>4, <1>5, OneBody DEF IsEnd, IsAcquire

\* reopen_item keeps the invariant.
LEMMA ReopenKeeps ==
  ASSUME TrackerInv, NEW c \in Clones, NEW s \in Summaries, reopen_item(c, s)
  PROVE  TrackerInv' /\ SeesNoConflict
  <1> DEFINE b == [Blank EXCEPT !.kind = "issue.reopened", !.status = "open", !.summary = s]
             p == proj[c]
             r == fold_set_status(p, b)
  <1>1. b \in Events /\ b.kind = "issue.reopened" /\ b.status = "open" /\ b.summary = s
    BY NeverIsNat DEF Blank, Events, Kinds, Statuses
  <1>2. p \in Rows /\ p.row /\ Transact(c, <<b>>, [i \in Ids |-> r]) /\ IsFiled(ev, Held(c))
    BY OwnLeases DEF reopen_item, TrackerInv, TrackerTypeOK
  <1> HIDE DEF b
  <1>3. r \in Rows
    BY <1>1, <1>2 DEF Rows, fold_set_status, Statuses
  <1>4. ASSUME NEW e, NEW i, Written(e[i], b)
        PROVE  Columns(r) = Columns(fold_event(e, p, i))
    BY <1>1, <1>2, <1>4 DEF fold_event, Written, fold_set_status
  <1> HIDE DEF r
  <1> QED BY <1>1, <1>2, <1>3, <1>4, OneBody DEF IsEnd, IsAcquire

\* A deadline is an instant.
LEMMA DeadlineType ==
  ASSUME TrackerInv, NEW t \in Nat
  PROVE  Deadline(t) \in Nat
  <1>1. now \in Nat
    BY TrackerConstants DEF TrackerInv, TrackerTypeOK, MaxTime
  <1> QED BY <1>1, NeverIsNat DEF Deadline

\* renew_claim keeps the invariant: the row it extends is the one a rebuild extends.
LEMMA RenewKeeps ==
  ASSUME TrackerInv, NEW c \in Clones, NEW a \in Actors, NEW u \in Nat, renew_claim(c, a, u)
  PROVE  TrackerInv' /\ SeesNoConflict
  <1> DEFINE p == proj[c]
             new(l) == IF u = Never THEN l.until ELSE u
             body(l) == [Blank EXCEPT !.kind = "claim.renewed", !.actor = a, !.ref = l.id, !.until = new(l)]
  <1>1. PICK l \in Active(p, now) : Transact(c, <<body(l)>>, [i \in Ids |-> Extended(p, l.id, new(l))])
    BY DEF renew_claim
  <1>2. p \in Rows /\ l \in p.leases
    BY <1>1 DEF Active, TrackerInv, TrackerTypeOK
  <1>3. l.id \in Nat /\ new(l) \in Nat /\ p.leases \in SUBSET LeaseRows
    BY <1>2 DEF Rows, LeaseRows
  <1>4. IsFiled(ev, Held(c)) /\ IsFiniteSet(p.leases)
    BY <1>2, OwnLeases
  <1> DEFINE b == body(l)
             v == new(l)
             r == Extended(p, l.id, v)
  <1> HIDE DEF new
  <1>5. b \in Events /\ b.kind = "claim.renewed" /\ b.ref = l.id /\ b.until = v
    BY <1>3, NeverIsNat DEF Blank, Events, Kinds
  <1> HIDE DEF b, v
  <1>6. r \in Rows
    <2> DEFINE M == Renewed(p.leases, {l.id}, v)
    <2>1. M \in SUBSET LeaseRows
      BY <1>3, <1>4, MappedLeases DEF v
    <2>2. M = {IF k.id = l.id THEN [k EXCEPT !.until = v] ELSE k : k \in p.leases}
      BY DEF Renewed
    <2>3. r = [p EXCEPT !.leases = M]
      BY <2>2 DEF Extended
    <2> HIDE DEF M, r
    <2> QED BY <1>2, <2>1, <2>3 DEF Rows
  <1>7. ASSUME NEW e, NEW i, Written(e[i], b)
        PROVE  Columns(r) = Columns(fold_event(e, p, i))
    <2>1. fold_event(e, p, i) = Extended(p, e[i].ref, e[i].until)
      BY <1>5, <1>7 DEF fold_event, Written
    <2> QED BY <1>5, <1>7, <2>1 DEF Written
  <1>8. Transact(c, <<b>>, [i \in Ids |-> r])
    BY <1>1 DEF b, v
  <1> HIDE DEF r
  <1> QED BY <1>4, <1>5, <1>6, <1>7, <1>8, OneBody DEF IsEnd, IsAcquire

\* add_wait keeps the invariant.
LEMMA WaitKeeps ==
  ASSUME TrackerInv, NEW c \in Clones, NEW u \in Nat, add_wait(c, u)
  PROVE  TrackerInv' /\ SeesNoConflict
  <1> DEFINE b == [Blank EXCEPT !.kind = "wait.added", !.until = u]
             p == proj[c]
  <1>1. b \in Events /\ b.kind = "wait.added"
    BY NeverIsNat DEF Blank, Events, Kinds
  <1>2. p \in Rows /\ p.row /\ Transact(c, <<b>>, [i \in Ids |-> p]) /\ IsFiled(ev, Held(c))
    BY OwnLeases DEF add_wait, TrackerInv, TrackerTypeOK
  <1> HIDE DEF b
  <1>3. ASSUME NEW e, NEW i, Written(e[i], b)
        PROVE  Columns(p) = Columns(fold_event(e, p, i))
    BY <1>1, <1>3 DEF fold_event, Written
  <1> HIDE DEF p
  <1> QED BY <1>1, <1>2, <1>3, OneBody DEF IsEnd, IsAcquire, p

\* The shape of a sequence.
LEMMA ListOf ==
  ASSUME NEW S, NEW s \in Seq(S)
  PROVE  /\ Len(s) \in Nat /\ DOMAIN s = 1..Len(s) /\ \A k \in 1..Len(s) : s[k] \in S
         /\ s # <<>> => Len(s) # 0
  OBVIOUS

\* Waits are removed one by one, and the row stays.
LEMMA WaitsKeep ==
  ASSUME TrackerInv, NEW c \in Clones, remove_waits(c)
  PROVE  TrackerInv' /\ SeesNoConflict
  <1> DEFINE p == proj[c]
             W == live_waits(ev, log[c])
             ws == SetToSeq(W)
             bodies == [k \in DOMAIN ws |-> [Blank EXCEPT !.kind = "wait.removed", !.ref = ws[k]]]
             live == [i \in Ids |-> p]
  <1>1. /\ p \in Rows /\ p.row /\ IsFiled(ev, Held(c)) /\ log[c] \in Seq(DOMAIN ev) /\ Dag(ev)
        /\ Held(c) \in SUBSET DOMAIN ev
    BY OwnLeases DEF remove_waits, TrackerInv, TrackerTypeOK, Ledger
  <1>2. W \in SUBSET Held(c)
    BY <1>1 DEF live_waits, Held, ToSet
  <1>3. IsFiniteSet(W) /\ W \in SUBSET Nat
    BY <1>1, <1>2, FS_Subset DEF Dag
  <1>4. Transact(c, bodies, live) /\ ws # <<>>
    BY DEF remove_waits
  <1> HIDE DEF W
  <1>5. ws \in Seq(W)
    BY <1>3, Listed
  <1> HIDE DEF ws
  <1> DEFINE N == Len(ws)
  <1>6. N \in Nat /\ N # 0 /\ DOMAIN ws = 1..N /\ \A k \in 1..N : ws[k] \in Nat
    <2>1. ws # <<>>
      BY <1>4
    <2>2. /\ N \in Nat /\ N # 0 /\ DOMAIN ws = 1..N
          /\ \A k \in 1..N : ws[k] \in W
      BY <1>5, <2>1, ListOf
    <2> QED BY <1>3, <2>2
  <1> HIDE DEF N
  <1>7. /\ DOMAIN bodies = 1..N
        /\ \A k \in 1..N : bodies[k] \in Events /\ bodies[k].kind = "wait.removed"
    BY <1>6, NeverIsNat DEF Blank, Events, Kinds
  <1> HIDE DEF bodies
  <1>8. bodies \in Seq(Events) /\ Len(bodies) = N /\ bodies # <<>>
    <2>1. bodies \in [1..N -> Events]
      <3>1. bodies = [k \in 1..N |-> bodies[k]]
        BY <1>6 DEF bodies
      <3> QED BY <1>7, <3>1
    <2> QED BY <1>6, <2>1
  <1>9. Allowed(c, bodies)
    BY <1>1, <1>7, <1>8 DEF Allowed, IsEnd, IsAcquire
  <1>10. ASSUME NEW ids \in [DOMAIN bodies -> Ids]
        PROVE  /\ live[ids[N]] \in Rows
               /\ \E q : Applies(c, bodies, ids, q) /\ Columns(q[N]) = Columns(live[ids[N]])
    <2> DEFINE q == [k \in 0..N |-> p]
    <2>1. live[ids[N]] = p
      BY <1>6, <1>7
    <2>2. \A k \in 0..N : q[k] = p
      OBVIOUS
    <2>3. q[0] = p /\ q[N] = p
      BY <1>6
    <2>4. \A k \in 1..N : q[k - 1] = p /\ q[k] = p
      BY <1>6
    <2> HIDE DEF q
    <2>5. ASSUME NEW k \in 1..N, NEW e, Written(e[ids[k]], bodies[k])
          PROVE  Columns(q[k]) = Columns(fold_event(e, q[k - 1], ids[k]))
      BY <1>7, <2>4, <2>5 DEF fold_event, Written
    <2>6. Applies(c, bodies, ids, q)
      BY <1>1, <1>8, <2>2, <2>3, <2>5 DEF Applies
    <2> QED BY <1>1, <2>1, <2>3, <2>6
  <1>11. Tells(c, bodies, live)
    BY <1>8, <1>10 DEF Tells
  <1>12. TrackerInv' /\ Writes(c, bodies)
    BY <1>4, <1>9, <1>11, TransactKeeps
  <1> QED BY <1>7, <1>8, <1>12, NoClaim DEF IsAcquire

\* A row once the first k leases of ls are ended.
Names(ls, k) == {ls[n].id : n \in 1..k}
WithoutFirst(p, ls, k) ==
    [p EXCEPT !.leases = Freed(p.leases, Names(ls, k), now),
              !.releases = IF p.row THEN p.releases + k ELSE p.releases]

FreesBoth(L, D, x, v) == Freed(Freed(L, D, v), {x}, v) = Freed(L, D \cup {x}, v)

\* Ending leases one by one ends them all at once.
LEMMA FreedTwice ==
  ASSUME NEW L \in SUBSET LeaseRows, NEW D, NEW x, NEW v \in Nat
  PROVE  FreesBoth(L, D, x, v) /\ Freed(L, {}, v) = L
  <1> DEFINE F(l) == [l EXCEPT !.out = v]
             f(l) == IF l.id \in D THEN F(l) ELSE l
             g(l) == IF l.id \in {x} THEN F(l) ELSE l
             h(l) == IF l.id \in D \cup {x} THEN F(l) ELSE l
  <1>1. \A l \in L : F(l).id = l.id /\ F(F(l)) = F(l)
    BY DEF LeaseRows
  <1> HIDE DEF F
  <1>2. \A l \in L : g(f(l)) = h(l)
    BY <1>1
  <1>3. Freed(L, D, v) = {f(l) : l \in L} /\ Freed(L, D \cup {x}, v) = {h(l) : l \in L}
    BY DEF Freed, F
  <1>4. Freed(Freed(L, D, v), {x}, v) = {g(l) : l \in Freed(L, D, v)}
    BY DEF Freed, F
  <1> HIDE DEF f, g, h
  <1>5. {g(l) : l \in {f(k) : k \in L}} = {h(l) : l \in L}
    BY <1>2
  <1>6. Freed(L, {}, v) = L
    BY DEF Freed
  <1> QED BY <1>3, <1>4, <1>5, <1>6 DEF FreesBoth

\* The columns of a row with its first leases ended.
LEMMA WithoutFirstIs ==
  ASSUME TrackerInv, NEW p \in Rows, IsFiniteSet(p.leases), NEW ls, NEW k \in Nat
  PROVE  LET r == WithoutFirst(p, ls, k)
         IN  /\ r \in Rows /\ r.row = p.row /\ r.status = p.status
             /\ r.leases = Freed(p.leases, Names(ls, k), now)
             /\ r.releases = IF p.row THEN p.releases + k ELSE p.releases
             /\ now \in Nat
  <1> DEFINE M == Freed(p.leases, Names(ls, k), now)
             n == IF p.row THEN p.releases + k ELSE p.releases
             r == WithoutFirst(p, ls, k)
  <1>1. now \in Nat
    BY TrackerConstants DEF TrackerInv, TrackerTypeOK, MaxTime
  <1>2. p.leases \in SUBSET LeaseRows /\ p.releases \in Nat
    BY DEF Rows
  <1>3. M \in SUBSET LeaseRows /\ n \in Nat
    BY <1>1, <1>2, MappedLeases
  <1>4. r = [p EXCEPT !.leases = M, !.releases = n]
    BY DEF WithoutFirst
  <1> HIDE DEF M, n, r
  <1>5. r.leases = M /\ r.releases = n /\ r.row = p.row /\ r.status = p.status
    BY <1>4 DEF Rows
  <1>6. r \in Rows
    BY <1>3, <1>4 DEF Rows
  <1> QED BY <1>1, <1>5, <1>6 DEF M, n, r

\* WithoutLeases ends them all.
LEMMA WithoutAll ==
  ASSUME NEW p, NEW S, NEW ls \in Seq(S)
  PROVE  WithoutLeases(p, ls) = WithoutFirst(p, ls, Len(ls))
  <1>1. {ls[n].id : n \in DOMAIN ls} = Names(ls, Len(ls))
    BY DEF Names
  <1> QED BY <1>1 DEF WithoutLeases, WithoutFirst, Freed

\* With none ended, the columns are what they were.
LEMMA WithoutNone ==
  ASSUME TrackerInv, NEW p \in Rows, IsFiniteSet(p.leases), NEW ls
  PROVE  Columns(WithoutFirst(p, ls, 0)) = Columns(p)
  <1> DEFINE r == WithoutFirst(p, ls, 0)
  <1>1. Names(ls, 0) = {}
    BY DEF Names
  <1>2. /\ r.row = p.row /\ r.status = p.status /\ r.leases = Freed(p.leases, {}, now)
        /\ r.releases = IF p.row THEN p.releases + 0 ELSE p.releases
        /\ now \in Nat
    BY <1>1, WithoutFirstIs
  <1>3. p.releases \in Nat /\ p.leases \in SUBSET LeaseRows
    BY DEF Rows
  <1>4. r.leases = p.leases
    BY <1>2, <1>3, FreedTwice
  <1> HIDE DEF r
  <1> QED BY <1>2, <1>3, <1>4 DEF Columns, r

\* An event that ends the next of the leases.
LEMMA FreeNext ==
  ASSUME TrackerInv, NEW p \in Rows, IsFiniteSet(p.leases), NEW ls, NEW k \in Nat, k # 0,
         NEW e, NEW i, e[i] \in Events, IsEnd(e[i]), e[i].ref = ls[k].id, e[i].at = now
  PROVE  Columns(WithoutFirst(p, ls, k)) = Columns(fold_event(e, WithoutFirst(p, ls, k - 1), i))
  <1> DEFINE r == WithoutFirst(p, ls, k)
             o == WithoutFirst(p, ls, k - 1)
             D == Names(ls, k - 1)
             x == e[i].ref
             M == Freed(o.leases, {x}, now)
             n == IF o.row THEN o.releases + 1 ELSE o.releases
             t == fold_event(e, o, i)
  <1>1. /\ r \in Rows /\ r.row = p.row /\ r.status = p.status /\ r.leases = Freed(p.leases, Names(ls, k), now)
        /\ r.releases = IF p.row THEN p.releases + k ELSE p.releases
        /\ now \in Nat
    BY WithoutFirstIs
  <1>2. /\ o \in Rows /\ o.row = p.row /\ o.status = p.status /\ o.leases = Freed(p.leases, D, now)
        /\ o.releases = IF p.row THEN p.releases + (k - 1) ELSE p.releases
    BY WithoutFirstIs
  <1>3. Names(ls, k) = D \cup {x}
    BY DEF Names
  <1>4. p.leases \in SUBSET LeaseRows /\ p.releases \in Nat
    BY DEF Rows
  <1> HIDE DEF r, o, D, x
  <1>5. t = Ended(o, x, now)
    <2>1. e[i].kind \in {"claim.released", "claim.expired"}
      BY DEF IsEnd
    <2>2. fold_event(e, o, i) = Ended(o, e[i].ref, e[i].at)
      BY <2>1 DEF fold_event
    <2> QED BY <2>2 DEF x
  <1>6. M = {IF l.id = x THEN [l EXCEPT !.out = now] ELSE l : l \in o.leases}
    BY DEF Freed
  <1>7. t = [o EXCEPT !.leases = M, !.releases = n]
    BY <1>5, <1>6 DEF Ended
  <1>8. M = r.leases
    <2>1. FreesBoth(p.leases, D, x, now)
      BY <1>1, <1>4, FreedTwice
    <2> QED BY <1>1, <1>2, <1>3, <2>1 DEF FreesBoth
  <1>9. n = r.releases
    BY <1>1, <1>2, <1>4
  <1> HIDE DEF M, n, t
  <1>10. t.leases = M /\ t.releases = n /\ t.row = o.row /\ t.status = o.status
    BY <1>2, <1>7 DEF Rows
  <1> QED BY <1>1, <1>2, <1>8, <1>9, <1>10 DEF Columns, r, o, t

\* Bodies that end leases of c, one each.
EndsOf(c, ends, ls) ==
    /\ ls \in Seq(proj[c].leases) /\ ends \in Seq(Events) /\ Len(ends) = Len(ls)
    /\ \A k \in 1..Len(ls) : IsEnd(ends[k]) /\ ends[k].ref = ls[k].id

\* The event of the next body ends the next lease.
LEMMA EndBody ==
  ASSUME TrackerInv, NEW p \in Rows, IsFiniteSet(p.leases), NEW c, NEW ends, NEW ls, EndsOf(c, ends, ls),
         NEW k \in 1..Len(ls), NEW e, NEW i, Written(e[i], ends[k])
  PROVE  Columns(WithoutFirst(p, ls, k)) = Columns(fold_event(e, WithoutFirst(p, ls, k - 1), i))
  <1>1. k \in Nat /\ k # 0
    BY DEF EndsOf
  <1>2. e[i] \in Events /\ IsEnd(e[i]) /\ e[i].ref = ls[k].id /\ e[i].at = now
    BY DEF EndsOf, Written, IsEnd
  <1> QED BY <1>1, <1>2, FreeNext

\* A clone's row has its type, and finitely many leases.
LEMMA OwnRow ==
  ASSUME TrackerInv, NEW c \in Clones
  PROVE  proj[c] \in Rows /\ IsFiniteSet(proj[c].leases) /\ proj[c].leases \in SUBSET LeaseRows
  <1>1. proj[c] \in Rows
    BY DEF TrackerInv, TrackerTypeOK
  <1> QED BY <1>1, OwnLeases DEF Rows

\* A transaction that only ends leases.
LEMMA EndsKeep ==
  ASSUME TrackerInv, NEW c \in Clones, NEW ends, NEW ls, EndsOf(c, ends, ls), ls # <<>>,
         Transact(c, ends, [i \in Ids |-> WithoutLeases(proj[c], ls)])
  PROVE  TrackerInv' /\ SeesNoConflict
  <1> DEFINE p == proj[c]
             N == Len(ls)
             r == WithoutLeases(p, ls)
             live == [i \in Ids |-> r]
  <1>1. /\ N \in Nat /\ N # 0 /\ Len(ends) = N /\ DOMAIN ends = 1..N /\ ends \in Seq(Events) /\ ends # <<>>
        /\ \A k \in 1..N : ls[k] \in p.leases /\ IsEnd(ends[k]) /\ ends[k].ref = ls[k].id
    <2>1. ls \in Seq(p.leases) /\ ends \in Seq(Events) /\ Len(ends) = N
      BY DEF EndsOf
    <2>2. N \in Nat /\ N # 0 /\ \A k \in 1..N : ls[k] \in p.leases
      BY <2>1, ListOf
    <2>3. DOMAIN ends = 1..N
      BY <2>1, ListOf
    <2> HIDE DEF N
    <2>4. ends # <<>>
      BY <2>1, <2>2
    <2> USE DEF N
    <2> QED BY <2>1, <2>2, <2>3, <2>4 DEF EndsOf
  <1>2. p \in Rows /\ IsFiniteSet(p.leases) /\ IsFiled(ev, Held(c))
    <2>1. p.leases # {}
      BY <1>1
    <2> QED BY <2>1, OwnRow, OwnLeases
  <1>3. r = WithoutFirst(p, ls, N)
    BY WithoutAll DEF EndsOf
  <1>4. \A k \in 0..N : WithoutFirst(p, ls, k) \in Rows
    BY <1>1, <1>2, WithoutFirstIs
  <1>5. Columns(WithoutFirst(p, ls, 0)) = Columns(p)
    BY <1>2, WithoutNone
  <1>6. Allowed(c, ends)
    BY <1>1, <1>2 DEF Allowed, IsEnd, IsAcquire
  <1> HIDE DEF r, p
  <1>7. ASSUME NEW ids \in [DOMAIN ends -> Ids]
        PROVE  /\ live[ids[N]] \in Rows
               /\ \E q : Applies(c, ends, ids, q) /\ Columns(q[N]) = Columns(live[ids[N]])
    <2> DEFINE q == [k \in 0..N |-> WithoutFirst(p, ls, k)]
    <2>1. live[ids[N]] = r
      BY <1>1
    <2>2. \A k \in 0..N : q[k] = WithoutFirst(p, ls, k)
      OBVIOUS
    <2>3. q[0] = WithoutFirst(p, ls, 0) /\ q[N] = r
      BY <1>1, <1>3
    <2>4. \A k \in 1..N : q[k - 1] = WithoutFirst(p, ls, k - 1) /\ q[k] = WithoutFirst(p, ls, k)
      BY <1>1
    <2> HIDE DEF q
    <2>5. ASSUME NEW k \in 1..N, NEW e, Written(e[ids[k]], ends[k])
          PROVE  Columns(q[k]) = Columns(fold_event(e, q[k - 1], ids[k]))
      BY <1>2, <2>4, <2>5, EndBody
    <2>6. Applies(c, ends, ids, q)
      BY <1>1, <1>4, <1>5, <2>2, <2>3, <2>5 DEF Applies, p
    <2>7. r \in Rows
      BY <1>1, <1>3, <1>4
    <2> QED BY <2>1, <2>3, <2>6, <2>7
  <1>8. Tells(c, ends, live)
    BY <1>1, <1>7 DEF Tells
  <1>9. TrackerInv' /\ Writes(c, ends)
    BY <1>6, <1>8, TransactKeeps DEF r, p
  <1> QED BY <1>1, <1>9, NoClaim DEF IsEnd, IsAcquire

\* Released are ends of the leases given.
LEMMA ReleasedEnds ==
  ASSUME TrackerInv, NEW c \in Clones, NEW ls \in Seq(proj[c].leases)
  PROVE  EndsOf(c, Released(ls), ls)
  <1> DEFINE N == Len(ls)
             R == Released(ls)
             P == proj[c].leases
  <1>1. N \in Nat /\ DOMAIN ls = 1..N /\ \A k \in 1..N : ls[k] \in P
    BY ListOf
  <1>2. P \in SUBSET LeaseRows
    BY OwnRow
  <1>3. \A k \in 1..N : ls[k].id \in Nat /\ ls[k].actor \in Actors \cup {None}
    BY <1>1, <1>2 DEF LeaseRows
  <1> HIDE DEF N
  <1>4. R = [k \in 1..N |-> [Blank EXCEPT !.kind = "claim.released", !.ref = ls[k].id,
                                          !.actor = ls[k].actor]]
    BY <1>1 DEF Released
  <1>5. \A k \in 1..N : R[k] \in Events /\ IsEnd(R[k]) /\ R[k].ref = ls[k].id
    <2> TAKE k \in 1..N
    <2> DEFINE n == ls[k].id
               a == ls[k].actor
               b == [Blank EXCEPT !.kind = "claim.released", !.ref = n, !.actor = a]
    <2>1. R[k] = b /\ n \in Nat /\ a \in Actors \cup {None}
      BY <1>3, <1>4
    <2> HIDE DEF n, a
    <2>2. b \in Events
      BY <2>1, NeverIsNat DEF Blank, Events, Kinds
    <2>3. b.kind = "claim.released" /\ b.ref = n
      BY DEF Blank
    <2> HIDE DEF b
    <2> QED BY <2>1, <2>2, <2>3 DEF IsEnd, n
  <1> HIDE DEF R
  <1>6. R \in Seq(Events) /\ Len(R) = N
    <2>1. R \in [1..N -> Events]
      BY <1>4, <1>5
    <2> QED BY <1>1, <2>1
  <1> HIDE DEF P
  <1>7. ls \in Seq(P)
    BY DEF P
  <1> QED BY <1>5, <1>6, <1>7 DEF EndsOf, N, R, P

\* The leases a transaction releases are the clone's.
LEMMA ToReleaseOwn ==
  ASSUME TrackerInv, NEW c \in Clones, NEW x, NEW ls \in ToRelease(c, x)
  PROVE  ls \in Seq(proj[c].leases)
  <1>1. Latest(proj[c], now) \in SUBSET proj[c].leases
    BY DEF Latest, Active
  <1> DEFINE P == proj[c].leases
             Q == {k \in Latest(proj[c], now) : x \in {None, k.actor}}
             A == Active(proj[c], now)
  <1>2. ls \in {<<l>> : l \in Q} \cup (IF A = {} THEN {<<>>} ELSE {})
    BY DEF ToRelease
  <1>3. Q \in SUBSET P
    BY <1>1
  <1> HIDE DEF Q, P, A
  <1>4. ls = <<>> \/ \E l \in Q : ls = <<l>>
    BY <1>2
  <1>5. <<>> \in Seq(P) /\ \A l \in P : <<l>> \in Seq(P)
    OBVIOUS
  <1>6. ls \in Seq(P)
    BY <1>3, <1>4, <1>5, Zenon
  <1> QED BY <1>6 DEF P

\* release_item keeps the invariant.
LEMMA ReleaseKeeps ==
  ASSUME TrackerInv, NEW c \in Clones, NEW x, release_item(c, x)
  PROVE  TrackerInv' /\ SeesNoConflict
  <1>1. PICK ls \in ToRelease(c, x) :
            ls # <<>> /\ Transact(c, Released(ls), [i \in Ids |-> WithoutLeases(proj[c], ls)])
    BY DEF release_item
  <1>2. ls \in Seq(proj[c].leases)
    BY ToReleaseOwn
  <1>3. EndsOf(c, Released(ls), ls)
    BY <1>2, ReleasedEnds
  <1> QED BY <1>1, <1>3, EndsKeep

\* release_claims_for_holder keeps the invariant.
LEMMA HolderKeeps ==
  ASSUME TrackerInv, NEW c \in Clones, NEW a, release_claims_for_holder(c, a)
  PROVE  TrackerInv' /\ SeesNoConflict
  <1> DEFINE L == {l \in Active(proj[c], now) : l.actor = a}
             ls == SetToSeq(L)
  <1>1. ls # <<>> /\ Transact(c, Released(ls), [i \in Ids |-> WithoutLeases(proj[c], ls)])
    BY DEF release_claims_for_holder
  <1>2. L \in SUBSET proj[c].leases /\ IsFiniteSet(L)
    <2>1. L \in SUBSET proj[c].leases
      BY DEF Active
    <2> QED BY <2>1, OwnRow, FS_Subset
  <1> HIDE DEF L
  <1>3. ls \in Seq(L)
    BY <1>2, Listed
  <1>4. ls \in Seq(proj[c].leases)
    BY <1>2, <1>3
  <1> HIDE DEF ls
  <1>5. EndsOf(c, Released(ls), ls)
    BY <1>4, ReleasedEnds
  <1> QED BY <1>1, <1>5, EndsKeep

\* A transaction of one event and then ends of leases.
LEMMA CloseKeeps ==
  ASSUME TrackerInv, NEW c \in Clones, NEW b \in Events, ~IsEnd(b), ~IsAcquire(b), IsFiled(ev, Held(c)),
         NEW r \in Rows, r.leases = proj[c].leases,
         \A e, i : Written(e[i], b) => Columns(r) = Columns(fold_event(e, proj[c], i)),
         NEW ends, NEW ls, EndsOf(c, ends, ls),
         Transact(c, <<b>> \o ends, [i \in Ids |-> WithoutLeases(r, ls)])
  PROVE  TrackerInv' /\ SeesNoConflict
  <1> DEFINE p == proj[c]
             N == Len(ls)
             bodies == <<b>> \o ends
             t == WithoutLeases(r, ls)
             live == [i \in Ids |-> t]
  <1>1. /\ N \in Nat /\ Len(ends) = N /\ ends \in Seq(Events)
        /\ \A k \in 1..N : ls[k] \in p.leases /\ IsEnd(ends[k]) /\ ends[k].ref = ls[k].id
    <2>1. ls \in Seq(p.leases) /\ ends \in Seq(Events) /\ Len(ends) = N
      BY DEF EndsOf
    <2>2. N \in Nat /\ \A k \in 1..N : ls[k] \in p.leases
      BY <2>1, ListOf
    <2> QED BY <2>1, <2>2 DEF EndsOf
  <1>2. p \in Rows /\ IsFiniteSet(p.leases) /\ IsFiniteSet(r.leases)
    BY OwnRow
  <1>3. t = WithoutFirst(r, ls, N)
    BY WithoutAll DEF EndsOf
  <1>4. \A k \in 0..N : WithoutFirst(r, ls, k) \in Rows
    BY <1>1, <1>2, WithoutFirstIs
  <1>5. Columns(WithoutFirst(r, ls, 0)) = Columns(r)
    BY <1>2, WithoutNone
  <1> HIDE DEF N
  <1>6. /\ bodies \in Seq(Events) /\ Len(bodies) = N + 1 /\ bodies[1] = b /\ DOMAIN bodies = 1..(N + 1)
        /\ \A k \in 2..(N + 1) : bodies[k] = ends[k - 1]
    BY <1>1
  <1> HIDE DEF bodies, t, p
  <1>7. \A m \in 1..(N + 1) : \/ m = 1
                              \/ m - 1 \in 1..N /\ m \in 2..(N + 1) /\ IsEnd(bodies[m])
    BY <1>1, <1>6
  <1>8. ~IsAcquire(b) /\ \A m \in 1..(N + 1) : ~IsAcquire(bodies[m])
    BY <1>6, <1>7 DEF IsEnd, IsAcquire
  <1>9. Allowed(c, bodies)
    <2>1. ASSUME NEW m \in 1..(N + 1), IsEnd(bodies[m]) PROVE \E l \in proj[c].leases : l.id = bodies[m].ref
      <3>1. m # 1
        BY <1>6, <2>1
      <3>2. m - 1 \in 1..N /\ bodies[m] = ends[m - 1]
        BY <1>6, <1>7, <3>1
      <3> QED BY <1>1, <3>2 DEF p
    <2>2. bodies # <<>>
      BY <1>1, <1>6
    <2> QED BY <1>6, <1>8, <2>1, <2>2 DEF Allowed
  <1>10. ASSUME NEW ids \in [DOMAIN bodies -> Ids]
        PROVE  /\ live[ids[N + 1]] \in Rows
               /\ \E q : Applies(c, bodies, ids, q) /\ Columns(q[N + 1]) = Columns(live[ids[N + 1]])
    <2> DEFINE q == [k \in 0..(N + 1) |-> IF k = 0 THEN p ELSE WithoutFirst(r, ls, k - 1)]
    <2>1. live[ids[N + 1]] = t
      BY <1>1, <1>6
    <2>2. q[0] = p /\ \A k \in 1..(N + 1) : q[k] = WithoutFirst(r, ls, k - 1) /\ k - 1 \in 0..N
      BY <1>1
    <2>3. q[N + 1] = t /\ q[1] = WithoutFirst(r, ls, 0)
      BY <1>1, <1>3, <2>2
    <2> HIDE DEF q
    <2>4. \A k \in 0..(N + 1) : q[k] \in Rows
      <3> TAKE k \in 0..(N + 1)
      <3>1. CASE k = 0
        BY <1>2, <2>2, <3>1
      <3>2. CASE k # 0
        <4>1. k \in 1..(N + 1)
          BY <1>1, <3>2
        <4> QED BY <1>4, <2>2, <4>1
      <3> QED BY <3>1, <3>2
    <2>5. ASSUME NEW k \in 1..(N + 1), NEW e, Written(e[ids[k]], bodies[k])
          PROVE  Columns(q[k]) = Columns(fold_event(e, q[k - 1], ids[k]))
      <3>1. CASE k = 1
        BY <1>5, <1>6, <2>2, <2>3, <2>5, <3>1 DEF p
      <3>2. CASE k # 1
        <4>1. k - 1 \in 1..N /\ bodies[k] = ends[k - 1] /\ k - 1 \in 1..(N + 1)
          BY <1>1, <1>6, <1>7, <3>2
        <4> DEFINE j == k - 1
        <4>2. q[k] = WithoutFirst(r, ls, j) /\ q[k - 1] = WithoutFirst(r, ls, j - 1)
          BY <2>2, <4>1
        <4>3. Written(e[ids[k]], ends[j]) /\ j \in 1..Len(ls)
          BY <2>5, <4>1 DEF N
        <4> HIDE DEF j
        <4>4. Columns(WithoutFirst(r, ls, j)) = Columns(fold_event(e, WithoutFirst(r, ls, j - 1), ids[k]))
          BY <1>2, <4>3, EndBody
        <4> QED BY <4>2, <4>4
      <3> QED BY <3>1, <3>2
    <2>6. Applies(c, bodies, ids, q)
      BY <1>6, <2>2, <2>4, <2>5 DEF Applies, p
    <2>7. t \in Rows
      BY <1>1, <1>3, <1>4
    <2> QED BY <2>1, <2>3, <2>6, <2>7
  <1>11. Tells(c, bodies, live)
    BY <1>6, <1>10 DEF Tells
  <1>12. TrackerInv' /\ Writes(c, bodies)
    BY <1>9, <1>11, TransactKeeps DEF bodies, t
  <1> QED BY <1>6, <1>8, <1>12, NoClaim

\* finish_item keeps the invariant, although it writes the summary a rebuild would not.
LEMMA FinishKeeps ==
  ASSUME TrackerInv, NEW c \in Clones, NEW s \in Summaries, NEW x, finish_item(c, s, x)
  PROVE  TrackerInv' /\ SeesNoConflict
  <1> DEFINE b == [Blank EXCEPT !.kind = "issue.closed", !.status = "closed", !.summary = s]
             p == proj[c]
             r == [p EXCEPT !.status = "closed", !.summary = s]
  <1>1. PICK ls \in ToRelease(c, x) :
            Transact(c, <<b>> \o Released(ls), [i \in Ids |-> WithoutLeases(r, ls)])
    BY DEF finish_item
  <1>2. EndsOf(c, Released(ls), ls)
    BY ToReleaseOwn, ReleasedEnds
  <1>3. b \in Events /\ b.kind = "issue.closed" /\ b.status = "closed" /\ b.summary = s
    BY NeverIsNat DEF Blank, Events, Kinds, Statuses
  <1>4. p \in Rows /\ p.row /\ IsFiled(ev, Held(c))
    BY OwnLeases, OwnRow DEF finish_item
  <1> HIDE DEF b
  <1>5. r \in Rows /\ r.leases = p.leases
    BY <1>4 DEF Rows, Statuses
  <1>6. ASSUME NEW e, NEW i, Written(e[i], b)
        PROVE  Columns(r) = Columns(fold_event(e, p, i))
    <2> DEFINE y == fold_event(e, p, i)
               m == IF e[i].summary = None THEN p.summary ELSE e[i].summary
    <2>1. y = [p EXCEPT !.status = "closed", !.summary = m]
      BY <1>3, <1>4, <1>6 DEF fold_event, Written, fold_set_status
    <2> HIDE DEF y, m
    <2> QED BY <1>4, <2>1 DEF Columns, Rows, y
  <1> HIDE DEF r
  <1> QED BY <1>1, <1>2, <1>3, <1>4, <1>5, <1>6, CloseKeeps DEF IsEnd, IsAcquire

\* cancel_item keeps the invariant.
LEMMA CancelKeeps ==
  ASSUME TrackerInv, NEW c \in Clones, NEW s \in Summaries, NEW x, cancel_item(c, s, x)
  PROVE  TrackerInv' /\ SeesNoConflict
  <1> DEFINE b == [Blank EXCEPT !.kind = "issue.canceled", !.status = "canceled", !.summary = s]
             p == proj[c]
             r == fold_set_status(p, b)
  <1>1. PICK ls \in ToRelease(c, x) :
            Transact(c, <<b>> \o Released(ls), [i \in Ids |-> WithoutLeases(r, ls)])
    BY DEF cancel_item
  <1>2. EndsOf(c, Released(ls), ls)
    BY ToReleaseOwn, ReleasedEnds
  <1>3. b \in Events /\ b.kind = "issue.canceled" /\ b.status = "canceled" /\ b.summary = s
    BY NeverIsNat DEF Blank, Events, Kinds, Statuses
  <1>4. p \in Rows /\ p.row /\ IsFiled(ev, Held(c))
    BY OwnLeases, OwnRow DEF cancel_item
  <1> HIDE DEF b
  <1>5. r \in Rows /\ r.leases = p.leases
    BY <1>3, <1>4 DEF Rows, Statuses, fold_set_status
  <1>6. ASSUME NEW e, NEW i, Written(e[i], b)
        PROVE  Columns(r) = Columns(fold_event(e, p, i))
    BY <1>3, <1>4, <1>6 DEF fold_event, Written, fold_set_status
  <1> HIDE DEF r
  <1> QED BY <1>1, <1>2, <1>3, <1>4, <1>5, <1>6, CloseKeeps DEF IsEnd, IsAcquire

\* A claim after the ends of all the leases that are not out.
Granted(p, ls, b, i) ==
    [WithoutLeases(p, ls) EXCEPT !.leases = @ \cup {Lease(i, [b EXCEPT !.at = now])}]

\* The row with the lease granted is the one a rebuild makes of the claim.
LEMMA GrantedIs ==
  ASSUME TrackerInv, NEW p \in Rows, IsFiniteSet(p.leases), NEW S, NEW ls \in Seq(S),
         NEW b \in Events, NEW i \in Nat
  PROVE  /\ Granted(p, ls, b, i) \in Rows
         /\ \A e : Written(e[i], b) /\ IsAcquire(b) =>
               Columns(Granted(p, ls, b, i)) = Columns(fold_event(e, WithoutFirst(p, ls, Len(ls)), i))
  <1> DEFINE o == WithoutFirst(p, ls, Len(ls))
             x == [b EXCEPT !.at = now]
             l == Lease(i, x)
             M == o.leases \cup {l}
             r == Granted(p, ls, b, i)
  <1>1. o \in Rows /\ now \in Nat
    <2>1. Len(ls) \in Nat
      BY ListOf
    <2> QED BY <2>1, WithoutFirstIs
  <1>2. r = [o EXCEPT !.leases = M]
    BY WithoutAll DEF Granted
  <1>3. x.actor = b.actor /\ x.at = now /\ x.until = b.until
    BY DEF Events
  <1>4. l \in LeaseRows /\ l = [id |-> i, actor |-> b.actor, since |-> now, until |-> b.until, out |-> Never]
    <2>1. b.actor \in Actors \cup {None} /\ b.until \in Nat
      BY DEF Events
    <2> HIDE DEF x
    <2>2. l = [id |-> i, actor |-> b.actor, since |-> now, until |-> b.until, out |-> Never]
      BY <1>3 DEF Lease
    <2> QED BY <1>1, <2>1, <2>2, NeverIsNat DEF LeaseRows
  <1> HIDE DEF o, l
  <1>5. o.leases \in SUBSET LeaseRows
    BY <1>1 DEF Rows
  <1>6. M \in SUBSET LeaseRows
    BY <1>4, <1>5
  <1>7. ASSUME NEW e, Written(e[i], b), IsAcquire(b) PROVE Columns(r) = Columns(fold_event(e, o, i))
    <2>1. Lease(i, e[i]) = l
      BY <1>4, <1>7 DEF Lease, Written
    <2>2. e[i].kind = "claim.acquired"
      BY <1>7 DEF Written, IsAcquire
    <2>3. fold_event(e, o, i) = [o EXCEPT !.leases = o.leases \cup {Lease(i, e[i])}]
      BY <2>2 DEF fold_event
    <2> QED BY <1>2, <2>1, <2>3
  <1> HIDE DEF M, r
  <1>8. r \in Rows
    BY <1>1, <1>2, <1>6 DEF Rows
  <1> QED BY <1>7, <1>8 DEF r, o

\* The setters a clone holds agree.
Agreed(c) == \A x, y \in Unsuperseded(Held(c)) : ev[x].status = ev[y].status

\* A granted claim keeps the invariant, and saw no conflict unless it was forced.
LEMMA GrantKeeps ==
  ASSUME TrackerInv, NEW c \in Clones, NEW b \in Events, IsAcquire(b), IsFiled(ev, Held(c)),
         b.forced \/ Agreed(c), NEW ends, NEW ls, EndsOf(c, ends, ls),
         \A l \in proj[c].leases : l.out = Never => \E n \in 1..Len(ls) : ls[n] = l,
         Transact(c, Append(ends, b), [i \in Ids |-> Granted(proj[c], ls, b, i)])
  PROVE  TrackerInv' /\ SeesNoConflict
  <1> DEFINE p == proj[c]
             N == Len(ls)
             bodies == Append(ends, b)
             live == [i \in Ids |-> Granted(p, ls, b, i)]
  <1>1. /\ N \in Nat /\ Len(ends) = N /\ ends \in Seq(Events) /\ ls \in Seq(p.leases)
        /\ \A k \in 1..N : ls[k] \in p.leases /\ IsEnd(ends[k]) /\ ends[k].ref = ls[k].id
    <2>1. ls \in Seq(p.leases) /\ ends \in Seq(Events) /\ Len(ends) = N
      BY DEF EndsOf
    <2>2. N \in Nat /\ \A k \in 1..N : ls[k] \in p.leases
      BY <2>1, ListOf
    <2> QED BY <2>1, <2>2 DEF EndsOf
  <1>2. p \in Rows /\ IsFiniteSet(p.leases)
    BY OwnRow
  <1>3. \A k \in 0..N : WithoutFirst(p, ls, k) \in Rows
    BY <1>1, <1>2, WithoutFirstIs
  <1>4. Columns(WithoutFirst(p, ls, 0)) = Columns(p)
    BY <1>2, WithoutNone
  <1>5. Ids \in SUBSET Nat
    BY TrackerConstants DEF Ids, TrackerInv, TrackerTypeOK
  <1>6. \A i \in Ids : /\ Granted(p, ls, b, i) \in Rows
                       /\ \A e : Written(e[i], b) =>
                            Columns(Granted(p, ls, b, i)) = Columns(fold_event(e, WithoutFirst(p, ls, N), i))
    BY <1>1, <1>2, <1>5, GrantedIs
  <1> HIDE DEF N
  <1>7. /\ bodies \in Seq(Events) /\ Len(bodies) = N + 1 /\ bodies[N + 1] = b /\ DOMAIN bodies = 1..(N + 1)
        /\ \A k \in 1..N : bodies[k] = ends[k]
    BY <1>1
  <1> HIDE DEF bodies, p
  <1>8. \A m \in 1..(N + 1) : m = N + 1 \/ (m \in 1..N /\ IsEnd(bodies[m]) /\ ~IsAcquire(bodies[m]))
    BY <1>1, <1>7 DEF IsEnd, IsAcquire
  <1>9. Allowed(c, bodies)
    <2>1. ASSUME NEW m \in 1..(N + 1), IsEnd(bodies[m]) PROVE \E l \in proj[c].leases : l.id = bodies[m].ref
      <3>1. m \in 1..N
        BY <1>7, <1>8, <2>1 DEF IsEnd, IsAcquire
      <3> QED BY <1>1, <1>7, <3>1 DEF p
    <2>2. bodies # <<>>
      BY <1>1, <1>7
    <2>3. ASSUME NEW m \in 1..(N + 1), IsAcquire(bodies[m])
          PROVE  /\ \A n \in 1..(m - 1) : ~IsAcquire(bodies[n])
                 /\ \A l \in proj[c].leases :
                       l.out = Never => \E n \in 1..(m - 1) : IsEnd(bodies[n]) /\ bodies[n].ref = l.id
      <3>1. m = N + 1 /\ m - 1 = N
        BY <1>1, <1>8, <2>3
      <3>2. \A n \in 1..N : n \in 1..(N + 1) /\ n # N + 1
        BY <1>1
      <3>3. ASSUME NEW l \in proj[c].leases, l.out = Never
            PROVE  \E n \in 1..N : IsEnd(bodies[n]) /\ bodies[n].ref = l.id
        <4>1. PICK n \in 1..N : ls[n] = l
          BY <3>3 DEF N
        <4> QED BY <1>1, <1>7, <4>1
      <3> QED BY <1>8, <3>1, <3>2, <3>3
    <2> QED BY <1>7, <2>1, <2>2, <2>3 DEF Allowed
  <1>10. ASSUME NEW ids \in [DOMAIN bodies -> Ids]
        PROVE  /\ live[ids[N + 1]] \in Rows
               /\ \E q : Applies(c, bodies, ids, q) /\ Columns(q[N + 1]) = Columns(live[ids[N + 1]])
    <2> DEFINE i == ids[N + 1]
               g == Granted(p, ls, b, i)
               q == [k \in 0..(N + 1) |-> IF k = N + 1 THEN g ELSE WithoutFirst(p, ls, k)]
    <2>1. i \in Ids /\ live[i] = g
      BY <1>1, <1>7
    <2>2. g \in Rows /\ \A e : Written(e[i], b) => Columns(g) = Columns(fold_event(e, WithoutFirst(p, ls, N), i))
      BY <1>6, <2>1
    <2> HIDE DEF g
    <2>3. q[N + 1] = g /\ \A k \in 0..N : q[k] = WithoutFirst(p, ls, k)
      BY <1>1
    <2>4. q[0] = WithoutFirst(p, ls, 0)
      BY <1>1, <2>3
    <2> HIDE DEF q, i
    <2>5. \A k \in 0..(N + 1) : k \in 0..N \/ k = N + 1
      BY <1>1
    <2>6. \A k \in 0..(N + 1) : q[k] \in Rows
      BY <1>3, <2>2, <2>3, <2>5
    <2>7. ASSUME NEW k \in 1..(N + 1), NEW e, Written(e[ids[k]], bodies[k])
          PROVE  Columns(q[k]) = Columns(fold_event(e, q[k - 1], ids[k]))
      <3>1. CASE k = N + 1
        <4>1. k - 1 = N /\ N \in 0..N /\ bodies[k] = b /\ ids[k] = i
          BY <1>1, <1>7, <3>1 DEF i
        <4>2. q[k - 1] = WithoutFirst(p, ls, N) /\ q[k] = g
          BY <2>3, <3>1, <4>1
        <4> QED BY <2>2, <2>7, <4>1, <4>2
      <3>2. CASE k # N + 1
        <4>1. k \in 1..N /\ k \in 0..N /\ k - 1 \in 0..N /\ bodies[k] = ends[k]
          BY <1>1, <1>7, <3>2
        <4>2. q[k] = WithoutFirst(p, ls, k) /\ q[k - 1] = WithoutFirst(p, ls, k - 1)
          BY <2>3, <4>1
        <4>3. Written(e[ids[k]], ends[k]) /\ k \in 1..Len(ls)
          BY <2>7, <4>1 DEF N
        <4>4. Columns(WithoutFirst(p, ls, k)) = Columns(fold_event(e, WithoutFirst(p, ls, k - 1), ids[k]))
          BY <1>2, <4>3, EndBody
        <4> QED BY <4>2, <4>4
      <3> QED BY <3>1, <3>2
    <2>8. Applies(c, bodies, ids, q)
      BY <1>4, <1>7, <2>4, <2>6, <2>7 DEF Applies, p
    <2> QED BY <2>1, <2>2, <2>3, <2>8 DEF i
  <1>11. Tells(c, bodies, live)
    BY <1>7, <1>10 DEF Tells
  <1>12. TrackerInv' /\ Writes(c, bodies)
    BY <1>9, <1>11, TransactKeeps DEF bodies, p
  <1>13. SeesNoConflict
    <2>1. \A d \in Clones \ {c} : ToSet(log'[d]) \ Held(d) = {}
      BY <1>12 DEF Writes, Held
    <2>2. ASSUME NEW i \in ToSet(log'[c]) \ Held(c), ev'[i].kind = "claim.acquired", ~ev'[i].forced
          PROVE  Agreed(c)
      <3>1. PICK m \in 1..(N + 1) : ev'[i].kind = bodies[m].kind /\ ev'[i].forced = bodies[m].forced
        BY <1>7, <1>12 DEF Writes
      <3>2. m = N + 1
        BY <1>8, <2>2, <3>1 DEF IsAcquire
      <3> QED BY <1>7, <2>2, <3>1, <3>2
    <2> QED BY <2>1, <2>2 DEF SeesNoConflict, Agreed
  <1> QED BY <1>12, <1>13

-----------------------------------------------------------------------------
(* The conflict view: what it leaves out is superseded.                    *)

Superseded(e, S, k) == \E j \in S : SetsStatus(e[j]) /\ k \in Ancestors(e, S, j)

\* What is covered has a later setter: one step up the order.
LEMMA CoverStep ==
  ASSUME NEW e, NEW S, IsFiniteSet(S), NEW C, \A k \in C : Superseded(e, S, k), NEW i
  PROVE  \A k \in Cover(e, S, C, i) : Superseded(e, S, k)
  <1> TAKE k \in Cover(e, S, C, i)
  <1>1. CASE k \in C
    BY <1>1
  <1>2. CASE k \notin C
    <2>1. PICK j \in S : k \in e[j].parents /\ (j \in C \/ SetsStatus(e[j]))
      BY <1>2 DEF Cover
    <2>2. CASE SetsStatus(e[j])
      <3>1. e[j].parents \in SUBSET Ancestors(e, S, j)
        BY AncestorsLeast
      <3> QED BY <2>1, <2>2, <3>1 DEF Superseded
    <2>3. CASE j \in C
      <3>1. PICK h \in S : SetsStatus(e[h]) /\ j \in Ancestors(e, S, h)
        BY <2>3 DEF Superseded
      <3>2. Closed(e, S, Ancestors(e, S, h))
        BY AncestorsLeast
      <3>3. k \in Ancestors(e, S, h)
        BY <2>1, <3>1, <3>2 DEF Closed
      <3> QED BY <3>1, <3>3 DEF Superseded
    <2> QED BY <2>1, <2>2, <2>3
  <1> QED BY <1>1, <1>2

\* What analyze_issue_dag leaves out is superseded.
LEMMA CoveredSuperseded ==
  ASSUME NEW e, NEW S, IsFiniteSet(S), NEW s, Len(s) \in Nat
  PROVE  \A k \in CoveredBy(e, S, s) : Superseded(e, S, k)
  <1> DEFINE N == Len(s)
  <1>1. PICK f : Covering(f, e, S, s)
    BY CoveringExists
  <1> DEFINE P(n) == \A k \in f[n] : Superseded(e, S, k)
             Bad == {n \in 0..N : ~P(n)}
  <1>2. N \in Nat /\ CoveredBy(e, S, s) = f[N]
    BY <1>1 DEF Covering
  <1>3. P(0)
    BY <1>1 DEF Covering
  <1>4. ASSUME NEW n \in 1..N, P(n - 1) PROVE P(n)
    <2>1. f[n] = Cover(e, S, f[n - 1], s[N + 1 - n])
      BY <1>1 DEF Covering
    <2> QED BY <1>4, <2>1, CoverStep
  <1> HIDE DEF N, P
  <1>5. ASSUME Bad # {} PROVE FALSE
    <2>1. Bad \in SUBSET Nat
      BY <1>2
    <2>2. PICK n \in Bad : \A m \in Bad : n <= m
      BY <1>5, <2>1, Least
    <2>3. n \in 0..N /\ ~P(n) /\ n # 0
      BY <1>3, <2>2
    <2>4. n \in 1..N /\ n - 1 \in 0..N /\ n - 1 \notin Bad
      BY <1>2, <2>2, <2>3
    <2> QED BY <1>4, <2>3, <2>4
  <1>6. P(N)
    BY <1>2, <1>5
  <1> QED BY <1>2, <1>6 DEF P

\* A set of at most one element.
LEMMA AtMostOne ==
  ASSUME NEW A, IsFiniteSet(A), ~(Cardinality(A) > 1), NEW x \in A, NEW y \in A
  PROVE  x = y
  <1> SUFFICES ASSUME x # y PROVE FALSE
    OBVIOUS
  <1>1. Cardinality({x}) = 1 /\ IsFiniteSet({x})
    BY FS_Singleton
  <1>2. IsFiniteSet({x} \cup {y}) /\ Cardinality({x} \cup {y}) = 2
    <2>1. y \notin {x}
      OBVIOUS
    <2>2. Cardinality({x} \cup {y}) = IF y \in {x} THEN Cardinality({x}) ELSE Cardinality({x}) + 1
      BY <1>1, FS_AddElement, Zenon
    <2>3. IsFiniteSet({x} \cup {y})
      BY <1>1, FS_AddElement, Zenon
    <2> QED BY <1>1, <2>1, <2>2, <2>3
  <1>3. Cardinality({x} \cup {y}) <= Cardinality(A) /\ Cardinality(A) \in Nat
    BY FS_Subset, FS_CardinalityType
  <1> QED BY <1>2, <1>3

\* An issue that is ready has setters that agree.
LEMMA ReadyAgrees ==
  ASSUME TrackerInv, NEW c \in Clones, NEW at, Ready(ev, log[c], at)
  PROVE  Agreed(c)
  <1> DEFINE S == Held(c)
             s == topological_event_order(ev, S)
             C == CoveredBy(ev, S, s)
             A == analyze_issue_dag(ev, S)
  <1>1. S \in SUBSET DOMAIN ev /\ Dag(ev)
    BY OwnLeases DEF TrackerInv, TrackerTypeOK, Ledger
  <1>2. IsFiniteSet(S)
    BY <1>1, FS_Subset DEF Dag
  <1>3. ~(Cardinality(A) > 1)
    BY DEF Ready, StatusConflicted, Held
  <1>4. A = {ev[i].status : i \in {j \in S \ C : SetsStatus(ev[j])}}
    BY DEF analyze_issue_dag
  <1>5. Len(s) \in Nat
    BY <1>1, OrderIsWhole
  <1> HIDE DEF S, s, A
  <1>6. \A k \in C : Superseded(ev, S, k)
    BY <1>2, <1>5, CoveredSuperseded
  <1> HIDE DEF C
  <1>7. \A x \in Unsuperseded(S) : x \in S \ C /\ SetsStatus(ev[x])
    BY <1>6 DEF Unsuperseded, Superseded
  <1>8. IsFiniteSet(A)
    <2> DEFINE T == {j \in S \ C : SetsStatus(ev[j])}
               f == [j \in T |-> ev[j].status]
    <2>1. IsFiniteSet(T)
      BY <1>2, FS_Subset
    <2>2. A = {f[j] : j \in T} /\ DOMAIN f = T
      BY <1>4
    <2> HIDE DEF f, T
    <2> QED BY <2>1, <2>2, FiniteImage
  <1>9. ASSUME NEW x \in Unsuperseded(S), NEW y \in Unsuperseded(S) PROVE ev[x].status = ev[y].status
    <2>1. ev[x].status \in A /\ ev[y].status \in A
      BY <1>4, <1>7
    <2> QED BY <1>3, <1>8, <2>1, AtMostOne
  <1> QED BY <1>9 DEF Agreed, S

\* claim_item_at keeps the invariant, granted or refused, and sees conflicts.
LEMMA ClaimKeeps ==
  ASSUME TrackerInv, NEW c \in Clones, NEW a \in Actors, NEW ttl \in Nat, NEW at \in Nat, NEW forced \in BOOLEAN,
         claim_item_at(c, a, ttl, at, forced)
  PROVE  TrackerInv' /\ SeesNoConflict
  <1> DEFINE p == proj[c]
             L == Lapsed(p, at)
             ls == SetToSeq(L)
             ends == [k \in DOMAIN ls |-> [Blank EXCEPT !.kind = "claim.expired", !.ref = ls[k].id]]
             ready == Ready(ev, log[c], at)
             d == Deadline(ttl)
             f == forced /\ ~ready
             b == [Blank EXCEPT !.kind = "claim.acquired", !.actor = a, !.until = d, !.forced = f]
             granted == Active(p, at) = {} /\ p.status = "open" /\ (ready \/ forced)
  <1>1. IF granted THEN Transact(c, Append(ends, b), [i \in Ids |-> Granted(p, ls, b, i)])
        ELSE ls # <<>> /\ Transact(c, ends, [i \in Ids |-> WithoutLeases(p, ls)])
    BY DEF claim_item_at, Granted
  <1>2. p.row /\ p \in Rows /\ IsFiled(ev, Held(c)) /\ p.leases \in SUBSET LeaseRows /\ IsFiniteSet(p.leases)
    BY OwnRow, OwnLeases DEF claim_item_at
  <1>3. L \in SUBSET p.leases /\ IsFiniteSet(L)
    <2>1. L \in SUBSET p.leases
      BY DEF Lapsed
    <2> QED BY <1>2, <2>1, FS_Subset
  <1>4. Active(p, at) = {} => \A l \in p.leases : l.out = Never => l \in L
    <2>1. SUFFICES ASSUME Active(p, at) = {}, NEW l \in p.leases, l.out = Never PROVE l \in L
      OBVIOUS
    <2>2. ~(l.until > at)
      BY <2>1 DEF Active
    <2>3. l.until \in Nat
      BY <1>2, <2>1 DEF LeaseRows
    <2>4. l.until <= at
      BY <2>2, <2>3
    <2> QED BY <2>1, <2>4 DEF Lapsed
  <1>5. ready => Agreed(c)
    BY ReadyAgrees
  <1>6. d \in Nat
    BY DeadlineType
  <1> HIDE DEF L, ready, d, p
  <1>7. ls \in Seq(L) /\ ToSet(ls) = L
    BY <1>3, Listed
  <1> HIDE DEF ls
  <1>8. b \in Events /\ b.kind = "claim.acquired" /\ b.forced = f
    <2>1. f \in BOOLEAN
      OBVIOUS
    <2> HIDE DEF f
    <2> QED BY <1>6, <2>1, NeverIsNat DEF Blank, Events, Kinds
  <1> DEFINE N == Len(ls)
  <1>9. N \in Nat /\ DOMAIN ls = 1..N /\ \A k \in 1..N : ls[k] \in L
    BY <1>7, ListOf
  <1>10. ls \in Seq(p.leases) /\ \A l \in L : \E n \in 1..N : ls[n] = l
    BY <1>3, <1>7, <1>9 DEF ToSet
  <1>11. \A k \in 1..N : ls[k].id \in Nat
    BY <1>2, <1>3, <1>9 DEF LeaseRows
  <1> HIDE DEF N, b
  <1>12. ends = [k \in 1..N |-> [Blank EXCEPT !.kind = "claim.expired", !.ref = ls[k].id]]
    BY <1>9
  <1>13. \A k \in 1..N : ends[k] \in Events /\ IsEnd(ends[k]) /\ ends[k].ref = ls[k].id
    <2> TAKE k \in 1..N
    <2> DEFINE n == ls[k].id
               x == [Blank EXCEPT !.kind = "claim.expired", !.ref = n]
    <2>1. ends[k] = x /\ n \in Nat
      BY <1>11, <1>12
    <2> HIDE DEF n
    <2>2. x \in Events
      BY <2>1, NeverIsNat DEF Blank, Events, Kinds
    <2>3. x.kind = "claim.expired" /\ x.ref = n
      BY DEF Blank
    <2> HIDE DEF x
    <2> QED BY <2>1, <2>2, <2>3 DEF IsEnd, n
  <1> HIDE DEF ends
  <1>14. EndsOf(c, ends, ls)
    <2>1. ends \in [1..N -> Events]
      BY <1>12, <1>13
    <2>2. ends \in Seq(Events) /\ Len(ends) = N
      BY <1>9, <2>1
    <2> QED BY <1>10, <1>13, <2>2 DEF EndsOf, N, p
  <1>15. CASE granted
    <2>1. \A l \in p.leases : l.out = Never => \E n \in 1..N : ls[n] = l
      BY <1>4, <1>10, <1>15
    <2>2. b.forced \/ Agreed(c)
      BY <1>5, <1>8, <1>15
    <2>3. Transact(c, Append(ends, b), [i \in Ids |-> Granted(p, ls, b, i)])
      BY <1>1, <1>15
    <2> QED BY <1>2, <1>8, <1>14, <2>1, <2>2, <2>3, GrantKeeps DEF IsAcquire, N, p
  <1>16. CASE ~granted
    <2>1. ls # <<>> /\ Transact(c, ends, [i \in Ids |-> WithoutLeases(p, ls)])
      BY <1>1, <1>16
    <2> QED BY <1>14, <2>1, EndsKeep DEF p
  <1> QED BY <1>15, <1>16

-----------------------------------------------------------------------------
(* Syncs, the clock and the initial states.                                *)

\* The variables of syncs and the clocks have their types.
SyncTypes ==
    /\ now \in 0..MaxTime /\ crashes \in 0..MaxCrashes /\ DOMAIN dir \in SUBSET DOMAIN ev
    /\ pc \in [Clones -> Stages] /\ todo \in [Clones -> Seq(DOMAIN ev)]
    /\ seen \in [Clones -> SUBSET DOMAIN ev]

\* A step that leaves the stores alone keeps the invariant.
LEMMA StoresKept ==
  ASSUME TrackerInv, UNCHANGED stores, SyncTypes'
  PROVE  TrackerInv' /\ SeesNoConflict
  <1>1. /\ menu' = menu /\ ev' = ev /\ log' = log /\ proj' = proj /\ reported' = reported /\ blind' = blind
    BY DEF stores
  <1>2. TrackerTypeOK'
    BY <1>1 DEF TrackerInv, TrackerTypeOK, SyncTypes, Ledger, Events, Rows, LeaseRows, Actors, Summaries, Ids
  <1>3. LiveIsRebuilt' /\ AllReported' /\ EndsFollow(ev)' /\ ClaimsFollow(ev, blind)'
    <2>1. LiveIsRebuilt'
      BY <1>1 DEF TrackerInv, LiveIsRebuilt
    <2>2. AllReported'
      BY <1>1 DEF TrackerInv, AllReported, Held
    <2>3. EndsFollow(ev)' /\ ClaimsFollow(ev, blind)'
      BY <1>1 DEF TrackerInv, EndsFollow, ClaimsFollow
    <2> QED BY <2>1, <2>2, <2>3
  <1>4. SeesNoConflict
    BY <1>1 DEF SeesNoConflict, Held
  <1> QED BY <1>2, <1>3, <1>4 DEF TrackerInv

\* sync_dir keeps the invariant.
LEMMA StartKeeps ==
  ASSUME TrackerInv, NEW c \in Clones, sync_dir(c)
  PROVE  TrackerInv' /\ SeesNoConflict
  <1>1. TrackerTypeOK
    BY DEF TrackerInv
  <1>2. /\ UNCHANGED stores /\ menu' = menu /\ ev' = ev /\ dir' = dir /\ seen' = seen /\ now' = now
        /\ crashes' = crashes
        /\ pc' = [pc EXCEPT ![c] = "export"] /\ todo' = [todo EXCEPT ![c] = log[c]]
    BY DEF sync_dir, stores
  <1>3. pc' \in [Clones -> Stages] /\ todo' \in [Clones -> Seq(DOMAIN ev)]
    BY <1>1, <1>2 DEF TrackerTypeOK, Stages
  <1>4. SyncTypes'
    BY <1>1, <1>2, <1>3 DEF SyncTypes, TrackerTypeOK, MaxTime, MaxCrashes
  <1> QED BY <1>2, <1>4, StoresKept

\* The file an export writes next is that of an event.
LEMMA FirstIsMissing ==
  ASSUME TrackerInv, NEW c \in Clones, Missing(c) # {}
  PROVE  /\ FirstMissing(c) \in 1..Len(todo[c]) /\ todo[c][FirstMissing(c)] \in DOMAIN ev
         /\ todo[c] \in Seq(DOMAIN ev)
  <1> DEFINE s == todo[c]
             M == Missing(c)
  <1>1. s \in Seq(DOMAIN ev)
    BY DEF TrackerInv, TrackerTypeOK
  <1>2. Len(s) \in Nat /\ DOMAIN s = 1..Len(s) /\ \A k \in 1..Len(s) : s[k] \in DOMAIN ev
    BY <1>1, ListOf
  <1>3. M \in SUBSET 1..Len(s)
    BY <1>2 DEF Missing
  <1>4. M \in SUBSET Nat
    BY <1>2, <1>3
  <1> HIDE DEF M
  <1>5. \E n \in M : \A m \in M : n <= m
    BY <1>4, Least DEF M
  <1>6. FirstMissing(c) = CHOOSE n \in M : \A m \in M : n <= m
    BY DEF FirstMissing, M
  <1>7. FirstMissing(c) \in M
    BY <1>5, <1>6
  <1> QED BY <1>1, <1>2, <1>3, <1>7

\* Writing a file keeps the invariant.
LEMMA ExportKeeps ==
  ASSUME TrackerInv, NEW c \in Clones, export_file(c)
  PROVE  TrackerInv' /\ SeesNoConflict
  <1> DEFINE n == FirstMissing(c)
             s == todo[c]
             x == s[n]
             rest == SubSeq(s, n + 1, Len(s))
  <1>1. TrackerTypeOK
    BY DEF TrackerInv
  <1>2. /\ UNCHANGED stores /\ menu' = menu /\ ev' = ev /\ seen' = seen /\ now' = now
        /\ crashes' = crashes /\ pc' = pc /\ Missing(c) # {}
        /\ dir' = Put(dir, x, "whole") /\ todo' = [todo EXCEPT ![c] = rest]
    BY DEF export_file, stores
  <1>3. n \in 1..Len(s) /\ x \in DOMAIN ev /\ s \in Seq(DOMAIN ev)
    BY <1>2, FirstIsMissing
  <1> HIDE DEF n, s, x
  <1>4. rest \in Seq(DOMAIN ev)
    BY <1>3
  <1>5. DOMAIN dir' = DOMAIN dir \cup {x}
    BY <1>2 DEF Put
  <1> HIDE DEF rest
  <1>6. todo' \in [Clones -> Seq(DOMAIN ev)]
    BY <1>1, <1>2, <1>4 DEF TrackerTypeOK
  <1>7. SyncTypes'
    BY <1>1, <1>2, <1>3, <1>5, <1>6 DEF SyncTypes, TrackerTypeOK, MaxTime, MaxCrashes
  <1> QED BY <1>2, <1>7, StoresKept

\* Listing the directory keeps the invariant.
LEMMA ReadKeeps ==
  ASSUME TrackerInv, NEW c \in Clones, import_read(c)
  PROVE  TrackerInv' /\ SeesNoConflict
  <1>1. TrackerTypeOK
    BY DEF TrackerInv
  <1>2. /\ UNCHANGED stores /\ menu' = menu /\ ev' = ev /\ dir' = dir /\ now' = now /\ crashes' = crashes
        /\ pc' = [pc EXCEPT ![c] = "import"] /\ todo' = [todo EXCEPT ![c] = <<>>]
        /\ seen' = [seen EXCEPT ![c] = WholeFiles]
    BY DEF import_read, stores
  <1>3. WholeFiles \in SUBSET DOMAIN ev
    BY <1>1 DEF WholeFiles, TrackerTypeOK
  <1>4. /\ pc' \in [Clones -> Stages] /\ todo' \in [Clones -> Seq(DOMAIN ev)]
        /\ seen' \in [Clones -> SUBSET DOMAIN ev]
    BY <1>1, <1>2, <1>3 DEF TrackerTypeOK, Stages
  <1>5. SyncTypes'
    BY <1>1, <1>2, <1>4 DEF SyncTypes, TrackerTypeOK, MaxTime, MaxCrashes
  <1> QED BY <1>2, <1>5, StoresKept

\* A killed sync keeps the invariant, also when it tears a file.
LEMMA CrashKeeps ==
  ASSUME TrackerInv, NEW c \in Clones, crash(c)
  PROVE  TrackerInv' /\ SeesNoConflict
  <1> DEFINE x == todo[c][FirstMissing(c)]
  <1>1. TrackerTypeOK
    BY DEF TrackerInv
  <1>2. /\ UNCHANGED stores /\ menu' = menu /\ ev' = ev /\ now' = now
        /\ crashes < MaxCrashes /\ crashes' = crashes + 1
        /\ dir' = dir \/ (Missing(c) # {} /\ dir' = Put(dir, x, "torn"))
        /\ pc' = [pc EXCEPT ![c] = "idle"] /\ todo' = [todo EXCEPT ![c] = <<>>]
        /\ seen' = [seen EXCEPT ![c] = {}]
    BY DEF crash, stores
  <1>3. DOMAIN dir' \in SUBSET DOMAIN ev
    <2>1. DOMAIN dir \in SUBSET DOMAIN ev
      BY <1>1 DEF TrackerTypeOK
    <2>2. CASE dir' = dir
      BY <2>1, <2>2
    <2>3. CASE Missing(c) # {} /\ dir' = Put(dir, x, "torn")
      <3>1. x \in DOMAIN ev
        BY <2>3, FirstIsMissing
      <3> HIDE DEF x
      <3>2. DOMAIN dir' = DOMAIN dir \cup {x}
        BY <2>3 DEF Put
      <3> QED BY <2>1, <3>1, <3>2
    <2> QED BY <1>2, <2>2, <2>3
  <1>4. /\ pc' \in [Clones -> Stages] /\ todo' \in [Clones -> Seq(DOMAIN ev)]
        /\ seen' \in [Clones -> SUBSET DOMAIN ev]
    BY <1>1, <1>2 DEF TrackerTypeOK, Stages
  <1>5. crashes' \in 0..MaxCrashes /\ MaxCrashes' = MaxCrashes /\ MaxTime' = MaxTime
    <2>1. MaxCrashes \in Nat
      BY <1>1, TrackerConstants DEF TrackerTypeOK, MaxCrashes
    <2> QED BY <1>1, <1>2, <2>1 DEF TrackerTypeOK, MaxCrashes, MaxTime
  <1>6. SyncTypes'
    BY <1>1, <1>2, <1>3, <1>4, <1>5 DEF SyncTypes, TrackerTypeOK
  <1> QED BY <1>2, <1>6, StoresKept

\* The clock keeps the invariant.
LEMMA TickKeeps ==
  ASSUME TrackerInv, tick
  PROVE  TrackerInv' /\ SeesNoConflict
  <1>1. TrackerTypeOK
    BY DEF TrackerInv
  <1>2. /\ UNCHANGED stores /\ menu' = menu /\ ev' = ev /\ now' = now + 1 /\ now < MaxTime
        /\ crashes' = crashes /\ dir' = dir /\ pc' = pc /\ todo' = todo /\ seen' = seen
    BY DEF tick, stores, syncs
  <1>3. now' \in 0..MaxTime /\ MaxTime' = MaxTime /\ MaxCrashes' = MaxCrashes
    <2>1. MaxTime \in Nat
      BY <1>1, TrackerConstants DEF TrackerTypeOK, MaxTime
    <2> QED BY <1>1, <1>2, <2>1 DEF TrackerTypeOK, MaxCrashes, MaxTime
  <1>4. SyncTypes'
    BY <1>1, <1>2, <1>3 DEF SyncTypes, TrackerTypeOK
  <1> QED BY <1>2, <1>4, StoresKept

\* A step of nothing keeps the invariant.
LEMMA StutterKeeps ==
  ASSUME TrackerInv, UNCHANGED vars
  PROVE  TrackerInv' /\ SeesNoConflict
  <1>1. /\ UNCHANGED stores /\ menu' = menu /\ ev' = ev /\ now' = now /\ crashes' = crashes
        /\ dir' = dir /\ pc' = pc /\ todo' = todo /\ seen' = seen
    BY DEF vars, stores
  <1>2. SyncTypes'
    BY <1>1 DEF TrackerInv, SyncTypes, TrackerTypeOK, MaxTime, MaxCrashes
  <1> QED BY <1>1, <1>2, StoresKept

\* import_events keeps the invariant: it rebuilds, and reports what is new.
LEMMA ImportKeeps ==
  ASSUME TrackerInv, NEW c \in Clones, import_events(c)
  PROVE  TrackerInv' /\ SeesNoConflict
  <1>1. TrackerTypeOK /\ LiveIsRebuilt /\ AllReported
    BY DEF TrackerInv
  <1>2. PICK late \in SUBSET (WholeFiles \ seen[c]) : \E rows \in Inserted(c, seen[c] \cup late) :
            /\ log' = [log EXCEPT ![c] = log[c] \o rows]
            /\ proj' = [proj EXCEPT ![c] = tx_rebuild_projection(ev, log[c] \o rows)]
            /\ reported' = [reported EXCEPT ![c] = @ \cup NewlyConcurrent(c, log[c] \o rows)]
    BY DEF import_events
  <1> DEFINE F == Fresh(c, seen[c] \cup late)
  <1>3. PICK rows \in Inserted(c, seen[c] \cup late) :
            /\ log' = [log EXCEPT ![c] = log[c] \o rows]
            /\ proj' = [proj EXCEPT ![c] = tx_rebuild_projection(ev, log[c] \o rows)]
            /\ reported' = [reported EXCEPT ![c] = @ \cup NewlyConcurrent(c, log[c] \o rows)]
    BY <1>2
  <1> DEFINE new == log[c] \o rows
             D == DOMAIN ev
             T == ToSet(new)
             r == tx_rebuild_projection(ev, new)
             A == concurrent_claim_advisories(ev, T)
             old == concurrent_claim_advisories(ev, Held(c))
  <1>4. /\ menu' = menu /\ ev' = ev /\ blind' = blind /\ dir' = dir /\ todo' = todo /\ now' = now
        /\ crashes' = crashes /\ pc[c] = "import" /\ pc' = [pc EXCEPT ![c] = "idle"]
        /\ seen' = [seen EXCEPT ![c] = {}]
    BY DEF import_events
  <1>5. Ledger(ev) /\ IsFiniteSet(D) /\ log[c] \in Seq(D) /\ seen[c] \in SUBSET D /\ WholeFiles \in SUBSET D
    BY <1>1 DEF TrackerTypeOK, Ledger, Dag, WholeFiles
  <1>6. F \in SUBSET D /\ IsFiniteSet(F)
    <2>1. F \in SUBSET D
      BY <1>5 DEF Fresh
    <2> QED BY <1>5, <2>1, FS_Subset
  <1>7. rows \in SetToSeqs(F)
    BY DEF Inserted
  <1> HIDE DEF F
  <1>8. rows \in Seq(F)
    BY <1>6, <1>7, Listed
  <1>9. new \in Seq(D)
    BY <1>5, <1>6, <1>8
  <1>10. log' = [log EXCEPT ![c] = new] /\ proj' = [proj EXCEPT ![c] = r]
    BY <1>3
  <1>11. reported' = [reported EXCEPT ![c] = @ \cup (A \ old)]
    BY <1>3 DEF NewlyConcurrent
  <1> HIDE DEF new, D
  <1>12. T \in SUBSET D
    BY <1>9, ToSetSeq
  <1>13. r = Shown(ev, T)
    BY RebuildShows
  <1>14. r \in Rows
    BY <1>5, <1>12, <1>13, ShownTraces DEF D
  <1>15. A \in SUBSET SUBSET D
    <2>1. ASSUME NEW pair \in A PROVE pair \in SUBSET D
      <3>1. PICK x, y : Provable(ev, T, x) /\ Provable(ev, T, y) /\ pair = {x, y}
        BY <2>1, Advisories
      <3> QED BY <1>12, <3>1 DEF Provable
    <2> QED BY <2>1
  <1> HIDE DEF T, r, A, old
  <1>16. \A d \in Clones : d # c => log'[d] = log[d] /\ proj'[d] = proj[d] /\ reported'[d] = reported[d]
    BY <1>1, <1>10, <1>11 DEF TrackerTypeOK
  <1>17. log'[c] = new /\ proj'[c] = r /\ reported'[c] = reported[c] \cup (A \ old) /\ pc'[c] # pc[c]
    BY <1>1, <1>4, <1>10, <1>11 DEF TrackerTypeOK
  <1>18. TrackerTypeOK'
    <2>1. log' \in [Clones -> Seq(D)] /\ proj' \in [Clones -> Rows]
      BY <1>1, <1>9, <1>10, <1>14 DEF TrackerTypeOK, D
    <2>2. reported' \in [Clones -> SUBSET SUBSET D]
      <3> DEFINE B == A \ old
      <3>1. reported' = [reported EXCEPT ![c] = @ \cup B] /\ B \in SUBSET SUBSET D
        BY <1>11, <1>15
      <3> HIDE DEF B
      <3>2. reported \in [Clones -> SUBSET SUBSET D]
        BY <1>1 DEF TrackerTypeOK, D
      <3> QED BY <3>1, <3>2
    <2>3. pc' \in [Clones -> Stages] /\ seen' \in [Clones -> SUBSET D]
      BY <1>1, <1>4 DEF TrackerTypeOK, Stages, D
    <2>4. Rows' = Rows /\ D' = D /\ Ids' = Ids /\ Ledger(ev)' /\ MaxTime' = MaxTime /\ MaxCrashes' = MaxCrashes
      BY <1>4, <1>5 DEF Rows, LeaseRows, Actors, Summaries, D, Ids, Ledger, Events, MaxTime, MaxCrashes
    <2> QED BY <1>1, <1>4, <2>1, <2>2, <2>3, <2>4 DEF TrackerTypeOK, D
  <1>19. LiveIsRebuilt'
    <2>1. \A d \in Clones : Columns(proj'[d]) = Columns(tx_rebuild_projection(ev, log'[d]))
      BY <1>1, <1>16, <1>17 DEF LiveIsRebuilt, r
    <2> QED BY <1>4, <2>1 DEF LiveIsRebuilt
  <1>20. AllReported'
    <2>1. ASSUME NEW d \in Clones PROVE concurrent_claim_advisories(ev, ToSet(log'[d])) \in SUBSET reported'[d]
      <3>1. concurrent_claim_advisories(ev, Held(d)) \in SUBSET reported[d]
        BY <1>1 DEF AllReported
      <3>2. CASE d = c
        <4>1. old \in SUBSET reported[c] /\ concurrent_claim_advisories(ev, ToSet(log'[d])) = A
          BY <1>17, <3>1, <3>2 DEF old, A, T
        <4> QED BY <1>17, <3>2, <4>1
      <3>3. CASE d # c
        BY <1>16, <3>1, <3>3 DEF Held
      <3> QED BY <3>2, <3>3
    <2> QED BY <1>4, <2>1 DEF AllReported, Held
  <1>21. EndsFollow(ev)' /\ ClaimsFollow(ev, blind)'
    BY <1>4 DEF TrackerInv, EndsFollow, ClaimsFollow
  <1>22. SeesNoConflict
    BY <1>16, <1>17 DEF SeesNoConflict, Held
  <1> QED BY <1>18, <1>19, <1>20, <1>21, <1>22 DEF TrackerInv

\* The invariant holds at the start, the issue filed or not.
LEMMA InitInv ==
  ASSUME Init
  PROVE  TrackerInv
  <1> DEFINE D == IF Shared THEN {Root} ELSE {}
             s == IF Shared THEN <<Root>> ELSE <<>>
             p == IF Shared THEN Filed ELSE NoRow
  <1>1. /\ menu \in Menus /\ ev = [i \in D |-> Created] /\ dir = [i \in D |-> "whole"]
        /\ log = [c \in Clones |-> s] /\ proj = [c \in Clones |-> p] /\ reported = [c \in Clones |-> {}]
        /\ pc = [c \in Clones |-> "idle"] /\ todo = [c \in Clones |-> <<>>] /\ seen = [c \in Clones |-> {}]
        /\ now = 0 /\ crashes = 0 /\ blind = {}
    BY DEF Init
  <1>2. MaxTime \in Nat /\ MaxCrashes \in Nat /\ Ids \in SUBSET Nat /\ Ids # {} /\ Never # 0
    BY <1>1, TrackerConstants DEF MaxTime, MaxCrashes, Ids
  <1>3. Root \in Ids /\ Root \in Nat
    BY <1>2, Least DEF Root
  <1>4. D \in SUBSET Ids /\ IsFiniteSet(D) /\ DOMAIN ev = D /\ DOMAIN dir = D
    BY <1>1, <1>3, FS_EmptySet, FS_Singleton
  <1>5. s \in Seq(D) /\ ToSet(s) = D
    <2>1. CASE Shared
      <3>1. s = <<Root>> /\ D = {Root}
        BY <2>1
      <3>2. Append(<<>>, Root) = <<Root>> /\ <<>> \in Seq({Root})
        OBVIOUS
      <3>3. ToSet(Append(<<>>, Root)) = ToSet(<<>>) \cup {Root} /\ ToSet(<<>>) = {}
        BY <3>2, ToSetSeq
      <3>4. <<Root>> \in Seq({Root}) /\ ToSet(<<Root>>) = {Root}
        BY <3>2, <3>3
      <3> HIDE DEF s, D
      <3> QED BY <3>1, <3>4
    <2>2. CASE ~Shared
      BY <2>2, ToSetSeq
    <2> QED BY <2>1, <2>2
  <1>6. Created \in Events /\ Created.kind = "issue.created" /\ Created.at = 0 /\ Created.parents = {}
    BY NeverIsNat DEF Created, Blank, Events, Kinds
  <1>7. \A i \in D : ev[i] = Created
    BY <1>1
  <1>8. Filed \in Rows /\ NoRow \in Rows
    BY DEF Filed, NoRow, Rows, Statuses
  <1>9. Ledger(ev)
    <2>1. Dag(ev)
      BY <1>2, <1>4, <1>6, <1>7 DEF Dag
    <2> QED BY <1>2, <1>4, <1>6, <1>7, <2>1 DEF Ledger
  <1>10. Shown(ev, D) = p
    <2>1. CASE ~Shared
      BY <2>1 DEF Shown, IsFiled
    <2>2. CASE Shared
      <3>1. D = {Root} /\ Root \in DOMAIN ev
        BY <1>4, <2>2
      <3>2. Tops(ev, {}, Root)
        BY <1>6, <1>7, <3>1 DEF Tops, dag_frontier
      <3>3. Shown(ev, {} \cup {Root}) = fold_event(ev, Shown(ev, {}), Root)
        BY <1>6, <1>7, <1>9, <3>1, <3>2, FoldedLast DEF Ledger
      <3>4. Shown(ev, {}) = NoRow
        BY DEF Shown, IsFiled
      <3>5. fold_event(ev, NoRow, Root) = Filed
        BY <1>6, <1>7, <3>1 DEF fold_event, Filed
      <3>6. {} \cup {Root} = D
        BY <3>1
      <3> QED BY <2>2, <3>3, <3>4, <3>5, <3>6
    <2> QED BY <2>1, <2>2
  <1> HIDE DEF D, s, p
  <1>11. p \in Rows
    BY <1>8 DEF p
  <1>12. TrackerTypeOK
    BY <1>1, <1>2, <1>4, <1>5, <1>9, <1>11 DEF TrackerTypeOK, Stages
  <1>13. \A c \in Clones : Held(c) = D /\ log[c] = s /\ proj[c] = p
    BY <1>1, <1>5 DEF Held
  <1>14. LiveIsRebuilt
    BY <1>5, <1>10, <1>13, RebuildShows DEF LiveIsRebuilt
  <1>15. AllReported
    <2>1. ASSUME NEW pair \in concurrent_claim_advisories(ev, D) PROVE FALSE
      <3>1. PICK x : Provable(ev, D, x)
        BY <2>1, Advisories
      <3> QED BY <1>6, <1>7, <3>1 DEF Provable, IsAcquire
    <2> QED BY <1>13, <2>1 DEF AllReported
  <1>16. EndsFollow(ev) /\ ClaimsFollow(ev, blind)
    BY <1>4, <1>6, <1>7 DEF EndsFollow, ClaimsFollow, IsEnd, IsAcquire
  <1> QED BY <1>12, <1>14, <1>15, <1>16 DEF TrackerInv

-----------------------------------------------------------------------------
(* The theorems.                                                           *)

\* Every operation of a store keeps the invariant.
LEMMA EditKeeps ==
  ASSUME TrackerInv, NEW c \in Clones, Edit(c)
  PROVE  TrackerInv' /\ SeesNoConflict
  <1>1. /\ now \in Nat /\ MaxTime \in Nat /\ MaxLag \in Nat /\ Ttls \in SUBSET Nat /\ Renewals \in SUBSET Nat
        /\ Forces \in SUBSET BOOLEAN
    <2>1. menu \in Menus /\ now \in 0..MaxTime
      BY DEF TrackerInv, TrackerTypeOK
    <2>2. MaxTime \in Nat /\ MaxLag \in Nat
      BY <2>1, TrackerConstants DEF MaxTime, MaxLag
    <2>3. Ttls \in SUBSET Nat /\ Renewals \in SUBSET Nat
      BY <2>1, TrackerConstants DEF Ttls, Renewals
    <2>4. Forces \in SUBSET BOOLEAN
      BY <2>1, TrackerConstants DEF Forces
    <2> QED BY <2>1, <2>2, <2>3, <2>4
  <1>2. CASE file_item(c)
    BY <1>2, FileKeeps
  <1>3. CASE \E s \in Values : set_field(c, s)
    BY <1>3, SetKeeps
  <1>4. CASE \E s \in Summaries, x \in Actors \cup {None} : finish_item(c, s, x) \/ cancel_item(c, s, x)
    BY <1>4, FinishKeeps, CancelKeeps
  <1>5. CASE \E s \in Summaries : reopen_item(c, s)
    BY <1>5, ReopenKeeps
  <1>6. CASE \E a \in Actors, t \in Ttls, g \in 0..MaxLag, f \in Forces :
                g <= now /\ claim_item_at(c, a, t, now - g, f)
    <2>1. PICK a \in Actors, t \in Ttls, g \in 0..MaxLag, f \in Forces :
                g <= now /\ claim_item_at(c, a, t, now - g, f)
      BY <1>6
    <2>2. t \in Nat /\ now - g \in Nat /\ f \in BOOLEAN
      BY <1>1, <2>1
    <2> DEFINE at == now - g
    <2>3. at \in Nat /\ claim_item_at(c, a, t, at, f)
      BY <2>1, <2>2
    <2> HIDE DEF at
    <2> QED BY <2>2, <2>3, ClaimKeeps
  <1>7. CASE \E a \in Actors, t \in Renewals : renew_claim(c, a, Deadline(t))
    <2>1. PICK a \in Actors, t \in Renewals : renew_claim(c, a, Deadline(t))
      BY <1>7
    <2>2. Deadline(t) \in Nat
      BY <1>1, DeadlineType
    <2> QED BY <2>1, <2>2, RenewKeeps
  <1>8. CASE \E x \in Actors \cup {None} : release_item(c, x)
    BY <1>8, ReleaseKeeps
  <1>9. CASE \E a \in Actors : release_claims_for_holder(c, a)
    BY <1>9, HolderKeeps
  <1>10. CASE \E u \in 1..MaxTime : add_wait(c, u)
    BY <1>1, <1>10, WaitKeeps
  <1>11. CASE remove_waits(c)
    BY <1>11, WaitsKeep
  <1> QED BY <1>2, <1>3, <1>4, <1>5, <1>6, <1>7, <1>8, <1>9, <1>10, <1>11 DEF Edit

\* Every step keeps the invariant, and grants no claim over a conflict unseen.
LEMMA NextKeeps ==
  ASSUME TrackerInv, [Next]_vars
  PROVE  TrackerInv' /\ SeesNoConflict
  <1>1. CASE tick
    BY <1>1, TickKeeps
  <1>2. ASSUME NEW c \in Clones, Edit(c) PROVE TrackerInv' /\ SeesNoConflict
    BY <1>2, EditKeeps
  <1>3. ASSUME NEW c \in Clones, Sync(c) PROVE TrackerInv' /\ SeesNoConflict
    BY <1>3, StartKeeps, ExportKeeps, ReadKeeps, ImportKeeps DEF Sync
  <1>4. ASSUME NEW c \in Clones, crash(c) PROVE TrackerInv' /\ SeesNoConflict
    BY <1>4, CrashKeeps
  <1>5. CASE UNCHANGED vars
    BY <1>5, StutterKeeps
  <1> QED BY <1>1, <1>2, <1>3, <1>4, <1>5 DEF Next

\* The inductive invariant holds in every behaviour of clones that edit, sync
\* and are killed while syncing: types, tables equal to a rebuild, all provable
\* pairs reported, ends after claims, and claims after the ends of those known.
THEOREM TrackerInvariant == Spec => []TrackerInv
  <1>1. Init => TrackerInv
    BY InitInv
  <1>2. TrackerInv /\ [Next]_vars => TrackerInv'
    BY NextKeeps
  <1> QED BY <1>1, <1>2, PTL DEF Spec

\* Every variable keeps its type, and the events of all the clones, written
\* by tx_append_raw with the heads as parents, form a finite DAG.
THEOREM TrackerTypeCorrect == Spec => []TrackerTypeOK
  <1>1. TrackerInv => TrackerTypeOK
    BY DEF TrackerInv
  <1> QED BY <1>1, TrackerInvariant, PTL

\* What each operation writes into the tables is what tx_rebuild_projection
\* would, for any forks and any missing parents.
THEOREM LiveRowsAreRebuilt == Spec => []LiveIsRebuilt
  <1>1. TrackerInv => LiveIsRebuilt
    BY DEF TrackerInv
  <1> QED BY <1>1, TrackerInvariant, PTL

\* Clones that hold the same events show the same row, releases and leases,
\* whatever order they wrote and imported them in.
THEOREM SameEventsShowSameRow == Spec => []SameEventsSameRow
  <1>1. TrackerInv => SameEventsSameRow
    <2> SUFFICES ASSUME TrackerInv, NEW c \in Clones, NEW d \in Clones, Held(c) = Held(d)
                 PROVE  Columns(proj[c]) = Columns(proj[d])
      BY DEF SameEventsSameRow
    <2>1. \A x \in Clones : Columns(proj[x]) = Columns(Shown(ev, Held(x)))
      BY RebuildShows DEF TrackerInv, LiveIsRebuilt, Held
    <2> QED BY <2>1
  <1> QED BY <1>1, TrackerInvariant, PTL

\* The ancestors among events that hold their parents.
LEMMA WholeAncestors ==
  ASSUME NEW e, Dag(e), NEW S \in SUBSET DOMAIN e, Whole(e, S), NEW i \in S
  PROVE  Ancestors(e, S, i) \in SUBSET Up(e, i) /\ Up(e, i) \in SUBSET S
  <1>1. IsFiniteSet(DOMAIN e) /\ IsFiniteSet(S)
    BY FS_Subset DEF Dag
  <1>2. e[i].parents \in SUBSET Up(e, i) /\ Closed(e, DOMAIN e, Up(e, i))
    BY <1>1, AncestorsLeast DEF Up
  <1>3. Closed(e, S, Up(e, i))
    BY <1>2 DEF Closed
  <1>4. Ancestors(e, S, i) \in SUBSET Up(e, i)
    BY <1>1, <1>2, <1>3, AncestorsLeast
  <1>5. e[i].parents \in SUBSET S /\ Closed(e, DOMAIN e, S)
    BY DEF Whole, Closed
  <1>6. Up(e, i) \in SUBSET S
    BY <1>1, <1>5, AncestorsLeast DEF Up
  <1> QED BY <1>4, <1>6

\* Two leases active at once were claimed by clones that had not seen each
\* other's claim, and every provable pair of concurrent claims was reported.
THEOREM DoubleHoldsAreConcurrent == Spec => []DoubleHoldIsConcurrent
  <1>1. TrackerInv => DoubleHoldIsConcurrent
    <2> SUFFICES ASSUME TrackerInv PROVE DoubleHoldIsConcurrent
      OBVIOUS
    <2>1. ASSUME NEW c \in Clones, Complete(c), NEW k \in Active(proj[c], now), NEW l \in Active(proj[c], now),
                 k.id # l.id, l.id \notin blind, k.id \in Ancestors(ev, Held(c), l.id)
          PROVE  FALSE
      <3> DEFINE S == Held(c)
      <3>1. k \in proj[c].leases /\ l \in proj[c].leases /\ k.out = Never
        BY <2>1 DEF Active
      <3>2. Traced(ev, S, proj[c].leases) /\ S \in SUBSET DOMAIN ev
        BY <2>1, <3>1, OwnLeases
      <3>3. Whole(ev, S)
        BY <2>1 DEF Complete, Whole
      <3>4. Settled(ev, S, proj[c].leases)
        BY <2>1, <3>3, OwnLeases
      <3>5. k.id \in S /\ IsAcquire(ev[k.id]) /\ l.id \in S /\ IsAcquire(ev[l.id])
        BY <3>1, <3>2 DEF Traced
      <3>6. Dag(ev)
        BY DEF TrackerInv, TrackerTypeOK, Ledger
      <3>7. Ancestors(ev, S, l.id) \in SUBSET Up(ev, l.id) /\ Up(ev, l.id) \in SUBSET S
        BY <3>2, <3>3, <3>5, <3>6, WholeAncestors
      <3>8. l.id \in DOMAIN ev \ blind /\ k.id \in Up(ev, l.id)
        BY <2>1, <3>2, <3>5, <3>7
      <3>9. PICK r \in Up(ev, l.id) : IsEnd(ev[r]) /\ ev[r].ref = k.id
        BY <3>5, <3>8 DEF TrackerInv, ClaimsFollow
      <3>10. r \in S /\ r \in DOMAIN ev
        BY <3>2, <3>7, <3>9
      <3>11. k.id \in Up(ev, r)
        BY <3>9, <3>10 DEF TrackerInv, EndsFollow
      <3> QED BY <3>1, <3>4, <3>9, <3>10, <3>11 DEF Settled
    <2>2. \A c \in Clones : concurrent_claim_advisories(ev, Held(c)) \in SUBSET reported[c]
      BY DEF TrackerInv, AllReported
    <2> QED BY <2>1, <2>2 DEF DoubleHoldIsConcurrent
  <1> QED BY <1>1, TrackerInvariant, PTL

\* No claim that did not force its way is granted over setters of the status
\* that disagree and have not seen each other.
THEOREM ClaimsSeeConflicts == Spec => ClaimsSeeNoConflict
  <1>1. TrackerInv /\ [Next]_vars => [SeesNoConflict]_vars
    BY NextKeeps
  <1>2. Spec => [][SeesNoConflict]_vars
    BY <1>1, TrackerInvariant, PTL DEF Spec
  <1> QED BY <1>2 DEF ClaimsSeeNoConflict, SeesNoConflict
=============================================================================
