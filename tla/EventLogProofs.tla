--------------------------- MODULE EventLogProofs ---------------------------
(***************************************************************************)
(* The event log's chain and ownership order, for any number of writers,   *)
(* rows and transfers, on both hosts.                                      *)
(***************************************************************************)
EXTENDS EventLog, TLAPS

AnyNext == NativeNext \/ ObjectNext

\* The digest of a chained row tells its sequence.
Lengths == \A p \in rows : p.chained => Len(p.digest) = p.seq

\* The backfill is at a row of the log and carries the digest of the one before.
Repairing ==
    repair.at # 0 =>
        /\ repair.at <= repair.last
        /\ \E p \in rows : p.seq = repair.last
        /\ Len(repair.prev) + 1 = repair.at
        /\ \A q \in rows : q.seq + 1 = repair.at => q.chained /\ q.digest = repair.prev

\* The sequence an INSERT will use is the one after the head it compared.
Compared == \A w \in Writers : call[w].at = "insert" => call[w].seq = Len(belief[w]) + 1

\* Epochs are handed out once: no row and no writer is ahead of the log's, and
\* an epoch's rows and its holder are one writer's.
Epochs ==
    /\ \A p \in rows : p.epoch \in {Unclaimed} \cup 1..owner
    /\ \A w \in Writers : held[w] <= owner
    /\ \A w, v \in Writers : held[w] = held[v] /\ held[w] # Unclaimed => w = v
    /\ \A p \in rows, w \in Writers :
         held[w] = p.epoch /\ held[w] # Unclaimed => p.entry.by = w

\* Behind a passed fence no row up to the head the writer holds is of a later
\* epoch: if ownership has moved since, the new owner has not written below it.
Fences ==
    \A w \in Writers : call[w].at # "idle" /\ call[w].fenced =>
        /\ held[w] # Unclaimed
        /\ \A p \in rows : p.seq <= Len(belief[w]) => p.epoch <= held[w]

LogInv ==
    /\ LogTypeOK
    /\ ChainIntact
    /\ Lengths
    /\ Repairing
    /\ PinnedHeadsStay
    /\ Compared
    /\ Epochs
    /\ Fences
    /\ OwnersWriteInOrder

\* A log that starts with unchained rows satisfies the invariant.
LEMMA InitLog == LogInit => LogInv
<1> SUFFICES ASSUME LogInit PROVE LogInv
  OBVIOUS
<1> USE LogAssumption DEF LogInit, Genesis, Unclaimed
<1> DEFINE old(i) == [seq |-> i, entry |-> [by |-> Earlier, key |-> NoKey],
                      epoch |-> -1, chained |-> FALSE, prev |-> <<>>, digest |-> <<>>]
<1>0. rows = {old(i) : i \in 1..Legacy}
  OBVIOUS
<1>1. LogTypeOK
  <2>0. Genesis \in Digests
    BY DEF Digests
  <2>1. rows \subseteq Rows
    <3> SUFFICES ASSUME NEW i \in 1..Legacy PROVE old(i) \in Rows
      BY <1>0
    <3>1. i \in Nat \ {0} /\ [by |-> Earlier, key |-> NoKey] \in Entries
      BY DEF Entries
    <3> QED
      BY <3>1, <2>0 DEF Rows
  <2>2. /\ call \in [Writers -> [at : {"idle", "compare", "insert"}, fenced : BOOLEAN,
                                 key : Keys \cup {NoKey}, seq : Nat]]
        /\ repair \in [at : Nat, last : Nat, prev : Digests]
    BY <2>0 DEF NoCall, NoRepair
  <2>3. belief \in [Writers -> Digests]
    BY <2>0
  <2>4. held \in [Writers -> {Unclaimed} \cup 1..MaxOwner] /\ owner \in 0..MaxOwner
    OBVIOUS
  <2> QED
    BY <2>1, <2>2, <2>3, <2>4 DEF LogTypeOK
<1>2. \A p \in rows : ~p.chained /\ p.epoch = Unclaimed /\ p.seq \in 1..Legacy
  BY <1>0
<1>3. ChainIntact
  <2>0. \A i \in 1..Legacy : old(i).seq = i
    OBVIOUS
  <2> HIDE DEF old
  <2>1. \A p, q \in rows : p.seq = q.seq => p = q
    BY <1>0, <2>0
  <2>2. \A p \in rows : \A i \in 1..p.seq : \E q \in rows : q.seq = i
    <3> SUFFICES ASSUME NEW p \in rows, NEW i \in 1..p.seq
                 PROVE  \E q \in rows : q.seq = i
      OBVIOUS
    <3>1. old(i) \in rows /\ old(i).seq = i
      BY <1>0, <1>2, <2>0
    <3> QED
      BY <3>1
  <2> QED
    BY <1>2, <2>1, <2>2 DEF ChainIntact
<1>4. Lengths /\ Repairing /\ PinnedHeadsStay
  BY <1>2 DEF Lengths, Repairing, PinnedHeadsStay, NoRepair
<1>5. Compared /\ Epochs /\ Fences /\ OwnersWriteInOrder
  BY <1>2 DEF Compared, Epochs, Fences, OwnersWriteInOrder, NoCall
<1> QED
  BY <1>1, <1>3, <1>4, <1>5 DEF LogInv

\* What a head is: the last row of the chain, or nothing before genesis.
LEMMA HeadIsLast ==
  ASSUME LogInv, NEW h \in Heads
  PROVE  /\ h.seq \in Nat
         /\ h.digest \in Digests
         /\ h.seq = Len(h.digest)
         /\ h.digest = Genesis \/ \E p \in rows : p.chained /\ p.digest = h.digest
         /\ \A p \in rows : p.seq <= h.seq
<1> USE DEF LogInv
<1>1. CASE rows = {}
  <2>1. h = [seq |-> 0, digest |-> Genesis]
    BY <1>1 DEF Heads
  <2>2. Genesis \in Digests /\ Len(Genesis) = 0
    BY DEF Genesis, Digests
  <2> QED
    BY <1>1, <2>1, <2>2
<1>2. CASE rows # {}
  <2>1. PICK p \in rows : /\ p.chained
                          /\ \A y \in rows : y.seq <= p.seq
                          /\ h = [seq |-> p.seq, digest |-> p.digest]
    BY <1>2 DEF Heads
  <2>2. p \in Rows
    BY DEF LogTypeOK
  <2> QED
    BY <2>1, <2>2 DEF Rows, Lengths
<1> QED
  BY <1>1, <1>2

\* A row inserted right after the prefix its prev commits to, at a sequence
\* that is free, extends the chain and nothing else.
LEMMA RowExtends ==
  ASSUME LogInv,
         NEW w \in Writers, NEW key \in Keys \cup {NoKey}, NEW prev \in Digests,
         NEW n \in Nat, NEW epoch \in Int,
         n = Len(prev) + 1,
         prev = Genesis \/ \E p \in rows : p.chained /\ p.digest = prev,
         ~SequenceTaken(n),
         rows' = rows \cup {Row(w, key, n, prev, epoch)},
         belief' = belief, repair' = repair
  PROVE  /\ rows' \subseteq Rows
         /\ \A p \in rows : p.seq < n
         /\ ChainIntact' /\ Lengths' /\ Repairing' /\ PinnedHeadsStay'
<1> DEFINE row == Row(w, key, n, prev, epoch)
<1> USE DEF LogInv
<1>a. /\ rows \subseteq Rows
      /\ \A p, q \in rows : p.seq = q.seq => p = q
      /\ \A p \in rows : \A i \in 1..p.seq : \E q \in rows : q.seq = i
  BY DEF LogTypeOK, ChainIntact
<1>b. \A p \in rows : p.seq \in Nat \ {0} /\ p.digest \in Digests /\ p.prev \in Digests
  BY <1>a DEF Rows
<1>c. /\ row.seq = n /\ row.chained /\ row.prev = prev
      /\ row.entry \in Entries /\ row.epoch = epoch
      /\ row.digest = Append(prev, row.entry)
  BY DEF Row, EntryDigest, Entries
<1>d. row \in Rows
  <2>1. row.digest \in Digests
    BY <1>c DEF Digests
  <2> QED
    BY <1>c, <2>1 DEF Row, Rows, Entries, Digests
<1>e. Len(row.digest) = n
  BY <1>c DEF Digests
<1>1. \A p \in rows : p.seq < n
  BY <1>a, <1>b DEF SequenceTaken
<1>2. \A i \in 1..n : \E q \in rows' : q.seq = i
  <2> SUFFICES ASSUME NEW i \in 1..n PROVE \E q \in rows' : q.seq = i
    OBVIOUS
  <2>1. CASE i = n
    BY <2>1, <1>c
  <2>2. CASE i # n
    <3>1. i \in 1..Len(prev)
      BY <2>2 DEF Digests
    <3>2. prev # Genesis
      BY <3>1 DEF Genesis
    <3>3. PICK p \in rows : p.chained /\ p.digest = prev
      BY <3>2
    <3>4. p.seq = Len(prev)
      BY <3>3 DEF Lengths
    <3> QED
      BY <1>a, <3>1, <3>4
  <2> QED
    BY <2>1, <2>2
<1>3. \A q \in rows : q.seq + 1 = n => q.chained /\ prev = q.digest
  <2> SUFFICES ASSUME NEW q \in rows, q.seq + 1 = n PROVE q.chained /\ prev = q.digest
    OBVIOUS
  <2>1. q.seq = Len(prev) /\ q.seq # 0
    BY <1>b DEF Digests
  <2>2. prev # Genesis
    BY <2>1 DEF Genesis
  <2>3. PICK p \in rows : p.chained /\ p.digest = prev
    BY <2>2
  <2>4. p.seq = q.seq
    BY <2>1, <2>3 DEF Lengths
  <2> QED
    BY <1>a, <2>3, <2>4
<1>4. ChainIntact'
  <2>1. (\A p, q \in rows : p.seq = q.seq => p = q)'
    BY <1>a, <1>1, <1>b, <1>c
  <2>2. (\A p \in rows : \A i \in 1..p.seq : \E q \in rows : q.seq = i)'
    BY <1>a, <1>2, <1>c
  <2>3. \A p \in rows' : p.chained =>
         /\ p.digest = EntryDigest(p.prev, p.entry)
         /\ p.seq = 1 => p.prev = Genesis
         /\ \A q \in rows' : q.seq + 1 = p.seq => q.chained /\ p.prev = q.digest
    <3>1. CASE n = 1
      <4>1. prev = Genesis
        BY <3>1 DEF Genesis, Digests
      <4> QED
        BY <4>1, <3>1, <1>1, <1>b, <1>c, <1>3 DEF ChainIntact, EntryDigest
    <3>2. CASE n # 1
      BY <3>2, <1>1, <1>b, <1>c, <1>3 DEF ChainIntact, EntryDigest
    <3> QED
      BY <3>1, <3>2
  <2> QED
    BY <2>1, <2>2, <2>3 DEF ChainIntact
<1>5. Lengths'
  BY <1>c, <1>e DEF Lengths
<1>6. Repairing'
  <2> SUFFICES ASSUME repair.at # 0 PROVE Repairing'
    BY DEF Repairing
  <2>1. PICK p \in rows : p.seq = repair.last
    BY DEF Repairing
  <2>2. repair.at <= repair.last /\ repair.at \in Nat /\ repair.last \in Nat
    BY DEF Repairing, LogTypeOK
  <2>3. row.seq + 1 # repair.at
    BY <2>1, <2>2, <1>1, <1>c
  <2> QED
    BY <2>3, <1>c DEF Repairing
<1>7. PinnedHeadsStay'
  BY DEF PinnedHeadsStay
<1> QED
  BY <1>1, <1>4, <1>5, <1>6, <1>7, <1>a, <1>d

\* A row of an owner who may write now keeps the epochs and their order: every
\* row is before it and of no later epoch.
LEMMA RowOrdered ==
  ASSUME LogInv,
         NEW w \in Writers, NEW row \in Rows,
         row.entry.by = w,
         row.epoch = Unclaimed \/ (row.epoch = held[w] /\ held[w] # Unclaimed),
         \A p \in rows : p.seq < row.seq,
         row.epoch # Unclaimed => \A p \in rows : p.epoch <= held[w],
         rows' = rows \cup {row},
         owner' = owner, held' = held
  PROVE  Epochs' /\ OwnersWriteInOrder'
<1> USE DEF LogInv, Unclaimed
<1>1. /\ row.seq \in Nat /\ row.epoch \in Int
      /\ \A p \in rows : p.seq \in Nat /\ p.epoch \in Int
      /\ \A v \in Writers : held[v] \in {-1} \cup 1..MaxOwner
  BY DEF LogTypeOK, Rows
<1>2. Epochs'
  BY <1>1 DEF Epochs, LogTypeOK
<1>3. OwnersWriteInOrder'
  BY <1>1 DEF OwnersWriteInOrder, Epochs
<1> QED
  BY <1>2, <1>3

\* A row above every head that is held disturbs no fence that was passed.
LEMMA RowBeyondFences ==
  ASSUME LogInv,
         NEW row \in Rows,
         \A p \in rows : p.seq < row.seq,
         rows' = rows \cup {row},
         belief' = belief, held' = held,
         \A v \in Writers : call'[v].at # "idle" => call'[v] = call[v]
  PROVE  Fences' /\ Compared'
<1> USE DEF LogInv
<1>1. \A v \in Writers : Len(belief[v]) < row.seq
  <2> SUFFICES ASSUME NEW v \in Writers PROVE Len(belief[v]) < row.seq
    OBVIOUS
  <2>1. CASE belief[v] = Genesis
    BY <2>1 DEF Genesis, Rows
  <2>2. CASE belief[v] # Genesis
    <3>1. PICK p \in rows : p.chained /\ p.digest = belief[v]
      BY <2>2 DEF PinnedHeadsStay
    <3>2. p.seq = Len(belief[v])
      BY <3>1 DEF Lengths
    <3> QED
      BY <3>2
  <2> QED
    BY <2>1, <2>2
<1>2. \A v \in Writers : Len(belief[v]) \in Nat
  BY DEF LogTypeOK, Digests
<1>3. row.seq \in Nat
  BY DEF Rows
<1>4. Fences'
  BY <1>1, <1>2, <1>3 DEF Fences
<1>5. Compared'
  BY DEF Compared
<1> QED
  BY <1>4, <1>5

\* The row an operation inserts.
LEMMA RowFields ==
  ASSUME NEW w \in Writers, NEW key \in Keys \cup {NoKey}, NEW prev \in Digests,
         NEW n \in Nat \ {0}, NEW epoch \in Int
  PROVE  /\ Row(w, key, n, prev, epoch) \in Rows
         /\ Row(w, key, n, prev, epoch).seq = n
         /\ Row(w, key, n, prev, epoch).epoch = epoch
         /\ Row(w, key, n, prev, epoch).entry.by = w
<1> DEFINE row == Row(w, key, n, prev, epoch)
<1>1. [by |-> w, key |-> key] \in Entries
  BY DEF Entries
<1>2. row.digest \in Digests
  BY <1>1 DEF Row, EntryDigest, Digests
<1> QED
  BY <1>1, <1>2 DEF Row, Rows

\* Repairing a row of the chain recomputes what it holds; repairing the first
\* row after the chain extends the chain by it.
LEMMA RepairKeeps == LogInv /\ RepairRow => LogInv'
<1> SUFFICES ASSUME LogInv, RepairRow PROVE LogInv'
  OBVIOUS
<1> USE DEF LogInv
<1>1. PICK p \in rows :
        /\ p.seq = repair.at
        /\ rows' = (rows \ {p}) \cup {Rechained(p, repair.prev)}
        /\ repair' = IF repair.at = repair.last THEN NoRepair
                      ELSE [repair EXCEPT !.at = @ + 1,
                                          !.prev = EntryDigest(@, p.entry)]
  BY DEF RepairRow
<1>2. /\ repair.at # 0
      /\ owner' = owner /\ held' = held /\ belief' = belief /\ call' = call
  BY DEF RepairRow
<1> DEFINE n == repair.at
           r == Rechained(p, repair.prev)
<1>3. /\ repair \in [at : Nat, last : Nat, prev : Digests]
      /\ p \in Rows /\ rows \subseteq Rows
      /\ n \in Nat /\ n # 0 /\ Len(repair.prev) + 1 = n /\ n <= repair.last
      /\ repair.prev \in Digests /\ repair.last \in Nat /\ p.entry \in Entries
  BY <1>2 DEF LogTypeOK, Repairing, Rows
<1>4. \A q \in rows : q.seq + 1 = n => q.chained /\ q.digest = repair.prev
  BY <1>2 DEF Repairing
<1>5. /\ r.seq = n /\ r.entry = p.entry /\ r.epoch = p.epoch /\ r.chained
      /\ r.prev = repair.prev /\ r.digest = Append(repair.prev, p.entry)
      /\ r \in Rows /\ r.digest \in Digests
  <2>1. Append(repair.prev, p.entry) \in Digests
    BY <1>3 DEF Digests
  <2> QED
    BY <1>1, <1>3, <2>1 DEF Rechained, EntryDigest, Rows
<1>6. Len(r.digest) = n
  BY <1>3, <1>5 DEF Digests
<1>7. n = 1 => repair.prev = Genesis
  BY <1>3 DEF Genesis, Digests
<1>8. \A q \in rows : q.seq = n => q = p
  BY <1>1 DEF ChainIntact
<1>9. p.chained => r.digest = p.digest
  <2> SUFFICES ASSUME p.chained PROVE r.digest = p.digest
    OBVIOUS
  <2>1. p.prev = repair.prev
    <3>1. CASE n = 1
      BY <3>1, <1>1, <1>7 DEF ChainIntact
    <3>2. CASE n # 1
      <4>1. n - 1 \in 1..p.seq
        BY <3>2, <1>1, <1>3
      <4>2. PICK q \in rows : q.seq = n - 1
        BY <4>1 DEF ChainIntact
      <4>3. q.seq + 1 = n
        BY <4>2, <1>3
      <4> QED
        BY <4>3, <1>1, <1>4 DEF ChainIntact
    <3> QED
      BY <3>1, <3>2
  <2> QED
    BY <2>1, <1>5 DEF ChainIntact, EntryDigest
<1>10. \A q \in rows' : \E x \in rows :
         q.seq = x.seq /\ q.epoch = x.epoch /\ q.entry = x.entry
  BY <1>1, <1>5
<1>11. \A x \in rows : \E q \in rows' :
         q.seq = x.seq /\ (x.chained => q.chained /\ q.digest = x.digest)
  BY <1>1, <1>5, <1>9
<1> HIDE DEF r
<1>12. rows' = (rows \ {p}) \cup {r}
  BY <1>1 DEF r
<1>13. rows' \subseteq Rows
  BY <1>12, <1>3, <1>5
<1>14. ChainIntact'
  <2>1. \A x, q \in rows' : x.seq = q.seq => x = q
    BY <1>12, <1>5, <1>8 DEF ChainIntact
  <2>2. \A x \in rows' : \A i \in 1..x.seq : \E q \in rows' : q.seq = i
    BY <1>10, <1>11 DEF ChainIntact
  <2>3. ASSUME NEW x \in rows', x.chained
        PROVE  /\ x.digest = EntryDigest(x.prev, x.entry)
               /\ x.seq = 1 => x.prev = Genesis
               /\ \A q \in rows' : q.seq + 1 = x.seq => q.chained /\ x.prev = q.digest
    <3>1. CASE x = r
      <4>1. \A q \in rows' : q.seq + 1 = n => q \in rows
        BY <1>12, <1>5, <1>3
      <4> QED
        BY <3>1, <4>1, <1>4, <1>5, <1>7 DEF EntryDigest
    <3>2. CASE x # r
      <4>1. x \in rows
        BY <3>2, <1>12
      <4>2. ASSUME NEW q \in rows', q.seq + 1 = x.seq
            PROVE  q.chained /\ x.prev = q.digest
        <5>1. CASE q = r
          <6>1. p.seq + 1 = x.seq
            BY <5>1, <4>2, <1>1, <1>5
          <6>2. p.chained /\ x.prev = p.digest
            BY <6>1, <4>1, <2>3 DEF ChainIntact
          <6> QED
            BY <5>1, <6>2, <1>5, <1>9
        <5>2. CASE q # r
          BY <5>2, <4>1, <4>2, <2>3, <1>12 DEF ChainIntact
        <5> QED
          BY <5>1, <5>2
      <4> QED
        BY <4>1, <4>2, <2>3 DEF ChainIntact
    <3> QED
      BY <3>1, <3>2
  <2> QED
    BY <2>1, <2>2, <2>3 DEF ChainIntact
<1>15. Lengths'
  BY <1>12, <1>5, <1>6 DEF Lengths
<1>16. Repairing' /\ repair' \in [at : Nat, last : Nat, prev : Digests]
  <2>1. CASE repair.at = repair.last
    <3>1. repair' = NoRepair
      BY <2>1, <1>1
    <3>2. Genesis \in Digests
      BY DEF Genesis, Digests
    <3> QED
      BY <3>1, <3>2 DEF Repairing, NoRepair
  <2>2. CASE repair.at # repair.last
    <3>1. repair' = [repair EXCEPT !.at = n + 1, !.prev = Append(repair.prev, p.entry)]
      BY <2>2, <1>1 DEF EntryDigest
    <3>2. repair' = [at |-> n + 1, last |-> repair.last, prev |-> r.digest]
      BY <3>1, <1>3, <1>5
    <3>3. repair' \in [at : Nat, last : Nat, prev : Digests]
      <4>1. n + 1 \in Nat /\ repair.last \in Nat /\ r.digest \in Digests
        BY <1>3, <1>5
      <4> QED
        BY <3>2, <4>1
    <3>4. \A q \in rows' : q.seq + 1 = n + 1 => q = r
      <4>1. \A q \in rows' : q.seq \in Nat
        BY <1>13 DEF Rows
      <4> QED
        BY <4>1, <1>3, <1>12, <1>8
    <3>5. \E q \in rows' : q.seq = repair.last
      BY <1>2, <1>11 DEF Repairing
    <3>6. n + 1 <= repair.last
      BY <2>2, <1>3
    <3> QED
      BY <3>2, <3>3, <3>4, <3>5, <3>6, <1>5, <1>6 DEF Repairing
  <2> QED
    BY <2>1, <2>2
<1>17. PinnedHeadsStay'
  BY <1>2, <1>11 DEF PinnedHeadsStay
<1>18. LogTypeOK'
  BY <1>2, <1>13, <1>16 DEF LogTypeOK
<1>19. Compared'
  BY <1>2 DEF Compared
<1>20. Epochs'
  BY <1>2, <1>10 DEF Epochs
<1>21. Fences'
  BY <1>2, <1>10 DEF Fences
<1>22. OwnersWriteInOrder'
  BY <1>10 DEF OwnersWriteInOrder
<1> QED
  BY <1>14, <1>15, <1>16, <1>17, <1>18, <1>19, <1>20, <1>21, <1>22

\* An unguarded append and the durable object's fenced append land on the head.
LEMMA HeadAppendKeeps ==
  ASSUME LogInv,
         NEW w \in Writers, NEW key \in Keys \cup {NoKey}, NEW h \in Heads,
         NEW epoch \in Int,
         epoch = Unclaimed \/ (epoch = held[w] /\ held[w] = owner),
         ~SequenceTaken(h.seq + 1),
         rows' = rows \cup {Row(w, key, h.seq + 1, h.digest, epoch)},
         UNCHANGED <<owner, held, belief, call, repair>>
  PROVE  LogInv'
<1> DEFINE n == h.seq + 1
           prev == h.digest
           row == Row(w, key, n, prev, epoch)
<1>1. /\ h.seq \in Nat /\ prev \in Digests /\ h.seq = Len(prev)
      /\ prev = Genesis \/ \E p \in rows : p.chained /\ p.digest = prev
  BY HeadIsLast
<1>2. /\ n \in Nat /\ n \in Nat \ {0} /\ n = Len(prev) + 1 /\ ~SequenceTaken(n)
      /\ rows' = rows \cup {Row(w, key, n, prev, epoch)}
      /\ belief' = belief /\ repair' = repair
  BY <1>1
<1> HIDE DEF n, prev
<1>3. row \in Rows /\ row.seq = n /\ row.epoch = epoch /\ row.entry.by = w
  <2>1. n \in Nat \ {0} /\ prev \in Digests
    BY <1>1, <1>2
  <2> QED
    BY <2>1, RowFields
<1>4. /\ rows' \subseteq Rows
      /\ \A p \in rows : p.seq < n
      /\ ChainIntact' /\ Lengths' /\ Repairing' /\ PinnedHeadsStay'
  <2>1. prev \in Digests /\ n \in Nat /\ n = Len(prev) + 1
    BY <1>1, <1>2
  <2>2. prev = Genesis \/ \E p \in rows : p.chained /\ p.digest = prev
    BY <1>1
  <2>3. /\ ~SequenceTaken(n)
        /\ rows' = rows \cup {Row(w, key, n, prev, epoch)}
        /\ belief' = belief /\ repair' = repair
    BY <1>2
  <2> HIDE DEF row
  <2> QED
    BY <2>1, <2>2, <2>3, RowExtends
<1> HIDE DEF row
<1>5. Epochs' /\ OwnersWriteInOrder'
  <2>1. rows' = rows \cup {row}
    BY <1>2 DEF row
  <2>2. owner # Unclaimed /\ \A p \in rows : p.epoch <= owner
    BY DEF LogInv, LogTypeOK, Epochs, Unclaimed
  <2> QED
    BY <1>3, <1>4, <2>1, <2>2, RowOrdered
<1>6. Fences' /\ Compared'
  <2>1. rows' = rows \cup {row}
    BY <1>2 DEF row
  <2> QED
    BY <1>3, <1>4, <2>1, RowBeyondFences
<1>7. LogTypeOK'
  BY <1>4 DEF LogInv, LogTypeOK
<1> QED
  BY <1>4, <1>5, <1>6, <1>7 DEF LogInv

\* The native INSERT lands right after the head its caller compared, or not at
\* all: the table's UNIQUE sequence stands in for the lock it does not hold.
LEMMA InsertKeeps ==
  ASSUME LogInv, NEW w \in Writers, InsertRow(w)
  PROVE  LogInv'
<1> DEFINE c == call[w]
           key == c.key
           n == c.seq
           prev == belief[w]
           epoch == IF c.fenced THEN held[w] ELSE Unclaimed
           row == Row(w, key, n, prev, epoch)
<1>1. /\ c.at = "insert" /\ ~SequenceTaken(n) /\ rows' = rows \cup {row}
      /\ call' = [call EXCEPT ![w] = NoCall]
      /\ UNCHANGED <<owner, held, belief, repair>>
  BY DEF InsertRow
<1>2. /\ prev \in Digests /\ n = Len(prev) + 1
      /\ prev = Genesis \/ \E p \in rows : p.chained /\ p.digest = prev
      /\ key \in Keys \cup {NoKey} /\ held[w] \in Int
  BY <1>1 DEF LogInv, LogTypeOK, Compared, PinnedHeadsStay, Unclaimed
<1>3. epoch \in Int /\ n \in Nat /\ n \in Nat \ {0}
  BY <1>2 DEF Unclaimed, Digests
<1> HIDE DEF epoch, key, n, prev
<1>4. row \in Rows /\ row.seq = n /\ row.epoch = epoch /\ row.entry.by = w
  <2>1. n \in Nat \ {0} /\ prev \in Digests /\ key \in Keys \cup {NoKey} /\ epoch \in Int
    BY <1>2, <1>3
  <2> QED
    BY <2>1, RowFields
<1>5. /\ rows' \subseteq Rows
      /\ \A p \in rows : p.seq < n
      /\ ChainIntact' /\ Lengths' /\ Repairing' /\ PinnedHeadsStay'
  <2>1. /\ rows' = rows \cup {Row(w, key, n, prev, epoch)} /\ ~SequenceTaken(n)
        /\ belief' = belief /\ repair' = repair
    BY <1>1
  <2> QED
    BY <2>1, <1>2, <1>3, RowExtends
<1>6. c.fenced => held[w] # Unclaimed /\ \A p \in rows : p.epoch <= held[w]
  <2>1. \A p \in rows : p.seq <= Len(belief[w])
    BY <1>2, <1>5 DEF LogInv, LogTypeOK, Rows, Digests, prev
  <2> QED
    BY <2>1, <1>1 DEF LogInv, Fences
<1> HIDE DEF row
<1>7. Epochs' /\ OwnersWriteInOrder'
  <2>1. epoch = Unclaimed \/ (epoch = held[w] /\ c.fenced)
    BY DEF epoch
  <2> QED
    BY <2>1, <1>1, <1>4, <1>5, <1>6, RowOrdered
<1>8. Fences' /\ Compared'
  <2>1. \A v \in Writers : call'[v].at # "idle" => call'[v] = call[v]
    BY <1>1 DEF NoCall, LogInv, LogTypeOK
  <2> QED
    BY <1>1, <1>4, <1>5, <2>1, RowBeyondFences
<1>9. LogTypeOK'
  BY <1>1, <1>5 DEF LogInv, LogTypeOK, NoCall
<1> QED
  BY <1>5, <1>7, <1>8, <1>9 DEF LogInv

\* Every step of either host keeps the invariant.
LEMMA StepLog == LogInv /\ [AnyNext]_logVars => LogInv'
<1> SUFFICES ASSUME LogInv, [AnyNext]_logVars PROVE LogInv'
  OBVIOUS
<1> USE DEF LogInv
<1>1. ASSUME NEW w \in Writers, ClaimOwnership(w) PROVE LogInv'
  <2>1. /\ owner \in Nat /\ owner' = owner + 1 /\ call[w].at = "idle"
        /\ owner' \in 0..MaxOwner /\ owner' \in 1..MaxOwner
        /\ held' = [held EXCEPT ![w] = owner + 1]
        /\ UNCHANGED <<rows, belief, call, repair>>
    BY <1>1, LogAssumption DEF ClaimOwnership, LogTypeOK
  <2>2. LogTypeOK'
    BY <2>1 DEF LogTypeOK
  <2>3. Epochs'
    BY <2>1 DEF Epochs, LogTypeOK, Unclaimed, Rows
  <2>4. Fences'
    BY <2>1 DEF Fences, LogTypeOK
  <2> QED
    BY <2>1, <2>2, <2>3, <2>4
       DEF ChainIntact, Lengths, Repairing, PinnedHeadsStay, Compared, OwnersWriteInOrder
<1>2. ASSUME NEW w \in Writers, ReadChainHead(w) PROVE LogInv'
  <2>1. PICK h \in Heads : belief' = [belief EXCEPT ![w] = h.digest]
    BY <1>2 DEF ReadChainHead
  <2>2. /\ h.digest \in Digests
        /\ h.digest = Genesis \/ \E p \in rows : p.chained /\ p.digest = h.digest
    BY HeadIsLast
  <2>3. call[w].at = "idle" /\ UNCHANGED <<rows, owner, held, call, repair>>
    BY <1>2 DEF ReadChainHead
  <2>4. LogTypeOK'
    BY <2>1, <2>2, <2>3 DEF LogTypeOK
  <2>5. PinnedHeadsStay'
    BY <2>1, <2>2, <2>3 DEF PinnedHeadsStay, LogTypeOK
  <2>6. Compared' /\ Fences'
    BY <2>1, <2>3 DEF Compared, Fences, LogTypeOK
  <2> QED
    BY <2>3, <2>4, <2>5, <2>6
       DEF ChainIntact, Lengths, Repairing, Epochs, OwnersWriteInOrder
<1>3. ASSUME NEW w \in Writers, NEW key \in Keys \cup {NoKey}, AppendEvent(w, key)
      PROVE  LogInv'
  <2>1. Unclaimed \in Int
    BY DEF Unclaimed
  <2> QED
    BY <1>3, <2>1, HeadAppendKeeps DEF AppendEvent
<1>4. ASSUME NEW w \in Writers, NEW key \in Keys \cup {NoKey}, AppendFenced(w, key)
      PROVE  LogInv'
  <2>1. held[w] \in Int
    BY DEF LogTypeOK, Unclaimed
  <2> QED
    BY <1>4, <2>1, HeadAppendKeeps DEF AppendFenced
<1>5. ASSUME NEW w \in Writers, NEW key \in Keys \cup {NoKey},
             CheckEpoch(w, key) \/ BeginCas(w, key)
      PROVE  LogInv'
  <2>1. PICK f \in BOOLEAN :
          /\ call' = [call EXCEPT ![w] = [at |-> "compare", fenced |-> f, key |-> key,
                                          seq |-> 0]]
          /\ f => held[w] = owner
    BY <1>5 DEF CheckEpoch, BeginCas
  <2>2. UNCHANGED <<rows, owner, held, belief, repair>>
    BY <1>5 DEF CheckEpoch, BeginCas
  <2>3. LogTypeOK'
    BY <2>1, <2>2 DEF LogTypeOK
  <2>4. Compared'
    BY <2>1, <2>2 DEF Compared, LogTypeOK
  <2>5. Fences'
    BY <2>1, <2>2 DEF Fences, LogTypeOK, Epochs, Unclaimed
  <2> QED
    BY <2>2, <2>3, <2>4, <2>5
       DEF ChainIntact, Lengths, Repairing, PinnedHeadsStay, Epochs, OwnersWriteInOrder
<1>6. ASSUME NEW w \in Writers, CompareHead(w) PROVE LogInv'
  <2>1. PICK h \in Heads :
          /\ h.digest = belief[w]
          /\ call' = [call EXCEPT ![w] = [at |-> "insert", fenced |-> call[w].fenced,
                                          key |-> call[w].key, seq |-> h.seq + 1]]
    BY <1>6 DEF CompareHead
  <2>2. h.seq \in Nat /\ h.seq = Len(belief[w])
    BY <2>1, HeadIsLast
  <2>3. call[w].at = "compare" /\ UNCHANGED <<rows, owner, held, belief, repair>>
    BY <1>6 DEF CompareHead
  <2>4. LogTypeOK'
    BY <2>1, <2>2, <2>3 DEF LogTypeOK
  <2>5. Compared'
    BY <2>1, <2>2, <2>3 DEF Compared, LogTypeOK
  <2>6. Fences'
    BY <2>1, <2>3 DEF Fences, LogTypeOK
  <2> QED
    BY <2>3, <2>4, <2>5, <2>6
       DEF ChainIntact, Lengths, Repairing, PinnedHeadsStay, Epochs, OwnersWriteInOrder
<1>7. ASSUME NEW w \in Writers, RefuseAppend(w) PROVE LogInv'
  <2>1. /\ call' = [call EXCEPT ![w] = NoCall]
        /\ UNCHANGED <<rows, owner, held, belief, repair>>
    BY <1>7 DEF RefuseAppend
  <2>2. LogTypeOK' /\ Compared' /\ Fences'
    BY <2>1 DEF LogTypeOK, Compared, Fences, NoCall
  <2> QED
    BY <2>1, <2>2
       DEF ChainIntact, Lengths, Repairing, PinnedHeadsStay, Epochs, OwnersWriteInOrder
<1>8. CASE BeginRepair \/ AbandonRepair
  <2>1. UNCHANGED <<rows, owner, held, belief, call>>
    BY <1>8 DEF BeginRepair, AbandonRepair
  <2>2. Genesis \in Digests /\ Len(Genesis) = 0
    BY DEF Genesis, Digests
  <2>3. Repairing' /\ repair' \in [at : Nat, last : Nat, prev : Digests]
    <3>1. CASE AbandonRepair
      BY <3>1, <2>2 DEF AbandonRepair, NoRepair, Repairing
    <3>2. CASE BeginRepair
      <4>1. PICK p \in rows : repair' = [at |-> 1, last |-> p.seq, prev |-> Genesis]
        BY <3>2 DEF BeginRepair
      <4>2. \A q \in rows : q.seq \in Nat \ {0}
        BY DEF LogTypeOK, Rows
      <4> QED
        BY <4>1, <4>2, <2>1, <2>2 DEF Repairing
    <3> QED
      BY <3>1, <3>2, <1>8
  <2> QED
    BY <2>1, <2>3 DEF LogTypeOK, ChainIntact, Lengths, PinnedHeadsStay, Compared, Epochs,
                      Fences, OwnersWriteInOrder
<1>9. CASE UNCHANGED logVars
  BY <1>9 DEF logVars, LogTypeOK, ChainIntact, Lengths, Repairing, PinnedHeadsStay,
              Compared, Epochs, Fences, OwnersWriteInOrder
<1> QED
  BY <1>1, <1>2, <1>3, <1>4, <1>5, <1>6, <1>7, <1>8, <1>9, RepairKeeps, InsertKeeps
     DEF AnyNext, NativeNext, ObjectNext, CommonStep

\* The invariant on the native store.
THEOREM NativeLog == NativeSpec => []LogInv
<1>1. LogInv /\ [NativeNext]_logVars => LogInv'
  BY StepLog DEF AnyNext
<1> QED
  BY InitLog, <1>1, PTL DEF NativeSpec

\* The invariant on the durable object.
THEOREM ObjectLog == ObjectSpec => []LogInv
<1>1. LogInv /\ [ObjectNext]_logVars => LogInv'
  BY StepLog DEF AnyNext
<1> QED
  BY InitLog, <1>1, PTL DEF ObjectSpec

\* The native store's log is one unbroken chain, whatever guarded appends of
\* three statements, unguarded appends and repairs interleave.
THEOREM NativeChain == NativeSpec => []ChainIntact
<1>1. LogInv => ChainIntact
  BY DEF LogInv
<1> QED
  BY NativeLog, <1>1, PTL

\* A head that was read stays a prefix of the native store's log.
THEOREM NativePins == NativeSpec => []PinnedHeadsStay
<1>1. LogInv => PinnedHeadsStay
  BY DEF LogInv
<1> QED
  BY NativeLog, <1>1, PTL

\* Although the native store checks the epoch and inserts in two statements, an
\* owner's rows never follow a later owner's.
THEOREM NativeOrder == NativeSpec => []OwnersWriteInOrder
<1>1. LogInv => OwnersWriteInOrder
  BY DEF LogInv
<1> QED
  BY NativeLog, <1>1, PTL

\* The durable object's log keeps the chain, the heads read from it and the order
\* of its owners as well.
THEOREM ObjectSafe == ObjectSpec => [](ChainIntact /\ PinnedHeadsStay /\ OwnersWriteInOrder)
<1>1. LogInv => ChainIntact /\ PinnedHeadsStay /\ OwnersWriteInOrder
  BY DEF LogInv
<1> QED
  BY ObjectLog, <1>1, PTL
=============================================================================
