------------------------------ MODULE EventLog ------------------------------
(***************************************************************************)
(* The hash-chained event log of one instance and its append surface: read *)
(* the head, take ownership, append under the guards, repair the chain.    *)
(*                                                                         *)
(* Two hosts implement the surface.  The durable object runs a guarded     *)
(* append as one atomic body.  The native store runs it on a connection    *)
(* that is in no transaction: the epoch read, the head read and the INSERT *)
(* are three statements, and writers on other connections come between     *)
(* them.  Its unguarded append is one Immediate transaction.               *)
(*                                                                         *)
(* A digest commits to everything before it, so it is modelled by what it  *)
(* commits to: the sequence of the entries it hashes (SHA-256 collisions   *)
(* are left out).                                                          *)
(***************************************************************************)
EXTENDS Integers, Sequences, FiniteSets

CONSTANTS
    Writers,     \* connections that append to the log
    Keys,        \* idempotency keys
    NoKey,       \* an event without one
    Earlier,     \* who wrote the rows that precede the chain's columns
    Legacy,      \* how many such rows the log starts with
    MaxRows,     \* bound on the log's length
    MaxOwner     \* bound on ownership transfers

ASSUME LogAssumption ==
    /\ NoKey \notin Keys
    /\ Earlier \notin Writers
    /\ Legacy \in Nat
    /\ MaxRows \in Nat
    /\ Legacy <= MaxRows
    /\ MaxOwner \in Nat

VARIABLES
    rows,      \* the events table
    owner,     \* instances.owner_epoch
    held,      \* the epoch each writer was given when it claimed
    belief,    \* the head digest each writer read last
    call,      \* the guarded append each writer is in
    repair     \* the backfill under way: the row it is at and the digest before it

logVars == <<rows, owner, held, belief, call, repair>>

Unclaimed == -1
Genesis   == <<>>

Entries == [by : Writers \cup {Earlier}, key : Keys \cup {NoKey}]
Digests == Seq(Entries)
\* epoch is the guard the row was inserted under; it is not stored.
Rows == [seq : Nat \ {0}, entry : Entries, epoch : Int, chained : BOOLEAN,
         prev : Digests, digest : Digests]

NoCall   == [at |-> "idle", fenced |-> FALSE, key |-> NoKey, seq |-> 0]
NoRepair == [at |-> 0, last |-> 0, prev |-> Genesis]

LogTypeOK ==
    /\ rows \subseteq Rows
    /\ owner \in 0..MaxOwner
    /\ held \in [Writers -> {Unclaimed} \cup 1..MaxOwner]
    /\ belief \in [Writers -> Digests]
    /\ call \in [Writers -> [at : {"idle", "compare", "insert"}, fenced : BOOLEAN,
                             key : Keys \cup {NoKey}, seq : Nat]]
    /\ repair \in [at : Nat, last : Nat, prev : Digests]

LogInit ==
    /\ rows = {[seq |-> i, entry |-> [by |-> Earlier, key |-> NoKey],
                epoch |-> Unclaimed, chained |-> FALSE,
                prev |-> Genesis, digest |-> Genesis] : i \in 1..Legacy}
    /\ owner = 0
    /\ held = [w \in Writers |-> Unclaimed]
    /\ belief = [w \in Writers |-> Genesis]
    /\ call = [w \in Writers |-> NoCall]
    /\ repair = NoRepair

-----------------------------------------------------------------------------
\* entry_digest
EntryDigest(prev, entry) == Append(prev, entry)

\* chain_head: the row of the highest sequence, refused when it is unchained;
\* the genesis digest when the table is empty.
Heads ==
    {[seq |-> p.seq, digest |-> p.digest] :
        p \in {x \in rows : x.chained /\ \A y \in rows : y.seq <= x.seq}}
    \cup (IF rows = {} THEN {[seq |-> 0, digest |-> Genesis]} ELSE {})

\* Mutant: the table does not declare UNIQUE(instance_id, sequence).
NoUniqueSequence(n) == FALSE

\* UNIQUE(instance_id, sequence)
SequenceTaken(n) == \E p \in rows : p.seq = n

\* The partial UNIQUE index on idempotency keys.
KeyTaken(key) == key # NoKey /\ \E p \in rows : p.entry.key = key

Row(w, key, n, prev, epoch) ==
    LET entry == [by |-> w, key |-> key]
    IN [seq |-> n, entry |-> entry, epoch |-> epoch, chained |-> TRUE,
        prev |-> prev, digest |-> EntryDigest(prev, entry)]

\* Mutant: the claim reads the epoch and does not bump it.
AdoptOwnership(w) ==
    /\ call[w].at = "idle"
    /\ owner < MaxOwner
    /\ owner' \in {owner, owner + 1}
    /\ owner' > 0
    /\ held' = [held EXCEPT ![w] = owner']
    /\ UNCHANGED <<rows, belief, call, repair>>

\* claim_instance_ownership: UPDATE ... RETURNING, one statement.
ClaimOwnership(w) ==
    /\ call[w].at = "idle"
    /\ owner < MaxOwner
    /\ owner' = owner + 1
    /\ held' = [held EXCEPT ![w] = owner + 1]
    /\ UNCHANGED <<rows, belief, call, repair>>

\* chain_head, kept by the writer as the head it will append to.
ReadChainHead(w) ==
    /\ call[w].at = "idle"
    /\ \E h \in Heads : belief' = [belief EXCEPT ![w] = h.digest]
    /\ UNCHANGED <<rows, owner, held, call, repair>>

\* append_event: the head read and the INSERT under one writer lock.
AppendEvent(w, key) ==
    /\ call[w].at = "idle"
    /\ ~KeyTaken(key)
    /\ \E h \in Heads :
         /\ h.seq < MaxRows
         /\ ~SequenceTaken(h.seq + 1)
         /\ rows' = rows \cup {Row(w, key, h.seq + 1, h.digest, Unclaimed)}
    /\ UNCHANGED <<owner, held, belief, call, repair>>

-----------------------------------------------------------------------------
(* The durable object: append_event_fenced is one atomic body.             *)

AppendFenced(w, key) ==
    /\ held[w] = owner
    /\ ~KeyTaken(key)
    /\ \E h \in Heads :
         /\ h.digest = belief[w]
         /\ h.seq < MaxRows
         /\ ~SequenceTaken(h.seq + 1)
         /\ rows' = rows \cup {Row(w, key, h.seq + 1, h.digest, held[w])}
    /\ UNCHANGED <<owner, held, belief, call, repair>>

-----------------------------------------------------------------------------
(* The native store: three statements in autocommit.                       *)

\* append_event_fenced, first statement: the caller's epoch is the log's.
CheckEpoch(w, key) ==
    /\ call[w].at = "idle"
    /\ held[w] = owner
    /\ call' = [call EXCEPT ![w] = [at |-> "compare", fenced |-> TRUE, key |-> key,
                                    seq |-> 0]]
    /\ UNCHANGED <<rows, owner, held, belief, repair>>

\* append_event_cas has no epoch to present.
BeginCas(w, key) ==
    /\ call[w].at = "idle"
    /\ call' = [call EXCEPT ![w] = [at |-> "compare", fenced |-> FALSE, key |-> key,
                                    seq |-> 0]]
    /\ UNCHANGED <<rows, owner, held, belief, repair>>

\* Second statement: the head is the one the caller read.
CompareHead(w) ==
    /\ call[w].at = "compare"
    /\ \E h \in Heads :
         /\ h.digest = belief[w]
         /\ h.seq < MaxRows
         /\ call' = [call EXCEPT ![w] = [at |-> "insert", fenced |-> @.fenced, key |-> @.key,
                                         seq |-> h.seq + 1]]
    /\ UNCHANGED <<rows, owner, held, belief, repair>>

\* Third statement: the INSERT, under the table's own constraints only.
InsertRow(w) ==
    LET c == call[w]
    IN /\ c.at = "insert"
       /\ ~SequenceTaken(c.seq)
       /\ ~KeyTaken(c.key)
       /\ rows' = rows \cup {Row(w, c.key, c.seq, belief[w],
                                 IF c.fenced THEN held[w] ELSE Unclaimed)}
       /\ call' = [call EXCEPT ![w] = NoCall]
       /\ UNCHANGED <<owner, held, belief, repair>>

\* A guard or a constraint refuses the call.
RefuseAppend(w) ==
    /\ \/ call[w].at = "compare" /\ \A h \in Heads : h.digest # belief[w]
       \/ call[w].at = "insert" /\ (SequenceTaken(call[w].seq) \/ KeyTaken(call[w].key))
    /\ call' = [call EXCEPT ![w] = NoCall]
    /\ UNCHANGED <<rows, owner, held, belief, repair>>

-----------------------------------------------------------------------------
(* repair_event_chain: one UPDATE per row, in sequence order.              *)

\* Mutant: the repair clears the chain's columns and hashes from scratch.
BeginCleanRepair ==
    /\ repair = NoRepair
    /\ rows # {}
    /\ \E p \in rows :
         /\ \A q \in rows : q.seq <= p.seq
         /\ repair' = [at |-> 1, last |-> p.seq, prev |-> Genesis]
    /\ rows' = {[p EXCEPT !.chained = FALSE, !.prev = Genesis, !.digest = Genesis] : p \in rows}
    /\ UNCHANGED <<owner, held, belief, call>>

BeginRepair ==
    /\ repair = NoRepair
    /\ rows # {}
    /\ \E p \in rows :
         /\ \A q \in rows : q.seq <= p.seq
         /\ repair' = [at |-> 1, last |-> p.seq, prev |-> Genesis]
    /\ UNCHANGED <<rows, owner, held, belief, call>>

Rechained(p, prev) ==
    [p EXCEPT !.chained = TRUE, !.prev = prev, !.digest = EntryDigest(prev, p.entry)]

RepairRow ==
    /\ repair.at # 0
    /\ \E p \in rows :
         /\ p.seq = repair.at
         /\ rows' = (rows \ {p}) \cup {Rechained(p, repair.prev)}
         /\ repair' = IF repair.at = repair.last THEN NoRepair
                      ELSE [repair EXCEPT !.at = @ + 1,
                                          !.prev = EntryDigest(@, p.entry)]
    /\ UNCHANGED <<owner, held, belief, call>>

\* The process dies between two rows.
AbandonRepair ==
    /\ repair.at # 0
    /\ repair' = NoRepair
    /\ UNCHANGED <<rows, owner, held, belief, call>>

-----------------------------------------------------------------------------
CommonStep ==
    \/ \E w \in Writers :
         \/ ClaimOwnership(w)
         \/ ReadChainHead(w)
         \/ \E key \in Keys \cup {NoKey} : AppendEvent(w, key)
    \/ BeginRepair
    \/ RepairRow
    \/ AbandonRepair

NativeNext ==
    \/ CommonStep
    \/ \E w \in Writers :
         \/ \E key \in Keys \cup {NoKey} : CheckEpoch(w, key) \/ BeginCas(w, key)
         \/ CompareHead(w)
         \/ InsertRow(w)
         \/ RefuseAppend(w)

ObjectNext ==
    \/ CommonStep
    \/ \E w \in Writers, key \in Keys \cup {NoKey} : AppendFenced(w, key)

NativeSpec == LogInit /\ [][NativeNext]_logVars
ObjectSpec == LogInit /\ [][ObjectNext]_logVars

-----------------------------------------------------------------------------
(* Properties.                                                             *)

\* The table is one unbroken chain: no sequence twice, none missing, and every
\* chained row commits to the digest of the row before it, whatever appends and
\* repairs interleaved (H1: the recorded head is what the prefix folds to).
ChainIntact ==
    /\ \A p, q \in rows : p.seq = q.seq => p = q
    /\ \A p \in rows : \A i \in 1..p.seq : \E q \in rows : q.seq = i
    /\ \A p \in rows : p.chained =>
         /\ p.digest = EntryDigest(p.prev, p.entry)
         /\ p.seq = 1 => p.prev = Genesis
         /\ \A q \in rows : q.seq + 1 = p.seq => q.chained /\ p.prev = q.digest

\* A head digest that was ever read stays the digest of a prefix of the log: no
\* repair or append takes a pinned head back (list_events_pinned).
PinnedHeadsStay ==
    \A w \in Writers :
        belief[w] = Genesis \/ \E p \in rows : p.chained /\ p.digest = belief[w]

\* The rows of one ownership epoch are one writer's, and once the next owner
\* has written no row of an earlier owner follows.
OwnersWriteInOrder ==
    \A p, q \in rows :
        p.epoch # Unclaimed /\ q.epoch # Unclaimed =>
            /\ p.seq < q.seq => p.epoch <= q.epoch
            /\ p.epoch = q.epoch => p.entry.by = q.entry.by
=============================================================================
