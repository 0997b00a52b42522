------------------------------ MODULE SlotPool ------------------------------
(***************************************************************************)
(* What a lease declaration promises: for every key a pool of slots, each  *)
(* held by an instance.  A slot is granted one at a time, to an instance,  *)
(* and only while one is free; slots may come free in any number at once,  *)
(* by a release, an end of the holder or the passing of time.              *)
(***************************************************************************)
EXTENDS Naturals, FiniteSets

CONSTANTS Keys, Instances, Slots

VARIABLE held    \* the instances that hold a slot of each key

PoolInit == held = [k \in Keys |-> {}]

Grant(k, i) ==
    /\ i \notin held[k]
    /\ Cardinality(held[k]) < Slots
    /\ held' = [held EXCEPT ![k] = @ \cup {i}]

Free ==
    /\ held' # held
    /\ held' \in [Keys -> SUBSET Instances]
    /\ \A k \in Keys : held'[k] \subseteq held[k]

PoolNext == Free \/ \E k \in Keys, i \in Instances : Grant(k, i)

PoolSpec == PoolInit /\ [][PoolNext]_held
=============================================================================
