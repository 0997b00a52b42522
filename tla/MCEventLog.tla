----------------------------- MODULE MCEventLog -----------------------------
(***************************************************************************)
(* A small instance of EventLog: two writers, interchangeable, of a log    *)
(* that one of the two hosts keeps.                                        *)
(***************************************************************************)
EXTENDS EventLog, TLC

CONSTANTS w1, w2, k1

TwoWriters == {w1, w2}
OneKey     == {k1}

WriterSymmetry == Permutations(TwoWriters)

VARIABLE host

HostInit == LogInit /\ host \in {"native", "object"}

HostNext ==
    /\ \/ host = "native" /\ NativeNext
       \/ host = "object" /\ ObjectNext
    /\ UNCHANGED host

HostSpec == HostInit /\ [][HostNext]_<<logVars, host>>
=============================================================================
