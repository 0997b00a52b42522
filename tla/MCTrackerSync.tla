--------------------------- MODULE MCTrackerSync ---------------------------
(***************************************************************************)
(* Instances of TrackerSync for TLC.                                       *)
(***************************************************************************)
EXTENDS TrackerSync

CONSTANTS a1, a2

Plain == [ops |-> {}, actors |-> {}, summaries |-> {None}, shared |-> TRUE, ids |-> 1..4,
          anyHash |-> FALSE, forces |-> {FALSE}, time |-> 0, ttls |-> {Never},
          renewals |-> {}, lag |-> 0, crashes |-> 0]

(* The status alone, with hashes in any order.                             *)
StatusMenu == [Plain EXCEPT !.ops = {"file", "cancel", "reopen"}, !.shared = FALSE,
                            !.anyHash = TRUE]

(* Claims of two actors, their releases and the closing of the issue.      *)
LeaseMenu == [Plain EXCEPT !.ops = {"claim", "release", "holder", "finish"},
                           !.actors = {a1, a2}, !.time = 1, !.ttls = {1}]

(* Claims that lapse in one clone and are renewed in the other.            *)
RenewalMenu == [Plain EXCEPT !.ops = {"claim", "renew"}, !.actors = {a1}, !.ids = 1..5,
                             !.time = 1, !.ttls = {1}, !.renewals = {2}, !.lag = 1]

(* Claims over a history that may fork.                                    *)
ForkMenu == [Plain EXCEPT !.ops = {"file", "set", "claim"}, !.actors = {a1}, !.shared = FALSE,
                          !.forces = BOOLEAN]

(* Syncs that are killed.                                                  *)
CrashMenu == [Plain EXCEPT !.ops = {"finish", "reopen"}, !.ids = 1..3, !.anyHash = TRUE,
                           !.crashes = 1]

(* Waits and a closing.                                                    *)
WaitMenu == [Plain EXCEPT !.ops = {"file", "finish", "wait"}, !.actors = {a1}, !.shared = FALSE,
                          !.ids = 1..3, !.anyHash = TRUE, !.time = 1]

AllMenus == {StatusMenu, LeaseMenu, RenewalMenu, ForkMenu, CrashMenu, WaitMenu}
=============================================================================
