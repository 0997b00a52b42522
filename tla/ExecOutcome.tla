---------------------------- MODULE ExecOutcome ----------------------------
(***************************************************************************)
(* What the executor promises a workflow about one external command, for   *)
(* every host that runs one: a command starts at most once, and the answer *)
(* the workflow is given about it is final and true.  "not_executed" says  *)
(* that the command has not run and never will, "completed" carries the    *)
(* result of the one run it had, and "uncertain" says that nothing is      *)
(* known except that the command is over: it will not start any more.      *)
(***************************************************************************)
CONSTANTS Invocations, Results, NoResult

VARIABLES runs,      \* how often the command of an invocation was started
          verdict    \* the answer about the invocation, with its result

Answers == [said : {"pending", "not_executed", "uncertain"}, res : {NoResult}]
             \cup [said : {"completed"}, res : Results]

Pending == [said |-> "pending", res |-> NoResult]

Init ==
  /\ runs = [i \in Invocations |-> 0]
  /\ verdict = [i \in Invocations |-> Pending]

\* A command starts while nothing has been said about it, and only once.
Start(i) ==
  /\ runs[i] = 0 /\ verdict[i] = Pending
  /\ runs' = [runs EXCEPT ![i] = 1]
  /\ UNCHANGED verdict

\* The answer is given once.
Decide(i, a) ==
  /\ verdict[i] = Pending /\ a # Pending
  /\ a.said = "not_executed" => runs[i] = 0
  /\ a.said = "completed" => runs[i] = 1
  /\ verdict' = [verdict EXCEPT ![i] = a]
  /\ UNCHANGED runs

Next == \E i \in Invocations : Start(i) \/ \E a \in Answers : Decide(i, a)

Spec == Init /\ [][Next]_<<runs, verdict>>

=============================================================================
