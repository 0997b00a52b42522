------------------------------ MODULE TimePass ------------------------------
(***************************************************************************)
(* The due-time pass over one instance, beside the workers, the operator   *)
(* and the rules.  The pass lists the effects that are due, then takes     *)
(* them one by one in creation order.  A timer is started, completed and   *)
(* its fact derived; any other effect is looked up, ended and its fact     *)
(* derived.  Each of these is a store transaction of its own: what the     *)
(* pass read may be stale when it acts on it, a refused call ends the pass *)
(* (the `?' of every call), and the process may die between any two.       *)
(***************************************************************************)
EXTENDS RuntimeStore

CONSTANTS
    Timers,      \* effects of kind timer.wait
    TimerRun,    \* the run id each timer's pass derives from its effect id
    Timed,       \* effects with a timeout or a deadline, the timers included; not
                 \* lease.acquire effects, which the pass leaves to their handler
    DueAt,       \* when: creation-anchored, so a retry does not move it
    Rank,        \* creation order
    NoRun,       \* running_run_for_effect found none
    MaxCrashes   \* bound on crashes of the driving process

ASSUME TimePassAssumption ==
    /\ Timers \subseteq Timed
    /\ Timed \subseteq Effects
    /\ TimerRun \in [Timers -> Runs]
    /\ \A t \in Timers : RunEffect[TimerRun[t]] = t
    /\ DueAt \in [Timed -> Nat]
    /\ Rank \in [Timed -> Nat]
    /\ \A e, f \in Timed : Rank[e] = Rank[f] => e = f
    /\ NoRun \notin Runs
    /\ "deadline" \in DriverFences
    /\ MaxCrashes \in Nat

VARIABLES
    pass,     \* where the pass is: its next call, the effect, the run it read, the rest
    spent,    \* effects whose deadline-terminal (timer-terminal) key is in the log
    facts,    \* effects whose timer.fired / effect.timed_out fact was derived
    crashes

passVars == <<pass, spent, facts, crashes>>
allVars  == <<vars, passVars>>

TimerRuns == {TimerRun[t] : t \in Timers}

IdlePass == [at |-> "idle", e |-> "none", r |-> NoRun, todo |-> {}]

PassStates ==
    [at : {"idle", "fire", "complete", "read", "fence", "settle", "derive"},
     e : Timed \cup {"none"}, r : Runs \cup {NoRun}, todo : SUBSET Timed]

PassTypeOK ==
    /\ TypeOK
    /\ pass \in PassStates
    /\ spent \subseteq Timed
    /\ facts \subseteq Timed
    /\ crashes \in 0..MaxCrashes

PassInit ==
    /\ Init
    /\ pass = IdlePass
    /\ spent = {}
    /\ facts = {}
    /\ crashes = 0

-----------------------------------------------------------------------------
\* due_time_effects: not terminal, past its time, and for a timer only once
\* nothing it waits for is open.
Due(e) ==
    /\ Unsettled(e)
    /\ now >= DueAt[e]
    /\ e \in Timers => DependenciesHold(e, effect, deps)

\* Where the pass is next with `todo' left: at the first in creation order.
Resume(todo) ==
    {[at |-> IF e \in Timers THEN "fire" ELSE "read",
      e |-> e, r |-> NoRun, todo |-> todo \ {e}] :
        e \in {x \in todo : \A y \in todo : Rank[x] <= Rank[y]}}
    \cup (IF todo = {} THEN {IdlePass} ELSE {})

BeginPass ==
    /\ pass.at = "idle"
    /\ \E e \in Timed : Due(e)
    /\ pass' \in Resume({e \in Timed : Due(e)})
    /\ UNCHANGED <<vars, spent, facts, crashes>>

\* Mutant: start_run has no path for a run that is already its own.
NeverReattachable(r) == FALSE

\* start_run of a run id that is already running: the original event is the
\* answer and nothing is written.
Reattachable(r) ==
    LET e == RunEffect[r]
    IN /\ run[r] = "running"
       /\ lease[r] = "active"
       /\ effect[e] = "running"
       /\ instance = "running"
       /\ DependenciesHold(e, effect, deps)
       /\ e \notin request

FireTimer ==
    LET r == TimerRun[pass.e]
    IN /\ pass.at = "fire"
       /\ \/ StartRun(r)
          \/ Reattachable(r) /\ UNCHANGED vars
       /\ pass' = [pass EXCEPT !.at = "complete", !.r = r]
       /\ UNCHANGED <<spent, facts, crashes>>

CompleteTimer ==
    /\ pass.at = "complete"
    /\ pass.e \notin spent
    /\ CompleteEffect(pass.r, "completed")
    /\ spent' = spent \cup {pass.e}
    /\ pass' = [pass EXCEPT !.at = "derive"]
    /\ UNCHANGED <<facts, crashes>>

\* running_run_for_effect: the answer is used two transactions later.
ReadRun ==
    /\ pass.at = "read"
    /\ \/ /\ RunningRuns(pass.e) = {}
          /\ pass' = [pass EXCEPT !.at = "settle", !.r = NoRun]
       \/ \E r \in RunningRuns(pass.e) :
            pass' = [pass EXCEPT !.at = IF IsExec(r) THEN "fence" ELSE "settle", !.r = r]
    /\ UNCHANGED <<vars, spent, facts, crashes>>

\* An executor run that is tracked by now is fenced before its deadline is
\* recorded; one that is tracked only afterwards is not.
FenceRun ==
    /\ pass.at = "fence"
    /\ \/ EnsureFence(pass.r, "deadline")
       \/ (pass.r \in tracked => fence[pass.r] # "none") /\ UNCHANGED vars
    /\ pass' = [pass EXCEPT !.at = "settle"]
    /\ UNCHANGED <<spent, facts, crashes>>

\* Mutant: expire_effect trusts the list of due effects.
SettleDeadlineBlindly ==
    /\ pass.at = "settle"
    /\ pass.e \notin spent
    /\ effect' = [effect EXCEPT ![pass.e] = "timed_out"]
    /\ gap' = gap \cup {pass.e}
    /\ spent' = spent \cup {pass.e}
    /\ pass' = [pass EXCEPT !.at = "derive"]
    /\ UNCHANGED <<instance, epoch, category, blockKeys, deps, request, named, runVars,
                   execVars, attempt, target, now, facts, crashes>>

\* timeout_run for the run that was read, expire_effect when none was.  Both
\* append under the one deadline-terminal key of the effect.
SettleDeadline ==
    /\ pass.at = "settle"
    /\ pass.e \notin spent
    /\ \/ pass.r # NoRun /\ CompleteEffect(pass.r, "timed_out")
       \/ pass.r = NoRun /\ ExpireEffect(pass.e)
    /\ spent' = spent \cup {pass.e}
    /\ pass' = [pass EXCEPT !.at = "derive"]
    /\ UNCHANGED <<facts, crashes>>

\* derive_fact tolerates a replay of its key.
DeriveFact ==
    /\ pass.at = "derive"
    /\ facts' = facts \cup {pass.e}
    /\ pass' \in Resume(pass.todo)
    /\ UNCHANGED <<vars, spent, crashes>>

\* The store refuses the call the pass is at.
Refused ==
    \/ /\ pass.at = "fire"
       /\ ~Startable(TimerRun[pass.e])
       /\ ~Reattachable(TimerRun[pass.e])
    \/ /\ pass.at = "complete"
       /\ pass.e \in spent \/ ~Settleable(pass.r, "completed")
    \/ /\ pass.at = "settle"
       /\ \/ pass.e \in spent
          \/ pass.r # NoRun /\ ~Settleable(pass.r, "timed_out")
          \/ pass.r = NoRun /\ ~Unsettled(pass.e)

AbortPass ==
    /\ Refused
    /\ pass' = IdlePass
    /\ UNCHANGED <<vars, spent, facts, crashes>>

Crash ==
    /\ pass.at # "idle"
    /\ crashes < MaxCrashes
    /\ crashes' = crashes + 1
    /\ pass' = IdlePass
    /\ UNCHANGED <<vars, spent, facts>>

PassStep ==
    \/ BeginPass
    \/ FireTimer
    \/ CompleteTimer
    \/ ReadRun
    \/ FenceRun
    \/ SettleDeadline
    \/ DeriveFact
    \/ AbortPass

\* Everyone else.  Workers do not claim timers, and only the pass expires.
OtherStep ==
    /\ \/ RuleStep
       \/ \E e \in Effects : OperatorStep(e)
       \/ \E e \in Effects \ Timers : BlockStep(e)
       \/ \E r \in Runs \ TimerRuns : RunStep(r) \/ ExecStep(r)
       \/ ExpireLeases
       \/ Tick
    /\ UNCHANGED passVars

PassNext == PassStep \/ OtherStep \/ Crash

PassSpec == PassInit /\ [][PassNext]_allVars

\* The driver keeps calling the pass, and time passes.
FairPassSpec == PassSpec /\ WF_allVars(PassStep) /\ WF_allVars(Tick /\ UNCHANGED passVars)

-----------------------------------------------------------------------------
(* Properties.                                                             *)

\* A timer that is due is settled in the end, whatever crash comes between its
\* start, its completion and its fact: the run id is derived from the effect,
\* so the next pass finds its own run again.  Not so while the instance is held
\* or ended, while some request is open (start_run refuses both), or while an
\* effect created before it is due: the pass takes that one first, and a call
\* the store refuses there ends the pass.
TimersFire ==
    \A t \in Timers :
        Due(t) ~> \/ Terminal(t)
                  \/ ~Due(t)
                  \/ instance # "running"
                  \/ request # {}
                  \/ \E e \in Timed : Rank[e] < Rank[t] /\ Due(e)

\* What the pass records is so when it records it, although the list, the run it
\* read and the answer it acts on are transactions apart: its terminal goes to an
\* effect that is still open, or to one the operator cancelled over its running
\* run; timer.fired follows the timer's completion, effect.timed_out a run that
\* timed out or a terminal that names no run.
PassRecordsTruth ==
    [][/\ \A e \in spent' \ spent :
             Terminal(e) => effect[e] = "cancelled" /\ RunningRuns(e) # {}
       /\ \A e \in facts' \ facts :
             IF e \in Timers
             THEN effect[e] = "completed"
             ELSE e \in gap \/ \E r \in RunsOf(e) : run[r] = "timed_out"]_allVars
=============================================================================
