------------------------------- MODULE Deadlines -------------------------------
(***************************************************************************)
(* TimeoutManager (timeout.py): one asyncio task for each timer, and a     *)
(* table from a motion to its timer.  A timer that is replaced is          *)
(* cancelled, also when it is the very task that replaces it, from         *)
(* on_timeout: what on_timeout would do after its next await is cut off.   *)
(* A timer that has run out stays in the table.                            *)
(*                                                                         *)
(* Durations and the remaining time are left out: the event loop may wake  *)
(* any timer that sleeps.  The shipped program builds the manager without  *)
(* on_timeout, and starts no timer.                                        *)
(***************************************************************************)
EXTENDS Naturals, FiniteSets

CONSTANTS
    TimedMotions,
    Timers,        \* the tasks that may be created
    NoTimer

ASSUME DeadlinesAssumption == NoTimer \notin Timers /\ TimedMotions # {}

TimeoutAction == {"force_vote", "end_discussion"}

VARIABLES
    listening, \* whether the manager has an on_timeout
    timers,    \* _timers, [TimedMotions -> Timers or NoTimer]
    actions,   \* _actions, "none" without an entry
    task,      \* [Timers -> the motion and the action it was started for, and where it is]
    took       \* history: [Timers -> what handle_timeout has found, "none" before]

deadlineVars == <<listening, timers, actions, task, took>>

Uncreated == [for |-> CHOOSE m \in TimedMotions : TRUE, to |-> "force_vote", at |-> "uncreated"]

DeadlineInit ==
    /\ listening \in BOOLEAN
    /\ timers = [m \in TimedMotions |-> NoTimer]
    /\ actions = [m \in TimedMotions |-> "none"]
    /\ task = [k \in Timers |-> Uncreated]
    /\ took = [k \in Timers |-> "none"]

Pending(k) == task[k].at \in {"asleep", "callback"}

\* MUTANT of Cancelled: the entry is replaced and the task goes on.
CancelledNever(m) == task

\* cancel_timeout ends the task of the entry at its await; one that is done stays so.
Cancelled(m) == IF timers[m] # NoTimer /\ Pending(timers[m])
                THEN [task EXCEPT ![timers[m]].at = "cancelled"] ELSE task

\* start_round_timeout forces a vote, start_vote_timeout ends the discussion.
StartTimer(m, a, k) ==
    /\ task[k] = Uncreated
    /\ task' = [Cancelled(m) EXCEPT ![k] = [for |-> m, to |-> a, at |-> "asleep"]]
    /\ timers' = [timers EXCEPT ![m] = k]
    /\ actions' = [actions EXCEPT ![m] = a]
    /\ UNCHANGED <<listening, took>>

CancelTimeout(m) ==
    /\ timers[m] # NoTimer
    /\ task' = Cancelled(m)
    /\ timers' = [timers EXCEPT ![m] = NoTimer]
    /\ actions' = [actions EXCEPT ![m] = "none"]
    /\ UNCHANGED <<listening, took>>

\* handle_timeout looks the action up by the motion.
HandleTimeout(k) ==
    /\ task[k].at = "asleep"
    /\ took' = [took EXCEPT ![k] = IF actions[task[k].for] = "none" THEN "force_vote"
                                   ELSE actions[task[k].for]]
    /\ task' = [task EXCEPT ![k].at = IF listening THEN "callback" ELSE "over"]
    /\ UNCHANGED <<listening, timers, actions>>

OnTimeoutReturns(k) ==
    /\ task[k].at = "callback"
    /\ task' = [task EXCEPT ![k].at = "over"]
    /\ UNCHANGED <<listening, timers, actions, took>>

DeadlineNext ==
    \/ \E m \in TimedMotions :
           \/ CancelTimeout(m)
           \/ \E a \in TimeoutAction, k \in Timers : StartTimer(m, a, k)
    \/ \E k \in Timers : HandleTimeout(k) \/ OnTimeoutReturns(k)

DeadlineSpec == DeadlineInit /\ [][DeadlineNext]_deadlineVars

-----------------------------------------------------------------------------
DeadlineTypes ==
    /\ listening \in BOOLEAN
    /\ timers \in [TimedMotions -> Timers \cup {NoTimer}]
    /\ actions \in [TimedMotions -> TimeoutAction \cup {"none"}]
    /\ task \in [Timers -> [for : TimedMotions, to : TimeoutAction,
                            at : {"uncreated", "asleep", "callback", "over", "cancelled"}]]
    /\ took \in [Timers -> TimeoutAction \cup {"none"}]

\* A motion has one timer at a time, the one the table shows, however often it
\* was started anew or cancelled, from on_timeout too; and one that runs out does
\* what it was started for, although the action is looked up by the motion.
OneDeadline ==
    \A k \in Timers :
        /\ Pending(k) => timers[task[k].for] = k
        /\ took[k] # "none" => took[k] = task[k].to
=============================================================================
