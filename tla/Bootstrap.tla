------------------------------ MODULE Bootstrap ------------------------------
(***************************************************************************)
(* The bootstrap engine (bootstrap/): triggers become motions, the result  *)
(* of a motion becomes an approval request, an approved one becomes tasks  *)
(* on a Kanban board.                                                      *)
(*                                                                         *)
(* Each table is a variable; every write is committed on its own, so a     *)
(* process that ends between two of them leaves the first.  The            *)
(* coordinator's API and the Kanban board are other processes: a call to   *)
(* them succeeds or raises.  An approval is named by its motion, for which *)
(* the engine submits one.                                                 *)
(***************************************************************************)
EXTENDS Naturals, Sequences, FiniteSets, SequencesExt, FiniteSetsExt

CONSTANTS
    Topics,       \* triggers that may be created
    Priority,     \* [Topics -> Nat]
    BatchLimit,   \* LIMIT of get_pending_triggers
    Engines,      \* coroutines that run process_triggers
    Deciders,     \* coroutines that run process_approval
    Motions,
    ItemCount,    \* action items of a result
    MaxApprovals, MaxStops,
    NoMotion

ASSUME BootstrapAssumption ==
    /\ Priority \in [Topics -> Nat] /\ NoMotion \notin Motions
    /\ BatchLimit \in Nat \ {0} /\ ItemCount \in Nat /\ MaxApprovals \in Nat /\ MaxStops \in Nat

NoTopic == "no topic"
Items == 1..ItemCount

VARIABLES
    trigger,    \* [Topics -> status, or "none"]
    scheduled,  \* bootstrap_schedules: is the schedule enabled?
    motion,     \* [Motions -> [of, status]]: motions of the coordinator, and the trigger they are for
    engine,     \* [Engines -> [at, todo, motion]]
    approval,   \* [Motions -> approval_status, or "none"]
    decider,    \* [Deciders -> [motion, next]]: which item it creates a task for
    tasks,      \* [Motions -> [Items -> Nat]]: tasks on the board
    approvals,  \* [Motions -> Nat]: history: decisions to approve
    stops       \* ends of the process

bootVars == <<trigger, scheduled, motion, engine, approval, decider, tasks, approvals, stops>>

Idling == [at |-> "idle", todo |-> <<>>, motion |-> NoMotion]
Undecided == [motion |-> NoMotion, next |-> 1]

BootInit ==
    /\ trigger = [t \in Topics |-> "none"]
    /\ scheduled \in BOOLEAN
    /\ motion = [m \in Motions |-> [of |-> NoTopic, status |-> "none"]]
    /\ engine = [e \in Engines |-> Idling]
    /\ approval = [m \in Motions |-> "none"]
    /\ decider = [d \in Deciders |-> Undecided]
    /\ tasks = [m \in Motions |-> [i \in Items |-> 0]]
    /\ approvals = [m \in Motions |-> 0]
    /\ stops = 0

-----------------------------------------------------------------------------
(* Triggers: by a request, or by a schedule.                                 *)

CreateTrigger(t) ==
    /\ trigger[t] = "none"
    /\ trigger' = [trigger EXCEPT ![t] = "pending"]
    /\ UNCHANGED <<scheduled, motion, engine, approval, decider, tasks, approvals, stops>>

\* next_run is never set, so an enabled schedule is due at each check.
CheckSchedules(t) == scheduled /\ CreateTrigger(t)

UpdateSchedule ==
    /\ scheduled' = ~ scheduled
    /\ UNCHANGED <<trigger, motion, engine, approval, decider, tasks, approvals, stops>>

-----------------------------------------------------------------------------
(* process_triggers.                                                         *)

Pending == {t \in Topics : trigger[t] = "pending"}

\* The pending triggers with the highest priorities; what is equal comes in any order.
Batches ==
    {s \in UNION {SetToSeqs(S) : S \in kSubset(Min({BatchLimit, Cardinality(Pending)}), Pending)} :
        /\ \A i, j \in DOMAIN s : i < j => Priority[s[i]] >= Priority[s[j]]
        /\ \A i \in DOMAIN s, t \in Pending \ Range(s) : Priority[s[i]] >= Priority[t]}

StartBatch(e) ==
    /\ engine[e].at = "idle"
    /\ Pending # {}
    /\ \E s \in Batches : engine' = [engine EXCEPT ![e] = [Idling EXCEPT !.at = "create", !.todo = s]]
    /\ UNCHANGED <<trigger, scheduled, motion, approval, decider, tasks, approvals, stops>>

Topic(e) == Head(engine[e].todo)
GoOn(e, from, to) == engine[e].at = from /\ engine' = [engine EXCEPT ![e].at = to]

\* MUTANT of CreateMotion: the trigger is marked when its motion exists, so that nobody else takes it.
CreateAndMark(e) ==
    /\ engine[e].at = "create"
    /\ \E m \in Motions :
          /\ motion[m].status = "none"
          /\ motion' = [motion EXCEPT ![m] = [of |-> Topic(e), status |-> "created"]]
          /\ engine' = [engine EXCEPT ![e].at = "start", ![e].motion = m]
    /\ trigger' = [trigger EXCEPT ![Topic(e)] = "processed"]
    /\ UNCHANGED <<scheduled, approval, decider, tasks, approvals, stops>>

\* _create_motion; an exception is marked as the trigger's failure.
CreateMotion(e) ==
    /\ engine[e].at = "create"
    /\ \/ \E m \in Motions :
             /\ motion[m].status = "none"
             /\ motion' = [motion EXCEPT ![m] = [of |-> Topic(e), status |-> "created"]]
             /\ engine' = [engine EXCEPT ![e].at = "start", ![e].motion = m]
       \/ GoOn(e, "create", "fail") /\ UNCHANGED motion
    /\ UNCHANGED <<trigger, scheduled, approval, decider, tasks, approvals, stops>>

\* _register_participant, _start_discussion: a refusal is only logged.
StartDiscussion(e) ==
    /\ GoOn(e, "start", "wait")
    /\ \/ motion' = [motion EXCEPT ![engine[e].motion].status = "open"]
       \/ UNCHANGED motion
    /\ UNCHANGED <<trigger, scheduled, approval, decider, tasks, approvals, stops>>

\* The agents close the discussion, or they do not.
DiscussionCloses(m) ==
    /\ motion[m].status = "open"
    /\ motion' = [motion EXCEPT ![m].status = "closed"]
    /\ UNCHANGED <<trigger, scheduled, engine, approval, decider, tasks, approvals, stops>>

\* MUTANT of WaitForResult: it polls as long as it takes.
WaitForever(e) ==
    /\ GoOn(e, "wait", "submit") /\ motion[engine[e].motion].status = "closed"
    /\ UNCHANGED <<trigger, scheduled, motion, approval, decider, tasks, approvals, stops>>

\* wait_for_result: a poll that finds the motion closed, or the time is up. The motion goes on.
WaitForResult(e) ==
    /\ \/ GoOn(e, "wait", "submit") /\ motion[engine[e].motion].status = "closed"
       \/ GoOn(e, "wait", "fail")
    /\ UNCHANGED <<trigger, scheduled, motion, approval, decider, tasks, approvals, stops>>

AfterThis(e) == IF Len(engine[e].todo) > 1 THEN [Idling EXCEPT !.at = "create", !.todo = Tail(engine[e].todo)]
            ELSE Idling

\* create_approval, decide_approval: the row, whatever there was.
Requested(m) == [approval EXCEPT ![m] = "pending"]
Decided(m, decision) == [approval EXCEPT ![m] = decision]

SubmitForApproval(e) ==
    /\ GoOn(e, "submit", "mark")
    /\ approval' = Requested(engine[e].motion)
    /\ UNCHANGED <<trigger, scheduled, motion, decider, tasks, approvals, stops>>

\* mark_processed, mark_failed: whatever the status of the trigger is now.
MarkProcessed(e) ==
    /\ engine[e].at = "mark"
    /\ trigger' = [trigger EXCEPT ![Topic(e)] = "processed"]
    /\ engine' = [engine EXCEPT ![e] = AfterThis(e)]
    /\ UNCHANGED <<scheduled, motion, approval, decider, tasks, approvals, stops>>

MarkFailed(e) ==
    /\ engine[e].at = "fail"
    /\ trigger' = [trigger EXCEPT ![Topic(e)] = "failed"]
    /\ engine' = [engine EXCEPT ![e] = AfterThis(e)]
    /\ UNCHANGED <<scheduled, motion, approval, decider, tasks, approvals, stops>>

-----------------------------------------------------------------------------
(* process_approval: the decision is written whatever was decided before,    *)
(* and each approval makes the tasks, one by one.                            *)

Reject(d, m) ==
    /\ decider[d] = Undecided
    /\ approval[m] # "none"
    /\ approval' = Decided(m, "rejected")
    /\ UNCHANGED <<trigger, scheduled, motion, engine, decider, tasks, approvals, stops>>

Approve(d, m) ==
    /\ decider[d] = Undecided
    /\ approval[m] # "none" /\ approvals[m] < MaxApprovals
    /\ approval' = Decided(m, "approved")
    /\ approvals' = [approvals EXCEPT ![m] = @ + 1]
    /\ decider' = [decider EXCEPT ![d].motion = m]
    /\ UNCHANGED <<trigger, scheduled, motion, engine, tasks, stops>>

\* MUTANT of CreateTask: a task that could not be made is tried again, from the first.
CreateTaskAgain(d) ==
    LET m == decider[d].motion
        i == decider[d].next
    IN /\ m # NoMotion
       /\ \/ /\ i \in Items
             /\ tasks' = [tasks EXCEPT ![m][i] = @ + 1]
             /\ decider' = [decider EXCEPT ![d].next = @ + 1]
          \/ /\ i \in Items /\ i > 1 /\ UNCHANGED tasks
             /\ decider' = [decider EXCEPT ![d].next = 1]
          \/ i \notin Items /\ UNCHANGED tasks /\ decider' = [decider EXCEPT ![d] = Undecided]
       /\ UNCHANGED <<trigger, scheduled, motion, engine, approval, approvals, stops>>

\* _create_task; an exception ends the generation where it is.
CreateTask(d) ==
    LET m == decider[d].motion
        i == decider[d].next
    IN /\ m # NoMotion
       /\ \/ /\ i \in Items
             /\ tasks' = [tasks EXCEPT ![m][i] = @ + 1]
             /\ decider' = [decider EXCEPT ![d].next = @ + 1]
          \/ UNCHANGED tasks /\ decider' = [decider EXCEPT ![d] = Undecided]
       /\ UNCHANGED <<trigger, scheduled, motion, engine, approval, approvals, stops>>

ProcessEnds ==
    /\ stops < MaxStops
    /\ stops' = stops + 1
    /\ engine' = [e \in Engines |-> Idling]
    /\ decider' = [d \in Deciders |-> Undecided]
    /\ UNCHANGED <<trigger, scheduled, motion, approval, tasks, approvals>>

EngineStep(e) ==
    CreateMotion(e) \/ StartDiscussion(e) \/ WaitForResult(e) \/ SubmitForApproval(e)
        \/ MarkProcessed(e) \/ MarkFailed(e)

BootNext ==
    \/ \E t \in Topics : CreateTrigger(t) \/ CheckSchedules(t)
    \/ UpdateSchedule \/ ProcessEnds
    \/ \E e \in Engines : StartBatch(e) \/ EngineStep(e)
    \/ \E m \in Motions : DiscussionCloses(m)
    \/ \E d \in Deciders : CreateTask(d) \/ \E m \in Motions : Approve(d, m) \/ Reject(d, m)

BootSpec == BootInit /\ [][BootNext]_bootVars

-----------------------------------------------------------------------------
BootTypes ==
    /\ trigger \in [Topics -> {"none", "pending", "processed", "failed"}]
    /\ scheduled \in BOOLEAN
    /\ motion \in [Motions -> [of : Topics \cup {NoTopic}, status : {"none", "created", "open", "closed"}]]
    /\ engine \in [Engines -> [at : {"idle", "create", "start", "wait", "submit", "mark", "fail"},
                               todo : Seq(Topics), motion : Motions \cup {NoMotion}]]
    /\ approval \in [Motions -> {"none", "pending", "approved", "rejected"}]
    /\ decider \in [Deciders -> [motion : Motions \cup {NoMotion}, next : 1..(ItemCount + 1)]]
    /\ tasks \in [Motions -> [Items -> Nat]]
    /\ approvals \in [Motions -> 0..MaxApprovals]
    /\ stops \in 0..MaxStops

\* A trigger counts as processed only when a discussion of it has closed and its
\* result waits for, or has had, a decision: wherever the process ends and
\* whoever else processes the same trigger (_process_trigger marks it last).
ProcessedIsSubmitted ==
    \A t \in Topics : trigger[t] = "processed" =>
        \E m \in Motions : motion[m] = [of |-> t, status |-> "closed"] /\ approval[m] # "none"

\* No action item is on the board more often than its result has been approved:
\* failures and restarts in the middle of a generation lose tasks, and never
\* double them (generate_tasks starts over only with another decision).
TasksPerApproval == \A m \in Motions, i \in Items : tasks[m][i] <= approvals[m]

\* Every trigger a batch has taken gets out of "pending", whether or not the
\* discussions ever close, unless the process ends (wait_for_result has a timeout,
\* and one trigger's exception does not stop the batch).
BatchSettles ==
    \A e \in Engines, t \in Topics :
        t \in Range(engine[e].todo) /\ stops = MaxStops ~> trigger[t] \in {"processed", "failed"}
=============================================================================
