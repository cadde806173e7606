----------------------------- MODULE TaskBoard -------------------------------
(***************************************************************************)
(* The rows of a task graph and everybody who writes them, when the graph    *)
(* is not executed in parallel: assign_tasks and reassign_task, called by a   *)
(* program (Callers), the TASK_STARTED, TASK_STATUS and TASK_ACCEPT_RESULT    *)
(* handlers on the endpoints of the agents, the verification behind a         *)
(* TASK_STATUS "done", and the retry of failed tasks.  Each step is what runs *)
(* between two suspension points.                                             *)
(*                                                                          *)
(* Agents follow the protocol: one TASK_STARTED and one TASK_STATUS for each  *)
(* TASK_ASSIGNED, one TASK_ACCEPT_RESULT for each TASK_VERIFY.                *)
(***************************************************************************)
EXTENDS Naturals, FiniteSets

CONSTANTS
    Tasks,
    Agents,
    DependsOn,      \* depends_on of each task
    Plain,          \* tasks is_simple_task finds simple, dependencies aside
    Reviewers,      \* agents with the "review" capability
    Flaky,          \* agents that may be disconnected when they are sent to
    Callers,        \* programs that call assign_tasks and reassign_task
    MaxConcurrent,  \* DEFAULT_MAX_CONCURRENT
    NoAgent, NoTask,
    MaxCalls,       \* bound: calls of the programs
    MaxCrashes      \* bound: restarts of the coordinator

ASSUME GraphAssumption ==
    /\ IsFiniteSet(Tasks)
    /\ DependsOn \in [Tasks -> SUBSET Tasks]
    /\ Plain \subseteq Tasks
    /\ NoTask \notin Tasks
ASSUME PeopleAssumption ==
    /\ Reviewers \subseteq Agents /\ Flaky \subseteq Agents
    /\ NoAgent \notin Agents
    /\ Agents \cap Callers = {}
ASSUME NumbersAssumption == {MaxConcurrent, MaxCalls, MaxCrashes} \subseteq Nat

VARIABLES
    row,     \* tasks.status
    owner,   \* tasks.assigned_to
    job,     \* how far each agent is with each task it has been sent
    asked,   \* TASK_VERIFY messages not answered: <<task, reviewer>>
    pc,      \* where each caller and each agent's endpoint is suspended
    call,    \* the local variables of each caller
    hand,    \* those of each endpoint: the task, the dependencies to check
    moved,   \* the tasks reassign_task has been called for
    calls,   \* how often programs have called
    crashes

board == <<row, owner>>
vars == <<row, owner, job, asked, pc, call, hand, moved, calls, crashes>>

Table == INSTANCE TaskTable
Active == {"assigned", "running"}

Load(a) == Cardinality({t \in Tasks : owner[t] = a /\ row[t] \in Active})

NoCall == [left |-> {}, counted |-> {}, batch |-> {}, task |-> NoTask,
           agent |-> NoAgent, cand |-> {}, known |-> {}, loads |-> [a \in Agents |-> 0]]
NoHand == [task |-> NoTask, todo |-> {}]

Init ==
    /\ row = [t \in Tasks |-> "pending"]
    /\ owner = [t \in Tasks |-> NoAgent]
    /\ job = [t \in Tasks |-> [a \in Agents |-> "none"]]
    /\ asked = {}
    /\ pc = [p \in Callers \cup Agents |-> "idle"]
    /\ call = [c \in Callers |-> NoCall]
    /\ hand = [a \in Agents |-> NoHand]
    /\ moved = {}
    /\ calls = 0
    /\ crashes = 0

At(p, place) == pc[p] = place
Goto(p, place) == pc' = [pc EXCEPT ![p] = place]

-----------------------------------------------------------------------------
(* assign_tasks.                                                            *)

Call(c) == At(c, "idle") /\ calls < MaxCalls /\ calls' = calls + 1

\* The next task of the batch; or the next batch, the remaining tasks whose
\* dependencies count as done, as the tasks of earlier batches do whether they
\* were assigned or not; or the end.
NextTask(c, now) ==
    LET ready == {t \in now.left : DependsOn[t] \subseteq now.counted} IN
    IF now.batch # {}
      THEN /\ \E t \in now.batch :
                call' = [call EXCEPT ![c] =
                           [now EXCEPT !.task = t, !.batch = @ \ {t}]]
           /\ Goto(c, "find")
      ELSE IF ready # {}
      THEN /\ \E t \in ready :
                call' = [call EXCEPT ![c] =
                           [now EXCEPT !.task = t, !.batch = ready \ {t},
                                       !.left = @ \ ready, !.counted = @ \cup ready]]
           /\ Goto(c, "find")
      ELSE /\ call' = [call EXCEPT ![c] = NoCall]
           /\ Goto(c, "idle")

\* MUTANT of Assignable: tasks under way are assigned as well.
AssignableUnfinished(t) == row[t] \in {"pending", "running"}

Assignable(t) == row[t] = "pending"

\* The graph is read, and assign_tasks works on what was read.
AssignTasks(c) ==
    /\ Call(c)
    /\ NextTask(c, [NoCall EXCEPT !.left = {t \in Tasks : Assignable(t)},
                                  !.counted = {t \in Tasks : row[t] \in {"done", "accepted"}}])
    /\ UNCHANGED <<board, job, asked, hand, moved, crashes>>

\* _round_robin_pick: a candidate with less than its maximum, the order left
\* open; a task that finds none is skipped.
Pick(c, now) ==
    LET free == {a \in now.cand : now.loads[a] < MaxConcurrent} IN
    IF free = {}
      THEN NextTask(c, [now EXCEPT !.cand = {}])
      ELSE /\ \E a \in free : call' = [call EXCEPT ![c] = [now EXCEPT !.agent = a, !.cand = {}]]
           /\ Goto(c, "assign")

\* _find_capable_agents: who is connected and capable is left open.
Find(c) ==
    /\ At(c, "find")
    /\ \E S \in SUBSET Agents :
         LET now == [call[c] EXCEPT !.cand = S] IN
         IF S \subseteq now.known
           THEN Pick(c, now)
           ELSE call' = [call EXCEPT ![c] = now] /\ Goto(c, "load")
    /\ UNCHANGED <<board, job, asked, hand, moved, calls, crashes>>

\* The tasks of a candidate are counted once in a call of assign_tasks.
LoadOne(c) ==
    /\ At(c, "load")
    /\ \E a \in call[c].cand \ call[c].known :
         LET now == [call[c] EXCEPT !.known = @ \cup {a}, !.loads[a] = Load(a)] IN
         IF now.cand \subseteq now.known
           THEN Pick(c, now)
           ELSE call' = [call EXCEPT ![c] = now] /\ UNCHANGED pc
    /\ UNCHANGED <<board, job, asked, hand, moved, calls, crashes>>

\* The row is written, whatever it is by now.
Assign(c) ==
    /\ At(c, "assign")
    /\ row' = [row EXCEPT ![call[c].task] = "assigned"]
    /\ owner' = [owner EXCEPT ![call[c].task] = call[c].agent]
    /\ Goto(c, "tell")
    /\ UNCHANGED <<job, asked, call, hand, moved, calls, crashes>>

\* MUTANT of Told: the load of the agent is not counted on.
ToldUncounted(c) == [call[c] EXCEPT !.agent = NoAgent]

Told(c) == [call[c] EXCEPT !.agent = NoAgent, !.loads[call[c].agent] = @ + 1]

\* TASK_ASSIGNED is sent; to an agent that is not connected it is lost.
Tell(c) ==
    LET t == call[c].task
        a == call[c].agent
    IN
    /\ At(c, "tell")
    /\ \/ job' = [job EXCEPT ![t][a] = "told"]
       \/ a \in Flaky /\ UNCHANGED job
    /\ NextTask(c, Told(c))
    /\ UNCHANGED <<board, asked, hand, moved, calls, crashes>>

-----------------------------------------------------------------------------
(* reassign_task, and the retry of handle_task_failure.                      *)

\* A task is taken from an agent that has gone offline: the row is read.
Reassign(c) ==
    /\ Call(c)
    /\ \E t \in Tasks :
         /\ moved' = moved \cup {t}
         /\ call' = [call EXCEPT ![c] = [NoCall EXCEPT !.task = t, !.agent = owner[t]]]
    /\ Goto(c, "other")
    /\ UNCHANGED <<board, job, asked, hand, crashes>>

\* Loads are not looked at; nothing happens if the pick is the old agent.
PickOther(c) ==
    /\ At(c, "other")
    /\ \/ /\ \E a \in Agents \ {call[c].agent} : call' = [call EXCEPT ![c].agent = a]
          /\ Goto(c, "assign")
       \/ /\ call' = [call EXCEPT ![c] = NoCall]
          /\ Goto(c, "idle")
    /\ UNCHANGED <<board, job, asked, hand, moved, calls, crashes>>

\* The failure of a task is answered with a retry. How often is up to the
\* caller, which passes the number of retries. The other answers, to fail the
\* dependents or the graph, end in an exception: the storage has no
\* get_tasks_by_graph.
Retry(t) ==
    /\ row[t] = "failed"
    /\ row' = [row EXCEPT ![t] = "pending"]
    /\ UNCHANGED <<owner, job, asked, pc, call, hand, moved, calls, crashes>>

-----------------------------------------------------------------------------
(* The handlers of what agents send.                                         *)

Take(a, t) == hand' = [hand EXCEPT ![a] = [task |-> t, todo |-> {}]]
Drop(a) == hand' = [hand EXCEPT ![a] = NoHand]

\* handle_task_started: no look at the status.
TaskStarted(a, t) ==
    /\ At(a, "idle")
    /\ job[t][a] = "told"
    /\ job' = [job EXCEPT ![t][a] = "started"]
    /\ Take(a, t)
    /\ Goto(a, "running")
    /\ UNCHANGED <<board, asked, call, moved, calls, crashes>>

\* handle_task_status: the table is looked up on the row as it is now.
TaskStatus(a, t, result) ==
    /\ At(a, "idle")
    /\ job[t][a] = "started"
    /\ job' = [job EXCEPT ![t][a] = "reported"]
    /\ IF <<row[t], result>> \in Table!Valid
         THEN Take(a, t) /\ Goto(a, result)
         ELSE UNCHANGED <<hand, pc>>
    /\ UNCHANGED <<board, asked, call, moved, calls, crashes>>

\* handle_task_accept_result: no look at the status.
TaskAcceptResult(a, t, verdict) ==
    /\ At(a, "idle")
    /\ <<t, a>> \in asked
    /\ asked' = asked \ {<<t, a>>}
    /\ Take(a, t)
    /\ Goto(a, verdict)
    /\ UNCHANGED <<board, job, call, moved, calls, crashes>>

\* MUTANT of FollowedBy: the task is queued again whatever the verdict.
FollowedByRequeue(status) ==
    CASE status = "done" -> "verify"
      [] status \in {"accepted", "rejected"} -> "pending"
      [] OTHER -> "idle"

\* What a handler does once it has written a status.
FollowedBy(status) ==
    CASE status = "done" -> "verify"
      [] status = "rejected" -> "pending"
      [] OTHER -> "idle"

\* MUTANT of Write: a misspelt status.
WriteMisspelt(a) ==
    /\ pc[a] \in {"running", "done", "failed", "accepted", "rejected", "pending"}
    /\ row' = [row EXCEPT ![hand[a].task] = IF pc[a] = "failed" THEN "error" ELSE pc[a]]
    /\ Goto(a, FollowedBy(pc[a]))
    /\ IF FollowedBy(pc[a]) = "idle" THEN Drop(a) ELSE UNCHANGED hand
    /\ UNCHANGED <<owner, job, asked, call, moved, calls, crashes>>

\* update_task_status of a handler, whatever the row is by now.
Write(a) ==
    /\ pc[a] \in {"running", "done", "failed", "accepted", "rejected", "pending"}
    /\ row' = [row EXCEPT ![hand[a].task] = pc[a]]
    /\ Goto(a, FollowedBy(pc[a]))
    /\ IF FollowedBy(pc[a]) = "idle" THEN Drop(a) ELSE UNCHANGED hand
    /\ UNCHANGED <<owner, job, asked, call, moved, calls, crashes>>

-----------------------------------------------------------------------------
(* verify_task, behind a TASK_STATUS "done".                                 *)

\* MUTANT of Verify: done tasks are passed over.
VerifyNothing(a) ==
    /\ At(a, "verify")
    /\ Goto(a, "idle") /\ Drop(a)
    /\ UNCHANGED <<board, job, asked, call, moved, calls, crashes>>

\* The row is read again; whether the declared artifacts exist is left open.
Verify(a) ==
    LET t == hand[a].task IN
    /\ At(a, "verify")
    /\ \/ /\ row[t] # "done"
          /\ Goto(a, "idle") /\ Drop(a)
       \/ /\ row[t] = "done"
          /\ Goto(a, "delegate") /\ UNCHANGED hand
       \/ /\ row[t] = "done" /\ t \in Plain
          /\ Goto(a, IF DependsOn[t] = {} THEN "accept" ELSE "deps")
          /\ hand' = [hand EXCEPT ![a].todo = DependsOn[t]]
    /\ UNCHANGED <<board, job, asked, call, moved, calls, crashes>>

\* MUTANT of CheckDep: a dependency that is done will do.
CheckDepDone(a) ==
    /\ At(a, "deps")
    /\ \E u \in hand[a].todo :
         IF row[u] \in {"done", "accepted"}
           THEN /\ hand' = [hand EXCEPT ![a].todo = @ \ {u}]
                /\ Goto(a, IF hand[a].todo = {u} THEN "accept" ELSE "deps")
           ELSE /\ hand' = [hand EXCEPT ![a].todo = {}]
                /\ Goto(a, "delegate")
    /\ UNCHANGED <<board, job, asked, call, moved, calls, crashes>>

\* is_simple_task reads its dependencies one by one.
CheckDep(a) ==
    /\ At(a, "deps")
    /\ \E u \in hand[a].todo :
         IF row[u] = "accepted"
           THEN /\ hand' = [hand EXCEPT ![a].todo = @ \ {u}]
                /\ Goto(a, IF hand[a].todo = {u} THEN "accept" ELSE "deps")
           ELSE /\ hand' = [hand EXCEPT ![a].todo = {}]
                /\ Goto(a, "delegate")
    /\ UNCHANGED <<board, job, asked, call, moved, calls, crashes>>

\* MUTANT of AutoAccept: the task is sent to a reviewer all the same.
AutoAcceptGoesOn(a) ==
    /\ At(a, "accept")
    /\ row' = [row EXCEPT ![hand[a].task] = "accepted"]
    /\ Goto(a, "delegate") /\ UNCHANGED hand
    /\ UNCHANGED <<owner, job, asked, call, moved, calls, crashes>>

AutoAccept(a) ==
    /\ At(a, "accept")
    /\ row' = [row EXCEPT ![hand[a].task] = "accepted"]
    /\ Goto(a, "idle") /\ Drop(a)
    /\ UNCHANGED <<owner, job, asked, call, moved, calls, crashes>>

\* delegate_review: TASK_VERIFY goes to a reviewer that is connected. If there is
\* none, or the one picked is gone by the time it is sent to, the task stays done.
Delegate(a) ==
    /\ At(a, "delegate")
    /\ \/ \E r \in Reviewers : asked' = asked \cup {<<hand[a].task, r>>}
       \/ (Reviewers = {} \/ Reviewers \cap Flaky # {}) /\ UNCHANGED asked
    /\ Goto(a, "idle") /\ Drop(a)
    /\ UNCHANGED <<board, job, call, moved, calls, crashes>>

-----------------------------------------------------------------------------

\* The process dies: callers and handlers are lost, the database stays.
Crash ==
    /\ crashes < MaxCrashes
    /\ crashes' = crashes + 1
    /\ pc' = [p \in Callers \cup Agents |-> "idle"]
    /\ call' = [c \in Callers |-> NoCall]
    /\ hand' = [a \in Agents |-> NoHand]
    /\ UNCHANGED <<board, job, asked, moved, calls>>

CallerStep(c) == Find(c) \/ LoadOne(c) \/ Assign(c) \/ Tell(c) \/ PickOther(c)
HandlerStep(a) == Write(a) \/ Verify(a) \/ CheckDep(a) \/ AutoAccept(a) \/ Delegate(a)

Answers(a, t) == \E verdict \in {"accepted", "rejected"} : TaskAcceptResult(a, t, verdict)
Works(a, t) ==
    TaskStarted(a, t) \/ \E result \in {"done", "failed"} : TaskStatus(a, t, result)

Next ==
    \/ \E c \in Callers : AssignTasks(c) \/ Reassign(c) \/ CallerStep(c)
    \/ \E a \in Agents : HandlerStep(a) \/ \E t \in Tasks : Works(a, t) \/ Answers(a, t)
    \/ \E t \in Tasks : Retry(t)
    \/ Crash

Spec == Init /\ [][Next]_vars

\* The event loop runs what can run. A reviewer answers, and its endpoint takes
\* its messages in order, so that an answer gets its turn.
Fairness ==
    /\ \A c \in Callers : WF_vars(CallerStep(c))
    /\ \A a \in Agents : WF_vars(HandlerStep(a))
    /\ \A r \in Reviewers, t \in Tasks : SF_vars(Answers(r, t))

FairSpec == Spec /\ Fairness

-----------------------------------------------------------------------------
(* Properties. They are about the tasks reassign_task has not been called for; *)
(* the others go on, and are in the way.                                      *)

Steady == Tasks \ moved

CallPlaces == {"idle", "find", "load", "assign", "tell", "other"}
HandPlaces == {"idle", "running", "done", "failed", "accepted", "rejected", "pending",
               "verify", "deps", "accept", "delegate"}

CallLocals == [left : SUBSET Tasks, counted : SUBSET Tasks, batch : SUBSET Tasks,
               task : Tasks \cup {NoTask}, agent : Agents \cup {NoAgent},
               cand : SUBSET Agents, known : SUBSET Agents, loads : [Agents -> Nat]]

\* The variables have their types.
TypeOK ==
    /\ row \in [Tasks -> Table!TaskStatuses]
    /\ owner \in [Tasks -> Agents \cup {NoAgent}]
    /\ job \in [Tasks -> [Agents -> {"none", "told", "started", "reported"}]]
    /\ asked \subseteq Tasks \X Agents
    /\ pc \in [Callers \cup Agents -> CallPlaces \cup HandPlaces]
    /\ call \in [Callers -> CallLocals]
    /\ hand \in [Agents -> [task : Tasks \cup {NoTask}, todo : SUBSET Tasks]]
    /\ moved \subseteq Tasks
    /\ calls \in 0..MaxCalls
    /\ crashes \in 0..MaxCrashes

\* Only TASK_STATUS looks at the table before it writes (task_exec.py:63). Still
\* every status moves along it, as long as the graph is assigned by one call at
\* a time: no assignment, report, verdict or retry is written over another,
\* restarts included.
Inspected == INSTANCE TaskTable WITH
    row <- [t \in Tasks |-> IF t \in moved THEN "moved" ELSE row[t]],
    owner <- [t \in Tasks |-> IF t \in moved THEN NoAgent ELSE owner[t]]
FollowsTable == Inspected!Spec

\* An agent that has a task in hand is the one its row names, so no two agents
\* ever work on one task, although rejected and failed tasks are handed out
\* again (task_assign.py:136, accept_result.py:42, task_retry.py:41).
WorkerNamed ==
    \A t \in Steady, a \in Agents :
        job[t][a] \in {"told", "started"} => owner[t] = a /\ row[t] \in Active

\* While a reviewer has not answered, the task waits for the answer: a verdict
\* never hits a task that has moved on, and no task has two reviewers
\* (delegate.py:55, accept_result.py:26-44).
ReviewedIsDone ==
    \A q \in asked : q[1] \in Steady =>
        row[q[1]] = "done" /\ \A p \in asked : p[1] = q[1] => p = q

\* is_simple_task reads the dependencies one by one and the row is written
\* afterwards: when a task is accepted without a review, all of them are
\* accepted (simple_check.py:33-39).
AutoAcceptSound ==
    \A a \in Agents : At(a, "accept") =>
        \A u \in DependsOn[hand[a].task] \cap Steady : row[u] = "accepted"

\* The load of an agent is counted once in a call and then kept up by hand: it
\* never has more active tasks than its maximum (task_assign.py:118-146).
Assigned(a) == {t \in Steady : owner[t] = a /\ row[t] \in Active}
LoadBound == \A a \in Agents : Cardinality(Assigned(a)) <= MaxConcurrent

\* A task that is done is accepted or rejected in the end, unless a restart
\* comes between the report and the verification (task_exec.py:67-80).
DoneIsJudged ==
    \A t \in Tasks :
        (row[t] = "done") ~> (row[t] # "done" \/ t \in moved \/ crashes > 0)

-----------------------------------------------------------------------------
(* Inductive invariants, for TaskBoard_proofs; with one caller.              *)

Busy(a) == pc[a] # "idle"

\* A process that is suspended has something to go on with.
PlaceInv ==
    /\ \A c \in Callers :
          /\ pc[c] \in CallPlaces
          /\ Busy(c) => call[c].task \in Tasks
          /\ pc[c] \in {"assign", "tell"} => call[c].agent \in Agents
    /\ \A a \in Agents : pc[a] \in HandPlaces /\ (Busy(a) => hand[a].task \in Tasks)

\* Why a handler may write: the row is as it was when it was looked at, and
\* nobody else deals with the task.
Holds(a, t) ==
    /\ pc[a] = "running" => job[t][a] = "started" /\ row[t] = "assigned" /\ owner[t] = a
    /\ pc[a] \in {"done", "failed"} =>
          job[t][a] = "reported" /\ owner[t] = a /\ <<row[t], pc[a]>> \in Table!Valid
    /\ pc[a] \in {"verify", "deps", "accept", "delegate", "accepted", "rejected"} =>
          row[t] = "done"
    /\ pc[a] = "pending" => row[t] = "rejected"
    /\ \A q \in asked : q[1] # t
    /\ \A b \in Agents \ {a} : Busy(b) => hand[b].task # t

HandlerInv == \A a \in Agents, t \in Steady : Busy(a) /\ hand[a].task = t => Holds(a, t)

WorkerInv ==
    /\ WorkerNamed
    /\ \A t \in Steady, a \in Agents : job[t][a] = "told" => row[t] = "assigned"

\* Why assign_tasks may write: what it has read as pending still is.
CallerInv ==
    \A c \in Callers : Busy(c) =>
        /\ \A t \in (call[c].left \cup call[c].batch) \cap Steady : row[t] = "pending"
        /\ call[c].left \cap call[c].batch = {}
        /\ call[c].task \notin call[c].left \cup call[c].batch
        /\ pc[c] = "other" => call[c].task \in moved
        /\ pc[c] \in {"find", "load", "assign"} /\ call[c].task \in Steady =>
              row[call[c].task] = "pending"
        /\ pc[c] = "tell" /\ call[c].task \in Steady =>
              /\ row[call[c].task] = "assigned"
              /\ owner[call[c].task] = call[c].agent
              /\ \A a \in Agents :
                    /\ job[call[c].task][a] \notin {"told", "started"}
                    /\ Busy(a) => hand[a].task # call[c].task

BoardInv == PlaceInv /\ HandlerInv /\ WorkerInv /\ ReviewedIsDone /\ CallerInv

\* Dependencies that have been looked at stay accepted.
DepsInv ==
    /\ AutoAcceptSound
    /\ \A a \in Agents : pc[a] = "deps" =>
          \A u \in (DependsOn[hand[a].task] \ hand[a].todo) \cap Steady : row[u] = "accepted"

\* The loads that are known are not too low, and one below the maximum when an
\* agent is picked.
Known(c) ==
    /\ \A a \in call[c].known :
          Cardinality(Assigned(a)) <=
              call[c].loads[a] + IF pc[c] = "tell" /\ call[c].agent = a THEN 1 ELSE 0
    /\ pc[c] = "assign" /\ call[c].task \in Steady =>
          call[c].agent \in call[c].known /\ call[c].loads[call[c].agent] < MaxConcurrent

LoadInv == LoadBound /\ \A c \in Callers : Busy(c) => Known(c)

=============================================================================
