---------------------------- MODULE ParallelExec -----------------------------
(***************************************************************************)
(* The parallel execution of one task graph.  Two kinds of processes hand    *)
(* out tasks from the same run queue: the loop of execute_graph, and the      *)
(* handler of every TASK_STATUS "done" an agent sends.  What they share is    *)
(* not locked; a step below is what runs between two suspension points of     *)
(* the event loop (a storage call or a socket write).                         *)
(*                                                                          *)
(* Tasks are numbers: TaskNode has no priority, so the priority queue orders  *)
(* by task id.  A task and its row have their own status.                     *)
(***************************************************************************)
EXTENDS Integers, FiniteSets, Functions

CONSTANTS
    Tasks,
    Agents,         \* capable agents
    Paths,
    DependsOn,      \* depends_on of each task
    Artifacts,      \* artifact_paths of each task
    MaxConcurrent,  \* max_concurrent_tasks of each agent
    Reporters,      \* the agents that report on their tasks
    Loop,           \* the process that runs execute_graph
    NoAgent, NoTask

Dispatchers == Agents \cup {Loop}

ASSUME TasksAssumption == Tasks \subseteq Nat /\ IsFiniteSet(Tasks) /\ NoTask \notin Tasks
ASSUME AgentsAssumption == NoAgent \notin Agents /\ Loop \notin Agents
ASSUME GraphAssumption ==
    /\ DependsOn \in [Tasks -> SUBSET Tasks]
    /\ Artifacts \in [Tasks -> SUBSET Paths]
    /\ MaxConcurrent \in [Agents -> Nat]
    /\ Reporters \subseteq Agents

VARIABLES
    to,        \* TaskNode.assigned_to; the node is PENDING as long as it is unset
    row,       \* tasks.status; "accepted" counts as "done"
    rowTo,     \* tasks.assigned_to
    queue,     \* runqueue: how many entries each task has
    slots,     \* agent_slots
    holder,    \* FileResourceTracker._locks: locked_by
    completed, \* _completed
    failed,    \* _failed
    future,    \* _running_futures: the agent each listed _run_task writes to
    awaited,   \* the futures asyncio.wait was called with: task and agent
    job,       \* how far each agent is with each task it has been sent
    pc,        \* where each dispatcher is suspended
    hand       \* the task it is dealing with, the candidate, the slots counted
               \* for it, and the candidates tried before

graphVars == <<to, queue, slots, holder, completed, failed, future, awaited>>
rows == <<row, rowTo>>
vars == <<graphVars, rows, job, pc, hand>>

Holding(t, a) == [task |-> t, agent |-> a, free |-> 0, tried |-> {}]
Nothing == Holding(NoTask, NoAgent)

Init ==
    /\ to = [t \in Tasks |-> NoAgent]
    /\ row = [t \in Tasks |-> "pending"]
    /\ rowTo = [t \in Tasks |-> NoAgent]
    /\ queue = [t \in Tasks |-> 0]
    /\ slots = [a \in Agents |-> 0]
    /\ holder = [p \in Paths |-> NoTask]
    /\ completed = {}
    /\ failed = {}
    /\ future = [t \in Tasks |-> NoAgent]
    /\ awaited = {}
    /\ job = [t \in Tasks |-> [a \in Agents |-> "none"]]
    /\ pc = [d \in Dispatchers |-> IF d = Loop THEN "start" ELSE "idle"]
    /\ hand = [d \in Dispatchers |-> Nothing]

\* MUTANT of DepsMet: one of the dependencies is enough.
DepsMetAny(t, done) == DependsOn[t] = {} \/ DependsOn[t] \cap done # {}

DepsMet(t, done) == DependsOn[t] \subseteq done

-----------------------------------------------------------------------------
(* dispatch_ready.                                                          *)

\* MUTANT of Leaves: the loop does not notice that nothing is running.
LeavesNeverEnds(d) ==
    /\ hand' = [hand EXCEPT ![d] = Nothing]
    /\ pc' = [pc EXCEPT ![d] = IF d # Loop THEN "idle" ELSE "wait"]
    /\ awaited' = IF d = Loop
                    THEN {<<t, future'[t]>> : t \in {u \in Tasks : future'[u] # NoAgent}}
                    ELSE awaited

\* Where a dispatcher goes when it leaves dispatch_ready: the loop returns when
\* nothing is running, and waits for the futures listed by now otherwise.
Leaves(d) ==
    LET running == {t \in Tasks : future'[t] # NoAgent} IN
    /\ hand' = [hand EXCEPT ![d] = Nothing]
    /\ pc' = [pc EXCEPT ![d] = IF d # Loop THEN "idle"
                               ELSE IF running = {} THEN "done" ELSE "wait"]
    /\ awaited' = IF d = Loop THEN {<<t, future'[t]>> : t \in running} ELSE awaited

\* The while loop up to its next suspension, on the queue and the futures as
\* they are by now: entries of nodes that are not PENDING are dropped until one
\* is found that is.
Dispatch(d, q) ==
    LET ready == {t \in Tasks : q[t] > 0 /\ to[t] = NoAgent} IN
    \/ /\ ready = {}
       /\ queue' = [t \in Tasks |-> 0]
       /\ Leaves(d)
    \/ \E next \in ready :
         /\ \A t \in ready : next <= t
         /\ queue' = [t \in Tasks |-> IF t < next THEN 0
                                      ELSE IF t = next THEN q[t] - 1
                                      ELSE q[t]]
         /\ hand' = [hand EXCEPT ![d] = Holding(next, NoAgent)]
         /\ pc' = [pc EXCEPT ![d] = "pick"]
         /\ awaited' = IF d = Loop THEN {} ELSE awaited

\* assign_task, up to its storage call: lock the paths and mark the node, or
\* report the task as blocked and look at the next one. acquire_resources takes
\* all locks or none: one it gives back it took in the same step, so nobody has
\* come to wait for it.
Acquirable(t) == \A p \in Artifacts[t] : holder[p] \in {NoTask, t}

AssignTask(d, a) ==
    LET t == hand[d].task IN
    IF Acquirable(t)
      THEN /\ holder' = [p \in Paths |-> IF p \in Artifacts[t] THEN t ELSE holder[p]]
           /\ to' = [to EXCEPT ![t] = a]
           /\ hand' = [hand EXCEPT ![d] = Holding(t, a)]
           /\ pc' = [pc EXCEPT ![d] = "assign"]
           /\ UNCHANGED <<queue, awaited>>
      ELSE Dispatch(d, queue) /\ UNCHANGED <<holder, to>>

\* pick_agent: a candidate with a free slot is taken at once. The order of the
\* candidates is left open.
PickFree(d, a) ==
    /\ pc[d] = "pick"
    /\ a \notin hand[d].tried
    /\ slots[a] > 0
    /\ UNCHANGED <<rows, slots, completed, failed, future, job>>
    /\ AssignTask(d, a)

\* When there seem to be none they are counted anew in the table ...
CountRows(d, a) ==
    /\ pc[d] = "pick"
    /\ a \notin hand[d].tried
    /\ slots[a] <= 0
    /\ hand' = [hand EXCEPT ![d].agent = a, ![d].free = MaxConcurrent[a]
          - Cardinality({t \in Tasks : rowTo[t] = a /\ row[t] \in {"assigned", "running"}})]
    /\ pc' = [pc EXCEPT ![d] = "count"]
    /\ UNCHANGED <<graphVars, rows, job>>

\* ... and the count is used, by when others may have changed the slots.
UseCount(d) ==
    LET a == hand[d].agent IN
    /\ pc[d] = "count"
    /\ slots' = [slots EXCEPT ![a] = hand[d].free]
    /\ UNCHANGED <<rows, completed, failed, future, job>>
    /\ IF hand[d].free > 0
         THEN AssignTask(d, a)
         ELSE /\ hand' = [hand EXCEPT ![d] = [Holding(@.task, NoAgent) EXCEPT
                                                !.tried = hand[d].tried \cup {a}]]
              /\ pc' = [pc EXCEPT ![d] = "pick"]
              /\ UNCHANGED <<to, queue, holder, awaited>>

\* No candidate is left: the task goes back to the queue. Agents that are not
\* connected are no candidates, so this may happen at any time.
NoneFree(d) ==
    /\ pc[d] = "pick"
    /\ queue' = [queue EXCEPT ![hand[d].task] = @ + 1]
    /\ UNCHANGED <<to, rows, slots, holder, completed, failed, future, job>>
    /\ Leaves(d)

\* The row is written; then the slot is taken and the send started. An agent
\* that is sent a task again starts anew.
Assigned(d) ==
    LET t == hand[d].task
        a == hand[d].agent
    IN
    /\ pc[d] = "assign"
    /\ row' = [row EXCEPT ![t] = "assigned"]
    /\ rowTo' = [rowTo EXCEPT ![t] = a]
    /\ slots' = [slots EXCEPT ![a] = @ - 1]
    /\ future' = [future EXCEPT ![t] = a]
    /\ job' = [job EXCEPT ![t][a] = "sending"]
    /\ Dispatch(d, queue)
    /\ UNCHANGED <<to, holder, completed, failed>>

\* _run_task: the future is done when the message has been written, or when
\* hub.send has found no connection to write it to: an agent need not report on
\* a task it was sent, so a message that is lost shows in no other way.
Send(t, a) ==
    /\ job[t][a] = "sending"
    /\ job' = [job EXCEPT ![t][a] = "sent"]
    /\ UNCHANGED <<graphVars, rows, pc, hand>>

-----------------------------------------------------------------------------
(* on_task_complete, for tasks that complete in one step, in some order.     *)

Orders(T) == Bijection(T, 1..Cardinality(T))

\* Entries put for a waiting task: one per completion after which its
\* dependencies are met.
NewEntries(u, T, order) ==
    IF to[u] # NoAgent \/ u \in completed \cup failed
      THEN 0
      ELSE Cardinality({t \in T :
             DepsMet(u, completed \cup {s \in T : order[s] <= order[t]})})

\* MUTANT of Released: release_all is left to somebody else.
ReleasedLater(T) == holder

Released(T) == [p \in Paths |-> IF holder[p] \in T THEN NoTask ELSE holder[p]]

SlotsBack(T) ==
    [a \in Agents |-> slots[a] + Cardinality({t \in T : to[t] = a})]

OnComplete(d, T) ==
    /\ completed' = completed \cup T
    /\ slots' = SlotsBack(T)
    /\ holder' = Released(T)
    /\ \E order \in Orders(T) :
         Dispatch(d, [u \in Tasks |-> queue[u] + NewEntries(u, T, order)])

-----------------------------------------------------------------------------
(* execute_graph.                                                           *)

ExecuteGraph ==
    /\ pc[Loop] = "start"
    /\ UNCHANGED <<to, rows, slots, holder, completed, failed, future, job>>
    /\ Dispatch(Loop, [t \in Tasks |-> IF DependsOn[t] = {} THEN 1 ELSE 0])

\* asyncio.wait returns with the futures that are done; the tasks that are
\* still listed with one of them count as completed.
Wake ==
    LET done == {f \in awaited : job[f[1]][f[2]] # "sending"}
        T    == {t \in Tasks : <<t, future[t]>> \in done}
    IN
    /\ pc[Loop] = "wait"
    /\ done # {}
    /\ future' = [t \in Tasks |-> IF t \in T THEN NoAgent ELSE future[t]]
    /\ IF Tasks \subseteq completed \cup T \cup failed
         THEN /\ completed' = completed \cup T
              /\ slots' = SlotsBack(T)
              /\ holder' = Released(T)
              /\ pc' = [pc EXCEPT ![Loop] = "done"]
              /\ awaited' = {}
              /\ UNCHANGED <<queue, hand>>
         ELSE OnComplete(Loop, T)
    /\ UNCHANGED <<to, rows, failed, job>>

-----------------------------------------------------------------------------
(* What the agents report, one message at a time each.                       *)

\* handle_task_started: whatever the status of the row is.
TaskStarted(t, a) ==
    /\ pc[a] = "idle"
    /\ job[t][a] = "sent"
    /\ job' = [job EXCEPT ![t][a] = "started"]
    /\ row' = [row EXCEPT ![t] = "running"]
    /\ pc' = [pc EXCEPT ![a] = "started"]
    /\ hand' = [hand EXCEPT ![a] = Holding(t, a)]
    /\ UNCHANGED <<graphVars, rowTo>>

TrackSlot(a) ==
    /\ pc[a] = "started"
    /\ slots' = IF future[hand[a].task] # NoAgent
                  THEN [slots EXCEPT ![a] = @ - 1] ELSE slots
    /\ pc' = [pc EXCEPT ![a] = "idle"]
    /\ hand' = [hand EXCEPT ![a] = Nothing]
    /\ UNCHANGED <<to, rows, queue, holder, completed, failed, future, awaited, job>>

\* VALID_TRANSITIONS to done and failed: what is assigned may fail, also before it is started.
MayBecome(status, result) == status = "running" \/ (status = "assigned" /\ result = "failed")

\* handle_task_status: the row is read, and may end or not ...
TaskStatus(t, a, result) ==
    /\ pc[a] = "idle"
    /\ job[t][a] = "started" \/ (job[t][a] = "sent" /\ result = "failed")
    /\ job' = [job EXCEPT ![t][a] = "reported"]
    /\ IF MayBecome(row[t], result)
         THEN /\ pc' = [pc EXCEPT ![a] = result]
              /\ hand' = [hand EXCEPT ![a] = Holding(t, a)]
         ELSE UNCHANGED <<pc, hand>>
    /\ UNCHANGED <<graphVars, rows>>

\* ... it is written, whatever it is by now ...
UpdateRow(a) ==
    /\ pc[a] \in {"done", "failed"}
    /\ row' = [row EXCEPT ![hand[a].task] = pc[a]]
    /\ pc' = [pc EXCEPT ![a] = IF @ = "done" THEN "verified" ELSE "cascade"]
    /\ UNCHANGED <<graphVars, rowTo, job, hand>>

\* ... and after the verification or the log the coordinator hears of it.
OnDone(a) ==
    /\ pc[a] = "verified"
    /\ UNCHANGED <<to, rows, failed, future, job>>
    /\ OnComplete(a, {hand[a].task})

\* on_task_failed: the direct dependents fail with the task.
OnFailed(a) ==
    LET t == hand[a].task IN
    /\ pc[a] = "cascade"
    /\ failed' = failed \cup {t} \cup {u \in Tasks : t \in DependsOn[u]}
    /\ slots' = SlotsBack({t})
    /\ holder' = Released({t})
    /\ pc' = [pc EXCEPT ![a] = "idle"]
    /\ hand' = [hand EXCEPT ![a] = Nothing]
    /\ UNCHANGED <<to, rows, queue, completed, future, awaited, job>>

-----------------------------------------------------------------------------

DispatchStep(d) ==
    \/ \E a \in Agents : PickFree(d, a) \/ CountRows(d, a)
    \/ UseCount(d)
    \/ NoneFree(d)
    \/ Assigned(d)

LoopStep == ExecuteGraph \/ Wake

HandlerStep(a) == TrackSlot(a) \/ UpdateRow(a) \/ OnDone(a) \/ OnFailed(a)

AgentReports(a) ==
    \E t \in Tasks :
        TaskStarted(t, a) \/ \E result \in {"done", "failed"} : TaskStatus(t, a, result)

Next ==
    \/ \E d \in Dispatchers : DispatchStep(d)
    \/ LoopStep
    \/ \E t \in Tasks, a \in Agents : Send(t, a)
    \/ \E a \in Agents : HandlerStep(a)
    \/ \E a \in Reporters : AgentReports(a)

Spec == Init /\ [][Next]_vars

\* The event loop runs what can run; agents need not report anything.
Fairness ==
    /\ WF_vars(LoopStep)
    /\ \A d \in Dispatchers : WF_vars(DispatchStep(d))
    /\ \A a \in Agents : WF_vars(HandlerStep(a))
    /\ \A t \in Tasks, a \in Agents : WF_vars(Send(t, a))

FairSpec == Spec /\ Fairness

-----------------------------------------------------------------------------
(* Properties.                                                              *)

Jobs == {"none", "sending", "sent", "started", "reported"}
Places == {"start", "idle", "pick", "count", "assign", "wait", "started", "done",
           "failed", "verified", "cascade"}
Hands == [task : Tasks \cup {NoTask}, agent : Agents \cup {NoAgent},
          free : Int, tried : SUBSET Agents]

\* The variables have their types.
TypeOK ==
    /\ to \in [Tasks -> Agents \cup {NoAgent}]
    /\ row \in [Tasks -> {"pending", "assigned", "running", "done", "failed"}]
    /\ rowTo \in [Tasks -> Agents \cup {NoAgent}]
    /\ queue \in [Tasks -> Nat]
    /\ slots \in [Agents -> Int]
    /\ holder \in [Paths -> Tasks \cup {NoTask}]
    /\ completed \subseteq Tasks
    /\ failed \subseteq Tasks
    /\ future \in [Tasks -> Agents \cup {NoAgent}]
    /\ awaited \subseteq Tasks \X Agents
    /\ job \in [Tasks -> [Agents -> Jobs]]
    /\ pc \in [Dispatchers -> Places]
    /\ hand \in [Dispatchers -> Hands]

InHand(t) == \E d \in Dispatchers : hand[d].task = t

\* However the loop and the handlers interleave, and however often a task is
\* queued, it is handed out only after each of its dependencies has counted as
\* completed, even when they fail later (task_parallel_events.py:27-31).
ReadyOnly ==
    \A t \in Tasks :
        queue[t] > 0 \/ InHand(t) \/ to[t] # NoAgent => DependsOn[t] \subseteq completed

BeingSent == {hand[d].task : d \in {e \in Dispatchers : pc[e] = "assign"}}

\* No path stays locked for a task nobody knows of: the task of a lock is about
\* to be sent or has a future in the table, whose completion gives the lock
\* back, whatever double dispatches, early reports and failures release in
\* between (task_parallel.py:58-68).
NoOrphanLock ==
    \A p \in Paths : holder[p] # NoTask =>
        \/ future[holder[p]] # NoAgent
        \/ holder[p] \in BeingSent

\* execute_graph returns, even if no agent ever answers and even if handlers
\* overwrite futures it waits for (task_parallel.py:44-55).
Returns == <>(pc[Loop] = "done")

\* task_parallel.py:37: tasks run in parallel where dependencies allow.
RunsAfterDeps ==
    \A t \in Tasks, a \in Agents :
        job[t][a] = "started" => \A u \in DependsOn[t] : row[u] = "done"

=============================================================================
