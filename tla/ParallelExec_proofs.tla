------------------------- MODULE ParallelExec_proofs --------------------------
(***************************************************************************)
(* The parallel execution keeps its types, hands a task out only after its   *)
(* dependencies have counted as completed, and leaves no path locked for a   *)
(* task it no longer lists: for every task graph and every set of agents.    *)
(***************************************************************************)
EXTENDS ParallelExec, FiniteSetTheorems, TLAPS

\* What a suspended dispatcher holds: a task wherever it will use one, and a
\* candidate where it will use that. A handler's task is one it was sent.
Fits(d, place, h) ==
    /\ place \notin {"start", "idle", "wait"} /\ (d # Loop \/ place # "done")
         => h.task \in Tasks
    /\ place \in {"count", "assign"} => h.agent \in Agents

HandInv == \A d \in Dispatchers : Fits(d, pc[d], hand[d])

TypeInv == TypeOK /\ HandInv

-----------------------------------------------------------------------------
(* The helpers.                                                             *)

\* The number of tasks with some property is a natural number.
LEMMA Counts ==
    ASSUME NEW S \in SUBSET Tasks
    PROVE  Cardinality(S) \in Nat /\ (Cardinality(S) > 0 => S # {})
<1>1. IsFiniteSet(S)
  BY TasksAssumption, FS_Subset
<1> QED
  BY <1>1, FS_CardinalityType, FS_EmptySet

\* What one turn through dispatch_ready leaves: a queue that grows nowhere, and
\* a dispatcher that is done or deals with a task of the queue.
LEMMA DispatchEffect ==
    ASSUME TypeOK, future' \in [Tasks -> Agents \cup {NoAgent}],
           NEW d \in Dispatchers, NEW q \in [Tasks -> Nat], Dispatch(d, q)
    PROVE  /\ queue' \in [Tasks -> Nat]
           /\ \A t \in Tasks : queue'[t] > 0 => q[t] > 0
           /\ awaited' \subseteq Tasks \X Agents
           /\ \/ /\ hand' = [hand EXCEPT ![d] = Nothing]
                 /\ \/ d # Loop /\ pc' = [pc EXCEPT ![d] = "idle"]
                    \/ d = Loop /\ pc' = [pc EXCEPT ![d] = "done"]
                    \/ d = Loop /\ pc' = [pc EXCEPT ![d] = "wait"]
              \/ \E t \in Tasks :
                    /\ q[t] > 0
                    /\ hand' = [hand EXCEPT ![d] = Holding(t, NoAgent)]
                    /\ pc' = [pc EXCEPT ![d] = "pick"]
<1> USE TasksAssumption DEF TypeOK
<1> DEFINE ready == {t \in Tasks : q[t] > 0 /\ to[t] = NoAgent}
<1>1. CASE /\ queue' = [t \in Tasks |-> 0]
           /\ Leaves(d)
  <2> DEFINE running == {t \in Tasks : future'[t] # NoAgent}
  <2>1. {<<t, future'[t]>> : t \in running} \subseteq Tasks \X Agents
    <3>1. \A t \in running : t \in Tasks /\ future'[t] \in Agents
      OBVIOUS
    <3> HIDE DEF running
    <3> QED
      BY <3>1
  <2>2. awaited' \subseteq Tasks \X Agents
    BY <1>1, <2>1 DEF Leaves
  <2>3. hand' = [hand EXCEPT ![d] = Nothing]
    BY <1>1 DEF Leaves
  <2>4. \/ d # Loop /\ pc' = [pc EXCEPT ![d] = "idle"]
        \/ d = Loop /\ pc' = [pc EXCEPT ![d] = "done"]
        \/ d = Loop /\ pc' = [pc EXCEPT ![d] = "wait"]
    <3> DEFINE next == IF d # Loop THEN "idle"
                       ELSE IF running = {} THEN "done" ELSE "wait"
    <3>1. pc' = [pc EXCEPT ![d] = next]
      BY <1>1 DEF Leaves
    <3> QED
      BY <3>1
  <2>5. queue' \in [Tasks -> Nat] /\ \A t \in Tasks : ~(queue'[t] > 0)
    BY <1>1
  <2> QED
    BY <2>2, <2>3, <2>4, <2>5
<1>2. ASSUME NEW next \in ready,
             queue' = [t \in Tasks |-> IF t < next THEN 0
                                       ELSE IF t = next THEN q[t] - 1 ELSE q[t]],
             hand' = [hand EXCEPT ![d] = Holding(next, NoAgent)],
             pc' = [pc EXCEPT ![d] = "pick"],
             awaited' = IF d = Loop THEN {} ELSE awaited
      PROVE  /\ queue' \in [Tasks -> Nat]
             /\ \A t \in Tasks : queue'[t] > 0 => q[t] > 0
             /\ awaited' \subseteq Tasks \X Agents
             /\ next \in Tasks /\ q[next] > 0
  BY <1>2
<1> QED
  BY <1>1, <1>2 DEF Dispatch

\* The hands a dispatcher may have.
LEMMA HoldingType ==
    /\ Nothing \in Hands
    /\ \A t \in Tasks, a \in Agents \cup {NoAgent} :
          /\ Holding(t, a) \in Hands
          /\ Holding(t, a).task = t
          /\ Holding(t, a).agent = a
BY DEF Nothing, Holding, Hands

\* A dispatcher that moves to a place with what fits there, and no other.
LEMMA Turn ==
    ASSUME TypeInv, NEW d \in Dispatchers, NEW place \in Places, NEW h \in Hands,
           Fits(d, place, h),
           pc' = [pc EXCEPT ![d] = place], hand' = [hand EXCEPT ![d] = h]
    PROVE  /\ pc' \in [Dispatchers -> Places]
           /\ hand' \in [Dispatchers -> Hands]
           /\ HandInv'
<1>1. /\ pc' \in [Dispatchers -> Places]
      /\ hand' \in [Dispatchers -> Hands]
      /\ \A e \in Dispatchers \ {d} : pc'[e] = pc[e] /\ hand'[e] = hand[e]
      /\ pc'[d] = place /\ hand'[d] = h
  BY DEF TypeInv, TypeOK
<1> QED
  BY <1>1 DEF TypeInv, HandInv, Fits

\* A turn through dispatch_ready keeps what dispatchers hold well-typed.
LEMMA DispatchType ==
    ASSUME TypeInv, future' \in [Tasks -> Agents \cup {NoAgent}],
           NEW d \in Dispatchers, NEW q \in [Tasks -> Nat], Dispatch(d, q)
    PROVE  /\ queue' \in [Tasks -> Nat]
           /\ awaited' \subseteq Tasks \X Agents
           /\ pc' \in [Dispatchers -> Places]
           /\ hand' \in [Dispatchers -> Hands]
           /\ HandInv'
<1>1. TypeOK
  BY DEF TypeInv
<1>2. ASSUME NEW place \in {"idle", "done", "wait"}, place = "done" => d = Loop,
             hand' = [hand EXCEPT ![d] = Nothing], pc' = [pc EXCEPT ![d] = place]
      PROVE  /\ pc' \in [Dispatchers -> Places]
             /\ hand' \in [Dispatchers -> Hands]
             /\ HandInv'
  <2>1. Fits(d, place, Nothing) /\ place \in Places
    BY <1>2 DEF Fits, Places
  <2> QED
    BY <1>2, <2>1, HoldingType, Turn
<1>3. ASSUME NEW t \in Tasks,
             hand' = [hand EXCEPT ![d] = Holding(t, NoAgent)],
             pc' = [pc EXCEPT ![d] = "pick"]
      PROVE  /\ pc' \in [Dispatchers -> Places]
             /\ hand' \in [Dispatchers -> Hands]
             /\ HandInv'
  <2>1. Fits(d, "pick", Holding(t, NoAgent)) /\ "pick" \in Places
    BY HoldingType DEF Fits, Places
  <2> QED
    BY <1>3, <2>1, HoldingType, Turn
<1> QED
  BY <1>1, <1>2, <1>3, DispatchEffect

\* Marking a node and locking its paths keeps the types, and so does reporting
\* the task as blocked.
LEMMA AssignTaskType ==
    ASSUME TypeInv, future' \in [Tasks -> Agents \cup {NoAgent}],
           NEW d \in Dispatchers, NEW a \in Agents, pc[d] \in {"pick", "count"},
           AssignTask(d, a)
    PROVE  /\ to' \in [Tasks -> Agents \cup {NoAgent}]
           /\ holder' \in [Paths -> Tasks \cup {NoTask}]
           /\ queue' \in [Tasks -> Nat]
           /\ awaited' \subseteq Tasks \X Agents
           /\ pc' \in [Dispatchers -> Places]
           /\ hand' \in [Dispatchers -> Hands]
           /\ HandInv'
<1> DEFINE t == hand[d].task
<1>1. t \in Tasks /\ queue \in [Tasks -> Nat]
  BY DEF TypeInv, TypeOK, HandInv, Fits
<1>2. CASE Acquirable(t)
  <2>1. /\ to' \in [Tasks -> Agents \cup {NoAgent}]
        /\ holder' \in [Paths -> Tasks \cup {NoTask}]
        /\ queue' \in [Tasks -> Nat]
        /\ awaited' \subseteq Tasks \X Agents
    <3>1. /\ to' = [to EXCEPT ![t] = a]
          /\ holder' = [p \in Paths |-> IF p \in Artifacts[t] THEN t ELSE holder[p]]
          /\ queue' = queue /\ awaited' = awaited
      BY <1>2 DEF AssignTask
    <3>2. /\ to \in [Tasks -> Agents \cup {NoAgent}]
          /\ holder \in [Paths -> Tasks \cup {NoTask}]
          /\ awaited \subseteq Tasks \X Agents
      BY DEF TypeInv, TypeOK
    <3> HIDE DEF t
    <3> QED
      BY <1>1, <3>1, <3>2
  <2>2. /\ hand' = [hand EXCEPT ![d] = Holding(t, a)]
        /\ pc' = [pc EXCEPT ![d] = "assign"]
    BY <1>2 DEF AssignTask
  <2>3. Fits(d, "assign", Holding(t, a)) /\ "assign" \in Places
    BY <1>1, HoldingType DEF Fits, Places
  <2> QED
    BY <1>1, <2>1, <2>2, <2>3, HoldingType, Turn
<1>3. CASE ~Acquirable(t)
  <2>1. Dispatch(d, queue) /\ UNCHANGED <<holder, to>>
    BY <1>3 DEF AssignTask
  <2> QED
    BY <1>1, <2>1, DispatchType DEF TypeInv, TypeOK
<1> QED
  BY <1>2, <1>3

\* Giving back slots and locks keeps the types.
LEMMA GiveBackType ==
    ASSUME TypeOK, NEW T \in SUBSET Tasks
    PROVE  /\ SlotsBack(T) \in [Agents -> Int]
           /\ Released(T) \in [Paths -> Tasks \cup {NoTask}]
<1>1. \A a \in Agents : Cardinality({t \in T : to[t] = a}) \in Nat
  BY Counts
<1> QED
  BY <1>1 DEF SlotsBack, Released, TypeOK

\* The entries that completions put in the queue.
LEMMA NewEntriesEffect ==
    ASSUME NEW T \in SUBSET Tasks, NEW order, NEW u \in Tasks
    PROVE  /\ NewEntries(u, T, order) \in Nat
           /\ NewEntries(u, T, order) > 0 => DependsOn[u] \subseteq completed \cup T
<1> DEFINE after == {t \in T :
             DepsMet(u, completed \cup {s \in T : order[s] <= order[t]})}
<1>1. after \subseteq Tasks
  OBVIOUS
<1>2. Cardinality(after) \in Nat /\ (Cardinality(after) > 0 => after # {})
  BY <1>1, Counts
<1>3. after # {} => DependsOn[u] \subseteq completed \cup T
  BY DEF DepsMet
<1> HIDE DEF after
<1>4. NewEntries(u, T, order) = 0 \/ NewEntries(u, T, order) = Cardinality(after)
  BY DEF NewEntries, after
<1> QED
  BY <1>2, <1>3, <1>4

\* Completions keep the types.
LEMMA OnCompleteType ==
    ASSUME TypeInv, future' \in [Tasks -> Agents \cup {NoAgent}],
           NEW d \in Dispatchers, NEW T \in SUBSET Tasks, OnComplete(d, T)
    PROVE  /\ completed' \subseteq Tasks
           /\ slots' \in [Agents -> Int]
           /\ holder' \in [Paths -> Tasks \cup {NoTask}]
           /\ queue' \in [Tasks -> Nat]
           /\ awaited' \subseteq Tasks \X Agents
           /\ pc' \in [Dispatchers -> Places]
           /\ hand' \in [Dispatchers -> Hands]
           /\ HandInv'
<1>1. /\ completed' \subseteq Tasks
      /\ slots' \in [Agents -> Int]
      /\ holder' \in [Paths -> Tasks \cup {NoTask}]
  BY GiveBackType DEF OnComplete, TypeInv, TypeOK
<1>2. PICK order \in Orders(T) :
          Dispatch(d, [u \in Tasks |-> queue[u] + NewEntries(u, T, order)])
  BY DEF OnComplete
<1>3. [u \in Tasks |-> queue[u] + NewEntries(u, T, order)] \in [Tasks -> Nat]
  <2>1. \A u \in Tasks : NewEntries(u, T, order) \in Nat
    BY NewEntriesEffect
  <2>2. \A u \in Tasks : queue[u] \in Nat
    BY DEF TypeInv, TypeOK
  <2> QED
    BY <2>1, <2>2
<1> QED
  BY <1>1, <1>2, <1>3, DispatchType

-----------------------------------------------------------------------------
(* Type correctness.                                                        *)

\* The steps of a dispatcher keep the types.
LEMMA DispatchStepType ==
    ASSUME TypeInv, NEW d \in Dispatchers, DispatchStep(d)
    PROVE  TypeInv'
<1> USE DEF rows, graphVars
<1>1. ASSUME NEW a \in Agents, PickFree(d, a) PROVE TypeInv'
  BY <1>1, AssignTaskType DEF PickFree, TypeInv, TypeOK
<1>2. ASSUME NEW a \in Agents, CountRows(d, a) PROVE TypeInv'
  <2> DEFINE active == {t \in Tasks : rowTo[t] = a /\ row[t] \in {"assigned", "running"}}
             n == MaxConcurrent[a] - Cardinality(active)
             h == [hand[d] EXCEPT !.agent = a, !.free = n]
  <2>1. active \subseteq Tasks
    OBVIOUS
  <2>2. n \in Int
    BY <2>1, Counts, GraphAssumption
  <2>3. hand[d].task \in Tasks /\ hand[d] \in Hands
    BY <1>2 DEF CountRows, TypeInv, TypeOK, HandInv, Fits
  <2>4. hand' = [hand EXCEPT ![d] = h] /\ pc' = [pc EXCEPT ![d] = "count"]
    BY <1>2, <2>3 DEF CountRows, TypeInv, TypeOK
  <2> HIDE DEF n
  <2>5. h \in Hands /\ h.task \in Tasks /\ h.agent = a
    BY <2>2, <2>3 DEF Hands
  <2>6. Fits(d, "count", h) /\ "count" \in Places
    BY <2>5 DEF Fits, Places
  <2>7. /\ pc' \in [Dispatchers -> Places]
        /\ hand' \in [Dispatchers -> Hands]
        /\ HandInv'
    BY <2>4, <2>5, <2>6, Turn
  <2> QED
    BY <1>2, <2>7 DEF CountRows, TypeInv, TypeOK
<1>3. CASE UseCount(d)
  <2> DEFINE a == hand[d].agent
  <2>1. /\ pc[d] = "count" /\ a \in Agents /\ hand[d].free \in Int
        /\ hand[d].task \in Tasks /\ hand[d].tried \subseteq Agents
    BY <1>3 DEF UseCount, TypeInv, TypeOK, HandInv, Fits, Hands
  <2>2. /\ slots' \in [Agents -> Int]
        /\ future' \in [Tasks -> Agents \cup {NoAgent}]
    BY <1>3, <2>1 DEF UseCount, TypeInv, TypeOK
  <2>3. CASE AssignTask(d, a)
    <3>1. /\ to' \in [Tasks -> Agents \cup {NoAgent}]
          /\ holder' \in [Paths -> Tasks \cup {NoTask}]
          /\ queue' \in [Tasks -> Nat]
          /\ awaited' \subseteq Tasks \X Agents
          /\ pc' \in [Dispatchers -> Places]
          /\ hand' \in [Dispatchers -> Hands]
          /\ HandInv'
      BY <2>1, <2>2, <2>3, AssignTaskType
    <3> QED
      BY <1>3, <2>2, <3>1 DEF UseCount, TypeInv, TypeOK
  <2>4. CASE ~(hand[d].free > 0)
    <3> DEFINE h == [Holding(hand[d].task, NoAgent) EXCEPT !.tried = hand[d].tried \cup {a}]
    <3>1. hand' = [hand EXCEPT ![d] = h] /\ pc' = [pc EXCEPT ![d] = "pick"]
      BY <1>3, <2>4 DEF UseCount
    <3>2. h \in Hands /\ Fits(d, "pick", h) /\ "pick" \in Places
      BY <2>1 DEF Holding, Hands, Fits, Places
    <3>3. /\ pc' \in [Dispatchers -> Places]
          /\ hand' \in [Dispatchers -> Hands]
          /\ HandInv'
      BY <3>1, <3>2, Turn
    <3> QED
      BY <1>3, <2>2, <2>4, <3>3 DEF UseCount, TypeInv, TypeOK
  <2> QED
    BY <1>3, <2>3, <2>4 DEF UseCount
<1>4. CASE NoneFree(d)
  <2>1. future' \in [Tasks -> Agents \cup {NoAgent}]
    BY <1>4 DEF NoneFree, TypeInv, TypeOK
  <2>2. PICK place \in {"idle", "done", "wait"} :
           /\ place = "done" => d = Loop
           /\ hand' = [hand EXCEPT ![d] = Nothing]
           /\ pc' = [pc EXCEPT ![d] = place]
    BY <1>4 DEF NoneFree, Leaves
  <2>3. Fits(d, place, Nothing) /\ place \in Places
    BY <2>2 DEF Fits, Places
  <2>4. /\ pc' \in [Dispatchers -> Places]
        /\ hand' \in [Dispatchers -> Hands]
        /\ HandInv'
    BY <2>2, <2>3, HoldingType, Turn
  <2>5. awaited' \subseteq Tasks \X Agents
    <3>1. {<<t, future'[t]>> : t \in {t \in Tasks : future'[t] # NoAgent}}
            \subseteq Tasks \X Agents
      BY <2>1
    <3> QED
      BY <1>4, <3>1 DEF NoneFree, Leaves, TypeInv, TypeOK
  <2>6. queue' \in [Tasks -> Nat]
    <3> DEFINE t == hand[d].task
    <3>1. queue' = [queue EXCEPT ![t] = queue[t] + 1] /\ queue \in [Tasks -> Nat]
      BY <1>4 DEF NoneFree, TypeInv, TypeOK
    <3>2. t \in Tasks
      BY <1>4 DEF NoneFree, TypeInv, HandInv, Fits
    <3> HIDE DEF t
    <3> QED
      BY <3>1, <3>2
  <2> QED
    BY <1>4, <2>4, <2>5, <2>6 DEF NoneFree, TypeInv, TypeOK
<1>5. CASE Assigned(d)
  <2>1. hand[d].agent \in Agents /\ hand[d].task \in Tasks
    BY <1>5 DEF Assigned, TypeInv, HandInv, Fits
  <2>2. /\ row' \in [Tasks -> {"pending", "assigned", "running", "done", "failed"}]
        /\ rowTo' \in [Tasks -> Agents \cup {NoAgent}]
        /\ slots' \in [Agents -> Int]
        /\ future' \in [Tasks -> Agents \cup {NoAgent}]
        /\ job' \in [Tasks -> [Agents -> Jobs]]
    BY <1>5, <2>1 DEF Assigned, TypeInv, TypeOK, Jobs
  <2>3. /\ queue' \in [Tasks -> Nat]
        /\ awaited' \subseteq Tasks \X Agents
        /\ pc' \in [Dispatchers -> Places]
        /\ hand' \in [Dispatchers -> Hands]
        /\ HandInv'
    <3>1. queue \in [Tasks -> Nat] /\ Dispatch(d, queue)
      BY <1>5 DEF Assigned, TypeInv, TypeOK
    <3> QED
      BY <2>2, <3>1, DispatchType
  <2> QED
    BY <1>5, <2>2, <2>3 DEF Assigned, TypeInv, TypeOK
<1> QED
  BY <1>1, <1>2, <1>3, <1>4, <1>5 DEF DispatchStep

\* The steps of the loop of execute_graph keep the types.
LEMMA LoopStepType ==
    ASSUME TypeInv, LoopStep
    PROVE  TypeInv'
<1>0. Loop \in Dispatchers
  BY DEF Dispatchers
<1>1. CASE ExecuteGraph
  <2> DEFINE q == [t \in Tasks |-> IF DependsOn[t] = {} THEN 1 ELSE 0]
  <2>1. q \in [Tasks -> Nat] /\ Dispatch(Loop, q)
    BY <1>1 DEF ExecuteGraph
  <2>2. future' \in [Tasks -> Agents \cup {NoAgent}]
    BY <1>1 DEF ExecuteGraph, TypeInv, TypeOK
  <2> HIDE DEF q
  <2>3. /\ queue' \in [Tasks -> Nat]
        /\ awaited' \subseteq Tasks \X Agents
        /\ pc' \in [Dispatchers -> Places]
        /\ hand' \in [Dispatchers -> Hands]
        /\ HandInv'
    BY <1>0, <2>1, <2>2, DispatchType
  <2> QED
    BY <1>1, <2>3 DEF ExecuteGraph, TypeInv, TypeOK, rows
<1>2. CASE Wake
  <2> DEFINE done == {f \in awaited : job[f[1]][f[2]] # "sending"}
             T    == {t \in Tasks : <<t, future[t]>> \in done}
  <2>1. T \subseteq Tasks
    OBVIOUS
  <2>2. future' \in [Tasks -> Agents \cup {NoAgent}]
    BY <1>2 DEF Wake, TypeInv, TypeOK
  <2>3. CASE OnComplete(Loop, T)
    <3> HIDE DEF T
    <3>1. /\ completed' \subseteq Tasks
          /\ slots' \in [Agents -> Int]
          /\ holder' \in [Paths -> Tasks \cup {NoTask}]
          /\ queue' \in [Tasks -> Nat]
          /\ awaited' \subseteq Tasks \X Agents
          /\ pc' \in [Dispatchers -> Places]
          /\ hand' \in [Dispatchers -> Hands]
          /\ HandInv'
      BY <1>0, <2>1, <2>2, <2>3, OnCompleteType
    <3> QED
      BY <1>2, <2>2, <3>1 DEF Wake, TypeInv, TypeOK, rows
  <2>4. CASE /\ completed' = completed \cup T
             /\ slots' = SlotsBack(T)
             /\ holder' = Released(T)
             /\ pc' = [pc EXCEPT ![Loop] = "done"]
             /\ awaited' = {}
             /\ UNCHANGED <<queue, hand>>
    <3> HIDE DEF T
    <3>1. /\ pc' \in [Dispatchers -> Places]
          /\ HandInv'
      BY <1>0, <2>4 DEF TypeInv, TypeOK, HandInv, Fits, Places
    <3>2. /\ slots' \in [Agents -> Int]
          /\ holder' \in [Paths -> Tasks \cup {NoTask}]
      BY <2>1, <2>4, GiveBackType DEF TypeInv
    <3> QED
      BY <1>2, <2>1, <2>2, <2>4, <3>1, <3>2 DEF Wake, TypeInv, TypeOK, rows
  <2> QED
    BY <1>2, <2>3, <2>4 DEF Wake
<1> QED
  BY <1>1, <1>2 DEF LoopStep

\* The steps of the handlers and of the agents keep the types.
LEMMA HandlerType ==
    ASSUME TypeInv, NEW a \in Agents, HandlerStep(a) \/ AgentReports(a)
    PROVE  TypeInv'
<1> DEFINE t == hand[a].task
<1>0. a \in Dispatchers /\ a # Loop
  BY AgentsAssumption DEF Dispatchers
<1>h. pc[a] \in {"started", "done", "failed", "verified", "cascade"} => t \in Tasks
  BY <1>0 DEF TypeInv, HandInv, Fits
<1> USE DEF rows, graphVars
<1>1. ASSUME NEW place \in {"idle"}, pc' = [pc EXCEPT ![a] = place],
             hand' = [hand EXCEPT ![a] = Nothing]
      PROVE  /\ pc' \in [Dispatchers -> Places]
             /\ hand' \in [Dispatchers -> Hands]
             /\ HandInv'
  <2>1. Fits(a, place, Nothing) /\ place \in Places
    BY DEF Fits, Places
  <2> QED
    BY <1>0, <1>1, <2>1, HoldingType, Turn
<1>2. ASSUME NEW u \in Tasks, NEW place \in {"started", "done", "failed"},
             pc' = [pc EXCEPT ![a] = place],
             hand' = [hand EXCEPT ![a] = Holding(u, a)]
      PROVE  /\ pc' \in [Dispatchers -> Places]
             /\ hand' \in [Dispatchers -> Hands]
             /\ HandInv'
  <2>1. Fits(a, place, Holding(u, a)) /\ place \in Places
    BY HoldingType DEF Fits, Places
  <2> QED
    BY <1>0, <1>2, <2>1, HoldingType, Turn
<1>3. CASE TrackSlot(a)
  <2>1. slots' \in [Agents -> Int]
    BY <1>3 DEF TrackSlot, TypeInv, TypeOK
  <2> QED
    BY <1>1, <1>3, <2>1 DEF TrackSlot, TypeInv, TypeOK
<1>4. CASE UpdateRow(a)
  <2>1. row' \in [Tasks -> {"pending", "assigned", "running", "done", "failed"}]
    BY <1>4, <1>h DEF UpdateRow, TypeInv, TypeOK
  <2>2. PICK place \in {"verified", "cascade"} : pc' = [pc EXCEPT ![a] = place]
    BY <1>4 DEF UpdateRow
  <2>3. /\ pc' \in [Dispatchers -> Places]
        /\ pc'[a] = place
        /\ \A e \in Dispatchers \ {a} : pc'[e] = pc[e]
    BY <1>0, <2>2 DEF TypeInv, TypeOK, Places
  <2>4. HandInv'
    BY <1>0, <1>4, <1>h, <2>3 DEF UpdateRow, TypeInv, HandInv, Fits
  <2> QED
    BY <1>4, <2>1, <2>3, <2>4 DEF UpdateRow, TypeInv, TypeOK
<1>5. CASE OnDone(a)
  <2>1. /\ {t} \in SUBSET Tasks
        /\ OnComplete(a, {t})
        /\ future' \in [Tasks -> Agents \cup {NoAgent}]
    BY <1>5, <1>h DEF OnDone, TypeInv, TypeOK
  <2>2. /\ completed' \subseteq Tasks
        /\ slots' \in [Agents -> Int]
        /\ holder' \in [Paths -> Tasks \cup {NoTask}]
        /\ queue' \in [Tasks -> Nat]
        /\ awaited' \subseteq Tasks \X Agents
        /\ pc' \in [Dispatchers -> Places]
        /\ hand' \in [Dispatchers -> Hands]
        /\ HandInv'
    <3> HIDE DEF t
    <3> QED
      BY <1>0, <2>1, OnCompleteType
  <2> QED
    BY <1>5, <2>2 DEF OnDone, TypeInv, TypeOK
<1>6. CASE OnFailed(a)
  <2>1. {t} \in SUBSET Tasks
    BY <1>6, <1>h DEF OnFailed
  <2>2. slots' \in [Agents -> Int] /\ holder' \in [Paths -> Tasks \cup {NoTask}]
    BY <1>6, <2>1, GiveBackType DEF OnFailed, TypeInv
  <2>3. failed' \subseteq Tasks
    BY <1>6, <2>1 DEF OnFailed, TypeInv, TypeOK
  <2> QED
    BY <1>1, <1>6, <2>2, <2>3 DEF OnFailed, TypeInv, TypeOK
<1>7. ASSUME NEW u \in Tasks, TaskStarted(u, a) PROVE TypeInv'
  <2>1. /\ job' \in [Tasks -> [Agents -> Jobs]]
        /\ row' \in [Tasks -> {"pending", "assigned", "running", "done", "failed"}]
    BY <1>7 DEF TaskStarted, TypeInv, TypeOK, Jobs
  <2> QED
    BY <1>2, <1>7, <2>1 DEF TaskStarted, TypeInv, TypeOK
<1>8. ASSUME NEW u \in Tasks, NEW result \in {"done", "failed"}, TaskStatus(u, a, result)
      PROVE  TypeInv'
  <2>1. job' \in [Tasks -> [Agents -> Jobs]]
    BY <1>8 DEF TaskStatus, TypeInv, TypeOK, Jobs
  <2>2. CASE UNCHANGED <<pc, hand>>
    BY <1>8, <2>1, <2>2 DEF TaskStatus, TypeInv, TypeOK, HandInv, Fits
  <2>3. CASE /\ pc' = [pc EXCEPT ![a] = result]
             /\ hand' = [hand EXCEPT ![a] = Holding(u, a)]
    BY <1>2, <1>8, <2>1, <2>3 DEF TaskStatus, TypeInv, TypeOK
  <2> QED
    BY <1>8, <2>2, <2>3 DEF TaskStatus
<1> QED
  BY <1>3, <1>4, <1>5, <1>6, <1>7, <1>8 DEF HandlerStep, AgentReports

\* Every step keeps the types.
LEMMA NextType == TypeInv /\ [Next]_vars => TypeInv'
<1> SUFFICES ASSUME TypeInv, [Next]_vars PROVE TypeInv'
  OBVIOUS
<1>1. ASSUME NEW t \in Tasks, NEW a \in Agents, Send(t, a) PROVE TypeInv'
  BY <1>1 DEF Send, graphVars, rows, TypeInv, TypeOK, HandInv, Fits, Jobs
<1>2. CASE UNCHANGED vars
  BY <1>2 DEF vars, graphVars, rows, TypeInv, TypeOK, HandInv, Fits
<1> QED
  BY <1>1, <1>2, DispatchStepType, LoopStepType, HandlerType, GraphAssumption DEF Next

\* The initial state has the types.
LEMMA InitType == Init => TypeInv
<1> SUFFICES ASSUME Init PROVE TypeInv
  OBVIOUS
<1>1. HandInv /\ pc \in [Dispatchers -> Places]
  BY DEF Init, HandInv, Fits, Places
<1>2. hand \in [Dispatchers -> Hands]
  BY HoldingType DEF Init
<1> QED
  BY <1>1, <1>2 DEF Init, TypeInv, TypeOK, Jobs

\* The variables of the parallel execution have their types, and whoever is
\* suspended with a task or a candidate has one.
THEOREM TypeCorrect == Spec => [](TypeOK /\ HandInv)
BY InitType, NextType, PTL DEF Spec, TypeInv

-----------------------------------------------------------------------------
(* Tasks are handed out when they are ready.                                *)

\* ReadyOnly speaks of queues, hands and nodes; that an agent is only ever sent
\* what was ready closes the circle, for a handler's task comes from an agent.
ReadyInv ==
    /\ \A t \in Tasks : queue[t] > 0 => DependsOn[t] \subseteq completed
    /\ \A t \in Tasks, d \in Dispatchers :
          hand[d].task = t => DependsOn[t] \subseteq completed
    /\ \A t \in Tasks : to[t] # NoAgent => DependsOn[t] \subseteq completed
    /\ \A t \in Tasks, a \in Agents :
          job[t][a] # "none" => DependsOn[t] \subseteq completed

\* A turn through dispatch_ready takes ready tasks from a queue of ready tasks.
LEMMA DispatchReady ==
    ASSUME TypeInv, ReadyInv, future' \in [Tasks -> Agents \cup {NoAgent}],
           completed \subseteq completed',
           NEW d \in Dispatchers, NEW q \in [Tasks -> Nat], Dispatch(d, q),
           \A t \in Tasks : q[t] > 0 => DependsOn[t] \subseteq completed'
    PROVE  /\ \A t \in Tasks : queue'[t] > 0 => DependsOn[t] \subseteq completed'
           /\ \A t \in Tasks, e \in Dispatchers :
                 hand'[e].task = t => DependsOn[t] \subseteq completed'
<1>1. TypeOK
  BY DEF TypeInv
<1>2. \A t \in Tasks : queue'[t] > 0 => DependsOn[t] \subseteq completed'
  BY <1>1, DispatchEffect
<1>3. PICK h \in Hands :
         /\ hand' = [hand EXCEPT ![d] = h]
         /\ \A t \in Tasks : h.task = t => DependsOn[t] \subseteq completed'
  <2>1. Nothing.task \notin Tasks
    BY TasksAssumption DEF Nothing, Holding
  <2> QED
    BY <1>1, <2>1, DispatchEffect, HoldingType
<1>4. ASSUME NEW t \in Tasks, NEW e \in Dispatchers, hand'[e].task = t
      PROVE  DependsOn[t] \subseteq completed'
  BY <1>3, <1>4 DEF TypeInv, TypeOK, ReadyInv
<1> QED
  BY <1>2, <1>4

\* The same for a turn that follows completions.
LEMMA OnCompleteReady ==
    ASSUME TypeInv, ReadyInv, future' \in [Tasks -> Agents \cup {NoAgent}],
           NEW d \in Dispatchers, NEW T \in SUBSET Tasks, OnComplete(d, T)
    PROVE  /\ completed \subseteq completed'
           /\ \A t \in Tasks : queue'[t] > 0 => DependsOn[t] \subseteq completed'
           /\ \A t \in Tasks, e \in Dispatchers :
                 hand'[e].task = t => DependsOn[t] \subseteq completed'
<1>1. completed' = completed \cup T
  BY DEF OnComplete
<1>2. PICK order \in Orders(T) :
          Dispatch(d, [u \in Tasks |-> queue[u] + NewEntries(u, T, order)])
  BY DEF OnComplete
<1> DEFINE q == [u \in Tasks |-> queue[u] + NewEntries(u, T, order)]
<1>3. ASSUME NEW u \in Tasks
      PROVE  q[u] \in Nat /\ (q[u] > 0 => DependsOn[u] \subseteq completed')
  <2>1. /\ NewEntries(u, T, order) \in Nat
        /\ NewEntries(u, T, order) > 0 => DependsOn[u] \subseteq completed \cup T
    BY NewEntriesEffect
  <2>2. queue[u] \in Nat /\ (queue[u] > 0 => DependsOn[u] \subseteq completed)
    BY DEF TypeInv, TypeOK, ReadyInv
  <2> QED
    BY <1>1, <2>1, <2>2
<1>4. q \in [Tasks -> Nat] /\ Dispatch(d, q)
  BY <1>2, <1>3
<1> HIDE DEF q
<1> QED
  BY <1>1, <1>3, <1>4, DispatchReady

\* Marking a node marks one that is in a dispatcher's hand.
LEMMA AssignTaskReady ==
    ASSUME TypeInv, ReadyInv, future' \in [Tasks -> Agents \cup {NoAgent}],
           NEW d \in Dispatchers, NEW a \in Agents, pc[d] \in {"pick", "count"},
           AssignTask(d, a), UNCHANGED <<completed, job>>
    PROVE  ReadyInv'
<1> DEFINE t == hand[d].task
<1>1. t \in Tasks /\ DependsOn[t] \subseteq completed /\ queue \in [Tasks -> Nat]
  BY DEF TypeInv, TypeOK, HandInv, Fits, ReadyInv
<1>2. CASE Acquirable(t)
  <2>1. /\ to' = [to EXCEPT ![t] = a]
        /\ hand' = [hand EXCEPT ![d] = Holding(t, a)]
        /\ queue' = queue
    BY <1>2 DEF AssignTask
  <2>2. Holding(t, a).task = t
    BY DEF Holding
  <2> HIDE DEF t
  <2> QED
    BY <1>1, <2>1, <2>2 DEF ReadyInv, TypeInv, TypeOK
<1>3. CASE ~Acquirable(t)
  <2>1. Dispatch(d, queue) /\ UNCHANGED <<holder, to>>
    BY <1>3 DEF AssignTask
  <2>2. \A u \in Tasks : queue[u] > 0 => DependsOn[u] \subseteq completed'
    BY DEF ReadyInv
  <2>3. completed \subseteq completed'
    OBVIOUS
  <2>4. /\ \A u \in Tasks : queue'[u] > 0 => DependsOn[u] \subseteq completed'
        /\ \A u \in Tasks, e \in Dispatchers :
              hand'[e].task = u => DependsOn[u] \subseteq completed'
    BY <1>1, <2>1, <2>2, <2>3, DispatchReady
  <2> QED
    BY <2>1, <2>4 DEF ReadyInv
<1> QED
  BY <1>2, <1>3

\* Every step of the loop, of a dispatcher, of a handler and of an agent leaves
\* only ready tasks queued, held, marked and sent.
LEMMA NextReady == TypeInv /\ ReadyInv /\ [Next]_vars => ReadyInv'
<1> SUFFICES ASSUME TypeInv, ReadyInv, [Next]_vars PROVE ReadyInv'
  OBVIOUS
<1> USE DEF rows, graphVars
<1>0. TypeInv'
  BY NextType
<1>f. future' \in [Tasks -> Agents \cup {NoAgent}]
  BY <1>0 DEF TypeInv, TypeOK
<1>n. Nothing.task \notin Tasks
  BY TasksAssumption DEF Nothing, Holding
<1>1. ASSUME NEW d \in Dispatchers, DispatchStep(d) PROVE ReadyInv'
  <2>1. ASSUME NEW a \in Agents, PickFree(d, a) PROVE ReadyInv'
    <3>1. AssignTask(d, a) /\ pc[d] = "pick" /\ UNCHANGED <<completed, job>>
      BY <2>1 DEF PickFree
    <3> QED
      BY <1>f, <3>1, AssignTaskReady
  <2>2. ASSUME NEW a \in Agents, CountRows(d, a) PROVE ReadyInv'
    <3>1. \A e \in Dispatchers : hand'[e].task = hand[e].task
      BY <2>2 DEF CountRows, TypeInv, TypeOK, Hands
    <3> QED
      BY <2>2, <3>1 DEF CountRows, ReadyInv
  <2>3. CASE UseCount(d)
    <3> DEFINE a == hand[d].agent
    <3>1. pc[d] = "count" /\ a \in Agents /\ UNCHANGED <<completed, job>>
      BY <2>3 DEF UseCount, TypeInv, HandInv, Fits
    <3>2. CASE AssignTask(d, a)
      BY <1>f, <3>1, <3>2, AssignTaskReady
    <3>3. CASE ~(hand[d].free > 0)
      <4>1. \A e \in Dispatchers : hand'[e].task = hand[e].task
        <5> DEFINE h == [Holding(hand[d].task, NoAgent) EXCEPT
                           !.tried = hand[d].tried \cup {a}]
        <5>1. hand' = [hand EXCEPT ![d] = h]
          BY <2>3, <3>3 DEF UseCount
        <5>2. h.task = hand[d].task
          BY DEF Holding
        <5> HIDE DEF h
        <5> QED
          BY <5>1, <5>2 DEF TypeInv, TypeOK
      <4> QED
        BY <2>3, <3>3, <4>1 DEF UseCount, ReadyInv
    <3> QED
      BY <2>3, <3>2, <3>3 DEF UseCount
  <2>4. CASE NoneFree(d)
    <3> DEFINE t == hand[d].task
    <3>1. t \in Tasks /\ DependsOn[t] \subseteq completed
      BY <2>4 DEF NoneFree, TypeInv, HandInv, Fits, ReadyInv
    <3>2. /\ queue' = [queue EXCEPT ![t] = queue[t] + 1]
          /\ hand' = [hand EXCEPT ![d] = Nothing]
          /\ UNCHANGED <<to, job, completed>>
      BY <2>4 DEF NoneFree, Leaves
    <3> HIDE DEF t
    <3> QED
      BY <1>n, <3>1, <3>2 DEF ReadyInv, TypeInv, TypeOK
  <2>5. CASE Assigned(d)
    <3> DEFINE t == hand[d].task
               a == hand[d].agent
    <3>1. t \in Tasks /\ a \in Agents /\ DependsOn[t] \subseteq completed
      BY <2>5 DEF Assigned, TypeInv, HandInv, Fits, ReadyInv
    <3>2. /\ Dispatch(d, queue) /\ UNCHANGED <<to, completed>>
          /\ job' = [job EXCEPT ![t] = [job[t] EXCEPT ![a] = "sending"]]
      BY <2>5 DEF Assigned
    <3>3. queue \in [Tasks -> Nat] /\ completed \subseteq completed'
      BY <3>2 DEF TypeInv, TypeOK
    <3>4. \A u \in Tasks : queue[u] > 0 => DependsOn[u] \subseteq completed'
      BY <3>3 DEF ReadyInv
    <3>5. /\ \A u \in Tasks : queue'[u] > 0 => DependsOn[u] \subseteq completed'
          /\ \A u \in Tasks, e \in Dispatchers :
                hand'[e].task = u => DependsOn[u] \subseteq completed'
      BY <1>f, <3>2, <3>3, <3>4, DispatchReady
    <3> HIDE DEF t, a
    <3>6. \A u \in Tasks, b \in Agents :
              job'[u][b] # "none" => u = t \/ job[u][b] # "none"
      BY <3>1, <3>2 DEF TypeInv, TypeOK
    <3> QED
      BY <3>1, <3>2, <3>5, <3>6 DEF ReadyInv
  <2> QED
    BY <1>1, <2>1, <2>2, <2>3, <2>4, <2>5 DEF DispatchStep
<1>2. CASE LoopStep
  <2>0. Loop \in Dispatchers
    BY DEF Dispatchers
  <2>1. CASE ExecuteGraph
    <3> DEFINE q == [t \in Tasks |-> IF DependsOn[t] = {} THEN 1 ELSE 0]
    <3>1. /\ q \in [Tasks -> Nat] /\ Dispatch(Loop, q)
          /\ \A t \in Tasks : q[t] > 0 => DependsOn[t] \subseteq completed'
          /\ UNCHANGED <<to, job, completed>>
      BY <2>1 DEF ExecuteGraph
    <3> HIDE DEF q
    <3>2. completed \subseteq completed'
      BY <3>1
    <3>3. /\ \A u \in Tasks : queue'[u] > 0 => DependsOn[u] \subseteq completed'
          /\ \A u \in Tasks, e \in Dispatchers :
                hand'[e].task = u => DependsOn[u] \subseteq completed'
      BY <1>f, <2>0, <3>1, <3>2, DispatchReady
    <3> QED
      BY <3>1, <3>3 DEF ReadyInv
  <2>2. CASE Wake
    <3> DEFINE done == {f \in awaited : job[f[1]][f[2]] # "sending"}
               T    == {t \in Tasks : <<t, future[t]>> \in done}
    <3>1. T \in SUBSET Tasks /\ UNCHANGED <<to, job>>
      BY <2>2 DEF Wake
    <3>2. CASE OnComplete(Loop, T)
      <4> HIDE DEF T
      <4>1. /\ completed \subseteq completed'
            /\ \A t \in Tasks : queue'[t] > 0 => DependsOn[t] \subseteq completed'
            /\ \A t \in Tasks, e \in Dispatchers :
                  hand'[e].task = t => DependsOn[t] \subseteq completed'
        BY <1>f, <2>0, <3>1, <3>2, OnCompleteReady
      <4> QED
        BY <3>1, <4>1 DEF ReadyInv
    <3>3. CASE completed' = completed \cup T /\ UNCHANGED <<queue, hand>>
      BY <3>1, <3>3 DEF ReadyInv
    <3> QED
      BY <2>2, <3>2, <3>3 DEF Wake
  <2> QED
    BY <1>2, <2>1, <2>2 DEF LoopStep
<1>3. ASSUME NEW a \in Agents, HandlerStep(a) \/ AgentReports(a) PROVE ReadyInv'
  <2>0. a \in Dispatchers /\ a # Loop
    BY AgentsAssumption DEF Dispatchers
  <2>1. CASE TrackSlot(a)
    BY <1>n, <2>0, <2>1 DEF TrackSlot, ReadyInv, TypeInv, TypeOK
  <2>2. CASE UpdateRow(a)
    BY <2>2 DEF UpdateRow, ReadyInv
  <2>3. CASE OnDone(a)
    <3> DEFINE T == {hand[a].task}
    <3>1. T \in SUBSET Tasks /\ OnComplete(a, T) /\ UNCHANGED <<to, job>>
      BY <2>0, <2>3 DEF OnDone, TypeInv, HandInv, Fits
    <3> HIDE DEF T
    <3>2. /\ completed \subseteq completed'
          /\ \A t \in Tasks : queue'[t] > 0 => DependsOn[t] \subseteq completed'
          /\ \A t \in Tasks, e \in Dispatchers :
                hand'[e].task = t => DependsOn[t] \subseteq completed'
      BY <1>f, <2>0, <3>1, OnCompleteReady
    <3> QED
      BY <3>1, <3>2 DEF ReadyInv
  <2>4. CASE OnFailed(a)
    BY <1>n, <2>0, <2>4 DEF OnFailed, ReadyInv, TypeInv, TypeOK
  <2>5. ASSUME NEW u \in Tasks, NEW result \in {"done", "failed"},
               TaskStarted(u, a) \/ TaskStatus(u, a, result)
        PROVE  ReadyInv'
    <3>1. DependsOn[u] \subseteq completed /\ UNCHANGED <<queue, to, completed>>
      BY <2>5 DEF TaskStarted, TaskStatus, ReadyInv
    <3>2. \A e \in Dispatchers : hand'[e].task \in {hand[e].task, u}
      BY <2>5 DEF TaskStarted, TaskStatus, TypeInv, TypeOK, Holding
    <3>3. \A v \in Tasks, b \in Agents : job'[v][b] # "none" => v = u \/ job[v][b] # "none"
      BY <2>5 DEF TaskStarted, TaskStatus, TypeInv, TypeOK
    <3> QED
      BY <3>1, <3>2, <3>3 DEF ReadyInv
  <2> QED
    BY <1>3, <2>1, <2>2, <2>3, <2>4, <2>5 DEF HandlerStep, AgentReports
<1>4. ASSUME NEW t \in Tasks, NEW a \in Agents, Send(t, a) PROVE ReadyInv'
  <2>1. \A v \in Tasks, b \in Agents : job'[v][b] # "none" => job[v][b] # "none"
    BY <1>4 DEF Send, TypeInv, TypeOK
  <2> QED
    BY <1>4, <2>1 DEF Send, ReadyInv
<1>5. CASE UNCHANGED vars
  BY <1>5 DEF vars, ReadyInv
<1> QED
  BY <1>1, <1>2, <1>3, <1>4, <1>5, GraphAssumption DEF Next

\* However often a task is queued, by the loop and by the handlers at once, it
\* is handed out only after all its dependencies have counted as completed.
THEOREM ReadyOnlyHandedOut == Spec => []ReadyOnly
<1>1. Init => TypeInv /\ ReadyInv
  <2> SUFFICES ASSUME Init PROVE TypeInv /\ ReadyInv
    OBVIOUS
  <2>1. ReadyInv
    BY TasksAssumption DEF Init, ReadyInv, Nothing, Holding
  <2> QED
    BY <2>1, InitType
<1>2. TypeInv /\ ReadyInv => ReadyOnly
  BY DEF ReadyInv, ReadyOnly, InHand
<1> QED
  BY <1>1, <1>2, NextType, NextReady, PTL DEF Spec

-----------------------------------------------------------------------------
(* No path stays locked for a task nobody knows of.                         *)

\* A step that gives locks back keeps those of the tasks it leaves listed.
LEMMA ReleasedLocked ==
    ASSUME TypeOK, NoOrphanLock, NEW T \in SUBSET Tasks, holder' = Released(T),
           \A t \in Tasks \ T : future[t] # NoAgent => future'[t] # NoAgent,
           \A t \in Tasks \ T : t \in BeingSent => t \in BeingSent'
    PROVE  NoOrphanLock'
<1> SUFFICES ASSUME NEW p \in Paths, holder'[p] # NoTask
             PROVE  future'[holder'[p]] # NoAgent \/ holder'[p] \in BeingSent'
  BY DEF NoOrphanLock
<1>1. holder'[p] = holder[p] /\ holder[p] \in Tasks \ T
  BY DEF Released, TypeOK
<1> QED
  BY <1>1 DEF NoOrphanLock

\* While a dispatcher takes its turn the others' assignments stay.
LEMMA DispatchSending ==
    ASSUME TypeInv, future' \in [Tasks -> Agents \cup {NoAgent}],
           NEW d \in Dispatchers, NEW q \in [Tasks -> Nat], Dispatch(d, q)
    PROVE  \A t \in BeingSent : t \in BeingSent' \/ (pc[d] = "assign" /\ hand[d].task = t)
<1>1. TypeOK
  BY DEF TypeInv
<1>2. /\ \E h : hand' = [hand EXCEPT ![d] = h]
      /\ \E place : pc' = [pc EXCEPT ![d] = place]
  <2>1. CASE hand' = [hand EXCEPT ![d] = Nothing]
    BY <1>1, <2>1, DispatchEffect
  <2>2. CASE \E t \in Tasks : /\ hand' = [hand EXCEPT ![d] = Holding(t, NoAgent)]
                             /\ pc' = [pc EXCEPT ![d] = "pick"]
    BY <2>2
  <2> QED
    BY <1>1, <2>1, <2>2, DispatchEffect
<1>3. \A e \in Dispatchers \ {d} : pc'[e] = pc[e] /\ hand'[e] = hand[e]
  BY <1>1, <1>2 DEF TypeOK
<1> QED
  BY <1>3 DEF BeingSent

\* Marking a node takes its locks and is about to send it.
LEMMA AssignTaskLocked ==
    ASSUME TypeInv, NoOrphanLock, future' = future,
           NEW d \in Dispatchers, NEW a \in Agents, pc[d] \in {"pick", "count"},
           AssignTask(d, a)
    PROVE  NoOrphanLock'
<1> DEFINE t == hand[d].task
<1>1. t \in Tasks /\ queue \in [Tasks -> Nat] /\ future' \in [Tasks -> Agents \cup {NoAgent}]
  BY DEF TypeInv, TypeOK, HandInv, Fits
<1>2. CASE Acquirable(t)
  <2>1. /\ holder' = [p \in Paths |-> IF p \in Artifacts[t] THEN t ELSE holder[p]]
        /\ hand' = [hand EXCEPT ![d] = Holding(t, a)]
        /\ pc' = [pc EXCEPT ![d] = "assign"]
    BY <1>2 DEF AssignTask
  <2>2. Holding(t, a).task = t
    BY DEF Holding
  <2> HIDE DEF t
  <2>3. /\ pc'[d] = "assign" /\ hand'[d].task = t
        /\ \A e \in Dispatchers \ {d} : pc'[e] = pc[e] /\ hand'[e] = hand[e]
    BY <2>1, <2>2 DEF TypeInv, TypeOK
  <2>4. t \in BeingSent' /\ \A u \in BeingSent : u \in BeingSent'
    BY <2>3 DEF BeingSent, t
  <2> SUFFICES ASSUME NEW p \in Paths, holder'[p] # NoTask
               PROVE  future'[holder'[p]] # NoAgent \/ holder'[p] \in BeingSent'
    BY DEF NoOrphanLock
  <2>5. holder'[p] = t \/ holder'[p] = holder[p]
    BY <2>1 DEF TypeInv, TypeOK
  <2> QED
    BY <2>4, <2>5 DEF NoOrphanLock
<1>3. CASE ~Acquirable(t)
  <2>1. Dispatch(d, queue) /\ holder' = holder
    BY <1>3 DEF AssignTask
  <2>2. \A u \in BeingSent : u \in BeingSent'
    BY <1>1, <2>1, DispatchSending
  <2> QED
    BY <2>1, <2>2 DEF NoOrphanLock
<1> QED
  BY <1>2, <1>3

\* Every step that drops a future, or ends an assignment, gives the locks of the
\* task back or lists a new future.
LEMMA NextLocked == TypeInv /\ NoOrphanLock /\ [Next]_vars => NoOrphanLock'
<1> SUFFICES ASSUME TypeInv, NoOrphanLock, [Next]_vars PROVE NoOrphanLock'
  OBVIOUS
<1> USE DEF rows, graphVars
<1>t. TypeInv' /\ TypeOK
  BY NextType DEF TypeInv
<1>f. future' \in [Tasks -> Agents \cup {NoAgent}]
  BY <1>t DEF TypeInv, TypeOK
\* A step that touches neither locks nor futures, and ends no assignment.
<1>s. ASSUME UNCHANGED <<holder, future>>, \A t \in BeingSent : t \in BeingSent'
      PROVE  NoOrphanLock'
  BY <1>s DEF NoOrphanLock
<1>1. ASSUME NEW d \in Dispatchers, DispatchStep(d) PROVE NoOrphanLock'
  <2>1. ASSUME NEW a \in Agents, PickFree(d, a) PROVE NoOrphanLock'
    BY <2>1, AssignTaskLocked DEF PickFree
  <2>2. ASSUME pc[d] # "assign",
               \A e \in Dispatchers \ {d} : pc'[e] = pc[e] /\ hand'[e] = hand[e]
        PROVE  \A t \in BeingSent : t \in BeingSent'
    BY <2>2 DEF BeingSent
  <2>3. ASSUME NEW a \in Agents, CountRows(d, a) PROVE NoOrphanLock'
    BY <1>s, <2>2, <2>3 DEF CountRows, TypeInv, TypeOK
  <2>4. CASE UseCount(d)
    <3>1. pc[d] = "count" /\ hand[d].agent \in Agents /\ future' = future
      BY <2>4 DEF UseCount, TypeInv, HandInv, Fits
    <3>2. CASE AssignTask(d, hand[d].agent)
      BY <3>1, <3>2, AssignTaskLocked
    <3>3. CASE ~(hand[d].free > 0)
      BY <1>s, <2>2, <2>4, <3>3 DEF UseCount, TypeInv, TypeOK
    <3> QED
      BY <2>4, <3>2, <3>3 DEF UseCount
  <2>5. CASE NoneFree(d)
    BY <1>s, <2>2, <2>5 DEF NoneFree, Leaves, TypeInv, TypeOK
  <2>6. CASE Assigned(d)
    <3> DEFINE t == hand[d].task
               a == hand[d].agent
    <3>1. t \in Tasks /\ a \in Agents /\ a # NoAgent
      BY <2>6, AgentsAssumption DEF Assigned, TypeInv, HandInv, Fits
    <3>2. /\ Dispatch(d, queue) /\ holder' = holder
          /\ future' = [future EXCEPT ![t] = a] /\ queue \in [Tasks -> Nat]
      BY <2>6 DEF Assigned, TypeInv, TypeOK
    <3>3. \A u \in BeingSent : u \in BeingSent' \/ u = t
      BY <1>f, <3>2, DispatchSending
    <3> HIDE DEF t, a
    <3>4. future'[t] # NoAgent /\ \A u \in Tasks \ {t} : future'[u] = future[u]
      BY <3>1, <3>2 DEF TypeInv, TypeOK
    <3> QED
      BY <3>2, <3>3, <3>4 DEF NoOrphanLock, TypeInv, TypeOK
  <2> QED
    BY <1>1, <2>1, <2>3, <2>4, <2>5, <2>6 DEF DispatchStep
<1>2. CASE LoopStep
  <2>0. Loop \in Dispatchers
    BY DEF Dispatchers
  <2>1. CASE ExecuteGraph
    <3> DEFINE q == [t \in Tasks |-> IF DependsOn[t] = {} THEN 1 ELSE 0]
    <3>1. q \in [Tasks -> Nat] /\ Dispatch(Loop, q) /\ UNCHANGED <<holder, future>>
      BY <2>1 DEF ExecuteGraph
    <3>2. pc[Loop] # "assign"
      BY <2>1 DEF ExecuteGraph
    <3> HIDE DEF q
    <3> QED
      BY <1>f, <1>s, <2>0, <3>1, <3>2, DispatchSending
  <2>2. CASE Wake
    <3> DEFINE done == {f \in awaited : job[f[1]][f[2]] # "sending"}
               T    == {t \in Tasks : <<t, future[t]>> \in done}
    <3>1. /\ T \in SUBSET Tasks /\ pc[Loop] = "wait"
          /\ \A t \in Tasks \ T : future'[t] = future[t]
      BY <2>2 DEF Wake
    <3>2. holder' = Released(T)
      BY <2>2 DEF Wake, OnComplete
    <3>3. \A t \in BeingSent : t \in BeingSent'
      <4>1. CASE OnComplete(Loop, T)
        <5> HIDE DEF T
        <5>1. PICK order \in Orders(T) :
                 Dispatch(Loop, [u \in Tasks |-> queue[u] + NewEntries(u, T, order)])
          BY <4>1 DEF OnComplete
        <5> DEFINE q == [u \in Tasks |-> queue[u] + NewEntries(u, T, order)]
        <5>2. \A u \in Tasks : NewEntries(u, T, order) \in Nat /\ queue[u] \in Nat
          BY <3>1, NewEntriesEffect DEF TypeInv, TypeOK
        <5>3. q \in [Tasks -> Nat] /\ Dispatch(Loop, q)
          BY <5>1, <5>2
        <5> HIDE DEF q
        <5> QED
          BY <1>f, <2>0, <3>1, <5>3, DispatchSending
      <4>2. CASE pc' = [pc EXCEPT ![Loop] = "done"] /\ UNCHANGED hand
        BY <2>0, <3>1, <4>2 DEF BeingSent, TypeInv, TypeOK
      <4> QED
        BY <2>2, <4>1, <4>2 DEF Wake
    <3> HIDE DEF T
    <3> QED
      BY <1>t, <3>1, <3>2, <3>3, ReleasedLocked
  <2> QED
    BY <1>2, <2>1, <2>2 DEF LoopStep
<1>3. ASSUME NEW a \in Agents, HandlerStep(a) \/ AgentReports(a) PROVE NoOrphanLock'
  <2>0. a \in Dispatchers
    BY DEF Dispatchers
  <2>1. ASSUME pc[a] # "assign",
               \A e \in Dispatchers \ {a} : pc'[e] = pc[e] /\ hand'[e] = hand[e]
        PROVE  \A t \in BeingSent : t \in BeingSent'
    BY <2>1 DEF BeingSent
  <2>2. CASE TrackSlot(a)
    BY <1>s, <2>1, <2>2 DEF TrackSlot, TypeInv, TypeOK
  <2>3. CASE UpdateRow(a)
    BY <1>s, <2>1, <2>3 DEF UpdateRow, TypeInv, TypeOK
  <2>4. CASE OnDone(a)
    <3> DEFINE T == {hand[a].task}
    <3>1. /\ T \in SUBSET Tasks /\ OnComplete(a, T)
          /\ future' = future /\ pc[a] # "assign"
      BY <2>0, <2>4, AgentsAssumption DEF OnDone, TypeInv, HandInv, Fits
    <3> HIDE DEF T
    <3>2. PICK order \in Orders(T) :
             Dispatch(a, [u \in Tasks |-> queue[u] + NewEntries(u, T, order)])
      BY <3>1 DEF OnComplete
    <3> DEFINE q == [u \in Tasks |-> queue[u] + NewEntries(u, T, order)]
    <3>3. \A u \in Tasks : NewEntries(u, T, order) \in Nat /\ queue[u] \in Nat
      BY <3>1, NewEntriesEffect DEF TypeInv, TypeOK
    <3>4. q \in [Tasks -> Nat] /\ Dispatch(a, q)
      BY <3>2, <3>3
    <3> HIDE DEF q
    <3>5. \A t \in BeingSent : t \in BeingSent'
      BY <1>f, <2>0, <3>1, <3>4, DispatchSending
    <3> QED
      BY <1>t, <3>1, <3>5, ReleasedLocked DEF OnComplete
  <2>5. CASE OnFailed(a)
    <3> DEFINE T == {hand[a].task}
    <3>1. T \in SUBSET Tasks /\ holder' = Released(T) /\ future' = future
      BY <2>0, <2>5, AgentsAssumption DEF OnFailed, TypeInv, HandInv, Fits
    <3>2. \A t \in BeingSent : t \in BeingSent'
      BY <2>1, <2>5 DEF OnFailed, TypeInv, TypeOK
    <3> HIDE DEF T
    <3> QED
      BY <1>t, <3>1, <3>2, ReleasedLocked
  <2>6. ASSUME NEW u \in Tasks, NEW result \in {"done", "failed"},
               TaskStarted(u, a) \/ TaskStatus(u, a, result)
        PROVE  NoOrphanLock'
    BY <1>s, <2>1, <2>6 DEF TaskStarted, TaskStatus, TypeInv, TypeOK
  <2> QED
    BY <1>3, <2>2, <2>3, <2>4, <2>5, <2>6 DEF HandlerStep, AgentReports
<1>4. ASSUME NEW t \in Tasks, NEW a \in Agents, Send(t, a) PROVE NoOrphanLock'
  BY <1>s, <1>4 DEF Send, BeingSent
<1>5. CASE UNCHANGED vars
  BY <1>s, <1>5 DEF vars, BeingSent
<1> QED
  BY <1>1, <1>2, <1>3, <1>4, <1>5, GraphAssumption DEF Next

\* No path stays locked for a task that is neither being sent nor listed with a
\* future, whatever the loop and the handlers dispatch, complete and fail.
THEOREM LocksOwned == Spec => []NoOrphanLock
<1>1. Init => TypeInv /\ NoOrphanLock
  <2>1. Init => NoOrphanLock
    BY DEF Init, NoOrphanLock
  <2> QED
    BY <2>1, InitType
<1> QED
  BY <1>1, NextType, NextLocked, PTL DEF Spec

=============================================================================
