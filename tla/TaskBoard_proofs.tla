-------------------------- MODULE TaskBoard_proofs ---------------------------
(***************************************************************************)
(* Proofs about the task board: its types, and with one caller at a time     *)
(* that every agent with a task in hand is the one its row names and that a   *)
(* task waits for its review.                                                 *)
(***************************************************************************)
EXTENDS TaskBoard, FiniteSetTheorems, TLAPS

Places == CallPlaces \cup HandPlaces

LEMMA LoadType ==
    ASSUME NEW a PROVE Load(a) \in Nat
  <1>1. IsFiniteSet({t \in Tasks : owner[t] = a /\ row[t] \in Active})
    BY FS_Subset, GraphAssumption
  <1> QED BY <1>1, FS_CardinalityType DEF Load

(* What may follow upon the locals now of a call, and where: the end, the next *)
(* task, or the assignment of the current one to an agent below its maximum.   *)
Follows(now, place, next) ==
    /\ next \in CallLocals
    /\ place \in {"idle", "find", "assign"}
    /\ place = "idle" => next = NoCall
    /\ place # "idle" => next.known = now.known /\ next.loads = now.loads
    /\ place = "find" =>
          /\ next.task \in Tasks
          /\ next.left \cup next.batch \cup {next.task} \subseteq now.left \cup now.batch
          /\ now.left \cap now.batch = {} =>
                /\ next.left \cap next.batch = {}
                /\ next.task \notin next.left \cup next.batch
    /\ place = "assign" =>
          /\ next.task = now.task /\ next.left = now.left /\ next.batch = now.batch
          /\ next.agent \in now.cand /\ now.loads[next.agent] < MaxConcurrent

Goes(c, now, places) ==
    \E place \in places, next \in CallLocals :
        /\ Follows(now, place, next)
        /\ call' = [call EXCEPT ![c] = next]
        /\ pc' = [pc EXCEPT ![c] = place]

NextPlaces == {"idle", "find"}
PickPlaces == {"idle", "find", "assign"}

LEMMA NoCallType == NoCall \in CallLocals
  BY DEF NoCall, CallLocals

LEMMA NextTaskGoes ==
    ASSUME NEW c \in Callers, NEW now \in CallLocals, NextTask(c, now)
    PROVE Goes(c, now, NextPlaces)
  <1> DEFINE ready == {t \in now.left : DependsOn[t] \subseteq now.counted}
             Of(t) == [now EXCEPT !.task = t, !.batch = @ \ {t}]
             Off(t) == [now EXCEPT !.task = t, !.batch = ready \ {t},
                                   !.left = @ \ ready, !.counted = @ \cup ready]
  <1>1. CASE now.batch # {}
    <2>1. PICK t \in now.batch : call' = [call EXCEPT ![c] = Of(t)]
      BY <1>1 DEF NextTask
    <2>2. pc' = [pc EXCEPT ![c] = "find"]
      BY <1>1 DEF NextTask, Goto
    <2>3. Follows(now, "find", Of(t))
      BY DEF Follows, CallLocals
    <2> QED BY <2>1, <2>2, <2>3 DEF Goes, NextPlaces, Follows
  <1>2. CASE now.batch = {} /\ ready # {}
    <2>1. PICK t \in ready : call' = [call EXCEPT ![c] = Off(t)]
      BY <1>2 DEF NextTask
    <2>2. pc' = [pc EXCEPT ![c] = "find"]
      BY <1>2 DEF NextTask, Goto
    <2>3. Follows(now, "find", Off(t))
      BY DEF Follows, CallLocals
    <2> QED BY <2>1, <2>2, <2>3 DEF Goes, NextPlaces, Follows
  <1>3. CASE now.batch = {} /\ ready = {}
    <2>1. call' = [call EXCEPT ![c] = NoCall] /\ pc' = [pc EXCEPT ![c] = "idle"]
      BY <1>3 DEF NextTask, Goto
    <2> QED BY <2>1, NoCallType DEF Goes, NextPlaces, Follows
  <1> QED BY <1>1, <1>2, <1>3

LEMMA PickGoes ==
    ASSUME NEW c \in Callers, NEW now \in CallLocals, Pick(c, now), now.task \in Tasks
    PROVE Goes(c, now, PickPlaces)
  <1> DEFINE free == {a \in now.cand : now.loads[a] < MaxConcurrent}
             none == [now EXCEPT !.cand = {}]
             With(a) == [now EXCEPT !.agent = a, !.cand = {}]
  <1>1. CASE free = {}
    <2>1. none \in CallLocals
      BY DEF CallLocals
    <2>2. none.left = now.left /\ none.batch = now.batch /\ none.known = now.known
          /\ none.loads = now.loads
      BY DEF CallLocals
    <2>3. Goes(c, none, NextPlaces)
      BY <1>1, <2>1, NextTaskGoes DEF Pick
    <2>4. PICK place \in NextPlaces, next \in CallLocals :
              /\ Follows(none, place, next)
              /\ call' = [call EXCEPT ![c] = next]
              /\ pc' = [pc EXCEPT ![c] = place]
      BY <2>3 DEF Goes
    <2>5. place # "assign" /\ place \in PickPlaces
      BY DEF NextPlaces, PickPlaces
    <2>6. Follows(now, place, next)
      BY <2>2, <2>4, <2>5 DEF Follows
    <2> QED BY <2>4, <2>5, <2>6 DEF Goes
  <1>2. CASE free # {}
    <2>1. PICK a \in free : call' = [call EXCEPT ![c] = With(a)]
      BY <1>2 DEF Pick
    <2>2. pc' = [pc EXCEPT ![c] = "assign"]
      BY <1>2 DEF Pick, Goto
    <2>3. Follows(now, "assign", With(a))
      BY DEF Follows, CallLocals
    <2> QED BY <2>1, <2>2, <2>3 DEF Goes, PickPlaces, Follows
  <1> QED BY <1>1, <1>2

LEMMA GoesTypes ==
    ASSUME TypeOK, NEW c \in Callers, NEW now \in CallLocals,
           NEW places \in {NextPlaces, PickPlaces}, Goes(c, now, places)
    PROVE /\ call' \in [Callers -> CallLocals]
          /\ pc' \in [Callers \cup Agents -> Places]
  BY DEF Goes, NextPlaces, PickPlaces, TypeOK, Places, CallPlaces

(* The steps of a call keep the types.                                       *)
LEMMA CallerTypes ==
    ASSUME TypeOK, PlaceInv, NEW c \in Callers,
           AssignTasks(c) \/ Reassign(c) \/ CallerStep(c)
    PROVE TypeOK'
  <1> USE DEF Places
  <1>t. call[c] \in CallLocals
    BY DEF TypeOK
  <1>n. calls < MaxCalls /\ calls' = calls + 1 => calls' \in 0..MaxCalls
    BY NumbersAssumption DEF TypeOK
  <1>0. NoCall \in CallLocals
    BY DEF NoCall, CallLocals
  <1>1. CASE AssignTasks(c)
    <2>1. [NoCall EXCEPT !.left = {t \in Tasks : Assignable(t)},
                         !.counted = {t \in Tasks : row[t] \in {"done", "accepted"}}]
            \in CallLocals
      BY <1>0 DEF CallLocals
    <2>2. /\ call' \in [Callers -> CallLocals]
          /\ pc' \in [Callers \cup Agents -> Places]
      BY <1>1, <2>1, NextTaskGoes, GoesTypes DEF AssignTasks
    <2>3. calls' \in 0..MaxCalls
      BY <1>1, <1>n DEF AssignTasks, Call
    <2> QED BY <1>1, <2>2, <2>3 DEF AssignTasks, TypeOK, board
  <1>2. CASE Reassign(c)
    <2>1. PICK t \in Tasks : /\ moved' = moved \cup {t}
                             /\ call' = [call EXCEPT ![c] = [NoCall EXCEPT !.task = t, !.agent = owner[t]]]
      BY <1>2 DEF Reassign
    <2>o. owner[t] \in Agents \cup {NoAgent}
      BY DEF TypeOK
    <2>2. [NoCall EXCEPT !.task = t, !.agent = owner[t]] \in CallLocals
      BY <1>0, <2>o DEF CallLocals
    <2>3. calls' \in 0..MaxCalls
      BY <1>2, <1>n DEF Reassign, Call
    <2> QED BY <1>2, <2>1, <2>2, <2>3 DEF Reassign, TypeOK, board, Goto, CallPlaces
  <1>3. CASE Find(c)
    <2>k. call[c].task \in Tasks
      BY <1>3 DEF Find, At, PlaceInv, Busy
    <2>1. PICK S \in SUBSET Agents :
             LET now == [call[c] EXCEPT !.cand = S] IN
             IF S \subseteq now.known
               THEN Pick(c, now)
               ELSE call' = [call EXCEPT ![c] = now] /\ Goto(c, "load")
      BY <1>3 DEF Find
    <2>2. /\ [call[c] EXCEPT !.cand = S] \in CallLocals
          /\ [call[c] EXCEPT !.cand = S].task = call[c].task
      BY <1>t DEF CallLocals
    <2>3. /\ call' \in [Callers -> CallLocals]
          /\ pc' \in [Callers \cup Agents -> Places]
      <3> DEFINE now == [call[c] EXCEPT !.cand = S]
      <3>1. CASE S \subseteq now.known
        <4>1. Pick(c, now)
          BY <2>1, <3>1
        <4>2. Goes(c, now, PickPlaces)
          BY <2>2, <2>k, <4>1, PickGoes
        <4> QED BY <2>2, <4>2, GoesTypes
      <3>2. CASE ~(S \subseteq now.known)
        <4>1. call' = [call EXCEPT ![c] = now] /\ Goto(c, "load")
          BY <2>1, <3>2
        <4>2. now \in CallLocals
          BY <2>2
        <4> HIDE DEF now
        <4>3. call' \in [Callers -> CallLocals]
          BY <4>1, <4>2 DEF TypeOK
        <4> QED BY <4>1, <4>3 DEF TypeOK, Goto, CallPlaces
      <3> QED BY <3>1, <3>2
    <2> QED BY <1>3, <2>3 DEF Find, TypeOK, board
  <1>4. CASE LoadOne(c)
    <2>k. call[c].task \in Tasks
      BY <1>4 DEF LoadOne, At, PlaceInv, Busy
    <2>1. PICK a \in Agents :
             LET now == [call[c] EXCEPT !.known = @ \cup {a}, !.loads[a] = Load(a)] IN
             IF now.cand \subseteq now.known
               THEN Pick(c, now)
               ELSE call' = [call EXCEPT ![c] = now] /\ UNCHANGED pc
      BY <1>4 DEF LoadOne, TypeOK, CallLocals
    <2>l. [call[c].loads EXCEPT ![a] = Load(a)] \in [Agents -> Nat]
      BY <1>t, LoadType DEF CallLocals
    <2>2. LET now == [call[c] EXCEPT !.known = @ \cup {a}, !.loads[a] = Load(a)] IN
          now \in CallLocals /\ now.task = call[c].task
      BY <1>t, <2>l DEF CallLocals
    <2>3. /\ call' \in [Callers -> CallLocals]
          /\ pc' \in [Callers \cup Agents -> Places]
      <3> DEFINE now == [call[c] EXCEPT !.known = @ \cup {a}, !.loads[a] = Load(a)]
      <3>1. CASE now.cand \subseteq now.known
        <4>1. Pick(c, now)
          BY <2>1, <3>1
        <4>2. Goes(c, now, PickPlaces)
          BY <2>2, <2>k, <4>1, PickGoes
        <4> QED BY <2>2, <4>2, GoesTypes
      <3>2. CASE ~(now.cand \subseteq now.known)
        <4>1. call' = [call EXCEPT ![c] = now] /\ UNCHANGED pc
          BY <2>1, <3>2
        <4>2. now \in CallLocals
          BY <2>2
        <4> HIDE DEF now
        <4> QED BY <4>1, <4>2 DEF TypeOK
      <3> QED BY <3>1, <3>2
    <2> QED BY <1>4, <2>3 DEF LoadOne, TypeOK, board
  <1>5. CASE Assign(c)
    <2>1. call[c].task \in Tasks \cup {NoTask} /\ call[c].agent \in Agents \cup {NoAgent}
      BY DEF TypeOK, CallLocals
    <2>2. row' \in [Tasks -> Table!TaskStatuses] /\ owner' \in [Tasks -> Agents \cup {NoAgent}]
      BY <1>5, <2>1 DEF Assign, TypeOK, Table!TaskStatuses
    <2> QED BY <1>5, <2>2 DEF Assign, TypeOK, Goto, CallPlaces
  <1>6. CASE Tell(c)
    <2>a. call[c].agent \in Agents /\ call[c].task \in Tasks
      BY <1>6 DEF Tell, At, PlaceInv, Busy
    <2>l. [call[c].loads EXCEPT ![call[c].agent] = @ + 1] \in [Agents -> Nat]
      BY <1>t, <2>a DEF CallLocals
    <2>1. Told(c) \in CallLocals
      BY <1>t, <2>l DEF Told, CallLocals
    <2>2. /\ call' \in [Callers -> CallLocals]
          /\ pc' \in [Callers \cup Agents -> Places]
      BY <1>6, <2>1, NextTaskGoes, GoesTypes DEF Tell
    <2>3. job' \in [Tasks -> [Agents -> {"none", "told", "started", "reported"}]]
      <3>1. \A t \in Tasks, a \in Agents :
               [job[t] EXCEPT ![a] = "told"] \in [Agents -> {"none", "told", "started", "reported"}]
        BY DEF TypeOK
      <3>2. \/ job' = [job EXCEPT ![call[c].task] = [job[call[c].task] EXCEPT ![call[c].agent] = "told"]]
            \/ job' = job
        BY <1>6 DEF Tell
      <3>3. CASE job' = job
        BY <3>3 DEF TypeOK
      <3>4. CASE job' = [job EXCEPT ![call[c].task] = [job[call[c].task] EXCEPT ![call[c].agent] = "told"]]
        BY <2>a, <3>1, <3>4 DEF TypeOK
      <3> QED BY <3>2, <3>3, <3>4
    <2> QED BY <1>6, <2>2, <2>3 DEF Tell, TypeOK, board
  <1>7. CASE PickOther(c)
    <2>a. \A a \in Agents : [call[c] EXCEPT !.agent = a] \in CallLocals
      BY <1>t DEF CallLocals
    <2>c. \/ \E a \in Agents : call' = [call EXCEPT ![c] = [call[c] EXCEPT !.agent = a]]
          \/ call' = [call EXCEPT ![c] = NoCall]
      BY <1>7 DEF PickOther
    <2>1. call' \in [Callers -> CallLocals]
      BY <1>0, <2>a, <2>c DEF TypeOK
    <2> QED BY <1>7, <2>1 DEF PickOther, TypeOK, board, Goto, CallPlaces
  <1> QED BY <1>1, <1>2, <1>3, <1>4, <1>5, <1>6, <1>7 DEF CallerStep

(* The handlers keep the types.                                              *)
LEMMA HandlerTypes ==
    ASSUME TypeOK, PlaceInv, NEW a \in Agents,
           HandlerStep(a) \/ \E t \in Tasks : Works(a, t) \/ Answers(a, t)
    PROVE TypeOK'
  <1> USE DEF Take, Drop, Goto, At, board, HandPlaces
  <1>0. NoHand \in [task : Tasks \cup {NoTask}, todo : SUBSET Tasks]
    BY DEF NoHand
  <1>t. hand[a] \in [task : Tasks \cup {NoTask}, todo : SUBSET Tasks]
    BY DEF TypeOK
  <1>u. \A S \in SUBSET Tasks :
           [hand[a] EXCEPT !.todo = S] \in [task : Tasks \cup {NoTask}, todo : SUBSET Tasks]
    BY <1>t
  <1>1. ASSUME NEW t \in Tasks, TaskStarted(a, t) PROVE TypeOK'
    BY <1>1 DEF TaskStarted, TypeOK
  <1>2. ASSUME NEW t \in Tasks, NEW result \in {"done", "failed"}, TaskStatus(a, t, result)
        PROVE TypeOK'
    <2>1. hand' \in [Agents -> [task : Tasks \cup {NoTask}, todo : SUBSET Tasks]]
      <3>1. \/ hand' = [hand EXCEPT ![a] = [task |-> t, todo |-> {}]]
            \/ hand' = hand
        BY <1>2 DEF TaskStatus
      <3>2. [task |-> t, todo |-> {}] \in [task : Tasks \cup {NoTask}, todo : SUBSET Tasks]
        OBVIOUS
      <3> QED BY <3>1, <3>2 DEF TypeOK
    <2>2. pc' \in [Callers \cup Agents -> CallPlaces \cup HandPlaces]
      BY <1>2 DEF TaskStatus, TypeOK
    <2>3. job' \in [Tasks -> [Agents -> {"none", "told", "started", "reported"}]]
      BY <1>2 DEF TaskStatus, TypeOK
    <2> QED BY <1>2, <2>1, <2>2, <2>3 DEF TaskStatus, TypeOK
  <1>3. ASSUME NEW t \in Tasks, NEW verdict \in {"accepted", "rejected"},
               TaskAcceptResult(a, t, verdict)
        PROVE TypeOK'
    BY <1>3 DEF TaskAcceptResult, TypeOK
  <1>4. CASE Write(a)
    <2>1. FollowedBy(pc[a]) \in HandPlaces
      BY DEF FollowedBy
    <2>2. row' \in [Tasks -> Table!TaskStatuses]
      BY <1>4 DEF Write, TypeOK, Table!TaskStatuses
    <2> QED BY <1>0, <1>4, <2>1, <2>2 DEF Write, TypeOK
  <1>5. CASE Verify(a)
    <2>1. \A t \in Tasks : DependsOn[t] \subseteq Tasks
      BY GraphAssumption
    <2>2. hand[a].task \in Plain => DependsOn[hand[a].task] \subseteq Tasks
      BY <2>1, GraphAssumption
    <2>3. hand' \in [Agents -> [task : Tasks \cup {NoTask}, todo : SUBSET Tasks]]
      <3>1. \/ hand' = [hand EXCEPT ![a] = NoHand]
            \/ hand' = hand
            \/ /\ hand[a].task \in Plain
               /\ hand' = [hand EXCEPT ![a] = [hand[a] EXCEPT !.todo = DependsOn[hand[a].task]]]
        BY <1>5 DEF Verify
      <3>2. hand[a].task \in Plain =>
              [hand[a] EXCEPT !.todo = DependsOn[hand[a].task]] \in [task : Tasks \cup {NoTask}, todo : SUBSET Tasks]
        BY <1>u, <2>2
      <3>3. \E h \in [task : Tasks \cup {NoTask}, todo : SUBSET Tasks] :
               hand' = [hand EXCEPT ![a] = h] \/ hand' = hand
        BY <1>0, <3>1, <3>2
      <3> QED BY <3>3 DEF TypeOK
    <2>4. pc' \in [Callers \cup Agents -> CallPlaces \cup HandPlaces]
      BY <1>5 DEF Verify, TypeOK
    <2> QED BY <1>5, <2>3, <2>4 DEF Verify, TypeOK
  <1>6. CASE CheckDep(a)
    <2>1. hand' \in [Agents -> [task : Tasks \cup {NoTask}, todo : SUBSET Tasks]]
      <3>1. \E S \in SUBSET hand[a].todo : hand' = [hand EXCEPT ![a] = [hand[a] EXCEPT !.todo = S]]
        BY <1>6 DEF CheckDep
      <3>2. SUBSET hand[a].todo \subseteq SUBSET Tasks
        BY <1>t
      <3>3. \E h \in [task : Tasks \cup {NoTask}, todo : SUBSET Tasks] : hand' = [hand EXCEPT ![a] = h]
        BY <1>u, <3>1, <3>2
      <3> QED BY <3>3 DEF TypeOK
    <2>2. pc' \in [Callers \cup Agents -> CallPlaces \cup HandPlaces]
      BY <1>6 DEF CheckDep, TypeOK
    <2> QED BY <1>6, <2>1, <2>2 DEF CheckDep, TypeOK
  <1>7. CASE AutoAccept(a)
    BY <1>0, <1>7 DEF AutoAccept, TypeOK, Table!TaskStatuses
  <1>8. CASE Delegate(a)
    <2>h. hand[a].task \in Tasks
      BY <1>8 DEF Delegate, PlaceInv, Busy
    <2>1. asked' \subseteq Tasks \X Agents
      BY <1>8, <2>h, PeopleAssumption DEF Delegate, TypeOK
    <2> QED BY <1>0, <1>8, <2>1 DEF Delegate, TypeOK
  <1> QED BY <1>1, <1>2, <1>3, <1>4, <1>5, <1>6, <1>7, <1>8 DEF HandlerStep, Works, Answers

-----------------------------------------------------------------------------
(* A process that is suspended has something to go on with.                  *)

LEMMA GoesPlaces ==
    ASSUME NEW c \in Callers, NEW now \in CallLocals, 
           NEW places \in {NextPlaces, PickPlaces}, Goes(c, now, places),
           now.task \in Tasks \/ places = NextPlaces
    PROVE \E place \in CallPlaces, next \in CallLocals :
              /\ call' = [call EXCEPT ![c] = next]
              /\ pc' = [pc EXCEPT ![c] = place]
              /\ place # "idle" => next.task \in Tasks
              /\ place \in {"assign", "tell"} => next.agent \in Agents
  BY DEF Goes, NextPlaces, PickPlaces, Follows, CallLocals, CallPlaces

LEMMA CallerPlaces ==
    ASSUME TypeOK, PlaceInv, NEW c \in Callers,
           AssignTasks(c) \/ Reassign(c) \/ CallerStep(c)
    PROVE PlaceInv'
  <1>t. call[c] \in CallLocals
    BY DEF TypeOK
  <1> DEFINE Moves == \E place \in CallPlaces, next \in CallLocals :
                         /\ call' = [call EXCEPT ![c] = next]
                         /\ pc' = [pc EXCEPT ![c] = place]
                         /\ place # "idle" => next.task \in Tasks
                         /\ place \in {"assign", "tell"} => next.agent \in Agents
  <1>1. ASSUME AssignTasks(c) PROVE Moves
    <2> DEFINE now == [NoCall EXCEPT !.left = {t \in Tasks : Assignable(t)},
                                     !.counted = {t \in Tasks : row[t] \in {"done", "accepted"}}]
    <2>1. now \in CallLocals
      BY NoCallType DEF CallLocals
    <2> HIDE DEF now
    <2>2. Goes(c, now, NextPlaces)
      BY <1>1, <2>1, NextTaskGoes DEF AssignTasks, now
    <2> QED BY <2>1, <2>2, GoesPlaces
  <1>2. ASSUME Reassign(c) PROVE Moves
    <2>1. PICK t \in Tasks :
              call' = [call EXCEPT ![c] = [NoCall EXCEPT !.task = t, !.agent = owner[t]]]
      BY <1>2 DEF Reassign
    <2>2. owner[t] \in Agents \cup {NoAgent}
      BY DEF TypeOK
    <2>3. LET next == [NoCall EXCEPT !.task = t, !.agent = owner[t]] IN
          next \in CallLocals /\ next.task \in Tasks
      BY <2>2, NoCallType DEF CallLocals, NoCall
    <2> QED BY <1>2, <2>1, <2>3 DEF Reassign, Goto, CallPlaces
  <1>3. ASSUME Find(c) PROVE Moves
    <2>1. PICK S \in SUBSET Agents :
             LET now == [call[c] EXCEPT !.cand = S] IN
             IF S \subseteq now.known
               THEN Pick(c, now)
               ELSE call' = [call EXCEPT ![c] = now] /\ Goto(c, "load")
      BY <1>3 DEF Find
    <2> DEFINE now == [call[c] EXCEPT !.cand = S]
    <2>2. now \in CallLocals /\ now.task \in Tasks
      BY <1>t, <1>3 DEF CallLocals, Find, At, PlaceInv, Busy
    <2>3. CASE Pick(c, now)
      BY <2>2, <2>3, PickGoes, GoesPlaces
    <2>4. CASE call' = [call EXCEPT ![c] = now] /\ pc' = [pc EXCEPT ![c] = "load"]
      BY <2>2, <2>4 DEF CallPlaces
    <2> QED BY <2>1, <2>3, <2>4 DEF Goto
  <1>4. ASSUME LoadOne(c) PROVE Moves
    <2>1. PICK a \in Agents :
             LET now == [call[c] EXCEPT !.known = @ \cup {a}, !.loads[a] = Load(a)] IN
             IF now.cand \subseteq now.known
               THEN Pick(c, now)
               ELSE call' = [call EXCEPT ![c] = now] /\ UNCHANGED pc
      BY <1>t, <1>4 DEF LoadOne, CallLocals
    <2> DEFINE now == [call[c] EXCEPT !.known = @ \cup {a}, !.loads[a] = Load(a)]
    <2>l. [call[c].loads EXCEPT ![a] = Load(a)] \in [Agents -> Nat]
      BY <1>t, LoadType DEF CallLocals
    <2>2. now \in CallLocals /\ now.task \in Tasks
      BY <1>t, <1>4, <2>l DEF CallLocals, LoadOne, At, PlaceInv, Busy
    <2>3. CASE Pick(c, now)
      BY <2>2, <2>3, PickGoes, GoesPlaces
    <2>4. CASE call' = [call EXCEPT ![c] = now] /\ pc' = pc
      <3>1. pc' = [pc EXCEPT ![c] = "load"]
        BY <1>4, <2>4 DEF LoadOne, At, TypeOK
      <3> QED BY <2>2, <2>4, <3>1 DEF CallPlaces
    <2> QED BY <2>1, <2>3, <2>4
  <1>5. ASSUME Assign(c) PROVE Moves
    <2>1. call' = [call EXCEPT ![c] = call[c]] /\ pc' = [pc EXCEPT ![c] = "tell"]
      BY <1>5 DEF Assign, Goto, TypeOK
    <2>2. call[c].task \in Tasks /\ call[c].agent \in Agents
      BY <1>5 DEF Assign, At, PlaceInv, Busy
    <2> QED BY <1>t, <2>1, <2>2 DEF CallPlaces
  <1>6. ASSUME Tell(c) PROVE Moves
    <2>1. call[c].task \in Tasks /\ call[c].agent \in Agents
      BY <1>6 DEF Tell, At, PlaceInv, Busy
    <2>l. [call[c].loads EXCEPT ![call[c].agent] = @ + 1] \in [Agents -> Nat]
      BY <1>t, <2>1 DEF CallLocals
    <2>2. Told(c) \in CallLocals /\ Told(c).task \in Tasks
      BY <1>t, <2>1, <2>l DEF Told, CallLocals
    <2> QED BY <1>6, <2>2, NextTaskGoes, GoesPlaces DEF Tell
  <1>7. ASSUME PickOther(c) PROVE Moves
    <2>1. \A a \in Agents : LET next == [call[c] EXCEPT !.agent = a] IN
             next \in CallLocals /\ next.task \in Tasks /\ next.agent \in Agents
      BY <1>t, <1>7 DEF CallLocals, PickOther, At, PlaceInv, Busy
    <2>2. \/ /\ \E a \in Agents : call' = [call EXCEPT ![c] = [call[c] EXCEPT !.agent = a]]
             /\ pc' = [pc EXCEPT ![c] = "assign"]
          \/ /\ call' = [call EXCEPT ![c] = NoCall]
             /\ pc' = [pc EXCEPT ![c] = "idle"]
      BY <1>7 DEF PickOther, Goto
    <2> QED BY <2>1, <2>2, NoCallType DEF CallPlaces
  <1>8. Moves
    BY <1>1, <1>2, <1>3, <1>4, <1>5, <1>6, <1>7 DEF CallerStep
  <1>9. hand' = hand
    BY DEF AssignTasks, Reassign, CallerStep, Find, LoadOne, Assign, Tell, PickOther
  <1>10. PICK place \in CallPlaces, next \in CallLocals :
              /\ call' = [call EXCEPT ![c] = next]
              /\ pc' = [pc EXCEPT ![c] = place]
              /\ place # "idle" => next.task \in Tasks
              /\ place \in {"assign", "tell"} => next.agent \in Agents
    BY <1>8
  <1>11. pc'[c] = place /\ call'[c] = next
    BY <1>10 DEF TypeOK
  <1>12. \A p \in Callers \cup Agents : p # c => pc'[p] = pc[p]
    BY <1>10 DEF TypeOK
  <1>13. \A d \in Callers : d # c => call'[d] = call[d]
    BY <1>10 DEF TypeOK
  <1>14. \A a \in Agents : a # c
    BY PeopleAssumption
  <1> QED BY <1>9, <1>10, <1>11, <1>12, <1>13, <1>14 DEF PlaceInv, Busy

LEMMA HandlerPlaces ==
    ASSUME TypeOK, PlaceInv, NEW a \in Agents,
           HandlerStep(a) \/ \E t \in Tasks : Works(a, t) \/ Answers(a, t)
    PROVE PlaceInv'
  <1> DEFINE Moves == /\ \E place \in HandPlaces : pc' = [pc EXCEPT ![a] = place]
                      /\ \E next : hand' = [hand EXCEPT ![a] = next]
                      /\ pc'[a] # "idle" => hand'[a].task \in Tasks
  <1>t. hand[a] \in [task : Tasks \cup {NoTask}, todo : SUBSET Tasks]
    BY DEF TypeOK
  <1>h. hand = [hand EXCEPT ![a] = hand[a]] /\ pc = [pc EXCEPT ![a] = pc[a]]
    BY DEF TypeOK
  <1>i. pc[a] \in HandPlaces /\ (pc[a] # "idle" => hand[a].task \in Tasks)
    BY DEF PlaceInv, Busy
  <1> USE DEF Goto, At, Take, Drop, HandPlaces
  <1>1. ASSUME NEW t \in Tasks, TaskStarted(a, t) PROVE Moves
    BY <1>1, <1>t DEF TaskStarted, TypeOK
  <1>2. ASSUME NEW t \in Tasks, NEW result \in {"done", "failed"}, TaskStatus(a, t, result)
        PROVE Moves
    <2>1. CASE <<row[t], result>> \in Table!Valid
      BY <1>2, <2>1, <1>t DEF TaskStatus, TypeOK
    <2>2. CASE <<row[t], result>> \notin Table!Valid
      BY <1>2, <2>2, <1>h, <1>i DEF TaskStatus
    <2> QED BY <2>1, <2>2
  <1>3. ASSUME NEW t \in Tasks, NEW verdict \in {"accepted", "rejected"},
               TaskAcceptResult(a, t, verdict)
        PROVE Moves
    BY <1>3, <1>t DEF TaskAcceptResult, TypeOK
  <1>4. ASSUME Write(a) PROVE Moves
    <2>1. FollowedBy(pc[a]) \in HandPlaces
      BY DEF FollowedBy
    <2>2. pc' = [pc EXCEPT ![a] = FollowedBy(pc[a])]
      BY <1>4 DEF Write
    <2>3. pc'[a] = FollowedBy(pc[a])
      BY <2>2 DEF TypeOK
    <2>4. hand[a].task \in Tasks
      BY <1>4, <1>i DEF Write
    <2>5. CASE FollowedBy(pc[a]) = "idle"
      BY <1>4, <2>1, <2>2, <2>3, <2>5 DEF Write
    <2>6. CASE FollowedBy(pc[a]) # "idle"
      BY <1>4, <1>h, <2>1, <2>2, <2>3, <2>4, <2>6 DEF Write
    <2> QED BY <2>5, <2>6
  <1>5. ASSUME Verify(a) PROVE Moves
    <2>1. hand[a].task \in Tasks
      BY <1>5, <1>i DEF Verify
    <2>2. \/ pc' = [pc EXCEPT ![a] = "idle"] /\ hand' = [hand EXCEPT ![a] = NoHand]
          \/ pc' = [pc EXCEPT ![a] = "delegate"] /\ hand' = hand
          \/ /\ \E place \in {"accept", "deps"} : pc' = [pc EXCEPT ![a] = place]
             /\ \E S : hand' = [hand EXCEPT ![a] = [hand[a] EXCEPT !.todo = S]]
      BY <1>5 DEF Verify
    <2> QED BY <1>t, <1>h, <2>1, <2>2 DEF TypeOK
  <1>6. ASSUME CheckDep(a) PROVE Moves
    <2>1. hand[a].task \in Tasks
      BY <1>6, <1>i DEF CheckDep
    <2>2. /\ \E place \in {"accept", "deps", "delegate"} : pc' = [pc EXCEPT ![a] = place]
          /\ \E S : hand' = [hand EXCEPT ![a] = [hand[a] EXCEPT !.todo = S]]
      BY <1>6 DEF CheckDep
    <2>3. hand'[a].task = hand[a].task
      BY <1>t, <2>2 DEF TypeOK
    <2>4. \E place \in HandPlaces : pc' = [pc EXCEPT ![a] = place]
      BY <2>2
    <2>5. \E next : hand' = [hand EXCEPT ![a] = next]
      BY <2>2
    <2> QED BY <2>1, <2>3, <2>4, <2>5
  <1>7. ASSUME AutoAccept(a) \/ Delegate(a) PROVE Moves
    BY <1>7 DEF AutoAccept, Delegate, TypeOK
  <1>8. Moves
    BY <1>1, <1>2, <1>3, <1>4, <1>5, <1>6, <1>7 DEF HandlerStep, Works, Answers
  <1>9. call' = call
    BY DEF HandlerStep, Works, Answers, TaskStarted, TaskStatus, TaskAcceptResult,
           Write, Verify, CheckDep, AutoAccept, Delegate
  <1>10. /\ pc'[a] \in HandPlaces
         /\ \A p \in Callers \cup Agents : p # a => pc'[p] = pc[p]
         /\ \A b \in Agents : b # a => hand'[b] = hand[b]
    BY <1>8 DEF TypeOK
  <1>11. \A c \in Callers : c # a
    BY PeopleAssumption
  <1> QED BY <1>8, <1>9, <1>10, <1>11 DEF PlaceInv, Busy

LEMMA InitBase == Init => TypeOK /\ PlaceInv
  <1> SUFFICES ASSUME Init PROVE TypeOK /\ PlaceInv
    OBVIOUS
  <1>1. NoHand \in [task : Tasks \cup {NoTask}, todo : SUBSET Tasks]
    BY DEF NoHand
  <1>2. TypeOK
    BY <1>1, NoCallType, NumbersAssumption DEF Init, TypeOK, Table!TaskStatuses, CallPlaces
  <1>3. PlaceInv
    BY DEF Init, PlaceInv, Busy, CallPlaces, HandPlaces
  <1> QED BY <1>2, <1>3

LEMMA CrashBase == ASSUME TypeOK, Crash PROVE TypeOK' /\ PlaceInv'
  <1>1. NoHand \in [task : Tasks \cup {NoTask}, todo : SUBSET Tasks]
    BY DEF NoHand
  <1>2. crashes' \in 0..MaxCrashes
    BY NumbersAssumption DEF Crash, TypeOK
  <1>3. TypeOK'
    BY <1>1, <1>2, NoCallType DEF Crash, TypeOK, board, CallPlaces
  <1>4. PlaceInv'
    BY DEF Crash, PlaceInv, Busy, CallPlaces, HandPlaces
  <1> QED BY <1>3, <1>4

LEMMA NextBase == TypeOK /\ PlaceInv /\ [Next]_vars => TypeOK' /\ PlaceInv'
  <1> SUFFICES ASSUME TypeOK, PlaceInv, [Next]_vars PROVE TypeOK' /\ PlaceInv'
    OBVIOUS
  <1>1. ASSUME NEW c \in Callers, AssignTasks(c) \/ Reassign(c) \/ CallerStep(c)
        PROVE TypeOK' /\ PlaceInv'
    BY <1>1, CallerTypes, CallerPlaces
  <1>2. ASSUME NEW a \in Agents,
               HandlerStep(a) \/ \E t \in Tasks : Works(a, t) \/ Answers(a, t)
        PROVE TypeOK' /\ PlaceInv'
    BY <1>2, HandlerTypes, HandlerPlaces
  <1>3. ASSUME NEW t \in Tasks, Retry(t) PROVE TypeOK' /\ PlaceInv'
    BY <1>3 DEF Retry, TypeOK, PlaceInv, Busy, Table!TaskStatuses
  <1>4. CASE Crash
    BY <1>4, CrashBase
  <1>5. CASE UNCHANGED vars
    BY <1>5 DEF vars, TypeOK, PlaceInv, Busy
  <1> QED BY <1>1, <1>2, <1>3, <1>4, <1>5 DEF Next

\* The variables keep their types and a suspended process has a task to go on
\* with, for every graph and any number of callers.
THEOREM TypeCorrect == Spec => [](TypeOK /\ PlaceInv)
  <1>1. Init => TypeOK /\ PlaceInv
    BY InitBase
  <1>2. TypeOK /\ PlaceInv /\ [Next]_vars => (TypeOK /\ PlaceInv)'
    BY NextBase
  <1> QED BY <1>1, <1>2, PTL DEF Spec

-----------------------------------------------------------------------------
(* One caller at a time.                                                     *)

Single == \A c, d \in Callers : c = d

(* What is known of the rows survives a step that only moves a caller.        *)
LEMMA QuietKeeps ==
    ASSUME HandlerInv, WorkerInv, ReviewedIsDone,
           UNCHANGED <<row, owner, job, asked, hand>>,
           moved \subseteq moved', \A a \in Agents : pc'[a] = pc[a]
    PROVE HandlerInv' /\ WorkerInv' /\ ReviewedIsDone'
  <1>1. Steady' \subseteq Steady
    BY DEF Steady
  <1>2. HandlerInv'
    BY <1>1 DEF HandlerInv, Holds, Busy
  <1>3. WorkerInv' /\ ReviewedIsDone'
    BY <1>1 DEF WorkerInv, WorkerNamed, ReviewedIsDone
  <1> QED BY <1>2, <1>3

(* A call goes on with what is still pending.                                 *)
LEMMA GoesCallerInv ==
    ASSUME TypeOK, Single, NEW c \in Callers, NEW now \in CallLocals,
           NEW places \in {NextPlaces, PickPlaces}, Goes(c, now, places),
           now.left \cap now.batch = {},
           \A t \in (now.left \cup now.batch) \cap Steady' : row'[t] = "pending",
           \/ places = NextPlaces
           \/ /\ now.task \notin now.left \cup now.batch
              /\ now.task \in Steady' => row'[now.task] = "pending"
    PROVE CallerInv'
  <1>1. PICK place \in places, next \in CallLocals :
            /\ Follows(now, place, next)
            /\ call' = [call EXCEPT ![c] = next]
            /\ pc' = [pc EXCEPT ![c] = place]
    BY DEF Goes
  <1>2. pc'[c] = place /\ call'[c] = next
    BY <1>1 DEF TypeOK
  <1>3. \A d \in Callers : d = c
    BY DEF Single
  <1>4. place \in {"idle", "find", "assign"}
    BY <1>1 DEF Follows
  <1>5. CASE place = "idle"
    BY <1>2, <1>3, <1>5 DEF CallerInv, Busy
  <1>6. CASE place = "find"
    <2>1. /\ next.left \cup next.batch \cup {next.task} \subseteq now.left \cup now.batch
          /\ next.left \cap next.batch = {}
          /\ next.task \notin next.left \cup next.batch
      BY <1>1, <1>6 DEF Follows
    <2> QED BY <1>2, <1>3, <1>6, <2>1 DEF CallerInv, Busy
  <1>7. CASE place = "assign"
    <2>1. places # NextPlaces
      BY <1>7 DEF NextPlaces
    <2>2. next.task = now.task /\ next.left = now.left /\ next.batch = now.batch
      BY <1>1, <1>7 DEF Follows
    <2> QED BY <1>2, <1>3, <1>7, <2>1, <2>2 DEF CallerInv, Busy
  <1> QED BY <1>4, <1>5, <1>6, <1>7

(* The steps of a call that do not touch the board.                           *)
LEMMA LookingKeeps ==
    ASSUME TypeOK, BoardInv, Single, NEW c \in Callers,
           AssignTasks(c) \/ Reassign(c) \/ Find(c) \/ LoadOne(c) \/ PickOther(c)
    PROVE HandlerInv' /\ WorkerInv' /\ ReviewedIsDone' /\ CallerInv'
  <1>t. call[c] \in CallLocals
    BY DEF TypeOK
  <1>1. UNCHANGED <<row, owner, job, asked, hand>> /\ moved \subseteq moved'
    BY DEF AssignTasks, Reassign, Find, LoadOne, PickOther, board
  <1>2. \E place : pc' = [pc EXCEPT ![c] = place]
    <2>1. CASE AssignTasks(c)
      BY <2>1 DEF AssignTasks, NextTask, Goto
    <2>2. CASE Reassign(c)
      BY <2>2 DEF Reassign, Goto
    <2>3. CASE Find(c)
      BY <2>3 DEF Find, Pick, NextTask, Goto
    <2>4. CASE LoadOne(c)
      <3>1. pc = [pc EXCEPT ![c] = pc[c]]
        BY DEF TypeOK
      <3> QED BY <2>4, <3>1 DEF LoadOne, Pick, NextTask, Goto
    <2>5. CASE PickOther(c)
      BY <2>5 DEF PickOther, Goto
    <2> QED BY <2>1, <2>2, <2>3, <2>4, <2>5
  <1>3. \A a \in Agents : pc'[a] = pc[a]
    BY <1>2, PeopleAssumption DEF TypeOK
  <1>4. HandlerInv' /\ WorkerInv' /\ ReviewedIsDone'
    BY <1>1, <1>3, QuietKeeps DEF BoardInv
  <1>5. \A d \in Callers : d = c
    BY DEF Single
  <1>6. CallerInv
    BY DEF BoardInv
  <1>7. Steady' \subseteq Steady
    BY <1>1 DEF Steady
  <1>8. ASSUME AssignTasks(c) PROVE CallerInv'
    <2> DEFINE now == [NoCall EXCEPT !.left = {t \in Tasks : Assignable(t)},
                                     !.counted = {t \in Tasks : row[t] \in {"done", "accepted"}}]
    <2>1. /\ now \in CallLocals
          /\ now.left = {t \in Tasks : Assignable(t)} /\ now.batch = {}
      BY NoCallType DEF CallLocals, NoCall
    <2>2. Goes(c, now, NextPlaces)
      BY <1>8, <2>1, NextTaskGoes DEF AssignTasks
    <2>3. \A t \in now.left : row'[t] = "pending"
      BY <1>1, <2>1 DEF Assignable
    <2> HIDE DEF now
    <2> QED BY <2>1, <2>2, <2>3, GoesCallerInv
  <1>9. ASSUME Reassign(c) PROVE CallerInv'
    <2>1. PICK t \in Tasks :
              /\ moved' = moved \cup {t}
              /\ call' = [call EXCEPT ![c] = [NoCall EXCEPT !.task = t, !.agent = owner[t]]]
      BY <1>9 DEF Reassign
    <2>2. /\ call'[c].left = {} /\ call'[c].batch = {} /\ call'[c].task = t
          /\ pc'[c] = "other"
      BY <1>9, <2>1 DEF Reassign, Goto, NoCall, TypeOK
    <2> QED BY <1>5, <2>1, <2>2 DEF CallerInv
  <1>10. ASSUME Find(c) \/ LoadOne(c) PROVE CallerInv'
    <2>1. \E now \in CallLocals :
             /\ now.left = call[c].left /\ now.batch = call[c].batch /\ now.task = call[c].task
             /\ \/ Pick(c, now)
                \/ /\ call' = [call EXCEPT ![c] = now]
                   /\ pc' = [pc EXCEPT ![c] = "load"]
      <3>1. CASE Find(c)
        <4>1. PICK S \in SUBSET Agents :
                 LET now == [call[c] EXCEPT !.cand = S] IN
                 IF S \subseteq now.known
                   THEN Pick(c, now)
                   ELSE call' = [call EXCEPT ![c] = now] /\ Goto(c, "load")
          BY <3>1 DEF Find
        <4>2. LET now == [call[c] EXCEPT !.cand = S] IN
              /\ now \in CallLocals /\ now.left = call[c].left
              /\ now.batch = call[c].batch /\ now.task = call[c].task
          BY <1>t DEF CallLocals
        <4> QED BY <4>1, <4>2 DEF Goto
      <3>2. CASE LoadOne(c)
        <4>1. PICK a \in Agents :
                 LET now == [call[c] EXCEPT !.known = @ \cup {a}, !.loads[a] = Load(a)] IN
                 IF now.cand \subseteq now.known
                   THEN Pick(c, now)
                   ELSE call' = [call EXCEPT ![c] = now] /\ UNCHANGED pc
          BY <1>t, <3>2 DEF LoadOne, CallLocals
        <4>2. [call[c].loads EXCEPT ![a] = Load(a)] \in [Agents -> Nat]
          BY <1>t, LoadType DEF CallLocals
        <4>3. LET now == [call[c] EXCEPT !.known = @ \cup {a}, !.loads[a] = Load(a)] IN
              /\ now \in CallLocals /\ now.left = call[c].left
              /\ now.batch = call[c].batch /\ now.task = call[c].task
          BY <1>t, <4>2 DEF CallLocals
        <4>4. pc = [pc EXCEPT ![c] = "load"]
          BY <3>2 DEF LoadOne, At, TypeOK
        <4> QED BY <4>1, <4>3, <4>4
      <3> QED BY <1>10, <3>1, <3>2
    <2>2. PICK now \in CallLocals :
             /\ now.left = call[c].left /\ now.batch = call[c].batch /\ now.task = call[c].task
             /\ \/ Pick(c, now)
                \/ /\ call' = [call EXCEPT ![c] = now]
                   /\ pc' = [pc EXCEPT ![c] = "load"]
      BY <2>1
    <2>3. pc[c] \in {"find", "load"}
      BY <1>10 DEF Find, LoadOne, At
    <2>4. now.task \in Tasks
      BY <2>2, <2>3 DEF BoardInv, PlaceInv, Busy
    <2>5. /\ now.left \cap now.batch = {} /\ now.task \notin now.left \cup now.batch
          /\ \A t \in (now.left \cup now.batch) \cap Steady' : row'[t] = "pending"
      BY <1>1, <1>6, <1>7, <2>2, <2>3 DEF CallerInv, Busy
    <2>6. now.task \in Steady' => row'[now.task] = "pending"
      <3>1. CASE pc[c] = "find"
        BY <1>1, <1>6, <1>7, <2>2, <3>1 DEF CallerInv, Busy
      <3>2. CASE pc[c] = "load"
        BY <1>1, <1>6, <1>7, <2>2, <3>2 DEF CallerInv, Busy
      <3> QED BY <2>3, <3>1, <3>2
    <2>7. CASE Pick(c, now)
      BY <2>4, <2>5, <2>6, <2>7, PickGoes, GoesCallerInv
    <2>8. CASE call' = [call EXCEPT ![c] = now] /\ pc' = [pc EXCEPT ![c] = "load"]
      <3>1. call'[c] = now /\ pc'[c] = "load"
        BY <2>8 DEF TypeOK
      <3> QED BY <1>5, <2>5, <2>6, <3>1 DEF CallerInv
    <2> QED BY <2>2, <2>7, <2>8
  <1>11. ASSUME PickOther(c) PROVE CallerInv'
    <2>1. call[c].task \in moved /\ moved' = moved /\ pc[c] = "other"
      BY <1>6, <1>11 DEF PickOther, At, CallerInv, Busy
    <2>2. CASE pc'[c] = "idle"
      BY <1>5, <2>2 DEF CallerInv, Busy
    <2>3. CASE pc'[c] # "idle"
      <3>1. PICK a \in Agents : call' = [call EXCEPT ![c] = [call[c] EXCEPT !.agent = a]]
        BY <1>11, <2>3 DEF PickOther, Goto, TypeOK
      <3>2. pc'[c] = "assign"
        BY <1>11, <2>3 DEF PickOther, Goto, TypeOK
      <3>3. /\ call'[c].left = call[c].left /\ call'[c].batch = call[c].batch
            /\ call'[c].task = call[c].task
        BY <1>t, <3>1 DEF TypeOK, CallLocals
      <3> QED BY <1>1, <1>5, <1>6, <1>7, <2>1, <3>2, <3>3 DEF CallerInv, Busy, Steady
    <2> QED BY <2>2, <2>3
  <1>12. CallerInv'
    BY <1>8, <1>9, <1>10, <1>11
  <1> QED BY <1>4, <1>12

(* Nobody deals with a task that is pending or failed.                        *)
LEMMA NobodyOn ==
    ASSUME BoardInv, NEW t \in Steady, row[t] \in {"pending", "failed"}
    PROVE /\ \A a \in Agents : /\ ~ (Busy(a) /\ hand[a].task = t)
                               /\ job[t][a] \notin {"told", "started"}
          /\ \A q \in asked : q[1] # t
  <1>1. ASSUME NEW a \in Agents, Busy(a), hand[a].task = t PROVE FALSE
    <2>1. pc[a] \in HandPlaces \ {"idle"}
      BY <1>1 DEF BoardInv, PlaceInv, Busy
    <2>2. /\ pc[a] = "running" => row[t] = "assigned"
          /\ pc[a] \in {"done", "failed"} => <<row[t], pc[a]>> \in Table!Valid
          /\ pc[a] \in {"verify", "deps", "accept", "delegate", "accepted", "rejected"} =>
                row[t] = "done"
          /\ pc[a] = "pending" => row[t] = "rejected"
      BY <1>1 DEF BoardInv, HandlerInv, Holds
    <2> QED BY <2>1, <2>2 DEF HandPlaces, Table!Valid
  <1>2. ASSUME NEW a \in Agents, job[t][a] \in {"told", "started"} PROVE FALSE
    BY <1>2 DEF BoardInv, WorkerInv, WorkerNamed, Active
  <1>3. \A q \in asked : q[1] # t
    BY DEF BoardInv, ReviewedIsDone
  <1> QED BY <1>1, <1>2, <1>3

LEMMA AssignKeeps ==
    ASSUME TypeOK, BoardInv, Single, NEW c \in Callers, Assign(c)
    PROVE HandlerInv' /\ WorkerInv' /\ ReviewedIsDone' /\ CallerInv'
  <1> DEFINE t == call[c].task
  <1>1. /\ t \in Tasks /\ pc[c] = "assign"
        /\ t \in Steady => row[t] = "pending"
        /\ t \notin call[c].left \cup call[c].batch
    BY DEF Assign, At, BoardInv, PlaceInv, CallerInv, Busy
  <1>2. /\ row'[t] = "assigned" /\ owner'[t] = call[c].agent
        /\ \A u \in Tasks : u # t => row'[u] = row[u] /\ owner'[u] = owner[u]
        /\ UNCHANGED <<job, asked, call, hand, moved>> /\ Steady' = Steady
    BY <1>1 DEF Assign, TypeOK, Steady
  <1>3. /\ \A a \in Agents : pc'[a] = pc[a]
        /\ pc'[c] = "tell"
    BY PeopleAssumption DEF Assign, Goto, TypeOK
  <1>4. t \in Steady =>
            /\ \A a \in Agents : /\ ~ (Busy(a) /\ hand[a].task = t)
                                 /\ job[t][a] \notin {"told", "started"}
            /\ \A q \in asked : q[1] # t
    BY <1>1, NobodyOn
  <1>5. Steady \subseteq Tasks
    BY DEF Steady
  <1>6. HandlerInv'
    <2> SUFFICES ASSUME NEW a \in Agents, NEW u \in Steady, Busy(a)', hand'[a].task = u
                 PROVE /\ u # t
                       /\ Busy(a) /\ hand[a].task = u
      BY <1>2, <1>3, <1>5 DEF HandlerInv, Holds, BoardInv, Busy
    <2> QED BY <1>2, <1>3, <1>4 DEF Busy
  <1>7. WorkerInv'
    BY <1>2, <1>4, <1>5 DEF WorkerInv, WorkerNamed, BoardInv
  <1>8. ReviewedIsDone'
    BY <1>2, <1>4, <1>5 DEF ReviewedIsDone, BoardInv
  <1>9. CallerInv'
    <2>1. \A d \in Callers : d = c
      BY DEF Single
    <2>2. \A u \in (call[c].left \cup call[c].batch) \cap Steady : row'[u] = "pending"
      BY <1>1, <1>2, <1>5 DEF BoardInv, CallerInv, Busy
    <2>3. call[c].left \cap call[c].batch = {}
      BY <1>1 DEF BoardInv, CallerInv, Busy
    <2>4. t \in Steady => \A a \in Agents : /\ job'[t][a] \notin {"told", "started"}
                                            /\ Busy(a)' => hand'[a].task # t
      BY <1>2, <1>3, <1>4 DEF Busy
    <2> QED BY <1>1, <1>2, <1>3, <2>1, <2>2, <2>3, <2>4 DEF CallerInv, Busy
  <1> QED BY <1>6, <1>7, <1>8, <1>9

LEMMA TellKeeps ==
    ASSUME TypeOK, BoardInv, Single, NEW c \in Callers, Tell(c)
    PROVE HandlerInv' /\ WorkerInv' /\ ReviewedIsDone' /\ CallerInv'
  <1> DEFINE t == call[c].task
             a == call[c].agent
  <1>1. t \in Tasks /\ a \in Agents /\ pc[c] = "tell"
    BY DEF Tell, At, BoardInv, PlaceInv, Busy
  <1>2. t \in Steady =>
            /\ row[t] = "assigned" /\ owner[t] = a
            /\ \A b \in Agents : /\ job[t][b] \notin {"told", "started"}
                                 /\ Busy(b) => hand[b].task # t
    BY <1>1 DEF BoardInv, CallerInv, Busy
  <1>3. UNCHANGED <<row, owner, asked, hand, moved>> /\ Steady' = Steady
    BY DEF Tell, board, Steady
  <1>4. \A u \in Tasks, b \in Agents : job'[u][b] = job[u][b] \/ (u = t /\ b = a /\ job'[u][b] = "told")
    BY <1>1 DEF Tell, TypeOK
  <1>5. NextTask(c, Told(c))
    BY DEF Tell
  <1>6. \E place : pc' = [pc EXCEPT ![c] = place]
    BY <1>5 DEF NextTask, Goto
  <1>7. \A b \in Agents : pc'[b] = pc[b]
    BY <1>6, PeopleAssumption DEF TypeOK
  <1>8. Steady \subseteq Tasks
    BY DEF Steady
  <1>9. HandlerInv'
    <2> SUFFICES ASSUME NEW b \in Agents, NEW u \in Steady, Busy(b)', hand'[b].task = u
                 PROVE Busy(b) /\ hand[b].task = u /\ job'[u][b] = job[u][b]
      BY <1>3, <1>7, <1>8 DEF HandlerInv, Holds, BoardInv, Busy
    <2>1. Busy(b) /\ hand[b].task = u
      BY <1>3, <1>7 DEF Busy
    <2>2. u # t
      BY <1>2, <2>1
    <2> QED BY <1>4, <1>8, <2>1, <2>2
  <1>10. WorkerInv'
    <2> SUFFICES ASSUME NEW u \in Steady, NEW b \in Agents, job'[u][b] \in {"told", "started"}
                 PROVE /\ owner[u] = b /\ row[u] \in Active
                       /\ job'[u][b] = "told" => row[u] = "assigned"
      BY <1>3 DEF WorkerInv, WorkerNamed
    <2>1. CASE job'[u][b] = job[u][b]
      BY <2>1 DEF BoardInv, WorkerInv, WorkerNamed
    <2>2. CASE u = t /\ b = a
      BY <1>2, <2>2 DEF Active
    <2> QED BY <1>4, <1>8, <2>1, <2>2
  <1>11. ReviewedIsDone'
    BY <1>3 DEF BoardInv, ReviewedIsDone
  <1>12. CallerInv'
    <2>t. call[c] \in CallLocals
      BY DEF TypeOK
    <2>l. [call[c].loads EXCEPT ![a] = @ + 1] \in [Agents -> Nat]
      BY <1>1, <2>t DEF CallLocals
    <2>1. Told(c) \in CallLocals /\ Told(c).left = call[c].left /\ Told(c).batch = call[c].batch
      BY <2>t, <2>l DEF Told, CallLocals
    <2>2. /\ call[c].left \cap call[c].batch = {}
          /\ \A u \in (call[c].left \cup call[c].batch) \cap Steady : row[u] = "pending"
      BY <1>1 DEF BoardInv, CallerInv, Busy
    <2> QED BY <1>3, <1>5, <2>1, <2>2, NextTaskGoes, GoesCallerInv
  <1> QED BY <1>9, <1>10, <1>11, <1>12

(* Tasks nobody deals with, and what a handler must leave alone for a call.     *)
Untouched(t) ==
    /\ row[t] = "assigned"
    /\ \A a \in Agents : /\ job[t][a] \notin {"told", "started"}
                         /\ Busy(a) => hand[a].task # t

LEMMA CallerInvKept ==
    ASSUME PlaceInv, CallerInv, UNCHANGED <<owner, call, moved>>,
           \A c \in Callers : pc'[c] = pc[c],
           \A t \in Steady : row[t] = "pending" => row'[t] = "pending",
           \A t \in Steady : Untouched(t) => Untouched(t)'
    PROVE CallerInv'
  <1>1. Steady' = Steady
    BY DEF Steady
  <1> SUFFICES ASSUME NEW c \in Callers, Busy(c)
               PROVE /\ \A t \in (call[c].left \cup call[c].batch) \cap Steady : row'[t] = "pending"
                     /\ pc[c] \in {"find", "load", "assign"} /\ call[c].task \in Steady =>
                           row'[call[c].task] = "pending"
                     /\ pc[c] = "tell" /\ call[c].task \in Steady => Untouched(call[c].task)'
    BY <1>1 DEF CallerInv, Busy, Untouched
  <1>2. pc[c] = "tell" /\ call[c].task \in Steady => Untouched(call[c].task)
    BY DEF CallerInv, Untouched
  <1> QED BY <1>2 DEF CallerInv

(* What is known of a task in the hands of a handler.                          *)
LEMMA InHand ==
    ASSUME BoardInv, NEW b \in Agents, NEW t \in Steady, Busy(b), hand[b].task = t
    PROVE /\ row[t] \in Active => owner[t] = b
          /\ \A q \in asked : q[1] # t
          /\ \A d \in Agents \ {b} : Busy(d) => hand[d].task # t
  <1>1. pc[b] \in HandPlaces \ {"idle"}
    BY DEF BoardInv, PlaceInv, Busy
  <1>2. Holds(b, t)
    BY DEF BoardInv, HandlerInv
  <1>3. pc[b] \in {"running", "done", "failed"} => owner[t] = b
    BY <1>2 DEF Holds
  <1> QED BY <1>1, <1>2, <1>3 DEF Holds, HandPlaces, Active

(* A handler that takes a task and has not written yet.                       *)
LEMMA TakesKeeps ==
    ASSUME TypeOK, BoardInv, NEW a \in Agents, NEW t \in Tasks, At(a, "idle"),
           NEW place \in HandPlaces \ {"idle"}, Take(a, t), Goto(a, place),
           UNCHANGED <<row, owner, call, moved>>,
           asked' \subseteq asked, t \in Steady => \A q \in asked' : q[1] # t,
           \A u \in Tasks, b \in Agents : job'[u][b] = job[u][b] \/ (u = t /\ b = a),
           t \in Steady => \A b \in Agents : Busy(b) => hand[b].task # t,
           t \in Steady => ~ Untouched(t),
           t \in Steady /\ job'[t][a] \in {"told", "started"} =>
                              job'[t][a] = "started" /\ owner[t] = a /\ row[t] \in Active,
           t \in Steady => 
              /\ place = "running" => job'[t][a] = "started" /\ row[t] = "assigned" /\ owner[t] = a
              /\ place \in {"done", "failed"} =>
                    job'[t][a] = "reported" /\ owner[t] = a /\ <<row[t], place>> \in Table!Valid
              /\ place \in {"verify", "deps", "accept", "delegate", "accepted", "rejected"} =>
                    row[t] = "done"
              /\ place = "pending" => row[t] = "rejected"
    PROVE HandlerInv' /\ WorkerInv' /\ ReviewedIsDone' /\ CallerInv'
  <1>1. /\ pc'[a] = place /\ hand'[a].task = t
        /\ \A b \in Agents \ {a} : pc'[b] = pc[b] /\ hand'[b] = hand[b]
        /\ \A c \in Callers : pc'[c] = pc[c]
    BY PeopleAssumption DEF Take, Goto, TypeOK
  <1>2. Steady' = Steady /\ Steady \subseteq Tasks
    BY DEF Steady
  <1>3. HandlerInv'
    <2> SUFFICES ASSUME NEW b \in Agents, NEW u \in Steady, Busy(b)', hand'[b].task = u
                 PROVE Holds(b, u)'
      BY <1>2 DEF HandlerInv
    <2>1. CASE b = a
      BY <1>1, <2>1 DEF Holds, Busy
    <2>2. CASE b # a
      <3>1. Busy(b) /\ hand[b].task = u /\ pc'[b] = pc[b]
        BY <1>1, <2>2 DEF Busy
      <3>2. job'[u][b] = job[u][b] /\ u # t
        BY <1>2, <2>2, <3>1
      <3> QED BY <1>1, <2>2, <3>1, <3>2 DEF BoardInv, HandlerInv, Holds, Busy
    <2> QED BY <2>1, <2>2
  <1>4. WorkerInv'
    <2> SUFFICES ASSUME NEW u \in Steady, NEW b \in Agents, job'[u][b] \in {"told", "started"}
                 PROVE /\ owner[u] = b /\ row[u] \in Active
                       /\ job'[u][b] = "told" => row[u] = "assigned"
      BY <1>2 DEF WorkerInv, WorkerNamed
    <2>1. CASE job'[u][b] = job[u][b]
      BY <2>1 DEF BoardInv, WorkerInv, WorkerNamed
    <2>2. CASE u = t /\ b = a
      BY <2>2
    <2> QED BY <1>2, <2>1, <2>2
  <1>5. ReviewedIsDone'
    BY <1>2 DEF BoardInv, ReviewedIsDone
  <1>6. \A u \in Steady : Untouched(u) => Untouched(u)'
    <2> SUFFICES ASSUME NEW u \in Steady, Untouched(u) PROVE Untouched(u)'
      OBVIOUS
    <2>1. u # t
      OBVIOUS
    <2> QED BY <1>1, <1>2, <2>1 DEF Untouched, Busy
  <1>7. CallerInv'
    BY <1>1, <1>6, CallerInvKept DEF BoardInv
  <1> QED BY <1>3, <1>4, <1>5, <1>7

LEMMA TaskStartedKeeps ==
    ASSUME TypeOK, BoardInv, NEW a \in Agents, NEW t \in Tasks, TaskStarted(a, t)
    PROVE HandlerInv' /\ WorkerInv' /\ ReviewedIsDone' /\ CallerInv'
  <1>1. /\ At(a, "idle") /\ Take(a, t) /\ Goto(a, "running") /\ asked' = asked
        /\ UNCHANGED <<row, owner, call, moved>> /\ job[t][a] = "told"
    BY DEF TaskStarted, board
  <1>2. /\ job'[t][a] = "started"
        /\ \A u \in Tasks, b \in Agents : job'[u][b] = job[u][b] \/ (u = t /\ b = a)
    BY DEF TaskStarted, TypeOK
  <1>3. t \in Steady => row[t] = "assigned" /\ owner[t] = a
    BY <1>1 DEF BoardInv, WorkerInv, WorkerNamed
  <1>4. t \in Steady => \A b \in Agents : Busy(b) => hand[b].task # t
    <2> SUFFICES ASSUME t \in Steady, NEW b \in Agents, Busy(b), hand[b].task = t PROVE FALSE
      OBVIOUS
    <2>1. b # a
      BY <1>1 DEF Busy, At
    <2>2. row[t] \in Active => owner[t] = b
      BY InHand
    <2> QED BY <1>3, <2>1, <2>2 DEF Active
  <1>5. t \in Steady => \A q \in asked : q[1] # t
    BY <1>3 DEF BoardInv, ReviewedIsDone
  <1>6. ~ Untouched(t)
    BY <1>1 DEF Untouched
  <1>7. "running" \in HandPlaces \ {"idle"}
    BY DEF HandPlaces
  <1> QED BY <1>1, <1>2, <1>3, <1>4, <1>5, <1>6, <1>7, TakesKeeps DEF Active

LEMMA TaskAcceptResultKeeps ==
    ASSUME TypeOK, BoardInv, NEW a \in Agents, NEW t \in Tasks,
           NEW verdict \in {"accepted", "rejected"}, TaskAcceptResult(a, t, verdict)
    PROVE HandlerInv' /\ WorkerInv' /\ ReviewedIsDone' /\ CallerInv'
  <1>1. /\ At(a, "idle") /\ Take(a, t) /\ Goto(a, verdict) /\ asked' = asked \ {<<t, a>>}
        /\ UNCHANGED <<row, owner, job, call, moved>> /\ <<t, a>> \in asked
    BY DEF TaskAcceptResult, board
  <1>2. t \in Steady => row[t] = "done" /\ \A q \in asked : q[1] = t => q = <<t, a>>
    <2>1. <<t, a>>[1] = t
      OBVIOUS
    <2> QED BY <1>1, <2>1 DEF BoardInv, ReviewedIsDone
  <1>3. t \in Steady => \A b \in Agents : Busy(b) => hand[b].task # t
    <2> SUFFICES ASSUME t \in Steady, NEW b \in Agents, Busy(b), hand[b].task = t PROVE FALSE
      OBVIOUS
    <2>1. \A q \in asked : q[1] # t
      BY InHand
    <2>2. <<t, a>>[1] = t
      OBVIOUS
    <2> QED BY <1>1, <2>1, <2>2
  <1>4. t \in Steady => job[t][a] \notin {"told", "started"}
    BY <1>2 DEF BoardInv, WorkerInv, WorkerNamed, Active
  <1>5. t \in Steady => ~ Untouched(t)
    BY <1>2 DEF Untouched
  <1>6. verdict \in HandPlaces \ {"idle"}
    BY DEF HandPlaces
  <1> QED BY <1>1, <1>2, <1>3, <1>4, <1>5, <1>6, TakesKeeps

LEMMA TaskStatusKeeps ==
    ASSUME TypeOK, BoardInv, NEW a \in Agents, NEW t \in Tasks,
           NEW result \in {"done", "failed"}, TaskStatus(a, t, result)
    PROVE HandlerInv' /\ WorkerInv' /\ ReviewedIsDone' /\ CallerInv'
  <1>1. /\ At(a, "idle") /\ asked' = asked
        /\ UNCHANGED <<row, owner, call, moved>> /\ job[t][a] = "started"
    BY DEF TaskStatus, board
  <1>2. /\ job'[t][a] = "reported"
        /\ \A u \in Tasks, b \in Agents : job'[u][b] = job[u][b] \/ (u = t /\ b = a)
    BY DEF TaskStatus, TypeOK
  <1>3. t \in Steady => row[t] \in Active /\ owner[t] = a
    BY <1>1 DEF BoardInv, WorkerInv, WorkerNamed
  <1>4. t \in Steady => \A b \in Agents : Busy(b) => hand[b].task # t
    <2> SUFFICES ASSUME t \in Steady, NEW b \in Agents, Busy(b), hand[b].task = t PROVE FALSE
      OBVIOUS
    <2>1. b # a
      BY <1>1 DEF Busy, At
    <2>2. row[t] \in Active => owner[t] = b
      BY InHand
    <2> QED BY <1>3, <2>1, <2>2
  <1>5. t \in Steady => \A q \in asked : q[1] # t
    BY <1>3 DEF BoardInv, ReviewedIsDone, Active
  <1>6. ~ Untouched(t)
    BY <1>1 DEF Untouched
  <1>7. CASE <<row[t], result>> \in Table!Valid
    <2>1. Take(a, t) /\ Goto(a, result)
      BY <1>7 DEF TaskStatus
    <2>2. result \in HandPlaces \ {"idle"}
      BY DEF HandPlaces
    <2> QED BY <1>1, <1>2, <1>3, <1>4, <1>5, <1>6, <1>7, <2>1, <2>2, TakesKeeps
  <1>8. CASE <<row[t], result>> \notin Table!Valid
    <2>1. UNCHANGED <<hand, pc>>
      BY <1>8 DEF TaskStatus
    <2>2. Steady' = Steady /\ Steady \subseteq Tasks
      BY <1>1 DEF Steady
    <2>3. HandlerInv'
      BY <1>1, <1>2, <1>4, <2>1, <2>2 DEF BoardInv, HandlerInv, Holds, Busy
    <2>4. WorkerInv' /\ ReviewedIsDone'
      BY <1>1, <1>2, <2>2 DEF BoardInv, WorkerInv, WorkerNamed, ReviewedIsDone
    <2>5. \A u \in Steady : Untouched(u) => Untouched(u)'
      BY <1>1, <1>2, <1>6, <2>1, <2>2 DEF Untouched, Busy
    <2>6. CallerInv'
      BY <1>1, <2>1, <2>5, CallerInvKept DEF BoardInv
    <2> QED BY <2>3, <2>4, <2>6
  <1> QED BY <1>7, <1>8

(* A handler that goes on with the task it has, and may write its status.       *)
LEMMA GoesOnKeeps ==
    ASSUME TypeOK, BoardInv, NEW a \in Agents, Busy(a), NEW t \in Tasks, hand[a].task = t,
           NEW place \in {"idle", "verify", "deps", "accept", "delegate", "pending"},
           NEW status, row' = [row EXCEPT ![t] = status], Goto(a, place),
           \A b \in Agents \ {a} : hand'[b] = hand[b],
           place = "idle" \/ hand'[a].task = t,
           UNCHANGED <<owner, job, call, moved>>,
           \/ asked' = asked
           \/ /\ place = "idle" /\ t \in Steady => status = "done"
              /\ \E r \in Agents : asked' = asked \cup {<<t, r>>} /\ place = "idle",
           t \in Steady =>
              /\ place \in {"verify", "deps", "accept", "delegate"} => status = "done"
              /\ place = "pending" => status = "rejected"
              /\ row[t] # "pending"
              /\ \A b \in Agents : job[t][b] \in {"told", "started"} =>
                    status \in Active /\ (job[t][b] = "told" => status = "assigned")
    PROVE HandlerInv' /\ WorkerInv' /\ ReviewedIsDone' /\ CallerInv'
  <1>1. /\ pc'[a] = place
        /\ \A b \in Agents \ {a} : pc'[b] = pc[b]
        /\ \A c \in Callers : pc'[c] = pc[c]
    BY PeopleAssumption DEF Goto, TypeOK
  <1>2. Steady' = Steady /\ Steady \subseteq Tasks
    BY DEF Steady
  <1>3. row'[t] = status /\ \A u \in Tasks \ {t} : row'[u] = row[u]
    BY DEF TypeOK
  <1>4. \A q \in asked' : q \in asked \/ q[1] = t
    OBVIOUS
  <1>5. t \in Steady => /\ \A q \in asked : q[1] # t
                        /\ \A b \in Agents \ {a} : Busy(b) => hand[b].task # t
    BY InHand
  <1>6. HandlerInv'
    <2> SUFFICES ASSUME NEW b \in Agents, NEW u \in Steady, Busy(b)', hand'[b].task = u
                 PROVE Holds(b, u)'
      BY <1>2 DEF HandlerInv
    <2>1. CASE b = a
      <3>1. u = t /\ asked' = asked
        BY <1>1, <2>1 DEF Busy
      <3> QED BY <1>1, <1>2, <1>3, <1>5, <2>1, <3>1 DEF Holds, Busy
    <2>2. CASE b # a
      <3>1. Busy(b) /\ hand[b].task = u /\ pc'[b] = pc[b]
        BY <1>1, <2>2 DEF Busy
      <3>2. u # t
        BY <1>5, <2>2, <3>1
      <3>3. Holds(b, u)
        BY <3>1 DEF BoardInv, HandlerInv
      <3>4. \A q \in asked' : q[1] # u
        BY <1>4, <3>2, <3>3 DEF Holds
      <3>5. \A d \in Agents \ {b} : Busy(d)' => hand'[d].task # u
        <4> SUFFICES ASSUME NEW d \in Agents \ {b}, Busy(d)' PROVE hand'[d].task # u
          OBVIOUS
        <4>1. CASE d = a
          BY <1>1, <3>2, <4>1 DEF Busy
        <4>2. CASE d # a
          BY <1>1, <3>3, <4>2 DEF Holds, Busy
        <4> QED BY <4>1, <4>2
      <3> QED BY <1>2, <1>3, <3>1, <3>2, <3>3, <3>4, <3>5 DEF Holds
    <2> QED BY <2>1, <2>2
  <1>7. WorkerInv'
    <2> SUFFICES ASSUME NEW u \in Steady, NEW b \in Agents, job[u][b] \in {"told", "started"}
                 PROVE /\ owner[u] = b /\ row'[u] \in Active
                       /\ job[u][b] = "told" => row'[u] = "assigned"
      BY <1>2 DEF WorkerInv, WorkerNamed
    <2>1. owner[u] = b /\ row[u] \in Active /\ (job[u][b] = "told" => row[u] = "assigned")
      BY DEF BoardInv, WorkerInv, WorkerNamed
    <2> QED BY <1>2, <1>3, <2>1
  <1>8. ReviewedIsDone'
    <2> SUFFICES ASSUME NEW q \in asked', q[1] \in Steady
                 PROVE row'[q[1]] = "done" /\ \A p \in asked' : p[1] = q[1] => p = q
      BY <1>2 DEF ReviewedIsDone
    <2>1. CASE asked' = asked
      <3>1. row[q[1]] = "done" /\ \A p \in asked' : p[1] = q[1] => p = q
        BY <2>1 DEF BoardInv, ReviewedIsDone
      <3>2. q[1] # t
        BY <1>5, <2>1
      <3> QED BY <1>2, <1>3, <3>1, <3>2
    <2>2. CASE asked' # asked
      <3>1. PICK r \in Agents : asked' = asked \cup {<<t, r>>}
        BY <2>2
      <3>2. <<t, r>>[1] = t
        OBVIOUS
      <3>3. CASE q[1] = t
        BY <1>3, <1>5, <2>2, <3>1, <3>2, <3>3
      <3>4. CASE q[1] # t
        <4>1. q \in asked
          BY <1>4, <3>4
        <4>2. row[q[1]] = "done" /\ \A p \in asked : p[1] = q[1] => p = q
          BY <4>1 DEF BoardInv, ReviewedIsDone
        <4> QED BY <1>2, <1>3, <3>1, <3>2, <3>4, <4>2
      <3> QED BY <3>3, <3>4
    <2> QED BY <2>1, <2>2
  <1>9. \A u \in Steady : Untouched(u) => Untouched(u)'
    <2> SUFFICES ASSUME NEW u \in Steady, Untouched(u) PROVE Untouched(u)'
      OBVIOUS
    <2>1. u # t
      BY DEF Untouched
    <2> QED BY <1>1, <1>2, <1>3, <2>1 DEF Untouched, Busy
  <1>10. \A u \in Steady : row[u] = "pending" => row'[u] = "pending"
    BY <1>2, <1>3
  <1>11. CallerInv'
    BY <1>1, <1>9, <1>10, CallerInvKept DEF BoardInv
  <1> QED BY <1>6, <1>7, <1>8, <1>11

(* What the handlers do between taking a task and letting it go.                *)
LEMMA WriteKeeps ==
    ASSUME TypeOK, BoardInv, NEW a \in Agents, Write(a)
    PROVE HandlerInv' /\ WorkerInv' /\ ReviewedIsDone' /\ CallerInv'
  <1> DEFINE t == hand[a].task
  <1>1. /\ pc[a] \in {"running", "done", "failed", "accepted", "rejected", "pending"}
        /\ row' = [row EXCEPT ![t] = pc[a]] /\ Goto(a, FollowedBy(pc[a]))
        /\ UNCHANGED <<owner, job, asked, call, moved>>
    BY DEF Write
  <1>2. Busy(a)
    BY <1>1 DEF Busy
  <1>3. t \in Tasks
    BY <1>2 DEF BoardInv, PlaceInv
  <1>4. FollowedBy(pc[a]) \in {"idle", "verify", "pending"}
    BY DEF FollowedBy
  <1>5. /\ \A b \in Agents \ {a} : hand'[b] = hand[b]
        /\ FollowedBy(pc[a]) = "idle" \/ hand'[a].task = t
    BY DEF Write, Drop, TypeOK
  <1>6. t \in Steady => Holds(a, t)
    BY <1>2 DEF BoardInv, HandlerInv
  <1>7. t \in Steady => row[t] # "pending"
    BY <1>2, NobodyOn
  <1>8. /\ FollowedBy(pc[a]) = "verify" => pc[a] = "done"
        /\ FollowedBy(pc[a]) = "pending" => pc[a] = "rejected"
    BY <1>1 DEF FollowedBy
  <1>9. ASSUME t \in Steady, NEW b \in Agents, job[t][b] \in {"told", "started"}
        PROVE pc[a] \in Active /\ (job[t][b] = "told" => pc[a] = "assigned")
    <2>1. owner[t] = b /\ row[t] \in Active
      BY <1>9 DEF BoardInv, WorkerInv, WorkerNamed
    <2>2. b = a
      BY <1>2, <1>9, <2>1, InHand
    <2>3. pc[a] = "running"
      BY <1>1, <1>6, <1>9, <2>1, <2>2 DEF Holds, Active
    <2> QED BY <1>6, <1>9, <2>2, <2>3 DEF Holds, Active
  <1> QED BY <1>1, <1>2, <1>3, <1>4, <1>5, <1>7, <1>8, <1>9, GoesOnKeeps

LEMMA VerifyingKeeps ==
    ASSUME TypeOK, BoardInv, NEW a \in Agents,
           Verify(a) \/ CheckDep(a) \/ AutoAccept(a) \/ Delegate(a)
    PROVE HandlerInv' /\ WorkerInv' /\ ReviewedIsDone' /\ CallerInv'
  <1> DEFINE t == hand[a].task
  <1>1. pc[a] \in {"verify", "deps", "accept", "delegate"} /\ Busy(a)
    BY DEF Verify, CheckDep, AutoAccept, Delegate, At, Busy
  <1>2. t \in Tasks
    BY <1>1 DEF BoardInv, PlaceInv
  <1>3. t \in Steady => row[t] = "done"
    <2>1. t \in Steady => Holds(a, t)
      BY <1>1 DEF BoardInv, HandlerInv
    <2> QED BY <1>1, <2>1 DEF Holds
  <1>4. t \in Steady => \A b \in Agents : job[t][b] \notin {"told", "started"}
    BY <1>3 DEF BoardInv, WorkerInv, WorkerNamed, Active
  <1>5. row = [row EXCEPT ![t] = row[t]]
    BY <1>2 DEF TypeOK
  <1>6. UNCHANGED <<owner, job, call, moved>>
    BY DEF Verify, CheckDep, AutoAccept, Delegate, board
  <1>7. hand[a] \in [task : Tasks \cup {NoTask}, todo : SUBSET Tasks]
    BY DEF TypeOK
  <1>8. \A b \in Agents \ {a} : hand'[b] = hand[b]
    <2>1. \E next : hand' = [hand EXCEPT ![a] = next]
      <3>1. hand = [hand EXCEPT ![a] = hand[a]]
        BY DEF TypeOK
      <3> QED BY <3>1 DEF Verify, CheckDep, AutoAccept, Delegate, Drop
    <2> QED BY <2>1 DEF TypeOK
  <1>9. \E place \in {"idle", "deps", "accept", "delegate"} :
            Goto(a, place) /\ (place = "idle" \/ hand'[a].task = t)
    <2>1. CASE Verify(a)
      BY <1>7, <2>1 DEF Verify, TypeOK
    <2>2. CASE CheckDep(a)
      <3>1. \E S : hand' = [hand EXCEPT ![a] = [hand[a] EXCEPT !.todo = S]]
        BY <2>2 DEF CheckDep
      <3>2. hand'[a].task = t
        BY <1>7, <3>1 DEF TypeOK
      <3> QED BY <2>2, <3>2 DEF CheckDep
    <2>3. CASE AutoAccept(a) \/ Delegate(a)
      BY <2>3 DEF AutoAccept, Delegate
    <2> QED BY <2>1, <2>2, <2>3
  <1>10. PICK place \in {"idle", "deps", "accept", "delegate"} :
            Goto(a, place) /\ (place = "idle" \/ hand'[a].task = t)
    BY <1>9
  <1>11. CASE Verify(a) \/ CheckDep(a)
    <2>1. row' = [row EXCEPT ![t] = row[t]] /\ asked' = asked
      BY <1>5, <1>11 DEF Verify, CheckDep, board
    <2> QED BY <1>1, <1>2, <1>3, <1>4, <1>6, <1>8, <1>10, <2>1, GoesOnKeeps
  <1>12. CASE AutoAccept(a)
    <2>1. row' = [row EXCEPT ![t] = "accepted"] /\ asked' = asked /\ Goto(a, "idle")
      BY <1>12 DEF AutoAccept
    <2> QED BY <1>1, <1>2, <1>3, <1>4, <1>6, <1>8, <2>1, GoesOnKeeps
  <1>13. CASE Delegate(a)
    <2>1. row' = [row EXCEPT ![t] = row[t]] /\ Goto(a, "idle")
      BY <1>5, <1>13 DEF Delegate, board
    <2>2. asked' = asked \/ \E r \in Agents : asked' = asked \cup {<<t, r>>}
      BY <1>13, PeopleAssumption DEF Delegate
    <2> QED BY <1>1, <1>2, <1>3, <1>4, <1>6, <1>8, <2>1, <2>2, GoesOnKeeps
  <1> QED BY <1>11, <1>12, <1>13

LEMMA RetryKeeps ==
    ASSUME TypeOK, BoardInv, NEW t \in Tasks, Retry(t)
    PROVE HandlerInv' /\ WorkerInv' /\ ReviewedIsDone' /\ CallerInv'
  <1>1. /\ row[t] = "failed" /\ row'[t] = "pending" /\ \A u \in Tasks \ {t} : row'[u] = row[u]
        /\ UNCHANGED <<owner, job, asked, pc, call, hand, moved>>
    BY DEF Retry, TypeOK
  <1>2. Steady' = Steady /\ Steady \subseteq Tasks
    BY <1>1 DEF Steady
  <1>3. t \in Steady =>
            /\ \A a \in Agents : /\ ~ (Busy(a) /\ hand[a].task = t)
                                 /\ job[t][a] \notin {"told", "started"}
            /\ \A q \in asked : q[1] # t
    BY <1>1, NobodyOn
  <1>4. HandlerInv'
    <2> SUFFICES ASSUME NEW a \in Agents, NEW u \in Steady, Busy(a), hand[a].task = u
                 PROVE Holds(a, u)'
      BY <1>1, <1>2 DEF HandlerInv, Busy
    <2>1. u # t /\ Holds(a, u)
      BY <1>3 DEF BoardInv, HandlerInv
    <2> QED BY <1>1, <1>2, <2>1 DEF Holds, Busy
  <1>5. WorkerInv' /\ ReviewedIsDone'
    BY <1>1, <1>2, <1>3 DEF BoardInv, WorkerInv, WorkerNamed, ReviewedIsDone
  <1>6. \A u \in Steady : Untouched(u) => Untouched(u)'
    BY <1>1, <1>2 DEF Untouched, Busy
  <1>7. CallerInv'
    BY <1>1, <1>2, <1>6, CallerInvKept DEF BoardInv
  <1> QED BY <1>4, <1>5, <1>7

LEMMA CrashKeeps ==
    ASSUME TypeOK, BoardInv, Crash
    PROVE HandlerInv' /\ WorkerInv' /\ ReviewedIsDone' /\ CallerInv'
  <1>1. Steady' = Steady
    BY DEF Crash, Steady
  <1>2. \A p \in Callers \cup Agents : ~ Busy(p)'
    BY DEF Crash, Busy
  <1>3. HandlerInv' /\ CallerInv'
    BY <1>2 DEF HandlerInv, CallerInv
  <1>4. WorkerInv' /\ ReviewedIsDone'
    BY <1>1 DEF Crash, board, BoardInv, WorkerInv, WorkerNamed, ReviewedIsDone
  <1> QED BY <1>3, <1>4

LEMMA NextBoard == Single /\ TypeOK /\ BoardInv /\ [Next]_vars => TypeOK' /\ BoardInv'
  <1> SUFFICES ASSUME Single, TypeOK, BoardInv, [Next]_vars PROVE TypeOK' /\ BoardInv'
    OBVIOUS
  <1>1. TypeOK' /\ PlaceInv'
    BY NextBase DEF BoardInv
  <1> DEFINE Kept == HandlerInv' /\ WorkerInv' /\ ReviewedIsDone' /\ CallerInv'
  <1>2. ASSUME NEW c \in Callers, AssignTasks(c) \/ Reassign(c) \/ CallerStep(c) PROVE Kept
    BY <1>2, LookingKeeps, AssignKeeps, TellKeeps DEF CallerStep
  <1>3. ASSUME NEW a \in Agents, HandlerStep(a) PROVE Kept
    BY <1>3, WriteKeeps, VerifyingKeeps DEF HandlerStep
  <1>4. ASSUME NEW a \in Agents, NEW t \in Tasks, Works(a, t) \/ Answers(a, t) PROVE Kept
    BY <1>4, TaskStartedKeeps, TaskStatusKeeps, TaskAcceptResultKeeps DEF Works, Answers
  <1>5. ASSUME NEW t \in Tasks, Retry(t) PROVE Kept
    BY <1>5, RetryKeeps
  <1>6. CASE Crash
    BY <1>1, <1>6, CrashKeeps DEF BoardInv
  <1>7. CASE UNCHANGED vars
    <2>1. UNCHANGED <<row, owner, job, asked, hand, moved, pc, call>>
      BY <1>7 DEF vars
    <2>2. HandlerInv' /\ WorkerInv' /\ ReviewedIsDone'
      BY <2>1, QuietKeeps DEF BoardInv
    <2>3. CallerInv'
      BY <2>1 DEF BoardInv, CallerInv, Busy, Steady
    <2> QED BY <1>1, <2>2, <2>3 DEF BoardInv
  <1> QED BY <1>1, <1>2, <1>3, <1>4, <1>5, <1>6, <1>7 DEF BoardInv, Next

LEMMA InitBoard == Init => TypeOK /\ BoardInv
  <1> SUFFICES ASSUME Init PROVE BoardInv
    BY InitBase
  <1>1. HandlerInv /\ CallerInv
    BY DEF Init, HandlerInv, CallerInv, Busy
  <1>2. WorkerInv /\ ReviewedIsDone
    BY DEF Init, WorkerInv, WorkerNamed, ReviewedIsDone, Steady
  <1> QED BY <1>1, <1>2, InitBase DEF BoardInv

\* With one caller at a time, what each writer of a row relies on still holds when
\* it writes: update_task_status looks at nothing (storage/tasks.py:137-161).
THEOREM BoardConsistent == ASSUME Single PROVE Spec => [](TypeOK /\ BoardInv)
  <1>1. Init => TypeOK /\ BoardInv
    BY InitBoard
  <1>2. (TypeOK /\ BoardInv) /\ [Next]_vars => (TypeOK /\ BoardInv)'
    BY NextBoard
  <1> QED BY <1>1, <1>2, PTL DEF Spec

\* With one caller at a time, an agent with a task in hand is the one its row names,
\* however often the task is rejected, retried and handed out again
\* (task_assign.py:136, accept_result.py:42, task_retry.py:41).
THEOREM WorkersNamed == ASSUME Single PROVE Spec => []WorkerNamed
  <1>1. BoardInv => WorkerNamed
    BY DEF BoardInv, WorkerInv
  <1> QED BY <1>1, BoardConsistent, PTL

\* With one caller at a time, a task waits for the one review it has been sent to
\* (delegate.py:60, accept_result.py:25-44).
THEOREM ReviewsAwaited == ASSUME Single PROVE Spec => []ReviewedIsDone
  <1>1. BoardInv => ReviewedIsDone
    BY DEF BoardInv
  <1> QED BY <1>1, BoardConsistent, PTL

-----------------------------------------------------------------------------
(* Dependencies that have been found accepted.                                *)

(* A row that changes: who may have written what.                              *)
LEMMA RowChanges ==
    ASSUME TypeOK, BoardInv, Next, NEW t \in Steady, row'[t] # row[t]
    PROVE <<row[t], row'[t]>> \in Table!Valid
  <1>1. t \in Tasks
    BY DEF Steady
  <1>2. ASSUME NEW c \in Callers, AssignTasks(c) \/ Reassign(c) \/ CallerStep(c)
        PROVE <<row[t], row'[t]>> \in Table!Valid
    <2>1. Assign(c)
      BY <1>2 DEF AssignTasks, Reassign, CallerStep, Find, LoadOne, Tell, PickOther, board
    <2>2. call[c].task = t /\ row'[t] = "assigned"
      BY <1>1, <2>1 DEF Assign, TypeOK
    <2>3. row[t] = "pending"
      BY <2>1, <2>2 DEF Assign, At, BoardInv, CallerInv, Busy
    <2> QED BY <2>2, <2>3 DEF Table!Valid
  <1>3. ASSUME NEW a \in Agents, HandlerStep(a) PROVE <<row[t], row'[t]>> \in Table!Valid
    <2>1. CASE Write(a)
      <3>1. Busy(a) /\ hand[a].task = t /\ row'[t] = pc[a]
        BY <1>1, <2>1 DEF Write, Busy, TypeOK
      <3>2. Holds(a, t)
        BY <3>1 DEF BoardInv, HandlerInv
      <3> QED BY <2>1, <3>1, <3>2 DEF Write, Holds, Table!Valid
    <2>2. CASE AutoAccept(a)
      <3>1. Busy(a) /\ pc[a] = "accept" /\ hand[a].task = t /\ row'[t] = "accepted"
        BY <1>1, <2>2 DEF AutoAccept, At, Busy, TypeOK
      <3>2. Holds(a, t)
        BY <3>1 DEF BoardInv, HandlerInv
      <3> QED BY <3>1, <3>2 DEF Holds, Table!Valid
    <2> QED BY <1>3, <2>1, <2>2 DEF HandlerStep, Verify, CheckDep, Delegate, board
  <1>4. ASSUME NEW a \in Agents, NEW u \in Tasks, Works(a, u) \/ Answers(a, u) PROVE FALSE
    BY <1>4 DEF Works, Answers, TaskStarted, TaskStatus, TaskAcceptResult, board
  <1>5. ASSUME NEW u \in Tasks, Retry(u) PROVE <<row[t], row'[t]>> \in Table!Valid
    BY <1>1, <1>5 DEF Retry, TypeOK, Table!Valid
  <1>6. ~ Crash
    BY DEF Crash, board
  <1> QED BY <1>2, <1>3, <1>4, <1>5, <1>6 DEF Next

(* The history of reassignments only grows, and an agent is written into a row *)
(* by an assignment only.                                                      *)
LEMMA MovedGrows ==
    ASSUME Next
    PROVE /\ moved \subseteq moved'
          /\ (\A c \in Callers : ~ Assign(c)) => owner' = owner
  <1>1. ASSUME NEW c \in Callers, AssignTasks(c) \/ Reassign(c)
        PROVE moved \subseteq moved' /\ owner' = owner
    BY <1>1 DEF AssignTasks, Reassign, board
  <1>2. ASSUME NEW c \in Callers, Find(c) \/ LoadOne(c) \/ Tell(c) \/ PickOther(c)
        PROVE moved \subseteq moved' /\ owner' = owner
    BY <1>2 DEF Find, LoadOne, Tell, PickOther, board
  <1>3. ASSUME NEW c \in Callers, Assign(c) PROVE moved \subseteq moved'
    BY <1>3 DEF Assign
  <1>4. ASSUME NEW a \in Agents, HandlerStep(a) PROVE moved \subseteq moved' /\ owner' = owner
    BY <1>4 DEF HandlerStep, Write, Verify, CheckDep, AutoAccept, Delegate, board
  <1>5. ASSUME NEW a \in Agents, NEW t \in Tasks, Works(a, t) \/ Answers(a, t)
        PROVE moved \subseteq moved' /\ owner' = owner
    BY <1>5 DEF Works, Answers, TaskStarted, TaskStatus, TaskAcceptResult, board
  <1>6. ASSUME (\E t \in Tasks : Retry(t)) \/ Crash PROVE moved \subseteq moved' /\ owner' = owner
    BY <1>6 DEF Retry, Crash, board
  <1> QED BY <1>1, <1>2, <1>3, <1>4, <1>5, <1>6 DEF Next, CallerStep

LEMMA NextDeps ==
    TypeOK /\ BoardInv /\ DepsInv /\ [Next]_vars => DepsInv'
  <1> SUFFICES ASSUME TypeOK, BoardInv, DepsInv, [Next]_vars PROVE DepsInv'
    OBVIOUS
  <1>1. CASE UNCHANGED vars
    BY <1>1 DEF vars, DepsInv, AutoAcceptSound, At, Steady
  <1> SUFFICES ASSUME Next PROVE DepsInv'
    BY <1>1
  <1>2. Steady' \subseteq Steady
    BY MovedGrows DEF Steady
  <1>3. \A u \in Steady' : row[u] = "accepted" => row'[u] = "accepted"
    BY <1>2, RowChanges DEF Table!Valid
  <1> DEFINE Sound(a) ==
               /\ pc'[a] = "accept" =>
                     \A u \in DependsOn[hand'[a].task] \cap Steady' : row'[u] = "accepted"
               /\ pc'[a] = "deps" =>
                     \A u \in (DependsOn[hand'[a].task] \ hand'[a].todo) \cap Steady' :
                         row'[u] = "accepted"
  <1>4. ASSUME NEW a \in Agents, pc'[a] = pc[a], hand'[a] = hand[a] PROVE Sound(a)
    BY <1>2, <1>3, <1>4 DEF DepsInv, AutoAcceptSound, At
  <1>5. ASSUME NEW a \in Agents, pc'[a] \notin {"accept", "deps"} PROVE Sound(a)
    BY <1>5
  <1>6. ASSUME NEW c \in Callers, AssignTasks(c) \/ Reassign(c) \/ CallerStep(c),
               NEW b \in Agents
        PROVE Sound(b)
    <2>1. hand' = hand
      BY <1>6 DEF AssignTasks, Reassign, CallerStep, Find, LoadOne, Assign, Tell, PickOther
    <2>2. (\E place : pc' = [pc EXCEPT ![c] = place]) \/ pc' = pc
      BY <1>6 DEF AssignTasks, Reassign, CallerStep, Find, LoadOne, Assign, Tell, PickOther,
                  Pick, NextTask, Goto
    <2>3. pc'[b] = pc[b]
      BY <2>2, PeopleAssumption DEF TypeOK
    <2> QED BY <1>4, <2>1, <2>3
  <1>7. ASSUME NEW a \in Agents, HandlerStep(a) \/ \E t \in Tasks : Works(a, t) \/ Answers(a, t),
               NEW b \in Agents
        PROVE Sound(b)
    <2>1. CASE b # a
      <3>1. /\ (\E place : pc' = [pc EXCEPT ![a] = place]) \/ pc' = pc
            /\ (\E next : hand' = [hand EXCEPT ![a] = next]) \/ hand' = hand
        BY <1>7 DEF HandlerStep, Works, Answers, TaskStarted, TaskStatus, TaskAcceptResult,
                    Write, Verify, CheckDep, AutoAccept, Delegate, Take, Drop, Goto
      <3>2. pc'[b] = pc[b] /\ hand'[b] = hand[b]
        BY <2>1, <3>1 DEF TypeOK
      <3> QED BY <1>4, <3>2
    <2>2. CASE b = a /\ Verify(a)
      <3>1. \/ pc'[a] \notin {"accept", "deps"}
            \/ /\ hand' = [hand EXCEPT ![a] = [hand[a] EXCEPT !.todo = DependsOn[hand[a].task]]]
               /\ pc'[a] = IF DependsOn[hand[a].task] = {} THEN "accept" ELSE "deps"
        BY <2>2 DEF Verify, Goto, TypeOK
      <3>2. hand[a] \in [task : Tasks \cup {NoTask}, todo : SUBSET Tasks]
        BY DEF TypeOK
      <3>3. CASE pc'[a] \in {"accept", "deps"}
        <4>1. /\ hand'[a].task = hand[a].task /\ hand'[a].todo = DependsOn[hand[a].task]
              /\ pc'[a] = "accept" => DependsOn[hand[a].task] = {}
          BY <3>1, <3>2, <3>3 DEF TypeOK
        <4> QED BY <2>2, <4>1
      <3> QED BY <1>5, <2>2, <3>3
    <2>3. CASE b = a /\ CheckDep(a)
      <3>1. hand[a] \in [task : Tasks \cup {NoTask}, todo : SUBSET Tasks] /\ pc[a] = "deps"
        BY <2>3 DEF CheckDep, At, TypeOK
      <3>2. PICK u \in hand[a].todo :
               IF row[u] = "accepted"
                 THEN /\ hand' = [hand EXCEPT ![a] = [hand[a] EXCEPT !.todo = @ \ {u}]]
                      /\ Goto(a, IF hand[a].todo = {u} THEN "accept" ELSE "deps")
                 ELSE Goto(a, "delegate")
        BY <2>3 DEF CheckDep
      <3>3. row' = row
        BY <2>3 DEF CheckDep, board
      <3>4. CASE row[u] = "accepted"
        <4>1. /\ hand'[a].task = hand[a].task /\ hand'[a].todo = hand[a].todo \ {u}
              /\ pc'[a] = "accept" => hand[a].todo = {u}
          BY <3>1, <3>2, <3>4 DEF Goto, TypeOK
        <4>2. \A v \in (DependsOn[hand[a].task] \ hand[a].todo) \cap Steady : row[v] = "accepted"
          BY <3>1 DEF DepsInv
        <4> QED BY <1>2, <2>3, <3>3, <3>4, <4>1, <4>2
      <3>5. CASE row[u] # "accepted"
        <4>1. pc'[a] = "delegate"
          BY <3>2, <3>5 DEF Goto, TypeOK
        <4> QED BY <1>5, <2>3, <4>1
      <3> QED BY <3>4, <3>5
    <2>4. CASE b = a /\ ~ Verify(a) /\ ~ CheckDep(a)
      <3>1. pc'[a] \notin {"accept", "deps"} \/ (pc'[a] = pc[a] /\ hand'[a] = hand[a])
        BY <1>7, <2>4 DEF HandlerStep, Works, Answers, TaskStarted, TaskStatus, TaskAcceptResult,
                          Write, FollowedBy, AutoAccept, Delegate, Goto, TypeOK
      <3> QED BY <1>4, <1>5, <2>4, <3>1
    <2> QED BY <2>1, <2>2, <2>3, <2>4
  <1>8. ASSUME NEW t \in Tasks, Retry(t), NEW b \in Agents PROVE Sound(b)
    BY <1>4, <1>8 DEF Retry
  <1>9. ASSUME Crash, NEW b \in Agents PROVE Sound(b)
    BY <1>9 DEF Crash
  <1>10. \A b \in Agents : Sound(b)
    BY <1>6, <1>7, <1>8, <1>9 DEF Next
  <1> QED BY <1>10 DEF DepsInv, AutoAcceptSound, At

\* With one caller at a time, a task that is accepted without a review has its
\* dependencies accepted when it is, although they are read one by one before
\* (simple_check.py:35-39, task_verify/__init__.py:46-49).
THEOREM AutoAcceptsSound == ASSUME Single PROVE Spec => []AutoAcceptSound
  <1>1. Init => DepsInv
    BY DEF Init, DepsInv, AutoAcceptSound, At
  <1>2. TypeOK /\ BoardInv /\ DepsInv /\ [Next]_vars => DepsInv'
    BY NextDeps
  <1>3. DepsInv => AutoAcceptSound
    BY DEF DepsInv
  <1> QED BY <1>1, <1>2, <1>3, BoardConsistent, PTL DEF Spec

-----------------------------------------------------------------------------
(* Loads that are counted once.                                               *)

LEMMA AssignedFinite ==
    ASSUME NEW a
    PROVE /\ IsFiniteSet(Assigned(a))
          /\ Cardinality(Assigned(a)) \in Nat
          /\ Cardinality(Assigned(a)) <= Load(a)
  <1>1. IsFiniteSet({t \in Tasks : owner[t] = a /\ row[t] \in Active})
    BY FS_Subset, GraphAssumption
  <1>2. Assigned(a) \subseteq {t \in Tasks : owner[t] = a /\ row[t] \in Active}
    BY DEF Assigned, Steady
  <1> QED BY <1>1, <1>2, FS_Subset, FS_CardinalityType DEF Load

LEMMA AssignedShrinks ==
    ASSUME NEW a, Assigned(a)' \subseteq Assigned(a)
    PROVE Cardinality(Assigned(a)') <= Cardinality(Assigned(a))
  BY AssignedFinite, FS_Subset

(* Only an assignment gives an agent more to do.                               *)
LEMMA AssignedStep ==
    ASSUME TypeOK, BoardInv, [Next]_vars, NEW a,
           \A c \in Callers : ~ Assign(c)
    PROVE Assigned(a)' \subseteq Assigned(a)
  <1> SUFFICES ASSUME NEW t \in Tasks \ moved', owner'[t] = a, row'[t] \in Active
               PROVE t \in Steady /\ owner[t] = a /\ row[t] \in Active
    BY DEF Assigned, Steady
  <1>1. CASE UNCHANGED vars
    BY <1>1 DEF vars, Steady
  <1>2. CASE Next
    <2>1. moved \subseteq moved' /\ owner' = owner
      BY <1>2, MovedGrows
    <2>2. t \in Steady
      BY <2>1 DEF Steady
    <2>3. row[t] = row'[t] \/ <<row[t], row'[t]>> \in Table!Valid
      BY <1>2, <2>2, RowChanges
    <2>4. CASE row[t] # row'[t] /\ row'[t] = "assigned"
      <3>1. ~ \E c \in Callers : AssignTasks(c) \/ Reassign(c) \/ CallerStep(c)
        BY <2>4 DEF AssignTasks, Reassign, CallerStep, Find, LoadOne, Tell, PickOther, board
      <3>2. ~ \E b \in Agents : HandlerStep(b) \/ \E u \in Tasks : Works(b, u) \/ Answers(b, u)
        <4>1. ASSUME NEW b \in Agents, Write(b) PROVE FALSE
          BY <2>4, <4>1 DEF Write, TypeOK
        <4>2. ASSUME NEW b \in Agents, AutoAccept(b) PROVE FALSE
          BY <2>4, <4>2 DEF AutoAccept, TypeOK
        <4>3. ASSUME NEW b \in Agents, Verify(b) \/ CheckDep(b) \/ Delegate(b) PROVE FALSE
          BY <2>4, <4>3 DEF Verify, CheckDep, Delegate, board
        <4>4. ASSUME NEW b \in Agents, NEW u \in Tasks, Works(b, u) \/ Answers(b, u) PROVE FALSE
          BY <2>4, <4>4 DEF Works, Answers, TaskStarted, TaskStatus, TaskAcceptResult, board
        <4> QED BY <4>1, <4>2, <4>3, <4>4 DEF HandlerStep
      <3>3. ~ \E u \in Tasks : Retry(u)
        BY <2>4 DEF Retry, TypeOK
      <3>4. ~ Crash
        BY <2>4 DEF Crash, board
      <3> QED BY <1>2, <3>1, <3>2, <3>3, <3>4 DEF Next
    <2> QED BY <2>1, <2>2, <2>3, <2>4 DEF Active, Table!Valid
  <1> QED BY <1>1, <1>2

(* What is known of a load does not become wrong.                              *)
LEMMA GoesKnown ==
    ASSUME TypeOK, NEW c \in Callers, NEW now \in CallLocals,
           NEW places \in {NextPlaces, PickPlaces}, Goes(c, now, places),
           places = NextPlaces \/ now.cand \subseteq now.known,
           \A a \in now.known : Cardinality(Assigned(a)') <= now.loads[a]
    PROVE Busy(c)' => Known(c)'
  <1>1. PICK place \in places, next \in CallLocals :
            /\ Follows(now, place, next)
            /\ call' = [call EXCEPT ![c] = next]
            /\ pc' = [pc EXCEPT ![c] = place]
    BY DEF Goes
  <1>2. pc'[c] = place /\ call'[c] = next /\ place \in {"idle", "find", "assign"}
    BY <1>1 DEF TypeOK, Follows
  <1>3. place # "idle" => next.known = now.known /\ next.loads = now.loads
    BY <1>1 DEF Follows
  <1>4. place = "assign" => next.agent \in now.cand /\ now.loads[next.agent] < MaxConcurrent
    BY <1>1 DEF Follows
  <1>5. \A a \in now.known : now.loads[a] \in Nat
    BY DEF CallLocals
  <1>6. \A a \in now.known : Cardinality(Assigned(a)') <= now.loads[a] + 0
    BY <1>5
  <1>7. place = "assign" => places # NextPlaces
    BY DEF NextPlaces
  <1> QED BY <1>2, <1>3, <1>4, <1>6, <1>7 DEF Known, Busy

LEMMA CallerKnown ==
    ASSUME TypeOK, BoardInv, LoadInv, NEW c \in Callers, Next,
           AssignTasks(c) \/ Reassign(c) \/ Find(c) \/ LoadOne(c) \/ Tell(c) \/ PickOther(c),
           \A a : Assigned(a)' \subseteq Assigned(a)
    PROVE Busy(c)' => Known(c)'
  <1>t. call[c] \in CallLocals
    BY DEF TypeOK
  <1>k. Busy(c) => \A a \in call[c].known :
            /\ Cardinality(Assigned(a)) <=
                  call[c].loads[a] + IF pc[c] = "tell" /\ call[c].agent = a THEN 1 ELSE 0
            /\ call[c].loads[a] \in Nat
    BY <1>t DEF LoadInv, Known, CallLocals
  <1>a. \A a : /\ Cardinality(Assigned(a)') <= Cardinality(Assigned(a))
               /\ Cardinality(Assigned(a)') \in Nat /\ Cardinality(Assigned(a)) \in Nat
    <2> TAKE a
    <2>1. IsFiniteSet(Assigned(a)) /\ Cardinality(Assigned(a)) \in Nat
      BY AssignedFinite
    <2> QED BY <2>1, FS_Subset, FS_CardinalityType
  <1>1. ASSUME AssignTasks(c) PROVE Busy(c)' => Known(c)'
    <2> DEFINE now == [NoCall EXCEPT !.left = {t \in Tasks : Assignable(t)},
                                     !.counted = {t \in Tasks : row[t] \in {"done", "accepted"}}]
    <2>1. now \in CallLocals /\ now.known = {}
      BY NoCallType DEF CallLocals, NoCall
    <2>2. Goes(c, now, NextPlaces)
      BY <1>1, <2>1, NextTaskGoes DEF AssignTasks
    <2> HIDE DEF now
    <2> QED BY <2>1, <2>2, GoesKnown
  <1>2. ASSUME Reassign(c) PROVE Busy(c)' => Known(c)'
    <2>1. \E t \in Tasks :
              call' = [call EXCEPT ![c] = [NoCall EXCEPT !.task = t, !.agent = owner[t]]]
      BY <1>2 DEF Reassign
    <2>2. call'[c].known = {}
      BY <2>1 DEF NoCall, TypeOK
    <2>3. pc' = [pc EXCEPT ![c] = "other"]
      BY <1>2 DEF Reassign, Goto
    <2>4. pc'[c] = "other"
      BY <2>3 DEF TypeOK
    <2> QED BY <2>2, <2>4 DEF Known
  <1>3. ASSUME Find(c) PROVE Busy(c)' => Known(c)'
    <2>1. PICK S \in SUBSET Agents :
             LET now == [call[c] EXCEPT !.cand = S] IN
             IF S \subseteq now.known
               THEN Pick(c, now)
               ELSE call' = [call EXCEPT ![c] = now] /\ Goto(c, "load")
      BY <1>3 DEF Find
    <2> DEFINE now == [call[c] EXCEPT !.cand = S]
    <2>2. /\ now \in CallLocals /\ now.task = call[c].task /\ now.cand = S
          /\ now.known = call[c].known /\ now.loads = call[c].loads
      BY <1>t DEF CallLocals
    <2>3. pc[c] = "find" /\ Busy(c)
      BY <1>3 DEF Find, At, Busy
    <2>4. call[c].task \in Tasks
      BY <2>3 DEF BoardInv, PlaceInv
    <2>5. \A a \in call[c].known : Cardinality(Assigned(a)') <= call[c].loads[a] + 0
      BY <1>k, <1>a, <2>3
    <2>6. CASE S \subseteq now.known
      <3>1. Goes(c, now, PickPlaces)
        BY <2>1, <2>2, <2>4, <2>6, PickGoes
      <3>2. \A a \in now.known : Cardinality(Assigned(a)') <= now.loads[a]
        BY <1>k, <2>2, <2>3, <2>5
      <3> HIDE DEF now
      <3> QED BY <2>2, <2>6, <3>1, <3>2, GoesKnown
    <2>7. CASE ~ (S \subseteq now.known)
      <3>1. call'[c] = now /\ pc'[c] = "load"
        BY <2>1, <2>7 DEF Goto, TypeOK
      <3> QED BY <2>2, <2>5, <3>1 DEF Known
    <2> QED BY <2>6, <2>7
  <1>4. ASSUME LoadOne(c) PROVE Busy(c)' => Known(c)'
    <2>1. PICK a \in Agents :
             LET now == [call[c] EXCEPT !.known = @ \cup {a}, !.loads[a] = Load(a)] IN
             IF now.cand \subseteq now.known
               THEN Pick(c, now)
               ELSE call' = [call EXCEPT ![c] = now] /\ UNCHANGED pc
      BY <1>t, <1>4 DEF LoadOne, CallLocals
    <2> DEFINE now == [call[c] EXCEPT !.known = @ \cup {a}, !.loads[a] = Load(a)]
    <2>l. [call[c].loads EXCEPT ![a] = Load(a)] \in [Agents -> Nat]
      BY <1>t, LoadType DEF CallLocals
    <2>2. /\ now \in CallLocals /\ now.task = call[c].task
          /\ now.known = call[c].known \cup {a}
          /\ now.loads[a] = Load(a)
          /\ \A b \in Agents \ {a} : now.loads[b] = call[c].loads[b]
      BY <1>t, <2>l DEF CallLocals
    <2>3. pc[c] = "load" /\ Busy(c)
      BY <1>4 DEF LoadOne, At, Busy
    <2>4. call[c].task \in Tasks
      BY <2>3 DEF BoardInv, PlaceInv
    <2>5. \A b \in call[c].known : Cardinality(Assigned(b)') <= call[c].loads[b]
      BY <1>k, <1>a, <2>3
    <2>6. Cardinality(Assigned(a)') <= Load(a)
      BY <1>a, AssignedFinite, LoadType
    <2>7. call[c].known \subseteq Agents
      BY <1>t DEF CallLocals
    <2>8. \A b \in now.known : Cardinality(Assigned(b)') <= now.loads[b] /\ now.loads[b] \in Nat
      <3> HIDE DEF now
      <3>1. now.loads \in [Agents -> Nat]
        BY <2>2 DEF CallLocals
      <3> QED BY <2>2, <2>5, <2>6, <2>7, <3>1
    <2>9. CASE now.cand \subseteq now.known
      <3>1. Goes(c, now, PickPlaces)
        BY <2>1, <2>2, <2>4, <2>9, PickGoes
      <3> HIDE DEF now
      <3> QED BY <2>2, <2>8, <2>9, <3>1, GoesKnown
    <2>10. CASE ~ (now.cand \subseteq now.known)
      <3>1. call' = [call EXCEPT ![c] = now] /\ pc' = pc
        BY <2>1, <2>10
      <3>2. call'[c] = now /\ pc'[c] = "load"
        BY <2>3, <3>1 DEF TypeOK
      <3> HIDE DEF now
      <3>3. \A b \in now.known : Cardinality(Assigned(b)') <= now.loads[b] + 0
        BY <1>a, <2>8
      <3> QED BY <3>2, <3>3 DEF Known
    <2> QED BY <2>9, <2>10
  <1>5. ASSUME Tell(c) PROVE Busy(c)' => Known(c)'
    <2> DEFINE a == call[c].agent
    <2>1. pc[c] = "tell" /\ a \in Agents /\ Busy(c)
      BY <1>5 DEF Tell, At, BoardInv, PlaceInv, Busy
    <2>l. [call[c].loads EXCEPT ![a] = @ + 1] \in [Agents -> Nat]
      BY <1>t, <2>1 DEF CallLocals
    <2>2. /\ Told(c) \in CallLocals /\ Told(c).known = call[c].known
          /\ Told(c).loads[a] = call[c].loads[a] + 1
          /\ \A b \in Agents \ {a} : Told(c).loads[b] = call[c].loads[b]
      BY <1>t, <2>1, <2>l DEF Told, CallLocals
    <2>3. call[c].known \subseteq Agents
      BY <1>t DEF CallLocals
    <2>4. \A b \in Told(c).known : Cardinality(Assigned(b)') <= Told(c).loads[b]
      <3> SUFFICES ASSUME NEW b \in call[c].known
                   PROVE Cardinality(Assigned(b)') <= Told(c).loads[b]
        BY <2>2
      <3>1. CASE b = a
        <4>1. Cardinality(Assigned(b)) <= call[c].loads[b] + 1
          BY <1>k, <2>1, <3>1
        <4> QED BY <1>a, <1>k, <2>1, <2>2, <3>1, <4>1
      <3>2. CASE b # a
        <4>1. Cardinality(Assigned(b)) <= call[c].loads[b] + 0
          BY <1>k, <2>1, <3>2
        <4> QED BY <1>a, <1>k, <2>1, <2>2, <2>3, <3>2, <4>1
      <3> QED BY <3>1, <3>2
    <2> QED BY <1>5, <2>2, <2>4, NextTaskGoes, GoesKnown DEF Tell
  <1>6. ASSUME PickOther(c) PROVE Busy(c)' => Known(c)'
    <2>1. pc[c] = "other" /\ Busy(c) /\ call[c].task \in moved /\ moved' = moved
      BY <1>6 DEF PickOther, At, BoardInv, CallerInv, Busy
    <2>2. \/ pc'[c] = "idle"
          \/ /\ pc'[c] = "assign"
             /\ \E a \in Agents : call' = [call EXCEPT ![c] = [call[c] EXCEPT !.agent = a]]
      BY <1>6 DEF PickOther, Goto, TypeOK
    <2>3. CASE \E a \in Agents : call' = [call EXCEPT ![c] = [call[c] EXCEPT !.agent = a]]
      <3>1. /\ call'[c].known = call[c].known /\ call'[c].loads = call[c].loads
            /\ call'[c].task = call[c].task
        BY <1>t, <2>3 DEF TypeOK, CallLocals
      <3>2. \A b \in call[c].known : Cardinality(Assigned(b)') <= call[c].loads[b] + 0
        BY <1>k, <1>a, <2>1
      <3>3. call[c].task \notin Steady'
        BY <2>1 DEF Steady
      <3>4. pc'[c] # "tell"
        BY <2>2
      <3> QED BY <3>1, <3>2, <3>3, <3>4 DEF Known
    <2> QED BY <2>2, <2>3 DEF Busy
  <1> QED BY <1>1, <1>2, <1>3, <1>4, <1>5, <1>6

LEMMA NextLoad ==
    Single /\ TypeOK /\ BoardInv /\ LoadInv /\ [Next]_vars => LoadInv'
  <1> SUFFICES ASSUME Single, TypeOK, BoardInv, LoadInv, [Next]_vars PROVE LoadInv'
    OBVIOUS
  <1>1. ASSUME NEW c \in Callers, Assign(c), NEW t \in Tasks, NEW a \in Agents,
               t = call[c].task, a = call[c].agent
        PROVE LoadInv'
    <2>1. /\ pc[c] = "assign" /\ Busy(c)
          /\ t \in Steady => row[t] = "pending"
      BY <1>1 DEF Assign, At, Busy, BoardInv, PlaceInv, CallerInv
    <2>2. /\ row'[t] = "assigned" /\ owner'[t] = a
          /\ \A u \in Tasks \ {t} : row'[u] = row[u] /\ owner'[u] = owner[u]
          /\ Steady' = Steady /\ call' = call /\ pc'[c] = "tell"
      BY <1>1, <2>1 DEF Assign, Goto, TypeOK, Steady
    <2>3. \A b : b # a => Assigned(b)' \subseteq Assigned(b)
      BY <2>2 DEF Assigned, Steady
    <2>4. Assigned(a)' \subseteq Assigned(a) \cup {t}
      BY <2>2 DEF Assigned, Steady
    <2>5. t \notin Steady => Assigned(a)' \subseteq Assigned(a)
      BY <2>2 DEF Assigned, Steady
    <2>6. \A b : IsFiniteSet(Assigned(b)) /\ Cardinality(Assigned(b)) \in Nat
      BY AssignedFinite
    <2>f. ASSUME NEW b, Assigned(b)' \subseteq Assigned(b)
          PROVE /\ Cardinality(Assigned(b)') \in Nat
                /\ Cardinality(Assigned(b)') <= Cardinality(Assigned(b))
      <3>1. IsFiniteSet(Assigned(b))
        BY <2>6
      <3> QED BY <2>f, <3>1, FS_Subset, FS_CardinalityType
    <2>7. /\ Cardinality(Assigned(a)') \in Nat
          /\ Cardinality(Assigned(a)') <= Cardinality(Assigned(a)) + 1
          /\ t \notin Steady => Cardinality(Assigned(a)') <= Cardinality(Assigned(a))
      <3>a. IsFiniteSet(Assigned(a)) /\ Cardinality(Assigned(a)) \in Nat
        BY <2>6
      <3>b. /\ IsFiniteSet(Assigned(a) \cup {t})
            /\ \/ Cardinality(Assigned(a) \cup {t}) = Cardinality(Assigned(a))
               \/ Cardinality(Assigned(a) \cup {t}) = Cardinality(Assigned(a)) + 1
        BY <3>a, FS_AddElement
      <3>1. /\ IsFiniteSet(Assigned(a) \cup {t})
            /\ Cardinality(Assigned(a) \cup {t}) <= Cardinality(Assigned(a)) + 1
            /\ Cardinality(Assigned(a) \cup {t}) \in Nat
        BY <3>a, <3>b
      <3>2. /\ IsFiniteSet(Assigned(a)')
            /\ Cardinality(Assigned(a)') <= Cardinality(Assigned(a) \cup {t})
        BY <2>4, <3>1, FS_Subset
      <3>3. Cardinality(Assigned(a)') \in Nat
        BY <3>2, FS_CardinalityType
      <3>4. t \notin Steady => Cardinality(Assigned(a)') <= Cardinality(Assigned(a))
        BY <2>5, <2>f
      <3> QED BY <3>a, <3>1, <3>2, <3>3, <3>4
    <2>8. \A d \in Callers : d = c
      BY DEF Single
    <2>9. call[c] \in CallLocals
      BY DEF TypeOK
    <2>10. Known(c)
      BY <2>1 DEF LoadInv
    <2>11. Known(c)'
      <3> SUFFICES ASSUME NEW b \in call[c].known
                   PROVE Cardinality(Assigned(b)') <= call[c].loads[b] + IF a = b THEN 1 ELSE 0
        BY <1>1, <2>2 DEF Known
      <3>1. Cardinality(Assigned(b)) <= call[c].loads[b] + 0 /\ call[c].loads[b] \in Nat
        BY <2>1, <2>9, <2>10 DEF Known, CallLocals
      <3>2. CASE b = a
        BY <2>6, <2>7, <3>1, <3>2
      <3>3. CASE b # a
        <4>1. /\ Cardinality(Assigned(b)') \in Nat
              /\ Cardinality(Assigned(b)') <= Cardinality(Assigned(b))
          BY <2>3, <2>f, <3>3
        <4>2. Cardinality(Assigned(b)) \in Nat
          BY <2>6
        <4> QED BY <3>1, <3>3, <4>1, <4>2
      <3> QED BY <3>2, <3>3
    <2>12. LoadBound'
      <3> SUFFICES ASSUME NEW b \in Agents PROVE Cardinality(Assigned(b)') <= MaxConcurrent
        BY DEF LoadBound
      <3>1. Cardinality(Assigned(b)) <= MaxConcurrent /\ MaxConcurrent \in Nat
        BY NumbersAssumption DEF LoadInv, LoadBound
      <3>2. CASE b # a \/ t \notin Steady
        <4>0. Assigned(b)' \subseteq Assigned(b)
          BY <2>3, <2>5, <3>2
        <4>1. /\ Cardinality(Assigned(b)') \in Nat
              /\ Cardinality(Assigned(b)') <= Cardinality(Assigned(b))
          BY <2>f, <4>0
        <4>2. Cardinality(Assigned(b)) \in Nat
          BY <2>6
        <4> QED BY <3>1, <4>1, <4>2
      <3>3. CASE b = a /\ t \in Steady
        <4>1. Cardinality(Assigned(a)) <= call[c].loads[a] + 0 /\ call[c].loads[a] < MaxConcurrent
              /\ call[c].loads[a] \in Nat
          BY <1>1, <2>1, <2>9, <2>10, <3>3 DEF Known, CallLocals
        <4>2. Cardinality(Assigned(a)) \in Nat
          BY <2>6
        <4>3. Cardinality(Assigned(a)') <= MaxConcurrent
          BY <2>7, <3>1, <4>1, <4>2
        <4> QED BY <3>3, <4>3
      <3> QED BY <3>2, <3>3
    <2> QED BY <2>8, <2>11, <2>12 DEF LoadInv
  <1>2. CASE \A c \in Callers : ~ Assign(c)
    <2>1. \A a : Assigned(a)' \subseteq Assigned(a)
      BY <1>2, AssignedStep
    <2>2. \A a : /\ Cardinality(Assigned(a)') <= Cardinality(Assigned(a))
                 /\ Cardinality(Assigned(a)') \in Nat /\ Cardinality(Assigned(a)) \in Nat
      <3> TAKE a
      <3>1. IsFiniteSet(Assigned(a)) /\ Cardinality(Assigned(a)) \in Nat
        BY AssignedFinite
      <3> QED BY <2>1, <3>1, FS_Subset, FS_CardinalityType
    <2>3. LoadBound'
      <3>1. \A a \in Agents : Cardinality(Assigned(a)) <= MaxConcurrent
        BY DEF LoadInv, LoadBound
      <3> QED BY <2>2, <3>1, NumbersAssumption DEF LoadBound
    <2>4. ASSUME NEW c \in Callers, call'[c] = call[c], pc'[c] = pc[c], moved \subseteq moved'
          PROVE Busy(c)' => Known(c)'
      <3> SUFFICES ASSUME Busy(c) PROVE Known(c)'
        BY <2>4 DEF Busy
      <3>1. Known(c) /\ call[c] \in CallLocals
        BY DEF LoadInv, TypeOK
      <3>2. \A a \in call[c].known : call[c].loads[a] \in Nat
        BY <3>1 DEF CallLocals
      <3>3. Steady' \subseteq Steady
        BY <2>4 DEF Steady
      <3> QED BY <2>2, <2>4, <3>1, <3>2, <3>3 DEF Known
    <2>5. ASSUME NEW c \in Callers, Next, AssignTasks(c) \/ Reassign(c) \/ CallerStep(c),
                 NEW d \in Callers
          PROVE Busy(d)' => Known(d)'
      <3>1. d = c
        BY DEF Single
      <3> QED BY <1>2, <2>1, <2>5, <3>1, CallerKnown DEF CallerStep
    <2>6. ASSUME NEW a \in Agents, HandlerStep(a) \/ \E t \in Tasks : Works(a, t) \/ Answers(a, t),
                 NEW d \in Callers
          PROVE Busy(d)' => Known(d)'
      <3>1. call' = call /\ moved' = moved
        BY <2>6 DEF HandlerStep, Works, Answers, TaskStarted, TaskStatus, TaskAcceptResult,
                    Write, Verify, CheckDep, AutoAccept, Delegate
      <3>2. (\E place : pc' = [pc EXCEPT ![a] = place]) \/ pc' = pc
        BY <2>6 DEF HandlerStep, Works, Answers, TaskStarted, TaskStatus, TaskAcceptResult,
                    Write, Verify, CheckDep, AutoAccept, Delegate, Goto
      <3>3. pc'[d] = pc[d]
        BY <3>2, PeopleAssumption DEF TypeOK
      <3> QED BY <2>4, <3>1, <3>3
    <2>7. ASSUME NEW t \in Tasks, Retry(t), NEW d \in Callers PROVE Busy(d)' => Known(d)'
      BY <2>4, <2>7 DEF Retry
    <2>8. ASSUME Crash, NEW d \in Callers PROVE Busy(d)' => Known(d)'
      BY <2>8 DEF Crash, Busy
    <2>9. ASSUME UNCHANGED vars, NEW d \in Callers PROVE Busy(d)' => Known(d)'
      BY <2>4, <2>9 DEF vars
    <2>10. \A d \in Callers : Busy(d)' => Known(d)'
      BY <2>5, <2>6, <2>7, <2>8, <2>9 DEF Next
    <2> QED BY <2>3, <2>10 DEF LoadInv
  <1>3. \A c \in Callers : Assign(c) => call[c].task \in Tasks /\ call[c].agent \in Agents
    BY DEF Assign, At, BoardInv, PlaceInv, Busy
  <1> QED BY <1>1, <1>2, <1>3

\* With one caller at a time, no agent has more active tasks than its maximum,
\* although its load is read once in a call (task_assign.py:122-142).
THEOREM LoadsBounded == ASSUME Single PROVE Spec => []LoadBound
  <1>1. Init => LoadInv
    <2> SUFFICES ASSUME Init PROVE LoadInv
      OBVIOUS
    <2>1. \A a : Assigned(a) = {}
      BY DEF Init, Assigned, Steady, Active
    <2>2. \A a : Cardinality(Assigned(a)) = 0
      BY <2>1, FS_EmptySet
    <2> QED BY <2>2, NumbersAssumption DEF Init, LoadInv, LoadBound, Busy
  <1>2. (TypeOK /\ BoardInv) /\ LoadInv /\ [Next]_vars => LoadInv'
    BY NextLoad
  <1>3. LoadInv => LoadBound
    BY DEF LoadInv
  <1> QED BY <1>1, <1>2, <1>3, BoardConsistent, PTL DEF Spec

-----------------------------------------------------------------------------
(* The board implements the table.                                            *)

MappedRow == [t \in Tasks |-> IF t \in moved THEN "moved" ELSE row[t]]
MappedOwner == [t \in Tasks |-> IF t \in moved THEN NoAgent ELSE owner[t]]

(* Assignments and reassignments aside, a step writes one status at most, and   *)
(* never "assigned".                                                           *)
LEMMA OtherWrites ==
    ASSUME TypeOK, BoardInv, Next, \A c \in Callers : ~ (Assign(c) \/ Reassign(c))
    PROVE /\ owner' = owner /\ moved' = moved
          /\ \/ row' = row
             \/ \E t \in Tasks, s \in Table!TaskStatuses \ {"assigned"} :
                    row' = [row EXCEPT ![t] = s]
  <1> DEFINE Goal == /\ owner' = owner /\ moved' = moved
                     /\ \/ row' = row
                        \/ \E t \in Tasks, s \in Table!TaskStatuses \ {"assigned"} :
                               row' = [row EXCEPT ![t] = s]
  <1>1. ASSUME NEW c \in Callers, AssignTasks(c) \/ Reassign(c) \/ CallerStep(c) PROVE Goal
    BY <1>1 DEF AssignTasks, CallerStep, Find, LoadOne, Tell, PickOther, board
  <1>2. ASSUME NEW a \in Agents, HandlerStep(a) PROVE Goal
    <2>1. CASE Write(a)
      <3>1. hand[a].task \in Tasks
        BY <2>1 DEF Write, BoardInv, PlaceInv, Busy
      <3> QED BY <2>1, <3>1 DEF Write, Table!TaskStatuses
    <2>2. CASE AutoAccept(a)
      <3>1. hand[a].task \in Tasks
        BY <2>2 DEF AutoAccept, At, BoardInv, PlaceInv, Busy
      <3> QED BY <2>2, <3>1 DEF AutoAccept, Table!TaskStatuses
    <2> QED BY <1>2, <2>1, <2>2 DEF HandlerStep, Verify, CheckDep, Delegate, board
  <1>3. ASSUME NEW a \in Agents, NEW t \in Tasks, Works(a, t) \/ Answers(a, t) PROVE Goal
    BY <1>3 DEF Works, Answers, TaskStarted, TaskStatus, TaskAcceptResult, board
  <1>4. ASSUME NEW t \in Tasks, Retry(t) PROVE Goal
    BY <1>4 DEF Retry, Table!TaskStatuses
  <1>5. ASSUME Crash PROVE Goal
    BY <1>5 DEF Crash, board
  <1> QED BY <1>1, <1>2, <1>3, <1>4, <1>5 DEF Next

LEMMA StepSimulates ==
    TypeOK /\ BoardInv /\ [Next]_vars => [Inspected!Next]_<<MappedRow, MappedOwner>>
  <1> SUFFICES ASSUME TypeOK, BoardInv, [Next]_vars
               PROVE Inspected!Next \/ UNCHANGED <<MappedRow, MappedOwner>>
    OBVIOUS
  <1>1. CASE UNCHANGED vars
    BY <1>1 DEF vars, MappedRow, MappedOwner
  <1>2. ASSUME NEW c \in Callers, Reassign(c)
        PROVE Inspected!Next \/ UNCHANGED <<MappedRow, MappedOwner>>
    <2>1. PICK t \in Tasks : moved' = moved \cup {t}
      BY <1>2 DEF Reassign
    <2>2. row' = row /\ owner' = owner
      BY <1>2 DEF Reassign, board
    <2>3. /\ MappedRow' = [MappedRow EXCEPT ![t] = "moved"]
          /\ MappedOwner' = [MappedOwner EXCEPT ![t] = NoAgent]
      BY <2>1, <2>2 DEF MappedRow, MappedOwner
    <2>4. Inspected!Reassigned(t)
      BY <2>3 DEF Inspected!Reassigned, MappedRow, MappedOwner
    <2> QED BY <2>4 DEF Inspected!Next
  <1>3. ASSUME NEW c \in Callers, Assign(c)
        PROVE Inspected!Next \/ UNCHANGED <<MappedRow, MappedOwner>>
    <2>1. PICK t \in Tasks, a \in Agents : t = call[c].task /\ a = call[c].agent
      BY <1>3 DEF Assign, At, BoardInv, PlaceInv, Busy
    <2>2. /\ row' = [row EXCEPT ![t] = "assigned"] /\ owner' = [owner EXCEPT ![t] = a]
          /\ moved' = moved
      BY <1>3, <2>1 DEF Assign
    <2>3. t \in Steady => row[t] = "pending"
      BY <1>3, <2>1 DEF Assign, At, BoardInv, CallerInv, Busy
    <2>4. CASE t \in moved
      BY <2>2, <2>4 DEF MappedRow, MappedOwner, TypeOK
    <2>5. CASE t \notin moved
      <3>1. MappedRow[t] = "pending"
        BY <2>3, <2>5 DEF MappedRow, Steady
      <3>2. /\ MappedRow' = [MappedRow EXCEPT ![t] = "assigned"]
            /\ MappedOwner' = [MappedOwner EXCEPT ![t] = a]
        BY <2>2, <2>5 DEF MappedRow, MappedOwner, TypeOK
      <3>3. Inspected!Move(t, "assigned")
        BY <3>1, <3>2 DEF Inspected!Move, Inspected!Valid, MappedRow, MappedOwner
      <3> QED BY <3>3 DEF Inspected!Next, Inspected!TaskStatuses
    <2> QED BY <2>4, <2>5
  <1>4. CASE Next /\ \A c \in Callers : ~ (Assign(c) \/ Reassign(c))
    <2>1. owner' = owner /\ moved' = moved
      BY <1>4, OtherWrites
    <2>2. CASE row' = row
      BY <2>1, <2>2 DEF MappedRow, MappedOwner
    <2>3. ASSUME NEW t \in Tasks, NEW s \in Table!TaskStatuses \ {"assigned"},
                 row' = [row EXCEPT ![t] = s], row' # row
          PROVE Inspected!Next \/ UNCHANGED <<MappedRow, MappedOwner>>
      <3>1. CASE t \in moved
        BY <2>1, <2>3, <3>1 DEF MappedRow, MappedOwner, TypeOK
      <3>2. CASE t \notin moved
        <4>1. row'[t] = s /\ row[t] # s
          BY <2>3 DEF TypeOK
        <4>2. <<row[t], s>> \in Table!Valid
          BY <1>4, <3>2, <4>1, RowChanges DEF Steady
        <4>3. /\ MappedRow[t] = row[t] /\ MappedRow' = [MappedRow EXCEPT ![t] = s]
              /\ MappedOwner' = MappedOwner
          BY <2>1, <2>3, <3>2 DEF MappedRow, MappedOwner, TypeOK
        <4>4. Inspected!Move(t, s)
          BY <2>3, <4>2, <4>3 DEF Inspected!Move, Inspected!Valid, Table!Valid, MappedRow, MappedOwner
        <4>5. s \in Inspected!TaskStatuses
          BY <2>3 DEF Inspected!TaskStatuses, Table!TaskStatuses
        <4> QED BY <4>4, <4>5 DEF Inspected!Next
      <3> QED BY <3>1, <3>2
    <2> QED BY <1>4, <2>2, <2>3, OtherWrites
  <1> QED BY <1>1, <1>2, <1>3, <1>4

\* With one caller at a time, the rows follow the table of valid transitions
\* (task_exec.py:13-21), although most of their writers do not look at it.
THEOREM BoardFollowsTable == ASSUME Single PROVE Spec => FollowsTable
  <1>1. Init => Inspected!Init
    <2> SUFFICES ASSUME Init PROVE Inspected!Init
      OBVIOUS
    <2> QED BY DEF Init, Inspected!Init
  <1>2. TypeOK /\ BoardInv /\ [Next]_vars => [Inspected!Next]_<<MappedRow, MappedOwner>>
    BY StepSimulates
  <1> QED BY <1>1, <1>2, BoardConsistent, PTL
          DEF Spec, FollowsTable, Inspected!Spec, MappedRow, MappedOwner

=============================================================================
