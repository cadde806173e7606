----------------------------- MODULE Work_proofs -----------------------------
(***************************************************************************)
(* Theorems of Bootstrap, Pipeline, AgentBridge, Ballots and Deliberation, and *)
(* of their composition.                                                     *)
(***************************************************************************)
EXTENDS MCWork, Operators_proofs

(***************************************************************************)
(* Bootstrap.                                                                *)
(***************************************************************************)

\* Only finitely many triggers wait, at any time.
FewPending == IsFiniteSet(Pending)

Carrying == {"start", "wait", "submit", "mark"}

\* An engine that is not idle has a trigger, and after _create_motion a motion of
\* its own that was made for it.
EngineOwns ==
    \A e \in Engines :
        /\ engine[e].at # "idle" => engine[e].todo # <<>>
        /\ engine[e].at = "create" => engine[e].motion = NoMotion
        /\ engine[e].at \in Carrying =>
              /\ engine[e].motion \in Motions
              /\ motion[engine[e].motion].of = Topic(e)
        /\ engine[e].motion \in Motions => motion[engine[e].motion].status # "none"
        /\ \A f \in Engines \ {e} : engine[e].motion = engine[f].motion => engine[e].motion = NoMotion

\* What the engine has reached shows on its motion: it is submitted when it has
\* closed, and the trigger marked when the approval request is there.
EngineProgress ==
    \A e \in Engines :
        /\ engine[e].at = "start" => motion[engine[e].motion].status = "created"
        /\ engine[e].at \in {"submit", "mark"} => motion[engine[e].motion].status = "closed"
        /\ engine[e].at = "mark" => approval[engine[e].motion] # "none"

\* The decisions to approve m whose generation has not come past item i yet.
Coming(m, i) == {d \in Deciders : decider[d].motion = m /\ decider[d].next <= i}

\* A task is on the board, or its generation may still make it, for a decision of its own.
TasksAndComing ==
    \A m \in Motions, i \in Items :
        IsFiniteSet(Coming(m, i)) /\ tasks[m][i] + Cardinality(Coming(m, i)) <= approvals[m]

UndecidedAlike == \A d \in Deciders : decider[d].motion = NoMotion => decider[d] = Undecided

BootInv == BootTypes /\ FewPending /\ EngineOwns /\ EngineProgress /\ ProcessedIsSubmitted /\ UndecidedAlike /\ TasksAndComing

-----------------------------------------------------------------------------
\* A batch is a sequence of pending triggers, one at least.
LEMMA BatchSeq ==
    ASSUME IsFiniteSet(Pending), Pending # {}, NEW s \in Batches
    PROVE  s \in Seq(Topics) /\ s # <<>>
<1>1. Cardinality(Pending) \in Nat \ {0}
  BY FS_CardinalityType, FS_EmptySet
<1> DEFINE n == Min({BatchLimit, Cardinality(Pending)})
<1>2. n \in Nat \ {0}
  BY <1>1, BootstrapAssumption DEF Min
<1>3. PICK S \in kSubset(n, Pending) : s \in SetToSeqs(S)
  BY DEF Batches
<1>4. S \subseteq Topics /\ Cardinality(S) = n
  BY <1>3 DEF kSubset, Pending
<1>5. s \in [1..n -> S]
  BY <1>3, <1>4 DEF SetToSeqs
<1> HIDE DEF n
<1>6. s \in Seq(Topics)
  <2>1. s \in [1..n -> Topics]
    BY <1>4, <1>5
  <2> QED
    BY <1>2, <2>1, SeqDef
<1>7. DOMAIN s = 1..n /\ 1 \in 1..n /\ DOMAIN <<>> = {}
  BY <1>2, <1>5
<1> QED
  BY <1>6, <1>7

BootStep ==
    \/ \E t \in Topics : CreateTrigger(t)
    \/ UpdateSchedule \/ ProcessEnds
    \/ \E e \in Engines : StartBatch(e) \/ EngineStep(e)
    \/ \E m \in Motions : DiscussionCloses(m)
    \/ \E d \in Deciders : CreateTask(d) \/ \E m \in Motions : Approve(d, m) \/ Reject(d, m)

\* The tail of a longer sequence is not empty.
LEMMA TailLeft ==
    ASSUME NEW S, NEW s \in Seq(S), Len(s) > 1
    PROVE  Tail(s) \in Seq(S) /\ Tail(s) # <<>>
<1>1. Tail(s) \in Seq(S) /\ Len(Tail(s)) = Len(s) - 1
  BY HeadTailProperties, EmptySeq
<1>2. Len(<<>>) = 0
  BY EmptySeq
<1>3. Len(Tail(s)) \in Nat \ {0}
  BY <1>1, LenProperties
<1>4. Len(Tail(s)) # Len(<<>>)
  BY <1>2, <1>3
<1> QED
  BY <1>1, <1>4

\* What is left of a batch is a batch.
LEMMA AfterThisTypes ==
    ASSUME BootTypes, NEW e \in Engines, engine[e].todo # <<>>
    PROVE  /\ AfterThis(e) \in [at : {"idle", "create"}, todo : Seq(Topics), motion : {NoMotion}]
           /\ AfterThis(e).at # "idle" => AfterThis(e).todo # <<>>
           /\ Topic(e) \in Topics
<1>1. engine[e].todo \in Seq(Topics)
  BY DEF BootTypes
<1>2. Topic(e) \in Topics
  BY <1>1 DEF Topic
<1>3. Idling \in [at : {"idle"}, todo : Seq(Topics), motion : {NoMotion}]
  BY DEF Idling
<1>4. CASE Len(engine[e].todo) > 1
  <2>1. Tail(engine[e].todo) \in Seq(Topics) /\ Tail(engine[e].todo) # <<>>
    BY <1>1, <1>4, TailLeft
  <2>2. AfterThis(e) = [at |-> "create", todo |-> Tail(engine[e].todo), motion |-> NoMotion]
    BY <1>4 DEF AfterThis, Idling
  <2> QED
    BY <1>2, <2>1, <2>2
<1>5. CASE ~ (Len(engine[e].todo) > 1)
  BY <1>2, <1>3, <1>5 DEF AfterThis, Idling
<1> QED
  BY <1>4, <1>5

Work == [at : {"idle", "create", "start", "wait", "submit", "mark", "fail"},
         todo : Seq(Topics), motion : Motions \cup {NoMotion}]

\* Every step keeps the types.
LEMMA BootTypesKept ==
    ASSUME BootTypes, FewPending, EngineOwns, BootStep
    PROVE  BootTypes'
<1>1. ASSUME NEW t \in Topics, CreateTrigger(t) PROVE BootTypes'
  BY <1>1 DEF CreateTrigger, BootTypes
<1>2. CASE UpdateSchedule
  BY <1>2 DEF UpdateSchedule, BootTypes
<1>3. CASE ProcessEnds
  BY <1>3, BootstrapAssumption DEF ProcessEnds, Idling, Undecided, BootTypes
<1>4. ASSUME NEW e \in Engines, StartBatch(e) PROVE BootTypes'
  <2>1. PICK s \in Batches : engine' = [engine EXCEPT ![e] = [Idling EXCEPT !.at = "create", !.todo = s]]
    BY <1>4 DEF StartBatch, BootTypes
  <2>2. s \in Seq(Topics)
    BY <1>4, BatchSeq DEF StartBatch, FewPending, BootTypes
  <2> QED
    BY <1>4, <2>1, <2>2 DEF StartBatch, Idling, BootTypes
<1>5. ASSUME NEW e \in Engines, EngineStep(e) PROVE BootTypes'
  <2>1. CASE CreateMotion(e)
    <3>1. Topic(e) \in Topics
      BY <2>1, AfterThisTypes DEF EngineOwns, CreateMotion, GoOn, BootTypes
    <3>2. engine' \in [Engines -> Work]
      <4> SUFFICES ASSUME engine' = [engine EXCEPT ![e].at = "fail"]
                          \/ \E m \in Motions : engine' = [engine EXCEPT ![e].at = "start", ![e].motion = m]
                   PROVE  engine' \in [Engines -> Work]
        BY <2>1 DEF CreateMotion, GoOn
      <4>0. engine[e] \in Work
        BY DEF Work, BootTypes
      <4>1. CASE engine' = [engine EXCEPT ![e].at = "fail"]
        <5>1. [engine[e] EXCEPT !.at = "fail"] \in Work
          BY <4>0 DEF Work
        <5> QED
          BY <4>1, <5>1 DEF Work, BootTypes
      <4>2. ASSUME NEW m \in Motions, engine' = [engine EXCEPT ![e].at = "start", ![e].motion = m]
            PROVE  engine' \in [Engines -> Work]
        <5>1. [[engine[e] EXCEPT !.at = "start"] EXCEPT !.motion = m] \in Work
          BY <4>0 DEF Work
        <5> QED
          BY <4>2, <5>1 DEF Work, BootTypes
      <4> QED
        BY <4>1, <4>2
    <3>3. motion' \in [Motions -> [of : Topics \cup {NoTopic}, status : {"none", "created", "open", "closed"}]]
      <4>1. CASE UNCHANGED motion
        BY <4>1 DEF BootTypes
      <4>2. ASSUME NEW m \in Motions, motion' = [motion EXCEPT ![m] = [of |-> Topic(e), status |-> "created"]]
            PROVE  motion' \in [Motions -> [of : Topics \cup {NoTopic}, status : {"none", "created", "open", "closed"}]]
        BY <4>2, <3>1 DEF BootTypes
      <4> QED
        BY <4>1, <4>2, <2>1 DEF CreateMotion, BootTypes
    <3> QED
      BY <2>1, <3>2, <3>3 DEF CreateMotion, Work, BootTypes
  <2>2. CASE StartDiscussion(e)
    <3>1. engine' \in [Engines -> Work]
      BY <2>2 DEF StartDiscussion, GoOn, Work, BootTypes
    <3>2. motion' \in [Motions -> [of : Topics \cup {NoTopic}, status : {"none", "created", "open", "closed"}]]
      <4> SUFFICES ASSUME NEW m, motion' = [motion EXCEPT ![m].status = "open"]
                   PROVE  motion' \in [Motions -> [of : Topics \cup {NoTopic}, status : {"none", "created", "open", "closed"}]]
        BY <2>2 DEF StartDiscussion, BootTypes
      <4> QED
        BY DEF BootTypes
    <3>3. UNCHANGED <<trigger, scheduled, approval, decider, tasks, approvals, stops>>
      BY <2>2 DEF StartDiscussion
    <3> QED
      BY <3>1, <3>2, <3>3 DEF Work, BootTypes
  <2>3. CASE WaitForResult(e)
    <3>1. engine' \in [Engines -> Work]
      <4>1. CASE GoOn(e, "wait", "submit")
        BY <4>1 DEF GoOn, Work, BootTypes
      <4>2. CASE GoOn(e, "wait", "fail")
        BY <4>2 DEF GoOn, Work, BootTypes
      <4> QED
        BY <2>3, <4>1, <4>2 DEF WaitForResult
    <3> QED
      BY <2>3, <3>1 DEF WaitForResult, Work, BootTypes
  <2>4. CASE SubmitForApproval(e)
    BY <2>4 DEF SubmitForApproval, GoOn, Requested, BootTypes
  <2>5. ASSUME engine[e].at \in {"mark", "fail"}, engine' = [engine EXCEPT ![e] = AfterThis(e)]
        PROVE  engine' \in [Engines -> Work]
    BY <2>5, AfterThisTypes DEF EngineOwns, Work, BootTypes
  <2>6. CASE MarkProcessed(e) \/ MarkFailed(e)
    BY <2>5, <2>6 DEF MarkProcessed, MarkFailed, Work, BootTypes
  <2> QED
    BY <1>5, <2>1, <2>2, <2>3, <2>4, <2>6 DEF EngineStep, BootTypes
<1>6. ASSUME NEW m \in Motions, DiscussionCloses(m) PROVE BootTypes'
  BY <1>6 DEF DiscussionCloses, BootTypes
<1>7. ASSUME NEW d \in Deciders, CreateTask(d) PROVE BootTypes'
  <2> DEFINE i == decider[d].next
  <2>1. decider' \in [Deciders -> [motion : Motions \cup {NoMotion}, next : 1..(ItemCount + 1)]]
    <3>1. i \in Items => i + 1 \in 1..(ItemCount + 1)
      BY BootstrapAssumption DEF Items, BootTypes
    <3>2. CASE i \in Items /\ decider' = [decider EXCEPT ![d].next = @ + 1]
      BY <3>1, <3>2 DEF BootTypes
    <3>3. CASE decider' = [decider EXCEPT ![d] = Undecided]
      BY <3>3, BootstrapAssumption DEF Undecided, BootTypes
    <3> QED
      BY <1>7, <3>2, <3>3 DEF CreateTask, BootTypes
  <2>2. tasks' \in [Motions -> [Items -> Nat]]
    <3>1. decider[d].motion \in Motions
      BY <1>7 DEF CreateTask, BootTypes
    <3>2. tasks[decider[d].motion] \in [Items -> Nat]
      BY <3>1 DEF BootTypes
    <3>3. CASE i \in Items /\ tasks' = [tasks EXCEPT ![decider[d].motion][i] = @ + 1]
      BY <3>1, <3>2, <3>3 DEF BootTypes
    <3> QED
      BY <1>7, <3>3 DEF CreateTask, BootTypes
  <2> QED
    BY <1>7, <2>1, <2>2 DEF CreateTask, BootTypes
<1>8. ASSUME NEW d \in Deciders, NEW m \in Motions, Approve(d, m) PROVE BootTypes'
  <2>1. approvals' \in [Motions -> 0..MaxApprovals]
    BY <1>8, BootstrapAssumption DEF Approve, BootTypes
  <2>2. decider' \in [Deciders -> [motion : Motions \cup {NoMotion}, next : 1..(ItemCount + 1)]]
    BY <1>8 DEF Approve, BootTypes
  <2> QED
    BY <1>8, <2>1, <2>2 DEF Approve, Decided, BootTypes
<1>9. ASSUME NEW d \in Deciders, NEW m \in Motions, Reject(d, m) PROVE BootTypes'
  BY <1>9 DEF Reject, Decided, BootTypes
<1> QED
  BY <1>1, <1>2, <1>3, <1>4, <1>5, <1>6, <1>7, <1>8, <1>9 DEF BootStep

\* A step adds one trigger at most.
LEMMA FewPendingKept ==
    ASSUME BootTypes, FewPending, BootStep
    PROVE  FewPending'
<1>1. ASSUME NEW t \in Topics, CreateTrigger(t) PROVE FewPending'
  <2>1. Pending' = Pending \cup {t}
    BY <1>1 DEF CreateTrigger, Pending, BootTypes
  <2> QED
    BY <2>1, FS_AddElement DEF FewPending
<1>2. CASE UNCHANGED trigger \/ \E e \in Engines : MarkProcessed(e) \/ MarkFailed(e)
  <2>1. Pending' \subseteq Pending
    BY <1>2 DEF MarkProcessed, MarkFailed, Pending, BootTypes
  <2> QED
    BY <2>1, FS_Subset DEF FewPending
<1> QED
  BY <1>1, <1>2 DEF BootStep, UpdateSchedule, ProcessEnds, StartBatch, EngineStep, CreateMotion,
     StartDiscussion, WaitForResult, SubmitForApproval, DiscussionCloses, CreateTask, Approve, Reject

\* How an engine is after a step of another, and after its own.
LEMMA EngineMoved ==
    ASSUME BootTypes, NEW e \in Engines, EngineStep(e) \/ StartBatch(e)
    PROVE  /\ engine' = [f \in Engines |-> engine'[f]]
           /\ \A f \in Engines \ {e} : engine'[f] = engine[f]
BY DEF EngineStep, StartBatch, CreateMotion, StartDiscussion, WaitForResult, SubmitForApproval,
   MarkProcessed, MarkFailed, GoOn, BootTypes

\* GoOn moves one engine and leaves the others.
LEMMA MovedOn ==
    ASSUME BootTypes, NEW e \in Engines, NEW from, NEW to, GoOn(e, from, to)
    PROVE  engine[e].at = from /\ engine'[e] = [at |-> to, todo |-> engine[e].todo, motion |-> engine[e].motion]
BY DEF GoOn, BootTypes

Made(e, m) ==
    /\ engine[e].at = "create" /\ motion[m].status = "none"
    /\ motion' = [motion EXCEPT ![m] = [of |-> Topic(e), status |-> "created"]]
    /\ engine' = [engine EXCEPT ![e].at = "start", ![e].motion = m]
    /\ UNCHANGED <<trigger, scheduled, approval, decider, tasks, approvals, stops>>

\* _create_motion makes one motion.
LEMMA MadeOne ==
    ASSUME BootTypes, NEW e \in Engines, NEW m \in Motions, Made(e, m)
    PROVE  /\ engine'[e] = [at |-> "start", todo |-> engine[e].todo, motion |-> m]
           /\ motion'[m] = [of |-> Topic(e), status |-> "created"]
           /\ \A n \in Motions \ {m} : motion'[n] = motion[n]
<1>1. engine'[e] = [at |-> "start", todo |-> engine[e].todo, motion |-> m]
  BY DEF Made, BootTypes
<1>2. /\ motion'[m] = [of |-> Topic(e), status |-> "created"]
      /\ \A n \in Motions \ {m} : motion'[n] = motion[n]
  BY DEF Made, BootTypes
<1> QED
  BY <1>1, <1>2

\* _create_motion makes a motion, or the trigger fails.
LEMMA CreatesOrFails ==
    ASSUME NEW e, CreateMotion(e)
    PROVE  \/ \E m \in Motions : Made(e, m)
           \/ GoOn(e, "create", "fail") /\ UNCHANGED <<trigger, scheduled, motion, approval, decider, tasks, approvals, stops>>
BY DEF CreateMotion, Made

\* What every step leaves of a motion: what it is about, and that it has closed.
LEMMA MotionKeeps ==
    ASSUME BootTypes, EngineOwns, EngineProgress, BootStep, NEW m \in Motions, motion[m].status # "none"
    PROVE  /\ motion'[m].of = motion[m].of /\ motion'[m].status # "none"
           /\ motion[m].status = "closed" => motion'[m].status = "closed"
           /\ motion[m].status = "created" /\ motion'[m].status # "created" =>
                 \E e \in Engines : engine[e].at = "start" /\ engine[e].motion = m /\ engine'[e].at = "wait"
<1>1. CASE UNCHANGED motion
  BY <1>1
<1>2. ASSUME NEW e \in Engines, NEW n \in Motions, Made(e, n)
      PROVE  motion'[m] = motion[m]
  <2>1. motion[n].status = "none"
    BY <1>2 DEF Made
  <2> QED
    BY <1>2, <2>1, MadeOne
<1>3. ASSUME NEW e \in Engines, StartDiscussion(e)
      PROVE  /\ motion'[m].of = motion[m].of /\ motion'[m].status # "none"
             /\ motion[m].status = "closed" => motion'[m].status = "closed"
             /\ motion'[m].status # motion[m].status => engine[e].motion = m
             /\ engine[e].at = "start" /\ engine'[e].at = "wait"
  <2>0. GoOn(e, "start", "wait")
    BY <1>3 DEF StartDiscussion
  <2>1. engine[e].at = "start" /\ engine'[e].at = "wait"
    BY <2>0 DEF GoOn, BootTypes
  <2> DEFINE n == engine[e].motion
  <2>2. motion[n].status = "created" /\ n \in Motions
    BY <2>1 DEF EngineProgress, EngineOwns, Carrying
  <2>3. \/ UNCHANGED motion
        \/ motion' = [motion EXCEPT ![n].status = "open"]
    BY <1>3 DEF StartDiscussion
  <2>4. CASE motion' = [motion EXCEPT ![n].status = "open"]
    <3> HIDE DEF n
    <3>1. motion'[m] = IF m = n THEN [motion[n] EXCEPT !.status = "open"] ELSE motion[m]
      BY <2>4 DEF BootTypes
    <3>2. motion[n] \in [of : Topics \cup {NoTopic}, status : {"none", "created", "open", "closed"}]
      BY <2>2 DEF BootTypes
    <3>3. motion'[m].of = motion[m].of /\ (m = n => motion'[m].status = "open")
      BY <3>1, <3>2
    <3> QED
      BY <2>1, <2>2, <3>1, <3>3 DEF n
  <2> QED
    BY <2>1, <2>3, <2>4
<1>4. ASSUME NEW n \in Motions, DiscussionCloses(n)
      PROVE  /\ motion'[m].of = motion[m].of /\ motion'[m].status # "none"
             /\ motion[m].status = "closed" => motion'[m].status = "closed"
             /\ motion[m].status = "created" => motion'[m].status = "created"
  BY <1>4 DEF DiscussionCloses, BootTypes
<1>5. \/ UNCHANGED motion
      \/ \E e \in Engines, n \in Motions : Made(e, n)
      \/ \E e \in Engines : StartDiscussion(e)
      \/ \E n \in Motions : DiscussionCloses(n)
  BY CreatesOrFails DEF BootStep, CreateTrigger, UpdateSchedule, ProcessEnds, StartBatch, EngineStep,
     WaitForResult, SubmitForApproval, MarkProcessed, MarkFailed, CreateTask, Approve, Reject
<1> QED
  BY <1>1, <1>2, <1>3, <1>4, <1>5

\* A result that was submitted stays submitted.
LEMMA ApprovalKeeps ==
    ASSUME BootTypes, BootStep, NEW m \in Motions, approval[m] # "none"
    PROVE  approval'[m] # "none"
<1>1. CASE UNCHANGED approval
  BY <1>1
<1>2. ASSUME NEW n, NEW what \in {"pending", "approved", "rejected"}, approval' = [approval EXCEPT ![n] = what]
      PROVE  approval'[m] # "none"
  BY <1>2 DEF BootTypes
<1>3. \/ UNCHANGED approval
      \/ \E n : \E what \in {"pending", "approved", "rejected"} : approval' = [approval EXCEPT ![n] = what]
  BY DEF BootStep, CreateTrigger, UpdateSchedule, ProcessEnds, StartBatch, EngineStep, CreateMotion, StartDiscussion,
     WaitForResult, SubmitForApproval, MarkProcessed, MarkFailed, CreateTask, Approve, Reject, DiscussionCloses,
     Requested, Decided
<1> QED
  BY <1>1, <1>2, <1>3

\* Every step leaves each engine with a trigger and a motion of its own.
LEMMA EngineOwnsKept ==
    ASSUME BootTypes, FewPending, EngineOwns, EngineProgress, BootStep
    PROVE  EngineOwns'
<1> DEFINE Owns(e) ==
        /\ engine[e].at # "idle" => engine[e].todo # <<>>
        /\ engine[e].at = "create" => engine[e].motion = NoMotion
        /\ engine[e].at \in Carrying =>
              /\ engine[e].motion \in Motions
              /\ motion[engine[e].motion].of = Topic(e)
        /\ engine[e].motion \in Motions => motion[engine[e].motion].status # "none"
<1> DEFINE Apart == \A e \in Engines : \A f \in Engines \ {e} :
               engine[e].motion = engine[f].motion => engine[e].motion = NoMotion
<1>0. EngineOwns <=> (\A e \in Engines : Owns(e)) /\ Apart
  BY DEF EngineOwns
<1>1. EngineOwns' <=> (\A e \in Engines : Owns(e)') /\ Apart'
  BY DEF EngineOwns
<1>2. ASSUME NEW e \in Engines, engine'[e] = engine[e] PROVE Owns(e)'
  <2>1. Owns(e) /\ (engine[e].motion \in Motions => motion[engine[e].motion].status # "none")
    BY <1>0
  <2>2. engine[e].motion \in Motions =>
           motion'[engine[e].motion].of = motion[engine[e].motion].of /\ motion'[engine[e].motion].status # "none"
    BY <2>1, MotionKeeps
  <2> QED
    BY <1>2, <2>1, <2>2 DEF Topic
<1>3. ASSUME NEW e \in Engines, engine'[e].motion = NoMotion, engine'[e].at \in {"idle", "create"},
             engine'[e].at # "idle" => engine'[e].todo # <<>>
      PROVE  Owns(e)'
  BY <1>3, BootstrapAssumption DEF Carrying
<1>4. ASSUME NEW e \in Engines, NEW from \in {"start", "wait", "submit"}, NEW to \in Carrying \cup {"fail"}, GoOn(e, from, to)
      PROVE  Owns(e)' /\ engine'[e].motion = engine[e].motion
  <2>1. engine[e].at = from /\ engine'[e] = [at |-> to, todo |-> engine[e].todo, motion |-> engine[e].motion]
    BY <1>4 DEF GoOn, BootTypes
  <2>2. Owns(e) /\ engine[e].at \in Carrying
    BY <1>0, <2>1 DEF Carrying
  <2>3. engine[e].motion \in Motions /\ engine[e].todo # <<>> /\ motion[engine[e].motion].of = Topic(e)
        /\ motion[engine[e].motion].status # "none"
    BY <2>1, <2>2
  <2>4. motion'[engine[e].motion].of = motion[engine[e].motion].of /\ motion'[engine[e].motion].status # "none"
    BY <2>3, MotionKeeps
  <2> QED
    BY <2>1, <2>3, <2>4 DEF Topic, Carrying
<1>5. ASSUME NEW e \in Engines, NEW m \in Motions, Made(e, m)
      PROVE  Owns(e)' /\ \A f \in Engines : engine[f].motion # m
  <2>1. engine[e].at = "create" /\ motion[m].status = "none"
    BY <1>5 DEF Made
  <2>2. /\ engine'[e] = [at |-> "start", todo |-> engine[e].todo, motion |-> m]
        /\ motion'[m] = [of |-> Topic(e), status |-> "created"]
    BY <1>5, MadeOne
  <2>3. engine[e].todo # <<>>
    BY <1>0, <2>1
  <2>4. \A f \in Engines : engine[f].motion # m
    BY <1>0, <2>1
  <2> QED
    BY <2>2, <2>3, <2>4 DEF Topic
<1>6. ASSUME NEW e \in Engines, GoOn(e, "create", "fail"), UNCHANGED motion
      PROVE  Owns(e)' /\ engine'[e].motion = engine[e].motion
  <2>1. engine[e].at = "create" /\ engine'[e] = [at |-> "fail", todo |-> engine[e].todo, motion |-> engine[e].motion]
    BY <1>6 DEF GoOn, BootTypes
  <2>2. Owns(e)
    BY <1>0
  <2> QED
    BY <1>6, <2>1, <2>2, BootstrapAssumption DEF Carrying
<1>7. ASSUME NEW e \in Engines, \A f \in Engines \ {e} : engine'[f] = engine[f],
             engine'[e].motion = engine[e].motion \/ engine'[e].motion = NoMotion
                 \/ \A f \in Engines : engine[f].motion # engine'[e].motion
      PROVE  Apart'
  BY <1>0, <1>7
<1>8. ASSUME UNCHANGED engine PROVE EngineOwns'
  <2>1. \A e \in Engines : Owns(e)'
    BY <1>2, <1>8
  <2> QED
    BY <1>0, <1>1, <1>8, <2>1
<1>9. ASSUME NEW e \in Engines, EngineStep(e) \/ StartBatch(e) PROVE EngineOwns'
  <2>1. \A f \in Engines \ {e} : engine'[f] = engine[f]
    BY <1>9, EngineMoved
  <2>2. \A f \in Engines \ {e} : Owns(f)'
    BY <1>2, <2>1
  <2>3. CASE StartBatch(e)
    <3>1. PICK s \in Batches : engine' = [engine EXCEPT ![e] = [Idling EXCEPT !.at = "create", !.todo = s]]
      BY <2>3 DEF StartBatch
    <3>2. s # <<>>
      BY <2>3, BatchSeq DEF StartBatch, FewPending
    <3>3. engine'[e] = [at |-> "create", todo |-> s, motion |-> NoMotion]
      BY <3>1 DEF Idling, BootTypes
    <3> QED
      BY <1>1, <1>3, <1>7, <2>1, <2>2, <3>2, <3>3
  <2>4. CASE MarkProcessed(e) \/ MarkFailed(e)
    <3>1. engine[e].at # "idle" /\ engine'[e] = AfterThis(e)
      BY <2>4 DEF MarkProcessed, MarkFailed, BootTypes
    <3>2. AfterThis(e).motion = NoMotion /\ AfterThis(e).at \in {"idle", "create"}
          /\ (AfterThis(e).at # "idle" => AfterThis(e).todo # <<>>)
      BY <1>0, <3>1, AfterThisTypes
    <3> QED
      BY <1>1, <1>3, <1>7, <2>1, <2>2, <3>1, <3>2
  <2>5. CASE CreateMotion(e)
    <3>1. ASSUME NEW m \in Motions, Made(e, m) PROVE EngineOwns'
      <4>1. engine'[e].motion = m
        <5>1. engine'[e] = [at |-> "start", todo |-> engine[e].todo, motion |-> m]
          BY <3>1, MadeOne
        <5> QED
          BY <5>1
      <4> QED
        BY <1>1, <1>5, <1>7, <2>1, <2>2, <3>1, <4>1
    <3>2. CASE GoOn(e, "create", "fail") /\ UNCHANGED motion
      BY <1>1, <1>6, <1>7, <2>1, <2>2, <3>2
    <3> QED
      BY <2>5, <3>1, <3>2, CreatesOrFails
  <2>6. CASE StartDiscussion(e) \/ WaitForResult(e) \/ SubmitForApproval(e)
    <3>1. Owns(e)' /\ engine'[e].motion = engine[e].motion
      BY <1>4, <2>6 DEF StartDiscussion, WaitForResult, SubmitForApproval, Carrying
    <3> QED
      BY <1>1, <1>7, <2>1, <2>2, <3>1
  <2> QED
    BY <1>9, <2>3, <2>4, <2>5, <2>6 DEF EngineStep
<1>10. CASE ProcessEnds
  <2>1. \A e \in Engines : engine'[e] = Idling
    BY <1>10 DEF ProcessEnds
  <2>2. \A e \in Engines : Owns(e)'
    BY <1>3, <2>1 DEF Idling
  <2>3. Apart'
    BY <2>1 DEF Idling
  <2> QED
    BY <1>1, <2>2, <2>3
<1>11. \/ UNCHANGED engine \/ ProcessEnds
       \/ \E e \in Engines : EngineStep(e) \/ StartBatch(e)
  BY DEF BootStep, CreateTrigger, UpdateSchedule, DiscussionCloses, CreateTask, Approve, Reject
<1> QED
  BY <1>8, <1>9, <1>10, <1>11

\* Every step leaves each engine as far as its motion is.
LEMMA EngineProgressKept ==
    ASSUME BootTypes, FewPending, EngineOwns, EngineProgress, BootStep
    PROVE  EngineProgress'
<1> DEFINE Shows(e) ==
        /\ engine[e].at = "start" => motion[engine[e].motion].status = "created"
        /\ engine[e].at \in {"submit", "mark"} => motion[engine[e].motion].status = "closed"
        /\ engine[e].at = "mark" => approval[engine[e].motion] # "none"
<1>0. (EngineProgress <=> \A e \in Engines : Shows(e)) /\ (EngineProgress' <=> \A e \in Engines : Shows(e)')
  BY DEF EngineProgress
<1>1. ASSUME NEW e \in Engines, engine'[e] = engine[e] PROVE Shows(e)'
  <2> DEFINE m == engine[e].motion
  <2>1. Shows(e)
    BY <1>0
  <2>2. engine[e].at \in Carrying => m \in Motions /\ motion[m].status # "none"
    BY DEF EngineOwns
  <2>3. engine[e].at = "start" => motion'[m].status = "created"
    <3> SUFFICES ASSUME engine[e].at = "start", motion'[m].status # "created" PROVE FALSE
      OBVIOUS
    <3>1. m \in Motions /\ motion[m].status = "created"
      BY <2>1, <2>2 DEF Carrying
    <3>2. PICK f \in Engines : engine[f].at = "start" /\ engine[f].motion = m /\ engine'[f].at = "wait"
      BY <3>1, MotionKeeps
    <3>3. f = e
      BY <3>1, <3>2, BootstrapAssumption DEF EngineOwns
    <3> QED
      BY <1>1, <3>2, <3>3
  <2>4. engine[e].at \in {"submit", "mark"} => motion'[m].status = "closed"
    BY <2>1, <2>2, MotionKeeps DEF Carrying
  <2>5. engine[e].at = "mark" => approval'[m] # "none"
    BY <2>1, <2>2, ApprovalKeeps DEF Carrying
  <2> QED
    BY <1>1, <2>3, <2>4, <2>5
<1>2. ASSUME NEW e \in Engines, engine'[e].at \in {"idle", "create", "fail", "wait"} PROVE Shows(e)'
  BY <1>2
<1>3. ASSUME NEW e \in Engines, EngineStep(e) \/ StartBatch(e) PROVE EngineProgress'
  <2>1. \A f \in Engines \ {e} : Shows(f)'
    BY <1>1, <1>3, EngineMoved
  <2>2. CASE StartBatch(e)
    <3>1. engine'[e].at = "create"
      BY <2>2 DEF StartBatch, Idling, BootTypes
    <3> QED
      BY <1>0, <1>2, <2>1, <3>1
  <2>3. CASE MarkProcessed(e) \/ MarkFailed(e)
    <3>1. engine[e].at # "idle" /\ engine'[e] = AfterThis(e)
      BY <2>3 DEF MarkProcessed, MarkFailed, BootTypes
    <3>2. AfterThis(e).at \in {"idle", "create"}
      BY <3>1, AfterThisTypes DEF EngineOwns
    <3> QED
      BY <1>0, <1>2, <2>1, <3>1, <3>2
  <2>4. ASSUME NEW m \in Motions, Made(e, m) PROVE EngineProgress'
    <3>1. engine'[e] = [at |-> "start", todo |-> engine[e].todo, motion |-> m]
          /\ motion'[m] = [of |-> Topic(e), status |-> "created"]
      BY <2>4, MadeOne
    <3>2. Shows(e)'
      BY <3>1
    <3> QED
      BY <1>0, <2>1, <3>2
  <2>5. ASSUME NEW from, NEW to \in {"fail", "wait"}, GoOn(e, from, to) PROVE EngineProgress'
    <3>1. engine'[e].at = to
      BY <2>5 DEF GoOn, BootTypes
    <3> QED
      BY <1>0, <1>2, <2>1, <3>1
  <2>6. CASE GoOn(e, "wait", "submit") /\ motion[engine[e].motion].status = "closed" /\ UNCHANGED motion
    <3>1. engine'[e].at = "submit" /\ engine'[e].motion = engine[e].motion
      BY <2>6 DEF GoOn, BootTypes
    <3>2. Shows(e)'
      BY <2>6, <3>1
    <3> QED
      BY <1>0, <2>1, <3>2
  <2>7. CASE SubmitForApproval(e)
    <3>1. engine[e].at = "submit" /\ engine'[e].at = "mark" /\ engine'[e].motion = engine[e].motion
      BY <2>7 DEF SubmitForApproval, GoOn, BootTypes
    <3>2. engine[e].motion \in Motions /\ motion[engine[e].motion].status = "closed"
      BY <3>1 DEF EngineOwns, EngineProgress, Carrying
    <3>3. approval'[engine[e].motion] = "pending" /\ UNCHANGED motion
      BY <2>7, <3>2 DEF SubmitForApproval, Requested, BootTypes
    <3>4. Shows(e)'
      BY <3>1, <3>2, <3>3
    <3> QED
      BY <1>0, <2>1, <3>4
  <2>8. CreateMotion(e) => (\E m \in Motions : Made(e, m)) \/ GoOn(e, "create", "fail")
    BY CreatesOrFails
  <2> QED
    BY <1>3, <2>2, <2>3, <2>4, <2>5, <2>6, <2>7, <2>8 DEF EngineStep, StartDiscussion, WaitForResult
<1>4. CASE UNCHANGED engine
  BY <1>0, <1>1, <1>4
<1>5. CASE ProcessEnds
  <2>1. \A e \in Engines : engine'[e].at = "idle"
    BY <1>5 DEF ProcessEnds, Idling
  <2> QED
    BY <1>0, <1>2, <2>1
<1>6. \/ UNCHANGED engine \/ ProcessEnds
      \/ \E e \in Engines : EngineStep(e) \/ StartBatch(e)
  BY DEF BootStep, CreateTrigger, UpdateSchedule, DiscussionCloses, CreateTask, Approve, Reject
<1> QED
  BY <1>3, <1>4, <1>5, <1>6

\* A trigger that is marked as processed has been submitted, and stays so.
LEMMA ProcessedIsSubmittedKept ==
    ASSUME BootTypes, FewPending, EngineOwns, EngineProgress, ProcessedIsSubmitted, BootStep
    PROVE  ProcessedIsSubmitted'
<1> DEFINE Shown(t, m) == motion[m] = [of |-> t, status |-> "closed"] /\ approval[m] # "none"
<1>1. ASSUME NEW t \in Topics, NEW m \in Motions, Shown(t, m) PROVE Shown(t, m)'
  <2>1. motion[m].of = t /\ motion[m].status = "closed" /\ approval[m] # "none"
    BY <1>1
  <2>2. motion'[m].of = t /\ motion'[m].status = "closed" /\ approval'[m] # "none"
    BY <2>1, MotionKeeps, ApprovalKeeps
  <2>3. motion'[m] = [of |-> motion'[m].of, status |-> motion'[m].status]
    <3> SUFFICES BootTypes'
      BY DEF BootTypes
    <3> QED
      BY BootTypesKept
  <2> QED
    BY <2>2, <2>3
<1>2. ASSUME NEW t \in Topics, trigger'[t] = "processed"
      PROVE  \E m \in Motions : Shown(t, m)
  <2>1. CASE trigger[t] = "processed"
    BY <2>1 DEF ProcessedIsSubmitted
  <2>2. CASE trigger[t] # "processed"
    <3>1. PICK e \in Engines : MarkProcessed(e) /\ Topic(e) = t
      BY <1>2, <2>2 DEF BootStep, CreateTrigger, UpdateSchedule, ProcessEnds, StartBatch, EngineStep, CreateMotion,
         StartDiscussion, WaitForResult, SubmitForApproval, MarkProcessed, MarkFailed, CreateTask, Approve, Reject,
         DiscussionCloses, BootTypes
    <3>2. engine[e].at = "mark"
      BY <3>1 DEF MarkProcessed
    <3>3. engine[e].motion \in Motions /\ motion[engine[e].motion].of = t
          /\ motion[engine[e].motion].status = "closed" /\ approval[engine[e].motion] # "none"
      BY <3>1, <3>2 DEF EngineOwns, EngineProgress, Carrying
    <3>4. motion[engine[e].motion] = [of |-> t, status |-> "closed"]
      BY <3>3 DEF BootTypes
    <3> QED
      BY <3>3, <3>4
  <2> QED
    BY <2>1, <2>2
<1> QED
  BY <1>1, <1>2 DEF ProcessedIsSubmitted

\* Every step leaves those who decide nothing alike.
LEMMA UndecidedAlikeKept ==
    ASSUME BootTypes, UndecidedAlike, BootStep
    PROVE  UndecidedAlike'
<1>1. ASSUME NEW d \in Deciders, NEW m \in Motions, Approve(d, m) PROVE UndecidedAlike'
  <2>1. decider'[d].motion = m /\ \A c \in Deciders \ {d} : decider'[c] = decider[c]
    BY <1>1 DEF Approve, BootTypes
  <2> QED
    BY <2>1, BootstrapAssumption DEF UndecidedAlike
<1>2. ASSUME NEW d \in Deciders, CreateTask(d) PROVE UndecidedAlike'
  <2>1. \/ decider' = [decider EXCEPT ![d].next = @ + 1] /\ decider[d].motion # NoMotion
        \/ decider' = [decider EXCEPT ![d] = Undecided]
    BY <1>2 DEF CreateTask
  <2>2. CASE decider' = [decider EXCEPT ![d].next = @ + 1] /\ decider[d].motion # NoMotion
    <3>1. decider'[d].motion = decider[d].motion /\ \A c \in Deciders \ {d} : decider'[c] = decider[c]
      BY <2>2 DEF BootTypes
    <3> QED
      BY <2>2, <3>1 DEF UndecidedAlike
  <2>3. CASE decider' = [decider EXCEPT ![d] = Undecided]
    BY <2>3 DEF UndecidedAlike, BootTypes
  <2> QED
    BY <2>1, <2>2, <2>3
<1>3. CASE ProcessEnds
  BY <1>3 DEF ProcessEnds, UndecidedAlike
<1>4. CASE UNCHANGED decider
  BY <1>4 DEF UndecidedAlike
<1> QED
  BY <1>1, <1>2, <1>3, <1>4 DEF BootStep, CreateTrigger, UpdateSchedule, StartBatch, EngineStep, CreateMotion,
     StartDiscussion, WaitForResult, SubmitForApproval, MarkProcessed, MarkFailed, DiscussionCloses, Reject

\* Fewer to come, and no more tasks than before.
LEMMA FewerComing ==
    ASSUME BootTypes, NEW m \in Motions, NEW i \in Items,
           IsFiniteSet(Coming(m, i)), tasks[m][i] + Cardinality(Coming(m, i)) <= approvals[m],
           Coming(m, i)' \subseteq Coming(m, i), tasks'[m][i] = tasks[m][i], approvals'[m] = approvals[m]
    PROVE  IsFiniteSet(Coming(m, i)') /\ tasks'[m][i] + Cardinality(Coming(m, i)') <= approvals'[m]
<1>1. IsFiniteSet(Coming(m, i)') /\ Cardinality(Coming(m, i)') <= Cardinality(Coming(m, i))
  BY FS_Subset
<1>2. Cardinality(Coming(m, i)') \in Nat /\ Cardinality(Coming(m, i)) \in Nat
  BY <1>1, FS_CardinalityType
<1>3. tasks[m][i] \in Nat /\ approvals[m] \in Int
  BY BootstrapAssumption DEF BootTypes
<1> QED
  BY <1>1, <1>2, <1>3

\* A task that comes on the board is no longer to come.
LEMMA TasksAndComingKept ==
    ASSUME BootTypes, UndecidedAlike, TasksAndComing, BootStep
    PROVE  TasksAndComing'
<1> SUFFICES ASSUME NEW m \in Motions, NEW i \in Items
             PROVE  IsFiniteSet(Coming(m, i)') /\ tasks'[m][i] + Cardinality(Coming(m, i)') <= approvals'[m]
  BY DEF TasksAndComing, Items
<1>0. /\ IsFiniteSet(Coming(m, i)) /\ tasks[m][i] + Cardinality(Coming(m, i)) <= approvals[m]
      /\ tasks[m][i] \in Nat /\ approvals[m] \in Nat /\ Cardinality(Coming(m, i)) \in Nat
      /\ i \in Int
  BY FS_CardinalityType, BootstrapAssumption DEF TasksAndComing, BootTypes, Items
<1>1. CASE UNCHANGED <<decider, tasks, approvals>>
  BY <1>0, <1>1 DEF Coming
<1>2. CASE ProcessEnds
  <2>1. Coming(m, i)' = {}
    BY <1>2, BootstrapAssumption DEF ProcessEnds, Coming, Undecided
  <2> QED
    BY <1>0, <1>2, <2>1, FewerComing DEF ProcessEnds
<1>3. ASSUME NEW d \in Deciders, NEW n \in Motions, Approve(d, n)
      PROVE  IsFiniteSet(Coming(m, i)') /\ tasks'[m][i] + Cardinality(Coming(m, i)') <= approvals'[m]
  <2>1. decider[d] = Undecided /\ tasks' = tasks /\ \A c \in Deciders \ {d} : decider'[c] = decider[c]
    BY <1>3 DEF Approve, BootTypes
  <2>2. decider'[d].motion = n /\ decider'[d].next = 1
    BY <1>3 DEF Approve, BootTypes, Undecided
  <2>3. d \notin Coming(m, i)
    BY <2>1, BootstrapAssumption DEF Coming, Undecided
  <2>4. CASE m = n
    <3>1. Coming(m, i)' = Coming(m, i) \cup {d}
      BY <2>1, <2>2, <2>4 DEF Coming, Items
    <3>2. approvals'[m] = approvals[m] + 1
      BY <1>3, <2>4 DEF Approve, BootTypes
    <3>3. IsFiniteSet(Coming(m, i)') /\ Cardinality(Coming(m, i)') = Cardinality(Coming(m, i)) + 1
      BY <1>0, <2>3, <3>1, FS_AddElement
    <3> QED
      BY <1>0, <2>1, <3>2, <3>3
  <2>5. CASE m # n
    <3>1. Coming(m, i)' = Coming(m, i)
      BY <2>1, <2>2, <2>3, <2>5 DEF Coming
    <3>2. approvals'[m] = approvals[m]
      BY <1>3, <2>5 DEF Approve, BootTypes
    <3> QED
      BY <1>0, <2>1, <3>1, <3>2
  <2> QED
    BY <2>4, <2>5
<1>4. ASSUME NEW d \in Deciders, CreateTask(d)
      PROVE  IsFiniteSet(Coming(m, i)') /\ tasks'[m][i] + Cardinality(Coming(m, i)') <= approvals'[m]
  <2> DEFINE n == decider[d].motion
             j == decider[d].next
  <2>1. n \in Motions /\ j \in Int /\ approvals' = approvals
    BY <1>4 DEF CreateTask, BootTypes
  <2>2. \A c \in Deciders \ {d} : decider'[c] = decider[c]
    BY <1>4 DEF CreateTask, BootTypes
  <2>3. CASE UNCHANGED tasks /\ decider' = [decider EXCEPT ![d] = Undecided]
    <3>1. decider'[d] = Undecided
      BY <2>3 DEF BootTypes
    <3>2. Coming(m, i)' \subseteq Coming(m, i)
      BY <2>2, <3>1, BootstrapAssumption DEF Coming, Undecided
    <3> QED
      BY <1>0, <2>1, <2>3, <3>2, FewerComing
  <2>4. CASE /\ j \in Items
             /\ tasks' = [tasks EXCEPT ![n][j] = @ + 1]
             /\ decider' = [decider EXCEPT ![d].next = @ + 1]
    <3>1. decider'[d].motion = n /\ decider'[d].next = j + 1
      BY <2>4 DEF BootTypes
    <3>2. Coming(m, i)' \subseteq Coming(m, i)
      BY <1>0, <2>1, <2>2, <3>1 DEF Coming
    <3>3. CASE m = n /\ i = j
      <4>1. d \in Coming(m, i) /\ Coming(m, i)' = Coming(m, i) \ {d}
        BY <2>1, <2>2, <3>1, <3>3 DEF Coming
      <4>2. tasks'[m][i] = tasks[m][i] + 1
        BY <2>4, <3>3 DEF BootTypes
      <4>3. IsFiniteSet(Coming(m, i)') /\ Cardinality(Coming(m, i)') = Cardinality(Coming(m, i)) - 1
        BY <1>0, <4>1, FS_RemoveElement
      <4> QED
        BY <1>0, <2>1, <4>2, <4>3
    <3>4. CASE ~ (m = n /\ i = j)
      <4>1. tasks'[m][i] = tasks[m][i]
        BY <2>1, <2>4, <3>4 DEF BootTypes
      <4> QED
        BY <1>0, <2>1, <3>2, <4>1, FewerComing
    <3> QED
      BY <3>3, <3>4
  <2> QED
    BY <1>4, <2>3, <2>4 DEF CreateTask
<1> QED
  BY <1>1, <1>2, <1>3, <1>4 DEF BootStep, CreateTrigger, UpdateSchedule, StartBatch, EngineStep, CreateMotion,
     StartDiscussion, WaitForResult, SubmitForApproval, MarkProcessed, MarkFailed, DiscussionCloses, Reject

\* BootInv holds to begin with.
LEMMA BootInvInit == BootInit => BootInv
<1> SUFFICES ASSUME BootInit PROVE BootInv
  OBVIOUS
<1>1. BootTypes
  BY BootstrapAssumption DEF BootInit, BootTypes, Idling, Undecided
<1>2. FewPending
  <2>1. Pending = {}
    BY DEF BootInit, Pending
  <2> QED
    BY <2>1, FS_EmptySet DEF FewPending
<1>3. EngineOwns /\ EngineProgress
  BY BootstrapAssumption DEF BootInit, EngineOwns, EngineProgress, Idling, Carrying
<1>4. ProcessedIsSubmitted /\ UndecidedAlike
  BY DEF BootInit, ProcessedIsSubmitted, UndecidedAlike
<1>5. TasksAndComing
  <2> SUFFICES ASSUME NEW m \in Motions, NEW i \in Items
               PROVE  IsFiniteSet(Coming(m, i)) /\ tasks[m][i] + Cardinality(Coming(m, i)) <= approvals[m]
    BY DEF TasksAndComing
  <2>1. Coming(m, i) = {}
    BY BootstrapAssumption DEF BootInit, Coming, Undecided
  <2>2. tasks[m][i] = 0 /\ approvals[m] = 0
    BY DEF BootInit
  <2> QED
    BY <2>1, <2>2, FS_EmptySet
<1> QED
  BY <1>1, <1>2, <1>3, <1>4, <1>5 DEF BootInv

\* Every step keeps BootInv.
LEMMA BootInvKept == BootInv /\ [BootNext]_bootVars => BootInv'
<1> SUFFICES ASSUME BootInv, [BootNext]_bootVars PROVE BootInv'
  OBVIOUS
<1>1. CASE BootStep
  BY <1>1, BootTypesKept, FewPendingKept, EngineOwnsKept, EngineProgressKept, ProcessedIsSubmittedKept,
     UndecidedAlikeKept, TasksAndComingKept DEF BootInv
<1>2. BootNext => BootStep
  BY DEF BootNext, BootStep, CheckSchedules
<1>3. CASE UNCHANGED bootVars
  BY <1>3 DEF bootVars, BootInv, BootTypes, FewPending, Pending, EngineOwns, EngineProgress, Topic, ProcessedIsSubmitted,
     UndecidedAlike, TasksAndComing, Coming
<1> QED
  BY <1>1, <1>2, <1>3

\* An engine works on a trigger and a motion of its own; a result that is approved has been submitted, the
\* generation of its tasks runs once for each approval, and what is still to come of a generation together with what
\* is on the board is no more than the approvals, with any number of engines, deciders, failures and restarts
\* (discussion_driver.py:45-157, bootstrap_approval.py:12-48, task_generator.py:47-103).
THEOREM BootstrapInvariant == BootSpec => []BootInv
BY BootInvInit, BootInvKept, PTL DEF BootSpec

\* No trigger is processed before a discussion of it has closed and its result has been submitted, wherever an
\* engine fails and whoever else has taken the same trigger (discussion_driver.py:45-157, trigger_manager.py:44-90).
THEOREM SubmittedBeforeProcessed == BootSpec => []ProcessedIsSubmitted
<1>1. BootInv => ProcessedIsSubmitted
  BY DEF BootInv
<1> QED
  BY <1>1, BootstrapInvariant, PTL

\* No action item is on the board more often than its result was approved, although the generation of its tasks
\* may fail or end with the process between any two of them (task_generator.py:47-103, approval_flow.py:113-140).
THEOREM TasksNeverDoubled == BootSpec => []TasksPerApproval
<1>1. BootInv => TasksPerApproval
  <2> SUFFICES ASSUME BootInv, NEW m \in Motions, NEW i \in Items
               PROVE  tasks[m][i] <= approvals[m]
    BY DEF TasksPerApproval
  <2>1. IsFiniteSet(Coming(m, i)) /\ tasks[m][i] + Cardinality(Coming(m, i)) <= approvals[m]
    BY DEF BootInv, TasksAndComing
  <2>2. Cardinality(Coming(m, i)) \in Nat /\ tasks[m][i] \in Nat /\ approvals[m] \in Nat
    BY <2>1, FS_CardinalityType, BootstrapAssumption DEF BootInv, BootTypes
  <2> QED
    BY <2>1, <2>2
<1> QED
  BY <1>1, BootstrapInvariant, PTL

(***************************************************************************)
(* Pipeline.                                                                 *)
(***************************************************************************)

Ends == {"completed", "failed"}
RunShape == [at : {"start", "phase", "send", "tell", "over"}, phase : Phases,
             attempt : 1..MaxRetries, told : SUBSET {"completed", "failed"}]

\* Where a run is, and what it has sent by then: the reviewer has been asked when
\* the run is past the review, at most once; the releaser when it is completed.
RunSent ==
    \A r \in Runs :
        /\ run[r].at \in {"tell", "over"} <=> run[r].phase \in Ends
        /\ run[r].at = "start" => run[r].phase = "discussing"
        /\ run[r].at = "send" => run[r].phase \in {"reviewing", "releasing"}
        /\ run[r].told \subseteq {run[r].phase} /\ (run[r].at # "over" => run[r].told = {})
        /\ requests[r]["reviewer"] <= 1
        /\ requests[r]["releaser"] = IF run[r].phase = "completed" THEN 1 ELSE 0
        /\ run[r].phase \in {"discussing", "decomposing", "executing", "reviewing"} => requests[r]["reviewer"] = 0

PipelineInv == PipelineTypes /\ RunSent

-----------------------------------------------------------------------------
\* How a step of a run leaves it, and what it sends.
Goes(r, at, phase, attempt, told) ==
    /\ run' = [s \in Runs |-> run'[s]]
    /\ run'[r] = [at |-> at, phase |-> phase, attempt |-> attempt, told |-> told]
    /\ \A s \in Runs \ {r} : run'[s] = run[s]

\* A run as a record.
LEMMA RunFields ==
    ASSUME PipelineTypes
    PROVE  run \in [Runs -> RunShape]
BY DEF PipelineTypes, RunShape

\* What Enter, Fails and Again do to a run.
LEMMA EnterGoes ==
    ASSUME PipelineTypes, NEW r \in Runs, NEW p, run' = Enter(r, p)
    PROVE  Goes(r, "phase", p, 1, run[r].told)
BY RunFields DEF Enter, Goes, RunShape

\* _fail.
LEMMA FailsGoes ==
    ASSUME PipelineTypes, NEW r \in Runs, run' = Fails(r)
    PROVE  Goes(r, "tell", "failed", run[r].attempt, run[r].told)
BY RunFields DEF Fails, Goes, RunShape

\* The next attempt of the phase, if there is one.
LEMMA AgainGoes ==
    ASSUME PipelineTypes, NEW r \in Runs, run' = Again(r)
    PROVE  \/ Goes(r, "tell", "failed", run[r].attempt, run[r].told)
           \/ /\ run[r].phase \in Retryable /\ run[r].attempt + 1 \in 1..MaxRetries
              /\ Goes(r, "phase", run[r].phase, run[r].attempt + 1, run[r].told)
<1>1. CASE run[r].phase \in Retryable /\ run[r].attempt < MaxRetries
  <2>1. run[r].attempt + 1 \in 1..MaxRetries
    BY <1>1, PipelineAssumption DEF PipelineTypes
  <2>2. run' = [run EXCEPT ![r].at = "phase", ![r].attempt = @ + 1]
    BY <1>1 DEF Again
  <2>3. Goes(r, "phase", run[r].phase, run[r].attempt + 1, run[r].told)
    BY <2>2, RunFields DEF Goes, RunShape
  <2> QED
    BY <1>1, <2>1, <2>3
<1>2. CASE ~ (run[r].phase \in Retryable /\ run[r].attempt < MaxRetries)
  BY <1>2, FailsGoes DEF Again
<1> QED
  BY <1>1, <1>2

\* A run that has sent nothing new.
LEMMA GoesOn ==
    ASSUME PipelineInv, NEW r \in Runs, UNCHANGED <<online, moves, requests, entry, clerk>>,
           run[r].at \notin {"tell", "over"}, NEW phase \in Phases, NEW attempt \in 1..MaxRetries,
           \/ /\ phase \notin Ends /\ Goes(r, "phase", phase, attempt, run[r].told)
              /\ phase \in {"discussing", "decomposing", "executing", "reviewing"} =>
                     run[r].phase \in {"discussing", "decomposing", "executing", "reviewing"}
           \/ phase = "failed" /\ Goes(r, "tell", phase, attempt, run[r].told)
           \/ /\ phase \in {"reviewing", "releasing"} /\ run[r].phase = phase
              /\ Goes(r, "send", phase, attempt, run[r].told)
    PROVE  PipelineInv'
<1>1. PICK at \in {"phase", "tell", "send"} :
        /\ Goes(r, at, phase, attempt, run[r].told)
        /\ at = "tell" <=> phase \in Ends
        /\ at = "send" => phase \in {"reviewing", "releasing"}
        /\ phase # "completed"
        /\ phase \in {"discussing", "decomposing", "executing", "reviewing"} =>
               run[r].phase \in {"discussing", "decomposing", "executing", "reviewing"}
  BY DEF Ends
<1>2. /\ run'[r] = [at |-> at, phase |-> phase, attempt |-> attempt, told |-> run[r].told]
      /\ \A s \in Runs \ {r} : run'[s] = run[s]
  BY <1>1 DEF Goes, PipelineInv, PipelineTypes
<1>3. run[r].told = {} /\ run[r].phase # "completed"
  BY DEF PipelineInv, RunSent, Ends
<1>4. run' \in [Runs -> RunShape]
  <2>1. [at |-> at, phase |-> phase, attempt |-> attempt, told |-> run[r].told] \in RunShape
    BY <1>3 DEF RunShape
  <2> QED
    BY <1>1, <1>2, <2>1, RunFields DEF Goes, PipelineInv
<1>5. PipelineTypes'
  BY <1>4 DEF PipelineInv, PipelineTypes, RunShape
<1>6. RunSent'
  BY <1>1, <1>2, <1>3 DEF PipelineInv, RunSent, Ends
<1> QED
  BY <1>5, <1>6 DEF PipelineInv

\* A run that sends a request, and goes on.
LEMMA SendsOne ==
    ASSUME PipelineInv, NEW r \in Runs, UNCHANGED <<online, moves, entry, clerk>>, run[r].at = "send",
           NEW k \in Roles, requests' = [requests EXCEPT ![r][k] = @ + 1],
           \/ /\ k = "reviewer" /\ run[r].phase = "reviewing"
              /\ Goes(r, "phase", "releasing", 1, run[r].told)
           \/ /\ k = "releaser" /\ run[r].phase = "releasing"
              /\ Goes(r, "tell", "completed", run[r].attempt, run[r].told)
    PROVE  PipelineInv'
<1>1. PICK at \in {"phase", "tell"}, phase \in {"releasing", "completed"}, attempt \in 1..MaxRetries :
        /\ Goes(r, at, phase, attempt, run[r].told)
        /\ IF k = "reviewer" THEN run[r].phase = "reviewing" /\ at = "phase" /\ phase = "releasing"
           ELSE run[r].phase = "releasing" /\ at = "tell" /\ phase = "completed"
  BY PipelineAssumption DEF PipelineInv, PipelineTypes, Roles
<1>2. /\ run'[r] = [at |-> at, phase |-> phase, attempt |-> attempt, told |-> run[r].told]
      /\ \A s \in Runs \ {r} : run'[s] = run[s]
  BY <1>1 DEF Goes, PipelineInv, PipelineTypes
<1>3. run[r].told = {}
  BY DEF PipelineInv, RunSent, Ends
<1>4. run' \in [Runs -> RunShape]
  <2>1. [at |-> at, phase |-> phase, attempt |-> attempt, told |-> run[r].told] \in RunShape
    BY <1>3 DEF RunShape, Phases
  <2> QED
    BY <1>1, <1>2, <2>1, RunFields DEF Goes, PipelineInv
<1>5. /\ requests' \in [Runs -> [Roles -> Nat]]
      /\ requests'[r][k] = requests[r][k] + 1
      /\ \A j \in Roles \ {k} : requests'[r][j] = requests[r][j]
      /\ \A s \in Runs \ {r} : requests'[s] = requests[s]
  BY DEF PipelineInv, PipelineTypes
<1>6. PipelineTypes'
  BY <1>4, <1>5 DEF PipelineInv, PipelineTypes, RunShape
<1>7. RunSent'
  <2> SUFFICES ASSUME NEW s \in Runs
               PROVE  RunSent!(s)'
    BY DEF RunSent
  <2> QED
    BY <1>1, <1>2, <1>3, <1>5 DEF PipelineInv, RunSent, Ends, Roles
<1> QED
  BY <1>6, <1>7 DEF PipelineInv

\* A step of one run keeps the invariant.
LEMMA RunKeeps ==
    ASSUME PipelineInv, NEW r \in Runs, RunStep(r)
    PROVE  PipelineInv'
<1> DEFINE Past == {"discussing", "decomposing", "executing", "reviewing"}
<1>0. run[r].attempt \in 1..MaxRetries /\ run[r].phase \in Phases /\ 1 \in 1..MaxRetries /\ PipelineTypes
  BY PipelineAssumption DEF PipelineInv, PipelineTypes
<1>1. ASSUME NEW p \in {"discussing", "decomposing", "executing", "reviewing", "releasing"},
             run[r].at \in {"start", "phase"}, run' = Enter(r, p),
             p # "releasing" => run[r].phase \in Past,
             UNCHANGED <<online, moves, requests, entry, clerk>>
      PROVE  PipelineInv'
  BY <1>0, <1>1, EnterGoes, GoesOn DEF Phases, Ends
<1>2. ASSUME run[r].at \in {"phase"}, run' = Fails(r), UNCHANGED <<online, moves, requests, entry, clerk>>
      PROVE  PipelineInv'
  BY <1>0, <1>2, FailsGoes, GoesOn DEF Phases
<1>3. ASSUME run[r].at \in {"phase", "send"}, run' = Again(r), UNCHANGED <<online, moves, requests, entry, clerk>>
      PROVE  PipelineInv'
  BY <1>0, <1>3, AgainGoes, GoesOn DEF Phases, Ends, Retryable
<1>4. CASE Run(r) \/ Discuss(r) \/ Decompose(r) \/ ExecuteGraph(r)
  <2>1. run[r].at = "start" => run[r].phase \in Past
    BY DEF PipelineInv, RunSent, Ends
  <2>2. CASE Run(r)
    BY <1>1, <2>1, <2>2 DEF Run, RowsStay
  <2>3. CASE Discuss(r) \/ Decompose(r)
    BY <1>1, <1>2, <2>3 DEF Discuss, Decompose, Running, RowsStay
  <2>4. CASE ExecuteGraph(r)
    BY <1>1, <1>3, <2>4 DEF ExecuteGraph, Running, RowsStay
  <2> QED
    BY <1>4, <2>2, <2>3, <2>4
<1>5. CASE FindReviewer(r) \/ FindReleaser(r)
  <2>1. run[r].phase \in {"reviewing", "releasing"} /\ run' = [run EXCEPT ![r].at = "send"] /\ run[r].at = "phase"
        /\ UNCHANGED <<online, moves, requests, entry, clerk>>
    BY <1>5 DEF FindReviewer, FindReleaser, FindAgent, Running, RowsStay
  <2>2. Goes(r, "send", run[r].phase, run[r].attempt, run[r].told)
    BY <1>0, <2>1, RunFields DEF Goes, RunShape
  <2> QED
    BY <1>0, <2>1, <2>2, GoesOn
<1>6. CASE AutoApprove(r) \/ NoReleaser(r)
  BY <1>1, <1>3, <1>6 DEF AutoApprove, NoReleaser, Running, RowsStay
<1>7. CASE DispatchReview(r) \/ DispatchRelease(r)
  <2>1. CASE run' = Again(r) /\ UNCHANGED <<online, moves, requests, entry, clerk>> /\ run[r].at = "send"
    BY <1>3, <2>1
  <2>2. CASE /\ run[r].at = "send" /\ run[r].phase = "reviewing" /\ Sent(r, "reviewer") /\ run' = Enter(r, "releasing")
             /\ UNCHANGED <<online, moves, entry, clerk>>
    BY <1>0, <2>2, EnterGoes, SendsOne DEF Sent, Roles
  <2>3. CASE /\ run[r].at = "send" /\ run[r].phase = "releasing" /\ Sent(r, "releaser") /\ run' = Completed(r)
             /\ UNCHANGED <<online, moves, entry, clerk>>
    <3>1. Goes(r, "tell", "completed", run[r].attempt, run[r].told)
      BY <1>0, <2>3, RunFields DEF Completed, Goes, RunShape
    <3> QED
      BY <2>3, <3>1, SendsOne DEF Sent, Roles
  <2> QED
    BY <1>7, <2>1, <2>2, <2>3 DEF DispatchReview, DispatchRelease, RowsStay
<1>8. CASE Notify(r)
  <2>1. PICK to \in Announcements(r) : run' = [run EXCEPT ![r].at = "over", ![r].told = @ \cup to]
    BY <1>8 DEF Notify
  <2>2. run[r].at = "tell" /\ run[r].told = {} /\ run[r].phase \in Ends /\ to \subseteq {run[r].phase}
    BY <1>8, <2>1 DEF Notify, PipelineInv, RunSent, Announcements
  <2>3. /\ run'[r] = [at |-> "over", phase |-> run[r].phase, attempt |-> run[r].attempt, told |-> to]
        /\ \A s \in Runs \ {r} : run'[s] = run[s]
        /\ run' = [s \in Runs |-> run'[s]]
    BY <1>0, <2>1, <2>2, RunFields DEF RunShape
  <2>4. run' \in [Runs -> RunShape]
    BY <1>0, <2>2, <2>3 DEF RunShape, PipelineTypes, Ends
  <2>5. PipelineTypes'
    BY <1>8, <2>4 DEF Notify, RowsStay, PipelineInv, PipelineTypes, RunShape
  <2>6. RunSent'
    <3>1. UNCHANGED requests
      BY <1>8 DEF Notify
    <3> QED
      BY <2>2, <2>3, <3>1 DEF PipelineInv, RunSent
  <2> QED
    BY <2>5, <2>6 DEF PipelineInv
<1> QED
  BY <1>4, <1>5, <1>6, <1>7, <1>8 DEF RunStep

\* Every step keeps PipelineInv.
LEMMA PipelineInvKept == PipelineInv /\ [PipelineNext]_pipelineVars => PipelineInv'
<1> SUFFICES ASSUME PipelineInv, [PipelineNext]_pipelineVars PROVE PipelineInv'
  OBVIOUS
<1> USE DEF PipelineInv
<1>1. ASSUME NEW r \in Runs, RunStep(r) PROVE PipelineInv'
  BY <1>1, RunKeeps
<1>2. ASSUME UNCHANGED <<run, requests>>, PipelineTypes' PROVE PipelineInv'
  BY <1>2 DEF RunSent
<1>3. ASSUME NEW k \in Roles, AgentMoves(k) PROVE PipelineTypes'
  BY <1>3, PipelineAssumption DEF AgentMoves, RowsStay, PipelineTypes
<1>4. ASSUME NEW w \in Rows, NEW c \in Clerks, ReadToCancel(c, w) \/ ReadToRetry(c, w)
      PROVE  PipelineTypes'
  <2>1. CASE clerk' = [clerk EXCEPT ![c] = [op |-> "cancel", on |-> w]] /\ UNCHANGED <<run, online, moves, requests, entry>>
    BY <2>1 DEF PipelineTypes
  <2>2. CASE clerk' = [clerk EXCEPT ![c] = [op |-> "retry", on |-> w]] /\ UNCHANGED <<run, online, moves, requests, entry>>
    BY <2>2 DEF PipelineTypes
  <2> QED
    BY <1>4, <2>1, <2>2 DEF ReadToCancel, ReadToRetry, RunsStay
<1>5. ASSUME NEW w \in Rows, StartPipeline(w) PROVE PipelineTypes'
  BY <1>5 DEF StartPipeline, RunsStay, PipelineTypes
<1>6. ASSUME NEW c \in Clerks, UpdateRow(c) PROVE PipelineTypes'
  <2>1. NoCall \in [op : {"none", "cancel", "retry"}, on : Rows]
    BY PipelineAssumption DEF NoCall
  <2>2. clerk' \in [Clerks -> [op : {"none", "cancel", "retry"}, on : Rows]]
    BY <1>6, <2>1 DEF UpdateRow, PipelineTypes
  <2>3. entry' \in [Rows -> [phase : {"absent", "discussing", "failed"}, cause : {"null", "discussing"}]]
    BY <1>6 DEF UpdateRow, Written, PipelineTypes
  <2> QED
    BY <1>6, <2>2, <2>3 DEF UpdateRow, RunsStay, PipelineTypes
<1>7. CASE UNCHANGED pipelineVars
  BY <1>2, <1>7 DEF pipelineVars, PipelineTypes
<1> QED
  BY <1>1, <1>2, <1>3, <1>4, <1>5, <1>6, <1>7
  DEF PipelineNext, AgentMoves, RowsStay, StartPipeline, ReadToCancel, ReadToRetry, UpdateRow, RunsStay

\* PipelineInv holds to begin with.
LEMMA PipelineInvInit == PipelineInit => PipelineInv
<1> SUFFICES ASSUME PipelineInit PROVE PipelineInv
  OBVIOUS
<1>1. NoCall \in [op : {"none", "cancel", "retry"}, on : Rows]
  BY PipelineAssumption DEF NoCall
<1>2. FreshRun \in RunShape
  BY PipelineAssumption DEF FreshRun, RunShape, Phases
<1>3. PipelineTypes
  BY <1>1, <1>2, PipelineAssumption DEF PipelineInit, PipelineTypes, Absent, RunShape
<1>4. RunSent
  BY DEF PipelineInit, RunSent, FreshRun, Ends, Roles
<1> QED
  BY <1>3, <1>4 DEF PipelineInv

\* Where a run is determines what it has sent: the reviewer has been asked if it is past the review, the releaser
\* if it is completed, through any attempts, retries, cancellations and comings and goings of the agents
\* (pipeline_executor.py:30-137, pipeline_retry.py:16-62).
THEOREM PipelineInvariant == PipelineSpec => []PipelineInv
BY PipelineInvInit, PipelineInvKept, PTL DEF PipelineSpec

\* A run that ends completed asks the releaser once, one that fails never, the reviewer is asked once at most, and
\* only the end that came is announced (pipeline_phase_release.py:24-73, pipeline_phase_review.py:25-60).
THEOREM ReleaseAskedOnce == PipelineSpec => []ReleasedOnce
<1>1. PipelineInv => ReleasedOnce
  BY DEF PipelineInv, RunSent, ReleasedOnce
<1> QED
  BY <1>1, PipelineInvariant, PTL

(***************************************************************************)
(* AgentBridge.                                                              *)
(***************************************************************************)

Kinds3 == {"started", "complete", "failed"} \X Jobs \X Cards

\* A card is new, being reported as started, polled, or done with; what the
\* coordinator has heard of it by then.  Hermes is asked while attempts are left.
CardHeard ==
    \A k \in Cards :
        /\ board[k] = "none" => poller[k].at = "none"
        /\ poller[k].at = "none" => \A i \in 1..Len(reports) : reports[i][3] # k
        /\ poller[k].at \in {"sleep", "asking"} =>
               poller[k].job \in Jobs /\ \A i \in 1..Len(reports) : reports[i][3] = k => reports[i][1] = "started"
        /\ poller[k].at = "asking" => poller[k].left > 0

\* The run loop works on a task, and starts a card of its own that nobody polls yet.
LoopHolds ==
    /\ loop.at \in {"create", "start"} => loop.job \in Jobs
    /\ loop.at = "start" => loop.card \in Cards /\ board[loop.card] # "none" /\ poller[loop.card].at = "none"

BridgeInv == BridgeTypes /\ CardHeard /\ LoopHolds /\ OneOutcome

-----------------------------------------------------------------------------
\* What is appended to the reports is the last of them.
LEMMA Heard ==
    ASSUME NEW S, NEW s \in Seq(S), NEW x \in S
    PROVE  /\ Append(s, x) \in Seq(S)
           /\ Len(Append(s, x)) = Len(s) + 1 /\ Len(s) \in Nat
           /\ \A i \in 1..Len(s) : Append(s, x)[i] = s[i]
           /\ Append(s, x)[Len(s) + 1] = x
BY AppendProperties, LenProperties

\* What is reported of a card that nothing, or only its start, has been reported of.
LEMMA ReportOnce ==
    ASSUME reports \in Seq(Kinds3), OneOutcome, NEW kind \in {"started", "complete", "failed"}, NEW j \in Jobs,
           NEW k \in Cards, Report(kind, j, k),
           IF kind = "started" THEN \A i \in 1..Len(reports) : reports[i][3] # k
           ELSE \A i \in 1..Len(reports) : reports[i][3] = k => reports[i][1] = "started"
    PROVE  /\ reports' \in Seq(Kinds3) /\ OneOutcome'
           /\ \A c \in Cards \ {k} : \A i \in 1..Len(reports') :
                  reports'[i][3] = c => i \in 1..Len(reports) /\ reports'[i] = reports[i]
           /\ \A i \in 1..Len(reports') : reports'[i][3] = k =>
                  IF i \in 1..Len(reports) THEN reports'[i] = reports[i] ELSE reports'[i][1] = kind
<1> DEFINE x == <<kind, j, k>>
<1>1. x \in Kinds3 /\ reports' = Append(reports, x)
  BY DEF Report, Kinds3
<1>2. /\ reports' \in Seq(Kinds3)
      /\ Len(reports') = Len(reports) + 1 /\ Len(reports) \in Nat
      /\ \A i \in 1..Len(reports) : reports'[i] = reports[i]
      /\ reports'[Len(reports) + 1] = x
  BY <1>1, Heard
<1>3. \A i \in 1..Len(reports') : i \in 1..Len(reports) \/ i = Len(reports) + 1
  BY <1>2
<1>4. x[1] = kind /\ x[3] = k
  OBVIOUS
<1> HIDE DEF x
<1>5. OneOutcome'
  <2> SUFFICES ASSUME NEW i \in 1..Len(reports'), NEW n \in 1..Len(reports'), reports'[i][3] = reports'[n][3], i < n
               PROVE  reports'[i][1] = "started" /\ reports'[n][1] # "started"
    BY DEF OneOutcome
  <2>1. i \in 1..Len(reports) /\ reports'[i] = reports[i]
    BY <1>2, <1>3
  <2>2. CASE n \in 1..Len(reports)
    BY <1>2, <2>1, <2>2 DEF OneOutcome
  <2>3. CASE n = Len(reports) + 1
    BY <1>2, <1>4, <2>1, <2>3
  <2> QED
    BY <1>3, <2>2, <2>3
<1>6. ASSUME NEW c \in Cards \ {k}, NEW i \in 1..Len(reports'), reports'[i][3] = c
      PROVE  i \in 1..Len(reports) /\ reports'[i] = reports[i]
  BY <1>2, <1>3, <1>4, <1>6
<1>7. ASSUME NEW i \in 1..Len(reports'), reports'[i][3] = k
      PROVE  IF i \in 1..Len(reports) THEN reports'[i] = reports[i] ELSE reports'[i][1] = kind
  BY <1>2, <1>3, <1>4, <1>7
<1> QED
  BY <1>2, <1>5, <1>6, <1>7

PollerShape == [at : {"none", "sleep", "asking", "over", "unheard", "broken"}, job : Jobs \cup {"none"}, left : 0..PollMax]
LoopShape == [at : {"new", "wait", "comment", "create", "start", "over"}, job : Jobs \cup {"none"}, card : Cards \cup {"none"}]

\* The records of a poller and of the loop.
LEMMA Shapes ==
    ASSUME BridgeTypes
    PROVE  poller \in [Cards -> PollerShape] /\ loop \in LoopShape
BY DEF BridgeTypes, PollerShape, LoopShape

\* A poller that tells an outcome: once, because it is over after that.
LEMMA TellsOnce ==
    ASSUME BridgeInv, NEW k \in Cards, poller[k].at \in {"sleep", "asking"}, NEW kind \in {"complete", "failed"}, Tell(k, kind),
           UNCHANGED <<link, loop, mail, mailed, board>>
    PROVE  BridgeInv'
<1>1. /\ poller' = [c \in Cards |-> poller'[c]]
      /\ poller'[k].at \in {"over", "unheard"}
      /\ poller'[k] = [at |-> poller'[k].at, job |-> poller[k].job, left |-> poller[k].left]
      /\ \A c \in Cards \ {k} : poller'[c] = poller[c]
  <2>1. PICK b \in {"over", "unheard"} : poller' = [poller EXCEPT ![k].at = b]
    BY DEF Tell
  <2> QED
    BY <2>1 DEF BridgeInv, BridgeTypes
<1>2. poller' \in [Cards -> PollerShape]
  <2>1. poller \in [Cards -> PollerShape]
    BY Shapes DEF BridgeInv
  <2>2. poller'[k] \in PollerShape
    BY <1>1, <2>1 DEF PollerShape
  <2> QED
    BY <1>1, <2>1, <2>2
<1>3. mapped' \in [Jobs -> Cards \cup {"none"}]
  BY DEF Tell, BridgeInv, BridgeTypes
<1>4. /\ reports' \in Seq(Kinds3) /\ OneOutcome'
      /\ \A c \in Cards \ {k} : \A i \in 1..Len(reports') :
             reports'[i][3] = c => i \in 1..Len(reports) /\ reports'[i] = reports[i]
  <2>1. CASE Report(kind, poller[k].job, k)
    <3>1. poller[k].job \in Jobs /\ \A i \in 1..Len(reports) : reports[i][3] = k => reports[i][1] = "started"
      BY DEF BridgeInv, CardHeard
    <3>2. reports \in Seq(Kinds3) /\ kind # "started" /\ kind \in {"started", "complete", "failed"}
      BY DEF BridgeInv, BridgeTypes, Kinds3
    <3> QED
      BY <2>1, <3>1, <3>2, ReportOnce DEF BridgeInv
  <2>2. CASE UNCHANGED reports
    BY <2>2 DEF BridgeInv, BridgeTypes, OneOutcome, Kinds3
  <2> QED
    BY <2>1, <2>2 DEF Tell, NoReport
<1>5. BridgeTypes'
  BY <1>2, <1>3, <1>4 DEF BridgeInv, BridgeTypes, PollerShape, Kinds3
<1>6. CardHeard'
  BY <1>1, <1>4 DEF BridgeInv, CardHeard
<1>7. LoopHolds'
  BY <1>1 DEF BridgeInv, LoopHolds
<1> QED
  BY <1>4, <1>5, <1>6, <1>7 DEF BridgeInv

\* The card is reported as started, and its poller begins.
LEMMA ReportStartKeeps ==
    ASSUME BridgeInv, ReportStart
    PROVE  BridgeInv'
<1> DEFINE j == loop.job
           k == loop.card
<1>1. loop.at = "start" /\ j \in Jobs /\ k \in Cards /\ board[k] # "none" /\ poller[k].at = "none"
  BY DEF BridgeInv, LoopHolds, ReportStart
<1>2. CASE Report("started", j, k) /\ loop' = Waiting
           /\ poller' = [poller EXCEPT ![k] = [at |-> "sleep", job |-> j, left |-> PollMax]]
  <2>1. /\ poller'[k] = [at |-> "sleep", job |-> j, left |-> PollMax]
        /\ \A c \in Cards \ {k} : poller'[c] = poller[c]
        /\ poller' = [c \in Cards |-> poller'[c]]
    BY <1>1, <1>2 DEF BridgeInv, BridgeTypes
  <2>2. /\ reports' \in Seq(Kinds3) /\ OneOutcome'
        /\ \A c \in Cards \ {k} : \A i \in 1..Len(reports') :
               reports'[i][3] = c => i \in 1..Len(reports) /\ reports'[i] = reports[i]
        /\ \A i \in 1..Len(reports') : reports'[i][3] = k => reports'[i][1] = "started"
    <3>1. \A i \in 1..Len(reports) : reports[i][3] # k
      BY <1>1 DEF BridgeInv, CardHeard
    <3>2. reports \in Seq(Kinds3)
      BY DEF BridgeInv, BridgeTypes, Kinds3
    <3> QED
      BY <1>1, <1>2, <3>1, <3>2, ReportOnce DEF BridgeInv
  <2>3. poller' \in [Cards -> PollerShape]
    <3>1. poller \in [Cards -> PollerShape]
      BY Shapes DEF BridgeInv
    <3>2. poller'[k] \in PollerShape
      BY <1>1, <2>1, BridgeAssumption DEF PollerShape
    <3> QED
      BY <2>1, <3>1, <3>2
  <2>4. loop' \in LoopShape /\ loop'.at = "wait"
    BY <1>2 DEF Waiting, LoopAt, LoopShape
  <2>5. BridgeTypes'
    BY <2>2, <2>3, <2>4 DEF BridgeInv, BridgeTypes, ReportStart, PollerShape, LoopShape, Kinds3
  <2>6. CardHeard'
    BY <1>1, <2>1, <2>2 DEF BridgeInv, CardHeard, ReportStart
  <2>7. LoopHolds'
    BY <2>4 DEF LoopHolds
  <2> QED
    BY <2>2, <2>5, <2>6, <2>7 DEF BridgeInv
<1>3. CASE NoReport /\ loop' = Over /\ UNCHANGED poller
  <2>1. loop' \in LoopShape /\ loop'.at = "over"
    BY <1>3 DEF Over, LoopAt, LoopShape
  <2> QED
    BY <1>3, <2>1 DEF NoReport, BridgeInv, BridgeTypes, CardHeard, LoopHolds, OneOutcome, ReportStart, LoopShape
<1> QED
  BY <1>2, <1>3 DEF ReportStart

\* A new card has not been heard of.
LEMMA CreateCardKeeps ==
    ASSUME BridgeInv, NEW k \in Cards, CreateCard(k)
    PROVE  BridgeInv'
<1>1. loop.at = "create" /\ loop.job \in Jobs /\ board[k] = "none" /\ poller[k].at = "none"
  BY DEF CreateCard, BridgeInv, LoopHolds, CardHeard
<1>2. loop' \in LoopShape /\ loop' = [at |-> "start", job |-> loop.job, card |-> k]
  BY <1>1 DEF CreateCard, LoopAt, LoopShape
<1>3. board' \in [Cards -> CardStates] /\ board'[k] = "open" /\ \A c \in Cards \ {k} : board'[c] = board[c]
  BY DEF CreateCard, BridgeInv, BridgeTypes, CardStates
<1>4. mapped' \in [Jobs -> Cards \cup {"none"}]
  BY DEF CreateCard, BridgeInv, BridgeTypes
<1>5. BridgeTypes'
  BY <1>2, <1>3, <1>4 DEF CreateCard, BridgeInv, BridgeTypes, LoopShape
<1>6. CardHeard' /\ OneOutcome'
  BY <1>1, <1>3 DEF CreateCard, BridgeInv, CardHeard, OneOutcome
<1>7. LoopHolds'
  BY <1>1, <1>2, <1>3 DEF CreateCard, LoopHolds
<1> QED
  BY <1>5, <1>6, <1>7 DEF BridgeInv

\* The run loop goes where it holds no card.
LEMMA LoopGoes ==
    ASSUME BridgeInv, loop' \in LoopShape, loop'.at # "start", loop'.at = "create" => loop'.job \in Jobs,
           UNCHANGED <<board, mapped, poller, reports>>, link' \in {"off", "up", "lost"}, mail' \in Seq(Mail), mailed' \in 0..MaxMail
    PROVE  BridgeInv'
BY DEF BridgeInv, BridgeTypes, CardHeard, LoopHolds, OneOutcome, LoopShape

\* Every step keeps BridgeInv.
LEMMA BridgeInvKept == BridgeInv /\ [BridgeNext]_bridgeVars => BridgeInv'
<1> SUFFICES ASSUME BridgeInv, [BridgeNext]_bridgeVars PROVE BridgeInv'
  OBVIOUS
<1>0. /\ link \in {"off", "up", "lost"} /\ mail \in Seq(Mail) /\ mailed \in 0..MaxMail
      /\ Waiting \in LoopShape /\ Over \in LoopShape /\ Waiting.at = "wait" /\ Over.at = "over"
  BY DEF BridgeInv, BridgeTypes, Waiting, Over, LoopAt, LoopShape
<1>1. CASE ConnectAgent \/ LoopEnds \/ Comment \/ NoCard
  <2>1. loop' \in {Waiting, Over} /\ link' \in {"off", "up", "lost"}
        /\ UNCHANGED <<board, mapped, poller, reports, mail, mailed>>
    BY <1>0, <1>1 DEF ConnectAgent, LoopEnds, Comment, NoCard, Resume
  <2>2. loop' \in LoopShape /\ loop'.at # "start" /\ loop'.at # "create"
    BY <1>0, <2>1
  <2> QED
    BY <1>0, <2>1, <2>2, LoopGoes
<1>2. CASE DisconnectAgent \/ LoseLink
  <2>1. link' \in {"off", "up", "lost"} /\ UNCHANGED <<loop, mail, mailed, board, mapped, poller, reports>>
    BY <1>2 DEF DisconnectAgent, LoseLink
  <2> QED
    BY <2>1 DEF BridgeInv, BridgeTypes, CardHeard, LoopHolds, OneOutcome
<1>3. ASSUME NEW m \in Mail, Post(m) PROVE BridgeInv'
  <2>1. mail' \in Seq(Mail) /\ mailed' \in 0..MaxMail
    BY <1>0, <1>3, BridgeAssumption DEF Post
  <2> QED
    BY <1>3, <2>1 DEF Post, BridgeInv, BridgeTypes, CardHeard, LoopHolds, OneOutcome
<1>4. CASE Receive
  <2>1. mail' \in Seq(Mail) /\ Head(mail) \in Mail
    BY <1>0, <1>4 DEF Receive
  <2>2. loop' \in LoopShape /\ loop'.at # "start" /\ (loop'.at = "create" => loop'.job \in Jobs)
    BY <1>4, <2>1 DEF Receive, LoopAt, LoopShape, Mail
  <2> QED
    BY <1>0, <1>4, <2>1, <2>2, LoopGoes DEF Receive
<1>5. CASE ReportStart
  BY <1>5, ReportStartKeeps
<1>6. ASSUME NEW k \in Cards, CreateCard(k) PROVE BridgeInv'
  BY <1>6, CreateCardKeeps
<1>7. ASSUME NEW k \in Cards, CardMoves(k) PROVE BridgeInv'
  <2>1. PICK b \in {"open", "done", "failed", "blocked"} : board' = [board EXCEPT ![k] = b]
    BY <1>7 DEF CardMoves
  <2>2. board' \in [Cards -> CardStates] /\ \A c \in Cards : board'[c] = "none" => board[c] = "none"
    BY <2>1 DEF BridgeInv, BridgeTypes, CardStates
  <2>3. board[k] # "none" /\ \A c \in Cards : board[c] # "none" => board'[c] # "none"
    BY <1>7, <2>1 DEF CardMoves, BridgeInv, BridgeTypes
  <2> QED
    BY <1>7, <2>2, <2>3 DEF CardMoves, BridgeInv, BridgeTypes, CardHeard, LoopHolds, OneOutcome
<1>8. ASSUME NEW k \in Cards, Ask(k) \/ PollAgain(k) \/ PollBreaks(k) PROVE BridgeInv'
  <2>1. poller \in [Cards -> PollerShape] /\ poller[k] \in PollerShape
    BY Shapes DEF BridgeInv
  <2>2. poller[k].left \in 0..PollMax /\ PollMax \in Nat /\ poller[k].left > 0
    BY <1>8, <2>1, BridgeAssumption DEF Ask, PollAgain, PollBreaks, PollerShape, BridgeInv, CardHeard
  <2>3. PICK b \in {"sleep", "asking", "broken"}, n \in 0..PollMax :
            /\ poller' = [poller EXCEPT ![k].at = b, ![k].left = n]
            /\ b = "asking" => n > 0
    <3>1. CASE Ask(k)
      <4>1. poller' = [poller EXCEPT ![k].at = "asking", ![k].left = poller[k].left]
        BY <2>1, <3>1 DEF Ask, PollerShape
      <4> QED
        BY <2>2, <4>1
    <3>2. CASE PollAgain(k)
      <4>1. poller[k].left - 1 \in 0..PollMax
        BY <2>2
      <4>2. poller' = [poller EXCEPT ![k].at = "sleep", ![k].left = poller[k].left - 1]
        BY <3>2 DEF PollAgain, Attempt
      <4> QED
        BY <4>1, <4>2
    <3>3. CASE PollBreaks(k)
      <4>1. poller' = [poller EXCEPT ![k].at = "broken", ![k].left = poller[k].left]
        BY <2>1, <3>3 DEF PollBreaks, PollerShape
      <4> QED
        BY <2>2, <4>1
    <3> QED
      BY <1>8, <3>1, <3>2, <3>3
  <2>4. /\ poller'[k] = [at |-> b, job |-> poller[k].job, left |-> n]
        /\ \A c \in Cards \ {k} : poller'[c] = poller[c]
        /\ poller' = [c \in Cards |-> poller'[c]]
    BY <2>1, <2>3 DEF PollerShape
  <2>5. poller' \in [Cards -> PollerShape]
    <3>1. poller'[k] \in PollerShape
      BY <2>1, <2>4 DEF PollerShape
    <3> QED
      BY <2>1, <2>4, <3>1
  <2>6. UNCHANGED <<link, loop, mail, mailed, board, mapped, reports>> /\ poller[k].at \in {"sleep", "asking"}
    BY <1>8 DEF Ask, PollAgain, PollBreaks
  <2>7. BridgeTypes'
    BY <2>5, <2>6 DEF BridgeInv, BridgeTypes, PollerShape
  <2>8. CardHeard'
    <3>1. poller'[k].at = b /\ poller'[k].job = poller[k].job /\ poller'[k].left = n
      BY <2>4
    <3>2. /\ poller[k].job \in Jobs /\ board[k] # "none"
          /\ \A i \in 1..Len(reports) : reports[i][3] = k => reports[i][1] = "started"
      BY <2>6 DEF BridgeInv, CardHeard
    <3> QED
      BY <2>3, <2>4, <2>6, <3>1, <3>2 DEF BridgeInv, CardHeard
  <2>9. LoopHolds' /\ OneOutcome'
    BY <2>4, <2>6 DEF BridgeInv, LoopHolds, OneOutcome
  <2> QED
    BY <2>7, <2>8, <2>9 DEF BridgeInv
<1>9. ASSUME NEW k \in Cards, PollEnds(k) \/ PollTimesOut(k) PROVE BridgeInv'
  <2>1. PICK kind \in {"complete", "failed"} : Tell(k, kind)
    BY <1>9 DEF PollEnds, PollTimesOut, Outcome
  <2> QED
    BY <1>9, <2>1, TellsOnce DEF PollEnds, PollTimesOut
<1>10. CASE UNCHANGED bridgeVars
  BY <1>10 DEF bridgeVars, BridgeInv, BridgeTypes, CardHeard, LoopHolds, OneOutcome
<1> QED
  BY <1>1, <1>2, <1>3, <1>4, <1>5, <1>6, <1>7, <1>8, <1>9, <1>10 DEF BridgeNext, Poll, Answered

\* BridgeInv holds to begin with.
LEMMA BridgeInvInit == BridgeInit => BridgeInv
<1> SUFFICES ASSUME BridgeInit PROVE BridgeInv
  OBVIOUS
<1>1. Len(reports) = 0 /\ reports \in Seq(Kinds3) /\ mail \in Seq(Mail)
  BY DEF BridgeInit
<1>2. BridgeTypes
  BY <1>1, BridgeAssumption DEF BridgeInit, BridgeTypes, LoopAt, NoPoller, CardStates, Kinds3
<1>3. CardHeard /\ LoopHolds /\ OneOutcome
  BY <1>1 DEF BridgeInit, CardHeard, LoopHolds, OneOutcome, LoopAt, NoPoller
<1> QED
  BY <1>2, <1>3 DEF BridgeInv

\* What the coordinator has heard of a card is what its poller has done: nothing before it is made, one start while
\* it is polled, and one outcome at most after that, for any jobs, cards and assignments
\* (run_loop.py:22-76, polling.py:21-54).
THEOREM BridgeInvariant == BridgeSpec => []BridgeInv
BY BridgeInvInit, BridgeInvKept, PTL DEF BridgeSpec

\* Of one card the coordinator hears one start and at most one outcome after it, however often its task is assigned
\* again (run_loop.py:49-76, polling.py:30-54).
THEOREM OutcomeToldOnce == BridgeSpec => []OneOutcome
<1>1. BridgeInv => OneOutcome
  BY DEF BridgeInv
<1> QED
  BY <1>1, BridgeInvariant, PTL

(***************************************************************************)
(* Ballots.                                                                  *)
(***************************************************************************)

\* What a closer is about to write is founded on votes in the table, and so is what was written.
CloserFounded == \A c \in Closers : closer[c].at = "write" => Founded(closer[c].result, closer[c].heard)

BallotInv == BallotTypes /\ CloserFounded /\ Founded(verdict, counted)

-----------------------------------------------------------------------------
(* The counters of yes and no.                                               *)

\* The counts are numbers.
LEMMA TallyTypes == Tally("yes") \in Nat /\ Tally("no") \in Nat /\ Tally("abstain") \in Nat
<1>1. \A c : IsFiniteSet({v \in Cast("binary") : cast[v].vote = c})
  BY BallotAssumption, FS_Subset DEF Cast
<1> QED BY <1>1, FS_CardinalityType DEF Tally

-----------------------------------------------------------------------------
\* The weight of a choice: its voters times the weight they all have, and no less than that of any of them.
LEMMA WeightSum ==
    ASSUME BallotTypes, NEW c
    PROVE  /\ WeightOf(c) \in Nat
           /\ \A n \in Nat : (\A v \in Voters : weight[v] = n) => WeightOf(c) = n * Tally(c)
           /\ \A v \in Cast("binary") : cast[v].vote = c => weight[v] \in Nat /\ weight[v] <= WeightOf(c)
<1> DEFINE A == {v \in Cast("binary") : cast[v].vote = c}
<1>1. IsFiniteSet(A) /\ A \subseteq Voters
  BY BallotAssumption, FS_Subset DEF Cast
<1>2. \A v \in A : weight[v] \in Nat
  BY <1>1, BallotAssumption DEF BallotTypes
<1>3. WeightOf(c) = Sigma(weight, A) /\ Tally(c) = Cardinality(A)
  BY DEF WeightOf, Sigma, Tally
<1>4. \A v \in Cast("binary") : cast[v].vote = c => v \in A
  OBVIOUS
<1> HIDE DEF A
<1>5. Sigma(weight, A) \in Nat /\ \A v \in A : weight[v] <= Sigma(weight, A)
  BY <1>1, <1>2, SigmaNat
<1>6. ASSUME NEW n \in Nat, \A v \in Voters : weight[v] = n PROVE Sigma(weight, A) = n * Cardinality(A)
  BY <1>6, <1>1, SigmaSame
<1> QED BY <1>2, <1>3, <1>4, <1>5, <1>6

\* The counters of yes and no are ordered by strictness.
LEMMA Stricter == BallotInv => StricterImplies
<1> SUFFICES ASSUME BallotInv PROVE StricterImplies
  OBVIOUS
<1> DEFINE y == Tally("yes")
           n == Tally("no")
<1>1. y \in Nat /\ n \in Nat
  BY TallyTypes
<1>2. Anybody \/ Cast("binary") = {}
  BY DEF Anybody, Cast
<1>3. /\ Cast("binary") = {} => y = 0
      /\ y = 0 => \A v \in Cast("binary") : cast[v].vote # "yes"
  <2> DEFINE Yes == {v \in Cast("binary") : cast[v].vote = "yes"}
  <2>1. IsFiniteSet(Yes)
    BY BallotAssumption, FS_Subset DEF Cast
  <2>2. (Yes = {} => y = 0) /\ (y = 0 => Yes = {})
    <3>1. y = Cardinality(Yes)
      BY DEF Tally
    <3> HIDE DEF Yes
    <3> QED BY <2>1, <3>1, FS_EmptySet
  <2> QED BY <2>2
<1> DEFINE wy == WeightOf("yes")
           wn == WeightOf("no")
<1>4. /\ wy \in Nat /\ wn \in Nat
      /\ \A k \in Nat : (\A v \in Voters : weight[v] = k) => wy = k * y /\ wn = k * n
      /\ \A v \in Cast("binary") : cast[v].vote = "yes" => weight[v] \in Nat /\ weight[v] <= wy
  BY WeightSum DEF BallotInv
<1>5. Unanimous = "adopted" => Supermajority = "adopted"
  <2> HIDE DEF y, n
  <2> QED BY <1>1 DEF Unanimous, Supermajority, Decide, y, n
<1>6. Supermajority = "adopted" => SimpleMajority = "adopted"
  BY <1>1, <1>2, <1>3 DEF Supermajority, SimpleMajority, Decide
<1>7. ASSUME SimpleMajority = "adopted", NEW k \in Weights \ {0}, \A v \in Voters : weight[v] = k
      PROVE  Weighted = "adopted"
  <2>1. y > n
    BY <1>7 DEF SimpleMajority, Decide
  <2>2. k \in Nat \ {0} /\ wy = k * y /\ wn = k * n
    BY <1>4, <1>7, BallotAssumption
  <2> HIDE DEF wy, wn, y, n
  <2>3. k * y >= k * n /\ k * y > 0
    BY <2>1, <2>2, <1>1
  <2>4. wy + wn > 0 /\ 2 * wy >= wy + wn
    BY <2>2, <2>3, <1>4
  <2> QED BY <2>4 DEF Weighted, ByWeight, Decide, wy, wn
<1> QED BY <1>5, <1>6, <1>7 DEF StricterImplies

\* A count is a verdict, founded on the votes that are in the table.
LEMMA CountFounded ==
    ASSUME BallotTypes
    PROVE  Count \in {"adopted", "rejected", "no_consensus"} /\ Founded(Count, HaveVoted)
<1> DEFINE y == Tally("yes")
           n == Tally("no")
           wy == WeightOf("yes")
           wn == WeightOf("no")
<1>1. y \in Nat /\ n \in Nat
  BY TallyTypes
<1>2. Cast("binary") \subseteq HaveVoted /\ (Cast("binary") # {} => Anybody)
  BY DEF Anybody, Cast, HaveVoted
<1>3. y = 0 <=> \A v \in HaveVoted : ~ SaidYes(v)
  <2> DEFINE Yes == {v \in Cast("binary") : cast[v].vote = "yes"}
  <2>1. IsFiniteSet(Yes)
    BY BallotAssumption, FS_Subset DEF Cast
  <2>2. (Yes = {} => y = 0) /\ (y = 0 => Yes = {})
    <3>1. y = Cardinality(Yes)
      BY DEF Tally
    <3> HIDE DEF Yes
    <3> QED BY <2>1, <3>1, FS_EmptySet
  <2>3. Yes = {} <=> \A v \in HaveVoted : ~ SaidYes(v)
    BY <1>2 DEF SaidYes
  <2> QED BY <2>2, <2>3
<1>4. /\ wy \in Nat /\ wn \in Nat /\ (y = 0 => wy = 0)
      /\ \A v \in HaveVoted : SaidYes(v) => weight[v] \in Nat /\ weight[v] <= wy
  <2>1. /\ wy \in Nat /\ wn \in Nat
        /\ \A v \in Cast("binary") : cast[v].vote = "yes" => weight[v] \in Nat /\ weight[v] <= wy
    BY WeightSum
  <2>2. ASSUME y = 0 PROVE wy = 0
    <3>1. {v \in Cast("binary") : cast[v].vote = "yes"} = {}
      BY <1>2, <1>3, <2>2 DEF SaidYes
    <3>2. WeightOf("yes") = Sigma(weight, {})
      BY <3>1 DEF WeightOf, Sigma
    <3>3. Sigma(weight, {}) = 0
      BY FS_EmptySet, SigmaStep
    <3> QED BY <3>2, <3>3
  <2> QED BY <2>1, <2>2 DEF SaidYes
<1>5. ASSUME Count = "adopted" PROVE y > 0
  <2> HIDE DEF y, n, wy, wn
  <2>1. Supermajority = "adopted" => y > 0
    BY <1>1 DEF Supermajority, Decide, y, n
  <2>2. Unanimous = "adopted" => y > 0
    BY <1>1 DEF Unanimous, Decide, y, n
  <2>3. SimpleMajority = "adopted" => y > 0
    BY <1>1 DEF SimpleMajority, Decide, y, n
  <2>4. Weighted = "adopted" => y > 0
    BY <1>1, <1>4 DEF Weighted, ByWeight, Decide, wy, wn
  <2> QED BY <1>5, <2>1, <2>2, <2>3, <2>4 DEF Count
<1>6. ASSUME Count = "no_consensus", NEW v \in HaveVoted, SaidYes(v)
      PROVE  method = "weighted" /\ weight[v] = 0
  <2>1. y > 0 /\ Anybody
    BY <1>1, <1>2, <1>3, <1>6 DEF SaidYes
  <2>2. weight[v] \in Nat /\ weight[v] <= wy
    BY <1>4, <1>6
  <2> HIDE DEF y, n, wy, wn
  <2>3. Supermajority # "no_consensus"
    BY <2>1, <1>1 DEF Supermajority, Decide, y, n
  <2>4. Unanimous # "no_consensus"
    BY <2>1, <1>1 DEF Unanimous, Decide, y, n
  <2>5. SimpleMajority # "no_consensus"
    BY <2>1 DEF SimpleMajority, Decide
  <2>6. method = "weighted" /\ Weighted = "no_consensus"
    BY <1>6, <2>3, <2>4, <2>5 DEF Count
  <2>7. ~ (wy + wn > 0)
    BY <2>6 DEF Weighted, ByWeight, Decide, wy, wn
  <2> QED BY <2>2, <2>6, <2>7, <1>4
<1>7. Count \in {"adopted", "rejected", "no_consensus"}
  BY DEF Count, Supermajority, Unanimous, Weighted, ByWeight, SimpleMajority, Decide
<1>8. Count = "adopted" => \E v \in HaveVoted : SaidYes(v)
  BY <1>1, <1>3, <1>5
<1> HIDE DEF y, n, wy, wn
<1> QED BY <1>6, <1>7, <1>8 DEF Founded

\* Votes stay in the table, so what was founded stays so.
LEMMA StaysFounded ==
    ASSUME NEW result, NEW voters, Founded(result, voters), UNCHANGED <<method, weight>>,
           \A v \in HaveVoted : v \in HaveVoted' /\ cast'[v] = cast[v]
    PROVE  Founded(result, voters)'
<1>1. voters \subseteq HaveVoted
  BY DEF Founded
<1>2. \A v \in voters : SaidYes(v)' <=> SaidYes(v)
  BY <1>1 DEF SaidYes, Cast, HaveVoted
<1> QED BY <1>1, <1>2 DEF Founded

CloserShape == [at : {"idle", "write"}, result : Verdicts, heard : SUBSET Voters]

\* BallotInv holds to begin with.
LEMMA BallotInitInv == BallotInit => BallotInv
BY DEF BallotInit, BallotInv, BallotTypes, CloserFounded, Founded, IdleCloser, Verdicts

\* Every step keeps BallotInv.
LEMMA BallotStep == BallotInv /\ [BallotNext]_ballotVars => BallotInv'
<1> SUFFICES ASSUME BallotInv, [BallotNext]_ballotVars PROVE BallotInv'
  OBVIOUS
<1>0. closer \in [Closers -> CloserShape] /\ IdleCloser \in CloserShape /\ HaveVoted \subseteq Voters
  BY DEF BallotInv, BallotTypes, CloserShape, IdleCloser, Verdicts, HaveVoted
<1>1. ASSUME NEW v \in Voters, NEW vote \in ValidFormat(method), HandleVote(v, vote) PROVE BallotInv'
  <2>1. vote \in Votes
    BY DEF ValidFormat, Votes, BallotInv, BallotTypes, Methods
  <2>2. BallotTypes'
    BY <1>1, <2>1 DEF HandleVote, BallotInv, BallotTypes
  <2> QED BY <1>1, <2>2, StaysFounded DEF HandleVote, BallotInv, CloserFounded, HaveVoted
<1>2. ASSUME NEW v \in Voters, AddVote(v) PROVE BallotInv'
  <2>1. arriving[v] \in Votes
    BY <1>2 DEF AddVote, BallotInv, BallotTypes
  <2>2. BallotTypes'
    BY <1>2, <2>1 DEF AddVote, BallotInv, BallotTypes
  <2>3. \A u \in HaveVoted : u \in HaveVoted' /\ cast'[u] = cast[u]
    BY <1>2 DEF AddVote, HaveVoted, BallotInv, BallotTypes
  <2> QED BY <1>2, <2>2, <2>3, StaysFounded DEF AddVote, BallotInv, CloserFounded
<1>3. ASSUME NEW c \in Closers, CloseVoting(c) PROVE BallotInv'
  <2>1. Count \in Verdicts /\ Founded(Count, HaveVoted)
    BY CountFounded DEF BallotInv, Verdicts
  <2>2. /\ closer' = [closer EXCEPT ![c] = [at |-> "write", result |-> Count, heard |-> HaveVoted]]
        /\ UNCHANGED <<method, counting, weight, arriving, cast, verdict, counted>>
    BY <1>3 DEF CloseVoting
  <2>3. \A u \in HaveVoted : u \in HaveVoted' /\ cast'[u] = cast[u]
    BY <2>2 DEF HaveVoted
  <2> DEFINE r == Count
             h == HaveVoted
  <2>4. /\ r \in Verdicts /\ h \subseteq Voters /\ Founded(r, h)
        /\ closer' = [closer EXCEPT ![c] = [at |-> "write", result |-> r, heard |-> h]]
    BY <1>0, <2>1, <2>2
  <2> HIDE DEF r, h
  <2>5. closer' \in [Closers -> CloserShape]
    BY <1>0, <2>4 DEF CloserShape
  <2>6. BallotTypes'
    BY <2>2, <2>5 DEF BallotInv, BallotTypes, CloserShape
  <2>7. \A d \in Closers : closer'[d].at = "write" => Founded(closer'[d].result, closer'[d].heard)
    BY <1>0, <2>4 DEF BallotInv, CloserFounded
  <2>8. ASSUME NEW result, NEW voters, Founded(result, voters) PROVE Founded(result, voters)'
    BY <2>2, <2>3, <2>8, StaysFounded
  <2> QED BY <2>2, <2>6, <2>7, <2>8 DEF BallotInv, CloserFounded
<1>4. ASSUME NEW c \in Closers, WriteDecision(c) PROVE BallotInv'
  <2>1. Founded(closer[c].result, closer[c].heard)
    BY <1>4 DEF WriteDecision, BallotInv, CloserFounded
  <2>2. \A u \in HaveVoted : u \in HaveVoted' /\ cast'[u] = cast[u]
    BY <1>4 DEF WriteDecision, HaveVoted
  <2>3. BallotTypes'
    BY <1>0, <1>4 DEF WriteDecision, BallotInv, BallotTypes, CloserShape
  <2>4. ASSUME NEW result, NEW voters, Founded(result, voters) PROVE Founded(result, voters)'
    BY <1>4, <2>2, <2>4, StaysFounded DEF WriteDecision
  <2>5. \A d \in Closers : closer'[d].at = "write" => Founded(closer'[d].result, closer'[d].heard)
    BY <1>0, <1>4 DEF WriteDecision, IdleCloser, BallotInv, CloserFounded
  <2>6. Founded(verdict', counted')
    BY <1>4, <2>1 DEF WriteDecision
  <2> QED BY <2>3, <2>4, <2>5, <2>6 DEF BallotInv, CloserFounded
<1>5. CASE UNCHANGED ballotVars
  <2>1. BallotTypes'
    BY <1>5 DEF ballotVars, BallotInv, BallotTypes
  <2> QED BY <1>5, <2>1, StaysFounded DEF ballotVars, BallotInv, CloserFounded, HaveVoted
<1> QED BY <1>1, <1>2, <1>3, <1>4, <1>5 DEF BallotNext

\* The decision on a motion is one of votes that are in the table, and so is what each closer is about to write,
\* however many close the motion, and however late votes are stored (manager.py:48-121, votes.py:14-48).
THEOREM BallotInvariant == BallotSpec => []BallotInv
BY BallotInitInv, BallotStep, PTL DEF BallotSpec

-----------------------------------------------------------------------------
(* The runoff.                                                               *)

Polled(rest) == [o \in rest |-> Firsts(o, rest)]
Majority(rest) == {o \in rest : 2 * Firsts(o, rest) > Sigma(Polled(rest), rest)}
Placed == [o \in Options |-> FirstPlaces(o)]

\* The sums over the options, as sums of the values of a function.
LEMMA PolledSum ==
    ASSUME NEW rest
    PROVE  MapThenSumSet(LAMBDA o : Firsts(o, rest), rest) = Sigma(Polled(rest), rest)
<1> DEFINE w == Polled(rest)
           Adding(g, s) == IF s = {} THEN 0
                           ELSE Firsts(CHOOSE x \in s : TRUE, rest) + g[s \ {CHOOSE x \in s : TRUE}]
<1>1. MapThenSumSet(LAMBDA o : Firsts(o, rest), rest) = (CHOOSE g : g = [s \in SUBSET rest |-> Adding(g, s)])[rest]
  BY DEF MapThenSumSet, MapThenFoldSet
<1>2. \A g : [s \in SUBSET rest |-> Adding(g, s)] = [s \in SUBSET rest |-> Summing(w, g, s)]
  BY DEF Summing, Polled
<1>3. (CHOOSE g : g = [s \in SUBSET rest |-> Adding(g, s)]) = (CHOOSE g : g = [s \in SUBSET rest |-> Summing(w, g, s)])
  <2> HIDE DEF Adding, w
  <2> QED BY <1>2
<1> QED BY <1>1, <1>3, SigmaIs

\* The sum of the first places.
LEMMA PlacedSum == MapThenSumSet(FirstPlaces, Options) = Sigma(Placed, Options)
<1> DEFINE Adding(g, s) == IF s = {} THEN 0
                           ELSE FirstPlaces(CHOOSE x \in s : TRUE) + g[s \ {CHOOSE x \in s : TRUE}]
<1>1. MapThenSumSet(FirstPlaces, Options) = (CHOOSE g : g = [s \in SUBSET Options |-> Adding(g, s)])[Options]
  BY DEF MapThenSumSet, MapThenFoldSet
<1>2. \A g : [s \in SUBSET Options |-> Adding(g, s)] = [s \in SUBSET Options |-> Summing(Placed, g, s)]
  BY DEF Summing, Placed
<1>3. (CHOOSE g : g = [s \in SUBSET Options |-> Adding(g, s)])
          = (CHOOSE g : g = [s \in SUBSET Options |-> Summing(Placed, g, s)])
  <2> HIDE DEF Adding
  <2> QED BY <1>2
<1> QED BY <1>1, <1>3, SigmaIs

\* The counts of first choices are numbers.
LEMMA CountedTypes ==
    /\ \A o, rest : Firsts(o, rest) \in Nat
    /\ \A o : FirstPlaces(o) \in Nat
<1>1. IsFiniteSet(Cast("ranking"))
  BY BallotAssumption, FS_Subset DEF Cast
<1>2. ASSUME NEW o, NEW rest PROVE Firsts(o, rest) \in Nat
  <2>1. IsFiniteSet({v \in Cast("ranking") : o \in FirstChoice(v, rest)})
    BY <1>1, FS_Subset
  <2> QED BY <2>1, FS_CardinalityType DEF Firsts
<1>3. ASSUME NEW o PROVE FirstPlaces(o) \in Nat
  <2>1. IsFiniteSet({v \in Cast("ranking") : cast[v].ranking # <<>> /\ Head(cast[v].ranking) = o})
    BY <1>1, FS_Subset
  <2> QED BY <2>1, FS_CardinalityType DEF FirstPlaces
<1> QED BY <1>2, <1>3

\* Half of all and more is what one can have.
LEMMA OneMajority ==
    ASSUME NEW rest \in SUBSET Options, NEW o \in Majority(rest), NEW p \in Majority(rest)
    PROVE  o = p
<1> SUFFICES ASSUME o # p PROVE FALSE
  OBVIOUS
<1> DEFINE n == Sigma(Polled(rest), rest)
           a == Firsts(o, rest)
           b == Firsts(p, rest)
<1>1. o \in rest /\ p \in rest /\ 2 * a > n /\ 2 * b > n
  BY DEF Majority
<1>2. IsFiniteSet(rest)
  BY BallotAssumption, FS_Subset
<1>3. \A x \in rest : Polled(rest)[x] \in Nat
  BY CountedTypes DEF Polled
<1>4. Polled(rest)[o] + Polled(rest)[p] <= n /\ n \in Nat
  BY <1>1, <1>2, <1>3, SigmaTwo
<1>5. Polled(rest)[o] = a /\ Polled(rest)[p] = b
  BY <1>1 DEF Polled
<1>6. a \in Nat /\ b \in Nat
  BY CountedTypes
<1> HIDE DEF n, a, b
<1> QED BY <1>1, <1>4, <1>5, <1>6

\* Somebody has the fewest of those that have any.
LEMMA LowestThere ==
    ASSUME NEW rest \in SUBSET Options, Sigma(Polled(rest), rest) # 0
    PROVE  Lowest(rest) \subseteq rest /\ Lowest(rest) # {}
<1> DEFINE named == {o \in rest : Firsts(o, rest) > 0}
           X == {n \in Nat : \A o \in named : Firsts(o, rest) <= n
                                => \E l \in named : \A p \in named : Firsts(l, rest) <= Firsts(p, rest)}
<1>1. IsFiniteSet(rest)
  BY BallotAssumption, FS_Subset
<1>2. named # {}
  <2> SUFFICES ASSUME named = {} PROVE FALSE
    OBVIOUS
  <2>1. \A o \in rest : Firsts(o, rest) = 0
    BY CountedTypes
  <2>2. \A o \in rest : Polled(rest)[o] = 0
    BY <2>1 DEF Polled
  <2>3. Sigma(Polled(rest), rest) = 0 * Cardinality(rest)
    BY <1>1, <2>2, SigmaSame
  <2>4. Cardinality(rest) \in Nat
    BY <1>1, FS_CardinalityType
  <2> QED BY <2>3, <2>4
<1>3. \A n \in Nat : n \in X
  <2>1. 0 \in X
    BY CountedTypes
  <2>2. ASSUME NEW n \in Nat, n \in X PROVE n + 1 \in X
    <3> SUFFICES ASSUME NEW o \in named, Firsts(o, rest) <= n + 1
                 PROVE  \E l \in named : \A p \in named : Firsts(l, rest) <= Firsts(p, rest)
      BY <2>2
    <3>1. CASE \E q \in named : Firsts(q, rest) <= n
      BY <3>1, <2>2
    <3>2. CASE \A q \in named : ~ (Firsts(q, rest) <= n)
      <4>1. \A q \in named : Firsts(o, rest) <= Firsts(q, rest)
        BY <3>2, CountedTypes
      <4> QED BY <4>1
    <3> QED BY <3>1, <3>2
  <2> HIDE DEF X
  <2> QED BY <2>1, <2>2, NatSetInduction
<1>4. PICK o \in named : TRUE
  BY <1>2
<1>5. Firsts(o, rest) \in X /\ Firsts(o, rest) <= Firsts(o, rest)
  BY <1>3, CountedTypes
<1>6. \E l \in named : \A p \in named : Firsts(l, rest) <= Firsts(p, rest)
  BY <1>4, <1>5
<1> QED BY <1>6 DEF Lowest

\* Runoff is the solution of its equation: each round leaves fewer options.
LEMMA RunoffIs ==
    ASSUME NEW rest \in SUBSET Options
    PROVE  LET n == Sigma(Polled(rest), rest)
           IN Runoff[rest] = IF n = 0 \/ Majority(rest) # {} THEN Majority(rest)
                             ELSE IF Cardinality(rest) <= Cardinality(Lowest(rest)) THEN {}
                             ELSE Runoff[rest \ Lowest(rest)]
<1> DEFINE Sum(r) == Sigma(Polled(r), r)
           Tie(r) == Cardinality(r) <= Cardinality(Lowest(r))
           stop == {r \in SUBSET Options : Sum(r) = 0 \/ Majority(r) # {} \/ Tie(r)}
           done == [r \in SUBSET Options |-> IF Sum(r) = 0 \/ Majority(r) # {} THEN Majority(r) ELSE {}]
           next == [r \in SUBSET Options |-> r \ Lowest(r)]
           Body(g, r) == IF Sum(r) = 0 \/ Majority(r) # {} THEN Majority(r)
                         ELSE IF Tie(r) THEN {} ELSE g[r \ Lowest(r)]
<1>1. \A r \in SUBSET Options : r \notin stop => next[r] \in SUBSET r /\ next[r] # r
  <2> SUFFICES ASSUME NEW r \in SUBSET Options, r \notin stop PROVE next[r] \in SUBSET r /\ next[r] # r
    OBVIOUS
  <2>1. Sum(r) # 0
    OBVIOUS
  <2>2. Lowest(r) \subseteq r /\ Lowest(r) # {}
    BY <2>1, LowestThere
  <2> QED BY <2>2
<1>2. \E g : Recurs(Options, stop, done, next, g)
  <2>1. IsFiniteSet(Options)
    BY BallotAssumption
  <2> HIDE DEF stop, done, next
  <2> QED BY <1>1, <2>1, SetRecursion
<1>3. \A g : \A r \in SUBSET Options : Turn(stop, done, next, g, r) = Body(g, r)
  <2> HIDE DEF Sum, Tie
  <2> QED BY DEF Turn
<1>4. \E g : g = [r \in SUBSET Options |-> Body(g, r)]
  <2> HIDE DEF Body, stop, done, next
  <2> QED BY <1>2, <1>3 DEF Recurs
<1>5. Runoff = CHOOSE g : g = [r \in SUBSET Options |-> Body(g, r)]
  <2> DEFINE Many(r) == MapThenSumSet(LAMBDA o : Firsts(o, r), r)
             More(r) == {o \in r : 2 * Firsts(o, r) > Many(r)}
             Round(g, r) == IF Many(r) = 0 \/ More(r) # {} THEN More(r)
                            ELSE IF Tie(r) THEN {} ELSE g[r \ Lowest(r)]
  <2>1. Runoff = CHOOSE g : g = [r \in SUBSET Options |-> Round(g, r)]
    BY DEF Runoff
  <2>2. \A r : Many(r) = Sum(r) /\ More(r) = Majority(r)
    <3>1. \A r : Many(r) = Sum(r)
      BY PolledSum
    <3> HIDE DEF Many
    <3> QED BY <3>1 DEF Majority
  <2>3. \A g, r : Round(g, r) = Body(g, r)
    <3> HIDE DEF Many, More, Sum, Tie
    <3> QED BY <2>2
  <2> HIDE DEF Round, Body
  <2>4. \A g : [r \in SUBSET Options |-> Round(g, r)] = [r \in SUBSET Options |-> Body(g, r)]
    BY <2>3
  <2> QED BY <2>1, <2>4
<1>6. Runoff = [r \in SUBSET Options |-> Body(Runoff, r)]
  <2> HIDE DEF Body
  <2> QED BY <1>4, <1>5
<1> QED BY <1>6

\* The runoff is won by one option or none.
LEMMA OneWinner ==
    ASSUME NEW rest \in SUBSET Options
    PROVE  Runoff[rest] \subseteq rest /\ \A o, p \in Runoff[rest] : o = p
<1> DEFINE X == {r \in SUBSET Options : Runoff[r] \subseteq r /\ \A o, p \in Runoff[r] : o = p}
<1>1. ASSUME NEW r \in SUBSET Options, \A u \in SUBSET r : u # r => u \in X PROVE r \in X
  <2>1. CASE Runoff[r] = Majority(r)
    <3>1. \A o, p \in Majority(r) : o = p
      BY OneMajority
    <3> QED BY <2>1, <3>1 DEF Majority
  <2>2. CASE Runoff[r] = {}
    BY <2>2
  <2>3. CASE Sigma(Polled(r), r) # 0 /\ Runoff[r] = Runoff[r \ Lowest(r)]
    <3>1. Lowest(r) \subseteq r /\ Lowest(r) # {}
      BY <2>3, LowestThere
    <3>2. r \ Lowest(r) \in X
      BY <1>1, <3>1
    <3> QED BY <2>3, <3>2
  <2> HIDE DEF X
  <2> QED BY <2>1, <2>2, <2>3, RunoffIs
<1>2. \A r \in SUBSET Options : r \in X
  <2>1. IsFiniteSet(Options)
    BY BallotAssumption
  <2> HIDE DEF X
  <2> QED BY <1>1, <2>1, StrongSetInduction
<1> QED BY <1>2

Ranked1 == UNION {ToSet(cast[v].ranking) : v \in Cast("ranking")}

\* Among all that are ranked, the first choice of a voter is the first of the ranking.
LEMMA FirstsOfAll ==
    ASSUME BallotTypes
    PROVE  /\ Ranked1 \subseteq Options
           /\ \A o \in Ranked1 : Firsts(o, Ranked1) = FirstPlaces(o)
           /\ \A o : o \notin Ranked1 => FirstPlaces(o) = 0
<1>1. ASSUME NEW v \in Cast("ranking")
      PROVE  /\ cast[v].ranking \in Seq(Options)
             /\ \A i \in 1..Len(cast[v].ranking) : cast[v].ranking[i] \in Ranked1
  <2>1. v \in Voters /\ cast[v] \in Votes /\ cast[v].form = "ranking"
    BY DEF Cast, BallotTypes
  <2>2. cast[v].ranking \in Rankings
    BY <2>1 DEF Votes, Binary, Ranked, Scored, Approved
  <2>3. cast[v].ranking \in Seq(Options)
    BY <2>2, BallotAssumption
  <2>4. \A i \in 1..Len(cast[v].ranking) : cast[v].ranking[i] \in ToSet(cast[v].ranking)
    BY <2>3 DEF ToSet
  <2> QED BY <2>3, <2>4 DEF Ranked1
<1>2. ASSUME NEW v \in Cast("ranking"), NEW o
      PROVE  o \in FirstChoice(v, Ranked1) <=> cast[v].ranking # <<>> /\ Head(cast[v].ranking) = o
  <2> DEFINE r == cast[v].ranking
             K == {k \in 1..Len(r) : r[k] \in Ranked1 /\ \A j \in 1..(k - 1) : r[j] \notin Ranked1}
  <2>1. FirstChoice(v, Ranked1) = {r[i] : i \in K}
    BY DEF FirstChoice
  <2>2. r \in Seq(Options) /\ \A i \in 1..Len(r) : r[i] \in Ranked1
    BY <1>1
  <2>3. Len(r) \in Nat
    BY <2>2
  <2> HIDE DEF r
  <2>4. CASE r = <<>>
    <3>1. Len(r) = 0
      BY <2>4
    <3>2. K = {}
      BY <3>1
    <3> QED BY <2>1, <2>4, <3>2 DEF r
  <2>5. CASE r # <<>>
    <3>1. Len(r) >= 1 /\ Head(r) = r[1]
      BY <2>2, <2>5
    <3>2. K = {1}
      <4>1. ASSUME NEW k \in K PROVE k = 1
        <5>1. k \in Nat /\ 1 <= k /\ r[1] \in Ranked1
          BY <2>2, <2>3, <3>1
        <5>2. k > 1 => 1 \in 1..(k - 1)
          BY <5>1
        <5> QED BY <5>1, <5>2
      <4>2. 1 \in K
        BY <2>2, <2>3, <3>1
      <4> QED BY <4>1, <4>2
    <3> HIDE DEF K
    <3> QED BY <2>1, <2>5, <3>1, <3>2 DEF r
  <2> QED BY <2>4, <2>5
<1>3. ASSUME NEW o PROVE Firsts(o, Ranked1) = FirstPlaces(o)
  <2>1. {v \in Cast("ranking") : o \in FirstChoice(v, Ranked1)}
            = {v \in Cast("ranking") : cast[v].ranking # <<>> /\ Head(cast[v].ranking) = o}
    BY <1>2
  <2> QED BY <2>1 DEF Firsts, FirstPlaces
<1>4. ASSUME NEW o, o \notin Ranked1 PROVE FirstPlaces(o) = 0
  <2>1. ASSUME NEW v \in Cast("ranking"), cast[v].ranking # <<>>, Head(cast[v].ranking) = o PROVE FALSE
    <3>1. cast[v].ranking \in Seq(Options) /\ \A i \in 1..Len(cast[v].ranking) : cast[v].ranking[i] \in Ranked1
      BY <1>1
    <3>2. Len(cast[v].ranking) >= 1 /\ Head(cast[v].ranking) = cast[v].ranking[1] /\ Len(cast[v].ranking) \in Nat
      BY <2>1, <3>1
    <3> QED BY <1>4, <2>1, <3>1, <3>2
  <2>2. {v \in Cast("ranking") : cast[v].ranking # <<>> /\ Head(cast[v].ranking) = o} = {}
    BY <2>1
  <2> QED BY <2>2, FS_EmptySet DEF FirstPlaces
<1>5. Ranked1 \subseteq Options
  <2> SUFFICES ASSUME NEW v \in Cast("ranking"), NEW o \in ToSet(cast[v].ranking) PROVE o \in Options
    BY DEF Ranked1
  <2>1. cast[v].ranking \in Seq(Options)
    BY <1>1
  <2> QED BY <2>1 DEF ToSet
<1> QED BY <1>3, <1>4, <1>5

\* An option that most rank first wins the runoff, which has one winner at most.
LEMMA MajorityWins == BallotTypes => MajorityElected
<1> SUFFICES ASSUME BallotTypes PROVE MajorityElected
  OBVIOUS
<1> DEFINE R == Ranked1
           n == Sigma(Placed, Options)
<1>1. /\ R \subseteq Options
      /\ \A o \in R : Firsts(o, R) = FirstPlaces(o)
      /\ \A o : o \notin R => FirstPlaces(o) = 0
  BY FirstsOfAll
<1>2. RankedWinners = Runoff[R]
  BY DEF RankedWinners, Ranked1
<1>3. \A o, p \in RankedWinners : o = p
  <2> HIDE DEF R
  <2> QED BY <1>1, <1>2, OneWinner
<1>4. Sigma(Polled(R), R) = n
  <2>1. IsFiniteSet(Options) /\ IsFiniteSet(R) /\ IsFiniteSet(Options \ R)
    BY BallotAssumption, <1>1, FS_Subset
  <2>2. \A o \in Options : Placed[o] \in Int
    BY CountedTypes DEF Placed
  <2>3. n = Sigma(Placed, R) + Sigma(Placed, Options \ R)
    <3> HIDE DEF R
    <3> QED BY <1>1, <2>1, <2>2, SigmaSplit
  <2>4. Sigma(Placed, Options \ R) = 0
    <3>1. \A o \in Options \ R : Placed[o] = 0
      BY <1>1 DEF Placed
    <3>2. Sigma(Placed, Options \ R) = 0 * Cardinality(Options \ R)
      BY <2>1, <3>1, SigmaSame
    <3>3. Cardinality(Options \ R) \in Nat
      BY <2>1, FS_CardinalityType
    <3> QED BY <3>2, <3>3
  <2>5. Sigma(Placed, R) = Sigma(Polled(R), R) /\ Sigma(Placed, R) \in Int
    <3>1. \A o \in R : Placed[o] \in Int /\ Polled(R)[o] = Placed[o]
      BY <1>1, <2>2 DEF Placed, Polled
    <3>2. Sigma(Placed, R) = Sigma(Polled(R), R)
      BY <2>1, <3>1, SigmaAlike
    <3>3. Sigma(Placed, R) \in Int
      BY <2>1, <3>1, SigmaAdd
    <3> QED BY <3>2, <3>3
  <2> QED BY <2>3, <2>4, <2>5
<1>5. ChoiceWinners = {o \in BestOf(Options, FirstPlaces) : 2 * FirstPlaces(o) > n}
  BY PlacedSum DEF ChoiceWinners
<1>6. n \in Nat
  <2>1. \A o \in Options : Placed[o] \in Nat
    BY CountedTypes DEF Placed
  <2> QED BY <2>1, BallotAssumption, SigmaNat
<1>7. ASSUME NEW o \in Options, NEW p \in Options, o # p PROVE FirstPlaces(o) + FirstPlaces(p) <= n
  <2>1. \A x \in Options : Placed[x] \in Nat
    BY CountedTypes DEF Placed
  <2>2. Placed[o] + Placed[p] <= n
    BY <1>7, <2>1, BallotAssumption, SigmaTwo
  <2> QED BY <2>2 DEF Placed
<1> HIDE DEF n, R
<1>8. ASSUME NEW o \in Options, 2 * FirstPlaces(o) > n PROVE o \in BestOf(Options, FirstPlaces)
  <2>1. \A p \in Options : FirstPlaces(p) <= FirstPlaces(o)
    BY <1>6, <1>7, <1>8, CountedTypes
  <2> QED BY <2>1 DEF BestOf
<1>9. ChoiceWinners = {o \in Options : 2 * FirstPlaces(o) > n}
  BY <1>5, <1>8 DEF BestOf
<1>10. Majority(R) = ChoiceWinners
  <2>1. \A o \in Options : 2 * FirstPlaces(o) > n => o \in R
    BY <1>1, <1>6
  <2>2. Majority(R) = {o \in R : 2 * FirstPlaces(o) > n}
    BY <1>1, <1>4 DEF Majority
  <2> QED BY <1>1, <1>9, <2>1, <2>2
<1>11. ChoiceWinners # {} => RankedWinners = ChoiceWinners
  BY <1>1, <1>2, <1>10, RunoffIs
<1> QED BY <1>3, <1>11 DEF MajorityElected

\* The counters agree wherever they count the same, for any voters, options, weights and rankings: what one adopts
\* a milder one adopts, what most rank first wins the instant runoff, and the runoff has one winner at most, whatever
\* it eliminates together; and the decision on a motion is one of votes that are in the table, whatever is stored after
\* the count and whoever counts again (manager.py:48-121, factory.py:27-109, weighted.py:10-57, ranked_choice.py:12-68, multiple_choice.py:8-47).
THEOREM CountersInAgreement == BallotSpec => []CountersAgree
<1>1. BallotInv => CountersAgree
  BY Stricter, MajorityWins DEF BallotInv, CountersAgree
<1> QED BY <1>1, BallotInvariant, PTL

(***************************************************************************)
(* Deliberation.                                                             *)
(***************************************************************************)

\* Whoever has found an agreed sub-topic has read two messages at least, and none is taken back.
AgreedOnSome == \A a \in Assessors : assessor[a].agreed => Total >= 2

TalkInv == TalkTypes /\ AgreedOnSome

-----------------------------------------------------------------------------
(* What is counted is the sum of heard.                                      *)

\* What is counted over some kinds is the sum of what was heard of them.
LEMMA CountIs ==
    ASSUME heard \in [Kinds -> Nat], NEW ks \in SUBSET Kinds
    PROVE  CountOf(ks) = Sigma(heard, ks) /\ CountOf(ks) \in Nat
<1> DEFINE w == [k \in ks |-> 1 * heard[k]]
           Adding(g, s) == IF s = {} THEN 0
                           ELSE 1 * heard[CHOOSE x \in s : TRUE] + g[s \ {CHOOSE x \in s : TRUE}]
<1>1. CountOf(ks) = (CHOOSE g : g = [s \in SUBSET ks |-> Adding(g, s)])[ks]
  BY DEF CountOf, SumOver, MapThenSumSet, MapThenFoldSet
<1>2. \A g : [s \in SUBSET ks |-> Adding(g, s)] = [s \in SUBSET ks |-> Summing(w, g, s)]
  BY DEF Summing
<1>3. (CHOOSE g : g = [s \in SUBSET ks |-> Adding(g, s)]) = (CHOOSE g : g = [s \in SUBSET ks |-> Summing(w, g, s)])
  <2> HIDE DEF Adding, w
  <2> QED BY <1>2
<1>4. CountOf(ks) = Sigma(w, ks)
  <2> HIDE DEF w
  <2> QED BY <1>1, <1>3, SigmaIs
<1>5. IsFiniteSet(ks) /\ \A k \in ks : w[k] \in Int /\ heard[k] = w[k] /\ heard[k] \in Nat
  BY DeliberationAssumption, FS_Subset
<1>6. Sigma(w, ks) = Sigma(heard, ks)
  <2> HIDE DEF w
  <2> QED BY <1>5, SigmaAlike
<1>7. Sigma(heard, ks) \in Nat
  BY <1>5, SigmaNat
<1> QED BY <1>4, <1>6, <1>7

Of(s) == {k \in Kinds : k.stance = s}

\* The counts of the stances, and of all.
LEMMA Counts ==
    ASSUME heard \in [Kinds -> Nat]
    PROVE  /\ Total \in Nat /\ \A s \in Stances : With(s) \in Nat /\ With(s) <= Total
           /\ \A s, t \in Stances : s # t => With(s) + With(t) <= Total
           /\ Total > 0 => \E s \in Stances : With(s) > 0
<1>1. Total = Sigma(heard, Kinds) /\ Total \in Nat
  BY CountIs DEF Total
<1>2. \A s \in Stances : With(s) = Sigma(heard, Of(s)) /\ With(s) \in Nat
  BY CountIs DEF With, Of
<1>3. /\ IsFiniteSet(Kinds) /\ \A k \in Kinds : heard[k] \in Nat
      /\ \A ks \in SUBSET Kinds : IsFiniteSet(ks) /\ \A k \in ks : heard[k] \in Int
  BY DeliberationAssumption, FS_Subset
<1>4. ASSUME NEW ks \in SUBSET Kinds PROVE Sigma(heard, ks) \in Nat
  BY <1>3, SigmaNat
<1>5. ASSUME NEW s \in Stances
      PROVE  Sigma(heard, Kinds) = Sigma(heard, Of(s)) + Sigma(heard, Kinds \ Of(s))
  <2>1. Of(s) \in SUBSET Kinds
    BY DEF Of
  <2> QED BY <1>3, <2>1, SigmaSplit
<1>6. ASSUME NEW s \in Stances PROVE With(s) <= Total
  <2>1. Sigma(heard, Kinds \ Of(s)) \in Nat
    BY <1>4
  <2> QED BY <1>1, <1>2, <1>5, <2>1
<1>7. ASSUME NEW s \in Stances, NEW t \in Stances, s # t PROVE With(s) + With(t) <= Total
  <2> DEFINE R == Kinds \ Of(s)
  <2>1. Of(t) \in SUBSET R /\ IsFiniteSet(R) /\ \A k \in R : heard[k] \in Int
    BY <1>3, <1>7 DEF Of
  <2>2. Sigma(heard, R) = Sigma(heard, Of(t)) + Sigma(heard, R \ Of(t))
    <3> HIDE DEF R
    <3> QED BY <2>1, SigmaSplit
  <2>3. Sigma(heard, R \ Of(t)) \in Nat
    BY <1>4
  <2> HIDE DEF R
  <2>4. Sigma(heard, Kinds) = Sigma(heard, Of(s)) + Sigma(heard, R)
    BY <1>5 DEF R
  <2> QED BY <1>1, <1>2, <2>2, <2>3, <2>4
<1>8. ASSUME \A s \in Stances : With(s) = 0 PROVE Total = 0
  <2>1. ASSUME NEW k \in Kinds PROVE heard[k] = 0
    <3>1. k.stance \in Stances /\ k \in Of(k.stance)
      BY DeliberationAssumption DEF Of
    <3>2. Of(k.stance) \in SUBSET Kinds
      BY DEF Of
    <3>3. heard[k] <= Sigma(heard, Of(k.stance))
      BY <1>3, <3>1, <3>2, SigmaNat
    <3> QED BY <1>2, <1>3, <1>8, <3>1, <3>3
  <2>2. Sigma(heard, Kinds) = 0 * Cardinality(Kinds)
    BY <1>3, <2>1, SigmaSame
  <2>3. Cardinality(Kinds) \in Nat
    BY <1>3, FS_CardinalityType
  <2> QED BY <1>1, <2>2, <2>3
<1>9. Total > 0 => \E s \in Stances : With(s) > 0
  BY <1>1, <1>2, <1>8
<1> QED BY <1>1, <1>2, <1>6, <1>7, <1>9

\* The count after a step.
LEMMA TotalNext ==
    ASSUME heard' \in [Kinds -> Nat]
    PROVE  Total' = Sigma(heard', Kinds) /\ Total' \in Nat
<1> DEFINE w == [k \in Kinds |-> 1 * heard'[k]]
           Adding(g, s) == IF s = {} THEN 0
                           ELSE 1 * heard'[CHOOSE x \in s : TRUE] + g[s \ {CHOOSE x \in s : TRUE}]
<1>1. Total' = (CHOOSE g : g = [s \in SUBSET Kinds |-> Adding(g, s)])[Kinds]
  BY DEF Total, CountOf, SumOver, MapThenSumSet, MapThenFoldSet
<1>2. \A g : [s \in SUBSET Kinds |-> Adding(g, s)] = [s \in SUBSET Kinds |-> Summing(w, g, s)]
  BY DEF Summing
<1>3. (CHOOSE g : g = [s \in SUBSET Kinds |-> Adding(g, s)]) = (CHOOSE g : g = [s \in SUBSET Kinds |-> Summing(w, g, s)])
  <2> HIDE DEF Adding, w
  <2> QED BY <1>2
<1>4. Total' = Sigma(w, Kinds)
  <2> HIDE DEF w
  <2> QED BY <1>1, <1>3, SigmaIs
<1>5. IsFiniteSet(Kinds) /\ \A k \in Kinds : w[k] \in Int /\ heard'[k] = w[k]
  BY DeliberationAssumption
<1> HIDE DEF w, Adding
<1>6. Total' = Sigma(heard', Kinds)
  BY <1>4, <1>5, SigmaAlike
<1> QED BY <1>6, DeliberationAssumption, SigmaNat

\* A message more is counted, and none is forgotten.
LEMMA HeardGrows ==
    ASSUME heard \in [Kinds -> Nat], heard' \in [Kinds -> Nat], \A k \in Kinds : heard[k] <= heard'[k]
    PROVE  Total <= Total' /\ Total \in Nat /\ Total' \in Nat
<1>1. Total = Sigma(heard, Kinds) /\ Total \in Nat
  BY CountIs DEF Total
<1>2. Total' = Sigma(heard', Kinds) /\ Total' \in Nat
  BY TotalNext
<1>3. IsFiniteSet(Kinds) /\ \A k \in Kinds : heard[k] \in Int /\ heard'[k] \in Int /\ heard[k] <= heard'[k]
  BY DeliberationAssumption
<1> QED BY <1>1, <1>2, <1>3, SigmaOrder

\* Nobody speaks, nothing is counted.
LEMMA TotalStays ==
    ASSUME heard \in [Kinds -> Nat], UNCHANGED heard
    PROVE  Total' = Total
<1>1. Total = Sigma(heard, Kinds)
  BY CountIs DEF Total
<1>2. Total' = Sigma(heard', Kinds)
  BY TotalNext
<1> QED BY <1>1, <1>2

-----------------------------------------------------------------------------
\* TalkInv holds to begin with.
LEMMA TalkInitInv == TalkInit => TalkInv
BY DEF TalkInit, TalkInv, TalkTypes, AgreedOnSome, IdleAssessor, Levels

\* Nobody's sub-topics are agreed before two messages have been heard.
LEMMA AgreedTopics ==
    ASSUME heard \in [Kinds -> Nat]
    PROVE  ConsensusTopics # {} => Total >= 2
BY Counts DEF ConsensusTopics, Taken, Reached

\* A step that leaves the messages alone and sets one assessor.
LEMMA AssessorStep ==
    ASSUME TalkInv, UNCHANGED heard, rounds' \in Nat, early' \subseteq early,
           sentToVote' \subseteq Assessors \cup {"realtime"},
           NEW a \in Assessors, NEW r, assessor' = [assessor EXCEPT ![a] = r],
           r \in [at : {"idle", "jump", "focus", "score", "round", "increment", "vote"},
                  agreed : BOOLEAN, level : Levels, quality : {"sufficient", "middling", "low"}],
           r.agreed => Total >= 2
    PROVE  TalkInv'
BY TotalStays DEF TalkInv, TalkTypes, AgreedOnSome

\* Every step keeps TalkInv.
LEMMA TalkStep == TalkInv /\ [TalkNext]_talkVars => TalkInv'
<1> SUFFICES ASSUME TalkInv, [TalkNext]_talkVars PROVE TalkInv'
  OBVIOUS
<1>0. heard \in [Kinds -> Nat] /\ rounds \in Nat /\ early \subseteq {"INSTANT_CONSENSUS", "EARLY_TERMINATION"}
      /\ sentToVote \subseteq Assessors \cup {"realtime"}
  BY DEF TalkInv, TalkTypes
<1>1. ASSUME NEW k \in Kinds, Speak(k) PROVE TalkInv'
  <2>1. heard' \in [Kinds -> Nat] /\ \A x \in Kinds : heard[x] <= heard'[x]
    BY <1>0, <1>1 DEF Speak
  <2>2. Total <= Total' /\ Total \in Nat /\ Total' \in Nat
    BY <1>0, <2>1, HeardGrows
  <2>3. AgreedOnSome'
    BY <1>1, <2>2 DEF Speak, TalkInv, AgreedOnSome
  <2>4. early' \subseteq {"INSTANT_CONSENSUS", "EARLY_TERMINATION"}
    BY <1>0, <1>1 DEF Speak
  <2> QED BY <1>1, <2>1, <2>3, <2>4 DEF Speak, TalkInv, TalkTypes
<1>2. ASSUME NEW found \in early, OnMessage(found) PROVE TalkInv'
  BY <1>2, TotalStays DEF OnMessage, TalkInv, TalkTypes, AgreedOnSome
<1>3. ASSUME NEW a \in Assessors,
             \/ Assess(a) \/ GetConsensusTopics(a) \/ GetFocusTopics(a)
             \/ AssessAgain(a) \/ DynamicRounds(a) \/ IncrementRound(a) \/ StartVoting(a)
      PROVE  TalkInv'
  <2> DEFINE Ats == {"idle", "jump", "focus", "score", "round", "increment", "vote"}
             Shape == [at : Ats, agreed : BOOLEAN, level : Levels, quality : {"sufficient", "middling", "low"}]
  <2>0. assessor[a] \in Shape
    BY DEF TalkInv, TalkTypes
  <2>1. UNCHANGED heard /\ early' \subseteq early
    BY <1>3 DEF Assess, GetConsensusTopics, GetFocusTopics, AssessAgain, DynamicRounds, IncrementRound, StartVoting
  <2>2. rounds' \in Nat /\ sentToVote' \subseteq Assessors \cup {"realtime"}
    BY <1>0, <1>3 DEF Assess, GetConsensusTopics, GetFocusTopics, AssessAgain, DynamicRounds, IncrementRound, StartVoting
  <2>3. ASSUME NEW to \in Ats, assessor' = [assessor EXCEPT ![a].at = to] PROVE TalkInv'
    <3> DEFINE r == [assessor[a] EXCEPT !.at = to]
    <3>1. assessor' = [assessor EXCEPT ![a] = r]
      BY <2>3
    <3>2. r \in Shape
      BY <2>0
    <3>3. r.agreed => Total >= 2
      BY <2>0 DEF TalkInv, AgreedOnSome
    <3> HIDE DEF r
    <3> QED BY <2>1, <2>2, <3>1, <3>2, <3>3, AssessorStep
  <2>4. CASE Assess(a) \/ GetFocusTopics(a) \/ DynamicRounds(a)
    BY <2>3, <2>4 DEF Assess, GetFocusTopics, DynamicRounds, Moves
  <2>5. CASE GetConsensusTopics(a)
    <3> DEFINE r == [assessor[a] EXCEPT !.at = "focus", !.agreed = ConsensusTopics # {}]
    <3>1. assessor' = [assessor EXCEPT ![a] = r]
      BY <2>5 DEF GetConsensusTopics
    <3>2. r \in Shape
      BY <2>0
    <3>3. r.agreed => Total >= 2
      BY <1>0, <2>0, AgreedTopics
    <3> HIDE DEF r
    <3> QED BY <2>1, <2>2, <3>1, <3>2, <3>3, AssessorStep
  <2>6. CASE AssessAgain(a)
    <3> DEFINE r == [assessor[a] EXCEPT !.at = "round", !.level = Consensus, !.quality = Quality]
    <3>1. assessor' = [assessor EXCEPT ![a] = r]
      BY <2>6 DEF AssessAgain
    <3>2. Consensus \in Levels /\ Quality \in {"sufficient", "middling", "low"}
      BY DEF Consensus, Quality, Levels
    <3>3. r \in Shape
      BY <2>0, <3>2
    <3>4. r.agreed => Total >= 2
      BY <2>0 DEF TalkInv, AgreedOnSome
    <3> HIDE DEF r
    <3> QED BY <2>1, <2>2, <3>1, <3>3, <3>4, AssessorStep
  <2>7. CASE IncrementRound(a) \/ StartVoting(a)
    <3>1. assessor' = [assessor EXCEPT ![a] = IdleAssessor]
      BY <2>7 DEF IncrementRound, StartVoting
    <3>2. IdleAssessor \in Shape /\ ~ IdleAssessor.agreed
      BY DEF IdleAssessor, Levels
    <3> QED BY <2>1, <2>2, <3>1, <3>2, AssessorStep
  <2> QED BY <1>3, <2>4, <2>5, <2>6, <2>7
<1>4. CASE UNCHANGED talkVars
  BY <1>4, TotalStays DEF talkVars, TalkInv, TalkTypes, AgreedOnSome
<1> QED BY <1>1, <1>2, <1>3, <1>4 DEF TalkNext

\* An assessor that has found an agreed sub-topic has read two messages at least, which nobody takes back
\* (smart_scheduler.py:65-170, consensus_jump.py:33-80, assessment.py:59-192).
THEOREM TalkInvariant == TalkSpec => []TalkInv
BY TalkInitInv, TalkStep, PTL DEF TalkSpec

\* Two stances cannot each have seven tenths.
LEMMA FocusEmpty ==
    ASSUME TalkInv, NEW a \in Assessors, assessor[a].agreed, FocusTopics = {}
    PROVE  Cardinality(Taken) = 1 /\ Total >= 2
<1>1. /\ Total \in Nat /\ \A s \in Stances : With(s) \in Nat /\ With(s) <= Total
      /\ \A s, t \in Stances : s # t => With(s) + With(t) <= Total
      /\ Total > 0 => \E s \in Stances : With(s) > 0
  BY Counts DEF TalkInv, TalkTypes
<1>2. Total >= 2
  BY DEF TalkInv, AgreedOnSome
<1>3. PICK s \in Stances : s \in Taken
  BY <1>1, <1>2 DEF Taken
<1>4. \A t \in Taken : t \in Stances /\ 10 * With(t) >= 7 * Total
  BY DEF FocusTopics, Reached, Taken
<1>5. \A t \in Taken : t = s
  BY <1>1, <1>2, <1>3, <1>4
<1>6. Taken = {s}
  BY <1>3, <1>5
<1> QED BY <1>2, <1>6, FS_Singleton

\* A discussion jumps to the vote only when all that has been said is of one stance, although the agreed sub-topics
\* and those in dispute are read one after the other while agents speak (smart_scheduler.py:148-170,236-289).
THEOREM JumpsAreUnanimous == TalkSpec => JumpIsUnanimous
<1>1. ASSUME TalkInv, [TalkNext]_talkVars, NEW a \in Assessors, GetFocusTopics(a), assessor'[a].at = "vote"
      PROVE  Cardinality(Taken) = 1 /\ Total >= 2
  <2>1. assessor[a].agreed /\ FocusTopics = {}
    BY <1>1 DEF GetFocusTopics, Moves, TalkInv, TalkTypes
  <2> QED BY <1>1, <2>1, FocusEmpty
<1>2. TalkInv /\ [TalkNext]_talkVars =>
          [\A a \in Assessors : GetFocusTopics(a) /\ assessor'[a].at = "vote"
               => Cardinality(Taken) = 1 /\ Total >= 2]_talkVars
  BY <1>1
<1> QED BY <1>2, TalkInvariant, PTL DEF TalkSpec, JumpIsUnanimous

(***************************************************************************)
(* The composition: MCWork.                                                  *)
(***************************************************************************)

\* A step of the composition is a step of one component, and the others stutter.
LEMMA WorkStep ==
    [Next]_workVars =>
        /\ [BootNext]_bootVars /\ [PipelineNext]_pipelineVars /\ [BridgeNext]_bridgeVars
        /\ [BallotNext]_ballotVars /\ [TalkNext]_talkVars
BY DEF Next, workVars, NotBootstrap, NotPipeline, NotBridge, NotBallots, NotTalk

\* The composition begins where each part may begin.
LEMMA WorkInit == Init => BootInit /\ PipelineInit /\ BridgeInit /\ BallotInit /\ TalkInit
BY DEF Init

\* The composition is each of its parts: they share no variable, and its instances only choose where each
\* begins and which of its processes move.
THEOREM WorkComposes == Spec => BootSpec /\ PipelineSpec /\ BridgeSpec /\ BallotSpec /\ TalkSpec
BY WorkInit, WorkStep, PTL DEF Spec, BootSpec, PipelineSpec, BridgeSpec, BallotSpec, TalkSpec

\* The engine, the pipeline, the bridge, the ballots and the assessors hold values of their kinds at all times.
THEOREM WorkTyped == Spec => []WorkTypes
<1>1. BootInv => BootTypes
  BY DEF BootInv
<1>2. PipelineInv => PipelineTypes
  BY DEF PipelineInv
<1>3. BridgeInv => BridgeTypes
  BY DEF BridgeInv
<1>4. BallotInv => BallotTypes
  BY DEF BallotInv
<1>5. TalkInv => TalkTypes
  BY DEF TalkInv
<1>6. BootTypes /\ PipelineTypes /\ BridgeTypes /\ BallotTypes /\ TalkTypes => WorkTypes
  BY DEF WorkTypes
<1> QED
  BY WorkComposes, BootstrapInvariant, PipelineInvariant, BridgeInvariant, BallotInvariant, TalkInvariant,
     <1>1, <1>2, <1>3, <1>4, <1>5, <1>6, PTL

==============================================================================
