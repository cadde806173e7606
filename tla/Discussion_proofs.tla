-------------------------- MODULE Discussion_proofs --------------------------
(***************************************************************************)
(* Theorems of Discussion, for every number of agents, endpoints, clients    *)
(* and callers of the scheduler, every round limit and every number of       *)
(* restarts.                                                                 *)
(***************************************************************************)
EXTENDS Discussion, FiniteSetTheorems, TLAPS

(***************************************************************************)
(* Type correctness.                                                        *)
(***************************************************************************)

\* An endpoint is a process, and so are clients and schedulers.
LEMMA ProcKinds ==
    Sockets \subseteq Procs /\ Clients \subseteq Procs /\ Schedulers \subseteq Procs
BY DEF Procs

\* Reading in StateMachine.transition keeps the types, whoever reads.
LEMMA TransitionReadType ==
    ASSUME TypeOK, NEW p \in Procs, NEW event, NEW after \in Labels,
           TransitionRead(p, event, after)
    PROVE  TypeOK'
<1>1. CASE \E s \in Statuses :
             /\ Leads(event, s)
             /\ target' = [target EXCEPT ![p] = s]
             /\ Goto(p, after)
  BY <1>1 DEF TransitionRead, TypeOK, motion, Goto
<1>2. CASE Goto(p, "idle") /\ UNCHANGED target
  BY <1>2 DEF TransitionRead, TypeOK, motion, Goto, Labels, SocketLabels
<1> QED
  BY <1>1, <1>2 DEF TransitionRead

\* The initial state has the right types.
LEMMA InitType == Init => TypeOK
BY BoundsAssumption DEF Init, TypeOK, Statuses, Labels, SocketLabels

\* Every step of a suspended endpoint keeps the types.
LEMMA SocketStepType ==
    ASSUME TypeOK, NEW w \in Sockets, SocketStep(w)
    PROVE  TypeOK'
<1> USE ProcKinds
<1>1. CASE AddMessage(w)
  <2>1. PICK r \in SpeakRounds : spoken' = spoken \cup {<<Owner[w], r>>}
    BY <1>1 DEF AddMessage
  <2>2. Owner[w] \in Agents
    BY OwnerAssumption
  <2> QED
    BY <1>1, <2>1, <2>2
    DEF AddMessage, TypeOK, locals, Goto, Labels, SocketLabels
<1>2. CASE AssessRead(w)
  BY <1>2 DEF AssessRead, TypeOK, motion, Goto, Labels, SocketLabels
<1>3. CASE CollectRound(w)
  BY <1>3 DEF CollectRound, TypeOK, motion, Goto, Labels, SocketLabels
<1>4. CASE NextRound(w)
  BY <1>4 DEF NextRound, TypeOK, motion, locals, Goto, Labels, SocketLabels
<1>5. CASE Advance(w)
  BY <1>5, TransitionReadType DEF Advance, Labels, SocketLabels
<1>6. CASE AdvanceWrite(w)
  BY <1>6 DEF AdvanceWrite, TypeOK, Goto, Labels, SocketLabels, Statuses
<1>7. CASE HasVoted(w)
  BY <1>7 DEF HasVoted, TypeOK, motion, locals, Goto, Labels, SocketLabels
<1>8. CASE AddVote(w)
  <2>1. Owner[w] \in Agents
    BY OwnerAssumption
  <2> QED
    BY <1>8, <2>1 DEF AddVote, TypeOK, locals, Goto, Labels, SocketLabels
<1>9. CASE Snapshot(w)
  BY <1>9 DEF Snapshot, TypeOK, motion, Goto, Labels, SocketLabels
<1>10. CASE CheckOne(w)
  BY <1>10 DEF CheckOne, TypeOK, motion, Goto, Labels, SocketLabels
<1>11. CASE Close(w)
  BY <1>11, TransitionReadType DEF Close, Labels
<1> QED
  BY <1>1, <1>2, <1>3, <1>4, <1>5, <1>6, <1>7, <1>8, <1>9, <1>10, <1>11
  DEF SocketStep

\* So does every message and connection event.
LEMMA SocketInputType ==
    ASSUME TypeOK, NEW w \in Sockets, SocketInput(w)
    PROVE  TypeOK'
<1> USE ProcKinds, OwnerAssumption
<1>1. CASE CanSpeak(w)
  BY <1>1 DEF CanSpeak, TypeOK, motion, locals, Goto, Labels, SocketLabels
<1>2. CASE DevilsAdvocateResponse(w)
  BY <1>2 DEF DevilsAdvocateResponse, TypeOK, locals
<1>3. CASE CanVote(w)
  BY <1>3 DEF CanVote, TypeOK, motion, locals, Goto, Labels, SocketLabels
<1>4. CASE Connect(w)
  BY <1>4 DEF Connect, SetOnline, TypeOK, motion, locals, Goto, Labels, SocketLabels
<1>5. CASE Disconnect(w)
  BY <1>5 DEF Disconnect, SetOnline, TypeOK, motion, locals, Goto, Labels,
              SocketLabels
<1>6. CASE Heartbeat(w)
  BY <1>6 DEF Heartbeat, SetOnline, TypeOK, motion, locals
<1>7. CASE MarkStale(w)
  BY <1>7 DEF MarkStale, SetOnline, TypeOK, motion, locals
<1> QED
  BY <1>1, <1>2, <1>3, <1>4, <1>5, <1>6, <1>7 DEF SocketInput

\* And so do the steps common to all processes.
LEMMA SharedStepType ==
    ASSUME TypeOK, NEW p \in Procs, SharedStep(p)
    PROVE  TypeOK'
<1>1. CASE ToVote(p)
  BY <1>1, TransitionReadType DEF ToVote, Labels
<1>2. CASE TransitionWrite(p)
  BY <1>2 DEF TransitionWrite, TypeOK, Goto, Labels, SocketLabels, Statuses
<1>3. CASE Increment(p)
  BY <1>3 DEF Increment, TypeOK, locals, Goto, Labels, SocketLabels
<1> QED
  BY <1>1, <1>2, <1>3 DEF SharedStep

\* TypeOK is inductive by itself.
LEMMA NextType == TypeOK /\ [Next]_vars => TypeOK'
<1> SUFFICES ASSUME TypeOK, [Next]_vars PROVE TypeOK'
  OBVIOUS
<1> USE ProcKinds
<1>1. ASSUME NEW w \in Sockets, SocketStep(w) \/ SocketInput(w) PROVE TypeOK'
  BY <1>1, SocketStepType, SocketInputType
<1>2. ASSUME NEW p \in Procs, SharedStep(p) PROVE TypeOK'
  BY <1>2, SharedStepType
<1>3. ASSUME NEW c \in Clients, StartMotion(c) PROVE TypeOK'
  BY <1>3, TransitionReadType DEF StartMotion, Labels
<1>4. ASSUME NEW c \in Clients, ForceVote(c) PROVE TypeOK'
  BY <1>4 DEF ForceVote, TypeOK, motion, locals, Goto, Labels
<1>5. ASSUME NEW s \in Schedulers, RunAssessment(s) PROVE TypeOK'
  BY <1>5 DEF RunAssessment, TypeOK, motion, locals, Goto, Labels
<1>6. ASSUME NEW s \in Schedulers, SchedulerNextRound(s) PROVE TypeOK'
  BY <1>6 DEF SchedulerNextRound, TypeOK, motion, locals, Goto, Labels
<1>7. CASE Crash
  BY <1>7, BoundsAssumption
  DEF Crash, TypeOK, motion, locals, Labels, SocketLabels
<1>8. CASE UNCHANGED vars
  BY <1>8 DEF vars, TypeOK
<1> QED
  BY <1>1, <1>2, <1>3, <1>4, <1>5, <1>6, <1>7, <1>8 DEF Next

\* The variables keep their types (for every value of the constants).
THEOREM TypeCorrect == Spec => []TypeOK
BY InitType, NextType, PTL DEF Spec

-----------------------------------------------------------------------------
(***************************************************************************)
(* The round bound.  RoundInv counts a decided increment as already made;    *)
(* it is inductive because a check of the limit is made by a handler that    *)
(* is not pending yet, so that at that moment at most all drivers pend.      *)
(***************************************************************************)

\* Only endpoints and schedulers ever decide on a round.
ClientsStartAndForce ==
    \A c \in Clients : pc[c] \in {"idle", "to_vote", "write"}

\* A read of transition moves one process, to its next label or back to rest.
LEMMA TransitionReadMoves ==
    ASSUME TypeOK, NEW p \in Procs, NEW event, NEW after,
           TransitionRead(p, event, after)
    PROVE  /\ pc' = [pc EXCEPT ![p] = after] \/ pc' = [pc EXCEPT ![p] = "idle"]
           /\ round' = round
BY DEF TransitionRead, Goto, motion

\* Clients never leave their three labels.
LEMMA ClientLabels ==
    ASSUME TypeOK, ClientsStartAndForce, [Next]_vars
    PROVE  ClientsStartAndForce'
<1> USE ProcKinds, ProcsAssumption DEF ClientsStartAndForce
<1>1. ASSUME NEW w \in Sockets, SocketStep(w) \/ SocketInput(w)
      PROVE  \A c \in Clients : pc'[c] = pc[c]
  <2>1. CASE SocketStep(w)
    <3>1. \E l \in Labels : pc' = [pc EXCEPT ![w] = l]
      <4>1. CASE Advance(w) \/ Close(w)
        BY <4>1, TransitionReadMoves DEF Advance, Close, Labels, SocketLabels
      <4>2. CASE AddMessage(w) \/ AssessRead(w) \/ CollectRound(w) \/ NextRound(w)
        BY <4>2 DEF AddMessage, AssessRead, CollectRound, NextRound, Goto,
                    Labels, SocketLabels
      <4>3. CASE AdvanceWrite(w) \/ HasVoted(w) \/ AddVote(w)
        BY <4>3 DEF AdvanceWrite, HasVoted, AddVote, Goto, Labels, SocketLabels
      <4>4. CASE Snapshot(w) \/ CheckOne(w)
        BY <4>4 DEF Snapshot, CheckOne, Goto, Labels, SocketLabels
      <4> QED
        BY <2>1, <4>1, <4>2, <4>3, <4>4 DEF SocketStep
    <3> QED
      BY <3>1 DEF TypeOK
  <2>2. CASE SocketInput(w)
    BY <2>2 DEF SocketInput, CanSpeak, DevilsAdvocateResponse, CanVote, Connect,
                Disconnect, Heartbeat, MarkStale, Goto, TypeOK
  <2> QED
    BY <1>1, <2>1, <2>2
<1>2. ASSUME NEW p \in Procs, SharedStep(p) PROVE ClientsStartAndForce'
  <2>1. CASE ToVote(p)
    BY <2>1, TransitionReadMoves DEF ToVote, TypeOK
  <2>2. CASE TransitionWrite(p) \/ Increment(p)
    BY <2>2 DEF TransitionWrite, Increment, Goto, TypeOK
  <2> QED
    BY <1>2, <2>1, <2>2 DEF SharedStep
<1>3. ASSUME NEW c \in Clients, StartMotion(c) \/ ForceVote(c)
      PROVE  ClientsStartAndForce'
  <2>1. CASE StartMotion(c)
    BY <2>1, TransitionReadMoves DEF StartMotion, TypeOK
  <2>2. CASE ForceVote(c)
    BY <2>2 DEF ForceVote, Goto, TypeOK
  <2> QED
    BY <1>3, <2>1, <2>2
<1>4. ASSUME NEW s \in Schedulers, RunAssessment(s) \/ SchedulerNextRound(s)
      PROVE  ClientsStartAndForce'
  BY <1>4 DEF RunAssessment, SchedulerNextRound, Goto, TypeOK
<1>5. CASE Crash
  BY <1>5 DEF Crash
<1>6. CASE UNCHANGED vars
  BY <1>6 DEF vars
<1> QED
  BY <1>1, <1>2, <1>3, <1>4, <1>5, <1>6 DEF Next

\* What one step may do to the round and to the increments under way.
LEMMA RoundSteps ==
    ASSUME TypeOK, [Next]_vars
    PROVE  \/ round' = round /\ Pending' \subseteq Pending
           \/ /\ round' = round
              /\ round < Rounds \/ round < SchedulerRounds
           \/ \E p \in Pending : round' = round + 1 /\ Pending' = Pending \ {p}
<1> USE ProcKinds DEF Pending
<1> DEFINE Quiet == round' = round /\ Pending' \subseteq Pending
<1>1. ASSUME NEW w \in Sockets, SocketStep(w), ~NextRound(w) PROVE Quiet
  <2>1. CASE Advance(w)
    BY <2>1, TransitionReadMoves DEF Advance, At, TypeOK
  <2>2. CASE Close(w)
    BY <2>2, TransitionReadMoves DEF Close, At, TypeOK
  <2>3. CASE AddMessage(w) \/ AssessRead(w) \/ CollectRound(w) \/ AdvanceWrite(w)
    BY <2>3 DEF AddMessage, AssessRead, CollectRound, AdvanceWrite, Goto, At,
                motion, TypeOK
  <2>4. CASE HasVoted(w) \/ AddVote(w) \/ Snapshot(w) \/ CheckOne(w)
    BY <2>4 DEF HasVoted, AddVote, Snapshot, CheckOne, Goto, motion, TypeOK
  <2> QED
    BY <1>1, <2>1, <2>2, <2>3, <2>4 DEF SocketStep
<1>2. ASSUME NEW w \in Sockets, NextRound(w)
      PROVE  Quiet \/ (round' = round /\ round < Rounds)
  BY <1>2, BoundsAssumption DEF NextRound, Goto, motion, TypeOK
<1>3. ASSUME NEW w \in Sockets, SocketInput(w) PROVE Quiet
  BY <1>3 DEF SocketInput, CanSpeak, DevilsAdvocateResponse, CanVote, Connect,
              Disconnect, Heartbeat, MarkStale, Goto, motion, TypeOK
<1>4. ASSUME NEW p \in Procs, ToVote(p) \/ TransitionWrite(p) PROVE Quiet
  <2>1. CASE ToVote(p)
    BY <2>1, TransitionReadMoves DEF ToVote, TypeOK
  <2>2. CASE TransitionWrite(p)
    BY <2>2 DEF TransitionWrite, Goto, TypeOK
  <2> QED
    BY <1>4, <2>1, <2>2
<1>5. ASSUME NEW p \in Procs, Increment(p)
      PROVE  p \in Pending /\ round' = round + 1 /\ Pending' = Pending \ {p}
  BY <1>5 DEF Increment, At, Goto, TypeOK
<1>6. ASSUME NEW c \in Clients, StartMotion(c) \/ ForceVote(c) PROVE Quiet
  <2>1. CASE StartMotion(c)
    BY <2>1, TransitionReadMoves DEF StartMotion, TypeOK
  <2>2. CASE ForceVote(c)
    BY <2>2 DEF ForceVote, Goto, motion, TypeOK
  <2> QED
    BY <1>6, <2>1, <2>2
<1>7. ASSUME NEW s \in Schedulers, RunAssessment(s) PROVE Quiet
  BY <1>7 DEF RunAssessment, Goto, motion, TypeOK
<1>8. ASSUME NEW s \in Schedulers, SchedulerNextRound(s)
      PROVE  Quiet \/ (round' = round /\ round < SchedulerRounds)
  BY <1>8 DEF SchedulerNextRound, Goto, motion, TypeOK
<1>9. CASE Crash
  BY <1>9 DEF Crash, motion
<1>10. CASE UNCHANGED vars
  BY <1>10 DEF vars
<1> QED
  BY <1>1, <1>2, <1>3, <1>4, <1>5, <1>6, <1>7, <1>8, <1>9, <1>10
  DEF Next, SharedStep

\* The increments under way are at most as many as the drivers.
LEMMA PendingDrivers ==
    ASSUME TypeOK, ClientsStartAndForce
    PROVE  /\ IsFiniteSet(Pending)
           /\ Cardinality(Pending) \in Nat
           /\ Cardinality(Drivers) \in Nat
           /\ Cardinality(Pending) <= Cardinality(Drivers)
<1>1. Pending \subseteq Drivers
  BY DEF Pending, ClientsStartAndForce, Drivers, Procs
<1>2. IsFiniteSet(Drivers)
  BY ProcsAssumption, FS_Subset DEF Drivers, Procs
<1> QED
  BY <1>1, <1>2, FS_Subset, FS_CardinalityType

\* One step keeps the round with its pending increments under the bound.
LEMMA RoundStep ==
    ASSUME TypeOK, TypeOK', ClientsStartAndForce, ClientsStartAndForce',
           RoundInv, [Next]_vars
    PROVE  RoundInv'
<1> USE BoundsAssumption DEF RoundInv
<1> DEFINE n == Cardinality(Pending)
           d == Cardinality(Drivers)
<1>1. IsFiniteSet(Pending) /\ n \in Nat /\ d \in Nat /\ n <= d
  BY PendingDrivers
<1>2. (IsFiniteSet(Pending) /\ n \in Nat /\ n <= d)'
  <2>1. Pending' \subseteq Drivers
    BY DEF Pending, ClientsStartAndForce, Drivers, Procs
  <2>2. IsFiniteSet(Drivers)
    BY ProcsAssumption, FS_Subset DEF Drivers, Procs
  <2> QED
    BY <2>1, <2>2, FS_Subset, FS_CardinalityType
<1>3. round \in Nat /\ Cap \in Nat /\ Rounds <= Cap /\ SchedulerRounds <= Cap
  BY DEF TypeOK, Cap
<1>4. CASE round' = round /\ Pending' \subseteq Pending
  <2>1. n' <= n
    BY <1>1, <1>4, FS_Subset
  <2> QED
    BY <1>1, <1>2, <1>3, <1>4, <2>1
<1>5. CASE round' = round /\ (round < Rounds \/ round < SchedulerRounds)
  <2>1. round < Cap
    BY <1>3, <1>5
  <2> QED
    BY <1>1, <1>2, <1>3, <1>5, <2>1
<1>6. ASSUME NEW p \in Pending, round' = round + 1, Pending' = Pending \ {p}
      PROVE  RoundInv'
  <2>1. n' = n - 1
    BY <1>1, <1>6, FS_RemoveElement
  <2> QED
    BY <1>1, <1>2, <1>3, <1>6, <2>1
<1> QED
  BY <1>4, <1>5, <1>6, RoundSteps

\* The round never exceeds its limit by as many rounds as there are endpoints
\* and schedulers, whatever they interleave (ws_smart.py:187-204).
THEOREM RoundBounded == Spec => []RoundBound
<1>1. Init => TypeOK /\ ClientsStartAndForce /\ RoundInv
  <2> SUFFICES ASSUME Init PROVE TypeOK /\ ClientsStartAndForce /\ RoundInv
    OBVIOUS
  <2>1. ClientsStartAndForce
    BY ProcsAssumption, ProcKinds DEF Init, ClientsStartAndForce
  <2>2. Pending = {}
    BY DEF Init, Pending
  <2> QED
    BY <2>1, <2>2, InitType, FS_EmptySet DEF Init, RoundInv
<1>2. TypeOK /\ ClientsStartAndForce /\ RoundInv /\ [Next]_vars
        => TypeOK' /\ ClientsStartAndForce' /\ RoundInv'
  BY NextType, ClientLabels, RoundStep
<1>3. TypeOK /\ ClientsStartAndForce /\ RoundInv => RoundBound
  <2> SUFFICES ASSUME TypeOK, ClientsStartAndForce, RoundInv PROVE RoundBound
    OBVIOUS
  <2>1. round \in Nat /\ Cap \in Nat
    BY BoundsAssumption DEF TypeOK, Cap
  <2> QED
    BY <2>1, PendingDrivers DEF RoundInv, RoundBound
<1> QED
  BY <1>1, <1>2, <1>3, PTL DEF Spec

-----------------------------------------------------------------------------
(***************************************************************************)
(* The tally.  Votes are never removed, so an agent that was found to have   *)
(* voted stays a voter while the rest of the tally is looked up.             *)
(***************************************************************************)

\* Where each event of the table leads, and from where.
LEMMA EventTargets ==
    ASSUME NEW event, NEW s, Leads(event, s)
    PROVE  /\ event = "start" => status = "draft" /\ s = "discussing"
           /\ event = "start_voting" => status \in OpenToSpeech /\ s = "voting"
           /\ event = "round_complete" => s \in {"discussing", "voting"}
           /\ event = "all_voted" => status = "voting" /\ s = "closed"
BY DEF Leads, Transitions, OpenToSpeech

\* The outcome of a read in transition, in terms of the table.
LEMMA TransitionReadOutcome ==
    ASSUME TypeOK, NEW p \in Procs, NEW event, NEW after,
           TransitionRead(p, event, after)
    PROVE  /\ UNCHANGED <<status, round, spoken, votes, online, seen, tally, todo,
                          crashes>>
           /\ \/ \E s \in Statuses : /\ Leads(event, s)
                                     /\ target' = [target EXCEPT ![p] = s]
                                     /\ pc' = [pc EXCEPT ![p] = after]
              \/ /\ target' = target
                 /\ pc' = [pc EXCEPT ![p] = "idle"]
BY DEF TransitionRead, Goto, motion

\* One step keeps every tally true.
LEMMA TallyStep == TypeOK /\ TallyInv /\ [Next]_vars => TallyInv'
<1> SUFFICES ASSUME TypeOK, TallyInv, [Next]_vars PROVE TallyInv'
  OBVIOUS
<1> USE ProcKinds, ProcsAssumption DEF TallyInv, TypeOK
<1>1. ASSUME NEW p \in Procs, NEW event, NEW after,
             TransitionRead(p, event, after),
             event \in {"start", "start_voting", "round_complete"},
             after \in {"write", "write_round"}
      PROVE  TallyInv'
  BY <1>1, EventTargets, TransitionReadOutcome
<1>2. ASSUME NEW w \in Sockets, SocketStep(w) PROVE TallyInv'
  <2>1. CASE AddMessage(w) \/ AssessRead(w) \/ CollectRound(w) \/ NextRound(w)
    BY <2>1 DEF AddMessage, AssessRead, CollectRound, NextRound, Goto, motion, locals
  <2>2. CASE Advance(w)
    BY <2>2, <1>1 DEF Advance
  <2>3. CASE AdvanceWrite(w) \/ HasVoted(w)
    BY <2>3 DEF AdvanceWrite, HasVoted, Goto, motion, locals
  <2>4. CASE AddVote(w)
    BY <2>4 DEF AddVote, Goto, locals
  <2>5. CASE Snapshot(w)
    BY <2>5 DEF Snapshot, Goto, motion
  <2>6. CASE CheckOne(w)
    BY <2>6 DEF CheckOne, Goto, At, motion
  <2>7. CASE Close(w)
    BY <2>7, TransitionReadOutcome DEF Close, At
  <2> QED
    BY <1>2, <2>1, <2>2, <2>3, <2>4, <2>5, <2>6, <2>7 DEF SocketStep
<1>3. ASSUME NEW w \in Sockets, SocketInput(w) PROVE TallyInv'
  BY <1>3 DEF SocketInput, CanSpeak, DevilsAdvocateResponse, CanVote, Connect,
              Disconnect, Heartbeat, MarkStale, Goto, motion, locals
<1>4. ASSUME NEW p \in Procs, SharedStep(p) PROVE TallyInv'
  <2>1. CASE ToVote(p)
    BY <2>1, <1>1 DEF ToVote
  <2>2. CASE TransitionWrite(p) \/ Increment(p)
    BY <2>2 DEF TransitionWrite, Increment, Goto, locals
  <2> QED
    BY <1>4, <2>1, <2>2 DEF SharedStep
<1>5. ASSUME NEW c \in Clients, StartMotion(c) \/ ForceVote(c) PROVE TallyInv'
  <2>1. CASE StartMotion(c)
    BY <2>1, <1>1 DEF StartMotion
  <2>2. CASE ForceVote(c)
    BY <2>2 DEF ForceVote, Goto, motion, locals
  <2> QED
    BY <1>5, <2>1, <2>2
<1>6. ASSUME NEW s \in Schedulers, RunAssessment(s) \/ SchedulerNextRound(s)
      PROVE  TallyInv'
  BY <1>6 DEF RunAssessment, SchedulerNextRound, Goto, motion, locals
<1>7. CASE Crash
  BY <1>7 DEF Crash, motion, locals
<1>8. CASE UNCHANGED vars
  BY <1>8 DEF vars
<1> QED
  BY <1>2, <1>3, <1>4, <1>5, <1>6, <1>7, <1>8 DEF Next

\* A motion is only closed on a non-empty tally all of which has voted,
\* although votes and presence change while the tally is taken.
THEOREM TallyFull == Spec => []ClosedOnFullTally
<1>1. Init => TypeOK /\ TallyInv
  BY InitType, ProcKinds DEF Init, TallyInv
<1>2. TypeOK /\ TallyInv => ClosedOnFullTally
  BY DEF TallyInv, ClosedOnFullTally
<1> QED
  BY <1>1, <1>2, NextType, TallyStep, PTL DEF Spec

\* One step keeps CloserInv: the only read that leads to closed is the one at
\* the end of a full tally, which has a voter.
LEMMA CloserStep ==
    TypeOK /\ TallyInv /\ CloserInv /\ [Next]_vars => CloserInv'
<1> SUFFICES ASSUME TypeOK, TallyInv, CloserInv, [Next]_vars PROVE CloserInv'
  OBVIOUS
<1> USE ProcKinds, ProcsAssumption DEF CloserInv, NeverClosedUnvoted, TypeOK
<1>1. ASSUME NEW p \in Procs, NEW event, NEW after,
             TransitionRead(p, event, after),
             event \in {"start", "start_voting", "round_complete"}
      PROVE  CloserInv'
  BY <1>1, EventTargets, TransitionReadOutcome
<1>2. ASSUME NEW w \in Sockets, SocketStep(w) PROVE CloserInv'
  <2>1. CASE AddMessage(w) \/ AssessRead(w) \/ CollectRound(w) \/ NextRound(w)
    BY <2>1 DEF AddMessage, AssessRead, CollectRound, NextRound, Goto, motion, locals
  <2>2. CASE Advance(w)
    BY <2>2, <1>1 DEF Advance
  <2>3. CASE AdvanceWrite(w) \/ HasVoted(w)
    BY <2>3 DEF AdvanceWrite, HasVoted, At, Goto, motion, locals
  <2>4. CASE AddVote(w)
    BY <2>4 DEF AddVote, Goto, locals
  <2>5. CASE Snapshot(w) \/ CheckOne(w)
    BY <2>5 DEF Snapshot, CheckOne, Goto, motion
  <2>6. CASE Close(w)
    <3>1. votes # {}
      BY <2>6 DEF Close, At, TallyInv
    <3> QED
      BY <2>6, <3>1, TransitionReadOutcome DEF Close
  <2> QED
    BY <1>2, <2>1, <2>2, <2>3, <2>4, <2>5, <2>6 DEF SocketStep
<1>3. ASSUME NEW w \in Sockets, SocketInput(w) PROVE CloserInv'
  BY <1>3 DEF SocketInput, CanSpeak, DevilsAdvocateResponse, CanVote, Connect,
              Disconnect, Heartbeat, MarkStale, Goto, motion, locals
<1>4. ASSUME NEW p \in Procs, SharedStep(p) PROVE CloserInv'
  <2>1. CASE ToVote(p)
    BY <2>1, <1>1 DEF ToVote
  <2>2. CASE TransitionWrite(p)
    BY <2>2 DEF TransitionWrite, At, Goto
  <2>3. CASE Increment(p)
    BY <2>3 DEF Increment, Goto, locals
  <2> QED
    BY <1>4, <2>1, <2>2, <2>3 DEF SharedStep
<1>5. ASSUME NEW c \in Clients, StartMotion(c) \/ ForceVote(c) PROVE CloserInv'
  <2>1. CASE StartMotion(c)
    BY <2>1, <1>1 DEF StartMotion
  <2>2. CASE ForceVote(c)
    BY <2>2 DEF ForceVote, Goto, motion, locals
  <2> QED
    BY <1>5, <2>1, <2>2
<1>6. ASSUME NEW s \in Schedulers, RunAssessment(s) \/ SchedulerNextRound(s)
      PROVE  CloserInv'
  BY <1>6 DEF RunAssessment, SchedulerNextRound, Goto, motion, locals
<1>7. CASE Crash
  BY <1>7 DEF Crash, motion, locals
<1>8. CASE UNCHANGED vars
  BY <1>8 DEF vars
<1> QED
  BY <1>2, <1>3, <1>4, <1>5, <1>6, <1>7, <1>8 DEF Next

\* No interleaving of requests, votes and restarts closes a motion nobody has
\* voted on.
THEOREM ClosedHasVotes == Spec => []NeverClosedUnvoted
<1>1. Init => TypeOK /\ TallyInv /\ CloserInv
  BY InitType, ProcKinds DEF Init, TallyInv, CloserInv, NeverClosedUnvoted
<1>2. TypeOK /\ TallyInv /\ CloserInv /\ [Next]_vars
        => TypeOK' /\ TallyInv' /\ CloserInv'
  BY NextType, TallyStep, CloserStep
<1>3. CloserInv => NeverClosedUnvoted
  BY DEF CloserInv
<1> QED
  BY <1>1, <1>2, <1>3, PTL DEF Spec

(***************************************************************************)
(* Discussion implements MotionHandlers, for every number of endpoints,     *)
(* clients and schedulers: a read in transition is a Decide, a write of the  *)
(* status an Apply, can_vote an Admit and add_vote a Settle.                 *)
(***************************************************************************)

\* What an event makes of the status that is read is in the table, and closes
\* the motion only when all have voted.
LEMMA LeadsInTable ==
    ASSUME NEW event, NEW s, Leads(event, s)
    PROVE  /\ \E t \in Transitions : t[1] = status /\ t[3] = s
           /\ s = "closed" => event \in {"all_voted", "force_close"}
           /\ s # "none"
BY DEF Leads, Transitions

\* Reading in transition is a decision of MotionHandlers, or changes nothing
\* that it sees.
LEMMA ReadDecides ==
    ASSUME TypeOK, NEW p \in Procs, NEW event, NEW after \in {"write", "write_round"},
           pc[p] \notin {"write", "write_round", "has_voted", "add_vote"},
           event \in {"start", "start_voting", "round_complete"} \/ votes # {},
           TransitionRead(p, event, after)
    PROVE  Handling!Decide(p) \/ UNCHANGED <<status, votes, Decided, Admitted>>
<1> USE ProcKinds DEF TypeOK
<1>1. UNCHANGED <<status, votes>>
  BY TransitionReadOutcome
<1>2. PICK place \in {after, "idle"} : pc' = [pc EXCEPT ![p] = place]
  BY TransitionReadOutcome
<1>3. Admitted' = Admitted
  BY <1>2 DEF Admitted
<1>4. CASE pc' = [pc EXCEPT ![p] = after] /\ \E s \in Statuses : Leads(event, s) /\ target' = [target EXCEPT ![p] = s]
  <2>1. PICK s \in Statuses : Leads(event, s) /\ target' = [target EXCEPT ![p] = s]
    BY <1>4
  <2>2. \E t \in Handling!Transitions : t[1] = status /\ t[3] = s
    BY <2>1, LeadsInTable DEF Handling!Transitions, Transitions
  <2>3. s = "closed" => votes # {}
    BY <2>1, LeadsInTable
  <2>4. Decided[p] = "none" /\ Decided' = [Decided EXCEPT ![p] = s]
    BY <1>4, <2>1 DEF Decided
  <2> QED
    BY <1>1, <1>3, <2>2, <2>3, <2>4 DEF Handling!Decide
<1>5. CASE pc' = [pc EXCEPT ![p] = "idle"] /\ target' = target
  <2>1. Decided' = Decided
    BY <1>5 DEF Decided
  <2> QED
    BY <1>1, <1>3, <2>1
<1> QED
  BY <1>4, <1>5, TransitionReadOutcome

\* A step between two places that MotionHandlers does not see.
LEMMA UnseenMove ==
    ASSUME TypeOK, NEW p \in Procs, NEW place \in Labels,
           place \notin {"write", "write_round", "has_voted", "add_vote"},
           pc[p] \notin {"write", "write_round", "has_voted", "add_vote"},
           pc' = [pc EXCEPT ![p] = place],
           UNCHANGED <<status, votes, target>>
    PROVE  UNCHANGED <<status, votes, Decided, Admitted>>
<1>1. Decided' = Decided
  BY ProcKinds DEF TypeOK, Decided
<1>2. Admitted' = Admitted
  BY ProcKinds DEF TypeOK, Admitted
<1> QED
  BY <1>1, <1>2

\* Writing the status is applying what was decided, once.
LEMMA WriteApplies ==
    ASSUME TypeOK, NEW p \in Procs, NEW place \in {"idle", "increment"},
           pc[p] \in {"write", "write_round"},
           status' = target[p], target' = [target EXCEPT ![p] = "draft"],
           pc' = [pc EXCEPT ![p] = place], UNCHANGED votes
    PROVE  Handling!Apply(p)
<1> USE ProcKinds DEF TypeOK
<1>1. Decided[p] = target[p] /\ target[p] # "none"
  BY DEF Decided, Statuses
<1>2. Decided' = [Decided EXCEPT ![p] = "none"]
  BY DEF Decided
<1>3. Admitted' = Admitted
  BY DEF Admitted
<1> QED
  BY <1>1, <1>2, <1>3 DEF Handling!Apply

\* Every step of the program is a step of MotionHandlers, or none.
LEMMA HandlingStep ==
    ASSUME TypeOK, TallyInv, [Next]_vars
    PROVE  [Handling!Next]_<<status, votes, Decided, Admitted>>
<1> USE ProcKinds, ProcsAssumption
<1> DEFINE Unseen == UNCHANGED <<status, votes, Decided, Admitted>>
           Known == Handling!Next \/ Unseen
<1>1. ASSUME NEW p \in Procs, Handling!Decide(p) \/ Handling!Apply(p) PROVE Known
  BY <1>1 DEF Handling!Next
<1>2. ASSUME NEW w \in Sockets, SocketStep(w) PROVE Known
  <2>0. w \in Procs /\ pc \in [Procs -> Labels] /\ target \in [Procs -> Statuses]
    BY DEF TypeOK
  <2>1. CASE AddMessage(w) \/ AssessRead(w) \/ CollectRound(w) \/ NextRound(w)
             \/ Snapshot(w) \/ CheckOne(w)
    <3>1. /\ pc[w] \in {"add", "assess", "collect", "next_round", "snapshot", "check"}
          /\ UNCHANGED <<status, votes, target>>
          /\ \E place \in {"idle", "assess", "collect", "to_vote", "next_round", "advance",
                           "check", "close"} : pc' = [pc EXCEPT ![w] = place]
      BY <2>1, <2>0 DEF AddMessage, AssessRead, CollectRound, NextRound, Snapshot, CheckOne,
                        At, Goto, motion, locals
    <3> QED
      BY <3>1, <2>0, UnseenMove DEF Labels, SocketLabels
  <2>2. CASE Advance(w)
    BY <2>2, <2>0, <1>1, ReadDecides DEF Advance, At
  <2>3. CASE AdvanceWrite(w)
    BY <2>3, <2>0, <1>1, WriteApplies DEF AdvanceWrite, At, Goto
  <2>4. CASE Close(w)
    <3>1. votes # {} /\ pc[w] = "close"
      BY <2>4 DEF Close, At, TallyInv
    <3> QED
      BY <2>4, <2>0, <3>1, <1>1, ReadDecides DEF Close
  <2>5. CASE HasVoted(w)
    <3>1. PICK place \in {"idle", "add_vote"} : pc' = [pc EXCEPT ![w] = place]
      BY <2>5 DEF HasVoted, Goto
    <3>2. pc[w] = "has_voted" /\ UNCHANGED <<status, votes, target>>
      BY <2>5 DEF HasVoted, At, motion, locals
    <3>3. Decided' = Decided
      BY <3>1, <3>2, <2>0 DEF Decided
    <3>4. CASE place = "add_vote"
      <4>1. Admitted' = Admitted
        BY <3>1, <3>2, <3>4, <2>0 DEF Admitted
      <4> QED
        BY <3>2, <3>3, <4>1
    <3>5. CASE place = "idle"
      <4>1. w \in Admitted /\ Admitted' = Admitted \ {w}
        BY <3>1, <3>2, <3>5, <2>0 DEF Admitted
      <4>2. Handling!Settle(w)
        BY <3>2, <3>3, <4>1 DEF Handling!Settle
      <4> QED
        BY <4>2 DEF Handling!Next
    <3> QED
      BY <3>4, <3>5
  <2>6. CASE AddVote(w)
    <3>1. PICK place \in {"drop", "snapshot"} : pc' = [pc EXCEPT ![w] = place]
      BY <2>6 DEF AddVote, Goto
    <3>2. /\ pc[w] = "add_vote" /\ UNCHANGED <<status, target>>
          /\ votes' = votes \cup {Owner[w]}
      BY <2>6 DEF AddVote, At, locals
    <3>3. Decided' = Decided
      BY <3>1, <3>2, <2>0 DEF Decided
    <3>4. w \in Admitted /\ Admitted' = Admitted \ {w}
      BY <3>1, <3>2, <2>0 DEF Admitted
    <3>5. Handling!Settle(w)
      BY <3>2, <3>3, <3>4 DEF Handling!Settle
    <3> QED
      BY <3>5 DEF Handling!Next
  <2> QED
    BY <1>2, <2>1, <2>2, <2>3, <2>4, <2>5, <2>6 DEF SocketStep
<1>3. ASSUME NEW w \in Sockets, SocketInput(w) PROVE Known
  <2>0. w \in Procs /\ pc \in [Procs -> Labels] /\ target \in [Procs -> Statuses]
    BY DEF TypeOK
  <2>1. CASE CanVote(w)
    <3>1. /\ pc[w] = "idle" /\ pc' = [pc EXCEPT ![w] = "has_voted"]
          /\ status = "voting" /\ UNCHANGED <<status, votes, target>>
      BY <2>1 DEF CanVote, At, Goto, motion, locals
    <3>2. Decided' = Decided
      BY <3>1, <2>0 DEF Decided
    <3>3. Admitted' = Admitted \cup {w}
      BY <3>1, <2>0 DEF Admitted
    <3>4. Handling!Admit(w)
      BY <3>1, <3>2, <3>3 DEF Handling!Admit
    <3> QED
      BY <3>4 DEF Handling!Next
  <2>2. CASE CanSpeak(w) \/ Connect(w) \/ Disconnect(w)
    <3>1. /\ pc[w] \in {"idle", "gone", "drop"} /\ UNCHANGED <<status, votes, target>>
          /\ \E place \in {"add", "idle", "gone"} : pc' = [pc EXCEPT ![w] = place]
      BY <2>2 DEF CanSpeak, Connect, Disconnect, At, Goto, motion, locals
    <3> QED
      BY <3>1, <2>0, UnseenMove DEF Labels, SocketLabels
  <2>3. CASE DevilsAdvocateResponse(w) \/ Heartbeat(w) \/ MarkStale(w)
    <3>1. UNCHANGED <<status, votes, pc, target>>
      BY <2>3 DEF DevilsAdvocateResponse, Heartbeat, MarkStale, motion, locals
    <3> QED
      BY <3>1 DEF Decided, Admitted
  <2> QED
    BY <1>3, <2>1, <2>2, <2>3 DEF SocketInput
<1>4. ASSUME NEW p \in Procs, SharedStep(p) PROVE Known
  <2>0. pc \in [Procs -> Labels] /\ target \in [Procs -> Statuses]
    BY DEF TypeOK
  <2>1. CASE ToVote(p)
    BY <2>1, <1>1, ReadDecides DEF ToVote, At
  <2>2. CASE TransitionWrite(p)
    BY <2>2, <1>1, WriteApplies DEF TransitionWrite, At, Goto
  <2>3. CASE Increment(p)
    <3>1. /\ pc[p] = "increment" /\ pc' = [pc EXCEPT ![p] = "idle"]
          /\ UNCHANGED <<status, votes, target>>
      BY <2>3 DEF Increment, At, Goto, locals
    <3> QED
      BY <3>1, UnseenMove DEF Labels, SocketLabels
  <2> QED
    BY <1>4, <2>1, <2>2, <2>3 DEF SharedStep
<1>5. ASSUME NEW c \in Clients, StartMotion(c) \/ ForceVote(c) PROVE Known
  <2>0. c \in Procs
    OBVIOUS
  <2>1. CASE StartMotion(c)
    BY <2>1, <2>0, <1>1, ReadDecides DEF StartMotion, At
  <2>2. CASE ForceVote(c)
    <3>1. /\ pc[c] = "idle" /\ pc' = [pc EXCEPT ![c] = "to_vote"]
          /\ UNCHANGED <<status, votes, target>>
      BY <2>2 DEF ForceVote, At, Goto, motion, locals
    <3> QED
      BY <3>1, <2>0, UnseenMove DEF Labels, SocketLabels
  <2> QED
    BY <1>5, <2>1, <2>2
<1>6. ASSUME NEW s \in Schedulers, RunAssessment(s) \/ SchedulerNextRound(s) PROVE Known
  <2>1. /\ s \in Procs /\ pc[s] \in {"idle", "next_round"} /\ UNCHANGED <<status, votes, target>>
        /\ \E place \in {"to_vote", "next_round", "increment"} : pc' = [pc EXCEPT ![s] = place]
    BY <1>6 DEF RunAssessment, SchedulerNextRound, At, Goto, motion, locals
  <2> QED
    BY <2>1, UnseenMove DEF Labels, SocketLabels
<1>7. CASE Crash
  <2>1. UNCHANGED <<status, votes>>
    BY <1>7 DEF Crash, motion
  <2>2. pc' = [p \in Procs |-> IF p \in Sockets THEN "gone" ELSE "idle"]
    BY <1>7 DEF Crash
  <2>3. Decided' = [p \in Procs |-> "none"] /\ Admitted' = {}
    BY <2>2 DEF Decided, Admitted
  <2>4. Handling!Restart
    BY <2>1, <2>3 DEF Handling!Restart
  <2> QED
    BY <2>4 DEF Handling!Next
<1>8. CASE UNCHANGED vars
  BY <1>8 DEF vars, Decided, Admitted
<1>9. Known
  BY <1>2, <1>3, <1>4, <1>5, <1>6, <1>7, <1>8 DEF Next
<1> QED
  BY <1>9

\* However many clients and schedulers work on a motion, and whatever restarts
\* come between: each status that is written was decided by the table on a
\* status the same handler read, and is written once; only votes close; each
\* vote was admitted while the vote was open, and stays (state.py:56-99).
THEOREM ImplementsHandlers == Spec => HandlersDecide
<1>1. Init => TypeOK /\ TallyInv /\ Handling!Init
  <2> SUFFICES ASSUME Init PROVE TypeOK /\ TallyInv /\ Handling!Init
    OBVIOUS
  <2>1. TypeOK /\ TallyInv
    BY InitType, ProcKinds DEF Init, TallyInv
  <2>2. Decided = [p \in Procs |-> "none"] /\ Admitted = {}
    BY ProcKinds DEF Init, Decided, Admitted
  <2> QED
    BY <2>1, <2>2 DEF Init, Handling!Init
<1>2. TypeOK /\ TallyInv /\ [Next]_vars => TypeOK' /\ TallyInv'
  BY NextType, TallyStep
<1>3. TypeOK /\ TallyInv /\ [Next]_vars
        => [Handling!Next]_<<status, votes, Decided, Admitted>>
  BY HandlingStep
<1> QED
  BY <1>1, <1>2, <1>3, PTL DEF Spec, HandlersDecide, Handling!Spec, Handling!handlingVars

==============================================================================
