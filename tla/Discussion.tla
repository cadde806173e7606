----------------------------- MODULE Discussion ------------------------------
(***************************************************************************)
(* One motion of the Agora coordinator, from its creation to its closing,   *)
(* at the granularity of asyncio: a handler is a sequence of storage calls,  *)
(* each call commits on a connection of its own, and between two calls any    *)
(* other handler may run.  Motions share no state, so one motion is enough.   *)
(*                                                                          *)
(* The processes are the WebSocket endpoints (Sockets, one handler at a time *)
(* each), the clients of the REST API (Clients), and the callers of          *)
(* SmartDiscussionScheduler.run_assessment (Schedulers; the shipped program  *)
(* has none, a program that embeds the scheduler does).                      *)
(***************************************************************************)
EXTENDS MotionTable, Naturals, FiniteSets

CONSTANTS
    Agents,          \* registered agents
    Sockets,         \* WebSocket endpoints
    Owner,           \* the agent each endpoint serves
    Flaky,           \* endpoints whose connection may break at any time
    Clients,         \* REST clients, each sending one request at a time
    ClientCalls,     \* the requests they send, of "start" and "force_vote"
    Schedulers,      \* callers of run_assessment
    Rounds,          \* motion["rounds"]
    SchedulerRounds, \* the larger of the scheduler's dynamic_min/max_rounds
    SpeakRounds,     \* the round numbers agents put in a message
    MaxCrashes       \* bound: restarts of the coordinator

Procs == Sockets \cup Clients \cup Schedulers

ASSUME ProcsAssumption ==
    /\ IsFiniteSet(Procs)
    /\ Sockets \cap Clients = {}
    /\ (Sockets \cup Clients) \cap Schedulers = {}
    /\ Flaky \subseteq Sockets

ASSUME OwnerAssumption == Owner \in [Sockets -> Agents]

ASSUME CallsAssumption == ClientCalls \subseteq {"start", "force_vote"}

ASSUME BoundsAssumption ==
    /\ Rounds \in Nat
    /\ SchedulerRounds \in Nat
    /\ SpeakRounds \subseteq Nat
    /\ MaxCrashes \in Nat

VARIABLES
    status,   \* motions.status
    round,    \* motions.current_round
    spoken,   \* messages: the pairs <<agent_id, round_num>>
    votes,    \* votes: the agents that have a row (UNIQUE(motion, agent))
    online,   \* agents.is_online
    pc,       \* where each process is suspended
    target,   \* StateMachine.transition: new_status, between read and write
    seen,     \* maybe_assess_round: the current_round it read
    tally,    \* _check_all_voted: online_agents
    todo,     \* _check_all_voted: those of tally not looked at yet
    crashes   \* restarts so far

motion == <<status, round, spoken, votes>>
locals == <<target, seen, tally, todo>>
vars == <<status, round, spoken, votes, online, pc, target, seen, tally, todo,
          crashes>>

SocketLabels == {"gone", "idle", "add", "assess", "collect", "advance",
                 "write_round", "has_voted", "add_vote", "drop", "snapshot",
                 "check", "close"}
Labels == SocketLabels \cup {"to_vote", "write", "next_round", "increment"}

AllSpoke(r) == \A a \in Agents : <<a, r>> \in spoken

\* create_motion, agents registered over REST (is_online is set by the
\* registration itself) and nobody connected yet.
Init ==
    /\ status = "draft"
    /\ round = 0
    /\ spoken = {}
    /\ votes = {}
    /\ online = [a \in Agents |-> TRUE]
    /\ pc = [p \in Procs |-> IF p \in Sockets THEN "gone" ELSE "idle"]
    /\ target = [p \in Procs |-> "draft"]
    /\ seen = [w \in Sockets |-> 0]
    /\ tally = [w \in Sockets |-> {}]
    /\ todo = [w \in Sockets |-> {}]
    /\ crashes = 0

Goto(p, label) == pc' = [pc EXCEPT ![p] = label]
At(p, label) == pc[p] = label

-----------------------------------------------------------------------------
(* StateMachine.transition: get_motion and the table in one step, the       *)
(* update in another, with no lock and no re-check between them.             *)

\* MUTANT of Leads: exhausted rounds close the motion.
LeadsExhaustedCloses(event, s) ==
    IF status = "discussing" /\ event = "round_complete"
      THEN s = IF round >= Rounds THEN "closed" ELSE "discussing"
      ELSE <<status, event, s>> \in Transitions

\* The new status that an event gives the motion as it is now, if any.
Leads(event, s) ==
    IF status = "discussing" /\ event = "round_complete"
      THEN s = IF round >= Rounds THEN "voting" ELSE "discussing"
      ELSE <<status, event, s>> \in Transitions

TransitionRead(p, event, after) ==
    /\ \/ \E s \in Statuses :
             /\ Leads(event, s)
             /\ target' = [target EXCEPT ![p] = s]
             /\ Goto(p, after)
       \/ /\ \A s \in Statuses : ~Leads(event, s)   \* InvalidTransitionError
          /\ Goto(p, "idle")
          /\ UNCHANGED target
    /\ UNCHANGED <<motion, online, seen, tally, todo, crashes>>

\* MUTANT of TransitionWrite: the event is stored in place of the status.
TransitionWriteEvent(p) ==
    /\ At(p, "write")
    /\ status' = "start_voting"
    /\ Goto(p, "idle")
    /\ UNCHANGED <<round, spoken, votes, online, locals, crashes>>

\* update_motion_status, as the last storage call of a handler.
TransitionWrite(p) ==
    /\ At(p, "write")
    /\ status' = target[p]
    /\ target' = [target EXCEPT ![p] = "draft"]
    /\ Goto(p, "idle")
    /\ UNCHANGED <<round, spoken, votes, online, seen, tally, todo, crashes>>

\* _transition_to_voting, force_vote: the "start_voting" event.
ToVote(p) == At(p, "to_vote") /\ TransitionRead(p, "start_voting", "write")

-----------------------------------------------------------------------------
(* SPEAK and the round logic behind it.                                     *)

CanSpeak(w) ==
    /\ At(w, "idle")
    /\ status \in OpenToSpeech
    /\ Goto(w, "add")
    /\ UNCHANGED <<motion, online, locals, crashes>>

AddMessage(w) ==
    /\ At(w, "add")
    /\ \E r \in SpeakRounds : spoken' = spoken \cup {<<Owner[w], r>>}
    /\ Goto(w, "assess")
    /\ UNCHANGED <<status, round, votes, online, locals, crashes>>

\* The answer to a devil's advocate request is stored with no can_speak check.
DevilsAdvocateResponse(w) ==
    /\ At(w, "idle")
    /\ \E r \in SpeakRounds : spoken' = spoken \cup {<<Owner[w], r>>}
    /\ UNCHANGED <<status, round, votes, online, pc, locals, crashes>>

\* maybe_assess_round: the motion is read ...
AssessRead(w) ==
    /\ At(w, "assess")
    /\ IF status = "discussing" /\ round # 0
         THEN seen' = [seen EXCEPT ![w] = round] /\ Goto(w, "collect")
         ELSE Goto(w, "idle") /\ UNCHANGED seen
    /\ UNCHANGED <<motion, online, target, tally, todo, crashes>>

\* ... then the messages of the round that was read.  The assessor's verdict
\* (consensus or sufficient: vote; otherwise: next round) depends on what the
\* messages say, so both are possible.
CollectRound(w) ==
    /\ At(w, "collect")
    /\ IF AllSpoke(seen[w])
         THEN Goto(w, "to_vote") \/ Goto(w, "next_round")
         ELSE Goto(w, "idle")
    /\ seen' = [seen EXCEPT ![w] = 0]
    /\ UNCHANGED <<motion, online, target, tally, todo, crashes>>

\* MUTANT of NextRound: off by one in the comparison with max_rounds.
NextRoundOffByOne(w) ==
    /\ w \in Sockets
    /\ At(w, "next_round")
    /\ Goto(w, IF round > Rounds THEN "to_vote" ELSE "advance")
    /\ UNCHANGED <<motion, online, locals, crashes>>

\* _continue_next_round of ws_smart.py: a second read of the motion.
NextRound(w) ==
    /\ w \in Sockets
    /\ At(w, "next_round")
    /\ Goto(w, IF round >= Rounds THEN "to_vote" ELSE "advance")
    /\ UNCHANGED <<motion, online, locals, crashes>>

\* The third read, inside transition("round_complete").
Advance(w) ==
    At(w, "advance") /\ TransitionRead(w, "round_complete", "write_round")

AdvanceWrite(w) ==
    /\ At(w, "write_round")
    /\ status' = target[w]
    /\ target' = [target EXCEPT ![w] = "draft"]
    /\ Goto(w, "increment")
    /\ UNCHANGED <<round, spoken, votes, online, seen, tally, todo, crashes>>

\* increment_round: current_round + 1 in SQL, whatever the round is by now.
Increment(p) ==
    /\ At(p, "increment")
    /\ round' = round + 1
    /\ Goto(p, "idle")
    /\ UNCHANGED <<status, spoken, votes, online, locals, crashes>>

-----------------------------------------------------------------------------
(* VOTE and the tally behind it.                                            *)

\* MUTANT of CanVote: the status of the motion is not looked at.
CanVoteAnyStatus(w) ==
    /\ At(w, "idle")
    /\ Goto(w, "has_voted")
    /\ UNCHANGED <<motion, online, locals, crashes>>

CanVote(w) ==
    /\ At(w, "idle")
    /\ status = "voting"
    /\ Goto(w, "has_voted")
    /\ UNCHANGED <<motion, online, locals, crashes>>

HasVoted(w) ==
    /\ At(w, "has_voted")
    /\ Goto(w, IF Owner[w] \in votes THEN "idle" ELSE "add_vote")
    /\ UNCHANGED <<motion, online, locals, crashes>>

\* MUTANT of AddVote: the completion check after the vote is forgotten.
AddVoteNoTally(w) ==
    /\ At(w, "add_vote")
    /\ votes' = votes \cup {Owner[w]}
    /\ Goto(w, IF Owner[w] \in votes THEN "drop" ELSE "idle")
    /\ UNCHANGED <<status, round, spoken, online, locals, crashes>>

\* A second row for the same agent violates UNIQUE: the exception ends the
\* endpoint's loop and with it the connection.
AddVote(w) ==
    /\ At(w, "add_vote")
    /\ votes' = votes \cup {Owner[w]}
    /\ Goto(w, IF Owner[w] \in votes THEN "drop" ELSE "snapshot")
    /\ UNCHANGED <<status, round, spoken, online, locals, crashes>>

\* _check_all_voted: list_agents(online_only=True) ...
Snapshot(w) ==
    LET now == {a \in Agents : online[a]} IN
    /\ At(w, "snapshot")
    /\ tally' = [tally EXCEPT ![w] = now]
    /\ todo' = [todo EXCEPT ![w] = now]
    /\ Goto(w, IF now = {} THEN "idle" ELSE "check")
    /\ UNCHANGED <<motion, online, target, seen, crashes>>

\* MUTANT of CheckOne: the first agent that has voted settles the tally.
CheckFirstOnly(w) ==
    /\ At(w, "check")
    /\ \E a \in todo[w] :
         /\ Goto(w, IF a \in votes THEN "close" ELSE "idle")
         /\ todo' = [todo EXCEPT ![w] = {}]
    /\ UNCHANGED <<motion, online, target, seen, tally, crashes>>

\* ... one has_voted query per agent of the snapshot ...
CheckOne(w) ==
    /\ At(w, "check")
    /\ \E a \in todo[w] :
         IF a \in votes
           THEN /\ todo' = [todo EXCEPT ![w] = @ \ {a}]
                /\ Goto(w, IF todo[w] = {a} THEN "close" ELSE "check")
           ELSE /\ todo' = [todo EXCEPT ![w] = {}]
                /\ Goto(w, "idle")
    /\ UNCHANGED <<motion, online, target, seen, tally, crashes>>

\* ... and the transition if nobody was missing.
Close(w) == At(w, "close") /\ TransitionRead(w, "all_voted", "write")

-----------------------------------------------------------------------------
(* The REST API and the scheduler.                                          *)

\* MUTANT of StartMotion: the transition table is not consulted.
StartMotionUnchecked(c) ==
    /\ "start" \in ClientCalls
    /\ At(c, "idle")
    /\ target' = [target EXCEPT ![c] = "discussing"]
    /\ Goto(c, "write")
    /\ UNCHANGED <<motion, online, seen, tally, todo, crashes>>

StartMotion(c) ==
    /\ "start" \in ClientCalls
    /\ At(c, "idle")
    /\ TransitionRead(c, "start", "write")

\* force_vote reads the motion once itself and once more in transition.
ForceVote(c) ==
    /\ "force_vote" \in ClientCalls
    /\ At(c, "idle")
    /\ status \in OpenToSpeech
    /\ Goto(c, "to_vote")
    /\ UNCHANGED <<motion, online, locals, crashes>>

\* run_assessment: the status is not looked at.
RunAssessment(s) ==
    /\ At(s, "idle")
    /\ Goto(s, "to_vote") \/ Goto(s, "next_round")
    /\ UNCHANGED <<motion, online, locals, crashes>>

\* Its _continue_next_round: consensus jump or a stop of the dynamic rounds
\* (both depend on the messages), or one more round if the cap is not reached.
SchedulerNextRound(s) ==
    /\ s \in Schedulers
    /\ At(s, "next_round")
    /\ \/ Goto(s, "to_vote")
       \/ round < SchedulerRounds /\ Goto(s, "increment")
    /\ UNCHANGED <<motion, online, locals, crashes>>

-----------------------------------------------------------------------------
(* Connections, presence and restarts, as far as they touch a motion; the   *)
(* module Presence has them in detail.                                       *)

SetOnline(a, flag) == online' = [online EXCEPT ![a] = flag]

Connect(w) ==
    /\ At(w, "gone")
    /\ Goto(w, "idle")
    /\ SetOnline(Owner[w], TRUE)
    /\ UNCHANGED <<motion, locals, crashes>>

\* The finally clause of the endpoint, after a broken connection or after an
\* exception in a handler.
Disconnect(w) ==
    /\ \/ w \in Flaky /\ At(w, "idle")
       \/ At(w, "drop")
    /\ Goto(w, "gone")
    /\ SetOnline(Owner[w], FALSE)
    /\ UNCHANGED <<motion, locals, crashes>>

Heartbeat(w) ==
    /\ At(w, "idle")
    /\ SetOnline(Owner[w], TRUE)
    /\ UNCHANGED <<motion, pc, locals, crashes>>

\* heartbeat_timeout_checker: no HEARTBEAT for too long, socket open or not.
MarkStale(w) ==
    /\ w \in Flaky
    /\ SetOnline(Owner[w], FALSE)
    /\ UNCHANGED <<motion, pc, locals, crashes>>

\* The process dies: every handler is lost, the database stays.
Crash ==
    /\ crashes < MaxCrashes
    /\ crashes' = crashes + 1
    /\ pc' = [p \in Procs |-> IF p \in Sockets THEN "gone" ELSE "idle"]
    /\ UNCHANGED <<motion, online, locals>>

-----------------------------------------------------------------------------

\* The steps a suspended handler takes by itself.
SocketStep(w) ==
    \/ AddMessage(w) \/ AssessRead(w) \/ CollectRound(w) \/ NextRound(w)
    \/ Advance(w) \/ AdvanceWrite(w)
    \/ HasVoted(w) \/ AddVote(w) \/ Snapshot(w) \/ CheckOne(w) \/ Close(w)

SharedStep(p) == ToVote(p) \/ TransitionWrite(p) \/ Increment(p)

\* The messages and connection events an endpoint may get.
SocketInput(w) ==
    \/ CanSpeak(w) \/ DevilsAdvocateResponse(w) \/ CanVote(w)
    \/ Connect(w) \/ Disconnect(w) \/ Heartbeat(w) \/ MarkStale(w)

Next ==
    \/ \E w \in Sockets : SocketStep(w) \/ SocketInput(w)
    \/ \E p \in Procs : SharedStep(p)
    \/ \E c \in Clients : StartMotion(c) \/ ForceVote(c)
    \/ \E s \in Schedulers : RunAssessment(s) \/ SchedulerNextRound(s)
    \/ Crash

Spec == Init /\ [][Next]_vars

\* The event loop runs every handler that can run; agents connect, and a
\* connected agent that is asked for its vote votes.
Fairness ==
    /\ \A w \in Sockets : /\ WF_vars(SocketStep(w))
                          /\ WF_vars(Disconnect(w) /\ At(w, "drop"))
                          /\ WF_vars(Connect(w) /\ w \notin Flaky)
                          /\ WF_vars(CanVote(w))
    /\ \A p \in Procs : WF_vars(SharedStep(p))

FairSpec == Spec /\ Fairness

-----------------------------------------------------------------------------
(* Properties.                                                              *)

\* The variables have their types.
TypeOK ==
    /\ status \in Statuses
    /\ round \in Nat
    /\ spoken \subseteq Agents \X SpeakRounds
    /\ votes \subseteq Agents
    /\ online \in [Agents -> BOOLEAN]
    /\ pc \in [Procs -> Labels]
    /\ target \in [Procs -> Statuses]
    /\ seen \in [Sockets -> Nat]
    /\ tally \in [Sockets -> SUBSET Agents]
    /\ todo \in [Sockets -> SUBSET Agents]
    /\ crashes \in 0..MaxCrashes

\* Handlers that have decided on one more round and not incremented it yet.
Pending == {p \in Procs : pc[p] \in {"advance", "write_round", "increment"}}

Drivers == Sockets \cup Schedulers

Cap == IF Rounds > SchedulerRounds THEN Rounds ELSE SchedulerRounds

\* Every check of the round against its limit may be overtaken by every other
\* handler that has passed the same check (ws_smart.py:187-204), so the limit
\* can be exceeded: by fewer rounds than there are handlers, and never more,
\* however the handlers interleave and restart.
RoundBound == round = 0 \/ round < Cap + Cardinality(Drivers)

\* The reason for RoundBound: the increments under way are paid for.
RoundInv ==
    round + Cardinality(Pending) = 0
      \/ round + Cardinality(Pending) < Cap + Cardinality(Drivers)

\* _check_all_voted looks the agents of its snapshot up one by one while votes
\* and presence change under it: whenever it goes on to close the motion, it
\* does so on a non-empty tally all of which has voted (ws_vote.py:172-181).
ClosedOnFullTally ==
    \A w \in Sockets :
        pc[w] = "close" \/ (pc[w] = "write" /\ target[w] = "closed")
          => tally[w] # {} /\ tally[w] \subseteq votes

\* No sequence of requests, votes and restarts closes a motion nobody has
\* voted on, not even one in which a stale write has overtaken others.
NeverClosedUnvoted == status = "closed" => votes # {}

\* Transition by transition the motion follows the lifecycle, as if
\* get_motion and update_motion_status were one step (state.py:41-51).  True
\* with one REST client at a time and no scheduler; see OnlyLegalMoves.
Lifecycle == INSTANCE MotionLifecycle
FollowsLifecycle == Lifecycle!Spec

\* All moves of a motion are transitions of the table (docs/ARCHITECTURE.md:340).
\* A handler that decided before another one moved the motion on breaks it.
OnlyLegalMoves ==
    [][status' # status => \E t \in Transitions : <<status, status'>> = <<t[1], t[3]>>]_vars

\* Handlers that write what they decided some storage calls ago may send the
\* motion back to an earlier phase (state.py:94), where others decide anew; but
\* however often clients, agents and schedulers ask, that ends, because a round
\* that is repeated has been counted and a motion is started once.
StatusSettles == <>[][status' = status]_vars

\* What holds of any number of handlers: each writes what the table made of the
\* status it read itself, once, and stores votes it was admitted to
\* (state.py:56-99, ws_vote.py:48-75); a restart forgets what was decided.
Decided == [p \in Procs |-> IF pc[p] \in {"write", "write_round"} THEN target[p] ELSE "none"]
Admitted == {w \in Sockets : pc[w] \in {"has_voted", "add_vote"}}
Handling == INSTANCE MotionHandlers WITH decided <- Decided, admitted <- Admitted
HandlersDecide == Handling!Spec

Undisturbed == crashes = 0 /\ \A a \in Agents : online[a]
Served(a) == \E w \in Sockets : Owner[w] = a /\ ~At(w, "gone")

\* When the agents stay online and connected and vote, and the coordinator is
\* not restarted, voting ends in a closed motion, whichever of the last voters'
\* tallies overlap (ws_vote.py:157-196).
VotingCloses ==
    []Undisturbed /\ (\A a \in Agents : <>[]Served(a))
        => (status = "voting" ~> status = "closed")

-----------------------------------------------------------------------------
(* Inductive invariants, for Discussion_proofs.                             *)

\* Why a tally is full when it closes the motion: what left the to-do list had
\* voted, and votes stay.
TallyInv ==
    \A w \in Sockets :
        /\ pc[w] = "check" => tally[w] # {} /\ tally[w] \ todo[w] \subseteq votes
        /\ pc[w] = "close" \/ (pc[w] = "write" /\ target[w] = "closed")
             => tally[w] # {} /\ tally[w] \subseteq votes

\* Why only a tally closes: no other event leads to closed.
CloserInv ==
    /\ NeverClosedUnvoted
    /\ \A p \in Procs : pc[p] \in {"write", "write_round"} /\ target[p] = "closed"
          => votes # {}

=============================================================================
