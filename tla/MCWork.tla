-------------------------------- MODULE MCWork --------------------------------
(***************************************************************************)
(* Instances of what carries work from an idea to its end: the bootstrap   *)
(* engine, the pipeline, the bridge to an agent, the counting of votes and *)
(* the assessment of a discussion.  In the shipped program they call each  *)
(* other over the network, or are not connected yet; they share no state,  *)
(* so a behaviour moves in one of them, part, and the others stay as they  *)
(* begin.                                                                  *)
(***************************************************************************)
EXTENDS Bootstrap, Pipeline, AgentBridge, Ballots, Deliberation

CONSTANTS e1, e2, a1, a2, v1, v2

VARIABLE part

\* The engine works on a batch of two triggers, or shares one with another engine, or waits while two
\* decide; one assessor follows a long discussion, or two a short one; four voters vote one by one under
\* every rule, or two at once while two close the motion.
BootParts == {"batch", "race", "decide"}
TalkParts == {"long", "short"}
BallotParts == {"counting", "closing"}
Parts == BootParts \cup TalkParts \cup BallotParts \cup {"pipeline", "bridge"}
workVars == <<part, bootVars, pipelineVars, bridgeVars, ballotVars, talkVars>>

NotBootstrap == UNCHANGED <<part, pipelineVars, bridgeVars, ballotVars, talkVars>>
NotPipeline == UNCHANGED <<part, bootVars, bridgeVars, ballotVars, talkVars>>
NotBridge == UNCHANGED <<part, bootVars, pipelineVars, ballotVars, talkVars>>
NotBallots == UNCHANGED <<part, bootVars, pipelineVars, bridgeVars, talkVars>>
NotTalk == UNCHANGED <<part, bootVars, pipelineVars, bridgeVars, ballotVars>>

\* Weights differ only where they count.
Init ==
    /\ part \in Parts
    /\ BootInit /\ (part \notin BootParts => ~ scheduled)
    /\ PipelineInit /\ (part # "pipeline" => online = {} /\ \A w \in Rows : entry[w] = Absent)
    /\ BridgeInit
    /\ BallotInit
    /\ part = "closing" => method \in BinaryMethods /\ \A v \in Voters : weight[v] = 1 \/ (v \in {v1, v2} /\ weight[v] = 0)
    /\ part \notin BallotParts => method = "unanimous"
    /\ method # "weighted" => \A v \in Voters : weight[v] = 1
    /\ TalkInit

Batch == part = "batch" /\ engine'[e2] = Idling /\ approvals' = approvals
Race == part = "race" /\ trigger'["review"] = "none" /\ approvals' = approvals
Decision == part = "decide" /\ trigger'["review"] = "none" /\ engine'[e2] = Idling

Long == part = "long" /\ assessor'[a2] = IdleAssessor
Short == part = "short" /\ Total' <= 4

\* Each in turn; who votes first makes no difference to a count.
Order == SetToSeq(Voters)
Counting ==
    /\ part = "counting" /\ closer' = closer
    /\ \A i \in 1..Len(Order) : arriving'[Order[i]] # NoVote => \A j \in 1..Len(Order) : j < i <=> cast'[Order[j]] # NoVote

\* Two of them, and the first may try again.
Closing ==
    /\ part = "closing"
    /\ \A v \in Voters : arriving'[v] # NoVote => v = v1 \/ (v = v2 /\ cast[v] = NoVote)

Next ==
    \/ BootNext /\ (Batch \/ Race \/ Decision) /\ NotBootstrap
    \/ part = "pipeline" /\ PipelineNext /\ NotPipeline
    \/ part = "bridge" /\ BridgeNext /\ NotBridge
    \/ BallotNext /\ (Counting \/ Closing) /\ NotBallots
    \/ TalkNext /\ (Long \/ Short) /\ NotTalk

\* The coroutines of the engine and the pollers of the bridge run when they can.
Fairness ==
    /\ \A e \in Engines : WF_workVars(part \in BootParts /\ EngineStep(e) /\ NotBootstrap)
    /\ \A k \in Cards : WF_workVars(part = "bridge" /\ Poll(k) /\ NotBridge)

Spec == Init /\ [][Next]_workVars /\ Fairness

Urgency == [t \in Topics |-> IF t = "outage" THEN 2 ELSE 1]
Ballotings == {<<"a", "b", "c">>, <<"b", "a", "c">>, <<"c", "a", "b">>, <<"b", "a">>, <<>>}
Scores == {[a |-> 1, b |-> 0], [b |-> 1], [a |-> 0, b |-> 1]}
Message(s, e, n) == [stance |-> s, evidence |-> e, quarters |-> n]
Messages == {Message("support", TRUE, 4), Message("support", FALSE, 1),
             Message("oppose", FALSE, 3), Message("neutral", FALSE, 1)}

\* Every part holds values of its kind: a type invariant of all five modules.
WorkTypes == BootTypes /\ PipelineTypes /\ BridgeTypes /\ BallotTypes /\ TalkTypes
=============================================================================
