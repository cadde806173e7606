----------------------------- MODULE Deliberation -----------------------------
(***************************************************************************)
(* What the smart scheduler makes of the messages of one motion: the       *)
(* consensus level and the decision of an assessment (assessment.py), the  *)
(* quality score (quality_scorer.py), the consensus jump                   *)
(* (consensus_jump.py), the dynamic rounds (dynamic_rounds.py) and the     *)
(* evaluation of each message (realtime_evaluator.py).  The module         *)
(* Discussion has the same calls with the status of the motion and leaves  *)
(* open what they decide; here the status is left out.                     *)
(*                                                                         *)
(* The calls read the messages several times, and agents speak in between. *)
(* Nothing depends on the order of the messages, so they are counted by    *)
(* kind.  Ratios are compared by multiplication; lengths are in quarters   *)
(* of the 200 characters that count as a full argument.  Evidence is read  *)
(* back as the text that storage/messages.py has stored, "[]" if there is  *)
(* none, and no row has a reply_to.                                        *)
(***************************************************************************)
EXTENDS Naturals, FiniteSets, FiniteSetsExt

CONSTANTS
    Kinds,         \* what a message can be: [stance, evidence, quarters]
    Assessors,     \* coroutines that run run_assessment
    MinRounds, MaxRounds,   \* dynamic_min_rounds, dynamic_max_rounds
    MaxMessages

Stances == {"support", "oppose", "neutral"}

ASSUME DeliberationAssumption ==
    /\ IsFiniteSet(Kinds)
    /\ \A k \in Kinds : k.stance \in Stances /\ k.evidence \in BOOLEAN /\ k.quarters \in 0..4
    /\ MinRounds \in Nat /\ MaxRounds \in Nat /\ MaxMessages \in Nat

VARIABLES
    heard,     \* [Kinds -> Nat]: the messages of the motion
    rounds,    \* current_round
    early,     \* what evaluations of messages have found, and on_message has not acted on yet
    assessor,  \* [Assessors -> the run of run_assessment]
    sentToVote \* calls that have ended in start_voting

talkVars == <<heard, rounds, early, assessor, sentToVote>>

Levels == {"high", "moderate", "low", "fractured"}
IdleAssessor == [at |-> "idle", agreed |-> FALSE, level |-> "low", quality |-> "middling"]

TalkInit ==
    /\ heard = [k \in Kinds |-> 0]
    /\ rounds = 1
    /\ early = {}
    /\ assessor = [a \in Assessors |-> IdleAssessor]
    /\ sentToVote = {}

-----------------------------------------------------------------------------
(* Measures of the messages.                                                 *)

SumOver(ks, of(_)) == MapThenSumSet(LAMBDA k : of(k) * heard[k], ks)
CountOf(ks) == SumOver(ks, LAMBDA k : 1)
Total == CountOf(Kinds)
With(s) == CountOf({k \in Kinds : k.stance = s})
Taken == {s \in Stances : With(s) > 0}
Quarters == SumOver(Kinds, LAMBDA k : k.quarters)

\* The characters of the evidence column, as many as matter: a list of nothing has two.
Characters(k) == IF k.evidence THEN 3 ELSE 2

\* ConsensusDetector.detect.
Consensus ==
    IF Total = 0 THEN "low"
    ELSE IF 10 * With("support") >= 7 * Total THEN "high"
    ELSE IF 2 * With("support") >= Total \/ 2 * With("oppose") >= Total THEN "moderate"
    ELSE IF 10 * With("support") > 3 * Total /\ 10 * With("oppose") > 3 * Total THEN "fractured"
    ELSE "low"

\* _assess_argument_quality >= 0.5: six tenths evidence, four tenths length.
ArgumentsAreGood ==
    Total > 0 /\ 6 * Min({SumOver(Kinds, Characters), Total}) + Quarters >= 5 * Total

\* _make_decision; the relevance is 0.8 always.
Assessed ==
    IF Consensus = "high" THEN "consensus_reached"
    ELSE IF Consensus = "fractured" /\ ~ ArgumentsAreGood THEN "needs_more"
    ELSE IF Total >= 6 /\ ArgumentsAreGood THEN "sufficient"
    ELSE "needs_more"

\* _score_evidence, of Total: messages whose evidence column is not empty, which are all; its comment
\* says "ratio of messages with evidence".
ScoreEvidence == CountOf({k \in Kinds : Characters(k) > 0})

\* overall, in parts of 120 * Total: evidence 0.3, length 0.3, stances 0.2, and replies, of which there are none.
Overall == 36 * ScoreEvidence + 9 * Quarters + 8 * Cardinality(Taken) * Total

Quality == IF Total = 0 THEN "low"
           ELSE IF 10 * Overall >= 7 * 120 * Total THEN "sufficient"
           ELSE IF 10 * Overall < 4 * 120 * Total THEN "low" ELSE "middling"

\* MUTANT of Reached: two speakers are enough.
ReachedByTwo(s) == With(s) >= 2

\* analyze_sub_topics: one sub-topic for each stance somebody took.
Reached(s) == 10 * With(s) >= 7 * Total /\ With(s) >= 2
ConsensusTopics == {s \in Taken : Reached(s)}
FocusTopics == {s \in Taken : ~ Reached(s)}

\* should_continue.
ShouldContinue(level, quality) ==
    \/ rounds < MinRounds
    \/ level # "high" /\ quality # "sufficient" /\ rounds < MaxRounds

-----------------------------------------------------------------------------
(* A message, and what on_message makes of it.                               *)

InstantConsensus ==
    Total >= 3 /\ \E s \in {"support", "oppose"} : 5 * With(s) >= 4 * Total

\* Six messages, of which a third has evidence, half a full argument long.
EndsEarly == Total >= 6 /\ 10 * ScoreEvidence >= 3 * Total /\ Quarters >= 2 * Total

Speak(k) ==
    /\ Total < MaxMessages
    /\ heard' = [heard EXCEPT ![k] = @ + 1]
    /\ early' = early \cup (IF InstantConsensus' THEN {"INSTANT_CONSENSUS"}
                           ELSE IF EndsEarly' THEN {"EARLY_TERMINATION"} ELSE {})
    /\ UNCHANGED <<rounds, assessor, sentToVote>>

\* on_message goes on with what it was told: an instant consensus is announced, an early end is a
\* transition to the vote.
OnMessage(found) ==
    /\ found \in early
    /\ early' = early \ {found}
    /\ sentToVote' = IF found = "EARLY_TERMINATION" THEN sentToVote \cup {"realtime"} ELSE sentToVote
    /\ UNCHANGED <<heard, rounds, assessor>>

-----------------------------------------------------------------------------
(* run_assessment, read by read.                                             *)

Moves(a, from, to) == assessor[a].at = from /\ assessor' = [assessor EXCEPT ![a].at = to]

Assess(a) ==
    /\ \/ Assessed \in {"consensus_reached", "sufficient"} /\ Moves(a, "idle", "vote")
       \/ Assessed = "needs_more" /\ Moves(a, "idle", "jump")
    /\ UNCHANGED <<heard, rounds, early, sentToVote>>

GetConsensusTopics(a) ==
    /\ assessor[a].at = "jump"
    /\ assessor' = [assessor EXCEPT ![a].at = "focus", ![a].agreed = ConsensusTopics # {}]
    /\ UNCHANGED <<heard, rounds, early, sentToVote>>

\* All sub-topics agreed: to the vote.
GetFocusTopics(a) ==
    /\ IF assessor[a].agreed /\ FocusTopics = {}
       THEN Moves(a, "focus", "vote") ELSE Moves(a, "focus", "score")
    /\ UNCHANGED <<heard, rounds, early, sentToVote>>

\* The assessment of the dynamic rounds, and then the round of the motion.
AssessAgain(a) ==
    /\ assessor[a].at = "score"
    /\ assessor' = [assessor EXCEPT ![a].at = "round", ![a].level = Consensus, ![a].quality = Quality]
    /\ UNCHANGED <<heard, rounds, early, sentToVote>>

DynamicRounds(a) ==
    /\ IF ShouldContinue(assessor[a].level, assessor[a].quality)
       THEN Moves(a, "round", "increment") ELSE Moves(a, "round", "vote")
    /\ UNCHANGED <<heard, rounds, early, sentToVote>>

IncrementRound(a) ==
    /\ assessor[a].at = "increment"
    /\ rounds' = rounds + 1
    /\ assessor' = [assessor EXCEPT ![a] = IdleAssessor]
    /\ UNCHANGED <<heard, early, sentToVote>>

StartVoting(a) ==
    /\ assessor[a].at = "vote"
    /\ sentToVote' = sentToVote \cup {a}
    /\ assessor' = [assessor EXCEPT ![a] = IdleAssessor]
    /\ UNCHANGED <<heard, rounds, early>>

\* Once the motion is with the voters, nobody speaks or assesses any more.
TalkNext ==
    \/ sentToVote = {} /\ \E k \in Kinds : Speak(k)
    \/ sentToVote = {} /\ \E a \in Assessors : Assess(a)
    \/ \E found \in early : OnMessage(found)
    \/ \E a \in Assessors :
           \/ GetConsensusTopics(a) \/ GetFocusTopics(a)
           \/ AssessAgain(a) \/ DynamicRounds(a) \/ IncrementRound(a) \/ StartVoting(a)

TalkSpec == TalkInit /\ [][TalkNext]_talkVars

-----------------------------------------------------------------------------
TalkTypes ==
    /\ heard \in [Kinds -> Nat] /\ rounds \in Nat
    /\ early \subseteq {"INSTANT_CONSENSUS", "EARLY_TERMINATION"}
    /\ assessor \in [Assessors -> [at : {"idle", "jump", "focus", "score", "round", "increment", "vote"},
                                   agreed : BOOLEAN, level : Levels,
                                   quality : {"sufficient", "middling", "low"}]]
    /\ sentToVote \subseteq Assessors \cup {"realtime"}

\* A discussion jumps to the vote only if all that has been said by then is of
\* one stance, though the sub-topics that are agreed and those that are not are
\* read one after the other while agents speak (_continue_next_round).
JumpIsUnanimous ==
    [][\A a \in Assessors : GetFocusTopics(a) /\ assessor'[a].at = "vote"
           => Cardinality(Taken) = 1 /\ Total >= 2]_talkVars

=============================================================================
