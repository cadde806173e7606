------------------------------- MODULE Ballots -------------------------------
(***************************************************************************)
(* The voting package: the votes on one motion (voting/manager.py) and the *)
(* counters (factory.py, weighted.py, ranked_choice.py, range_voting.py,   *)
(* approval_voting.py, multiple_choice.py), functions of the votes.        *)
(*                                                                         *)
(* A vote has the form its method expects.  Confidence is 1 and weights    *)
(* are small integers; ratios are compared with 1/2 and 2/3 by              *)
(* multiplication, which is what the floating-point comparisons do for     *)
(* such numbers.  Where the code takes the best of several options, which  *)
(* of the equally good ones it takes depends on the order of a set: the    *)
(* counters return the set of possible winners.                            *)
(*                                                                         *)
(* A vote is checked against the motion in one storage call and stored in   *)
(* another; a closer reads the votes in one and stores what they come to in  *)
(* another, without a look at the status, so a motion may be closed again.   *)
(***************************************************************************)
EXTENDS Naturals, Sequences, FiniteSets, SequencesExt, FiniteSetsExt

CONSTANTS
    Voters,
    Closers,     \* callers of close_voting
    Options,     \* what the votes that are not binary are about
    Rankings,    \* rankings that may be cast: sequences of options
    Weights,     \* weights the configuration may give a voter
    Scorings,    \* scores that may be cast: functions from options to 0..MaxScore
    MaxScore,    \* RangeVoting.max_score; min_score is 0
    NoVote

\* Nothing keeps a manual weight from being 0.
ASSUME BallotAssumption ==
    /\ IsFiniteSet(Voters) /\ IsFiniteSet(Options)
    /\ Weights \subseteq Nat /\ Rankings \subseteq Seq(Options)

BinaryMethods == {"simple_majority", "supermajority", "unanimous", "weighted"}
Methods == BinaryMethods \cup {"ranked_choice", "approval", "range"}

VARIABLES
    method,     \* voting_method of the motion
    counting,   \* "voting", "closed"
    weight,     \* [Voters -> Weights]: manual_weights
    arriving,   \* [Voters -> NoVote or the vote that was admitted and is not stored yet]
    cast,       \* [Voters -> NoVote or the vote]: the table
    closer,     \* [Closers -> where it is, what it has counted, and whose votes]
    verdict,    \* the decision in the row of the motion
    counted     \* history: whose votes it was made of

ballotVars == <<method, counting, weight, arriving, cast, closer, verdict, counted>>

Binary == [form : {"binary"}, vote : {"yes", "no", "abstain"}]
Ranked == [form : {"ranking"}, ranking : Rankings]
Scored == [form : {"scores"}, scores : Scorings]
Approved == [form : {"approval"}, approved : SUBSET Options]
IdleCloser == [at |-> "idle", result |-> "none", heard |-> {}]
Votes == Binary \cup Ranked \cup Scored \cup Approved

BallotInit ==
    /\ method \in Methods
    /\ counting = "voting"
    /\ weight \in [Voters -> Weights]
    /\ arriving = [v \in Voters |-> NoVote] /\ cast = arriving
    /\ closer = [c \in Closers |-> IdleCloser]
    /\ verdict = "none" /\ counted = {}

Cast(form) == {v \in Voters : cast[v] # NoVote /\ cast[v].form = form}

-----------------------------------------------------------------------------
(* Counters of yes and no.  A vote without one counts as an abstention.       *)

Tally(c) == Cardinality({v \in Cast("binary") : cast[v].vote = c})
Anybody == \E v \in Voters : cast[v] # NoVote

Decide(anything, passes) == IF ~ anything THEN "no_consensus"
                            ELSE IF passes THEN "adopted" ELSE "rejected"

SimpleMajority == Decide(Anybody, Tally("yes") > Tally("no"))
Supermajority ==
    LET n == Tally("yes") + Tally("no") IN Decide(n > 0, 3 * Tally("yes") >= 2 * n)
\* MUTANT of Unanimous: whoever does not object consents.
UnanimousSilence == Decide(Anybody, Tally("no") = 0)

Unanimous == Decide(Tally("yes") + Tally("no") > 0, Tally("no") = 0 /\ Tally("yes") > 0)

\* get_weights, whatever the strategy: expertise and manual weights differ between voters, the others do not.
WeightOf(c) == MapThenSumSet(LAMBDA v : weight[v], {v \in Cast("binary") : cast[v].vote = c})
ByWeight(yes, no) == Decide(yes + no > 0, 2 * yes >= yes + no)
Weighted == ByWeight(WeightOf("yes"), WeightOf("no"))

-----------------------------------------------------------------------------
(* Counters of options: the set of possible winners, empty if none is adopted. *)

BestOf(os, score(_)) == {o \in os : \A p \in os : score(p) <= score(o)}

Approvals(o) == Cardinality({v \in Cast("approval") : o \in cast[v].approved})
ApprovalWinners ==
    LET os == UNION {cast[v].approved : v \in Cast("approval")} IN
    {o \in BestOf(os, Approvals) : 2 * Approvals(o) > Cardinality(Cast("approval"))}

\* Averages are over the votes that score the option; half of max_score is the threshold.
Scorers(o) == {v \in Cast("scores") : o \in DOMAIN cast[v].scores}
SumOf(o) == MapThenSumSet(LAMBDA v : cast[v].scores[o], Scorers(o))
RangeWinners ==
    LET os == UNION {DOMAIN cast[v].scores : v \in Cast("scores")} IN
    {o \in os : /\ \A p \in os : SumOf(p) * Cardinality(Scorers(o)) <= SumOf(o) * Cardinality(Scorers(p))
                /\ 2 * SumOf(o) >= MaxScore * Cardinality(Scorers(o))}

\* One choice each: the first of the ranking.
FirstPlaces(o) == Cardinality({v \in Cast("ranking") : cast[v].ranking # <<>> /\ Head(cast[v].ranking) = o})
ChoiceWinners ==
    LET n == MapThenSumSet(FirstPlaces, Options) IN {o \in BestOf(Options, FirstPlaces) : 2 * FirstPlaces(o) > n}

\* Instant runoff: first choices among the options that remain.
FirstChoice(v, rest) ==
    LET r == cast[v].ranking
    IN {r[i] : i \in {k \in 1..Len(r) : r[k] \in rest /\ \A j \in 1..(k - 1) : r[j] \notin rest}}
Firsts(o, rest) == Cardinality({v \in Cast("ranking") : o \in FirstChoice(v, rest)})

\* The options that have the fewest first choices, of those that have any.
Lowest(rest) ==
    LET named == {o \in rest : Firsts(o, rest) > 0}
    IN {o \in named : \A p \in named : Firsts(o, rest) <= Firsts(p, rest)}

Runoff[rest \in SUBSET Options] ==
    LET n == MapThenSumSet(LAMBDA o : Firsts(o, rest), rest)
        majority == {o \in rest : 2 * Firsts(o, rest) > n}
        out == Lowest(rest)
    IN IF n = 0 \/ majority # {} THEN majority
       ELSE IF Cardinality(rest) <= Cardinality(out) THEN {}      \* tie
       ELSE Runoff[rest \ out]

RankedWinners == Runoff[UNION {ToSet(cast[v].ranking) : v \in Cast("ranking")}]

-----------------------------------------------------------------------------
(* AdvancedVotingManager.                                                    *)

\* ValidFormat refuses another form for the first five; for approval and range it asks for none, and
\* a vote is taken to be of the one that is meant.
ValidFormat(m) == CASE m \in BinaryMethods -> Binary
                    [] m = "ranked_choice" -> Ranked
                    [] m = "approval" -> Approved
                    [] m = "range" -> Scored

\* A vote that is not open or not valid is answered with an error.
HandleVote(v, vote) ==
    /\ counting = "voting" /\ arriving[v] = NoVote
    /\ arriving' = [arriving EXCEPT ![v] = vote]
    /\ UNCHANGED <<method, counting, weight, cast, closer, verdict, counted>>

\* The table takes one vote of a voter on a motion, whatever its status is by now; the second raises.
AddVote(v) ==
    /\ arriving[v] # NoVote
    /\ arriving' = [arriving EXCEPT ![v] = NoVote]
    /\ cast' = IF cast[v] = NoVote THEN [cast EXCEPT ![v] = arriving[v]] ELSE cast
    /\ UNCHANGED <<method, counting, weight, closer, verdict, counted>>

\* VoteCounterFactory knows the first three; a method it does not know is counted as a simple majority,
\* in which a vote without yes or no abstains.
Count == CASE method = "supermajority" -> Supermajority
           [] method = "unanimous" -> Unanimous
           [] method = "weighted" -> Weighted
           [] OTHER -> SimpleMajority

HaveVoted == {v \in Voters : cast[v] # NoVote}

\* get_motion tells what does not change, that there is a motion, and its method; get_votes, and the count.
CloseVoting(c) ==
    /\ closer[c].at = "idle"
    /\ closer' = [closer EXCEPT ![c] = [at |-> "write", result |-> Count, heard |-> HaveVoted]]
    /\ UNCHANGED <<method, counting, weight, arriving, cast, verdict, counted>>

\* update_motion_status, with the decision.
WriteDecision(c) ==
    /\ closer[c].at = "write"
    /\ counting' = "closed"
    /\ verdict' = closer[c].result /\ counted' = closer[c].heard
    /\ closer' = [closer EXCEPT ![c] = IdleCloser]
    /\ UNCHANGED <<method, weight, arriving, cast>>

BallotNext ==
    \/ \E v \in Voters : AddVote(v) \/ \E vote \in ValidFormat(method) : HandleVote(v, vote)
    \/ \E c \in Closers : CloseVoting(c) \/ WriteDecision(c)

BallotSpec == BallotInit /\ [][BallotNext]_ballotVars

-----------------------------------------------------------------------------
Verdicts == {"none", "adopted", "rejected", "no_consensus"}

BallotTypes ==
    /\ method \in Methods /\ counting \in {"voting", "closed"}
    /\ weight \in [Voters -> Weights]
    /\ arriving \in [Voters -> Votes \cup {NoVote}] /\ cast \in [Voters -> Votes \cup {NoVote}]
    /\ closer \in [Closers -> [at : {"idle", "write"}, result : Verdicts, heard : SUBSET Voters]]
    /\ verdict \in Verdicts /\ counted \subseteq Voters

\* The counters are ordered by strictness: what is adopted unanimously is so by
\* two thirds, what by two thirds by simple majority, and that by weight when all
\* weigh the same and something.
StricterImplies ==
    /\ Unanimous = "adopted" => Supermajority = "adopted"
    /\ Supermajority = "adopted" => SimpleMajority = "adopted"
    /\ SimpleMajority = "adopted" /\ (\E n \in Weights \ {0} : \A v \in Voters : weight[v] = n) =>
           Weighted = "adopted"

SaidYes(v) == v \in Cast("binary") /\ cast[v].vote = "yes"

\* The decision on a motion is one of votes that are in the table, which may hold others by now: they left it
\* undecided only if none of them said yes, with weight, and adopted it only if one did; however votes come
\* late, and whoever closes the motion again (manager.py:48-121).
Founded(result, voters) ==
    /\ voters \subseteq HaveVoted
    /\ result = "no_consensus" => \A v \in voters : SaidYes(v) => method = "weighted" /\ weight[v] = 0
    /\ result = "adopted" => \E v \in voters : SaidYes(v)

\* An option that more than half of the voters rank first wins the runoff, as it
\* does when each names one option, and the runoff has one winner at most,
\* whatever was eliminated together on the way.
MajorityElected ==
    /\ ChoiceWinners # {} => RankedWinners = ChoiceWinners
    /\ \A o, p \in RankedWinners : o = p

\* The counters agree with each other wherever they count the same thing, and the decision with the
\* votes it was made of.
CountersAgree == StricterImplies /\ MajorityElected /\ Founded(verdict, counted)
=============================================================================
