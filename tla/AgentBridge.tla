----------------------------- MODULE AgentBridge -----------------------------
(***************************************************************************)
(* One agent of the SDK behind the Hermes bridge: the run loop             *)
(* (run_loop.py), the connection (client_lifecycle.py), the reports         *)
(* (client_ws.py), the adapter that makes a kanban card of an assignment    *)
(* (adapter.py) and the coroutine that polls the card (polling.py).         *)
(*                                                                         *)
(* An exception in a handler ends the run loop: the connection stays open   *)
(* and its heartbeat goes on, but nobody reads what the coordinator sends.  *)
(* A poller waits for hermes without a limit, survives a RuntimeError of     *)
(* run_hermes only, and is ended by any other exception: an answer that is   *)
(* not JSON or not an object, a hermes that cannot be started, a connection   *)
(* that is gone.  It leaves its entry in the map then and tells nobody.       *)
(***************************************************************************)
EXTENDS Naturals, Sequences

CONSTANTS
    Jobs,       \* Agora tasks that are assigned to the agent
    Cards,      \* kanban cards
    PollMax,    \* poll_max
    MaxMail     \* messages of the coordinator to the agent

ASSUME BridgeAssumption == PollMax \in Nat \ {0} /\ MaxMail \in Nat

Mail == Jobs \cup {"speech"}

VARIABLES
    link,      \* "off", "up", "lost": registered or disconnected, connected, closed by the other side
    loop,      \* where the run loop is, and on what
    mail,      \* messages on their way, in order
    mailed,    \* how many there were
    board,     \* [Cards -> state of the card in Hermes]
    mapped,    \* [Jobs -> Cards \cup {"none"}]: _kanban_map
    poller,    \* [Cards -> the coroutine that polls the card]
    reports    \* what is sent to the coordinator: a sequence of <<kind, job, card>>

bridgeVars == <<link, loop, mail, mailed, board, mapped, poller, reports>>

CardStates == {"none", "open", "done", "failed", "blocked"}
NoPoller == [at |-> "none", job |-> "none", left |-> 0]
LoopAt(at, job, card) == [at |-> at, job |-> job, card |-> card]
Waiting == LoopAt("wait", "none", "none")
Over == LoopAt("over", "none", "none")

BridgeInit ==
    /\ link = "off"
    /\ loop = LoopAt("new", "none", "none")
    /\ mail = <<>> /\ mailed = 0
    /\ board = [k \in Cards |-> "none"]
    /\ mapped = [j \in Jobs |-> "none"]
    /\ poller = [k \in Cards |-> NoPoller]
    /\ reports = <<>>

-----------------------------------------------------------------------------
(* start, stop, and the network.  After stop nothing connects again.         *)

ConnectAgent ==
    /\ loop.at = "new"
    /\ link' = "up" /\ loop' = Waiting
    /\ UNCHANGED <<mail, mailed, board, mapped, poller, reports>>

DisconnectAgent ==
    /\ link # "off"
    /\ link' = "off"
    /\ UNCHANGED <<loop, mail, mailed, board, mapped, poller, reports>>

LoseLink ==
    /\ link = "up"
    /\ link' = "lost"
    /\ UNCHANGED <<loop, mail, mailed, board, mapped, poller, reports>>

\* The coordinator assigns a task, again perhaps, or passes a speech on.
Post(m) ==
    /\ link = "up" /\ mailed < MaxMail
    /\ mail' = Append(mail, m) /\ mailed' = mailed + 1
    /\ UNCHANGED <<link, loop, board, mapped, poller, reports>>

\* _send_ws: it raises if there is no connection.
Report(kind, j, k) == link = "up" /\ reports' = Append(reports, <<kind, j, k>>)
NoReport == link # "up" /\ UNCHANGED reports

-----------------------------------------------------------------------------
(* The run loop, and on_task_assigned within it.                             *)

\* recv, which hands out what has arrived before it tells of the end of the connection.
Receive ==
    /\ loop.at = "wait" /\ mail # <<>>
    /\ mail' = Tail(mail)
    /\ loop' = IF Head(mail) = "speech" THEN LoopAt("comment", "none", "none")
               ELSE LoopAt("create", Head(mail), "none")
    /\ UNCHANGED <<link, mailed, board, mapped, poller, reports>>

\* recv raises.
LoopEnds ==
    /\ loop.at = "wait" /\ (link = "off" \/ (link = "lost" /\ mail = <<>>))
    /\ loop' = Over
    /\ UNCHANGED <<link, mail, mailed, board, mapped, poller, reports>>

\* The handler is through, and the loop looks whether disconnect has been called.
Resume == IF link = "off" THEN Over ELSE Waiting

\* hermes comments, or raises.
Comment ==
    /\ loop.at = "comment"
    /\ loop' \in {Resume, Over}
    /\ UNCHANGED <<link, mail, mailed, board, mapped, poller, reports>>

\* hermes makes a card; or answers without one; or raises.
CreateCard(k) ==
    /\ loop.at = "create" /\ board[k] = "none"
    /\ board' = [board EXCEPT ![k] = "open"]
    /\ mapped' = [mapped EXCEPT ![loop.job] = k]
    /\ loop' = LoopAt("start", loop.job, k)
    /\ UNCHANGED <<link, mail, mailed, poller, reports>>

NoCard ==
    /\ loop.at = "create"
    /\ loop' \in {Resume, Over}
    /\ UNCHANGED <<link, mail, mailed, board, mapped, poller, reports>>

\* The poller is created only when TASK_STARTED could be sent.
ReportStart ==
    LET j == loop.job  k == loop.card IN
    /\ loop.at = "start"
    /\ \/ /\ Report("started", j, k)
          /\ poller' = [poller EXCEPT ![k] = [at |-> "sleep", job |-> j, left |-> PollMax]]
          /\ loop' = Waiting
       \/ NoReport /\ loop' = Over /\ UNCHANGED poller
    /\ UNCHANGED <<link, mail, mailed, board, mapped>>

-----------------------------------------------------------------------------
(* poll_kanban_task.                                                         *)

\* The card is worked on.
CardMoves(k) ==
    /\ board[k] \in {"open", "blocked"}
    /\ board' \in {[board EXCEPT ![k] = b] : b \in {"open", "done", "failed", "blocked"} \ {board[k]}}
    /\ UNCHANGED <<link, loop, mail, mailed, mapped, poller, reports>>

\* The outcome a card has, when it is looked at.
Outcome(b) == IF b = "done" THEN "complete" ELSE IF b \in {"failed", "blocked"} THEN "failed" ELSE "none"

\* MUTANT of Attempt: an attempt that shows nothing new is not counted.
Uncounted(k) == poller' = [poller EXCEPT ![k].at = "sleep"]

Attempt(k) == poller' = [poller EXCEPT ![k].at = "sleep", ![k].left = @ - 1]

Ask(k) ==
    /\ poller[k].at = "sleep" /\ poller[k].left > 0
    /\ poller' = [poller EXCEPT ![k].at = "asking"]
    /\ UNCHANGED <<link, loop, mail, mailed, board, mapped, reports>>

\* hermes shows a card that is still open, or nothing, or fails.
PollAgain(k) ==
    /\ poller[k].at = "asking"
    /\ Attempt(k)
    /\ UNCHANGED <<link, loop, mail, mailed, board, mapped, reports>>

\* run_hermes, or the look at its result, raises something else than a RuntimeError.
PollBreaks(k) ==
    /\ poller[k].at = "asking"
    /\ poller' = [poller EXCEPT ![k].at = "broken"]
    /\ UNCHANGED <<link, loop, mail, mailed, board, mapped, reports>>

\* MUTANT of Tell: the report goes out, and the poller sleeps again.
TellAgain(k, kind) ==
    /\ Report(kind, poller[k].job, k) \/ NoReport
    /\ mapped' = [mapped EXCEPT ![poller[k].job] = "none"]
    /\ poller' = [poller EXCEPT ![k].at = "sleep"]

\* report_task_*, then the entry is removed, whichever card it names by now; or the report raises.
Tell(k, kind) ==
    \/ /\ Report(kind, poller[k].job, k)
       /\ poller' = [poller EXCEPT ![k].at = "over"]
       /\ mapped' = [mapped EXCEPT ![poller[k].job] = "none"]
    \/ /\ NoReport
       /\ poller' = [poller EXCEPT ![k].at = "unheard"]
       /\ UNCHANGED mapped

PollEnds(k) ==
    /\ poller[k].at = "asking"
    /\ Outcome(board[k]) # "none"
    /\ Tell(k, Outcome(board[k]))
    /\ UNCHANGED <<link, loop, mail, mailed, board>>

PollTimesOut(k) ==
    /\ poller[k].at = "sleep" /\ poller[k].left = 0
    /\ Tell(k, "failed")
    /\ UNCHANGED <<link, loop, mail, mailed, board>>

\* What a poller does by itself, and what an answer of hermes makes it do.
Poll(k) == Ask(k) \/ PollTimesOut(k)
Answered(k) == PollAgain(k) \/ PollEnds(k) \/ PollBreaks(k)

BridgeNext ==
    \/ ConnectAgent \/ DisconnectAgent \/ LoseLink
    \/ \E m \in Mail : Post(m)
    \/ Receive \/ LoopEnds \/ Comment \/ NoCard \/ ReportStart
    \/ \E k \in Cards : CreateCard(k) \/ CardMoves(k) \/ Poll(k) \/ Answered(k)

BridgeSpec == BridgeInit /\ [][BridgeNext]_bridgeVars

\* A poller whose sleep is over goes on; Hermes, the network and the coordinator owe nothing.
BridgeFairness == \A k \in Cards : WF_bridgeVars(Poll(k))

-----------------------------------------------------------------------------
BridgeTypes ==
    /\ link \in {"off", "up", "lost"}
    /\ loop \in [at : {"new", "wait", "comment", "create", "start", "over"},
                 job : Jobs \cup {"none"}, card : Cards \cup {"none"}]
    /\ mail \in Seq(Mail) /\ mailed \in 0..MaxMail
    /\ board \in [Cards -> CardStates]
    /\ mapped \in [Jobs -> Cards \cup {"none"}]
    /\ poller \in [Cards -> [at : {"none", "sleep", "asking", "over", "unheard", "broken"}, job : Jobs \cup {"none"}, left : 0..PollMax]]
    /\ reports \in Seq({"started", "complete", "failed"} \X Jobs \X Cards)

\* For one card the coordinator hears of one start and then of at most one
\* outcome, however often the task is assigned again: an earlier assignment's
\* poller may report after the start of a later one, but not twice.
OneOutcome ==
    \A i, n \in 1..Len(reports) :
        reports[i][3] = reports[n][3] /\ i < n => reports[i][1] = "started" /\ reports[n][1] # "started"

Ended(k) == \E i \in 1..Len(reports) : reports[i][3] = k /\ reports[i][1] # "started"
Answering(k) == []<>(poller[k].at # "asking")

PollOver(k) ==
    \/ poller[k].at = "over" /\ Ended(k)
    \/ poller[k].at = "unheard" /\ link # "up"
    \/ poller[k].at = "broken"

\* A task that was reported as started gets an outcome if hermes answers each
\* time it is asked, whatever it answers and however the card moves, unless
\* the connection is gone, or an answer breaks the poller (polling.py:30-54).
StartedEnds == \A k \in Cards : Answering(k) => (poller[k].at = "sleep" ~> PollOver(k))
=============================================================================
