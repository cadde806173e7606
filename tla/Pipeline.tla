------------------------------- MODULE Pipeline -------------------------------
(***************************************************************************)
(* The orchestrator that takes an idea to a release (pipeline.py,          *)
(* pipeline_executor.py, the pipeline_phase_* modules, pipeline_retry.py)  *)
(* and the REST routes over the table of pipeline runs                     *)
(* (pipeline_router.py, storage/pipelines.py).  Runs are coroutines: agents *)
(* connect and leave between the search for one and the message to it.     *)
(*                                                                         *)
(* A review request that could be sent counts as an approval, and so does  *)
(* a review for which nobody is online (trigger_code_review), so the loop  *)
(* that creates fix tasks is never entered and is left out.  The routes'   *)
(* rows and the orchestrator's runs never meet: they are told apart here.  *)
(***************************************************************************)
EXTENDS Naturals, FiniteSets

CONSTANTS
    Runs,          \* runs of the orchestrator
    Rows,          \* rows of pipeline_runs
    Clerks,        \* REST calls
    MaxRetries,    \* PipelineRetryPolicy.max_retries
    MaxMoves       \* connects and disconnects of reviewers and releasers

ASSUME PipelineAssumption == MaxRetries \in Nat \ {0} /\ MaxMoves \in Nat /\ Rows # {}

Phases == {"discussing", "decomposing", "executing", "reviewing", "releasing", "completed", "failed"}
Retryable == {"executing", "reviewing", "releasing"}
Roles == {"reviewer", "releaser"}

VARIABLES
    run,       \* [Runs -> the PipelineRun, and where its coroutine is]
    online,    \* SUBSET Roles: whom find_review_agent and find_release_agent find
    moves,     \* how often that changed
    requests,  \* [Runs -> [Roles -> Nat]]: REVIEW_REQUEST and RELEASE_REQUEST messages sent
    entry,     \* [Rows -> the row: phase and failed_phase]
    clerk      \* [Clerks -> what the call has read]

pipelineVars == <<run, online, moves, requests, entry, clerk>>

Absent == [phase |-> "absent", cause |-> "null"]
NoCall == [op |-> "none", on |-> CHOOSE w \in Rows : TRUE]

\* at: "phase" in a phase, "send" with the agent of the phase found, "tell" before the notification.
FreshRun == [at |-> "start", phase |-> "discussing", attempt |-> 1, told |-> {}]

\* A row may be one that was cancelled before migration 14: no failed_phase.
PipelineInit ==
    /\ run = [r \in Runs |-> FreshRun]
    /\ online \in SUBSET Roles
    /\ moves = 0
    /\ requests = [r \in Runs |-> [k \in Roles |-> 0]]
    /\ entry \in [Rows -> {Absent, [phase |-> "failed", cause |-> "null"]}]
    /\ clerk = [c \in Clerks |-> NoCall]

Running(r, p) == run[r].at = "phase" /\ run[r].phase = p
Enter(r, p) == [run EXCEPT ![r].at = "phase", ![r].phase = p, ![r].attempt = 1]
Fails(r) == [run EXCEPT ![r].at = "tell", ![r].phase = "failed"]
RowsStay == UNCHANGED <<entry, clerk>>

-----------------------------------------------------------------------------
(* The orchestrator.                                                         *)

Run(r) ==
    /\ run[r].at = "start"
    /\ run' = Enter(r, "discussing")
    /\ UNCHANGED <<online, moves, requests>> /\ RowsStay

\* Adopted, or rejected, without consensus, or an exception.
Discuss(r) ==
    /\ Running(r, "discussing")
    /\ run' \in {Enter(r, "decomposing"), Fails(r)}
    /\ UNCHANGED <<online, moves, requests>> /\ RowsStay

\* The tasks, or none.
Decompose(r) ==
    /\ Running(r, "decomposing")
    /\ run' \in {Enter(r, "executing"), Fails(r)}
    /\ UNCHANGED <<online, moves, requests>> /\ RowsStay

\* MUTANT of Again: one attempt too many.
AgainOneMore(r) == IF run[r].phase \in Retryable /\ run[r].attempt <= MaxRetries
                   THEN [run EXCEPT ![r].at = "phase", ![r].attempt = @ + 1]
                   ELSE Fails(r)

\* retry_with_backoff: an attempt that raises is repeated while there are retries.
Again(r) == IF run[r].phase \in Retryable /\ run[r].attempt < MaxRetries
            THEN [run EXCEPT ![r].at = "phase", ![r].attempt = @ + 1]
            ELSE Fails(r)

ExecuteGraph(r) ==
    /\ Running(r, "executing")
    /\ run' \in {Enter(r, "reviewing"), Again(r)}
    /\ UNCHANGED <<online, moves, requests>> /\ RowsStay

AgentFor(p) == IF p = "reviewing" THEN "reviewer" ELSE "releaser"

FindAgent(r, p) ==
    /\ Running(r, p)
    /\ AgentFor(p) \in online
    /\ run' = [run EXCEPT ![r].at = "send"]
    /\ UNCHANGED <<online, moves, requests>> /\ RowsStay

FindReviewer(r) == FindAgent(r, "reviewing")
FindReleaser(r) == FindAgent(r, "releasing")

\* Nobody is online: approved.
AutoApprove(r) ==
    /\ Running(r, "reviewing")
    /\ "reviewer" \notin online
    /\ run' = Enter(r, "releasing")
    /\ UNCHANGED <<online, moves, requests>> /\ RowsStay

NoReleaser(r) ==
    /\ Running(r, "releasing")
    /\ "releaser" \notin online
    /\ run' = Again(r)
    /\ UNCHANGED <<online, moves, requests>> /\ RowsStay

Sent(r, k) == requests' = [requests EXCEPT ![r][k] = @ + 1]

\* The message goes out, or the agent has left since and send returns False.
DispatchReview(r) ==
    /\ run[r].at = "send" /\ run[r].phase = "reviewing"
    /\ \/ "reviewer" \in online /\ Sent(r, "reviewer") /\ run' = Enter(r, "releasing")
       \/ "reviewer" \notin online /\ run' = Again(r) /\ UNCHANGED requests
    /\ UNCHANGED <<online, moves>> /\ RowsStay

\* MUTANT of Completed: the request is one more attempt of a phase that goes on until it is answered.
AskedAgain(r) == [run EXCEPT ![r].at = "phase"]

\* record_pipeline_session follows without a suspension: the run is completed.
Completed(r) == [run EXCEPT ![r].at = "tell", ![r].phase = "completed"]

DispatchRelease(r) ==
    /\ run[r].at = "send" /\ run[r].phase = "releasing"
    /\ \/ "releaser" \in online /\ Sent(r, "releaser") /\ run' = Completed(r)
       \/ "releaser" \notin online /\ run' = Again(r) /\ UNCHANGED requests
    /\ UNCHANGED <<online, moves>> /\ RowsStay

\* What notify_pipeline_completed or notify_pipeline_failed announces: the manager may be missing, and
\* what it raises is swallowed.
Announcements(r) == {{}, {run[r].phase}}

\* _notify_completed and the end of run.
Notify(r) ==
    /\ run[r].at = "tell"
    /\ \E heard \in Announcements(r) :
           run' = [run EXCEPT ![r].at = "over", ![r].told = @ \cup heard]
    /\ UNCHANGED <<online, moves, requests>> /\ RowsStay

AgentMoves(k) ==
    /\ moves < MaxMoves
    /\ moves' = moves + 1
    /\ online' = IF k \in online THEN online \ {k} ELSE online \cup {k}
    /\ UNCHANGED <<run, requests>> /\ RowsStay

RunStep(r) ==
    \/ Run(r) \/ Discuss(r) \/ Decompose(r) \/ ExecuteGraph(r)
    \/ FindReviewer(r) \/ AutoApprove(r) \/ DispatchReview(r)
    \/ FindReleaser(r) \/ NoReleaser(r) \/ DispatchRelease(r) \/ Notify(r)

-----------------------------------------------------------------------------
(* The routes.  Cancel and retry read the row, check it and then write.      *)

RunsStay == UNCHANGED <<run, online, moves, requests>>

StartPipeline(w) ==
    /\ entry[w] = Absent
    /\ entry' = [entry EXCEPT ![w] = [phase |-> "discussing", cause |-> "null"]]
    /\ UNCHANGED clerk /\ RunsStay

ReadToCancel(c, w) ==
    /\ clerk[c] = NoCall
    /\ entry[w].phase \notin {"absent", "completed", "failed"}
    /\ clerk' = [clerk EXCEPT ![c] = [op |-> "cancel", on |-> w]]
    /\ UNCHANGED entry /\ RunsStay

ReadToRetry(c, w) ==
    /\ clerk[c] = NoCall
    /\ entry[w].phase = "failed" /\ entry[w].cause \in Retryable \cup {"null"}
    /\ clerk' = [clerk EXCEPT ![c] = [op |-> "retry", on |-> w]]
    /\ UNCHANGED entry /\ RunsStay

\* failed_phase is the phase that was read; nothing but these routes writes it, so it is "discussing".
Written(op) == IF op = "cancel" THEN [phase |-> "failed", cause |-> "discussing"]
               ELSE [phase |-> "discussing", cause |-> "null"]

UpdateRow(c) ==
    /\ clerk[c] # NoCall
    /\ entry' = [entry EXCEPT ![clerk[c].on] = Written(clerk[c].op)]
    /\ clerk' = [clerk EXCEPT ![c] = NoCall]
    /\ RunsStay

PipelineNext ==
    \/ \E r \in Runs : RunStep(r)
    \/ \E k \in Roles : AgentMoves(k)
    \/ \E w \in Rows : StartPipeline(w) \/ \E c \in Clerks : ReadToCancel(c, w) \/ ReadToRetry(c, w)
    \/ \E c \in Clerks : UpdateRow(c)

PipelineSpec == PipelineInit /\ [][PipelineNext]_pipelineVars

-----------------------------------------------------------------------------
PipelineTypes ==
    /\ run \in [Runs -> [at : {"start", "phase", "send", "tell", "over"}, phase : Phases,
                         attempt : 1..MaxRetries, told : SUBSET {"completed", "failed"}]]
    /\ online \subseteq Roles /\ moves \in 0..MaxMoves
    /\ requests \in [Runs -> [Roles -> Nat]]
    /\ entry \in [Rows -> [phase : {"absent", "discussing", "failed"}, cause : {"null", "discussing"}]]
    /\ clerk \in [Clerks -> [op : {"none", "cancel", "retry"}, on : Rows]]

\* The releaser gets one request from a run that ends completed and none from
\* one that fails, however often reviewer and releaser came and went between
\* the search and the message and however many attempts were repeated; nobody
\* is told of another end than that.
ReleasedOnce ==
    \A r \in Runs :
        /\ requests[r]["releaser"] = IF run[r].phase = "completed" THEN 1 ELSE 0
        /\ requests[r]["reviewer"] <= 1
        /\ run[r].told \subseteq {run[r].phase}
=============================================================================
