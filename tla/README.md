# Agora coordinator: TLA+ models, model checking and proofs

Agora is a server ("coordinator") through which a group of agents discusses a
motion, votes on it and carries out the resulting tasks.  The coordinator is a
FastAPI program under `src/agora/coordinator`; agents talk to it over one
WebSocket each, humans over a REST API and a dashboard.  This directory holds
TLA+ models of it, TLC configurations that check them on small instances,
and proofs, checked by TLAPS, that hold for every value of the constants.

Everything is translated from the Python source.  Where a document says
something else, the code is what is modelled, and the difference is a *violation
run* (below).

## 1. The system

### 1.1 What makes it hard

The coordinator is a single process with one asyncio event loop.  There are no
locks around the state handlers share.  Each `Storage` call opens a connection
of its own, runs one statement (or a few), commits and closes; so **one storage
call is one atomic step**, and between two calls of a handler any other handler
may run.  In-memory tables (the connection hub, the task-parallel coordinator)
are changed between two awaits without interruption.  A step of the models is
therefore *what runs between two suspension points*.

What follows from that, and what tests hardly reach:

* a status, a round number, a list of online agents or a slot count is read
  before an await and used after it;
* a decision and the write it leads to are two steps;
* an agent that reconnects has two endpoints for a while, and both clean up;
* a restart loses every handler and all memory, and keeps the database as it is;
* an agent need not answer at all, and a message to one that is not connected
  is dropped silently;
* a row is read, changed in memory and written back whole by a later statement;
* a broadcast goes through a table of connections with an await per connection,
  while others change the table;
* a loop that is meant to wait for an answer ends on something else, or never.

### 1.2 Inventory

*M* modelled, *P* partly modelled, *-* not modelled; the reasons are under
`components` in `PROJECT.json` and in section 5.

| Component (main sources) | State | Operations, interaction | What is hard, what makes it correct | |
|---|---|---|---|---|
| Motion state machine (`state.py`) | `motions.status` | `transition(event)`: read, table lookup, write. Called by REST, by WebSocket handlers and by the scheduler | read and write are two storage calls; the status must follow the table and closed must be final | M |
| Discussion handlers (`ws_handlers.py`, `ws_vote.py`, `ws_smart.py`) | messages, votes, `current_round` | SPEAK with the round logic behind it, VOTE with the tally behind it, DEVILS_ADVOCATE_RESPONSE, HEARTBEAT | rounds completed by two handlers at once; a tally taken while votes and presence change; a vote must end | P |
| Smart scheduler (`smart_scheduler.py`, `dynamic_rounds.py`, `consensus_jump.py`) | per-motion assessor | `run_assessment`, next round, jump to the vote | nothing outside its own module calls it, in the shipped program; it reads the messages twice while agents speak | P |
| Connections and presence (`ws.py`, `ws_endpoint.py`, `timeout_checker.py`, `storage/agents.py`, `storage/agent_heartbeat.py`) | `agents` rows, `active_connections`, one coroutine per socket | connect, REGISTER, HEARTBEAT, disconnect; background task that marks silent agents offline | three views of one fact, each updated by somebody else | P |
| REST API (`router.py`) | - | register, deregister, start, force-vote, reads | concurrent with the handlers | P |
| Parallel execution (`task_parallel*.py`) | run queue, slots, futures, `_completed`, `_failed`, task rows | `execute_graph` loop; `on_task_complete`, `on_task_failed` from TASK_STATUS handlers | two kinds of dispatchers on one queue; tasks sent twice; early release; termination | P |
| File resource tracker (`task_resource*.py`) | locks and waiters per path | `acquire`, `release`, `release_all`, hand-over to a waiter | read locks of several readers, waiters that have given up; exclusion, no lost lock | M |
| Task lifecycle (`task_exec.py`, `task_assign.py`, `task_verify/`, `task_retry*.py`, `storage/tasks.py`) | task rows | assign, start, status, verify, accept, delegate, reassign, retry | most writers of a row do not look at its status first; one worker per task, one reviewer, terminal statuses stay, a done task is judged | P |
| Rate limiting (`rate_limiter.py`, `token_rate_limiter.py`, `ws_rate_limit.py`, `rate_limit_router*.py`) | windows, buckets, warning state, rows | consume, refill, warn, configure, flush to the database | boundaries of windows, two limiters for one agent, a configuration that changes under a bucket | M |
| Voting methods (`voting/`) | ballots, decision | vote, count, close | a vote that is stored while others count; ties, exhausted ballots, abstentions; the rules must not contradict each other | M |
| Heartbeat and timeout managers (`heartbeat.py`, `timeout.py`) | missed-PONG counters, table of timers | ping loop; start, cancel, run out | a timer is replaced while it wakes up, or from its own callback | P |
| Assessment of discussions (`assessment.py`, `quality_*.py`, `realtime_evaluator.py`, `focus.py`, ...) | - | levels, scores and decisions over messages | values at thresholds; messages that arrive during the assessment | P |
| Learning and memory (`curator.py`, `memory_sync.py`, ...) | statistics | similarity over closed motions | none that touches live state | - |
| Deadlock detection (`deadlock_prevention.py`) | reference counts | broadcasts a hint | - | - |
| Bootstrap engine (`bootstrap/`) | triggers, schedules, approvals, tasks | create, process a batch, wait for a result, decide, generate tasks | a process that ends between two writes; two engines on one trigger; a decision after a decision | P |
| Pipeline (`pipeline*.py`, `pipeline_phase_*.py`, `storage/pipelines.py`) | runs in memory, rows | phases with retries; create, retry, cancel over REST | reviewers and releasers that leave between the search and the message; a phase run again after a partial failure | P |
| Access control and audit (`rbac*.py`, `token_manager.py`, `audit.py`) | roles, tokens | check, issue, revoke | expiry and revocation | - |
| Dashboard (`dashboard*.py`, `event_bus.py`, `notifications.py`) | client table, notification rows | fan-out, subscriptions | a table that changes while it is iterated | P |
| Plugins (`plugin*.py`) | instances, hooks | discover, load, unload, reload, health sweep | two administrators at once, hooks called while an instance goes down | P |
| Tenants (`tenant/`, `storage/storage_manager.py`, `storage/global_store.py`) | tenant rows, one storage and hub per tenant | create, delete, lazy creation | two first requests at once | P |
| Storage (`storage/`) | SQLite | statements, `init_db` with migrations, read-modify-write of rows | the atomic step of all other modules; upgrades of old files; lost updates | P |
| Observability and health (`observability/`, `health.py`) | counters, logs | - | read by nothing | - |
| Startup, configuration (`main.py`, `config*.py`) | - | start, stop | what a start does to the files, what a restart leaves | P |
| Agent client (`agent_client/`) | one socket, pending requests, its copy of the limits | call and answer | its copy of the limits; no call of it can succeed against this coordinator (section 3.3) | P |
| SDKs and bridges (`packages/`) | connection, cards, pollers | run loop, assignment to card, polling, reports | a poller that outlives the assignment it reports for; an exception that ends the run loop, or the poller | P |
| Dashboard front end (`static/js`) | socket, queue, subscriptions | connect, reconnect, subscribe | late events of a socket that has been replaced | P |

Connections between them: a WebSocket endpoint runs one handler at a time and
dispatches by message type to the discussion handlers and the task handlers; a
REST request is a coroutine of its own; `main.py` starts the heartbeat timeout
checker (line 132) and the rate-limit flush (line 115) as background tasks; all
of them share the storage, the hub and the task-parallel coordinator.  Dashboards
connect to a hub of their own, to which handlers publish; a tenant has a storage
and a hub of its own, made at its first request.  The bootstrap engine, the Kanban
board, the pipeline's REST routes and the SDKs reach the coordinator over the
network.

## 2. The modules

| Module | What it is |
|---|---|
| `MotionTable` | the transition table of `state.py`, without state |
| `MotionLifecycle` | abstract specification of one motion: atomic transitions along the table, no close without a vote, votes stay (and may still come when it is closed) |
| `MotionHandlers` | the weaker specification that holds of any number of handlers: a status is decided on what was read, and written later; a vote is admitted, and stored later |
| `Discussion` | one motion as the handlers treat it, storage call by storage call |
| `Presence` | agent rows, connection table, endpoints, timeout checker, restarts |
| `ParallelExec` | one task graph, the loop and the handlers that dispatch from its queue |
| `TaskTable` | abstract specification of the task rows: statuses move along the table of `task_exec.py` |
| `TaskBoard` | the rows of one graph and everybody who writes them when it is not executed in parallel |
| `FileLocks` | the table of file locks and what the tasks that ask it believe |
| `TenantStore` | one tenant: its row, its database file, the storage and hub made at first use, `init_db` |
| `Plugins` | the instances of the plugins, discovered, loaded, unloaded and called |
| `RateLimits` | the limits on one agent: messages, tokens, warnings, configuration, the rows |
| `DashboardPush` | one dashboard page, its connections, the hub, subscriptions and notices |
| `Records` | the storage calls that read a row and write it back |
| `Deadlines` | `TimeoutManager`: timers and the table that shows them |
| `Bootstrap` | triggers, schedules, engines, approvals, tasks on the board |
| `Pipeline` | pipeline runs phase by phase, and the rows of the REST routes |
| `AgentBridge` | an SDK agent behind the Hermes bridge: run loop, cards, pollers, reports |
| `Ballots` | the voting package: votes and closers storage call by storage call, the counters as functions of the votes |
| `Deliberation` | what the scheduler makes of the messages of a motion, call by call |
| `Lists` | what stays of a list when some of its elements go, a recursive function in place of `SelectSeq`, which the prover cannot expand |
| `MCDiscussion`, `MCPresence`, `MCParallelExec`, `MCTaskBoard`, `MCRegistries`, `MCWork` | small instances for TLC |
| `Discussion_proofs`, `Presence_proofs`, `ParallelExec_proofs`, `TaskBoard_proofs` | theorems and proofs of the module of that name |
| `Tables_proofs` | theorems of `FileLocks`, `Records`, `Deadlines`, `Plugins`, `TenantStore` |
| `Registries_proofs` | theorems of `RateLimits`, `DashboardPush` and of the composition `MCRegistries` |
| `Work_proofs` | theorems of `Bootstrap`, `Pipeline`, `AgentBridge`, `Ballots`, `Deliberation` and of the composition `MCWork` |
| `Operators_proofs` | lemmas about the operators those modules share: sums over finite sets, recursion from a set to a part of it, lists, least and largest numbers |

`MotionLifecycle`, `MotionHandlers` and `MotionTable` are used by `Discussion`, `TaskTable` by
`TaskBoard`, `Lists` by `DashboardPush` and `Records`.  `MCRegistries` puts the tables side by side that the coordinator keeps
for all its coroutines (`FileLocks`, `TenantStore`, `Plugins`, `RateLimits`,
`DashboardPush`, `Records`, `Deadlines`), `MCWork` what carries work from an idea to
its end (`Bootstrap`, `Pipeline`, `AgentBridge`, `Ballots`, `Deliberation`).  Their
modules share no state in the program either, so a behaviour moves in one of them
(`part`), which is what interleaving them would show too.

Each definition of a model has an entry under `map` in `PROJECT.json` with the
lines it stands for.  Operators preceded by a comment that starts with `MUTANT`
are not part of a model: they are the form a plausible bug would give the
definition of the same name, and each property is checked to fail when its
mutant takes that definition's place.

### 2.1 Discussion

Motions share no state, so one motion is modelled.  Its processes are the
WebSocket endpoints (`Sockets`, each serving the agent `Owner[w]`), the REST
clients (`Clients`) and the callers of the scheduler (`Schedulers`, empty in
the shipped program).  `pc[p]` names the storage call a process is about to
make; `target`, `seen`, `tally` and `todo` are the local variables of the
coroutines that live across an await.

| Code | Actions |
|---|---|
| `StateMachine.transition` | `TransitionRead` (the motion is read and the table looked up), `TransitionWrite` / `AdvanceWrite` (whatever was decided is written) |
| SPEAK | `CanSpeak`, `AddMessage`, then `AssessRead` and `CollectRound` (`maybe_assess_round`), `NextRound`, `Advance`, `AdvanceWrite`, `Increment` or `ToVote` |
| DEVILS_ADVOCATE_RESPONSE | `DevilsAdvocateResponse`, a message with no check of the status |
| VOTE | `CanVote`, `HasVoted`, `AddVote`, then `_check_all_voted` as `Snapshot`, one `CheckOne` per agent, `Close` |
| REST start, force-vote | `StartMotion`; `ForceVote` and `ToVote` |
| `run_assessment` | `RunAssessment`, `SchedulerNextRound`, `Increment` |
| connection, HEARTBEAT, timeout checker | `Connect`, `Disconnect`, `Heartbeat`, `MarkStale`, as far as they change `is_online` |
| restart | `Crash` |

The verdict of the assessor depends on what messages say; both outcomes are
always possible.  Broadcasts, replies and pipeline notifications change no state
here and are left out.  A second vote row of one agent violates the table's
UNIQUE constraint; the exception ends the endpoint (`AddVote` to `drop`).

`FollowsLifecycle` instantiates `MotionLifecycle` with the same `status` and
`votes` as refinement mapping: all the coordinator's reads and local variables
are stutters, and every write must be a move of the table *from the status the
motion has at that moment*, which is what the code does not check.  It holds when one
REST client at a time asks for transitions, and no longer with two (`MotionReopened`).
What does hold with any number of clients, endpoints and schedulers is
`HandlersDecide`, the refinement of `MotionHandlers`: `decided[p]` is what `p` is about
to write, `admitted` the endpoints between `can_vote` and `add_vote`.

### 2.2 Presence

An endpoint goes through `none`, `asked` (`websocket_endpoint` has looked the
agent up), `known` (`hub.connect` has, again), `accepted`, `open` (the message
loop), `registering`, `leaving` (the `finally` clause between its two steps).
`active[a]` is the hub's entry.  `hub.disconnect(agent_id)` pops the entry of
the agent, whichever endpoint put it there (`Leave`).  The checker lists once
(`ListStale`) and marks one row per await (`MarkStale`).  `lastSeen` is `never`
(NULL), `fresh` or `old` (120 s, `heartbeat_timeout_seconds`), and `Age` is the
passing of that time.  A socket that has ended may connect again and stands for a
new one.  `Crash` empties the hub and the endpoints; the rows stay.

### 2.3 ParallelExec

Dispatchers are the loop of `execute_graph` (`Loop`) and the TASK_STATUS handler
of each agent's endpoint, which calls `on_task_complete` and with it
`dispatch_ready`.  `Dispatch` is the `while` loop up to its next suspension:
entries of nodes that are not PENDING are dropped, the next one that is becomes
the task in the dispatcher's `hand`.  `pick_agent` is `PickFree` (a free slot is
taken at once), or `CountRows` and `UseCount` (the slots are counted in the
table and set one step later).  `AssignTask` locks the paths, all or none, and
marks the node; `Assigned` follows the write of the row: the slot is taken, the
future is listed and the send starts.  `Send` completes the future: *not* when
the agent has done the work, but when the message has been written or dropped.
`Wake` is the return of `asyncio.wait`, `TaskStarted` / `TrackSlot` and
`TaskStatus` / `UpdateRow` / `OnDone` / `OnFailed` are the handlers.

Left open: the order in which candidates are tried; whether an agent is
connected (so a dispatcher may find no candidate at any time, `NoneFree`);
whether it ever reports (`Reporters` do, when they like).  "accepted" and "done"
rows are not told apart.  One graph at a time.  The result lists of
`execute_graph` are not modelled.  No caller in the shipped program hands the
coordinator a `TaskGraph` (`pipeline_executor.py:50` passes a dictionary), so
the module models it through its API, as its tests use it.

### 2.4 TaskBoard

Its processes are programs that call `assign_tasks` or `reassign_task`
(`Callers`) and the endpoints of the agents, one handler at a time each.
`call[c]` holds the local variables of a call, `hand[a]` those of a handler;
`job[t][a]` is how far the agent is with a task it has been sent, and `asked`
the `TASK_VERIFY` messages that wait for an answer.

| Code | Actions |
|---|---|
| `assign_tasks` | `AssignTasks` (the graph is read), `Find` (candidates), `LoadOne` (one count per candidate and call), `Assign` (the row), `Tell` (`TASK_ASSIGNED`); `NextTask` is the loop over batches, `Pick` the choice |
| `reassign_task` | `Reassign` (the row is read), `PickOther`, then `Assign` and `Tell` |
| `handle_task_failure` | `Retry`, for a task that has failed, since that is what it is an answer to |
| `handle_task_started`, `handle_task_status`, `handle_task_accept_result` | `TaskStarted`, `TaskStatus`, `TaskAcceptResult` up to their first write, then `Write`; `FollowedBy` says what comes after it: verification after "done", "pending" after "rejected" |
| `verify_task`, `is_simple_task`, `delegate_review` | `Verify`, one `CheckDep` per dependency, `AutoAccept`; `Delegate` |
| restart | `Crash` |

Left open: who is connected and capable and the order of candidates, whether
declared artifacts exist, what agents find.  Agents follow the protocol: they
start and report a task once for each time it is sent to them, and answer a
request for review once.  No shipped code calls `execute_task_graph` (whose
sequential fallback calls `assign_tasks`, `task_exec.py:190`), `reassign_task`
or `handle_task_failure`; the module models them through their API.

`moved` is a history variable: the tasks `reassign_task` has been called for.
The properties are about the others (`Steady`), among which the moved ones go on
and take slots, reviewers and endpoints.  `FollowsTable` instantiates `TaskTable` with the
rows as they are, and `"moved"` for a moved task.

### 2.5 The tables of the coordinator

**FileLocks.** `lock[p]` is the `ResourceLock` of a path, with one holder and a
queue; the tracker never suspends, so a call is a step: `Acquire` (`AcquireFree`,
`AcquireHeld`), `Queue`, `AcquireAll` (a list of paths, `acquire_sync`), `Release` with
`HandOver`, `ReleaseAll`.  Nothing tells a waiter that it has been handed a lock, so
what a task may do is in `granted`, the answers it got, and the properties compare
it with the table.  `uses` says which files a task reads or writes; `GiveUp` is the
caller that stops asking.  `shared` remembers who has read a path together with
another reader, since only the first of them is recorded.

**TenantStore.** A visitor's request is a coroutine that creates, deletes or uses the
tenant (`CreateTenant`, `InsertTenant`, `DeleteTenant`, `RemoveTenantStorage`,
`LazyConnect`, `GetTenantStorage`, ...); whoever finds no storage runs `init_db`,
statement by statement (`Script`, `ReadVersion`, `Alter`, `Record`, `SeedRoles`), on a
file that may be of an earlier version, half made, or in the hands of another visitor.
`Creates` and `Alters` are the tables and columns of `schema.py` that `init_db` can
trip over.

**Plugins.** Each discovery makes new instances, named by plugin and number.
Administrators (`Enable`, `Disable`, `Reload`, `HealthCheckAll`) suspend in `on_load`,
`on_unload` and `health_check`; `Skip`, `Unwell` and `EndSweep` are the sweep over a
snapshot of the registry that changes meanwhile.

**RateLimits.** One agent: `CheckRate` with the window of its messages,
`ReportOnSocket` and `ReportByPost` (two limiters), `Warned`, `Patch` and `StorePatch`
(the REST change is applied first and stored after an await), `Flush`,
`WaitUntilAvailable` and the client's copy (`Refilled`, `UpdateConfig`, `Deducted`).
`now` counts ticks up to `MaxTime`.

**DashboardPush.** The page (`ConnectPage`, `TimerFires`, `OnOpen`, `OnClose`,
`Subscribe`, `Unsubscribe`, `DisconnectPage`) and the endpoint of each of its
connections (`Accept`, `Refuse`, `Greet`, `HandleMessage`, `EndpointEnds`) learn of an
end at different times, in any order.  `Reached` says which endpoint `/ws/dashboard`
leads to: `{"agents"}` is the shipped program, where `/ws/{agent_id}` is registered
first (`main.py:252`) and every dial is refused; `{"agents", "dashboard"}`, in
`Registries`, leaves it open for each dial.  A token ends at any time (`ExpireToken`), and
a page with one that is not valid is refused as often as it dials.  `Publish`, `PublishPipeline` and
`CreateNotification` start a broadcast, `BroadcastEvent` and `SendTo` go through the
table of clients with an await for each.

**Records.** Three kinds of calls read a value and write it back in a later statement:
`AddNote`, `PutArtifact` (`ReadArtifact`, then insert or update), `AddWaitingTask`; what
else changes the row comes in between (`UpdateSession`, `DeleteArtifact`,
`AcquireResourceLock`, `ReleaseLocks`).  `met` is a history variable: the callers that
another call of the kind met between their read and their write.

**Deadlines.** `StartTimer` replaces a timer and cancels its task, `CancelTimeout`,
`HandleTimeout` wakes up and looks the action up by the motion, `OnTimeoutReturns` is
the end of the callback, during which it may start or cancel timers itself.

### 2.6 From an idea to its end

**Bootstrap.** An engine takes a batch of triggers through `CreateMotion`,
`StartDiscussion`, `WaitForResult`, `SubmitForApproval` and `MarkProcessed` (or
`MarkFailed`), one write or call to the coordinator a step, each of which may raise;
`Approve` and `Reject` are the deciders, `CreateTask` puts one action item on the
board.  `ProcessEnds` loses the coroutines and keeps the tables.

**Pipeline.** A run goes through `Discuss`, `Decompose`, `ExecuteGraph`, `FindReviewer`,
`DispatchReview`, `FindReleaser`, `DispatchRelease`, `Notify`; each may fail, and
`Again` repeats those that are retried.  Agents connect and leave (`AgentMoves`).
`StartPipeline`, `ReadToCancel`, `ReadToRetry` and `UpdateRow` are the REST routes.

**AgentBridge.** `Receive` takes the next message of the run loop; an assignment
becomes a card (`CreateCard`, `NoCard`) and is reported as started (`ReportStart`).
Each assignment, also of the same task, gets a poller: `Ask` starts `hermes`, and what
comes back makes it `PollAgain` (a card that is open, or a RuntimeError), `PollEnds` or
`PollBreaks` (any other exception, which ends the poller and tells nobody); nothing may
come back.  `PollTimesOut` is the end of its attempts.  What has arrived before the
connection ends is still received (`Receive`), and a report on it raises.

**Ballots.** `HandleVote` checks a vote against the motion and `AddVote` stores it, in
another storage call, when the motion may be closed.  Each of `Closers` reads the votes
and counts them (`CloseVoting`), and stores the decision in a call of its own
(`WriteDecision`), whatever the status is.  `counted` is a history variable: whose votes
the decision is made of.  The counters are functions of the votes and weights (`SimpleMajority`, `Supermajority`, `Unanimous`,
`Weighted`, `ApprovalWinners`, `RangeWinners`, `ChoiceWinners`, `RankedWinners`), with sets
of winners where the code takes the first of equals.  The loop of the
runoff is a recursive function on the options that remain.

**Deliberation.** Messages are counted by kind (stance, evidence, length).  `Consensus`,
`Quality`, `ShouldContinue` and `EndsEarly` are the levels, scores and thresholds of
the code as integer inequalities; `Assess`, `GetConsensusTopics`, `GetFocusTopics`,
`DynamicRounds`, `IncrementRound` and `StartVoting` are the awaits of one assessor,
`OnMessage` the evaluation of each message.

## 3. What the runs check

Passing runs, by the question they ask:

| Run | Instance | Shows |
|---|---|---|
| `DiscussionWired` | 2 agents, one with two endpoints that may break, 1 REST client, 1 restart, no scheduler | The shipped program with one client at a time: `ClosedOnFullTally` (a handler that goes on to close does so on a non-empty tally all of which has voted, although votes and presence change under it), the refinement `FollowsLifecycle`, and `VotingCloses` (every opened vote is closed, whichever tallies of last voters overlap, if from the beginning on nobody goes offline and nothing restarts) |
| `DiscussionRounds` | 2 agents, 2 clients, 1 scheduler, 2 rounds | Handlers that complete a round at once, a scheduler, and two clients that start and force the vote: `RoundBound` (the round counter overshoots its limit by fewer rounds than there are handlers), `NeverClosedUnvoted` (not even stale writes close a motion nobody voted on), `StatusSettles` (stale writes may send a motion back to an earlier phase, but not for ever), `TypeOK` |
| `Presence` | 2 agents, 3 endpoints, 1 restart | `EntryLive` (the hub never writes to the socket of an endpoint that has returned), `LoneReachable`, `GoneIsOffline` (without restarts the last endpoint to go leaves the agent offline), `GhostsFade` (after a restart the checker does) |
| `Parallel` | 3 tasks, 1 and 2 on one file, 3 after both; 2 agents with one slot each, one of which reports | `ReadyOnly` (nothing is queued or handed out before its dependencies count as completed, even when a task is queued twice), `NoOrphanLock` (the task of a lock is being sent or has a listed future), `Returns` (`execute_graph` returns, answers or not) |
| `TaskBoard` | 2 tasks, the second after the first and simple; 2 agents with one task at a time, one that may be away and one that reviews; one caller, 2 calls, 1 restart | `FollowsTable` (every status moves along the table although only TASK_STATUS looks at it), `WorkerNamed` (who has a task in hand is who the row names), `ReviewedIsDone` (a verdict meets the task it was asked for, once), `AutoAcceptSound`, `LoadBound`, `DoneIsJudged`, `TypeOK` |
| `Registries` | each table of section 2.5 by itself: 3 tasks and 2 files; 2 visitors of one tenant over files of five versions, 1 restart; 2 administrators of one plugin; limits with 2 rates and 3 ticks; a page with 2 connections; 3 callers of the storage; 3 timers of 2 motions | `TableTruthful` (writers are recorded and alone, a reader meets a writer only if it shares the file, no lock is left behind), `PatientServed` (who keeps asking for a file gets it), `TenantFilesSound` (a served tenant has a whole database, a file of this version always opens), `PluginsOnce` (an event is handled once by a registered instance, each load is unloaded at most once), `LimitsHold` (no window and no bucket lets more through, whatever is refilled or reconfigured), `HubTruthful` (every served connection is in the hub, once, through broadcasts that remove clients late; no notice is pushed that is not stored), `KeepsTrying` (a page that is told to connect ends connected, known to the hub and subscribed, or dials again and again, whatever is refused or lost), `LostToRacesOnly` (a write is lost only to a call it overlapped with), `OneDeadline` (one timer per motion, which does what it was started for), `RegistryTypes` |
| `Work` | each part of section 2.6 by itself: 2 triggers, 2 engines or 2 deciders, 1 end of the process; 1 run and 1 row; 2 cards of one job; 4 voters one by one, or 2 at once with 2 closers; 2 assessors or one with 6 messages | `ProcessedIsSubmitted` (a trigger counts as processed only when its discussion closed and its result was submitted), `TasksPerApproval` (no task twice per approval), `BatchSettles`, `ReleasedOnce` (one release request for a completed run, none for a failed one), `OneOutcome` (one start and one outcome per card), `StartedEnds` (a card that was reported as started gets its outcome reported, if hermes answers each time it is asked, unless the connection is gone or an answer breaks the poller), `CountersAgree` (stricter rules adopt less, a majority of first choices wins every ranked count, the decision is one of votes in the table whoever votes or closes late), `JumpIsUnanimous` (a jump to the vote happens at one stance only, though topics are read twice), `WorkTypes` |

Violation runs, where TLC finds the code to differ from what the repository says of it:

| Run | Says | Does |
|---|---|---|
| `PresenceReconnect` | `docs/DESIGN-fault-tolerance.md:135-137`: "On reconnect: Validate via same agent_id, Restore session state from last known position" | the old endpoint's clean-up pops the new endpoint's entry (`ws.py:55`) |
| `ParallelDeps` | `task_parallel.py:37`: "Execute all tasks in parallel where dependencies allow." | a dependency counts as completed when TASK_ASSIGNED has been sent (`task_parallel.py:64`) |
| `SchemaUpgrade` | `storage/storage.py:59`: "Initialize database tables and run pending migrations." | the tables of today are created before the columns of later versions are added to them, so a file of a version before 12 ends in "duplicate column name" (`storage/storage.py:115`) |
| `MotionReopened` | `docs/ARCHITECTURE.md:340`: all transitions go through `StateMachine`, which makes sure that they are legal | a second start in flight writes `discussing` over `voting` (`state.py:94`) |
| `DashboardLost` | `dashboard.py:3`: "Real-time updates are pushed via the /ws/dashboard WebSocket endpoint" | `/ws/{agent_id}` is registered first (`main.py:252`), takes the page for an agent nobody registered and closes it with 4004, each time it dials |

### 3.1 Bounds and why they are enough

* Two agents: one whose vote or message is the last and one that it races with.
  Three endpoints give one agent a second one.  The proofs below are for any number.
* One restart (`MaxCrashes`, `MaxRestarts`, `MaxStops`): the state a restart leaves
  behind is again one a restart could hit, there is no recovery procedure that could
  be interrupted, except `init_db`, which a second visitor runs at the same time.
* Two rounds (`Rounds`, `SchedulerRounds`): the first is completed and opens the
  second, the second meets the limit.  `round` needs no artificial cap:
  `RoundBound` is its cap.
* One slot per agent and three tasks: a task that waits for a slot, two that
  compete for a file and one that waits for both, queued twice when both complete
  in different handlers.  Every task is sent a bounded number of times because a
  node leaves PENDING at the first assignment.
* Two tasks and two agents on the task board, one slot each, so that a second
  assignment must look at the load of the first; the second task depends on the
  first, so that its acceptance without review reads a row others write.  Two
  calls (`MaxCalls`): an assignment and a reassignment or a second pass over what
  is pending again; one restart in the middle.
* Three tasks on one file: a holder, a sharer, and a waiter that meets both; the
  second file, used by one of them, gives `acquire_sync` a list.  With three users of
  both files the instance is 40 times as large.
* File versions 0 (no file), 6 and 11 (before the migrations that matter), 12 and 14
  (today's).  Two visitors: one that is in `init_db` while the other finds the file.
* Two administrators and two instances per name (`MaxInstances`): the one that is
  replaced and the one that replaces it.  `MaxLoads` cuts off a plugin reloaded for ever.
* `Minute` = 2 ticks, `MaxTime` = 3: a window that has passed and one that is
  half over.  Rates of 0 and 20 and amounts below and above what is left.
* The page has two connections, used again when both sides are through with them, and
  loses one (`MaxFaults`; it is refused any number of times), a queue of one message (`MaxQueue`)
  and two changes of its subscriptions.  Three connections with two losses and one
  change, and two publishers, were tried too, and held.
* Three callers of the storage: two that race and one that comes before or after;
  three timers for two motions: a replacement, and a motion that is not concerned.
* Two triggers of different priority, two engines; two motions with two action
  items; `MaxApprovals` = 2 for a decision that is repeated.
* `MaxRetries` = 2 attempts, `MaxMoves` = 3 changes of who is connected: a
  search, a message and a retry can each meet somebody else.
* Two cards of one job: the task is assigned a second time while the first poller is
  at work.  `PollMax` = 2 polls stand for the hour of polls.
* Four voters: an even split, a majority that is no two thirds, and a silent one.  Two
  voters and two closers: a vote that is stored after one closer has counted and before the
  other does; one of the two voters may vote a second time, which raises.
  Weights 0, 1 and 2: `weight_manager.py` stores what it is given, and a weight of 0 is
  where the weighted counter differs from the others.
  `Ballotings` and `Scores` are lists of ballots with every first choice, a short
  one and an empty one.
* Six messages of four kinds for one assessor, so that every level and threshold
  is met; four for two assessors, at either side of whose reads others speak.
* No symmetry is declared: the instances are small, and some check liveness.

`CHECK_DEADLOCK FALSE` is set where the system really stops: a graph that has been
executed, a board whose callers have made their calls, registries and work whose
bounded inputs are used up.

### 3.2 Fairness

Weak fairness of every step a suspended coroutine takes by itself: the event loop
resumes what can be resumed, and storage calls return.  In Presence also of the
checker, a `while True` loop with a sleep, and of `Age`, the passing of time.  In
Discussion also of `Connect` and `CanVote` for agents that are not `Flaky`: the
question of `VotingCloses` is whether a vote ends *when the agents take part*;
`Flaky` agents may go, and the property is about behaviours in which they do not.
`StatusSettles` needs no fairness.  In
ParallelExec agents are under no obligation.  In TaskBoard the answers of a
reviewer are strongly fair: a reviewer answers, and its endpoint takes its messages
in order, so an answer is not passed over for ever although the endpoint is busy
with other messages again and again; no other message is assumed to come.

In FileLocks a task that was granted a file gives it back (weakly fair) and one
that was refused asks again and again, so that it does ask while the lock is free or
its own (strongly fair); a task that gives up is excluded by the property, not by
fairness.  In DashboardPush the reconnect timer, the browser's events and the
endpoints go on (`PageProgress`), as do the broadcasts, and nothing says in which
order.  In Bootstrap the
engines' coroutines run, while nobody need decide and no discussion need close.  In
AgentBridge a poller whose sleep is over goes on (`Poll`); that `hermes` answers is
not assumed, since `communicate()` has no time-out (`cli.py:25`), but a premise of
`StartedEnds` for each card (`Answering`).  No REST client, scheduler,
message or disconnection is ever assumed to happen.

### 3.3 Departures that no run shows

They are in the models, or were met while writing them, and are no contradiction of
anything the repository says, or follow from reading alone.

Motions:

* with two REST clients, a start or force-vote decided earlier overwrites `closed`
  too (`state.py:94`, against the table at `state.py:50`; `MotionReopened`), and the motion is
  closed anew when somebody else votes;
* a tally is taken only after a vote, so a non-voter that leaves after the last one
  leaves the motion in VOTING (`ws_vote.py:172`), as does a restart between the last
  vote and its tally (`ws_vote.py:93`);
* a vote that was admitted while VOTING may be stored after the motion has closed
  (`ws_vote.py:75`);
* `start_motion` leaves `current_round` at 0 and `maybe_assess_round` returns on 0
  (`ws_smart.py:50`), so in the shipped program rounds never complete by themselves,
  other than `docs/PROTOCOL.md:158` has it;
* `round` can exceed `Rounds` (`ws_smart.py:204`), within `RoundBound`.

Connections:

* an agent that is registered and never connects has no `last_seen_at` and is
  never marked offline (`storage/agent_heartbeat.py:64`), which is why
  `GoneIsOffline` and `GhostsFade` speak of agents that have been seen;
* the checker marks an agent offline although a heartbeat came in after the
  agent was listed (`timeout_checker.py:42`);
* REGISTER on the connection of a registered agent raises in the INSERT and ends
  the endpoint (`ws_handlers.py:54`);
* `speak` and `vote` of the agent client put `motion_id` beside the payload
  (`client.py:113-117`, `:129-133`), the endpoint passes the payload alone
  (`ws_endpoint.py:141`), and the handlers look for it there (`ws_handlers.py:121`,
  `ws_vote.py:44`): each of these calls is answered with ERROR `missing_motion_id`,
  and what its answers do on a shared connection (`ws_pool.py:75`) was left out for that.

Tasks:

* slots are taken at the assignment and at TASK_STARTED, and given back at the
  send and at TASK_STATUS (`task_exec.py:116`), so an agent may hold more tasks
  than `max_concurrent_tasks`, and `slots` may become negative;
* since locks are given back when the message has been sent, two tasks on one
  file may be worked on at the same time; one task may be sent twice, when two
  dispatchers have each taken an entry of it; direct dependents of a failed task
  that are queued already are still dispatched;
* when `execute_graph` returns, tasks may still be queued, and tasks that handlers
  dispatch afterwards keep their locks until their agent reports; a second
  `execute_graph` on the shared coordinator empties the sets of the first
  (`task_parallel.py:39`);
* two calls of `assign_tasks` on one graph at the same time assign a pending task
  twice (`task_assign.py:103`): the theorems about the board assume one caller;
* a task that is reassigned while its agent reports it and a verdict comes in is
  accepted and then overwritten with "assigned" (`task_assign.py:174`, against
  `task_exec.py:20`);
* dependents are assigned in the pass that looked at their dependencies, whether
  those were assigned or not (`task_assign.py:144`), so the sequential path does not
  wait for a dependency to be accepted;
* a rejected or failed task is pending until the next call of `assign_tasks`, an
  assigned one whose message was lost stays assigned, and one that was done
  when there was no reviewer, or when the process died, stays done
  (`delegate.py:37`), which `DoneIsJudged` allows for with reviewers that stay
  and `crashes > 0`;
* `TASK_STARTED` and `TASK_ACCEPT_RESULT` are written without a look at the
  row (`task_exec.py:109`, `accept_result.py:31`): an agent that follows the
  protocol does not get to see it, one that repeats itself would;
* `abort` and `block_dependents` of a failed task call
  `storage.get_tasks_by_graph`, which the storage does not have
  (`task_retry_helpers.py:21`, `:43`; the tests mock it), and the number of
  retries is an argument that is stored nowhere (`task_retry.py:35`).

File locks: a second reader is granted a lock that records the first only, whose
release frees it; a lock is handed over to be written, whatever the waiter asked
for; `release_all` drops the queue, and `_wait_events` is filled by nothing.

Tenants and storage:

* a tenant that was deleted cannot be created again (its row stays, and the INSERT
  violates the key); a storage is made lazily for whatever tenant id a request names;
* of two overlapping `add_note` calls one note is lost (`storage/sessions.py:102`);
  `put_artifact` answers although the row was deleted in between, or raises after a
  concurrent insert; `resource_locks.path` is not unique, so `add_waiting_task`
  overwrites the list of every row of the path.  `session_notes` is unused, and only
  tests call `add_session_note` and `add_waiting_task`;
* of a migration with several columns TenantStore keeps the first and the last.

Plugins: two concurrent enables leave an instance with handlers that nothing unloads;
handlers are called after `on_unload`; `health_check` says "Return False to trigger
reload" (`plugin.py:78`) and the coordinator unloads; enabling ignores
`validate_manifest`; only tests call `health_check_all` and `fire_hook`.

Rate limits:

* the REST routes and the socket have a `TokenRateLimiter` each (`main.py:111`,
  `ws_endpoint.py:30`), so a PATCH does not reach the socket's buckets; a check
  without a bucket says "not allowed, wait 0"; what exceeds the budget is not
  deducted; `configure` applies the new rate to the time before it; a PATCH without
  a burst is 1.5 in memory and leaves the row as it is;
* at 100 % the warnings alternate between "warning" and "critical"
  (`ws_rate_limit.py:31`), where `docs/DESIGN-phase9-rate-limiting.md:265` speaks of
  RATE_LIMITED;
* the end of an agent's old endpoint removes the bucket of its new connection.

Dashboards:

* `connect()` is called again by the log-in (`auth.js:17`, `:45`) and by a reconnect
  with a pending timer; the late end of the old socket then schedules a dial that
  closes the good one, for ever; `KeepsTrying` says of such a page that it goes on dialling;
* a broadcast during which the table of clients changes raises (`dashboard_ws.py:132`),
  the exception ends the endpoint of the agent whose message was published, and the
  other dashboards miss the event;
* handlers publish to a channel "discussions" that nobody can subscribe to, pages
  subscribe to "agents" and "tasks", which are ignored; unsubscribed defaults come
  back with a reconnect; at a full queue a subscription can be undone; the pushed
  id of a notification is not the stored one; a page that is refused for its token
  dials again for ever (as `KeepsTrying` has it); nothing constructs `NotificationManager`.

Timers: an `on_timeout` that starts the timer of its own motion anew cancels
itself; the entry of a timer that has run out stays.  The program builds the manager
without `on_timeout` and starts no timer (`main.py:125`).

Bootstrap: a second decision overturns the first and generates the tasks again;
"rejected: discussion restarts" (`approval_flow.py:26`) does not happen; schedules fire
at every check; of two engines one can mark a processed trigger failed;
`routes_extra` imports `_approval_flow` by value and always answers 503;
`wait_for_result` measures with `.seconds`, so a limit of more than a day never ends.

Pipeline: the review's fix loop is never entered (`execute_fix_tasks` does not exist),
REVIEW_RESULT and RELEASE_RESULT have no handler, the rows of the REST routes and the
runs of the orchestrator never meet, `execute_graph` is given a dictionary, and a
cancelled row cannot be retried.

Agents: any exception in a handler ends the SDK's run loop while its heartbeat
goes on, and it does not reconnect; the poller of an earlier assignment may report
for a later one; an outcome is lost with the socket; a card may be reported as timed
out although it is done later; a poller is ended by an answer of `hermes` that is not JSON
or not an object, or when `hermes` cannot be started, since only RuntimeError is caught
(`polling.py:36`), and waits for ever for one that does not answer.  The bridge's daemon starts no adapter.

Votes and assessments:

* a vote that was admitted while voting is stored after the count or the close
  (`voting/manager.py:52`, `:72`, `:108`), so a motion that was closed as undecided may
  have a yes in the table; it may be closed again, with a count that differs, and of two
  closers the one that counted earlier may write last;
* the runoff eliminates together all options with the fewest first choices among
  those that have any (`ranked_choice.py`), so an option everyone ranks last can win;
  the ranked, approval and range methods are not registered and count as simple
  majority; nothing in the shipped program uses the package;
* evidence is read back as text, and `"[]"` counts as evidence
  (`quality_scorer.py:69`); messages have no `reply_to` and no round when they come
  from the storage, so rebuttals never score and `should_assess` is never true;
  `isinstance(..., Stance)` in `focus.py` is never true; an agent that speaks twice
  counts twice; only tests call `on_message` and `run_assessment`.

## 4. What is proved

TLAPS checks these for all values of the constants that satisfy the named
assumptions; the last column is what each rests on beside type correctness.

| Theorem | Property | Argument |
|---|---|---|
| `Discussion_proofs!TypeCorrect` | `TypeOK` | inductive as it stands |
| `Discussion_proofs!RoundBounded` | `RoundBound` | `RoundInv`: the bound alone is not inductive, a handler may have passed its check long ago.  Counting the handlers that have decided on one more round (`Pending`) with the round itself makes it so: deciding needs `round` below the limit, and each of finitely many handlers decides once at a time |
| `Discussion_proofs!TallyFull` | `ClosedOnFullTally` | `TallyInv`: while the tally is looked through, what has left the to-do list has voted, and votes stay |
| `Discussion_proofs!ClosedHasVotes` | `NeverClosedUnvoted` | `CloserInv`: a pending write of `closed` was decided on a full tally; no other event leads there |
| `Discussion_proofs!ImplementsHandlers` | `HandlersDecide` | step simulation, for any number of clients, endpoints and schedulers: a read of `transition` is a `Decide`, the write of the status an `Apply`, `can_vote` an `Admit`, `add_vote` a `Settle`; that `closed` is decided with votes there only rests on `TallyInv` |
| `Presence_proofs!TypeCorrect`, `EntriesLive` | `TypeOK`, `EntryLive` | `EntryLive` is inductive with the types |
| `Presence_proofs!SingleReachable` | `LoneReachable` | `Entered`: a lone endpoint is in the table from `accepted` on |
| `Presence_proofs!LastOneOut` | `GoneIsOffline` | `GoneInv`: a row that is online and has been seen has an endpoint that will still run its clean-up |
| `ParallelExec_proofs!TypeCorrect` | `TypeOK` | with `HandInv`: a dispatcher suspended with a task or a candidate holds one |
| `ParallelExec_proofs!ReadyOnlyHandedOut` | `ReadyOnly` | `ReadyInv`: queue entries, hands and assigned nodes all have their dependencies in `_completed`, which only grows; the entries a completion puts are counted by `NewEntries` |
| `ParallelExec_proofs!LocksOwned` | `NoOrphanLock` | inductive with the types: a lock is taken on the way to `assign`, the future is listed in the step that leaves it, and each step that removes a future releases the locks of the same tasks |
| `TaskBoard_proofs!TypeCorrect` | `TypeOK` | with the first part of `PlaceInv`, a suspended process has a task to go on with; for any number of callers |
| `TaskBoard_proofs!BoardConsistent`, `WorkersNamed`, `ReviewsAwaited` | `WorkerNamed`, `ReviewedIsDone` | `BoardInv`, under `Single` (one caller at a time).  Neither is inductive: whether a blind write is right depends on what the writer knows.  `HandlerInv` says it for handlers (the row is as it was when it was looked at, and no other handler or reviewer deals with the task), `CallerInv` for calls (what was read as pending still is, because nobody else leaves pending), `WorkerInv` for agents that have been told |
| `TaskBoard_proofs!AutoAcceptsSound` | `AutoAcceptSound` | `DepsInv`: dependencies that have been looked at stay accepted, since nobody leaves accepted |
| `TaskBoard_proofs!LoadsBounded` | `LoadBound` | `LoadInv`: a known load is never too low, as only this call adds to it |
| `TaskBoard_proofs!BoardFollowsTable` | `FollowsTable` | step simulation: each write is a `Move` by `BoardInv`, everything else stutters |
| `Tables_proofs!TableIsTruthful` | `TableTruthful` | `LockInv`, one statement per path, as calls for other paths do not disturb it (`PathStays`): who is queued was refused and is queued once (`QueueInv`), a lock to read is in its holder's hands (`ReadLockInv`), readers and writers are recorded unless they share (`ReaderInv`, `WriterInv`), a lock handed to a waiter is one it asked for (`HolderInv`).  The queue matters because the hand-over makes its head the holder |
| `Tables_proofs!LostToRaces` | `LostToRacesOnly` | every pair of calls that are between read and write at once has met (`TogetherMet`); so a call that met nobody writes to the row it read (`SameRow`, `SomeLock`), and notes of finished calls that met nobody are in the session and in whatever others have read of it (`NotesRead`) |
| `Tables_proofs!OneDeadlineEach` | `OneDeadline` | the entry of a motion is a timer of that motion (`EntryInv`), the action recorded for a motion is that of its sleeping timer (`ActionInv`), and a timer that was not created has done nothing (`FreshInv`) |
| `Tables_proofs!UnloadedAndHookedOnce` | `PluginsOnce` | `PluginInv`: an instance that is being loaded or unloaded is worked on by one coroutine and is down for everyone else, its handlers are in the registry until `on_unload` is back (`Workers`), an instance that was not made yet has done nothing (`Instances`), and the registry lists instances under their own names (`Named`) |
| `Tables_proofs!ServedDatabasesAreWhole` | `TenantFilesSound` | `TenantInv`: how far an `init_db` has come is in the file, whoever else writes it (`ScriptDone`, `AltersDone`); a table that is there with a version that is new enough has its columns (`Grounded`); on a file of this program's making no ALTER is due (`NoneDue`) |
| `Registries_proofs!LimitsAreKept` | `LimitsHold` | `WindowKept`: no minute, wherever it begins, holds more than the limit, because what is kept of the minute that ends now is all that was let through in it; as sums over sets of moments.  `Sound`: what a bucket gave and what it holds is at most its burst and what its rates brought since it was made, through refills, which may come at any time and are cut off at the capacity, and changes of its configuration |
| `Registries_proofs!HubIsTruthful` | `HubTruthful` | `PushInv`: `StaleIsGone`, what a suspended broadcast will still remove has been passed by its loop and does not come up again, so that it removes nobody who is served |
| `Registries_proofs!RegistriesCompose`, `RegistriesTyped` | `RegistryTypes` | each step of `MCRegistries` is a step of one table and a stutter of the six others, so the invariants of all hold in it |
| `Work_proofs!SubmittedBeforeProcessed` | `ProcessedIsSubmitted` | `BootInv`: an engine has a trigger, and a motion nobody else's that was made for it (`EngineOwns`), and has come as far as its motion has (`EngineProgress`); submissions are not taken back |
| `Work_proofs!TasksNeverDoubled` | `TasksPerApproval` | `TasksAndComing`: what is on the board *and what is still to come* of generations that run is at most the approvals; the bound alone is not inductive, a suspended generation may have any item ahead of it |
| `Work_proofs!ReleaseAskedOnce` | `ReleasedOnce` | `RunSent`: where a run is determines what it has sent, also in the middle of an attempt that will fail |
| `Work_proofs!OutcomeToldOnce` | `OneOutcome` | `CardHeard`, `LoopHolds`: what was reported of a card is what its poller has done, and the run loop starts pollers for cards nobody has heard of |
| `Work_proofs!CountersInAgreement` | `CountersAgree` | `BallotInv` (`CloserFounded`: what a closer is about to write, and what was written, is founded on votes in the table, which stay; `CountFounded`: a count is), then arithmetic on cardinalities and sums: a choice weighs at least what one of its voters does (`WeightSum`), of first choices at most one has half and more (`OneMajority`).  The loop of the runoff is shown to terminate and to solve its equation (`RunoffIs`), and that it has one winner at most by induction on the options that remain (`OneWinner`) |
| `Work_proofs!JumpsAreUnanimous` | `JumpIsUnanimous` | an action property, from `TalkInv`: whoever has found agreed sub-topics has read two messages at least (`AgreedOnSome`); the second read finds none that is not agreed, and messages are only added |
| `Work_proofs!WorkComposes`, `WorkTyped` | `WorkTypes` | as for the registries |

The inductive invariants of the tables and of the work (`LockInv`, `PluginInv`, `TenantInv`,
`RateInv`, `PushInv`, `BootInv`, ...) were first checked by TLC on the instances of
`Registries` and `Work`; no run of section 3 repeats that, since the proofs subsume it.

**Induction.**  `CountersAgree` and `LimitsHold` speak of sums over finite sets
(`MapThenSumSet`), which the community modules define as a CHOOSEn recursive function,
and the runoff of `Ballots` is a recursive function too.  The induction theorems of the
library take a predicate as a parameter, which the backends cannot instantiate.
`Operators_proofs` states them with a *set* of the good sets or numbers in place of a
predicate (`StrongSetInduction`, `SetInduction`, `NatSetInduction`), shows from
well-foundedness that a recursion from a set to a proper subset has a solution
(`SumsSolve`, `SetRecursion`), and derives what the models need: a sum splits off any
element (`SigmaTake`), over parts and over bounds (`SigmaSplit`, `SigmaBelow`), and
after a change at one place (`SigmaBump`).  `Without` of `Lists`, in place of `SelectSeq`,
gets its facts in the same way (`WithoutIs`, `WithoutKeeps`).

**Assumptions** are those of the modules (`ProcsAssumption`, `OwnerAssumption`,
`TasksAssumption`, `GraphAssumption`, `BallotAssumption`, ...): finite sets where
something is counted or summed (voters, options, kinds of messages, the limits that may
be set), constants that are not values (`NoLock`, `NoVote`), disjoint kinds of processes, and
the types of the constant functions.  TLC evaluates them on every run.  `StricterImplies`
is stated for weights of 0 as well, which the code allows: then a motion that has a yes
can stay undecided, by weight only.

The types of `Presence` and `ParallelExec` are proved for all constants, and no run
spends its time on them.

**Only model-checked**: the liveness properties `VotingCloses`, `StatusSettles`, `GhostsFade`,
`Returns`, `DoneIsJudged`, `PatientServed`, `KeepsTrying`, `BatchSettles` and `StartedEnds`
(liveness under fairness needs ENABLED and is out of the prover's reach); the fairness of the
compositions for the same reason; and `FollowsLifecycle`, which holds of the instance with
one client only and of no instance with two, so that its general form is
`ImplementsHandlers`.  Every other safety property of every passing run is a theorem.

## 5. What is not modelled, and what could come next

Not modelled: access control and audit (lookups in tables of permissions, tokens a
library signs), learning and memory (statistics over closed motions that nothing
acts on), the hint against circular references (it is given an agent and a motion,
`ws_handlers.py:167`), observability, the PING loop of `HeartbeatManager` (nothing reads
its result), the pages and read-only routes, approval of agents, the CLI bridge (bytes
of a terminal), the calls of the agent client, none of which can succeed against this
coordinator, the SDKs in Go, JavaScript and Rust (the same protocol), and what is
presentation in the dashboard.  Hazards without a property have a note in
`PROJECT.json`.

Next, in this order:

1. An abstract specification of the hub (who is connected gets what is published, once),
   and `DashboardPush` shown to implement it as long as nobody joins or leaves during a broadcast.
2. The functional correctness of `ConsensusTopics`, `FocusTopics` and the scores of
   `Deliberation` against definitions without the thresholds of the code.
3. Composition of `Discussion` and `Presence`: presence as the endpoints make it,
   in place of the coarse `Connect` / `Disconnect` of Discussion.
4. `FileLocks` in place of the all-or-none locks of `ParallelExec`.

## 6. Running

    tlc -workers 2 -config DiscussionWired.cfg MCDiscussion
    tlc -workers 2 -config DiscussionRounds.cfg MCDiscussion
    tlc -workers 2 -config Presence.cfg MCPresence
    tlc -workers 2 -config Parallel.cfg MCParallelExec
    tlc -workers 2 -config TaskBoard.cfg MCTaskBoard
    tlc -workers 2 -config Registries.cfg MCRegistries
    tlc -workers 2 -config Work.cfg MCWork
    tlapm TaskBoard_proofs.tla         # and the other *_proofs modules

The violation runs end with the counterexample:

    tlc -workers 2 -config PresenceReconnect.cfg MCPresence
    tlc -workers 2 -config ParallelDeps.cfg MCParallelExec
    tlc -workers 2 -config SchemaUpgrade.cfg TenantStore
    tlc -workers 2 -config MotionReopened.cfg MCDiscussion
    tlc -workers 2 -config DashboardLost.cfg DashboardPush

`Registries` and `Work` take about two minutes each, the other runs less; the proofs
of `TaskBoard`, `Tables`, `Registries` and `Work` take a few minutes each, the others seconds.
