\* One caller at a time, a task that is reassigned, a restart.
SPECIFICATION FairSpec
CONSTANTS
    a1 = a1
    a2 = a2
    c1 = c1
    NoAgent = NoAgent
    NoTask = NoTask
    Tasks = {1, 2}
    Agents = {a1, a2}
    DependsOn <- BoardDeps
    Plain = {2}
    Reviewers = {a2}
    Flaky = {a1}
    Callers = {c1}
    MaxConcurrent = 1
    MaxCalls = 2
    MaxCrashes = 1
INVARIANTS
    TypeOK
    WorkerNamed
    ReviewedIsDone
    AutoAcceptSound
    LoadBound
PROPERTIES
    FollowsTable
    DoneIsJudged
CHECK_DEADLOCK FALSE
