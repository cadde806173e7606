\* A dependency counts as completed once it has been sent to its agent.
SPECIFICATION Spec
CONSTANTS
    a1 = a1
    a2 = a2
    file = file
    Loop = Loop
    NoAgent = NoAgent
    NoTask = NoTask
    Tasks = {1, 2, 3}
    Agents = {a1, a2}
    Paths = {file}
    DependsOn <- GraphDeps
    Artifacts <- GraphFiles
    MaxConcurrent <- OneEach
    Reporters = {a1}
INVARIANT RunsAfterDeps
CHECK_DEADLOCK FALSE
