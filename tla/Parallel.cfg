\* Two agents with one slot each; reports and messages may be missing.
SPECIFICATION FairSpec
CONSTANTS
    a1 = a1
    a2 = a2
    file = file
    Loop = Loop
    NoAgent = NoAgent
    NoTask = NoTask
    Tasks = {1, 2, 3}
    Agents = {a1, a2}
    Paths = {file}
    DependsOn <- GraphDeps
    Artifacts <- GraphFiles
    MaxConcurrent <- OneEach
    Reporters = {a1}
INVARIANTS
    ReadyOnly
    NoOrphanLock
PROPERTIES
    Returns
CHECK_DEADLOCK FALSE
