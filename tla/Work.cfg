SPECIFICATION Spec
CONSTANTS
    Topics = {"outage", "review"}
    Priority <- Urgency
    BatchLimit = 2
    e1 = e1
    e2 = e2
    a1 = a1
    a2 = a2
    Engines = {e1, e2}
    Deciders = {d1, d2}
    Motions = {m1, m2}
    ItemCount = 2
    MaxApprovals = 2
    MaxStops = 1
    NoMotion = NoMotion
    Runs = {r1}
    Rows = {w1}
    Clerks = {c1, c2}
    MaxRetries = 2
    MaxMoves = 3
    Jobs = {"job"}
    Cards = {"card1", "card2"}
    PollMax = 2
    MaxMail = 2
    v1 = v1
    v2 = v2
    Closers = {k1, k2}
    Voters = {v1, v2, v3, v4}
    Options = {"a", "b", "c"}
    Rankings <- Ballotings
    Scorings <- Scores
    MaxScore = 1
    Weights = {0, 1, 2}
    NoVote = NoVote
    Kinds <- Messages
    Assessors = {a1, a2}
    MinRounds = 2
    MaxRounds = 3
    MaxMessages = 6
INVARIANTS WorkTypes ProcessedIsSubmitted TasksPerApproval ReleasedOnce OneOutcome CountersAgree
PROPERTIES JumpIsUnanimous BatchSettles StartedEnds
CHECK_DEADLOCK FALSE
