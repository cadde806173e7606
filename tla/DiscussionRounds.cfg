\* Rounds under way: a scheduler opens round 1.
SPECIFICATION Spec
CONSTANTS
    a1 = a1
    a2 = a2
    w1 = w1
    w2 = w2
    w3 = w3
    Agents = {a1, a2}
    Sockets = {w1, w2}
    Owner <- OneSocketEach
    Flaky = {}
    Clients = {c1, c2}
    ClientCalls = {"start", "force_vote"}
    Schedulers = {s1}
    Rounds = 2
    SchedulerRounds = 2
    SpeakRounds = {1, 2}
    MaxCrashes = 0
INVARIANTS
    TypeOK
    RoundBound
    NeverClosedUnvoted
PROPERTIES
    StatusSettles
