\* The shipped program with two REST clients.
SPECIFICATION Spec
CONSTANTS
    a1 = a1
    a2 = a2
    w1 = w1
    w2 = w2
    w3 = w3
    Agents = {a1, a2}
    Sockets = {w1, w2}
    Owner <- OneSocketEach
    Flaky = {}
    Clients = {c1, c2}
    ClientCalls = {"start", "force_vote"}
    Schedulers = {}
    Rounds = 1
    SchedulerRounds = 0
    SpeakRounds = {1}
    MaxCrashes = 0
PROPERTY OnlyLegalMoves
