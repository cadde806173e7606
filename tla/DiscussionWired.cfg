\* The shipped program: no scheduler, one REST client at a time.
SPECIFICATION FairSpec
CONSTANTS
    a1 = a1
    a2 = a2
    w1 = w1
    w2 = w2
    w3 = w3
    Agents = {a1, a2}
    Sockets = {w1, w2, w3}
    Owner <- OldSocketToo
    Flaky = {w1, w2}
    Clients = {c1}
    ClientCalls = {"start", "force_vote"}
    Schedulers = {}
    Rounds = 1
    SchedulerRounds = 0
    SpeakRounds = {1}
    MaxCrashes = 1
INVARIANTS
    ClosedOnFullTally
PROPERTIES
    FollowsLifecycle
    VotingCloses
