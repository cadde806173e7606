\* The old endpoint goes after the new one has come.
SPECIFICATION Spec
CONSTANTS
    a1 = a1
    a2 = a2
    w1 = w1
    w2 = w2
    w3 = w3
    NoSocket = NoSocket
    Agents = {a1, a2}
    Sockets = {w1, w2, w3}
    Owner <- OldSocketToo
    MaxCrashes = 0
INVARIANT ConnectedReachable
