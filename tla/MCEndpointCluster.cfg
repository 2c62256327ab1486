SPECIFICATION Spec
CONSTANTS
    Clients = {c1, c2, c3}
    Addrs = {a1}
    MaxConn = 2
    MaxTries = 2
    MaxCalls = 4
    Troubles <- Various
SYMMETRY Symmetry
INVARIANTS SocketsCapped ErrorsErased SleepersAwaited
CHECK_DEADLOCK FALSE
