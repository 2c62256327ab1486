SPECIFICATION Spec
CONSTANTS
    HcReqs = 2
    HcHead = 2
    HcBody = 2
    HcCap = 3
    HlHead = 2
    HlSkips = 2
    HlBody = 3
    HlCap = 5
    HlBodyCap = 2
    TpMaxOps = 3
    RdRoutes <- MCRoutes
    RdRequests <- MCRequests
    RdQueries <- MCQueries
    RdMaxRoutes = 2
    RdMaxSubst = 1
    RdMethods = {"PUT", "GET", "DELETE"}
    H2Streams = {s1, s2}
    H2Control = c0
    H2MaxFrames = 3
    H2MaxLen = 1
    H2PipeCap = 1
    ScMod = 7
    ScMsgs = 4
    ScOffsets = 4
    ScMaxInits = 2
    DtAddrs = {a1, a2}
    DtFibers = {f1, f2}
    DtPeriod = 1
INVARIANTS HttpAsSent TlsOwned Demultiplexed SackExact
PROPERTIES ProtocolsProceed
CHECK_DEADLOCK FALSE
