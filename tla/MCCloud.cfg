SPECIFICATION Spec
CONSTANTS
    SqMsgs = {m1, m2}
    SqMaxRead = 2
    SqMaxFibers = 2
    SqMaxErrors = 2
    AwClients = {c1, c2}
    AwLimits = {1, 3}
    AwMaxDepth = 1
    AwMaxRetries = 1
    AwMaxBackoffs = 1
    AwBackoff = 1
    AcReaders = {r1}
    AcUsers = {u1}
    AcTtls = {1, 2}
    AcMargin = 1
    AcLast = 3
INVARIANTS ListenerSound AwsServed
 
CHECK_DEADLOCK FALSE
