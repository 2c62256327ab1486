SPECIFICATION FairSpec
CONSTANTS
    Threads = {t1, t2}
    Conns = {c1, c2}
    HibConns = {c1}
    NoThread = NoThread
    NoConn = NoConn
    Modes <- Studied
INVARIANTS TimedOutAsleep SweepsSound
 
CHECK_DEADLOCK FALSE
