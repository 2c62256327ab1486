SPECIFICATION Spec
CONSTANTS
    DnsHosts = {h1}
    DnsClients = {c1, c2}
    DnsMaxCalls = 2
    LkClients = {c1, c2, c3}
    TcpThreads = {t1, t2}
    TcpConns = {k1, k2}
    TcpMaxFds = 2
    StopConn = StopConn
    FlFibers = {f1, f2, f3}
    FlMain = FlMain
INVARIANTS DnsCallsSound AcceptsStopped FiberLives
PROPERTIES CallersAnswered
CHECK_DEADLOCK FALSE
