SPECIFICATION Spec
CONSTANTS
    SpPids = {1, 2, 3}
    SpMaxCmds = 1
    EcChunks = 2
    RwTasks = {m1, m2}
    RwQueueVis = {2, 3}
    RsApps = {a1, a2}
    RsNoApp = RsNoApp
    RsMaxCopies = 2
    RsMaxStarts = 2
INVARIANTS ServersSound CommandsSound
PROPERTIES ProcessesProceed
CHECK_DEADLOCK FALSE
