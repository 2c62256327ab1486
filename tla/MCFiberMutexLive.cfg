SPECIFICATION FairSpec
CONSTANTS
    Fibers = {f1, f2, f3}
    Threads = {t1, t2}
    NoFiber = NoFiber
    MaxOps = 4
PROPERTIES
    EveryFiberProceeds
CHECK_DEADLOCK FALSE
