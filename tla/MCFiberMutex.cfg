SPECIFICATION Spec
CONSTANTS
    Fibers = {f1, f2, f3, f4}
    Threads = {t1, t2, t3}
    NoFiber = NoFiber
    MaxOps = 7
SYMMETRY Symmetry
INVARIANTS MutualExclusion SleeperHasWaker IInv RunnableIsSaved ExactlyOnePlace
PROPERTIES MonitorSpec
CHECK_DEADLOCK FALSE
