SPECIFICATION FairSpec
CONSTANTS
    Threads = {t1, t2}
    MaxTime = 3
    MaxTasks = 3
INVARIANTS TimerCovers RemovedStaysOut ExecutedOnce IInv
PROPERTIES EveryTaskExecuted
CHECK_DEADLOCK FALSE
