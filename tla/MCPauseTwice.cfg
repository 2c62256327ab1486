SPECIFICATION FairSpec
CONSTANTS
    IoThreads = {t1, t2}
    Outside = {o1}
    NoThread = NoThread
    Mixes <- Pauses
PROPERTIES EveryoneResumes
CHECK_DEADLOCK FALSE
