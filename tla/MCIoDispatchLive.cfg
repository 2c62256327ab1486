SPECIFICATION FairSpec
CONSTANTS
    IoThreads = {t1, t2}
    Outside = {o1}
    NoThread = NoThread
    Mixes <- SoundLive
PROPERTIES CallsReturn EveryoneResumes CommandsServed
CHECK_DEADLOCK FALSE
