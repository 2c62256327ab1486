SPECIFICATION Spec
CONSTANTS
    IoThreads = {t1, t2, t3}
    Outside = {o1}
    NoThread = NoThread
    Mixes <- Sound
SYMMETRY Symmetry
INVARIANTS PausedAlone AtRestFlushed ControlWatched OnEachExact
CHECK_DEADLOCK FALSE
