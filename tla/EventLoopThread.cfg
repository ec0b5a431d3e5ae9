SPECIFICATION TFairSpec
CONSTANTS
    LoopThread = loop
    Callers = {owner, c1}
    Owner = owner
    Functors = {f1, f2}
    UserChannels = {u1}
    WakeupChannel = w
INVARIANTS
    TTypeOK
    StartLoopReturnsLoop
    RacesNeedUserQuit
PROPERTIES
    DestructorReturns
    HandedFunctorRuns
CHECK_DEADLOCK FALSE
