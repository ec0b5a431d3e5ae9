SPECIFICATION FairSpec
CONSTANTS
    LoopThread = loop
    Callers = {c1, c2}
    Functors = {f1, f2}
    UserChannels = {u1}
    WakeupChannel = w
PROPERTIES
    QueuedFunctorRuns
    QuitKeepsCurrentTurn
    QuitReturns
