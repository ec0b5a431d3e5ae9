SPECIFICATION TimedSpec
CONSTANTS
    LoopThread = loop
    Callers = {c1, c2}
    Functors = {f1, f2, f3}
    UserChannels = {u1}
    WakeupChannel = w
INVARIANTS
    TypeOK
    NoLostWakeup
    NoLostQuit
PROPERTIES
    QueueSpec
    BatchClosed
    EarlyFunctorRuns
