SPECIFICATION FairSpec
CONSTANTS
    Timers = {t1, t2}
    Whens = {0, 4, 6}
    Intervals = {1, 4}
    Unit = 2
    MinDelay = 1
    Boot = 2
    ClockSteps <- Steps
    MaxSteps = 1
    MaxTime = 5
    None = None
INVARIANTS
    TypeOK
    NotLate
    NeverEarly
    Accounted
PROPERTIES
    EveryTimerRuns
CHECK_DEADLOCK FALSE
