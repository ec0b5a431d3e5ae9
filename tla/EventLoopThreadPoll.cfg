SPECIFICATION Spec
CONSTANTS
    MaxThreadNum = 5
    MaxCalls = 16
INVARIANTS
    TypeOK
    RoundRobin
