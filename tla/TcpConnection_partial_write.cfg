SPECIFICATION Spec
CONSTANTS
    Users = {u1, u2}
    Loop = Loop
    MsgLen = 2
    MaxSends = 2
INVARIANTS
    HalfIsSaved
CHECK_DEADLOCK FALSE
