SPECIFICATION Spec
CONSTANTS
    Users = {u1}
    Loop = Loop
    MsgLen = 2
    MaxSends = 1
INVARIANTS
    ClosedAtEnd
CHECK_DEADLOCK FALSE
