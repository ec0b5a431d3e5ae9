SPECIFICATION FairSpec
CONSTANTS
    Users = {u1, u2}
    Loop = Loop
    MsgLen = 2
    MaxSends = 2
INVARIANTS
    TypeOK
    SentInOrder
    FinAfterOwnSends
    ClosedOnce
    StaleNeedsHaste
PROPERTIES
    ShutdownSendsFin
    PeerCloseRemoves
CHECK_DEADLOCK FALSE
