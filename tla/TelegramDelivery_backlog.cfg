SPECIFICATION FairSpec
CONSTANTS
    LastUpdate = 2
    SetupOffset = 0
    Workers = {p1, p2}
    RetryLimit = 1
    MaxAcks = 0
    None = None
CHECK_DEADLOCK FALSE
INVARIANT NoUpdateLost
PROPERTY AcceptedIsTakenUp
