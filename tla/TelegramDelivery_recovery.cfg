SPECIFICATION FairSpec
CONSTANTS
    LastUpdate = 2
    SetupOffset = 2
    Workers = {p1, p2}
    RetryLimit = 2
    MaxAcks = 2
    None = None
CHECK_DEADLOCK FALSE
INVARIANTS WorkNotRepeated ReplyNotDuplicated
PROPERTIES TablesAreTrue ReplyIsSent
