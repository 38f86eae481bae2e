CONSTANTS
    LastStep = 2
    ModelSteps = {}
    Quote <- FlatQuote
    Ceiling = 2
    RetryLimit = 0
    Calls = {c1, c2}
    Names = {c1, c2}
    Name <- OwnName
    RecoveryNames = {c2}
    MaxRecoveries = 1
    None = None
SPECIFICATION Spec
INVARIANT NothingAfterFailure
CHECK_DEADLOCK FALSE
