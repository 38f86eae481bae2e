CONSTANTS
    LastStep = 2
    ModelSteps = {2}
    Quote <- FlatQuote
    Ceiling = 1
    RetryLimit = 1
    Calls = {c1, c2, c3}
    Names = {c1, c2, c3}
    Name <- OwnName
    RecoveryNames = {c3}
    MaxRecoveries = 1
    None = None
SPECIFICATION Spec
SYMMETRY CallSymmetry
INVARIANTS AttemptsNumbered ReceiptIsTruthful BudgetKept
PROPERTY ProgressHolds
CHECK_DEADLOCK FALSE
