SPECIFICATION FairSpec
CONSTANTS
    Writes = {w1}
    Scopes = {s1}
    Digests = {d1}
    Approvals = {a1}
    Permissions = {p1}
    Calls = {c1, c2}
    Recoverers = {r1}
    MaxRetries = 1
    None = None
CHECK_DEADLOCK FALSE
INVARIANT RunsOnlyAuthorised
PROPERTIES ClaimsHold OrphanNeedsRecovery WorkEnds
