SPECIFICATION Spec
CONSTANTS
    Writes = {w1, w2}
    Scopes = {s1}
    Digests = {d1, d2}
    Approvals = {a1, a2}
    Permissions = {p1}
    Calls = {c1, c2}
    Recoverers = {}
    MaxRetries = 0
    None = None
SYMMETRY CallSymmetry
CHECK_DEADLOCK FALSE
INVARIANTS RunsWhatWasApproved
