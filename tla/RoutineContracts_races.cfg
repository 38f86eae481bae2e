CONSTANTS
    Proposals = {p1, p2, p3}
    Routines = {m1, m2}
    Runs = {r1, r2}
    Keys = {k1, k2}
    Callers = {c1, c2}
    None = None
SPECIFICATION Spec
SYMMETRY Symmetry
CHECK_DEADLOCK FALSE
INVARIANTS RevisionsAreSound RunsAreSound
PROPERTY ContractsGiveWay
