CONSTANTS
    DecisionIds = {d1, d2}
    RecordIds = {r1}
    Texts = {t1, t2}
    OpIds = {o1, o2}
    Callers = {c1, c2, c3}
    None = None
SPECIFICATION Spec
SYMMETRY Symmetry
CHECK_DEADLOCK FALSE
INVARIANTS AppliesToWhatWasShown OperationsAreFaithful
PROPERTY ActsAtomically
