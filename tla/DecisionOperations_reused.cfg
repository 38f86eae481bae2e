CONSTANTS
    DecisionIds = {d1}
    RecordIds = {r1}
    Texts = {t1, t2}
    OpIds = {o1}
    Callers = {c1, c2}
    None = None
SPECIFICATION Spec
INVARIANT PayloadBindsOperation
CHECK_DEADLOCK FALSE
