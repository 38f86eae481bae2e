SPECIFICATION Spec
CONSTANTS
    Subjects = {"stores", "connectors", "watches", "setup", "change", "migration", "roots", "personas", "trials", "delegation", "selections", "forecasts"}
    Nothing = Nothing
    Starters = {p1, p2}
    Legacy = {x1}
    Late = {x2}
    New = {x3}
    Services = {s1, s2}
    Documents = {d1}
    Texts = {t1}
    Empty = Empty
    Sources = {y1}
    Budgets = {0, 1}
    Quotes = {1}
    Runs = {r1}
    Cloud = {k1}
    OnMachine = {l1}
    Fake = l1
    Public = {simon}
    Private = {mine}
    Others = {keys, grants}
    InstanceFile = record
    MaxEdits = 1
    Server = {v1, v2}
    Callers = {c1, c2}
    Presets = {simon}
    Ids = {i1}
    Fingerprints = {f1, f2}
    MaxRevision = 4
    Metrics = {m1}
    Revisions = {n1, n2}
    AtFirst = n1
    MaxVersion = 4
    Categories = {a1}
    Evidence = {e1, e2}
    MaxCalls = 2
    MaxUses = 1
    MaxCost = 2
    Overrun = 1
    MaxItems = 3
    MaxMessages = 5
    MaxSize = 2
    MaxCap = 6
    Forecasts = {g1, g2}
    Proposals = {q1, q2}
    Contents = {b1}
CHECK_DEADLOCK FALSE
INVARIANTS MigrationKeepsEveryRecord RunsWithinAgreement SetupActivatesWhatWasAccepted RootsAreWhole DelegationIsBounded SelectsTheBest ActiveLineWasAgreed
PROPERTIES RemovalStands ChangeKeepsGrants MigrationIsWhole NothingIsUndone AcceptanceIsEarned
