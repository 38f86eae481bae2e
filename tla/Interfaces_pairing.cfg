SPECIFICATION Spec
CONSTANTS
    Subjects = {"pairing"}
    Nothing = Nothing
    Sent = {m1, m2}
    Posts = {p1}
    Created = {s1}
    Direct = {s2}
    Fresh = {i1, i2, i3}
    Callers = {c1, c2}
    MaxRev = 4
    Decisions = {d1, d2}
    Ops = {o1}
    Tokens = {t1, t2}
    Receipts = 1
    MaxVersion = 3
    Cloud = {k1}
    Local = {l1}
    Categories = {a1, a2}
    Request = a1
    Editors = {e1, e2}
    Starters = {b1, b2}
    Runs = {r1}
    MaxGrants = 2
    Records = {x1}
    Expiring = {x1}
    Keepers = {q1, q2, q3}
    MaxRetries = 2
    Bots = {bot1}
    Private = {mine}
    Groups = {group}
    LastUpdate = 2
    Polls = 2
CHECK_DEADLOCK FALSE
INVARIANT FirstUnseenIsPolled
