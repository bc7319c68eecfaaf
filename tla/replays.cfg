CONSTANTS
    q1 = q1  q2 = q2  q3 = q3  q4 = q4
    body1 = body1  body2 = body2
    Requests = {q1, q2, q3, q4}
    HashOf <- Bodies
    PendingMs = 1
    MaxClock = 2
    MaxErrors = 1
    NoRow = NoRow  NoRequest = NoRequest
SPECIFICATION Spec
INVARIANTS RunsApart ReplaysAgree
PROPERTY StoredStays
SYMMETRY Symmetry
CHECK_DEADLOCK FALSE
