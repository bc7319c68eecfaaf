CONSTANTS
    i1 = i1  t1 = t1  r1 = r1  r2 = r2
    Isolates = {i1}
    Tokens = {t1}
    Calls = {r1,r2}
    Windows <- Minutes
    Limit = 3
    MaxLease = 2
    Share = 1
    Lone = 1
    MaxMishaps = 1
SPECIFICATION LeaseSpec
INVARIANTS  LeftoversGoBack
SYMMETRY Symmetry
CHECK_DEADLOCK FALSE
