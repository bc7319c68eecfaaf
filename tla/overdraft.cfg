CONSTANTS
    r1 = r1  r2 = r2  d1 = d1  d2 = d2  d3 = d3
    k1 = k1  e1 = e1  e2 = e2  month = month
    Requests = {r1,r2}
    KeyOf <- NoKeys
    Deliveries = {}
    EventOf <- NoEvents
    Monthly = month
    Amount <- One
    Estimate = 1
    MaxOpen = 2
    MaxErrors = 0
    NoKey = NoKey  NoJob = NoJob
SPECIFICATION Spec
INVARIANTS NoOverdraft
CHECK_DEADLOCK FALSE
