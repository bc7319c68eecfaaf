CONSTANTS
    r1 = r1  r2 = r2  d1 = d1  d2 = d2  d3 = d3
    k1 = k1  e1 = e1  e2 = e2  month = month
    Requests = {r1,r2}
    KeyOf <- SameKey
    Deliveries = {d1,d2,d3}
    EventOf <- Events
    Monthly = month
    Amount <- Two
    Estimate = 2
    MaxOpen = 2
    MaxErrors = 1
    NoKey = NoKey  NoJob = NoJob
SPECIFICATION Spec
INVARIANTS OneJobPerKey OneRowPerReference BalanceIsSum PaidIsGranted
CHECK_DEADLOCK FALSE
