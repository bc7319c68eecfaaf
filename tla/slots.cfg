CONSTANTS
    j1 = j1  j2 = j2  w1 = w1  w2 = w2  c1 = c1
    Jobs = {j1,j2}
    Workers = {w1,w2}
    Conversations = {c1}
    ConvOf <- NoLocks
    Paid = {}
    MaxAttempts = 1
    UserSlots = 1
    MaxMsgs = 1
    Limit <- OneCrash
    NoConv = NoConv  NoJob = NoJob  NoMsg = NoMsg  Nobody = Nobody  Orphan = Orphan
SPECIFICATION Spec
PROPERTY RunsWithinSlots
SYMMETRY Symmetry
