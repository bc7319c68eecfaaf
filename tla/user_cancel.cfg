CONSTANTS
    j1 = j1  j2 = j2  w1 = w1  w2 = w2  c1 = c1
    Jobs = {j1}
    Workers = {w1}
    Conversations = {c1}
    ConvOf <- OneChat
    Paid = {j1}
    MaxAttempts = 2
    UserSlots = 1
    MaxMsgs = 1
    Limit <- Users
    NoConv = NoConv  NoJob = NoJob  NoMsg = NoMsg  Nobody = Nobody  Orphan = Orphan
SPECIFICATION Spec
PROPERTY FinishedStays

