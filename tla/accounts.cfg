CONSTANTS
    ann = ann  ben = ben  cho = cho  acme = acme  n1 = n1  n2 = n2  p1 = p1  p2 = p2  l1 = l1  l2 = l2  t1 = t1  t2 = t2
    r1 = r1  r2 = r2  r3 = r3
    Requests = {r1, r2, r3}
    Accounts = {ann, ben, cho}
    Logins = {l1, l2}
    WithEmail = {l1}
    Firm = acme
    Numbers = {n1, n2}
    Purchases = {t1, t2}
    Kind <- StoreKind
    Phones = {p1, p2}
    MaxAttempts = 1
    MaxChanges = 2
    Mixes <- AllMixes
    MaxNow = 2
    MaxAge = 1
    MaxKills = 1
    Nil = Nil
SPECIFICATION Spec
SYMMETRY Symmetry
INVARIANTS CredentialsUsedOnce ResetTakesOver OneLoginOneAccount
    MailBringsItsPassword 
    PaidIsKept CalendarIsSynced
    BelievedIsSaid SaidIsBelieved
CHECK_DEADLOCK FALSE
