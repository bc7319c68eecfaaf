CONSTANTS
    x = x  y = y  z = z  u = u  m1 = m1  m2 = m2  t1 = t1  t2 = t2  d1 = d1  d2 = d2  r1 = r1  r2 = r2  r3 = r3
    Requests = {r1, r2, r3}
    Rows = {x, y, z}
    Applicants = {u}
    People = {m1, m2}
    Times = {t1, t2}
    Devices = {d1, d2}
    Mixes <- AllMixes
    MaxTokens = 1
    MaxTries = 2
    MaxRuns = 3
    Uuids = {1, 2, 3, 4}
    Moments = {1, 2, 3}
    PageLimit = 1
    MaxKills = 1
    Nil = Nil
SPECIFICATION Spec
SYMMETRY Symmetry
INVARIANTS DocumentAgrees SpentApprovals  CalendarFollows AnswerIsResumed
    StreamIsTrue PagesAreComplete ToldOnce  CallsFindTheirHandler
PROPERTIES  OnlyAskedIsChanged
CHECK_DEADLOCK FALSE
