CONSTANTS
    a1 = a1
    a2 = a2
    t1 = t1
    t2 = t2
    u1 = u1
    u2 = u2
    Attempts = {a1, a2}
    Tabs = {t1, t2}
    Users = {u1, u2}
    AllowedEmails = {u1}
    AllowedDomain = {u2}
    TTL = 1
    MaxMishaps = 1
SPECIFICATION FairSpec
INVARIANTS TokensWork NotForgotten OwnersAllowed
PROPERTIES LinkIsDead EnrolmentEnds
CHECK_DEADLOCK FALSE
