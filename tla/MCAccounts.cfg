CONSTANTS
    v1 = v1
    v2 = v2
    e1 = e1
    e2 = e2
    c1 = c1
    c2 = c2
    Visitors = {v1, v2}
    Emails = {e1, e2}
    Codes = {c1, c2}
    InviteRequired = TRUE
    MaxIssued = 4
    MaxFailures = 2
    MaxRestarts = 1
SPECIFICATION Spec
INVARIANTS InviteOnce AccountsLast SessionsHonoured LogoutFinal
SYMMETRY Symmetry
CHECK_DEADLOCK FALSE
