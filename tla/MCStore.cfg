CONSTANTS
    RotateAfter = 1
    Grace = 1
    Pubs = {p1, p2}
    Names = {n1}
    Users = {u1}
    Nobody = Nobody
    KeyRequests <- Requests
    CidrSize = 4
    MaxTime = 1
    MaxSecrets = 4
    MaxFailures = 1
SPECIFICATION Spec
SYMMETRY Symmetry
INVARIANTS UniqueIPs RevokedTokensRefused EnrolmentDurable SingleUse
PROPERTIES ImplementsLeases
