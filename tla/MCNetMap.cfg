CONSTANTS
    Machines = {1, 2, 3}
    Entries <- Names
    Denotes <- NamesDenote
    Routes <- Prefixes
    Default = "default"
    Label <- OneLabel
    Policies <- TwoPolicies
    Approvals <- ForNas
    Options <- Usual
    Files <- OldFile
    MaxChanges = 2
    MaxFailures = 1
SPECIFICATION FairSpec
INVARIANTS RoutesApproved OwnSubnetsLocal KnownInEngine NamesReachable
PROPERTIES Converges TunnelsMutual
CHECK_DEADLOCK FALSE
