CONSTANTS
    Machines = {1, 3}
    Entries <- Names
    Denotes <- NamesDenote
    Routes <- Prefixes
    Default = "default"
    Label <- OneLabel
    Policies = {}
    Approvals <- ForNas
    Options <- Routers
    Files <- NewFile
    MaxChanges = 2
    MaxFailures = 0
SPECIFICATION FairSpec
PROPERTIES RoutesAdvertised
CHECK_DEADLOCK FALSE
