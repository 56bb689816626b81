CONSTANTS
    a = a
    b = b
    Agents = {a, b}
    Sites <- HiddenSites
    RelayAfterRounds = 1
    HealthyFor = 2
    RekeyAfter = 1
    FreshFor = 2
    SessionFor = 3
    Disturbances <- AllDisturbances
    MaxDisturbances = 2
SPECIFICATION FairSpec
INVARIANTS MarkEarned
PROPERTIES Reconnects MarkLeaves
