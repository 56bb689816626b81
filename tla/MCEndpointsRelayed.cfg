CONSTANTS
    a = a
    b = b
    Agents = {a, b}
    Sites <- OpenSites
    RelayAfterRounds = 1
    HealthyFor = 2
    RekeyAfter = 1
    FreshFor = 2
    SessionFor = 3
    Disturbances <- PathOnly
    MaxDisturbances = 1
SPECIFICATION FairSpec
PROPERTIES ReturnsToDirect
