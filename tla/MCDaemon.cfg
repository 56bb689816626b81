CONSTANTS
    MaxRequests = 2
    Addresses <- MCAddresses
    Servers <- MCServers
    MaxStarts = 2
    MaxRebinds = 1
SPECIFICATION FairSpec
INVARIANTS TypeOK NoLoop ExitNodeInForce Traceless PidFileTrue EndpointObserved ReceiverFree
PROPERTIES Stops
CHECK_DEADLOCK FALSE
