SPECIFICATION NsSpec
CONSTANTS
    NsPorts = {1, 2}
    Lookers = {2}
    RPorts = {1}
    Services = {1}
    Instances = {1, 2}
    FServices = {0}
    FInstances = {0, 2}
    RcvBuf = 2
    MaxInbox = 2
    MaxReqs = 4
    MayMisname = FALSE
    MayFail = FALSE
INVARIANT NeighbourExact
CHECK_DEADLOCK FALSE
