SPECIFICATION Spec
CONSTANTS
    Senders = {s1, s2, s3}
    High = 3
    Low = 1
    ResumeMax = 2
    Nodes = {n1, n2, n3}
    NodeIds = {i1, i2}
    Holders = {u1, u2}
    RefMax = 4
    Deliverers = {u1}
    Socks = {k1, k2, k3}
    SockPorts = {ctrl, p1, p2}
    Ctrl = ctrl
    NsPorts = {1, 2}
    Lookers = {2}
    RPorts = {1}
    Services = {1}
    Instances = {1, 2}
    FServices = {0}
    FInstances = {0, 2}
    RcvBuf = 2
    MaxInbox = 2
    MaxReqs = 4
    MayMisname = TRUE
    MayFail = TRUE
INVARIANTS
      PortSafe 
PROPERTIES
    SendersReleased 
CHECK_DEADLOCK FALSE
