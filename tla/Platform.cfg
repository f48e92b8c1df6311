SPECIFICATION Spec
CONSTANTS
    DevNums = {1}
    StreamMax = 1
    LeakMax = 1
    Devs = {1, 2}
    OptionalOf = {2}
    SleepMax = 1
    UnbindMax = 1
    ProxyCount = 2
    StartMax = 2
    HotplugMax = 3
    EpisodeMax = 3
    Consumers = {"a", "b"}
    LoopLimit = 2
    NodeOf <- ClientNodes
    Partitions = {"fs1", "fs2"}
    MaxCallers = 2
    WriteMax = 1
INVARIANTS
     ProbeSafe PasSafe LmhSafe SpmiSafe UsbSafe  LineSafe
     RmtfsSafe
CHECK_DEADLOCK FALSE
