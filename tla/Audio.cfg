SPECIFICATION Spec
CONSTANTS
    RegisterDevices = {TRUE, FALSE}
    Loadable = {{"audio", "lpi"}, {"audio", "card"}, {"audio", "wcd"}}
    Dirs = {"playback", "capture"}
    PeriodCounts = {2}
    QueueMax = 3
    ResumeMax = 1
    Fragment = 2
    Fragments = 2
    MaxBytes = 6
    WaitsForDrain = TRUE
    ReportsEachEos = FALSE
    ComprQueueMax = 2
    BindMax = 2
INVARIANTS
    ModulesSafe   BindSafe
PROPERTIES
    ImplementsLifecycle CallsReturn  BindingEnds
