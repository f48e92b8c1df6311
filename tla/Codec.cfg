SPECIFICATION Spec
CONSTANTS
    Outputs <- WiredOutputs
    Adcs = {1, 2, 3}
    Channels = {0, 1}
    FileChannels = {0}
    OddChannels = {0}
INVARIANTS
    PwInv RailsAccounted 
PROPERTIES
    PwSettles
CHECK_DEADLOCK FALSE
