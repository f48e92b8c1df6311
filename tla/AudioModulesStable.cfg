SPECIFICATION ModulesSpec
CONSTANTS
    RegisterDevices = {TRUE}
    Loadable = {{"audio", "wcd"}}
INVARIANT CodecNodesStable
