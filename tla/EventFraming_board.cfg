SPECIFICATION FramingSpec
CONSTANTS
    NChan = 4
    MapLow = 3
    CalibAt = 1
    NLinks = 2
    NTrigger = 2
    NEvents = 2
    MaxRuns = 2
    Setups <- MC_BoardFiles
INVARIANT Separated
CHECK_DEADLOCK FALSE
