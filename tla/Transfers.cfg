SPECIFICATION TransfersSpec
CONSTANTS
    left = left
    right = right
    next = next
    after = after
    apart = apart
    Param <- MC_Param
    Layout <- MC_Layout
    Value = {0, 1}
    Default = 0
    Settings <- MC_Settings
    Limit = 4
    AddrBytes = 2
    Bridge = "bittware"
    Registers = 3
    Values = {0, 1}
    Chunk = 2
    Header = 1
    MaxTries = 2
    Runaway = 5
    Reads <- MC_Reads
    Writes <- MC_Writes
    MaxCalls = 3
    MaxLost = 1
INVARIANTS View ReadsTrue NothingSilent
PROPERTIES EconCallEnds CallEnds
CHECK_DEADLOCK FALSE
