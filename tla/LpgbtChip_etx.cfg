SPECIFICATION SpecBench
CONSTANTS
    Pin = {3, 8}
    Name = {"a", "HGCROC1_SRST"}
    Cfg <- CfgValue
    Etx = {0, 1}
    Loads <- LoadsValue
    Tables <- TablesValue
    Boards <- BoardsValue
    Burst = 2
    Samples = 1
    Tunes = {9}
    Cycles = 2
    Grid = 1
    Addresses = 2
    MaxServices = 2
    MaxFaults = 1
    MaxLong = 0
INVARIANT HalvesKept
CHECK_DEADLOCK FALSE
