SPECIFICATION EconSpec
CONSTANTS
    left = left
    right = right
    next = next
    after = after
    apart = apart
    Param <- MC_Param
    Layout <- MC_Layout
    Value = {0, 1}
    Default = 0
    Settings <- MC_LongRun
    Limit = 4
    AddrBytes = 2
INVARIANTS AllSet
