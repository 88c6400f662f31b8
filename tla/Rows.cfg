SPECIFICATION RowsSpec
CONSTANTS
    LinkSize = 3
    None = None
    MaxTasks = 1
    Param <- AllParam
    Value <- Nat
    Place <- MC_Place
    Task <- MC_Task
    Program <- MC_Program
    Boards <- MC_Boards
    Delays <- MC_Delays
    Standard <- MC_Standard
    Movers <- MC_Movers
    NChan = 4
    MapLow = 3
    CalibAt = 1
    NLinks = 2
    NTrigger = 2
    NEvents = 2
    MaxRuns = 2
    Setups <- MC_Setups
INVARIANTS TypeOK Isolation RowsTrue CleanReturn
    RowsReal WrittenOnce Recovered
CHECK_DEADLOCK FALSE
