SPECIFICATION Spec
CONSTANTS
    LinkSize = 3
    None = None
    MaxTasks = 1
    Param <- AllParam
    Value <- Nat
    Place <- MC_Place
    Task <- NoinvTask
    Program <- MC_Program
    Boards <- MC_Boards
    Delays <- MC_Delays
    Standard <- MC_Standard
    Movers <- MC_Movers
INVARIANT RowsClaimed
CHECK_DEADLOCK FALSE
