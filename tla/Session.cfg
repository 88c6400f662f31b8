SPECIFICATION MCSpec
CONSTANTS
    MaxL1A = 2
    StandardDelay = 20
    Typed <- TypedValue
    MaxTyped = 1
    Link = {0, 1}
    Step = 5
    Top = 25
    MaxSlip = 2
    WidthMax = 64
    Scripts <- ScriptsValue
    Numbers <- NumbersValue
    Roc = {0}
    OptoName = {"DAQ", "TRG"}
    BusName = {"B"}
    Channels = {0, 1}
INVARIANTS Numbered Aligned WidthTrue
CHECK_DEADLOCK FALSE
