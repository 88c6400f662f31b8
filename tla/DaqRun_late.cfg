SPECIFICATION ProgramSpec
CONSTANTS
    Boards = {"bittware", "fiberless"}
    NScans = 2
    NPoints = 2
    NEvents = 1
    SampleChoices = {0, 2, 3}
    SoiChoices <- MC_LateSoiChoices
    FieldSize = 2
    Timely = FALSE
    MaxExternal = 1
INVARIANTS InOrder Accounting LossBound SettingHeld OneSoi
PROPERTIES ScanEnds
