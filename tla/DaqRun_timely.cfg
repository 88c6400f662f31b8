SPECIFICATION FairSpec
CONSTANTS
    Boards = {"fiberless", "zcu", "bittware"}
    NScans = 2
    NPoints = 2
    NEvents = 2
    SampleChoices = {1, 2, 3}
    SoiChoices <- MC_TimelySoiChoices
    FieldSize = 32
    Timely = TRUE
    MaxExternal = 0
PROPERTIES RecordSpec
