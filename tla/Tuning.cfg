SPECIFICATION TuningSpec
CONSTANTS
    parameter_lut <- MC_lut
    ByteBits = 3
    IntBits = 4
    LongBits = 8
    ScopeChoices <- MC_ScopeChoices
    PokeChoices <- MC_PokeChoices
    FileChoices <- MC_FileChoices
    CsvChoices <- MC_CsvChoices
    Initial <- MC_Initial
    max_tries = 2
    MaxDepth = 2
    Top = 4095
    MaxIts = 25
    Start = 1000
    StepDown = 50
    Slack = 12
    Stray = {1, 4200}
    Cases <- MC_Cases
    Channels = 4
    PerLink = 3
    TopVref = 7
    TrimTop = 2
    VrefIts = 40
    Curves <- MC_Curves
INVARIANTS View Reloads
    Bracketed NothingMissed BinaryClose OnlyHopeless
    Covered RightlyThrown GlobalClose TrimTight
PROPERTIES CallEnds SearchEnds TotScanEnds
