SPECIFICATION FairSpec
CONSTANTS
    parameter_lut <- MC_lut
    ByteBits = 3
    IntBits = 4
    LongBits = 8
    ScopeChoices <- MC_ScopeChoices
    PokeChoices <- MC_PokeChoices
    FileChoices <- MC_FileChoices
    CsvChoices <- MC_CsvChoices
    Initial <- MC_Cleared
    max_tries = 2
    MaxDepth = 2
INVARIANT DumpsLoad
