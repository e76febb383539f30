CONSTANTS
    MaxDepth = 3
    MaxEntries = 2
    BufLen = 4
    ReadResults <- MC_ReadResults
    UUIDLEN = 3
    UuidFiles <- MC_UuidFiles
INIT Init
NEXT Next
INVARIANT TypeOK JsonCommasCorrect UuidIsFirstLine
