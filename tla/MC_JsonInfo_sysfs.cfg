CONSTANTS
    MaxDepth = 2
    MaxEntries = 1
    BufLen = 4
    ReadResults <- MC_ReadResults
    UUIDLEN = 3
    UuidFiles <- MC_UuidFiles
INIT Init
NEXT Next
INVARIANT SysDataInBounds
