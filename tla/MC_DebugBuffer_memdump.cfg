CONSTANTS
    NUMBER_OF_PRINTS = 3
    MaxStrings = 4
    NameSizes = {2}
    DumpLengths = {0, 1}

SPECIFICATION Spec

INVARIANT NoMemdumpOverrun
