\* NUMBER_OF_PRINTS is 3 instead of 8: enough for strings buffered between
\* prints to be at different countdowns, so that the head is freed while
\* later nodes still hold strings and is then reused.
CONSTANTS
    NUMBER_OF_PRINTS = 3
    MaxStrings = 4
    NameSizes = {2}
    DumpLengths = {0, 1}

SPECIFICATION Spec

INVARIANT TypeOK
INVARIANT EveryStringPrintedExactlyN
PROPERTY EventuallyAllPrinted
