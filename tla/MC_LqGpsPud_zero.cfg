\* Reports may carry timestamp 0, the value local_record.time starts with.

CONSTANTS
    n1 = n1
    n1b = n1b
    n2 = n2
    me = me
    meb = meb
    Addr <- MC_Addr
    Self = me
    MidMain <- MC_MidMain
    Pos <- MC_Pos
    Origin = 0
    Distance <- MC_Distance
    TimeBits = 2
    MinReportTime = 0
    MaxReportTime = 2

SPECIFICATION Spec


INVARIANT MultiplierMatchesDistances
