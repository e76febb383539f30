\* Reports carry timestamps 1..2 at a width of 2 bits (0..3): no report
\* reaches the wrap value and none carries time 0.
CONSTANTS
    n1 = n1
    n1b = n1b
    n2 = n2
    me = me
    meb = meb
    Addr <- MC_Addr
    Self = me
    MidMain <- MC_MidMain
    Pos <- MC_Pos
    Origin = 0
    Distance <- MC_Distance
    TimeBits = 2
    MinReportTime = 1
    MaxReportTime = 2

SPECIFICATION Spec

INVARIANT TypeOK
INVARIANT CacheHoldsLatestReport
INVARIANT DistanceStaleOnlyWithinTimeUnit
INVARIANT MultiplierMatchesDistances

PROPERTY RefinesPositionStore
