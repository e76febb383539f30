\* An 8-bit millisecond clock advanced 40 ms per tick from 0 for 4 ticks: it never wraps.
CONSTANTS
    nA = nA
    Neighbour <- MC_Neighbour
    Pos <- MC_Pos
    InitialPos = 2
    ZeroPos = 0
    Distance <- MC_Distance
    ClockBits = 8
    StartTime = 0
    MaxTicks = 4
    TickMs = 40
    LqBytes = {255}
    LQ_QUICKSTART_STEPS = 1
    LQ_QUICKSTART_AGING <- MC_QuickstartAging
    LqAging <- MC_LqAging
    LossLinkMultipliers = {65536}
    MinimalUsefulLq <- MC_MinimalUsefulLq
    LINK_COST_BROKEN = 4194304
    MaxOutcomes = 2

SPECIFICATION Spec

INVARIANT TypeOK
INVARIANT PositionsTrackLatestReports
INVARIANT SpeedNeverNaN
INVARIANT LiteQuickstartExact
