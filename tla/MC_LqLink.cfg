\* A quickstart of one outcome, two packet outcomes between clears, and
\* PUD reports with timestamps 1..2 at a width of 2 bits (no wrap, no 0).
CONSTANTS
    me = me
    nb = nb
    zero = zero
    Me = me
    Peer = nb
    ZeroAddr = zero
    LQ_QUICKSTART_STEPS = 1
    LQ_QUICKSTART_AGING <- MC_QuickstartAging
    LqAging <- MC_LqAging
    LossLinkMultipliers = {65536}
    MinimalUsefulLq <- MC_MinimalUsefulLq
    LINK_COST_BROKEN = 4194304
    MaxOutcomes = 2
    Addr <- MC_Addr
    MidMain <- MC_MidMain
    Pos = {0, 1}
    Origin = 0
    Distance <- MC_Distance
    TimeBits = 2
    MinReportTime = 1
    MaxReportTime = 2
    IpVersion = 4
SPECIFICATION Spec
INVARIANT TypeOK QuickstartExact LqInUnitInterval CostUsesPeerMultiplier
