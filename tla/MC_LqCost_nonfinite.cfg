\* Adds the infinite and NaN multipliers.
CONSTANTS
    MinimalUsefulLq <- MC_MinimalUsefulLq
    LINK_COST_BROKEN = 4194304
    LqByteValues <- MC_LqByteValues
    Multipliers <- MC_NonFiniteMultipliers
    IpVersions = {4}
    CodecLqs <- MC_CodecLqs
    CodecAddrs = {a1}
    CodecFloats = {f1}
    CodecPositions = {p1}

SPECIFICATION MCSpec

INVARIANT CostMatchesSpec
