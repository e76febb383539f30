\* Multipliers up to 100: with lq = nlq = 26/255 the product reaches
\* 9.8 million, above LINK_COST_BROKEN = 2^22 and below 2^32.
CONSTANTS
    MinimalUsefulLq <- MC_MinimalUsefulLq
    LINK_COST_BROKEN = 4194304
    LqByteValues <- MC_LqByteValues
    Multipliers <- MC_Multipliers
    IpVersions = {4, 6}
    CodecLqs <- MC_CodecLqs
    CodecAddrs = {a1}
    CodecFloats = {f1}
    CodecPositions = {p1}

SPECIFICATION MCSpec

INVARIANT TypeOK
INVARIANT CostMatchesSpec
INVARIANT WireRoundTrip
PROPERTY CostMonotone
