CONSTANTS
    IfNames = {eth0, eth1}
    LongIfName = longname
    MAX_INTERFACES = 2
    Addresses <- MC_Addresses
    NotAnAddress = notaddr
    PortValues = {0, 2240, 5000, 70000}
    NotANumber <- MC_NotANumber
    IpVersion = 6
    Default4 <- MC_Default4
    Default6 <- MC_Default6
    Fixes = {fix1, fix2}
INIT RecInit
NEXT Next
CONSTRAINT MC_ParamBound
INVARIANT RecTypeOK SocketsAccounted ConfigIsLastGiven
CHECK_DEADLOCK FALSE
