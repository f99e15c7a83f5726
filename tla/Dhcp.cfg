SPECIFICATION DhcpSpec
CONSTANTS
    Addresses = {"a", "b"}
    Leases <- MCLeases
    MaxDhcpTries = 2
    SelectTries = 3
    CoopTries = 5
    MaxReplies = 5
INVARIANTS DhcpTypeOK LeasedAddress PcbOutlives AutoipYields NoWedge
PROPERTIES StaticIsFinal AddressSettles
CHECK_DEADLOCK FALSE
