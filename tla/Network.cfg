SPECIFICATION Spec
CONSTANTS
    Callers <- MCCallers
    Sessions = {"s1"}
    Messages <- MCMessages
    AddressText <- MCAddressText
    Loading <- MCLoading
    MaxMessages = 2
    TextWidth = 2
    TextHeight = 3
    Marks <- MCMarks
    Addresses = {"a"}
    Leases <- MCLeases
    MaxDhcpTries = 2
    SelectTries = 3
    CoopTries = 5
    MaxReplies = 2
INVARIANTS TypeOK ShownWhenAlone FallbackShown
CHECK_DEADLOCK FALSE
PROPERTY CallsReturn
