SPECIFICATION Spec
CONSTANTS
    Size = 3
    MaxAge = 4
    MaxPending = 3
    GatewayPeriod = 2
    QueryTime = 2
    ip1 = ip1
    ip2 = ip2
    mac1 = mac1
    mac2 = mac2
    Ip <- Addresses
    Host <- Pairs
    Unset = Unset
    NoMac = NoMac
    TrapDip = ip2
INVARIANT FoundWasHeard
PROPERTY GatewayStays
SYMMETRY Macs
