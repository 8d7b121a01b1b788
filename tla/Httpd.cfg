SPECIFICATION HttpdFairSpec
CONSTANTS
    ConnectionMax = 3
    RestTimeout = 3
    RestTimeoutFast = 1
    ClientMax = 1
    Remote = {r1, r2, r3}
    Empty = Empty
    AnyRemote = AnyRemote
INVARIANTS
    TypeOK
    TablesInStep
    CloseStillNamesItsConnection
    SessionOwnsRecord
    NothingLeaked
PROPERTIES
    PcbNeverChangesHands
    ImplementsConnTable
    SilenceFreesPcb
