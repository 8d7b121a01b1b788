SPECIFICATION HttpdSpec
CONSTANTS
    ConnectionMax = 3
    RestTimeout = 2
    RestTimeoutFast = 1
    ClientMax = 1
    Remote = {r1, r2, r3}
    Empty = Empty
    AnyRemote = AnyRemote
PROPERTY RecordFreedByItsSession
