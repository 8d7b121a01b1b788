SPECIFICATION Spec
CONSTANTS
    Server = {s1, s2}
    Other = Other
    NoIp = NoIp
    DefaultIp = DefaultIp
    StaticIp = StaticIp
    Lease = {2, 8}
    Timeout = 2
    MaxTime = 5
PROPERTIES
    BoundFieldsAreTheLease
