SPECIFICATION Spec
CONSTANTS
    MAX = 3
    CvidxNo = 3
    Vid = {1, 2, 3, 4}
    Port = {1, 2, 3}
    PagePort = {2, 3}
    CpuPort = 9
    Membership <- SomeMemberships
    FrameType = {"all", "tagged"}
    AllFrames = "all"
INVARIANTS
    TypeOK
    IndexIsSorted
    MemberConfigsAgree
    ChipFollowsConfig
PROPERTY ImplementsStore
