SPECIFICATION Spec
CONSTANTS
    SAL_PORT_ID_CPU = 2
    Group = {"g1", "g2", "g3"}
    Mac = {"g1", "g3"}
    MacOf <- OneShared
    MAX_GROUP_SIZE = 2
    IGMP_GROUP_MEM_INTERVAL = 2
    V1_ROUTER_PRESENT_TIME = 1
    IGMPDB_CHECK_PERIOD = 1
    QuerierPort = {}
    StaticRouters <- StaticOrNot
    Trunks <- TrunkOrNot
INVARIANTS
    TypeOK
    PoolIsKept
    ChipAgrees
PROPERTIES
    ChipFollowsMembers
    DownPortOnlyLoses
