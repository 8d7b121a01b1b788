SPECIFICATION FairSpec
CONSTANTS
    SAL_PORT_ID_CPU = 2
    Group = {"g1", "g2"}
    Mac = {"g1", "g2"}
    MacOf <- EachItsOwn
    MAX_GROUP_SIZE = 2
    IGMP_GROUP_MEM_INTERVAL = 2
    V1_ROUTER_PRESENT_TIME = 1
    IGMPDB_CHECK_PERIOD = 2
    QuerierPort = {0}
    StaticRouters <- NoStatic
    Trunks <- NoTrunk
PROPERTIES
    DownPortLeaves
    OldRoutersLeave
