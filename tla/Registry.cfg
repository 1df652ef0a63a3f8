SPECIFICATION FairSpec
CONSTANTS
    Conns = {c1, c2}
    Uuids = {u1, u2}
    MaxSetuuid = 2
    Renamers = {c1}
    NoConn = NoConn
    NoUuid = NoUuid
    Free = Free
INVARIANTS
    TypeOK
    NoDeadClientRegistered
    RegisteredOnce
    LatestLoginReachable
PROPERTIES
    GoroutinesFinish
CHECK_DEADLOCK FALSE
