SPECIFICATION FairSpec
CONSTANTS
    NoNode = NoNode
    RETRY_CNT = 2
    Nodes = {n1, n2}
    StrMsgs = {s1}
    BinMsgs = {b1}
    QueueSize = 1
    MaxPeers = 3
    MaxBreaks = 1
    MaxDialFails = 1
INVARIANTS
    TypeOK
    AtMostOncePush
    ForwardsAccountedFor
PROPERTY
    EveryPeerPushes
CHECK_DEADLOCK FALSE
