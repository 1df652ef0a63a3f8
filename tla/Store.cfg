SPECIFICATION FairSpec
CONSTANTS
    Policies = {"trx", "second"}
    Senders = {s1, s2}
    QueueSize = 1
    BufferSize = 2
    MaxMsgId = 2
    MaxResends = 1
    MaxCrashes = 1
INVARIANTS
    TypeOK
    FlusherNeverWaits
    LoggedInSendOrder
PROPERTIES
    ImplementsMsgLog
    SendReturns
    PendingIsHandedOver
CHECK_DEADLOCK FALSE
