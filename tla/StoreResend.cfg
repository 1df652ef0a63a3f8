SPECIFICATION Spec
CONSTANTS
    Senders = {s1}
    Policies = {"second"}
    QueueSize = 2
    BufferSize = 2
    MaxMsgId = 1
    MaxResends = 1
    MaxCrashes = 0
INVARIANT AtMostOnceLogged
CHECK_DEADLOCK FALSE
