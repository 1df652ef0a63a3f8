SPECIFICATION Spec
CONSTANTS
    Senders = {a}
    Readers = {b}
    Server = server
    MaxPubs = 3
    MaxTicks = 1
    MaxLogins = 2
    MaxExtras = 1
INVARIANTS
    TypeOK
    MissedOnlyInWindow
    AckedNotOfferedAgain
    RetractedIsGone
CHECK_DEADLOCK FALSE
