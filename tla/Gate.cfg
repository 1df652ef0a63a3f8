SPECIFICATION Spec
CONSTANTS
    Conns = {c1, c2}
    Strings = {s1, s2, s3}
    NoString = empty
    Start = 1
    MaxClock = 3
    Second = 10
    Limit = 1
    MaxHead = 2
    MaxBody = 2
SYMMETRY Symmetry
INVARIANTS
    TypeOK
    FramesCutInside
    ForwardsUnderstood
    ExpiryExact
    TokensAccountedFor
    ProcessedWithStoredTokens
CHECK_DEADLOCK FALSE
