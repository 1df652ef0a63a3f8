SPECIFICATION Spec
CONSTANTS
    Users = {u1, u2}
    Conns = {c1, c2}
    u1 = u1
    u2 = u2
    UserOf <- OneUser
    NoConn = noconn
    Updaters = {w1, w2}
    PushIds = {i1, i2}
    NoPushId = noid
    Pushers = {g1, g2}
    Size = 2
    MaxUpdates = 2
    MaxPushes = 2
    Letters = {l1}
SYMMETRY Symmetry
INVARIANTS
    TypeOK
    PushIdCurrent
    EvenlyUsed
    AckedLettersStayAway
    LettersKept
CHECK_DEADLOCK FALSE
