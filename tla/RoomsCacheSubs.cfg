SPECIFICATION Spec
CONSTANTS
    Users = {u1, u2}
    Admins = {a1}
    Joiners = {}
    Publishers = {p1}
    MaxCreates = 1
    MaxJoins = 0
    MaxColls = 1
    MaxEvicts = 0
    MaxFails = 0
INVARIANT CacheHoldsAllMembers
CHECK_DEADLOCK FALSE
