SPECIFICATION Spec
CONSTANTS
    Users = {u1, u2}
    Admins = {a1}
    Joiners = {j1}
    Publishers = {p1}
    MaxCreates = 2
    MaxJoins = 1
    MaxColls = 2
    MaxEvicts = 1
    MaxFails = 1
SYMMETRY Symmetry
CONSTRAINT AtMostTwo
INVARIANTS
    TypeOK
    JoinedUsersAreMembers
    TablesAgree
    AddedUsersAreCached
    RemovedUsersAreUncached
CHECK_DEADLOCK FALSE
