SPECIFICATION Spec
CONSTANTS
    Old = old
    New = u1
    Users = {u1, u2}
    Room = {u1, u2}
    Refusable = {old}
    Conns = {u1, old}
    Owner <- Reconnect
    MaxChats = 2
    MaxActive = 2
    MaxFails = 1
INVARIANTS
    TypeOK
    ActiveUsersAreConnected
CHECK_DEADLOCK FALSE
