SPECIFICATION Spec
CONSTANTS
    Old = old
    New = u1
    Users = {u1, u2}
    Room = {u1, u2}
    Refusable = {}
    Conns = {u1, u2, old}
    Owner <- Reconnect
    MaxChats = 1
    MaxActive = 2
    MaxFails = 0
INVARIANT
    OldConnDoesNotRemove
CHECK_DEADLOCK FALSE
