SPECIFICATION Spec
CONSTANTS
    Old = old
    New = u1
    Users = {u1, u2, u3}
    Room = {u1, u2}
    Refusable = {}
    Conns = {u1, u2, u3}
    Owner <- Self
    MaxChats = 2
    MaxActive = 1
    MaxFails = 1
SYMMETRY Symmetry
CONSTRAINT AtMostTwo
INVARIANTS
    NoAbandonedChat
    NoDanglingInvitation
    JoinedUsersStayActive
CHECK_DEADLOCK FALSE
