----------------------------- MODULE MCFrameChat -----------------------------
(* FrameChat for TLC.                                                      *)
EXTENDS FrameChat, TLC

\* With Conns = Users every user has one connection.
Self == [c \in Conns |-> c]

\* The members of the room are alike; a user outside of it is not.
Symmetry == Permutations(Room)

\* Two chats, or one and a failure.
AtMostTwo == nchats + fails =< 2

\* The connection Old belongs to the user New, who has reconnected.
CONSTANTS Old, New
Reconnect == [c \in Conns |-> IF c = Old THEN New ELSE c]
=============================================================================
