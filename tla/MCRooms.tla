------------------------------ MODULE MCRooms ------------------------------
(* Rooms for TLC.  Users and the workers of a kind are interchangeable.    *)
EXTENDS Rooms, TLC

Symmetry == Permutations(Users) \cup Permutations(Admins)
            \cup Permutations(Joiners) \cup Permutations(Publishers)

\* Bound: beside the first creation of the room a behaviour has a command of a
\* client, or a failing operation of the database, or a second creation and an
\* eviction.
AtMostTwo == creates + 2 * joins + evicts + 2 * fails =< 3
=============================================================================
