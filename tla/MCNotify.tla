------------------------------ MODULE MCNotify ------------------------------
(* Notify for TLC: u1 logs in on every connection, u2 on none.              *)
EXTENDS Notify, TLC

CONSTANTS u1, u2

OneUser  == [c \in Conns |-> u1]
Symmetry ==
    Permutations(Conns) \cup Permutations(Updaters) \cup Permutations(PushIds)
        \cup Permutations(Pushers)
=============================================================================
