------------------------------- MODULE MCGate -------------------------------
(* Gate for TLC.  Connections and random strings are interchangeable.       *)
EXTENDS Gate, TLC

Symmetry == Permutations(Conns) \cup Permutations(Strings)
=============================================================================
