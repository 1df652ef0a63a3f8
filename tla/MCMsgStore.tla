----------------------------- MODULE MCMsgStore -----------------------------
(* MsgStore for TLC.  Senders are interchangeable.                         *)
EXTENDS MsgStore, TLC

Symmetry == Permutations(Senders)
=============================================================================
