------------------------------ MODULE MCInbox ------------------------------
(* Inbox for TLC.  The members' roles are fixed, so there is no symmetry.   *)
EXTENDS Inbox
=============================================================================
