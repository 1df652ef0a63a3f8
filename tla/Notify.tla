------------------------------- MODULE Notify -------------------------------
(***************************************************************************)
(* The two ways by which a user gets to know of something outside a room's *)
(* messages, together: letters (Mail) and offline pushes (OffPush).  They  *)
(* share the users' connections.  PushToClients looks for the addressees   *)
(* in the registry that logins and closings change in OffPush; what is     *)
(* being pushed when a connection closes is lost.                          *)
(***************************************************************************)
EXTENDS OffPush

CONSTANT Letters  \* see Mail

VARIABLES lpc, todo, addressees, mail, carried, seen, ackedMail, failed

INSTANCE Mail

letters == <<lpc, todo, addressees, mail, carried, seen, ackedMail, failed>>
vars    == <<idVars, poolVars, letters>>

TypeOK == PushTypeOK /\ MailTypeOK

Init == PushInit /\ MailInit

\* A connection ends, and with it the pushes into it.
Disconnect(c) == Close(c) /\ DropPushes(UserOf[c])

Next ==
    \/ PushNext /\ UNCHANGED letters
    \/ MailNext(Online) /\ UNCHANGED <<idVars, poolVars>>
    \/ \E c \in Conns : Disconnect(c)

Spec == Init /\ [][Next]_vars
=============================================================================
