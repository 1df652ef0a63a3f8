-------------------------------- MODULE Mail --------------------------------
(***************************************************************************)
(* Letters: server notices for single users, kept until acknowledged       *)
(* (engine/mail/api.go, PushToClients of pubsub.go, and the commands pntus *)
(* (push notify to users), psn (peek) and asn (acknowledge) of             *)
(* cmd_interface.go).                                                      *)
(*                                                                         *)
(* pntus puts a letter into the mailbox of every addressee by one bulk,    *)
(* which stops at the first error, and then, whatever came of it, pushes   *)
(* it to the addressees that are connected.  Who is connected is for the   *)
(* module that composes this one to say.                                   *)
(***************************************************************************)
EXTENDS Naturals

CONSTANTS
    Users,       \* users with a mailbox
    Letters      \* the letters; each is sent at most once

VARIABLES
    lpc,         \* per letter: "new", "store", "push" or "done"
    todo,        \* per letter: addressees the bulk has not reached
    addressees,  \* per letter: userIds of the command, which names nobody twice
    mail,        \* collection mail: per user, the letters in the mailbox
    carried,     \* pushes under way: pairs <<letter, user>>
    seen,        \* per user: letters the client has got
    ackedMail,   \* history, per user: letters acknowledged
    failed       \* history: letters and addressees a failed bulk left out

\* Every variable has its type.
MailTypeOK ==
    /\ lpc \in [Letters -> {"new", "store", "push", "done"}]
    /\ todo \in [Letters -> SUBSET Users]
    /\ addressees \in [Letters -> SUBSET Users]
    /\ mail \in [Users -> SUBSET Letters]
    /\ carried \subseteq Letters \X Users
    /\ seen \in [Users -> SUBSET Letters]
    /\ ackedMail \in [Users -> SUBSET Letters]
    /\ failed \subseteq Letters \X Users

MailInit ==
    /\ lpc = [l \in Letters |-> "new"]
    /\ todo = [l \in Letters |-> {}]
    /\ addressees = [l \in Letters |-> {}]
    /\ mail = [u \in Users |-> {}]
    /\ carried = {}
    /\ seen = [u \in Users |-> {}]
    /\ ackedMail = [u \in Users |-> {}]
    /\ failed = {}

\* pntus for the users S.
PushNotify(l, S) ==
    /\ lpc[l] = "new"
    /\ lpc' = [lpc EXCEPT ![l] = "store"]
    /\ todo' = [todo EXCEPT ![l] = S]
    /\ addressees' = [addressees EXCEPT ![l] = S]
    /\ UNCHANGED <<mail, carried, seen, ackedMail, failed>>

\* Mutant: no $push for a user who has no mailbox yet (Update for Upsert).
SendLetterNoUpsert(l, u) ==
    /\ lpc[l] = "store" /\ u \in todo[l]
    /\ todo' = [todo EXCEPT ![l] = @ \ {u}]
    /\ mail' = [mail EXCEPT ![u] = IF @ = {} THEN @ ELSE @ \cup {l}]
    /\ UNCHANGED <<lpc, addressees, carried, seen, ackedMail, failed>>

\* SendLetterToMail: the upsert of one user's mailbox.
SendLetterToMail(l, u) ==
    /\ lpc[l] = "store" /\ u \in todo[l]
    /\ todo' = [todo EXCEPT ![l] = @ \ {u}]
    /\ mail' = [mail EXCEPT ![u] = @ \cup {l}]
    /\ UNCHANGED <<lpc, addressees, carried, seen, ackedMail, failed>>

\* The bulk is through, or it has failed; the error is only logged.
BulkEnds(l) ==
    /\ lpc[l] = "store"
    /\ lpc' = [lpc EXCEPT ![l] = "push"]
    /\ todo' = [todo EXCEPT ![l] = {}]
    /\ failed' = failed \cup ({l} \X todo[l])
    /\ UNCHANGED <<addressees, mail, carried, seen, ackedMail>>

\* Mutant: the push does not wait for the bulk.
PushToClientsAtOnce(l, online) ==
    /\ lpc[l] \in {"store", "push"}
    /\ lpc' = [lpc EXCEPT ![l] = IF @ = "store" THEN "store" ELSE "done"]
    /\ carried' = carried \cup ({l} \X (addressees[l] \cap online))
    /\ UNCHANGED <<todo, addressees, mail, seen, ackedMail, failed>>

\* PushToClients: a goroutine for every addressee that is online.
PushToClients(l, online) ==
    /\ lpc[l] = "push"
    /\ lpc' = [lpc EXCEPT ![l] = "done"]
    /\ carried' = carried \cup ({l} \X (addressees[l] \cap online))
    /\ UNCHANGED <<todo, addressees, mail, seen, ackedMail, failed>>

\* A push arrives.
ReceiveLetter(l, u) ==
    /\ <<l, u>> \in carried
    /\ carried' = carried \ {<<l, u>>}
    /\ seen' = [seen EXCEPT ![u] = @ \cup {l}]
    /\ UNCHANGED <<lpc, todo, addressees, mail, ackedMail, failed>>

\* psn returns the whole mailbox: GetLettersByType does not use its type.
PeekLetters(u) ==
    /\ seen' = [seen EXCEPT ![u] = @ \cup mail[u]]
    /\ UNCHANGED <<lpc, todo, addressees, mail, carried, ackedMail, failed>>

\* asn: the letters named are taken out of the mailbox.
RemoveLetter(u, S) ==
    /\ S # {} /\ S \subseteq seen[u]
    /\ mail' = [mail EXCEPT ![u] = @ \ S]
    /\ ackedMail' = [ackedMail EXCEPT ![u] = @ \cup S]
    /\ UNCHANGED <<lpc, todo, addressees, carried, seen, failed>>

\* The pushes to u are lost with its connection.
DropPushes(u) ==
    /\ carried' = {p \in carried : p[2] # u}
    /\ UNCHANGED <<lpc, todo, addressees, mail, seen, ackedMail, failed>>

\* Steps of commands and clients, given who is connected.
MailNext(online) ==
    \/ \E l \in Letters :
        \/ \E S \in SUBSET Users \ {{}} : PushNotify(l, S)
        \/ \E u \in Users : SendLetterToMail(l, u)
        \/ BulkEnds(l) \/ PushToClients(l, online)
        \/ \E u \in online : ReceiveLetter(l, u)
    \/ \E u \in online :
        \/ PeekLetters(u)
        \/ \E S \in SUBSET Letters : RemoveLetter(u, S)

\* A letter the client has acknowledged is not in its mailbox, now or later,
\* though push, bulk and acknowledgement are steps of three goroutines: the
\* letter is stored before it can be seen (cmd_interface.go:510-514).  A
\* userId that one command names twice is not covered: the second $push of
\* its bulk may follow the acknowledgement.
AckedLettersStayAway == \A u \in Users : ackedMail[u] \cap mail[u] = {}

\* Every addressee of a letter sent finds it in the mailbox until acknowledging
\* it, connected or not, unless the bulk failed before it reached this very
\* mailbox; the addressees before it keep the letter, and nobody else finds it
\* (mail/api.go:38-56).
LettersKept ==
    \A l \in Letters : \A u \in Users :
        /\ l \in mail[u] => u \in addressees[l]
        /\ (lpc[l] \in {"push", "done"} /\ u \in addressees[l]
              /\ <<l, u>> \notin failed) =>
              l \in mail[u] \cup ackedMail[u]
=============================================================================
