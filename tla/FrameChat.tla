------------------------------ MODULE FrameChat ------------------------------
(***************************************************************************)
(* The temporary voice and video chats of one room: the documents of       *)
(* unstable_info with their activeUser list, the invitations that          *)
(* user_info.frame_chat keeps for the members, the collection of the       *)
(* temporary channel in channelToUserIds, the frame_* commands             *)
(* (engine/cmd_interface.go) and the clean-up when a connection closes     *)
(* (clearFrameChat, engine/client.go).                                     *)
(*                                                                         *)
(* Every connection is one goroutine that executes its commands and at the *)
(* end Close.  A user may have several: the old one of a client that has   *)
(* reconnected lives until its read fails.  A step is one database         *)
(* operation, a bulk one document at a time, or one change of the          *)
(* collection.  An operation of the database may return an error, having   *)
(* taken effect or not; the command then returns or goes on as the code    *)
(* does.  The label pc[c] is the next step:                                *)
(*                                                                         *)
(*   "insert", "push"  frame_apply: the document, the invitations          *)
(*   "add"             AddUserId in apply, join and accept                 *)
(*   "remove", "pull"  the conditional Remove, withdrawing invitations     *)
(*   "drop"            RemoveUserId in out and dismiss                     *)
(*   "clear"           clearFrameChat, at the next of its ids              *)
(*   "closed"          Close has returned                                  *)
(*                                                                         *)
(* Notices, and the commands frame_refuse and frame_info, change nothing   *)
(* of this.  The room's members are the same throughout; frame_apply is    *)
(* open to users outside the room, and frame_join, accept, out and dismiss *)
(* to whoever knows the id of a chat, invited or not.  The LRU cache does  *)
(* not evict the temporary channel (Rooms has the eviction).               *)
(*                                                                         *)
(* Nothing depends on the order of the two lists in the database: the list *)
(* activeUser, which may name a user twice, is a count for every user, and *)
(* frame_chat, into which a chat is pushed once, is a set, which           *)
(* clearFrameChat goes through in any order.                               *)
(***************************************************************************)
EXTENDS Naturals

CONSTANTS
    Users,      \* user ids
    Room,       \* the members of the room
    Conns,      \* connections
    Owner,      \* the user of every connection, client.uuid
    MaxChats,   \* bound: chats inserted for the room
    MaxActive,  \* bound: occurrences of a user in an activeUser list
    MaxFails,   \* bound: operations of the database that return an error
    Refusable   \* bound: connections that may send a wrong token

ASSUME OwnerAssumption == Owner \in [Conns -> Users]
ASSUME RoomAssumption == Room \subseteq Users /\ Room # {}
ASSUME BoundAssumption ==
    MaxChats \in Nat /\ MaxActive \in Nat \ {0} /\ MaxFails \in Nat

Chats  == 1..MaxChats  \* object ids of chats, in the order of insertion
NoChat == 0

VARIABLES
    docs,       \* the chats with a document in unstable_info
    activeUser, \* per chat and user: occurrences in the activeUser list
    frameChat,  \* user_info.frame_chat of every user: the chats in it
    members,    \* channelToUserIds: the users in a chat's collection
    pc,         \* per connection: the label
    cmd,        \* per connection: the command
    chat,       \* per connection: the chat the command is about
    todo,       \* per connection: the users its bulk has still to treat
    list,       \* per connection: the ids clearFrameChat has still to treat
    clients,    \* connections whose Type has TYPE_CLIENT, IsClient()
    pushed,     \* history: <<c, ch, again>> where a frame_join or accept of c
                \* pushed its user into ch, again if another connection of the
                \* user had done so and not closed; until c begins to close or
                \* the user sends out or dismiss
    astray,     \* history: <<u, ch>> where u became active in ch without being
                \* invited, or a connection of u closed without a look at
                \* frame_chat; until the next $pull
    failed,     \* history: <<op, ch>> where operation op failed on ch
    nchats, fails  \* bounded counters

db    == <<docs, activeUser, frameChat, nchats>>
errs  == <<fails, failed>>
local == <<pc, cmd, chat, todo, list>>
vars  == <<db, errs, members, local, clients, pushed, astray>>

Labels == {"idle", "insert", "push", "add", "remove", "pull", "drop",
           "clear", "closed"}

\* Insert and the bulk of $push in apply; $pull, Remove and the bulk of $pull
\* in out, dismiss and clearFrameChat.
Ops == {"insert", "invite", "leave", "remove", "withdraw"}

\* Every variable has its type; the collection and the lists name chats
\* that have been inserted, and a command works on such a chat.
TypeOK ==
    /\ nchats \in 0..MaxChats
    /\ fails \in 0..MaxFails
    /\ docs \subseteq 1..nchats
    /\ activeUser \in [Chats -> [Users -> 0..MaxActive]]
    /\ frameChat \in [Users -> SUBSET (1..nchats)]
    /\ members \in [Chats -> SUBSET Users]
    /\ pc \in [Conns -> Labels]
    /\ cmd \in [Conns -> {"none", "apply", "join", "out", "dismiss", "close"}]
    /\ chat \in [Conns -> 0..nchats]
    /\ todo \in [Conns -> SUBSET Users]
    /\ list \in [Conns -> SUBSET (1..nchats)]
    /\ clients \subseteq Conns
    /\ pushed \subseteq Conns \X (1..nchats) \X BOOLEAN
    /\ astray \subseteq Users \X (1..nchats)
    /\ failed \subseteq Ops \X (1..nchats)
    /\ \A c \in Conns :
         /\ pc[c] \in {"push", "add", "remove", "pull", "drop"}
                => chat[c] # NoChat
         /\ pc[c] = "pull" => todo[c] # {}
         /\ pc[c] = "clear" => list[c] # {}

Init ==
    /\ docs = {}
    /\ activeUser = [ch \in Chats |-> [u \in Users |-> 0]]
    /\ frameChat = [u \in Users |-> {}]
    /\ members = [ch \in Chats |-> {}]
    /\ pc = [c \in Conns |-> "idle"]
    /\ cmd = [c \in Conns |-> "none"]
    /\ chat = [c \in Conns |-> NoChat]
    /\ todo = [c \in Conns |-> {}]
    /\ list = [c \in Conns |-> {}]
    /\ clients = Conns
    /\ pushed = {}
    /\ astray = {}
    /\ failed = {}
    /\ nchats = 0
    /\ fails = 0

-----------------------------------------------------------------------------

Goto(c, l) ==
    /\ pc' = [pc EXCEPT ![c] = l]
    /\ UNCHANGED <<cmd, chat, todo, list>>

\* Connection c begins command m on chat ch at label l.
Begin(c, m, ch, l) ==
    /\ pc' = [pc EXCEPT ![c] = l]
    /\ cmd' = [cmd EXCEPT ![c] = m]
    /\ chat' = [chat EXCEPT ![c] = ch]
    /\ UNCHANGED <<todo, list>>

Return(c) ==
    /\ pc' = [pc EXCEPT ![c] = "idle"]
    /\ cmd' = [cmd EXCEPT ![c] = "none"]
    /\ chat' = [chat EXCEPT ![c] = NoChat]
    /\ todo' = [todo EXCEPT ![c] = {}]
    /\ UNCHANGED list

\* clearFrameChat is done with ch and goes on with the next id of its list.
NextId(c, ch) ==
    /\ list' = [list EXCEPT ![c] = @ \ {ch}]
    /\ pc' = [pc EXCEPT ![c] = IF list[c] \ {ch} = {} THEN "closed" ELSE "clear"]
    /\ chat' = [chat EXCEPT ![c] = NoChat]
    /\ todo' = [todo EXCEPT ![c] = {}]
    /\ UNCHANGED cmd

\* An operation of the database ends, with an error unless ok ...
Ends(ok) ==
    IF ok THEN UNCHANGED fails ELSE fails < MaxFails /\ fails' = fails + 1

\* ... and it was operation op on chat ch.
EndsOn(op, ch, ok) ==
    /\ Ends(ok)
    /\ failed' = failed \cup IF ok THEN {} ELSE {<<op, ch>>}

Invited(u, ch) == ch \in frameChat[u]
Active(u, ch)  == activeUser[ch][u] > 0
Deserted(ch)   == \A u \in Users : ~Active(u, ch)

\* $pull takes every occurrence out of a list.
PullActive(c, ch) ==
    /\ activeUser' = [activeUser EXCEPT ![ch][Owner[c]] = 0]
    /\ astray' = astray \ {<<Owner[c], ch>>}

\* The user of c has sent out or dismiss for ch.
UserLeft(c, ch) ==
    pushed' = {p \in pushed : p[2] # ch \/ Owner[p[1]] # Owner[c]}

\* The commands need an identity (AclCheck).
Ready(c) == pc[c] = "idle" /\ c \in clients

-----------------------------------------------------------------------------
(* frame_apply                                                             *)

\* No chat of the room is found, or none because of an error; the command
\* fails if one is.
Apply(c) ==
    /\ Ready(c)
    /\ nchats < MaxChats
    /\ \E ok \in BOOLEAN : Ends(ok) /\ (ok => docs = {})
    /\ Begin(c, "apply", NoChat, "insert")
    /\ UNCHANGED <<db, failed, members, clients, pushed, astray>>

\* The new document, whose object id is fresh, and then the members of the
\* room, of whom there are none if their query fails.
InsertChat(c) ==
    /\ pc[c] = "insert"
    /\ nchats < MaxChats
    /\ nchats' = nchats + 1
    /\ docs' = docs \cup {nchats'}
    /\ activeUser' = [activeUser EXCEPT ![nchats'][Owner[c]] = 1]
    /\ pc' = [pc EXCEPT ![c] = "push"]
    /\ chat' = [chat EXCEPT ![c] = nchats']
    /\ \E ok \in BOOLEAN :
         /\ Ends(ok)
         /\ todo' = [todo EXCEPT ![c] = IF ok THEN Room ELSE {}]
    /\ astray' = astray \cup
                 IF Owner[c] \in todo'[c] THEN {} ELSE {<<Owner[c], nchats'>>}
    /\ UNCHANGED <<frameChat, failed, members, cmd, list, clients, pushed>>

\* The insertion returns an error, and with it the command; the document may
\* be there all the same.
InsertFails(c) ==
    /\ pc[c] = "insert"
    /\ \/ /\ nchats < MaxChats
          /\ nchats' = nchats + 1
          /\ docs' = docs \cup {nchats'}
          /\ activeUser' = [activeUser EXCEPT ![nchats'][Owner[c]] = 1]
          /\ EndsOn("insert", nchats', FALSE)
       \/ UNCHANGED <<nchats, docs, activeUser, failed>> /\ Ends(FALSE)
    /\ Return(c)
    /\ UNCHANGED <<frameChat, members, clients, pushed, astray>>

\* The bulk invites one more member.
PushFrameChat(c) ==
    /\ pc[c] = "push"
    /\ \E u \in todo[c] :
         /\ frameChat' = [frameChat EXCEPT ![u] = @ \cup {chat[c]}]
         /\ todo' = [todo EXCEPT ![c] = @ \ {u}]
         /\ pc' = [pc EXCEPT ![c] = IF todo[c] = {u} THEN "add" ELSE "push"]
    /\ UNCHANGED <<docs, activeUser, nchats, errs, members, cmd, chat, list,
                   clients, pushed, astray>>

\* A bulk without members, which the driver may also refuse (PushFails).
PushNobody(c) ==
    /\ pc[c] = "push"
    /\ todo[c] = {}
    /\ Goto(c, "add")
    /\ UNCHANGED <<db, errs, members, clients, pushed, astray>>

\* The bulk fails half-way and the command takes the document back, also from
\* users who have joined; nobody looks whether that succeeds.
PushFails(c) ==
    /\ pc[c] = "push"
    /\ EndsOn("invite", chat[c], FALSE)
    /\ \/ /\ docs' = docs \ {chat[c]}
          /\ activeUser' = [activeUser EXCEPT ![chat[c]] = [u \in Users |-> 0]]
       \/ UNCHANGED <<docs, activeUser>>
    /\ Return(c)
    /\ UNCHANGED <<frameChat, nchats, members, clients, pushed, astray>>

\* AddUserId: the end of apply, join and accept.
AddUserId(c) ==
    /\ pc[c] = "add"
    /\ members' = [members EXCEPT ![chat[c]] = @ \cup {Owner[c]}]
    /\ Return(c)
    /\ UNCHANGED <<db, errs, clients, pushed, astray>>

-----------------------------------------------------------------------------
(* frame_join and frame_accept, which do the same; frame_out, frame_dismiss *)

\* $push, which fails if the chat has been dismissed.  After an error, which
\* may hide that the user is in, the command returns.
Join(c, ch) ==
    /\ Ready(c)
    /\ ch \in docs
    /\ activeUser[ch][Owner[c]] < MaxActive
    /\ activeUser' = [activeUser EXCEPT ![ch][Owner[c]] = @ + 1]
    /\ astray' = astray \cup
                 IF Invited(Owner[c], ch) THEN {} ELSE {<<Owner[c], ch>>}
    /\ \E ok \in BOOLEAN :
         /\ Ends(ok)
         /\ IF ok
            THEN /\ Begin(c, "join", ch, "add")
                 /\ pushed' = pushed \cup
                       {<<c, ch, \E p \in pushed : /\ p[1] # c /\ p[2] = ch
                                                   /\ Owner[p[1]] = Owner[c]>>}
            ELSE UNCHANGED <<local, pushed>>
    /\ UNCHANGED <<docs, frameChat, nchats, failed, members, clients>>

\* Mutant: the list as it was before $pull decides (ReturnNew is false).
LeaveReturnsOld(c, ch, m) ==
    /\ Ready(c)
    /\ ch \in docs
    /\ PullActive(c, ch)
    /\ UserLeft(c, ch)
    /\ Begin(c, m, ch, IF Deserted(ch) THEN "remove" ELSE "drop")
    /\ UNCHANGED <<docs, frameChat, nchats, errs, members, clients>>

\* $pull returning the new list; without a document the command fails.  So it
\* does after an error, which may hide that the user is out.
Leave(c, ch, m) ==
    /\ Ready(c)
    /\ ch \in docs
    /\ PullActive(c, ch)
    /\ UserLeft(c, ch)
    /\ \E ok \in BOOLEAN :
         /\ EndsOn("leave", ch, ok)
         /\ IF ok
            THEN Begin(c, m, ch, IF Deserted(ch)' THEN "remove" ELSE "drop")
            ELSE UNCHANGED local
    /\ UNCHANGED <<docs, frameChat, nchats, members, clients>>

\* Mutant: the members of the temporary channel are fetched, which has none.
RemoveDocNobody(c) ==
    /\ pc[c] = "remove"
    /\ docs' = docs \ IF Deserted(chat[c]) THEN {chat[c]} ELSE {}
    /\ IF docs' # docs
       THEN Goto(c, "pull")
       ELSE IF cmd[c] = "close" THEN NextId(c, chat[c]) ELSE Goto(c, "drop")
    /\ UNCHANGED <<activeUser, frameChat, nchats, errs, members, clients,
                   pushed, astray>>

\* Mutant: the document goes although somebody has joined since.
RemoveDocUnchecked(c) ==
    /\ pc[c] = "remove"
    /\ docs' = docs \ {chat[c]}
    /\ pc' = [pc EXCEPT ![c] = "pull"]
    /\ todo' = [todo EXCEPT ![c] = Room]
    /\ UNCHANGED <<cmd, chat, list>>
    /\ UNCHANGED <<activeUser, frameChat, nchats, errs, members, clients,
                   pushed, astray>>

\* Mutant: the invitations are left to the next connection that closes.
RemoveDocKeepsInvitations(c) ==
    /\ pc[c] = "remove"
    /\ docs' = docs \ IF Deserted(chat[c]) THEN {chat[c]} ELSE {}
    /\ IF cmd[c] = "close" THEN NextId(c, chat[c]) ELSE Goto(c, "drop")
    /\ UNCHANGED <<activeUser, frameChat, nchats, errs, members, clients,
                   pushed, astray>>

\* The double check: Remove on the condition that activeUser is empty.  The
\* one who removes the document withdraws the invitations; an error, which
\* may hide that the document is gone, is taken for the condition's failing.
RemoveDoc(c) ==
    /\ pc[c] = "remove"
    /\ \E ok, done \in BOOLEAN :
         /\ EndsOn("remove", chat[c], ok)
         /\ ok => done
         /\ docs' = docs \ IF done /\ Deserted(chat[c]) THEN {chat[c]} ELSE {}
         /\ IF ok /\ docs' # docs
            THEN /\ pc' = [pc EXCEPT ![c] = "pull"]
                 /\ todo' = [todo EXCEPT ![c] = Room]
                 /\ UNCHANGED <<cmd, chat, list>>
            ELSE IF cmd[c] = "close" THEN NextId(c, chat[c]) ELSE Goto(c, "drop")
    /\ UNCHANGED <<activeUser, frameChat, nchats, members, clients, pushed,
                   astray>>

\* After the bulk: out still leaves the collection, dismiss does not.
AfterPull(c) ==
    CASE cmd[c] = "close"   -> NextId(c, chat[c])
      [] cmd[c] = "out"     -> Goto(c, "drop")
      [] cmd[c] = "dismiss" -> Return(c)

\* The bulk withdraws one more invitation.
PullFrameChat(c) ==
    /\ pc[c] = "pull"
    /\ \E u \in todo[c] :
         /\ frameChat' = [frameChat EXCEPT ![u] = @ \ {chat[c]}]
         /\ IF todo[c] = {u}
            THEN AfterPull(c)
            ELSE /\ todo' = [todo EXCEPT ![c] = @ \ {u}]
                 /\ UNCHANGED <<pc, cmd, chat, list>>
    /\ UNCHANGED <<docs, activeUser, nchats, errs, members, clients, pushed,
                   astray>>

\* The query of the members or the bulk fails, which nobody looks at.
PullFails(c) ==
    /\ pc[c] = "pull"
    /\ EndsOn("withdraw", chat[c], FALSE)
    /\ AfterPull(c)
    /\ UNCHANGED <<db, members, clients, pushed, astray>>

RemoveUserId(c) ==
    /\ pc[c] = "drop"
    /\ members' = [members EXCEPT ![chat[c]] = @ \ {Owner[c]}]
    /\ Return(c)
    /\ UNCHANGED <<db, errs, clients, pushed, astray>>

-----------------------------------------------------------------------------
(* The identity, and Close                                                 *)

\* A wrong token clears the identity; the connection stays open, and the
\* client may log in again.
TokenRefused(c) ==
    /\ Ready(c)
    /\ c \in Refusable
    /\ clients' = clients \ {c}
    /\ UNCHANGED <<db, errs, members, local, pushed, astray>>

AuthClient(c) ==
    /\ pc[c] = "idle"
    /\ clients' = clients \cup {c}
    /\ UNCHANGED <<db, errs, members, local, pushed, astray>>

\* A connection with an identity calls clearFrameChat, which reads the user's
\* frame_chat and returns if that fails.
Close(c) ==
    /\ pc[c] = "idle"
    /\ \E ok \in BOOLEAN :
         /\ Ends(ok)
         /\ ok \/ c \in clients
         /\ IF ok /\ c \in clients
            THEN /\ list' = [list EXCEPT ![c] = frameChat[Owner[c]]]
                 /\ UNCHANGED astray
            ELSE /\ astray' = astray \cup
                       {<<Owner[c], ch>> : ch \in {h \in docs : Active(Owner[c], h)}}
                 /\ UNCHANGED list
    /\ pc' = [pc EXCEPT ![c] = IF list'[c] = {} THEN "closed" ELSE "clear"]
    /\ cmd' = [cmd EXCEPT ![c] = "close"]
    /\ pushed' = {p \in pushed : p[1] # c}
    /\ UNCHANGED <<db, failed, members, chat, todo, clients>>

\* Mutant: the first chat that is gone ends the loop.
ClearPullStops(c) ==
    /\ pc[c] = "clear"
    /\ \E ch \in list[c] :
         IF ch \in docs
         THEN PullActive(c, ch) /\ Begin(c, "close", ch, "remove")
         ELSE Goto(c, "closed") /\ UNCHANGED <<activeUser, astray>>
    /\ UNCHANGED <<docs, frameChat, nchats, errs, members, clients, pushed>>

\* $pull on the next chat of the list; one without a document is skipped, and
\* so is one whose $pull returns an error, having taken effect or not.  The
\* collection of the chat keeps the user.
ClearPull(c) ==
    /\ pc[c] = "clear"
    /\ \E ch \in list[c], ok \in BOOLEAN :
         /\ EndsOn("leave", ch, ok)
         /\ \/ ch \in docs /\ PullActive(c, ch)
            \/ ~(ok /\ ch \in docs) /\ UNCHANGED <<activeUser, astray>>
         /\ IF ok /\ ch \in docs THEN Begin(c, "close", ch, "remove")
                                 ELSE NextId(c, ch)
    /\ UNCHANGED <<docs, frameChat, nchats, members, clients, pushed>>

-----------------------------------------------------------------------------

Command(c) ==
    \/ Apply(c)
    \/ \E ch \in Chats :
         Join(c, ch) \/ Leave(c, ch, "out") \/ Leave(c, ch, "dismiss")
    \/ TokenRefused(c) \/ AuthClient(c)
    \/ Close(c)

Step(c) ==
    \/ InsertChat(c) \/ InsertFails(c)
    \/ PushFrameChat(c) \/ PushNobody(c) \/ PushFails(c)
    \/ AddUserId(c)
    \/ RemoveDoc(c) \/ PullFrameChat(c) \/ PullFails(c) \/ RemoveUserId(c)
    \/ ClearPull(c)

Next == \E c \in Conns : Command(c) \/ Step(c)

Spec == Init /\ [][Next]_vars

-----------------------------------------------------------------------------
(* Properties                                                              *)

Failed(ops, ch) == \E op \in ops : <<op, ch>> \in failed

\* A chat whose last active user has gone is about to be removed: somebody
\* saw the list empty after the own $pull and has yet to do the conditional
\* Remove, whoever else left, joined or closed in between and whichever bulk
\* failed.  A chat that nobody would ever remove is one whose $pull or whose
\* Remove returned an error (cmd_interface.go:746, 752, 811, 817,
\* client.go:101-112): the commands go on as if somebody else were in it.
NoAbandonedChat ==
    \A ch \in docs : Deserted(ch) =>
        \/ \E c \in Conns : pc[c] = "remove" /\ chat[c] = ch
        \/ Failed({"leave", "remove"}, ch)

\* A user all of whose connections have been closed is active in no chat:
\* what clearFrameChat read from frame_chat covers every chat the user may
\* have applied for or joined, on whichever connection and whatever the other
\* ones did meanwhile.  The exceptions: a user who became active without an
\* invitation (cmd_interface.go:634, 647, 692, 716) or whose connection closed
\* after a refused token (client.go:73, acl.go:60) or with a failed read of
\* frame_chat (client.go:87-89), and a chat on which the insertion, the bulk of
\* invitations or a $pull failed (cmd_interface.go:641, 657, client.go:102).
ActiveUsersAreConnected ==
    \A ch \in docs : \A u \in Users : Active(u, ch) =>
        \/ \E c \in Conns : Owner[c] = u /\ pc[c] # "closed"
        \/ <<u, ch>> \in astray
        \/ Failed({"insert", "invite", "leave"}, ch)

OneConnPerUser == \A c, d \in Conns : Owner[c] = Owner[d] => c = d

\* While every user has one connection, an invitation in frame_chat is to a
\* chat that exists, or the connection that removed the chat is about to
\* withdraw it: the invitations of frame_apply and their withdrawal at the end
\* of the chat do not overtake each other.  Invitations are left over only of
\* a chat whose own Remove or one of whose own bulks failed.
NoDanglingInvitation ==
    OneConnPerUser =>
        \A u \in Users : \A ch \in frameChat[u] :
            \/ ch \in docs
            \/ \E c \in Conns :
                  pc[c] = "pull" /\ chat[c] = ch /\ u \in todo[c]
            \/ Failed({"invite", "remove", "withdraw"}, ch)

\* While every user has one connection, a user whom frame_join or accept has
\* put into a chat is in it, and the chat exists, until the user leaves or the
\* connection closes: the Remove of somebody whose $pull emptied the chat just
\* before does not take it away.  What does is a frame_apply whose invitations
\* failed half-way (cmd_interface.go:657-660).
JoinedUsersStayActive ==
    OneConnPerUser =>
        \A p \in pushed :
            \/ p[2] \in docs /\ Active(Owner[p[1]], p[2])
            \/ Failed({"invite"}, p[2])

\* Claim of the comment in frame_join, "why $push or not $addToSet: to
\* prevent old conn from removing self from activeUser": when a user's older
\* connection has pushed the user into a chat and then a newer one has, the
\* user stays active until the newer one closes or the user leaves, whatever
\* becomes of the older one.
OldConnDoesNotRemove ==
    \A p \in pushed : p[3] => p[2] \in docs /\ Active(Owner[p[1]], p[2])
=============================================================================
