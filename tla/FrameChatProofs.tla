-------------------------- MODULE FrameChatProofs --------------------------
(***************************************************************************)
(* Proofs about FrameChat, for any number of users, connections, chats and *)
(* failures, and any assignment of connections to users.                   *)
(***************************************************************************)
EXTENDS FrameChat, TLAPS

\* Command m passes label l.
Fits(m, l) ==
    \/ m = "none" /\ l = "idle"
    \/ m = "apply" /\ l \in {"insert", "push", "add"}
    \/ m = "join" /\ l = "add"
    \/ m \in {"out", "dismiss"} /\ l \in {"remove", "pull", "drop"}
    \/ m = "close" /\ l \in {"clear", "remove", "pull", "closed"}

\* Where a connection is fits its command, Close works on a chat of its list,
\* and who withdraws the invitations has removed the chat.
ShapeAt(c) ==
    /\ Fits(cmd[c], pc[c])
    /\ cmd[c] # "close" => list[c] = {}
    /\ cmd[c] = "close" /\ pc[c] \in {"remove", "pull"} => chat[c] \in list[c]
    /\ pc[c] = "pull" => chat[c] \notin docs

Shape == \A c \in Conns : ShapeAt(c)

\* Connection c is about to invite its own user u to chat ch, or to withdraw
\* the invitation.
Pushing(c, u, ch) ==
    pc[c] = "push" /\ chat[c] = ch /\ u \in todo[c] /\ Owner[c] = u
Pulling(c, u, ch) == pc[c] = "pull" /\ chat[c] = ch /\ u \in todo[c]

\* Connection c keeps user u in chat ch: it is open, or Close has the chat
\* still to treat.
Keeps(c, u, ch) ==
    /\ Owner[c] = u
    /\ \/ cmd[c] # "close"
       \/ pc[c] = "clear" /\ ch \in list[c]
       \/ pc[c] \in {"remove", "pull"} /\ ch \in list[c] /\ chat[c] # ch

\* The exceptions of ActiveUsersAreConnected.
Strayed(u, ch) ==
    <<u, ch>> \in astray \/ Failed({"insert", "invite", "leave"}, ch)

\* An active user is kept by a connection and has the chat in frame_chat, or
\* the frame_apply that made the chat is about to put it there.
ActiveInv ==
    \A ch \in docs : \A u \in Users : Active(u, ch) =>
        \/ Strayed(u, ch)
        \/ /\ \E c \in Conns : Keeps(c, u, ch)
           /\ Invited(u, ch) \/ \E c \in Conns : Pushing(c, u, ch)

\* Without second connections, who invites is active in the chat, and so keeps
\* it from being removed.
Inviting(c) ==
    \/ chat[c] \in docs /\ Active(Owner[c], chat[c])
    \/ Failed({"invite"}, chat[c])

InviterInv ==
    OneConnPerUser => \A c \in Conns : pc[c] = "push" => Inviting(c)

\* A connection that closes is in pushed no more.
PushedInv ==
    /\ \A p \in pushed : cmd[p[1]] # "close"
    /\ JoinedUsersStayActive

\* A chat that is yet to be inserted has no active users.
Unused == \A ch \in Chats : ch > nchats => Deserted(ch)

IInv ==
    /\ TypeOK /\ Shape /\ Unused /\ NoAbandonedChat /\ ActiveInv /\ InviterInv
    /\ PushedInv /\ NoDanglingInvitation

-----------------------------------------------------------------------------
(* How a step moves its connection, and what it owes the invariant.        *)

Cmds == {"none", "apply", "join", "out", "dismiss", "close"}

\* Connection c gets to label l with command m, chat h, users t and ids s.
Steps(c, l, m, h, t, s) ==
    /\ pc' \in [Conns -> Labels] /\ cmd' \in [Conns -> Cmds]
    /\ chat' \in [Conns -> 0..nchats'] /\ todo' \in [Conns -> SUBSET Users]
    /\ list' \in [Conns -> SUBSET (1..nchats')]
    /\ pc'[c] = l /\ cmd'[c] = m /\ chat'[c] = h /\ todo'[c] = t /\ list'[c] = s
    /\ \A d \in Conns : d # c =>
          /\ pc'[d] = pc[d] /\ cmd'[d] = cmd[d] /\ chat'[d] = chat[d]
          /\ todo'[d] = todo[d] /\ list'[d] = list[d]

DesertedStep(c) ==
    \A ch \in docs' : Deserted(ch)' =>
        \/ ch \in docs /\ Deserted(ch) /\ ~(pc[c] = "remove" /\ chat[c] = ch)
        \/ pc'[c] = "remove" /\ chat'[c] = ch
        \/ Failed({"leave", "remove"}, ch)'

ActiveStep(c) ==
    \A ch \in docs' : \A u \in Users : Active(u, ch)' =>
        \/ Strayed(u, ch)'
        \/ Keeps(c, u, ch)' /\ (Invited(u, ch)' \/ Pushing(c, u, ch)')
        \/ /\ ch \in docs /\ Active(u, ch)
           /\ Strayed(u, ch) => Strayed(u, ch)'
           /\ Keeps(c, u, ch) =>
                 Keeps(c, u, ch)' \/ \E d \in Conns \ {c} : Keeps(d, u, ch)
           /\ Invited(u, ch) => Invited(u, ch)'
           /\ Pushing(c, u, ch) => Pushing(c, u, ch)' \/ Invited(u, ch)'

InviterStep(c) ==
    OneConnPerUser =>
        /\ pc'[c] = "push" => Inviting(c)'
        /\ \A d \in Conns : d # c /\ pc[d] = "push" /\ Inviting(d) => Inviting(d)'

DanglingStep(c) ==
    OneConnPerUser =>
        \A u \in Users : \A ch \in frameChat'[u] :
            \/ ch \in docs'
            \/ Pulling(c, u, ch)'
            \/ Failed({"invite", "remove", "withdraw"}, ch)'
            \/ ch \in frameChat[u] /\ ch \notin docs /\ ~Pulling(c, u, ch)

LEMMA StepInv ==
    ASSUME IInv, NEW c \in Conns, NEW l, NEW m, NEW h, NEW t, NEW s,
           Steps(c, l, m, h, t, s), TypeOK', ShapeAt(c)', Unused', PushedInv',
           \A d \in Conns : chat[d] \in docs' => chat[d] \in docs,
           failed \subseteq failed',
           DesertedStep(c), ActiveStep(c), InviterStep(c), DanglingStep(c)
    PROVE  IInv'
  <1>0. \A ops, ch : Failed(ops, ch) => Failed(ops, ch)'
    BY DEF Failed
  <1>1. Shape'
    <2>1. ASSUME NEW d \in Conns, d # c PROVE ShapeAt(d)'
      BY <2>1 DEF Steps, ShapeAt, IInv, Shape
    <2> QED BY <2>1 DEF Shape
  <1>2. NoAbandonedChat'
    <2> SUFFICES ASSUME NEW ch \in docs', Deserted(ch)',
                        ~Failed({"leave", "remove"}, ch)'
                 PROVE  \E d \in Conns : pc'[d] = "remove" /\ chat'[d] = ch
      BY DEF NoAbandonedChat
    <2>1. CASE ch \in docs /\ Deserted(ch) /\ ~(pc[c] = "remove" /\ chat[c] = ch)
      <3>1. PICK d \in Conns : pc[d] = "remove" /\ chat[d] = ch
        BY <1>0, <2>1 DEF IInv, NoAbandonedChat
      <3> QED BY <2>1, <3>1 DEF Steps
    <2> QED BY <2>1 DEF DesertedStep
  <1>3. ActiveInv'
    <2> SUFFICES ASSUME NEW ch \in docs', NEW u \in Users, Active(u, ch)',
                        ~Strayed(u, ch)'
                 PROVE  /\ \E d \in Conns : Keeps(d, u, ch)'
                        /\ Invited(u, ch)' \/ \E d \in Conns : Pushing(d, u, ch)'
      BY DEF ActiveInv
    <2>1. CASE Keeps(c, u, ch)' /\ (Invited(u, ch)' \/ Pushing(c, u, ch)')
      BY <2>1
    <2>2. CASE /\ ch \in docs /\ Active(u, ch)
               /\ Strayed(u, ch) => Strayed(u, ch)'
               /\ Keeps(c, u, ch) =>
                     Keeps(c, u, ch)' \/ \E d \in Conns \ {c} : Keeps(d, u, ch)
               /\ Invited(u, ch) => Invited(u, ch)'
               /\ Pushing(c, u, ch) => Pushing(c, u, ch)' \/ Invited(u, ch)'
      <3>1. ASSUME NEW d \in Conns, d # c
            PROVE  /\ Keeps(d, u, ch) => Keeps(d, u, ch)'
                   /\ Pushing(d, u, ch) => Pushing(d, u, ch)'
        BY <3>1 DEF Keeps, Pushing, Steps
      <3>2. \E d \in Conns : Keeps(d, u, ch)'
        BY <2>2, <3>1 DEF IInv, ActiveInv
      <3>3. Invited(u, ch)' \/ \E d \in Conns : Pushing(d, u, ch)'
        BY <2>2, <3>1 DEF IInv, ActiveInv
      <3> QED BY <3>2, <3>3
    <2> QED BY <2>1, <2>2 DEF ActiveStep
  <1>4. InviterInv'
    <2> SUFFICES ASSUME OneConnPerUser, NEW d \in Conns, pc'[d] = "push"
                 PROVE  Inviting(d)'
      BY DEF InviterInv, OneConnPerUser
    <2>1. CASE d = c
      BY <2>1 DEF InviterStep
    <2>2. CASE d # c
      BY <2>2 DEF IInv, InviterInv, InviterStep, Steps
    <2> QED BY <2>1, <2>2
  <1>5. NoDanglingInvitation'
    <2> SUFFICES ASSUME OneConnPerUser, NEW u \in Users,
                        NEW ch \in frameChat'[u], ch \notin docs',
                        ~Failed({"invite", "remove", "withdraw"}, ch)'
                 PROVE  \E d \in Conns : Pulling(d, u, ch)'
      BY DEF NoDanglingInvitation, OneConnPerUser, Pulling
    <2>1. CASE ch \in frameChat[u] /\ ch \notin docs /\ ~Pulling(c, u, ch)
      <3>1. PICK d \in Conns : Pulling(d, u, ch)
        BY <1>0, <2>1 DEF IInv, NoDanglingInvitation, Pulling
      <3> QED BY <2>1, <3>1 DEF Pulling, Steps
    <2> QED BY <2>1 DEF DanglingStep
  <1> QED BY <1>1, <1>2, <1>3, <1>4, <1>5 DEF IInv

(* The four ways in which a connection moves.                              *)
LEMMA GotoSteps ==
    ASSUME TypeOK, NEW c \in Conns, NEW l \in Labels, Goto(c, l), nchats' = nchats
    PROVE  Steps(c, l, cmd[c], chat[c], todo[c], list[c])
  BY DEF TypeOK, Goto, Steps, Cmds

LEMMA BeginSteps ==
    ASSUME TypeOK, NEW c \in Conns, NEW m \in Cmds, NEW ch \in 0..nchats,
           NEW l \in Labels, Begin(c, m, ch, l), nchats' = nchats
    PROVE  Steps(c, l, m, ch, todo[c], list[c])
  BY DEF TypeOK, Begin, Steps, Cmds

LEMMA ReturnSteps ==
    ASSUME TypeOK, NEW c \in Conns, Return(c),
           nchats' \in Nat, 0..nchats \subseteq 0..nchats',
           1..nchats \subseteq 1..nchats'
    PROVE  Steps(c, "idle", "none", NoChat, {}, list[c])
  BY DEF TypeOK, Return, Steps, Cmds, Labels, NoChat

LEMMA ReturnsSteps ==
    ASSUME TypeOK, NEW c \in Conns, Return(c), nchats' = nchats
    PROVE  Steps(c, "idle", "none", NoChat, {}, list[c])
  <1>1. nchats' \in Nat /\ 0..nchats \subseteq 0..nchats' /\ 1..nchats \subseteq 1..nchats'
    BY BoundAssumption DEF TypeOK
  <1> QED BY <1>1, ReturnSteps

LEMMA NextIdSteps ==
    ASSUME TypeOK, NEW c \in Conns, NEW ch, NextId(c, ch), nchats' = nchats
    PROVE  Steps(c, IF list[c] \ {ch} = {} THEN "closed" ELSE "clear", cmd[c],
                 NoChat, {}, list[c] \ {ch})
  BY DEF TypeOK, NextId, Steps, Cmds, Labels, NoChat

LEMMA LocalSteps ==
    ASSUME TypeOK, NEW c \in Conns, UNCHANGED local, nchats' = nchats
    PROVE  Steps(c, pc[c], cmd[c], chat[c], todo[c], list[c])
  BY DEF TypeOK, local, Steps, Cmds

\* The types of what does not belong to a connection.
DbType ==
    /\ nchats \in 0..MaxChats /\ fails \in 0..MaxFails /\ docs \subseteq 1..nchats
    /\ activeUser \in [Chats -> [Users -> 0..MaxActive]]
    /\ frameChat \in [Users -> SUBSET (1..nchats)]
    /\ members \in [Chats -> SUBSET Users]
    /\ clients \subseteq Conns
    /\ pushed \subseteq Conns \X (1..nchats) \X BOOLEAN
    /\ astray \subseteq Users \X (1..nchats)
    /\ failed \subseteq Ops \X (1..nchats)

LEMMA TypeStep ==
    ASSUME TypeOK, NEW c \in Conns, NEW l, NEW m, NEW h, NEW t, NEW s,
           Steps(c, l, m, h, t, s), DbType',
           l \in {"push", "add", "remove", "pull", "drop"} => h # NoChat,
           l = "pull" => t # {},
           l = "clear" => s # {}
    PROVE  TypeOK'
  BY DEF TypeOK, DbType, Steps, Cmds

LEMMA ConnType ==
    ASSUME TypeOK, NEW c \in Conns
    PROVE  /\ chat[c] \in 0..nchats /\ list[c] \subseteq 1..nchats
           /\ Owner[c] \in Users /\ nchats \in Nat /\ nchats =< MaxChats
           /\ chat[c] # NoChat => chat[c] \in Chats /\ chat[c] \in 1..nchats
           /\ cmd[c] \in Cmds /\ todo[c] \subseteq Users
  BY OwnerAssumption, BoundAssumption DEF TypeOK, Chats, NoChat, Cmds

(* The end of an operation of the database.                                *)
LEMMA EndsType ==
    ASSUME TypeOK, NEW ok \in BOOLEAN, Ends(ok)
    PROVE  fails' \in 0..MaxFails
  BY BoundAssumption DEF TypeOK, Ends

LEMMA EndsOnType ==
    ASSUME TypeOK, NEW op \in Ops, NEW ch \in 1..nchats, NEW ok \in BOOLEAN,
           EndsOn(op, ch, ok)
    PROVE  /\ fails' \in 0..MaxFails
           /\ failed' \subseteq Ops \X (1..nchats)
           /\ failed \subseteq failed'
           /\ ~ok => <<op, ch>> \in failed'
  <1>1. fails' \in 0..MaxFails
    BY EndsType DEF EndsOn
  <1>2. CASE ok
    BY <1>1, <1>2 DEF EndsOn, TypeOK
  <1>3. CASE ~ok
    BY <1>1, <1>3 DEF EndsOn, TypeOK
  <1> QED BY <1>2, <1>3

(* $pull of a user.                                                        *)
LEMMA Pulled ==
    ASSUME TypeOK, NEW c \in Conns, NEW ch \in Chats, PullActive(c, ch)
    PROVE  /\ activeUser' \in [Chats -> [Users -> 0..MaxActive]]
           /\ astray' \subseteq astray
           /\ \A h \in Chats, u \in Users :
                 Active(u, h)' <=> Active(u, h) /\ ~(h = ch /\ u = Owner[c])
           /\ \A h \in Chats, u \in Users :
                 <<u, h>> \in astray => <<u, h>> \in astray' \/ (h = ch /\ u = Owner[c])
  <1>1. Owner[c] \in Users /\ 0 \in 0..MaxActive
    BY OwnerAssumption, BoundAssumption
  <1>2. activeUser' = [activeUser EXCEPT ![ch] = [activeUser[ch] EXCEPT ![Owner[c]] = 0]]
    BY DEF PullActive
  <1>3. activeUser[ch] \in [Users -> 0..MaxActive]
    BY DEF TypeOK
  <1>4. [activeUser[ch] EXCEPT ![Owner[c]] = 0] \in [Users -> 0..MaxActive]
    BY <1>1, <1>3
  <1>5. activeUser' \in [Chats -> [Users -> 0..MaxActive]]
    BY <1>2, <1>4 DEF TypeOK
  <1>6. \A h \in Chats, u \in Users :
            activeUser'[h][u] = IF h = ch /\ u = Owner[c] THEN 0 ELSE activeUser[h][u]
    BY <1>1, <1>2, <1>3 DEF TypeOK
  <1>7. /\ astray' \subseteq astray
        /\ \A h \in Chats, u \in Users :
              <<u, h>> \in astray => <<u, h>> \in astray' \/ (h = ch /\ u = Owner[c])
    BY DEF PullActive
  <1> QED BY <1>5, <1>6, <1>7 DEF Active

(* Those who have joined stay in, if the step takes nobody out.            *)
LEMMA PushedKept ==
    ASSUME IInv, NEW c \in Conns, NEW l, NEW m, NEW h, NEW t, NEW s,
           Steps(c, l, m, h, t, s), m = "close" => cmd[c] = "close",
           pushed' \subseteq pushed, docs \subseteq docs', failed \subseteq failed',
           \A ch \in docs, u \in Users : Active(u, ch) => Active(u, ch)'
    PROVE  PushedInv'
  <1>1. \A p \in pushed' : p[1] \in Conns /\ cmd'[p[1]] # "close"
    BY DEF IInv, TypeOK, PushedInv, Steps
  <1>2. ASSUME OneConnPerUser, NEW p \in pushed'
        PROVE  (p[2] \in docs /\ Active(Owner[p[1]], p[2]))' \/ Failed({"invite"}, p[2])'
    <2>1. p \in pushed /\ Owner[p[1]] \in Users
      BY <1>1, OwnerAssumption
    <2>2. (p[2] \in docs /\ Active(Owner[p[1]], p[2])) \/ Failed({"invite"}, p[2])
      BY <1>2, <2>1 DEF IInv, PushedInv, JoinedUsersStayActive
    <2> QED BY <2>1, <2>2 DEF Failed, Active
  <1> QED BY <1>1, <1>2 DEF PushedInv, JoinedUsersStayActive, OneConnPerUser

-----------------------------------------------------------------------------
(* The steps that leave the chats and the invitations alone.               *)

LEMMA QuietInv ==
    ASSUME IInv, NEW c \in Conns, NEW l, NEW m, NEW h, NEW t, NEW s,
           Steps(c, l, m, h, t, s), TypeOK', ShapeAt(c)',
           UNCHANGED <<docs, activeUser, frameChat, nchats, failed, pushed,
                       astray>>,
           cmd[c] # "close", m # "close", pc[c] \notin {"remove", "pull"},
           pc[c] = "push" => todo[c] = {}, l # "push"
    PROVE  IInv'
  <1>1. Unused'
    BY DEF IInv, Unused, Deserted, Active
  <1>2. PushedInv'
    BY PushedKept DEF Active
  <1>3. DesertedStep(c)
    BY DEF DesertedStep, Deserted, Active
  <1>4. ActiveStep(c)
    BY DEF ActiveStep, Strayed, Failed, Active, Keeps, Invited, Pushing, Steps
  <1>5. InviterStep(c)
    BY DEF InviterStep, Inviting, Failed, Active, Steps
  <1>6. DanglingStep(c)
    BY DEF DanglingStep, Pulling
  <1> QED BY <1>1, <1>2, <1>3, <1>4, <1>5, <1>6, StepInv

LEMMA ApplyInv ==
    ASSUME IInv, NEW c \in Conns, Apply(c) PROVE IInv'
  <1>1. /\ pc[c] = "idle" /\ cmd[c] = "none" /\ list[c] = {}
        /\ UNCHANGED <<docs, activeUser, frameChat, nchats, failed, members,
                       clients, pushed, astray>>
    BY DEF Apply, Ready, db, IInv, Shape, ShapeAt, Fits
  <1>2. Steps(c, "insert", "apply", NoChat, todo[c], list[c])
    <2>1. NoChat \in 0..nchats
      BY DEF IInv, TypeOK, NoChat
    <2> QED BY <1>1, <2>1, BeginSteps DEF Apply, IInv, Cmds, Labels
  <1>3. TypeOK'
    <2>1. fails' \in 0..MaxFails
      BY EndsType DEF Apply, IInv
    <2>2. DbType'
      BY <1>1, <2>1 DEF IInv, TypeOK, DbType
    <2> QED BY <1>2, <2>2, TypeStep DEF IInv
  <1>4. ShapeAt(c)'
    BY <1>1, <1>2 DEF ShapeAt, Fits, Steps
  <1> QED BY <1>1, <1>2, <1>3, <1>4, QuietInv

(* AddUserId and RemoveUserId.                                             *)
LEMMA MembersInv ==
    ASSUME IInv, NEW c \in Conns, AddUserId(c) \/ RemoveUserId(c) PROVE IInv'
  <1>1. /\ pc[c] \in {"add", "drop"} /\ cmd[c] # "close"
        /\ UNCHANGED <<docs, activeUser, frameChat, nchats, fails, failed,
                       clients, pushed, astray>>
        /\ Return(c)
    BY DEF AddUserId, RemoveUserId, db, errs, IInv, Shape, ShapeAt, Fits
  <1>2. Steps(c, "idle", "none", NoChat, {}, list[c])
    BY <1>1, ReturnsSteps DEF IInv
  <1>3. TypeOK'
    <2>1. members' \in [Chats -> SUBSET Users]
      <3>1. chat[c] \in Chats /\ Owner[c] \in Users
        BY <1>1, ConnType DEF IInv, TypeOK
      <3>2. CASE AddUserId(c)
        BY <3>1, <3>2 DEF AddUserId, IInv, TypeOK
      <3>3. CASE RemoveUserId(c)
        BY <3>1, <3>3 DEF RemoveUserId, IInv, TypeOK
      <3> QED BY <3>2, <3>3
    <2>2. DbType'
      BY <1>1, <2>1 DEF IInv, TypeOK, DbType
    <2> QED BY <1>2, <2>2, TypeStep DEF IInv
  <1>4. ShapeAt(c)'
    BY <1>1, <1>2 DEF ShapeAt, Fits, Steps, IInv, Shape
  <1> QED BY <1>1, <1>2, <1>3, <1>4, QuietInv

LEMMA PushNobodyInv ==
    ASSUME IInv, NEW c \in Conns, PushNobody(c) PROVE IInv'
  <1>1. /\ pc[c] = "push" /\ cmd[c] = "apply" /\ todo[c] = {} /\ Goto(c, "add")
        /\ UNCHANGED <<docs, activeUser, frameChat, nchats, fails, failed,
                       members, clients, pushed, astray>>
    BY DEF PushNobody, db, errs, IInv, Shape, ShapeAt, Fits
  <1>2. Steps(c, "add", "apply", chat[c], todo[c], list[c])
    BY <1>1, GotoSteps DEF IInv, Labels
  <1>3. TypeOK'
    <2>1. DbType' /\ chat[c] # NoChat
      BY <1>1 DEF IInv, TypeOK, DbType
    <2> QED BY <1>2, <2>1, TypeStep DEF IInv
  <1>4. ShapeAt(c)'
    BY <1>1, <1>2 DEF ShapeAt, Fits, Steps, IInv, Shape
  <1> QED BY <1>1, <1>2, <1>3, <1>4, QuietInv

(* A wrong token, a login.                                                 *)
LEMMA IdentityInv ==
    ASSUME IInv, NEW c \in Conns, TokenRefused(c) \/ AuthClient(c) PROVE IInv'
  <1>1. /\ pc[c] = "idle" /\ cmd[c] = "none" /\ UNCHANGED local
        /\ UNCHANGED <<docs, activeUser, frameChat, nchats, fails, failed,
                       members, pushed, astray>>
        /\ clients' \subseteq Conns
    BY DEF TokenRefused, AuthClient, Ready, db, errs, IInv, Shape, ShapeAt, Fits,
           TypeOK
  <1>2. Steps(c, "idle", "none", chat[c], todo[c], list[c])
    BY <1>1, LocalSteps DEF IInv
  <1>3. TypeOK'
    <2>1. DbType'
      BY <1>1 DEF IInv, TypeOK, DbType
    <2> QED BY <1>2, <2>1, TypeStep DEF IInv
  <1>4. ShapeAt(c)'
    BY <1>1, <1>2 DEF ShapeAt, Fits, Steps, IInv, Shape
  <1> QED BY <1>1, <1>2, <1>3, <1>4, QuietInv

-----------------------------------------------------------------------------
(* frame_apply                                                             *)

(* A new chat, of which the user of the connection is the one active user. *)
LEMMA Inserted ==
    ASSUME IInv, NEW c \in Conns, nchats < MaxChats, NEW n, n = nchats + 1,
           nchats' = n, docs' = docs \cup {n},
           activeUser' = [activeUser EXCEPT ![n][Owner[c]] = 1]
    PROVE  /\ n \in Chats /\ n \notin docs /\ n \in 1..n /\ docs \subseteq Chats
           /\ 1..nchats \subseteq 1..n /\ 0..nchats \subseteq 0..n
           /\ n \notin 0..nchats /\ n \in Nat /\ n # NoChat /\ n \in 0..MaxChats
           /\ activeUser' \in [Chats -> [Users -> 0..MaxActive]]
           /\ \A h \in Chats \ {n}, u \in Users : Active(u, h)' <=> Active(u, h)
           /\ \A u \in Users : Active(u, n)' <=> u = Owner[c]
           /\ \A d \in Conns : chat[d] # n
           /\ Unused'
  <1>2. /\ nchats \in Nat /\ n \in Chats /\ n \notin docs /\ n \in 1..n
        /\ 1..nchats \subseteq 1..n /\ 0..nchats \subseteq 0..n /\ n \notin 0..nchats
        /\ n \in Nat /\ n # NoChat /\ n \in 0..MaxChats
    BY ConnType, BoundAssumption DEF IInv, TypeOK, Chats, NoChat
  <1>3. docs \subseteq Chats /\ Owner[c] \in Users
    BY <1>2, BoundAssumption, OwnerAssumption DEF IInv, TypeOK, Chats
  <1>4. activeUser' = [activeUser EXCEPT ![n] = [activeUser[n] EXCEPT ![Owner[c]] = 1]]
    OBVIOUS
  <1>5. activeUser[n] \in [Users -> 0..MaxActive] /\ 1 \in 0..MaxActive
    BY <1>2, BoundAssumption DEF IInv, TypeOK
  <1>6. [activeUser[n] EXCEPT ![Owner[c]] = 1] \in [Users -> 0..MaxActive]
    BY <1>3, <1>5
  <1>7. activeUser' \in [Chats -> [Users -> 0..MaxActive]]
    BY <1>2, <1>4, <1>6 DEF IInv, TypeOK
  <1>8. \A h \in Chats, u \in Users :
           activeUser'[h][u] = IF h = n /\ u = Owner[c] THEN 1 ELSE activeUser[h][u]
    BY <1>2, <1>3, <1>4, <1>5 DEF IInv, TypeOK
  <1>9. \A u \in Users : activeUser[n][u] \in Nat /\ ~Active(u, n)
    <2>1. n > nchats
      BY <1>2
    <2> QED BY <1>2, <1>5, <2>1, BoundAssumption DEF IInv, Unused, Deserted
  <1>10. \A h \in Chats \ {n}, u \in Users : Active(u, h)' <=> Active(u, h)
    BY <1>8 DEF Active
  <1>11. \A u \in Users : Active(u, n)' <=> u = Owner[c]
    BY <1>2, <1>8, <1>9 DEF Active
  <1>12. \A d \in Conns : chat[d] # n
    BY <1>2, ConnType DEF IInv
  <1>13. Unused'
    <2> SUFFICES ASSUME NEW ch \in Chats, ch > n, NEW u \in Users PROVE ~Active(u, ch)'
      BY DEF Unused, Deserted
    <2>1. ch > nchats /\ ch # n
      BY <1>2 DEF Chats
    <2> QED BY <1>10, <2>1 DEF IInv, Unused, Deserted
  <1> QED BY <1>2, <1>3, <1>7, <1>10, <1>11, <1>12, <1>13

LEMMA InsertChatInv ==
    ASSUME IInv, NEW c \in Conns, InsertChat(c) PROVE IInv'
  <1>0. PICK n : n = nchats + 1
    OBVIOUS
  <1>1. /\ pc[c] = "insert" /\ cmd[c] = "apply" /\ nchats < MaxChats /\ nchats' = n
        /\ docs' = docs \cup {n} /\ list[c] = {}
        /\ activeUser' = [activeUser EXCEPT ![n][Owner[c]] = 1]
        /\ pc' = [pc EXCEPT ![c] = "push"] /\ chat' = [chat EXCEPT ![c] = n]
        /\ astray' = astray \cup IF Owner[c] \in todo'[c] THEN {} ELSE {<<Owner[c], n>>}
        /\ UNCHANGED <<frameChat, failed, members, cmd, list, clients, pushed>>
    BY <1>0 DEF InsertChat, IInv, Shape, ShapeAt, Fits
  <1>2. PICK ok \in BOOLEAN :
           Ends(ok) /\ todo' = [todo EXCEPT ![c] = IF ok THEN Room ELSE {}]
    BY DEF InsertChat
  <1>3. /\ n \in Chats /\ n \notin docs /\ n \in 1..n /\ docs \subseteq Chats
        /\ 1..nchats \subseteq 1..n /\ 0..nchats \subseteq 0..n
        /\ n \notin 0..nchats /\ n \in Nat /\ n # NoChat /\ n \in 0..MaxChats
        /\ activeUser' \in [Chats -> [Users -> 0..MaxActive]]
        /\ \A h \in Chats \ {n}, u \in Users : Active(u, h)' <=> Active(u, h)
        /\ \A u \in Users : Active(u, n)' <=> u = Owner[c]
        /\ \A d \in Conns : chat[d] # n
        /\ Unused'
    BY <1>0, <1>1, Inserted
  <1>4. Steps(c, "push", "apply", n, todo'[c], list[c])
    <2>1. todo' \in [Conns -> SUBSET Users]
          /\ \A d \in Conns : d # c => todo'[d] = todo[d]
      BY <1>2, RoomAssumption DEF IInv, TypeOK
    <2>2. /\ chat' \in [Conns -> 0..nchats'] /\ list' \in [Conns -> SUBSET (1..nchats')]
          /\ chat'[c] = n
      BY <1>1, <1>3 DEF IInv, TypeOK
    <2> QED BY <1>1, <2>1, <2>2 DEF Steps, IInv, TypeOK, Cmds, Labels
  <1>5. TypeOK'
    <2>1. astray' \subseteq Users \X (1..n)
      <3>1. Owner[c] \in Users
        BY OwnerAssumption
      <3>2. astray \subseteq Users \X (1..n)
        BY <1>3 DEF IInv, TypeOK
      <3> QED BY <1>1, <1>3, <3>1, <3>2
    <2>2. fails' \in 0..MaxFails
      BY <1>2, EndsType DEF IInv
    <2>3. pushed \subseteq Conns \X (1..n) \X BOOLEAN
      BY <1>3 DEF IInv, TypeOK
    <2>5. failed \subseteq Ops \X (1..n)
      BY <1>3 DEF IInv, TypeOK
    <2>4. DbType'
      BY <1>1, <1>3, <2>1, <2>2, <2>3, <2>5 DEF IInv, TypeOK, DbType
    <2> QED BY <1>3, <1>4, <2>4, TypeStep DEF IInv
  <1>6. ShapeAt(c)'
    BY <1>1, <1>4 DEF ShapeAt, Fits, Steps
  <1>7. \A d \in Conns : chat[d] \in docs' => chat[d] \in docs
    BY <1>1, <1>3
  <1>8. PushedInv'
    <2>1. \A ch \in docs, u \in Users : Active(u, ch) => Active(u, ch)'
      BY <1>3
    <2> QED BY <1>1, <1>4, <2>1, PushedKept
  <1>9. DesertedStep(c)
    <2> SUFFICES ASSUME NEW ch \in docs', Deserted(ch)'
                 PROVE  ch \in docs /\ Deserted(ch)
      BY <1>1 DEF DesertedStep
    <2>1. ch # n
      BY <1>3, OwnerAssumption DEF Deserted
    <2> QED BY <1>1, <1>3, <2>1 DEF Deserted
  <1>10. ActiveStep(c)
    <2> SUFFICES ASSUME NEW ch \in docs', NEW u \in Users, Active(u, ch)'
                 PROVE  \/ Strayed(u, ch)'
                        \/ Keeps(c, u, ch)' /\ (Invited(u, ch)' \/ Pushing(c, u, ch)')
                        \/ /\ ch \in docs /\ Active(u, ch)
                           /\ Strayed(u, ch) => Strayed(u, ch)'
                           /\ Keeps(c, u, ch) => Keeps(c, u, ch)'
                           /\ Invited(u, ch) => Invited(u, ch)'
                           /\ ~Pushing(c, u, ch)
      BY DEF ActiveStep
    <2>1. CASE ch = n
      <3>1. u = Owner[c]
        BY <1>3, <2>1
      <3>2. CASE u \in todo'[c]
        BY <1>4, <2>1, <3>1, <3>2 DEF Keeps, Pushing, Steps
      <3>3. CASE u \notin todo'[c]
        BY <1>1, <2>1, <3>1, <3>3 DEF Strayed
      <3> QED BY <3>2, <3>3
    <2>2. CASE ch # n
      <3>1. ch \in docs /\ Active(u, ch)
        BY <1>1, <1>3, <2>2
      <3>2. Strayed(u, ch) => Strayed(u, ch)'
        BY <1>1 DEF Strayed, Failed
      <3> QED BY <1>1, <1>4, <3>1, <3>2 DEF Keeps, Invited, Pushing, Steps
    <2> QED BY <2>1, <2>2
  <1>11. InviterStep(c)
    <2>1. Inviting(c)'
      BY <1>1, <1>3, <1>4, OwnerAssumption DEF Inviting, Steps
    <2>2. ASSUME NEW d \in Conns, d # c, Inviting(d) PROVE Inviting(d)'
      BY <1>1, <1>3, <1>4, <2>2, ConnType
      DEF Inviting, Failed, Active, Steps, IInv
    <2> QED BY <2>1, <2>2 DEF InviterStep
  <1>12. DanglingStep(c)
    BY <1>1 DEF DanglingStep, Pulling
  <1> QED BY <1>1, <1>3, <1>4, <1>5, <1>6, <1>7, <1>8, <1>9, <1>10, <1>11, <1>12,
             StepInv

LEMMA InsertFailsInv ==
    ASSUME IInv, NEW c \in Conns, InsertFails(c) PROVE IInv'
  <1>0. PICK n : n = nchats + 1
    OBVIOUS
  <1>1. /\ pc[c] = "insert" /\ cmd[c] = "apply" /\ list[c] = {} /\ Return(c)
        /\ UNCHANGED <<frameChat, members, clients, pushed, astray>>
    BY DEF InsertFails, IInv, Shape, ShapeAt, Fits
  <1>2. CASE /\ nchats < MaxChats /\ nchats' = n /\ docs' = docs \cup {n}
             /\ activeUser' = [activeUser EXCEPT ![n][Owner[c]] = 1]
             /\ EndsOn("insert", n, FALSE)
    <2>1. /\ n \in Chats /\ n \notin docs /\ n \in 1..n /\ docs \subseteq Chats
          /\ 1..nchats \subseteq 1..n /\ 0..nchats \subseteq 0..n
          /\ n \notin 0..nchats /\ n \in Nat /\ n # NoChat /\ n \in 0..MaxChats
          /\ activeUser' \in [Chats -> [Users -> 0..MaxActive]]
          /\ \A h \in Chats \ {n}, u \in Users : Active(u, h)' <=> Active(u, h)
          /\ \A u \in Users : Active(u, n)' <=> u = Owner[c]
          /\ \A d \in Conns : chat[d] # n
          /\ Unused'
      BY <1>0, <1>2, Inserted
    <2>2. Steps(c, "idle", "none", NoChat, {}, list[c])
      BY <1>1, <1>2, <2>1, ReturnSteps DEF IInv
    <2>3. /\ fails' \in 0..MaxFails /\ failed' = failed \cup {<<"insert", n>>}
          /\ "insert" \in Ops
      BY <1>2, EndsType DEF IInv, EndsOn, Ops
    <2>4. TypeOK'
      <3>1. pushed \subseteq Conns \X (1..n) \X BOOLEAN
        BY <2>1 DEF IInv, TypeOK
      <3>2. astray \subseteq Users \X (1..n)
        BY <2>1 DEF IInv, TypeOK
      <3>3. failed' \subseteq Ops \X (1..n)
        <4>1. failed \subseteq Ops \X (1..n)
          BY <2>1 DEF IInv, TypeOK
        <4> QED BY <2>1, <2>3, <4>1
      <3>4. DbType'
        BY <1>1, <1>2, <2>1, <2>3, <3>1, <3>2, <3>3 DEF IInv, TypeOK, DbType
      <3> QED BY <2>2, <3>4, TypeStep DEF IInv
    <2>5. ShapeAt(c)'
      BY <1>1, <2>2 DEF ShapeAt, Fits, Steps
    <2>6. PushedInv'
      <3>1. \A ch \in docs, u \in Users : Active(u, ch) => Active(u, ch)'
        BY <2>1
      <3> QED BY <1>1, <1>2, <2>2, <2>3, <3>1, PushedKept
    <2>7. DesertedStep(c)
      <3> SUFFICES ASSUME NEW ch \in docs', Deserted(ch)'
                   PROVE  ch \in docs /\ Deserted(ch)
        BY <1>1 DEF DesertedStep
      <3>1. ch # n
        BY <2>1, OwnerAssumption DEF Deserted
      <3> QED BY <1>2, <2>1, <3>1 DEF Deserted
    <2>8. ActiveStep(c)
      <3> SUFFICES ASSUME NEW ch \in docs', NEW u \in Users, Active(u, ch)'
                   PROVE  \/ Strayed(u, ch)'
                          \/ /\ ch \in docs /\ Active(u, ch)
                             /\ Strayed(u, ch) => Strayed(u, ch)'
                             /\ Keeps(c, u, ch) => Keeps(c, u, ch)'
                             /\ Invited(u, ch) => Invited(u, ch)'
                             /\ ~Pushing(c, u, ch)
        BY DEF ActiveStep
      <3>1. CASE ch = n
        BY <2>3, <3>1 DEF Strayed, Failed
      <3>2. CASE ch # n
        <4>1. ch \in docs /\ Active(u, ch)
          BY <1>2, <2>1, <3>2
        <4>2. Strayed(u, ch) => Strayed(u, ch)'
          BY <1>1, <2>3 DEF Strayed, Failed
        <4> QED BY <1>1, <2>2, <4>1, <4>2 DEF Keeps, Invited, Pushing, Steps
      <3> QED BY <3>1, <3>2
    <2>9. InviterStep(c)
      <3>1. ASSUME NEW d \in Conns, d # c, Inviting(d) PROVE Inviting(d)'
        BY <1>2, <2>1, <2>2, <2>3, <3>1, ConnType
        DEF Inviting, Failed, Active, Steps, IInv
      <3> QED BY <2>2, <3>1 DEF InviterStep, Steps
    <2>10. DanglingStep(c)
      BY <1>1, <1>2 DEF DanglingStep, Pulling
    <2>11. /\ \A d \in Conns : chat[d] \in docs' => chat[d] \in docs
           /\ failed \subseteq failed'
      BY <1>2, <2>1, <2>3
    <2> QED BY <2>1, <2>2, <2>4, <2>5, <2>6, <2>7, <2>8, <2>9, <2>10, <2>11,
               StepInv
  <1>3. CASE UNCHANGED <<nchats, docs, activeUser, failed>> /\ Ends(FALSE)
    <2>1. Steps(c, "idle", "none", NoChat, {}, list[c])
      BY <1>1, <1>3, ReturnsSteps DEF IInv
    <2>2. fails' \in 0..MaxFails
      BY <1>3, EndsType DEF IInv
    <2>3. TypeOK'
      <3>1. DbType'
        BY <1>1, <1>3, <2>2 DEF IInv, TypeOK, DbType
      <3> QED BY <2>1, <3>1, TypeStep DEF IInv
    <2>4. ShapeAt(c)'
      BY <1>1, <2>1 DEF ShapeAt, Fits, Steps
    <2> QED BY <1>1, <1>3, <2>1, <2>3, <2>4, QuietInv
  <1> QED BY <1>0, <1>2, <1>3 DEF InsertFails

LEMMA PushFrameChatInv ==
    ASSUME IInv, NEW c \in Conns, PushFrameChat(c) PROVE IInv'
  <1>1. PICK u \in todo[c] :
          /\ frameChat' = [frameChat EXCEPT ![u] = @ \cup {chat[c]}]
          /\ todo' = [todo EXCEPT ![c] = @ \ {u}]
          /\ pc' = [pc EXCEPT ![c] = IF todo[c] = {u} THEN "add" ELSE "push"]
    BY DEF PushFrameChat
  <1> DEFINE l == IF todo[c] = {u} THEN "add" ELSE "push"
  <1>2. /\ pc[c] = "push" /\ cmd[c] = "apply" /\ list[c] = {}
        /\ UNCHANGED <<docs, activeUser, nchats, fails, failed, members, cmd,
                       chat, list, clients, pushed, astray>>
    BY DEF PushFrameChat, errs, IInv, Shape, ShapeAt, Fits
  <1>3. /\ chat[c] \in 1..nchats /\ chat[c] # NoChat /\ u \in Users
    BY <1>2, ConnType DEF IInv, TypeOK
  <1>4. Steps(c, l, "apply", chat[c], todo[c] \ {u}, list[c])
    BY <1>1, <1>2 DEF Steps, IInv, TypeOK, Cmds, Labels
  <1>5. /\ frameChat' \in [Users -> SUBSET (1..nchats)]
        /\ \A v \in Users : frameChat'[v] =
              IF v = u THEN frameChat[u] \cup {chat[c]} ELSE frameChat[v]
    BY <1>1, <1>3 DEF IInv, TypeOK
  <1>6. TypeOK'
    <2>1. DbType'
      BY <1>2, <1>5 DEF IInv, TypeOK, DbType
    <2> QED BY <1>3, <1>4, <2>1, TypeStep DEF IInv
  <1>7. ShapeAt(c)' /\ Unused'
    BY <1>2, <1>4 DEF ShapeAt, Fits, Steps, IInv, Unused, Deserted, Active
  <1>8. DesertedStep(c)
    BY <1>2 DEF DesertedStep, Deserted, Active
  <1>9. ActiveStep(c)
    <2>1. \A v, ch : Strayed(v, ch)' = Strayed(v, ch)
      BY <1>2 DEF Strayed, Failed
    <2> QED BY <1>2, <1>4, <1>5, <2>1
        DEF ActiveStep, Active, Keeps, Invited, Pushing, Steps
  <1>10. InviterStep(c)
    BY <1>2, <1>4 DEF InviterStep, Inviting, Failed, Active, Steps, IInv,
       InviterInv
  <1>11. DanglingStep(c)
    <2> SUFFICES ASSUME OneConnPerUser, NEW v \in Users,
                        NEW ch \in frameChat'[v], ch \notin docs'
                 PROVE  ch \in frameChat[v] \/ Failed({"invite"}, ch)'
      BY <1>2 DEF DanglingStep, Pulling, Failed
    <2>1. chat[c] \in docs \/ Failed({"invite"}, chat[c])
      BY <1>2 DEF IInv, InviterInv, Inviting
    <2> QED BY <1>2, <1>5, <2>1 DEF Failed
  <1>12. PushedInv'
    BY <1>2, <1>4, PushedKept DEF Active
  <1> QED BY <1>2, <1>4, <1>6, <1>7, <1>8, <1>9, <1>10, <1>11, <1>12, StepInv

LEMMA PushFailsInv ==
    ASSUME IInv, NEW c \in Conns, PushFails(c) PROVE IInv'
  <1>0. PICK g : g = chat[c]
    OBVIOUS
  <1>1. /\ pc[c] = "push" /\ cmd[c] = "apply" /\ list[c] = {}
        /\ EndsOn("invite", g, FALSE) /\ Return(c)
        /\ UNCHANGED <<frameChat, nchats, members, clients, pushed, astray>>
    BY <1>0 DEF PushFails, IInv, Shape, ShapeAt, Fits
  <1>2. g \in Chats /\ g \in 1..nchats /\ docs \subseteq Chats
    BY <1>0, <1>1, ConnType, BoundAssumption DEF IInv, TypeOK, Chats
  <1>3. Steps(c, "idle", "none", NoChat, {}, list[c])
    BY <1>1, ReturnsSteps DEF IInv
  <1>4. /\ activeUser' \in [Chats -> [Users -> 0..MaxActive]]
        /\ docs' \subseteq docs /\ docs \ {g} \subseteq docs'
        /\ \A h \in Chats, u \in Users : h # g => (Active(u, h)' <=> Active(u, h))
        /\ \A h \in Chats, u \in Users : Active(u, h)' => Active(u, h)
        /\ \A u \in Users : g \in docs' =>
              (Active(u, g)' <=> Active(u, g))
    <2>1. CASE /\ docs' = docs \ {g}
               /\ activeUser' = [activeUser EXCEPT ![g] = [u \in Users |-> 0]]
      <3>2. [u \in Users |-> 0] \in [Users -> 0..MaxActive]
        BY BoundAssumption
      <3>3. activeUser' \in [Chats -> [Users -> 0..MaxActive]]
        BY <1>2, <2>1, <3>2 DEF IInv, TypeOK
      <3>4. \A h \in Chats, u \in Users :
               activeUser'[h][u] = IF h = g THEN 0 ELSE activeUser[h][u]
        BY <1>2, <2>1 DEF IInv, TypeOK
      <3> QED BY <2>1, <3>3, <3>4 DEF Active
    <2>2. CASE docs' = docs /\ activeUser' = activeUser
      BY <2>2 DEF IInv, TypeOK, Active
    <2> QED BY <1>0, <2>1, <2>2 DEF PushFails
  <1>5. /\ fails' \in 0..MaxFails /\ failed' \subseteq Ops \X (1..nchats)
        /\ failed \subseteq failed' /\ <<"invite", g>> \in failed'
    BY <1>1, <1>2, EndsOnType DEF IInv, Ops
  <1>6. TypeOK'
    <2>1. DbType'
      BY <1>1, <1>4, <1>5 DEF IInv, TypeOK, DbType
    <2> QED BY <1>3, <2>1, TypeStep DEF IInv
  <1>7. ShapeAt(c)'
    BY <1>1, <1>3 DEF ShapeAt, Fits, Steps
  <1>8. Unused'
    BY <1>1, <1>4 DEF IInv, Unused, Deserted
  <1>9. DesertedStep(c)
    <2> SUFFICES ASSUME NEW ch \in docs', Deserted(ch)' PROVE Deserted(ch)
      BY <1>1, <1>4 DEF DesertedStep
    <2> QED BY <1>2, <1>4 DEF Deserted
  <1>10. ActiveStep(c)
    <2> SUFFICES ASSUME NEW ch \in docs', NEW u \in Users, Active(u, ch)',
                        ch # g
                 PROVE  /\ ch \in docs /\ Active(u, ch)
                        /\ Strayed(u, ch) => Strayed(u, ch)'
                        /\ Keeps(c, u, ch) => Keeps(c, u, ch)'
                        /\ Invited(u, ch) => Invited(u, ch)'
                        /\ ~Pushing(c, u, ch)
      <3>1. \A u \in Users : Strayed(u, g)'
        BY <1>5 DEF Strayed, Failed
      <3> QED BY <3>1 DEF ActiveStep
    <2>1. Strayed(u, ch) => Strayed(u, ch)'
      BY <1>1, <1>5 DEF Strayed, Failed
    <2> QED BY <1>0, <1>1, <1>2, <1>3, <1>4, <2>1
            DEF Keeps, Invited, Pushing, Steps
  <1>11. InviterStep(c)
    <2> SUFFICES ASSUME OneConnPerUser, NEW d \in Conns, d # c, pc[d] = "push",
                        Inviting(d)
                 PROVE  Inviting(d)'
      BY <1>3 DEF InviterStep, Steps
    <2>0. PICK e : e = chat[d]
      OBVIOUS
    <2>1. Failed({"invite"}, g)' /\ chat'[d] = e
      BY <1>3, <1>5, <2>0 DEF Failed, Steps
    <2>2. Failed({"invite"}, e) => Failed({"invite"}, e)'
      BY <1>5 DEF Failed
    <2>3. CASE e # g /\ e \in docs /\ Active(Owner[d], e)
      BY <1>2, <1>4, <2>1, <2>3, OwnerAssumption DEF Inviting, Active
    <2>4. CASE e = g \/ Failed({"invite"}, e)
      BY <2>1, <2>2, <2>4 DEF Inviting, Failed
    <2> QED BY <2>0, <2>3, <2>4 DEF Inviting
  <1>12. DanglingStep(c)
    BY <1>1, <1>4, <1>5 DEF DanglingStep, Failed, Pulling
  <1>13. PushedInv'
    <2>1. \A p \in pushed' : cmd'[p[1]] # "close"
      BY <1>1, <1>3 DEF IInv, PushedInv, Steps, TypeOK
    <2>2. ASSUME OneConnPerUser, NEW p \in pushed
          PROVE  (p[2] \in docs /\ Active(Owner[p[1]], p[2]))' \/ Failed({"invite"}, p[2])'
      <3>1. p[2] = g => Failed({"invite"}, p[2])'
        BY <1>5 DEF Failed
      <3>2. (p[2] \in docs /\ Active(Owner[p[1]], p[2])) \/ Failed({"invite"}, p[2])
        BY <2>2 DEF IInv, PushedInv, JoinedUsersStayActive
      <3>3. Owner[p[1]] \in Users
        BY OwnerAssumption DEF IInv, TypeOK
      <3>4. Failed({"invite"}, p[2]) => Failed({"invite"}, p[2])'
        BY <1>5 DEF Failed
      <3>5. CASE p[2] # g /\ p[2] \in docs /\ Active(Owner[p[1]], p[2])
        BY <1>2, <1>4, <3>3, <3>5 DEF Active
      <3> QED BY <3>1, <3>2, <3>4, <3>5
    <2> QED BY <1>1, <2>1, <2>2
            DEF PushedInv, JoinedUsersStayActive, OneConnPerUser
  <1>14. \A d \in Conns : chat[d] \in docs' => chat[d] \in docs
    BY <1>4
  <1> QED BY <1>3, <1>5, <1>6, <1>7, <1>8, <1>9, <1>10, <1>11, <1>12, <1>13,
             <1>14,
             StepInv

-----------------------------------------------------------------------------
(* frame_join, frame_accept, frame_out and frame_dismiss                   *)

LEMMA JoinInv ==
    ASSUME IInv, NEW c \in Conns, NEW ch \in Chats, Join(c, ch) PROVE IInv'
  <1>1. /\ pc[c] = "idle" /\ cmd[c] = "none" /\ ch \in docs /\ list[c] = {}
        /\ astray' = astray \cup IF Invited(Owner[c], ch) THEN {} ELSE {<<Owner[c], ch>>}
        /\ UNCHANGED <<docs, frameChat, nchats, failed, members, clients>>
    BY DEF Join, Ready, IInv, Shape, ShapeAt, Fits
  <1>2. /\ ch \in 1..nchats /\ ch \in 0..nchats /\ ch # NoChat
        /\ Owner[c] \in Users /\ docs \subseteq Chats
    BY <1>1, ConnType, BoundAssumption DEF IInv, TypeOK, Chats, NoChat
  <1>3. /\ fails' \in 0..MaxFails
        /\ \/ Steps(c, "add", "join", ch, todo[c], list[c])
           \/ Steps(c, "idle", "none", chat[c], todo[c], list[c])
        /\ \E b \in BOOLEAN : pushed' \subseteq pushed \cup {<<c, ch, b>>}
    <2>1. PICK ok \in BOOLEAN :
             /\ Ends(ok)
             /\ IF ok
                THEN /\ Begin(c, "join", ch, "add")
                     /\ pushed' = pushed \cup
                           {<<c, ch, \E p \in pushed : /\ p[1] # c /\ p[2] = ch
                                                       /\ Owner[p[1]] = Owner[c]>>}
                ELSE UNCHANGED <<local, pushed>>
      BY DEF Join
    <2>2. fails' \in 0..MaxFails
      BY <2>1, EndsType DEF IInv
    <2>3. CASE ok
      <3>1. Steps(c, "add", "join", ch, todo[c], list[c])
        BY <1>1, <1>2, <2>1, <2>3, BeginSteps DEF IInv, Cmds, Labels
      <3> DEFINE b == \E p \in pushed : /\ p[1] # c /\ p[2] = ch
                                        /\ Owner[p[1]] = Owner[c]
      <3>2. b \in BOOLEAN
        OBVIOUS
      <3>3. pushed' = pushed \cup {<<c, ch, b>>}
        BY <2>1, <2>3
      <3> HIDE DEF b
      <3> QED BY <2>2, <3>1, <3>2, <3>3
    <2>4. CASE ~ok
      <3>1. Steps(c, "idle", "none", chat[c], todo[c], list[c])
        BY <1>1, <2>1, <2>4, LocalSteps DEF IInv
      <3> QED BY <2>1, <2>2, <2>4, <3>1
    <2> QED BY <2>3, <2>4
  <1>4. /\ activeUser' \in [Chats -> [Users -> 0..MaxActive]]
        /\ \A h \in Chats, u \in Users :
              Active(u, h)' <=> Active(u, h) \/ (h = ch /\ u = Owner[c])
    <2> DEFINE n == activeUser[ch][Owner[c]] + 1
    <2>1. activeUser' = [activeUser EXCEPT ![ch] = [activeUser[ch] EXCEPT ![Owner[c]] = n]]
      BY DEF Join
    <2>2. activeUser[ch] \in [Users -> 0..MaxActive]
      BY DEF IInv, TypeOK
    <2>3. activeUser[ch][Owner[c]] \in 0..MaxActive
      BY <1>2, <2>2
    <2>4. n \in 0..MaxActive /\ n > 0
      BY <2>3, BoundAssumption DEF Join
    <2> HIDE DEF n
    <2>5. [activeUser[ch] EXCEPT ![Owner[c]] = n] \in [Users -> 0..MaxActive]
      BY <1>2, <2>2, <2>4
    <2>6. activeUser' \in [Chats -> [Users -> 0..MaxActive]]
      BY <2>1, <2>5 DEF IInv, TypeOK
    <2>7. \A h \in Chats, u \in Users :
             activeUser'[h][u] = IF h = ch /\ u = Owner[c] THEN n ELSE activeUser[h][u]
      BY <1>2, <2>1, <2>2 DEF IInv, TypeOK
    <2> QED BY <2>4, <2>6, <2>7 DEF Active
  <1>5. PICK l, m, g : /\ Steps(c, l, m, g, todo[c], list[c])
                       /\ \/ l = "add" /\ m = "join" /\ g = ch
                          \/ l = "idle" /\ m = "none"
    BY <1>3
  <1>6. TypeOK'
    <2>1. astray' \subseteq Users \X (1..nchats)
      BY <1>1, <1>2 DEF IInv, TypeOK
    <2>2. pushed' \subseteq Conns \X (1..nchats) \X BOOLEAN
      BY <1>2, <1>3 DEF IInv, TypeOK
    <2>3. DbType'
      BY <1>1, <1>2, <1>3, <1>4, <2>1, <2>2 DEF IInv, TypeOK, DbType
    <2> QED BY <1>2, <1>5, <2>3, TypeStep DEF IInv
  <1>7. ShapeAt(c)'
    BY <1>1, <1>5 DEF ShapeAt, Fits, Steps
  <1>8. Unused'
    <2>1. ~(ch > nchats)
      BY <1>2 DEF IInv, TypeOK
    <2> QED BY <1>1, <1>4, <2>1 DEF IInv, Unused, Deserted
  <1>9. DesertedStep(c)
    BY <1>1, <1>2, <1>4 DEF DesertedStep, Deserted
  <1>10. ActiveStep(c)
    <2> SUFFICES ASSUME NEW h \in docs, NEW u \in Users, Active(u, h)',
                        ~Strayed(u, h)'
                 PROVE  \/ Keeps(c, u, h)' /\ Invited(u, h)'
                        \/ /\ Active(u, h)
                           /\ Strayed(u, h) => Strayed(u, h)'
                           /\ Keeps(c, u, h) => Keeps(c, u, h)'
                           /\ Invited(u, h) => Invited(u, h)'
                           /\ ~Pushing(c, u, h)
      BY <1>1 DEF ActiveStep
    <2>1. Strayed(u, h) => Strayed(u, h)'
      BY <1>1 DEF Strayed, Failed
    <2>2. CASE h = ch /\ u = Owner[c]
      <3>1. Invited(u, h)'
        BY <1>1, <2>2 DEF Strayed, Invited
      <3> QED BY <1>5, <2>2, <3>1 DEF Keeps, Steps
    <2>3. CASE ~(h = ch /\ u = Owner[c])
      BY <1>1, <1>2, <1>4, <1>5, <2>1, <2>3 DEF Keeps, Invited, Pushing, Steps
    <2> QED BY <2>2, <2>3
  <1>11. InviterStep(c)
    BY <1>1, <1>2, <1>4, <1>5, OwnerAssumption DEF InviterStep, Inviting, Failed,
         Active, Steps
  <1>12. DanglingStep(c)
    BY <1>1 DEF DanglingStep, Pulling
  <1>13. PushedInv'
    <2>1. PICK b \in BOOLEAN : pushed' \subseteq pushed \cup {<<c, ch, b>>}
      BY <1>3
    <2>2. \A p \in pushed' : cmd'[p[1]] # "close"
      BY <1>5, <2>1 DEF IInv, PushedInv, Steps, TypeOK
    <2>3. ASSUME OneConnPerUser, NEW p \in pushed'
          PROVE  (p[2] \in docs /\ Active(Owner[p[1]], p[2]))' \/ Failed({"invite"}, p[2])'
      <3>1. CASE p = <<c, ch, b>>
        BY <1>1, <1>2, <1>4, <3>1 DEF Active
      <3>2. CASE p \in pushed
        <4>1. (p[2] \in docs /\ Active(Owner[p[1]], p[2])) \/ Failed({"invite"}, p[2])
          BY <2>3, <3>2 DEF IInv, PushedInv, JoinedUsersStayActive
        <4>2. Owner[p[1]] \in Users
          BY <3>2, OwnerAssumption DEF IInv, TypeOK
        <4> QED BY <1>1, <1>2, <1>4, <4>1, <4>2 DEF Failed, Active
      <3> QED BY <2>1, <3>1, <3>2
    <2> QED BY <2>2, <2>3 DEF PushedInv, JoinedUsersStayActive, OneConnPerUser
  <1> QED BY <1>1, <1>5, <1>6, <1>7, <1>8, <1>9, <1>10, <1>11, <1>12, <1>13,
             StepInv

(* $pull of the connection's own user, the rest being left alone.          *)
LEMMA PulledInviter ==
    ASSUME IInv, NEW c \in Conns, NEW ch \in Chats, PullActive(c, ch),
           docs' = docs, pc'[c] # "push", failed \subseteq failed',
           \A d \in Conns : d # c => chat'[d] = chat[d]
    PROVE  InviterStep(c)
  <1> SUFFICES ASSUME OneConnPerUser, NEW d \in Conns, d # c, Inviting(d)
               PROVE  Inviting(d)'
    BY DEF InviterStep
  <1>1. CASE chat[d] \in docs /\ Active(Owner[d], chat[d])
    <2>1. Owner[d] # Owner[c] /\ Owner[d] \in Users /\ chat[d] \in Chats
      BY <1>1, OwnerAssumption, BoundAssumption
      DEF OneConnPerUser, IInv, TypeOK, Chats
    <2>2. \A h \in Chats, u \in Users :
             Active(u, h)' <=> Active(u, h) /\ ~(h = ch /\ u = Owner[c])
      BY Pulled DEF IInv
    <2> QED BY <1>1, <2>1, <2>2 DEF Inviting, Active
  <1>2. CASE Failed({"invite"}, chat[d])
    BY <1>2 DEF Inviting, Failed
  <1> QED BY <1>1, <1>2 DEF Inviting

LEMMA PulledUnused ==
    ASSUME IInv, NEW c \in Conns, NEW ch \in Chats, PullActive(c, ch), nchats' = nchats
    PROVE  Unused'
  <1>1. \A h \in Chats, u \in Users :
           Active(u, h)' <=> Active(u, h) /\ ~(h = ch /\ u = Owner[c])
    BY Pulled DEF IInv
  <1> QED BY <1>1 DEF IInv, Unused, Deserted

(* Who has joined stays in, unless it is the user of the connection, and   *)
(* that one is in pushed no more.                                          *)
LEMMA PulledPushed ==
    ASSUME IInv, NEW c \in Conns, NEW ch \in Chats, PullActive(c, ch),
           NEW l, NEW m, NEW h, NEW t, NEW s,
           Steps(c, l, m, h, t, s), m = "close" => cmd[c] = "close",
           docs' = docs, failed \subseteq failed', pushed' \subseteq pushed,
           \A p \in pushed' : p[1] = c => p[2] # ch
    PROVE  PushedInv'
  <1>1. \A p \in pushed' : /\ p[1] \in Conns /\ cmd'[p[1]] # "close"
                           /\ p \in pushed /\ Owner[p[1]] \in Users
    BY OwnerAssumption DEF IInv, TypeOK, PushedInv, Steps
  <1>2. ASSUME OneConnPerUser, NEW p \in pushed'
        PROVE  (p[2] \in docs /\ Active(Owner[p[1]], p[2]))' \/ Failed({"invite"}, p[2])'
    <2>1. (p[2] \in docs /\ Active(Owner[p[1]], p[2])) \/ Failed({"invite"}, p[2])
      BY <1>1, <1>2 DEF IInv, PushedInv, JoinedUsersStayActive
    <2>2. CASE Failed({"invite"}, p[2])
      BY <2>2 DEF Failed
    <2>3. CASE p[2] \in docs /\ Active(Owner[p[1]], p[2])
      <3>1. ~(p[2] = ch /\ Owner[p[1]] = Owner[c])
        BY <1>1, <1>2 DEF OneConnPerUser
      <3>2. p[2] \in Chats
        BY <2>3, BoundAssumption DEF IInv, TypeOK, Chats
      <3>3. \A g \in Chats, u \in Users :
               Active(u, g)' <=> Active(u, g) /\ ~(g = ch /\ u = Owner[c])
        BY Pulled DEF IInv
      <3> QED BY <1>1, <2>3, <3>1, <3>2, <3>3 DEF Active
    <2> QED BY <2>1, <2>2, <2>3
  <1> QED BY <1>1, <1>2 DEF PushedInv, JoinedUsersStayActive, OneConnPerUser

LEMMA LeaveInv ==
    ASSUME IInv, NEW c \in Conns, NEW ch \in Chats, NEW m \in {"out", "dismiss"},
           Leave(c, ch, m)
    PROVE  IInv'
  <1>1. /\ pc[c] = "idle" /\ cmd[c] = "none" /\ ch \in docs /\ list[c] = {}
        /\ PullActive(c, ch)
        /\ pushed' \subseteq pushed /\ \A p \in pushed' : p[1] = c => p[2] # ch
        /\ UNCHANGED <<docs, frameChat, nchats, members, clients>>
    BY DEF Leave, Ready, UserLeft, IInv, Shape, ShapeAt, Fits
  <1>2. /\ ch \in 0..nchats /\ ch \in 1..nchats /\ ch # NoChat /\ docs \subseteq Chats
    BY <1>1, ConnType, BoundAssumption DEF IInv, TypeOK, Chats, NoChat
  <1>3. PICK ok \in BOOLEAN :
          /\ EndsOn("leave", ch, ok)
          /\ IF ok
             THEN Begin(c, m, ch, IF Deserted(ch)' THEN "remove" ELSE "drop")
             ELSE UNCHANGED local
    BY DEF Leave
  <1>4. /\ fails' \in 0..MaxFails /\ failed' \subseteq Ops \X (1..nchats)
        /\ failed \subseteq failed' /\ (~ok => <<"leave", ch>> \in failed')
    BY <1>2, <1>3, EndsOnType DEF IInv, Ops
  <1>5. PICK l, k, g : /\ Steps(c, l, k, g, todo[c], list[c])
                       /\ \/ /\ k = m /\ g = ch
                             /\ l = IF Deserted(ch)' THEN "remove" ELSE "drop"
                          \/ /\ l = "idle" /\ k = "none" /\ <<"leave", ch>> \in failed'
    <2> DEFINE l == IF Deserted(ch)' THEN "remove" ELSE "drop"
    <2>1. CASE ok
      <3>1. Begin(c, m, ch, l) /\ l \in Labels /\ m \in Cmds
        BY <1>3, <2>1 DEF Labels, Cmds
      <3>2. Steps(c, l, m, ch, todo[c], list[c])
        <4> HIDE DEF l
        <4> QED BY <1>1, <1>2, <3>1, BeginSteps DEF IInv
      <3> QED BY <3>2
    <2>2. CASE ~ok
      <3>1. Steps(c, "idle", "none", chat[c], todo[c], list[c])
        BY <1>1, <1>3, <2>2, LocalSteps DEF IInv
      <3> QED BY <1>4, <2>2, <3>1
    <2> QED BY <2>1, <2>2
  <1>50. l # "push" /\ k # "close" /\ pc'[c] = l
    BY <1>5 DEF Steps
  <1>51. \A d \in Conns : d # c => chat'[d] = chat[d]
    BY <1>5 DEF Steps
  <1>6. /\ activeUser' \in [Chats -> [Users -> 0..MaxActive]]
        /\ astray' \subseteq astray
        /\ \A h \in Chats, u \in Users :
              Active(u, h)' <=> Active(u, h) /\ ~(h = ch /\ u = Owner[c])
        /\ \A h \in Chats, u \in Users :
              <<u, h>> \in astray => <<u, h>> \in astray' \/ (h = ch /\ u = Owner[c])
    BY <1>1, Pulled DEF IInv
  <1>7. TypeOK'
    <2>1. DbType'
      BY <1>1, <1>4, <1>6 DEF IInv, TypeOK, DbType
    <2> QED BY <1>2, <1>5, <2>1, TypeStep DEF IInv
  <1>8. ShapeAt(c)'
    BY <1>1, <1>5 DEF ShapeAt, Fits, Steps
  <1>9. Unused'
    BY <1>1, PulledUnused
  <1>10. DesertedStep(c)
    <2> SUFFICES ASSUME NEW h \in docs, h # ch, Deserted(h)' PROVE Deserted(h)
      BY <1>1, <1>5 DEF DesertedStep, Steps, Failed
    <2> QED BY <1>2, <1>6 DEF Deserted
  <1>11. ActiveStep(c)
    <2>1. ASSUME NEW h \in docs, NEW u \in Users, Active(u, h)', Strayed(u, h)
          PROVE  Strayed(u, h)'
      <3>1. CASE <<u, h>> \in astray
        BY <1>2, <1>6, <2>1, <3>1 DEF Strayed
      <3>2. CASE Failed({"insert", "invite", "leave"}, h)
        BY <1>4, <3>2 DEF Strayed, Failed
      <3> QED BY <2>1, <3>1, <3>2 DEF Strayed
    <2> QED BY <1>1, <1>2, <1>5, <1>6, <2>1
        DEF ActiveStep, Keeps, Invited, Pushing, Steps
  <1>12. InviterStep(c)
    BY <1>1, <1>4, <1>50, <1>51, PulledInviter
  <1>13. DanglingStep(c)
    BY <1>1 DEF DanglingStep, Pulling
  <1>14. PushedInv'
    <2>1. docs' = docs
      BY <1>1
    <2> QED BY <1>1, <1>4, <1>5, <1>50, <2>1, PulledPushed
  <1>15. \A d \in Conns : chat[d] \in docs' => chat[d] \in docs
    BY <1>1
  <1>16. Steps(c, l, k, g, todo[c], list[c])
    BY <1>5
  <1> QED BY <1>4, <1>15, <1>16, <1>7, <1>8, <1>9, <1>10, <1>11, <1>12, <1>13,
             <1>14,
             StepInv

-----------------------------------------------------------------------------
(* Close                                                                   *)

LEMMA CloseInv ==
    ASSUME IInv, NEW c \in Conns, Close(c) PROVE IInv'
  <1>0. PICK s : s = list'[c]
    OBVIOUS
  <1> DEFINE l == IF s = {} THEN "closed" ELSE "clear"
  <1>1. /\ pc[c] = "idle" /\ cmd[c] = "none" /\ list[c] = {}
        /\ pushed' = {p \in pushed : p[1] # c}
        /\ UNCHANGED <<docs, activeUser, frameChat, nchats, failed, members,
                       chat, todo, clients>>
    BY DEF Close, db, IInv, Shape, ShapeAt, Fits
  <1>2. Owner[c] \in Users /\ frameChat[Owner[c]] \subseteq 1..nchats
    BY OwnerAssumption DEF IInv, TypeOK
  <1>3. /\ fails' \in 0..MaxFails
        /\ \/ list' = [list EXCEPT ![c] = frameChat[Owner[c]]] /\ astray' = astray
           \/ /\ list' = list
              /\ astray' = astray \cup
                    {<<Owner[c], ch>> : ch \in {h \in docs : Active(Owner[c], h)}}
    <2>1. PICK ok \in BOOLEAN :
         /\ Ends(ok)
         /\ IF ok /\ c \in clients
            THEN /\ list' = [list EXCEPT ![c] = frameChat[Owner[c]]]
                 /\ UNCHANGED astray
            ELSE /\ astray' = astray \cup
                       {<<Owner[c], ch>> : ch \in {h \in docs : Active(Owner[c], h)}}
                 /\ UNCHANGED list
      BY DEF Close
    <2>2. fails' \in 0..MaxFails
      BY <2>1, EndsType DEF IInv
    <2> QED BY <2>1, <2>2
  <1>4. /\ astray \subseteq astray'
        /\ \A ch \in docs : \/ Active(Owner[c], ch) => <<Owner[c], ch>> \in astray'
                            \/ s = frameChat[Owner[c]]
        /\ astray' \subseteq Users \X (1..nchats)
    <2>1. CASE list' = [list EXCEPT ![c] = frameChat[Owner[c]]] /\ astray' = astray
      BY <1>0, <2>1 DEF IInv, TypeOK
    <2>2. CASE astray' = astray \cup
                 {<<Owner[c], ch>> : ch \in {h \in docs : Active(Owner[c], h)}}
      <3> DEFINE A == {<<Owner[c], ch>> : ch \in {h \in docs : Active(Owner[c], h)}}
      <3>1. A \subseteq Users \X (1..nchats)
        <4>1. docs \subseteq 1..nchats
          BY DEF IInv, TypeOK
        <4>2. ASSUME NEW x \in A PROVE x \in Users \X (1..nchats)
          <5>1. PICK ch \in {h \in docs : Active(Owner[c], h)} : x = <<Owner[c], ch>>
            OBVIOUS
          <5>2. ch \in 1..nchats
            BY <4>1
          <5> QED BY <1>2, <5>1, <5>2
        <4> HIDE DEF A
        <4> QED BY <4>2
      <3>2. \A ch \in docs : Active(Owner[c], ch) => <<Owner[c], ch>> \in A
        OBVIOUS
      <3>3. astray' = astray \cup A /\ astray \subseteq Users \X (1..nchats)
        BY <2>2 DEF IInv, TypeOK
      <3> HIDE DEF A
      <3> QED BY <3>1, <3>2, <3>3
    <2> QED BY <1>3, <2>1, <2>2
  <1>5. Steps(c, l, "close", chat[c], todo[c], s)
    <2>1. list' \in [Conns -> SUBSET (1..nchats)]
          /\ \A d \in Conns : d # c => list'[d] = list[d]
      BY <1>2, <1>3 DEF IInv, TypeOK
    <2>2. pc' = [pc EXCEPT ![c] = l] /\ cmd' = [cmd EXCEPT ![c] = "close"]
      BY <1>0 DEF Close
    <2> QED BY <1>0, <1>1, <2>1, <2>2 DEF Steps, IInv, TypeOK, Cmds, Labels
  <1>6. TypeOK'
    <2>1. DbType'
      BY <1>1, <1>3, <1>4 DEF IInv, TypeOK, DbType
    <2> QED BY <1>5, <2>1, TypeStep DEF IInv
  <1>7. ShapeAt(c)'
    BY <1>5 DEF ShapeAt, Fits, Steps
  <1>8. Unused'
    BY <1>1 DEF IInv, Unused, Deserted, Active
  <1>9. DesertedStep(c)
    BY <1>1 DEF DesertedStep, Deserted, Active
  <1>10. ActiveStep(c)
    <2> SUFFICES ASSUME NEW ch \in docs, NEW u \in Users, Active(u, ch),
                        Keeps(c, u, ch), ~Strayed(u, ch)'
                 PROVE  Keeps(c, u, ch)' \/ \E d \in Conns \ {c} : Keeps(d, u, ch)
      <3>1. \A u \in Users : \A ch \in docs : Strayed(u, ch) => Strayed(u, ch)'
        BY <1>1, <1>4 DEF Strayed, Failed
      <3> QED BY <1>1, <3>1 DEF ActiveStep, Active, Invited, Pushing
    <2>0. u = Owner[c] /\ ~Strayed(u, ch) /\ s = frameChat[u]
      BY <1>1, <1>4 DEF Strayed, Failed, Keeps
    <2>1. CASE Invited(u, ch)
      BY <1>5, <2>0, <2>1 DEF Invited, Keeps, Steps
    <2>2. CASE \E d \in Conns : Pushing(d, u, ch)
      BY <1>1, <2>2 DEF Pushing, Keeps, IInv, Shape, ShapeAt, Fits
    <2> QED BY <2>0, <2>1, <2>2 DEF IInv, ActiveInv
  <1>11. InviterStep(c)
    BY <1>1, <1>5 DEF InviterStep, Inviting, Failed, Active, Steps
  <1>12. DanglingStep(c)
    BY <1>1 DEF DanglingStep, Pulling
  <1>13. PushedInv'
    <2>1. \A p \in pushed' : p \in pushed /\ p[1] \in Conns /\ cmd'[p[1]] # "close"
      BY <1>1, <1>5 DEF IInv, PushedInv, Steps, TypeOK
    <2>2. ASSUME OneConnPerUser, NEW p \in pushed'
          PROVE  (p[2] \in docs /\ Active(Owner[p[1]], p[2]))' \/ Failed({"invite"}, p[2])'
      BY <1>1, <2>1, <2>2
      DEF IInv, PushedInv, JoinedUsersStayActive, Failed, Active
    <2> QED BY <2>1, <2>2 DEF PushedInv, JoinedUsersStayActive, OneConnPerUser
  <1> QED BY <1>1, <1>5, <1>6, <1>7, <1>8, <1>9, <1>10, <1>11, <1>12, <1>13,
             StepInv

LEMMA ClearPullInv ==
    ASSUME IInv, NEW c \in Conns, ClearPull(c) PROVE IInv'
  <1>1. PICK ch \in list[c], ok \in BOOLEAN :
         /\ EndsOn("leave", ch, ok)
         /\ \/ ch \in docs /\ PullActive(c, ch)
            \/ ~(ok /\ ch \in docs) /\ UNCHANGED <<activeUser, astray>>
         /\ IF ok /\ ch \in docs THEN Begin(c, "close", ch, "remove")
                                 ELSE NextId(c, ch)
    BY DEF ClearPull
  <1>2. /\ pc[c] = "clear" /\ cmd[c] = "close"
        /\ UNCHANGED <<docs, frameChat, nchats, members, clients, pushed>>
    BY DEF ClearPull, IInv, Shape, ShapeAt, Fits
  <1>3. /\ ch \in Chats /\ ch \in 0..nchats /\ ch \in 1..nchats /\ ch # NoChat
        /\ docs \subseteq Chats
    BY <1>1, ConnType, BoundAssumption DEF IInv, TypeOK, Chats, NoChat
  <1>4. /\ fails' \in 0..MaxFails /\ failed' \subseteq Ops \X (1..nchats)
        /\ failed \subseteq failed' /\ (~ok => <<"leave", ch>> \in failed')
    BY <1>1, <1>3, EndsOnType DEF IInv, Ops
  <1>5. /\ activeUser' \in [Chats -> [Users -> 0..MaxActive]]
        /\ astray' \subseteq astray /\ Unused'
        /\ \A h \in Chats, u \in Users : Active(u, h)' => Active(u, h)
        /\ \A h \in Chats, u \in Users :
              h # ch \/ u # Owner[c] => (Active(u, h) => Active(u, h)')
        /\ \A h \in Chats, u \in Users : Active(u, h)' =>
              (<<u, h>> \in astray => <<u, h>> \in astray')
    <2>1. CASE ch \in docs /\ PullActive(c, ch)
      BY <1>2, <1>3, <2>1, Pulled, PulledUnused DEF IInv
    <2>2. CASE activeUser' = activeUser /\ astray' = astray
      BY <1>2, <2>2 DEF IInv, TypeOK, Unused, Deserted, Active
    <2> QED BY <1>1, <2>1, <2>2
  <1>6. ok /\ ch \in docs => ~Active(Owner[c], ch)'
    BY <1>1, <1>3, Pulled, OwnerAssumption DEF IInv
  <1>7. PICK l, m, g, t, s : Steps(c, l, m, g, t, s)
          /\ m = "close" /\ l # "push" /\ ShapeAt(c)' /\ TypeOK'
          /\ (ok /\ ch \in docs => l = "remove" /\ g = ch /\ s = list[c])
          /\ (~(ok /\ ch \in docs) => /\ s = list[c] \ {ch}
                                      /\ s # {} => l = "clear")
    <2>1. DbType'
      BY <1>2, <1>4, <1>5 DEF IInv, TypeOK, DbType
    <2>2. CASE ok /\ ch \in docs
      <3>1. Steps(c, "remove", "close", ch, todo[c], list[c])
        BY <1>1, <1>2, <1>3, <2>2, BeginSteps DEF IInv, Cmds, Labels
      <3>2. TypeOK'
        BY <1>3, <2>1, <3>1, TypeStep DEF IInv
      <3>3. ShapeAt(c)'
        BY <1>1, <3>1 DEF ShapeAt, Fits, Steps
      <3> QED BY <2>2, <3>1, <3>2, <3>3
    <2>3. CASE ~(ok /\ ch \in docs)
      <3> DEFINE k == IF list[c] \ {ch} = {} THEN "closed" ELSE "clear"
      <3>1. Steps(c, k, "close", NoChat, {}, list[c] \ {ch})
        BY <1>1, <1>2, <2>3, NextIdSteps DEF IInv
      <3>2. TypeOK'
        BY <2>1, <3>1, TypeStep DEF IInv
      <3>3. ShapeAt(c)'
        BY <3>1 DEF ShapeAt, Fits, Steps
      <3>4. k # "push" /\ (list[c] \ {ch} # {} => k = "clear")
        OBVIOUS
      <3> HIDE DEF k
      <3> QED BY <2>3, <3>1, <3>2, <3>3, <3>4
    <2> QED BY <2>2, <2>3
  <1>8. DesertedStep(c)
    <2> SUFFICES ASSUME NEW h \in docs, Deserted(h)',
                        ~Failed({"leave", "remove"}, h)', ~(pc'[c] = "remove" /\ chat'[c] = h)
                 PROVE  Deserted(h)
      BY <1>2 DEF DesertedStep
    <2>1. h # ch
      BY <1>4, <1>7 DEF Failed, Steps
    <2> QED BY <1>3, <1>5, <2>1 DEF Deserted
  <1>9. ActiveStep(c)
    <2> SUFFICES ASSUME NEW h \in docs, NEW u \in Users, Active(u, h)', ~Strayed(u, h)'
                 PROVE  /\ Active(u, h)
                        /\ Strayed(u, h) => Strayed(u, h)'
                        /\ Keeps(c, u, h) => Keeps(c, u, h)'
                        /\ Invited(u, h) => Invited(u, h)'
                        /\ ~Pushing(c, u, h)
      BY <1>2 DEF ActiveStep
    <2>1. Active(u, h) /\ ~Pushing(c, u, h)
      BY <1>2, <1>3, <1>5 DEF Pushing
    <2>2. Strayed(u, h) => Strayed(u, h)'
      <3>1. CASE <<u, h>> \in astray
        BY <1>3, <1>5, <3>1 DEF Strayed
      <3>2. CASE Failed({"insert", "invite", "leave"}, h)
        BY <1>4, <3>2 DEF Strayed, Failed
      <3> QED BY <3>1, <3>2 DEF Strayed
    <2>3. ASSUME Keeps(c, u, h) PROVE Keeps(c, u, h)'
      <3>1. u = Owner[c] /\ h \in list[c]
        BY <1>2, <2>3 DEF Keeps
      <3>2. h # ch
        BY <1>4, <1>6, <3>1 DEF Strayed, Failed
      <3> QED BY <1>7, <3>1, <3>2 DEF Keeps, Steps
    <2> QED BY <1>2, <2>1, <2>2, <2>3 DEF Invited
  <1>10. InviterStep(c)
    <2>1. \A d \in Conns : d # c => chat'[d] = chat[d]
      BY <1>7 DEF Steps
    <2>2. pc'[c] # "push"
      BY <1>7 DEF Steps
    <2>3. CASE ch \in docs /\ PullActive(c, ch)
      BY <1>2, <1>3, <1>4, <2>1, <2>2, <2>3, PulledInviter
    <2>4. CASE activeUser' = activeUser
      BY <1>2, <1>4, <2>1, <2>2, <2>4 DEF InviterStep, Inviting, Failed, Active
    <2> QED BY <1>1, <2>3, <2>4
  <1>11. DanglingStep(c)
    BY <1>2 DEF DanglingStep, Pulling
  <1>12. PushedInv'
    <2>1. \A p \in pushed' : p[1] # c
      BY <1>2 DEF IInv, PushedInv
    <2>2. CASE ch \in docs /\ PullActive(c, ch)
      BY <1>2, <1>3, <1>4, <1>7, <2>1, <2>2, PulledPushed
    <2>3. CASE activeUser' = activeUser
      BY <1>2, <1>4, <1>7, <2>3, PushedKept DEF Active
    <2> QED BY <1>1, <2>2, <2>3
  <1>13. \A d \in Conns : chat[d] \in docs' => chat[d] \in docs
    BY <1>2
  <1> QED BY <1>4, <1>5, <1>7, <1>8, <1>9, <1>10, <1>11, <1>12, <1>13, StepInv

-----------------------------------------------------------------------------
(* The conditional Remove and the withdrawal of the invitations            *)

\* Only members of the room are invited.
RoomInv ==
    /\ \A u \in Users : frameChat[u] # {} => u \in Room
    /\ \A c \in Conns : todo[c] \subseteq Room

\* Connection c is done with its chat.
Done(c) ==
    \/ cmd[c] = "close" /\ NextId(c, chat[c])
    \/ cmd[c] \in {"out", "dismiss"} /\ Goto(c, "drop")
    \/ cmd[c] = "dismiss" /\ Return(c)

LEMMA DoneSteps ==
    ASSUME IInv, NEW c \in Conns, pc[c] \in {"remove", "pull"}, Done(c),
           nchats' = nchats, DbType'
    PROVE  /\ TypeOK' /\ ShapeAt(c)' /\ pc'[c] \notin {"push", "pull", "remove"}
           /\ \E l, m, h, t, s : Steps(c, l, m, h, t, s)
                                 /\ (m = "close" => cmd[c] = "close")
           /\ \A u, ch : Keeps(c, u, ch) => Keeps(c, u, ch)'
  <1>0. chat[c] # NoChat
    BY DEF IInv, TypeOK
  <1>1. CASE cmd[c] = "close" /\ NextId(c, chat[c])
    <2>1. Steps(c, IF list[c] \ {chat[c]} = {} THEN "closed" ELSE "clear", "close",
                NoChat, {}, list[c] \ {chat[c]})
      BY <1>1, NextIdSteps DEF IInv
    <2>2. TypeOK'
      BY <2>1, TypeStep DEF IInv
    <2>3. ShapeAt(c)' /\ pc'[c] \notin {"push", "pull", "remove"}
      BY <2>1 DEF ShapeAt, Fits, Steps
    <2>4. \A u, ch : Keeps(c, u, ch) => Keeps(c, u, ch)'
      BY <1>1, <2>1 DEF Keeps, Steps
    <2> QED BY <1>1, <2>1, <2>2, <2>3, <2>4
  <1>2. CASE cmd[c] \in {"out", "dismiss"} /\ Goto(c, "drop")
    <2>1. Steps(c, "drop", cmd[c], chat[c], todo[c], list[c])
      BY <1>2, GotoSteps DEF IInv, Labels
    <2>2. TypeOK'
      BY <1>0, <2>1, TypeStep DEF IInv
    <2>3. ShapeAt(c)' /\ pc'[c] \notin {"push", "pull", "remove"}
      BY <1>2, <2>1 DEF ShapeAt, Fits, Steps, IInv, Shape
    <2>4. \A u, ch : Keeps(c, u, ch) => Keeps(c, u, ch)'
      BY <1>2, <2>1 DEF Keeps, Steps
    <2> QED BY <2>1, <2>2, <2>3, <2>4
  <1>3. CASE cmd[c] = "dismiss" /\ Return(c)
    <2>1. Steps(c, "idle", "none", NoChat, {}, list[c])
      BY <1>3, ReturnsSteps DEF IInv
    <2>2. TypeOK'
      BY <2>1, TypeStep DEF IInv
    <2>3. ShapeAt(c)' /\ pc'[c] \notin {"push", "pull", "remove"}
      BY <1>3, <2>1 DEF ShapeAt, Fits, Steps, IInv, Shape
    <2>4. \A u, ch : Keeps(c, u, ch) => Keeps(c, u, ch)'
      BY <1>3, <2>1 DEF Keeps, Steps
    <2> QED BY <2>1, <2>2, <2>3, <2>4
  <1> QED BY <1>1, <1>2, <1>3 DEF Done

(* With that step a deserted chat g may go, its Remove having failed, and  *)
(* an invitation is withdrawn at most from a chat that is gone.            *)
LEMMA DoneInv ==
    ASSUME IInv, NEW c \in Conns, pc[c] \in {"remove", "pull"}, Done(c),
           NEW g, g = chat[c],
           docs' \subseteq docs, docs \ {g} \subseteq docs',
           g \in docs \ docs' => Deserted(g) /\ <<"remove", g>> \in failed',
           UNCHANGED <<activeUser, nchats, members, clients, pushed, astray>>,
           fails' \in 0..MaxFails, failed \subseteq failed',
           failed' \subseteq Ops \X (1..nchats),
           frameChat' \in [Users -> SUBSET (1..nchats)],
           \A u \in Users : frameChat'[u] \subseteq frameChat[u],
           \A u \in Users : \A ch \in docs : Invited(u, ch) => Invited(u, ch)',
           \/ pc[c] = "pull"
           \/ ~(g \in docs /\ Deserted(g))
           \/ <<"remove", g>> \in failed',
           \/ <<"withdraw", g>> \in failed'
           \/ \A u \in Users : \A ch \in frameChat'[u] : ~Pulling(c, u, ch)
    PROVE  IInv'
  <1>1. DbType'
    BY DEF IInv, TypeOK, DbType
  <1>2. /\ TypeOK' /\ ShapeAt(c)' /\ pc'[c] \notin {"push", "pull", "remove"}
        /\ \E l, m, h, t, s : Steps(c, l, m, h, t, s)
                              /\ (m = "close" => cmd[c] = "close")
        /\ \A u, ch : Keeps(c, u, ch) => Keeps(c, u, ch)'
    BY <1>1, DoneSteps
  <1>3. PICK l, m, h, t, s : /\ Steps(c, l, m, h, t, s)
                             /\ m = "close" => cmd[c] = "close"
    BY <1>2
  <1>4. Unused'
    BY DEF IInv, Unused, Deserted, Active
  <1>5. DesertedStep(c)
    <2> SUFFICES ASSUME NEW ch \in docs', Deserted(ch)',
                        ~Failed({"leave", "remove"}, ch)'
                 PROVE  ch \in docs /\ Deserted(ch) /\ ~(pc[c] = "remove" /\ chat[c] = ch)
      BY DEF DesertedStep
    <2>1. ch \in docs /\ Deserted(ch)
      BY DEF Deserted, Active
    <2>2. <<"remove", ch>> \notin failed'
      BY DEF Failed
    <2> QED BY <2>1, <2>2
  <1>6. ActiveStep(c)
    <2>1. \A u, ch : ~Pushing(c, u, ch)
      BY DEF Pushing
    <2>2. \A u, ch : Active(u, ch)' = Active(u, ch)
      BY DEF Active
    <2>3. \A u, ch : Strayed(u, ch) => Strayed(u, ch)'
      BY DEF Strayed, Failed
    <2> QED BY <1>2, <2>1, <2>2, <2>3 DEF ActiveStep
  <1>7. InviterStep(c)
    <2> SUFFICES ASSUME NEW d \in Conns, d # c, Inviting(d) PROVE Inviting(d)'
      BY <1>2 DEF InviterStep
    <2>0. PICK e : e = chat[d]
      OBVIOUS
    <2>1. chat'[d] = e /\ Owner[d] \in Users
      BY <1>3, <2>0, OwnerAssumption DEF Steps
    <2>2. CASE e \in docs /\ Active(Owner[d], e)
      <3>1. e \in docs'
        BY <2>1, <2>2 DEF Deserted
      <3> QED BY <2>1, <2>2, <3>1 DEF Inviting, Active
    <2>3. CASE Failed({"invite"}, e)
      BY <2>1, <2>3 DEF Inviting, Failed
    <2> QED BY <2>0, <2>2, <2>3 DEF Inviting
  <1>8. DanglingStep(c)
    <2> SUFFICES ASSUME NEW u \in Users, NEW ch \in frameChat'[u], ch \notin docs',
                        ~Failed({"invite", "remove", "withdraw"}, ch)'
                 PROVE  ch \in frameChat[u] /\ ch \notin docs /\ ~Pulling(c, u, ch)
      BY DEF DanglingStep
    <2>1. <<"remove", ch>> \notin failed' /\ <<"withdraw", ch>> \notin failed'
      BY DEF Failed
    <2>2. ch \in frameChat[u] /\ ch \notin docs
      BY <2>1
    <2>3. ~Pulling(c, u, ch)
      BY <2>1 DEF Pulling
    <2> QED BY <2>2, <2>3
  <1>9. PushedInv'
    <2>1. \A p \in pushed' : p[1] \in Conns /\ cmd'[p[1]] # "close"
      BY <1>3 DEF IInv, TypeOK, PushedInv, Steps
    <2>2. ASSUME OneConnPerUser, NEW p \in pushed'
          PROVE  (p[2] \in docs /\ Active(Owner[p[1]], p[2]))' \/ Failed({"invite"}, p[2])'
      <3>1. p \in pushed /\ Owner[p[1]] \in Users
        BY <2>1, OwnerAssumption
      <3>2. (p[2] \in docs /\ Active(Owner[p[1]], p[2])) \/ Failed({"invite"}, p[2])
        BY <2>2, <3>1 DEF IInv, PushedInv, JoinedUsersStayActive
      <3>3. CASE Failed({"invite"}, p[2])
        BY <3>1, <3>3 DEF Failed
      <3>4. CASE p[2] \in docs /\ Active(Owner[p[1]], p[2])
        <4>1. p[2] \in docs'
          BY <3>1, <3>4 DEF Deserted
        <4> QED BY <3>1, <3>4, <4>1 DEF Active
      <3> QED BY <3>2, <3>3, <3>4
    <2> QED BY <2>1, <2>2 DEF PushedInv, JoinedUsersStayActive, OneConnPerUser
  <1>10. \A d \in Conns : chat[d] \in docs' => chat[d] \in docs
    OBVIOUS
  <1> QED BY <1>2, <1>3, <1>4, <1>5, <1>6, <1>7, <1>8, <1>9, <1>10, StepInv

LEMMA RemoveDocInv ==
    ASSUME IInv, RoomInv, NEW c \in Conns, RemoveDoc(c) PROVE IInv'
  <1>0. PICK g : g = chat[c]
    OBVIOUS
  <1>1. /\ pc[c] = "remove" /\ cmd[c] \in {"out", "dismiss", "close"}
        /\ cmd[c] = "close" => chat[c] \in list[c]
        /\ UNCHANGED <<activeUser, frameChat, nchats, members, clients, pushed,
                       astray>>
    BY DEF RemoveDoc, IInv, Shape, ShapeAt, Fits
  <1>2. PICK ok \in BOOLEAN, done \in BOOLEAN :
         /\ EndsOn("remove", chat[c], ok)
         /\ ok => done
         /\ docs' = docs \ IF done /\ Deserted(chat[c]) THEN {chat[c]} ELSE {}
         /\ IF ok /\ docs' # docs
            THEN /\ pc' = [pc EXCEPT ![c] = "pull"]
                 /\ todo' = [todo EXCEPT ![c] = Room]
                 /\ UNCHANGED <<cmd, chat, list>>
            ELSE IF cmd[c] = "close" THEN NextId(c, chat[c]) ELSE Goto(c, "drop")
    BY DEF RemoveDoc
  <1>3. /\ g \in Chats /\ g \in 1..nchats /\ g # NoChat /\ docs \subseteq Chats
    BY <1>0, <1>1, ConnType, BoundAssumption DEF IInv, TypeOK, Chats
  <1>4. /\ fails' \in 0..MaxFails /\ failed' \subseteq Ops \X (1..nchats)
        /\ failed \subseteq failed' /\ (~ok => <<"remove", g>> \in failed')
    BY <1>0, <1>2, <1>3, EndsOnType DEF IInv, Ops
  <1>5. CASE ok /\ g \in docs /\ Deserted(g)
    <2>1. /\ docs' = docs \ {g}
          /\ pc' = [pc EXCEPT ![c] = "pull"]
          /\ todo' = [todo EXCEPT ![c] = Room]
          /\ UNCHANGED <<cmd, chat, list>>
      BY <1>0, <1>2, <1>5
    <2>2. Steps(c, "pull", cmd[c], g, Room, list[c])
      BY <1>0, <1>1, <2>1, RoomAssumption DEF Steps, IInv, TypeOK, Cmds, Labels
    <2>3. TypeOK'
      <3>1. DbType'
        BY <1>1, <1>4, <2>1 DEF IInv, TypeOK, DbType
      <3> QED BY <1>3, <2>2, <3>1, TypeStep, RoomAssumption DEF IInv
    <2>4. ShapeAt(c)'
      BY <1>0, <1>1, <2>1, <2>2 DEF ShapeAt, Fits, Steps, IInv, Shape
    <2>5. Unused'
      BY <1>1 DEF IInv, Unused, Deserted, Active
    <2>6. DesertedStep(c)
      BY <1>0, <1>1, <2>1 DEF DesertedStep, Deserted, Active
    <2>7. ActiveStep(c)
      <3>1. \A u, ch : Strayed(u, ch) => Strayed(u, ch)'
        BY <1>1, <1>4 DEF Strayed, Failed
      <3> QED BY <1>0, <1>1, <2>1, <2>2, <3>1
          DEF ActiveStep, Active, Keeps, Invited, Pushing, Steps
    <2>8. InviterStep(c)
      <3> SUFFICES ASSUME NEW d \in Conns, d # c, Inviting(d) PROVE Inviting(d)'
        BY <2>2 DEF InviterStep, Steps
      <3>0. PICK e : e = chat[d]
        OBVIOUS
      <3>1. chat'[d] = e /\ Owner[d] \in Users
        BY <2>2, <3>0, OwnerAssumption DEF Steps
      <3>2. CASE e \in docs /\ Active(Owner[d], e)
        <4>1. e # g
          BY <1>5, <3>1, <3>2 DEF Deserted
        <4> QED BY <1>1, <2>1, <3>1, <3>2, <4>1 DEF Inviting, Active
      <3>3. CASE Failed({"invite"}, e)
        BY <1>4, <3>1, <3>3 DEF Inviting, Failed
      <3> QED BY <3>0, <3>2, <3>3 DEF Inviting
    <2>9. DanglingStep(c)
      <3> SUFFICES ASSUME NEW u \in Users, NEW ch \in frameChat[u], ch \notin docs'
                   PROVE  Pulling(c, u, ch)' \/ ch \notin docs
        BY <1>1 DEF DanglingStep, Pulling
      <3>1. u \in Room
        BY DEF RoomInv
      <3> QED BY <2>1, <2>2, <3>1 DEF Pulling, Steps
    <2>10. PushedInv'
      <3>1. \A p \in pushed' : p[1] \in Conns /\ cmd'[p[1]] # "close"
        BY <1>1, <2>2 DEF IInv, TypeOK, PushedInv, Steps
      <3>2. ASSUME OneConnPerUser, NEW p \in pushed'
            PROVE  (p[2] \in docs /\ Active(Owner[p[1]], p[2]))' \/ Failed({"invite"}, p[2])'
        <4>1. p \in pushed /\ Owner[p[1]] \in Users
          BY <1>1, <3>1, OwnerAssumption
        <4>2. (p[2] \in docs /\ Active(Owner[p[1]], p[2])) \/ Failed({"invite"}, p[2])
          BY <3>2, <4>1 DEF IInv, PushedInv, JoinedUsersStayActive
        <4>3. CASE Failed({"invite"}, p[2])
          BY <1>1, <1>4, <4>3 DEF Failed
        <4>4. CASE p[2] \in docs /\ Active(Owner[p[1]], p[2])
          <5>1. p[2] \in docs'
            BY <1>5, <2>1, <4>1, <4>4 DEF Deserted
          <5> QED BY <1>1, <4>4, <5>1 DEF Active
        <4> QED BY <4>2, <4>3, <4>4
      <3> QED BY <3>1, <3>2 DEF PushedInv, JoinedUsersStayActive, OneConnPerUser
    <2>11. \A d \in Conns : chat[d] \in docs' => chat[d] \in docs
      BY <2>1
    <2> QED BY <1>4, <2>2, <2>3, <2>4, <2>5, <2>6, <2>7, <2>8, <2>9, <2>10, <2>11,
               StepInv
  <1>6. CASE ~(ok /\ g \in docs /\ Deserted(g))
    <2>1. /\ docs' \subseteq docs /\ docs \ {g} \subseteq docs'
          /\ g \in docs \ docs' => Deserted(g) /\ <<"remove", g>> \in failed'
      BY <1>0, <1>2, <1>4, <1>6
    <2>2. Done(c)
      <3>1. ~(ok /\ docs' # docs)
        BY <1>0, <1>2, <1>6
      <3> QED BY <1>1, <1>2, <3>1 DEF Done
    <2>3. /\ frameChat' \in [Users -> SUBSET (1..nchats)]
          /\ \A u \in Users : frameChat'[u] \subseteq frameChat[u]
          /\ \A u \in Users : \A ch \in docs : Invited(u, ch) => Invited(u, ch)'
          /\ \A u \in Users : \A ch \in frameChat'[u] : ~Pulling(c, u, ch)
      BY <1>1 DEF IInv, TypeOK, Invited, Pulling
    <2>4. ~(g \in docs /\ Deserted(g)) \/ <<"remove", g>> \in failed'
      BY <1>4, <1>6
    <2> QED BY <1>0, <1>1, <1>4, <2>1, <2>2, <2>3, <2>4, DoneInv
  <1> QED BY <1>5, <1>6

LEMMA AfterPullDone ==
    ASSUME IInv, NEW c \in Conns, pc[c] = "pull", AfterPull(c) PROVE Done(c)
  <1>1. cmd[c] \in {"out", "dismiss", "close"}
    BY DEF IInv, Shape, ShapeAt, Fits
  <1> QED BY <1>1 DEF AfterPull, Done

LEMMA PullFrameChatInv ==
    ASSUME IInv, NEW c \in Conns, PullFrameChat(c) PROVE IInv'
  <1>0. PICK g : g = chat[c]
    OBVIOUS
  <1>1. PICK u \in todo[c] :
          /\ frameChat' = [frameChat EXCEPT ![u] = @ \ {g}]
          /\ IF todo[c] = {u}
             THEN AfterPull(c)
             ELSE /\ todo' = [todo EXCEPT ![c] = @ \ {u}]
                  /\ UNCHANGED <<pc, cmd, chat, list>>
    BY <1>0 DEF PullFrameChat
  <1>2. /\ pc[c] = "pull" /\ cmd[c] \in {"out", "dismiss", "close"}
        /\ cmd[c] = "close" => chat[c] \in list[c]
        /\ g \notin docs
        /\ UNCHANGED <<docs, activeUser, nchats, fails, failed, members, clients,
                       pushed, astray>>
    BY <1>0 DEF PullFrameChat, errs, IInv, Shape, ShapeAt, Fits
  <1>3. /\ frameChat' \in [Users -> SUBSET (1..nchats)]
        /\ \A v \in Users : frameChat'[v] =
              IF v = u THEN frameChat[u] \ {g} ELSE frameChat[v]
    BY <1>1 DEF IInv, TypeOK
  <1>4. \A v \in Users : \A ch \in docs : Invited(v, ch) => Invited(v, ch)'
    BY <1>2, <1>3 DEF Invited
  <1>5. CASE todo[c] = {u}
    <2>1. Done(c)
      BY <1>1, <1>2, <1>5, AfterPullDone
    <2>2. fails' \in 0..MaxFails /\ failed' \subseteq Ops \X (1..nchats)
      BY <1>2 DEF IInv, TypeOK
    <2>3. \A v \in Users : frameChat'[v] \subseteq frameChat[v]
      BY <1>3
    <2>4. \A v \in Users : \A ch \in frameChat'[v] : ~Pulling(c, v, ch)
      BY <1>0, <1>3, <1>5 DEF Pulling
    <2> QED BY <1>0, <1>2, <1>3, <1>4, <2>1, <2>2, <2>3, <2>4, DoneInv
  <1>6. CASE todo[c] # {u}
    <2>1. Steps(c, "pull", cmd[c], g, todo[c] \ {u}, list[c])
      BY <1>0, <1>1, <1>2, <1>6 DEF Steps, IInv, TypeOK, Cmds, Labels
    <2>2. TypeOK'
      <3>1. DbType'
        BY <1>2, <1>3 DEF IInv, TypeOK, DbType
      <3>2. g # NoChat /\ todo[c] \ {u} # {}
        BY <1>0, <1>2, <1>6 DEF IInv, TypeOK
      <3> QED BY <2>1, <3>1, <3>2, TypeStep DEF IInv
    <2>3. ShapeAt(c)'
      BY <1>0, <1>2, <2>1 DEF ShapeAt, Fits, Steps, IInv, Shape
    <2>4. Unused'
      BY <1>2 DEF IInv, Unused, Deserted, Active
    <2>5. DesertedStep(c)
      BY <1>2 DEF DesertedStep, Deserted, Active
    <2>6. ActiveStep(c)
      <3>1. \A v, ch : Strayed(v, ch)' = Strayed(v, ch)
        BY <1>2 DEF Strayed, Failed
      <3> QED BY <1>0, <1>2, <1>4, <2>1, <3>1
              DEF ActiveStep, Active, Keeps, Pushing, Steps
    <2>7. InviterStep(c)
      BY <1>2, <2>1 DEF InviterStep, Inviting, Failed, Active, Steps
    <2>8. DanglingStep(c)
      BY <1>0, <1>2, <1>3, <2>1 DEF DanglingStep, Pulling, Steps
    <2>9. PushedInv'
      BY <1>2, <2>1, PushedKept DEF Active
    <2> QED BY <1>2, <2>1, <2>2, <2>3, <2>4, <2>5, <2>6, <2>7, <2>8, <2>9, StepInv
  <1> QED BY <1>5, <1>6

LEMMA PullFailsInv ==
    ASSUME IInv, NEW c \in Conns, PullFails(c) PROVE IInv'
  <1>0. PICK g : g = chat[c]
    OBVIOUS
  <1>1. /\ pc[c] = "pull" /\ EndsOn("withdraw", g, FALSE) /\ AfterPull(c)
        /\ UNCHANGED <<docs, activeUser, frameChat, nchats, members, clients,
                       pushed, astray>>
    BY <1>0 DEF PullFails, db
  <1>2. Done(c)
    BY <1>1, AfterPullDone
  <1>3. g \in 1..nchats
    BY <1>0, <1>1, ConnType DEF IInv, TypeOK
  <1>4. /\ fails' \in 0..MaxFails /\ failed' \subseteq Ops \X (1..nchats)
        /\ failed \subseteq failed' /\ <<"withdraw", g>> \in failed'
    BY <1>1, <1>3, EndsOnType DEF IInv, Ops
  <1>5. /\ frameChat' \in [Users -> SUBSET (1..nchats)]
        /\ \A u \in Users : frameChat'[u] \subseteq frameChat[u]
        /\ \A u \in Users : \A ch \in docs : Invited(u, ch) => Invited(u, ch)'
    BY <1>1 DEF IInv, TypeOK, Invited
  <1> QED BY <1>0, <1>1, <1>2, <1>4, <1>5, DoneInv

(* Only frame_apply and the withdrawal touch what RoomInv is about.        *)
LEMMA RoomStep ==
    ASSUME IInv, RoomInv, NEW c \in Conns, Command(c) \/ Step(c) PROVE RoomInv'
  <1>1. CASE InsertChat(c)
    BY <1>1 DEF InsertChat, IInv, TypeOK, RoomInv
  <1>2. CASE PushFrameChat(c)
    BY <1>2 DEF PushFrameChat, IInv, TypeOK, RoomInv
  <1>3. CASE RemoveDoc(c)
    BY <1>3 DEF RemoveDoc, NextId, Goto, IInv, TypeOK, RoomInv
  <1>4. CASE PullFrameChat(c) \/ PullFails(c)
    <2>1. ASSUME AfterPull(c)
          PROVE  \A d \in Conns : todo'[d] \subseteq todo[d]
      <3>1. Done(c)
        BY <1>4, <2>1, AfterPullDone DEF PullFrameChat, PullFails
      <3> QED BY <3>1 DEF Done, NextId, Goto, Return, IInv, TypeOK
    <2>2. \A d \in Conns : todo'[d] \subseteq todo[d]
      <3>1. CASE PullFrameChat(c)
        <4>1. PICK u \in todo[c] :
                 IF todo[c] = {u} THEN AfterPull(c)
                                  ELSE todo' = [todo EXCEPT ![c] = @ \ {u}]
          BY <3>1 DEF PullFrameChat
        <4> QED BY <2>1, <4>1 DEF IInv, TypeOK
      <3>2. CASE PullFails(c)
        BY <2>1, <3>2 DEF PullFails
      <3> QED BY <1>4, <3>1, <3>2
    <2>3. \A u \in Users : frameChat'[u] \subseteq frameChat[u]
      BY <1>4 DEF PullFrameChat, PullFails, db, IInv, TypeOK
    <2> QED BY <2>2, <2>3 DEF RoomInv
  <1>5. CASE InsertFails(c) \/ PushFails(c) \/ AddUserId(c) \/ RemoveUserId(c)
    BY <1>5 DEF InsertFails, PushFails, AddUserId, RemoveUserId, Return, db,
       IInv, TypeOK, RoomInv
  <1>6. CASE PushNobody(c) \/ ClearPull(c)
    BY <1>6 DEF PushNobody, ClearPull, Goto, Begin, NextId, db, IInv, TypeOK,
       RoomInv
  <1>7. CASE Command(c)
    BY <1>7 DEF Command, Apply, Join, Leave, TokenRefused, AuthClient, Close,
       Begin,
       db, local, RoomInv
  <1> QED BY <1>1, <1>2, <1>3, <1>4, <1>5, <1>6, <1>7 DEF Step

-----------------------------------------------------------------------------
(* The theorems                                                            *)

LEMMA InitIInv == Init => IInv /\ RoomInv
  <1> SUFFICES ASSUME Init PROVE IInv /\ RoomInv
    OBVIOUS
  <1>1. TypeOK
    BY OwnerAssumption, BoundAssumption DEF Init, TypeOK, Labels, NoChat
  <1>2. Shape /\ RoomInv
    BY DEF Init, Shape, ShapeAt, Fits, RoomInv
  <1>3. Unused
    <2>1. \A ch \in Chats, u \in Users : activeUser[ch][u] = 0
      BY DEF Init
    <2> QED BY <2>1 DEF Unused, Deserted, Active
  <1>4. NoAbandonedChat /\ ActiveInv /\ InviterInv /\ NoDanglingInvitation
    BY DEF Init, NoAbandonedChat, ActiveInv, InviterInv, NoDanglingInvitation
  <1>5. PushedInv
    BY DEF Init, PushedInv, JoinedUsersStayActive
  <1> QED BY <1>1, <1>2, <1>3, <1>4, <1>5 DEF IInv

LEMMA StutterInv ==
    ASSUME IInv, RoomInv, UNCHANGED vars PROVE IInv' /\ RoomInv'
  <1> USE DEF vars, db, errs, local
  <1>1. TypeOK' /\ RoomInv'
    BY DEF IInv, TypeOK, RoomInv
  <1>2. Shape'
    BY DEF IInv, Shape, ShapeAt
  <1>3. Unused' /\ NoAbandonedChat'
    BY DEF IInv, Unused, NoAbandonedChat, Deserted, Active, Failed
  <1>4. ActiveInv'
    BY DEF IInv, ActiveInv, Active, Keeps, Invited, Pushing, Strayed, Failed
  <1>5. InviterInv' /\ NoDanglingInvitation'
    BY DEF IInv, InviterInv, Inviting, Active, NoDanglingInvitation, Failed,
       OneConnPerUser
  <1>6. PushedInv'
    BY DEF IInv, PushedInv, JoinedUsersStayActive, Active, Failed, OneConnPerUser
  <1> QED BY <1>1, <1>2, <1>3, <1>4, <1>5, <1>6 DEF IInv

LEMMA NextIInv == IInv /\ RoomInv /\ [Next]_vars => IInv' /\ RoomInv'
  <1> SUFFICES ASSUME IInv, RoomInv, [Next]_vars PROVE IInv' /\ RoomInv'
    OBVIOUS
  <1>1. ASSUME NEW c \in Conns, Command(c) PROVE IInv' /\ RoomInv'
    <2>1. ASSUME NEW ch \in Chats,
                 Join(c, ch) \/ Leave(c, ch, "out") \/ Leave(c, ch, "dismiss")
          PROVE  IInv'
      BY <2>1, JoinInv, LeaveInv
    <2>2. RoomInv'
      BY <1>1, RoomStep
    <2> QED BY <1>1, <2>1, <2>2, ApplyInv, IdentityInv, CloseInv DEF Command
  <1>2. ASSUME NEW c \in Conns, Step(c) PROVE IInv' /\ RoomInv'
    <2>1. RoomInv'
      BY <1>2, RoomStep
    <2> QED BY <1>2, <2>1, InsertChatInv, InsertFailsInv, PushFrameChatInv,
               PushNobodyInv, PushFailsInv, MembersInv, RemoveDocInv,
               PullFrameChatInv, PullFailsInv, ClearPullInv DEF Step
  <1>3. CASE UNCHANGED vars
    BY <1>3, StutterInv
  <1> QED BY <1>1, <1>2, <1>3 DEF Next

\* The inductive invariant of the chats: where every command is and what it
\* works on, who keeps an active user's chat, who is about to remove a
\* deserted one, and what the errors of the database have left behind.
THEOREM FrameChatInvariant == Spec => [](IInv /\ RoomInv)
  BY InitIInv, NextIInv, PTL DEF Spec

\* Types: every command works on a chat that InsertChat has made.
THEOREM FrameChatTypeOK == Spec => []TypeOK
  <1>1. IInv => TypeOK
    BY DEF IInv
  <1> QED BY FrameChatInvariant, <1>1, PTL

\* A chat without active users has somebody about to remove it, or its $pull or
\* Remove has returned an error: of the commands out, dismiss and Close that
\* leave at the same time, the last $pull sees the empty list, and a
\* conditional Remove that comes too early or too late leaves the chat to
\* whoever leaves next.
THEOREM ChatsGetRemoved == Spec => []NoAbandonedChat
  <1>1. IInv => NoAbandonedChat
    BY DEF IInv
  <1> QED BY FrameChatInvariant, <1>1, PTL

\* A user without a connection is active in no chat, up to the listed
\* exceptions of users who were not invited, connections closed without a look
\* at frame_chat and failed operations: otherwise clearFrameChat finds every
\* chat of the user in frame_chat, because a chat becomes the user's after the
\* invitation, or in frame_apply on a connection that is still open.
THEOREM ActiveUsersStayConnected == Spec => []ActiveUsersAreConnected
  <1>1. ASSUME IInv PROVE ActiveUsersAreConnected
    <2> SUFFICES ASSUME NEW ch \in docs, NEW u \in Users, Active(u, ch),
                        ~Strayed(u, ch)
                 PROVE  \E c \in Conns : Owner[c] = u /\ pc[c] # "closed"
      BY DEF ActiveUsersAreConnected, Strayed
    <2>1. PICK c \in Conns : Keeps(c, u, ch)
      BY <1>1 DEF IInv, ActiveInv
    <2> QED BY <1>1, <2>1 DEF Keeps, IInv, Shape, ShapeAt, Fits
  <1> QED BY FrameChatInvariant, <1>1, PTL

\* While every user has one connection, an invitation is to a chat that exists,
\* or is being withdrawn, or the chat's own Remove or bulk has failed: who
\* invites is active in the chat, so that nobody removes it before the last
\* invitation is out.
THEOREM InvitationsDoNotDangle == Spec => []NoDanglingInvitation
  <1>1. IInv => NoDanglingInvitation
    BY DEF IInv
  <1> QED BY FrameChatInvariant, <1>1, PTL

\* While every user has one connection, who has joined a chat stays in it: the
\* conditional Remove of somebody who has just left does not take the chat
\* away, only a frame_apply whose bulk of invitations failed does.
THEOREM JoinedUsersStay == Spec => []JoinedUsersStayActive
  <1>1. IInv => JoinedUsersStayActive
    BY DEF IInv, PushedInv
  <1> QED BY FrameChatInvariant, <1>1, PTL
=============================================================================
