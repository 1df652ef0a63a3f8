------------------------------- MODULE Inbox -------------------------------
(***************************************************************************)
(* What the members of a room get to see of its messages: pushes, the      *)
(* offline messages of ofli_msg, history, acknowledgements, retraction and *)
(* room notices (Publish and pushToNativeClient of pubsub.go, AckMsg of    *)
(* client.go, the commands publish, ack_msg, retract, pnicr, ofli_msg and  *)
(* history of cmd_interface.go).                                           *)
(*                                                                         *)
(* A message is stamped with a time, pushed to the members connected at    *)
(* that moment, each by a goroutine of its own, and then put into the      *)
(* storage pipeline; a notice is stamped, inserted into msg_log and then   *)
(* pushed.  The members are those of a list from the cache or the          *)
(* database, which may lack some (Rooms says when).  An acknowledgement    *)
(* raises the user's timestamp in channel_stat and ofli_msg returns what   *)
(* msg_log has above that timestamp.  The pipeline is the abstract MsgLog, *)
(* which MsgStore implements.                                              *)
(*                                                                         *)
(* One room and one node; its members do not change.                       *)
(***************************************************************************)
EXTENDS Naturals, Sequences, Functions

CONSTANTS
    Senders,     \* members that publish, resend and retract
    Readers,     \* members whose pushes, fetches and acknowledgements we follow
    Server,      \* the uuid-less origin of notices
    MaxPubs,     \* bound: publications
    MaxTicks,    \* bound: advances of the clock
    MaxLogins,   \* bound: logins of each reader
    MaxExtras    \* bound: failed database operations, incomplete lists of
                 \* members, resends, add_into_room commands and ends of the
                 \* process, together

ASSUME ServerAssumption == Server \notin Senders \cup Readers
ASSUME BoundAssumption ==
    {MaxPubs, MaxTicks, MaxLogins, MaxExtras} \subseteq Nat

VARIABLES
    clock,      \* time.Now()
    pubs,       \* the publications so far, in the order of their time stamps
    pc,         \* per publication: "push", "enqueue", "insert" or "done"
    pending,    \* the storage pipeline, indices of pubs
    log,        \* collection msg_log, indices of pubs
    conn,       \* per reader: "off", "named" (setuuid answered), "on" (registered)
    logins,     \* per reader: bounded counter
    flying,     \* pushes under way: pairs <<publication, reader>>
    received,   \* per reader: publications it has seen
    stat,       \* per reader: channel_stat of the room
    joining,    \* per reader: the timestamp joinRoom is about to write, or 0
    retracted,  \* history: <<i, r>> where a retraction of i was answered with
                \* success; r is "unsure" if Remove had returned an error
    acked,      \* history, per reader: the latest time acknowledged, and the
                \* latest one acknowledged while joinRoom was under way, or 0
    fetched,    \* history, per reader: it has called ofli_msg since its login
    gaps,       \* history: pairs <<publication, reader>> that met one of the
                \* windows described at MissedOnlyInWindow
    extras      \* bounded counter

store   == <<pending, log>>
session == <<conn, logins, flying, fetched>>
vars    == <<clock, pubs, pc, store, session, received, stat, joining,
             retracted, acked, gaps, extras>>

L == INSTANCE MsgLog WITH Msgs <- 1..MaxPubs

Pubs  == 1..Len(pubs)
Times == 1..(MaxTicks + 1)

\* The document of msg_log.  A "del" is the message by which a retraction is
\* announced; a notice has no uuid.
Publication ==
    [kind : {"msg", "del", "notice"}, uuid : Senders \cup {Server},
     msgid : 0..MaxPubs, ts : Times]

SameMsg(i, j) ==
    /\ pubs[i].kind = "msg" /\ pubs[j].kind = "msg"
    /\ pubs[i].uuid = pubs[j].uuid /\ pubs[i].msgid = pubs[j].msgid

\* Every variable has its type, and only publications that exist are referred to.
TypeOK ==
    /\ clock \in Times
    /\ pubs \in Seq(Publication) /\ Len(pubs) =< MaxPubs
    /\ pc \in Seq({"push", "enqueue", "insert", "done"}) /\ Len(pc) = Len(pubs)
    /\ pending \in Seq(Pubs)
    /\ log \in Seq(Pubs)
    /\ conn \in [Readers -> {"off", "named", "on"}]
    /\ logins \in [Readers -> 0..MaxLogins]
    /\ flying \subseteq Pubs \X {u \in Readers : conn[u] = "on"}
    /\ received \in [Readers -> SUBSET Pubs]
    /\ acked \in [Readers -> [latest : Times \cup {0}, inJoin : Times \cup {0}]]
    /\ stat \in [Readers -> Times \cup {0}]
    /\ extras \in 0..MaxExtras
    /\ joining \in [Readers -> Times \cup {0}]
    /\ retracted \subseteq Pubs \X {"deleted", "unsure"}
    /\ fetched \in [Readers -> BOOLEAN]
    /\ gaps \subseteq Pubs \X Readers

Init ==
    /\ clock = 1
    /\ pubs = <<>>
    /\ pc = <<>>
    /\ L!Init
    /\ conn = [u \in Readers |-> "off"]
    /\ logins = [u \in Readers |-> 0]
    /\ flying = {}
    /\ received = [u \in Readers |-> {}]
    /\ stat = [u \in Readers |-> 0]
    /\ joining = [u \in Readers |-> 0]
    /\ retracted = {}
    /\ acked = [u \in Readers |-> [latest |-> 0, inJoin |-> 0]]
    /\ fetched = [u \in Readers |-> FALSE]
    /\ gaps = {}
    /\ extras = 0

\* One of what MaxExtras bounds.
Extra == extras < MaxExtras /\ extras' = extras + 1

\* time.Now(): later than the last time read, or the same.
ReadClock == clock' \in {t \in {clock, clock + 1} : t \in Times}

-----------------------------------------------------------------------------
(* Publishing                                                              *)

\* The reader goroutine of a sender's connection handles one command at a time.
Idle(s) == \A i \in Pubs : pubs[i].uuid = s => pc[i] = "done"

\* A publication enters with the current time as its ts.  A reader may have
\* acknowledged another one of the same time before.
Stamp(kind, s, id, label) ==
    /\ Len(pubs) < MaxPubs
    /\ ReadClock
    /\ pubs' = Append(pubs, [kind |-> kind, uuid |-> s, msgid |-> id,
                             ts |-> clock'])
    /\ pc' = Append(pc, label)
    /\ gaps' = gaps \cup
         ({Len(pubs) + 1} \X {u \in Readers : stat[u] >= clock'})

\* The command publish, and sendmsg with isResend "N".
Publish(s) ==
    /\ Idle(s)
    /\ Stamp("msg", s, Len(pubs) + 1, "push")
    /\ UNCHANGED <<store, session, received, stat, joining, retracted, acked,
                   extras>>

\* sendmsg with isResend "Y".  A hit in msg_log is answered at once and changes
\* nothing; otherwise the message is published again, with a new time.
Resend(s, i) ==
    /\ Idle(s)
    /\ pubs[i].kind = "msg" /\ pubs[i].uuid = s
    /\ ~\E j \in Range(log) : SameMsg(i, j)
    /\ Stamp("msg", s, pubs[i].msgid, "push")
    /\ Extra
    /\ UNCHANGED <<store, session, received, stat, joining, retracted, acked>>

\* The command pnicr.
Notify ==
    /\ Idle(Server)
    /\ Stamp("notice", Server, 0, "insert")
    /\ UNCHANGED <<store, session, received, stat, joining, retracted, acked,
                   extras>>

\* The notice goes into msg_log directly; the error of Insert is not read.
InsertNotice(i) ==
    /\ pc[i] = "insert"
    /\ \/ log' = Append(log, i) /\ UNCHANGED extras
       \/ Extra /\ UNCHANGED log
    /\ pc' = [pc EXCEPT ![i] = "push"]
    /\ UNCHANGED <<clock, pubs, pending, session, received, stat, joining,
                   retracted, acked, gaps>>

\* Mutant: the result exists of GetClient is not looked at.
PushToAll(i) ==
    /\ pc[i] = "push"
    /\ pc' = [pc EXCEPT ![i] = IF pubs[i].kind = "notice" THEN "done"
                               ELSE "enqueue"]
    /\ flying' = flying \cup ({i} \X (Readers \ {pubs[i].uuid}))
    /\ UNCHANGED <<clock, pubs, store, conn, logins, received, stat, joining,
                   retracted, acked, fetched, gaps, extras>>

\* pushToNativeClient: one goroutine for each registered member but the owner
\* on the list of LoadUserIdsByChannel, which lacks some, or all, when the
\* cached collection does or the load fails.  A reader that has fetched and is
\* not listed, or not registered yet, misses this push.
Push(i) ==
    /\ pc[i] = "push"
    /\ pc' = [pc EXCEPT ![i] = IF pubs[i].kind = "notice" THEN "done"
                               ELSE "enqueue"]
    /\ \E listed \in SUBSET Readers :
         /\ IF listed = Readers THEN UNCHANGED extras ELSE Extra
         /\ flying' = flying \cup
              ({i} \X {u \in listed \ {pubs[i].uuid} : conn[u] = "on"})
    /\ gaps' = gaps \cup
         ({i} \X {u \in Readers \ {pubs[i].uuid} :
                     fetched[u] /\ <<i, u>> \notin flying'})
    /\ UNCHANGED <<clock, pubs, store, conn, logins, received, stat, joining,
                   retracted, acked, fetched>>

\* EnqueueMsg, at the end of Publish.
Enqueue(i) ==
    /\ pc[i] = "enqueue"
    /\ L!Accept(i)
    /\ pc' = [pc EXCEPT ![i] = "done"]
    /\ UNCHANGED <<clock, pubs, session, received, stat, joining, retracted,
                   acked, gaps, extras>>

\* The pipeline stores, or loses, the messages in front.
StoreSome(k, n) ==
    /\ L!Insert(k, n)
    /\ IF n < k THEN Extra ELSE UNCHANGED extras
    /\ UNCHANGED <<clock, pubs, pc, session, received, stat, joining, retracted,
                   acked, gaps>>

-----------------------------------------------------------------------------
(* Retraction                                                              *)

Announce(s) == Stamp("del", s, Len(pubs) + 1, "push")

\* Remove deletes one document, the k-th.
RemoveDoc(k) == SubSeq(log, 1, k - 1) \o SubSeq(log, k + 1, Len(log))

\* Mutant: ErrNotFound is not told from success.
RetractAnyway(s, i) ==
    /\ Idle(s)
    /\ pubs[i].kind = "msg" /\ pubs[i].uuid = s
    /\ \/ \E k \in DOMAIN log : log[k] = i /\ log' = RemoveDoc(k)
       \/ i \notin Range(log) /\ UNCHANGED log
    /\ retracted' = retracted \cup {<<i, "deleted">>}
    /\ Announce(s)
    /\ UNCHANGED <<pending, session, received, stat, joining, acked, extras>>

\* The command retract, with the document found and deleted: the retraction is
\* published.  Not found, or an error of the server, is answered
\* and changes nothing.
Retract(s, i) ==
    /\ Idle(s)
    /\ pubs[i].kind = "msg" /\ pubs[i].uuid = s
    /\ \E k \in DOMAIN log : log[k] = i /\ log' = RemoveDoc(k)
    /\ retracted' = retracted \cup {<<i, "deleted">>}
    /\ Announce(s)
    /\ UNCHANGED <<pending, session, received, stat, joining, acked, extras>>

\* An error that is neither a LastError nor ErrNotFound, such as a broken
\* connection to the database, is passed over: the document may be deleted or
\* not, the retraction is announced and answered with success.
RetractFails(s, i) ==
    /\ Idle(s)
    /\ pubs[i].kind = "msg" /\ pubs[i].uuid = s
    /\ Extra
    /\ \/ \E k \in DOMAIN log : log[k] = i /\ log' = RemoveDoc(k)
       \/ UNCHANGED log
    /\ retracted' = retracted \cup {<<i, "unsure">>}
    /\ Announce(s)
    /\ UNCHANGED <<pending, session, received, stat, joining, acked>>

-----------------------------------------------------------------------------
(* A reader's connection                                                   *)

\* setuuid is answered; initChatEnv runs in a goroutine.
SetUuid(u) ==
    /\ conn[u] = "off"
    /\ logins[u] < MaxLogins
    /\ logins' = [logins EXCEPT ![u] = @ + 1]
    /\ conn' = [conn EXCEPT ![u] = "named"]
    /\ UNCHANGED <<clock, pubs, pc, store, flying, fetched, received, stat,
                   joining, retracted, acked, gaps, extras>>

\* initChatEnv: from here on GetClient finds the connection.
Register(u) ==
    /\ conn[u] = "named"
    /\ conn' = [conn EXCEPT ![u] = "on"]
    /\ UNCHANGED <<clock, pubs, pc, store, logins, flying, fetched, received,
                   stat, joining, retracted, acked, gaps, extras>>

\* The connection ends and with it all writes into it.
Disconnect(u) ==
    /\ conn[u] # "off"
    /\ conn' = [conn EXCEPT ![u] = "off"]
    /\ flying' = {p \in flying : p[2] # u}
    /\ fetched' = [fetched EXCEPT ![u] = FALSE]
    /\ UNCHANGED <<clock, pubs, pc, store, logins, received, stat, joining,
                   retracted, acked, gaps, extras>>

\* The reader sees the publications S; what it has seen is no gap.
See(u, S, g) ==
    /\ received' = [received EXCEPT ![u] = @ \cup S]
    /\ gaps' = g \ ((S \cup received[u]) \X {u})

\* One of the goroutines pushing to u has written its message.
Receive(i, u) ==
    /\ <<i, u>> \in flying
    /\ flying' = flying \ {<<i, u>>}
    /\ See(u, {i}, gaps)
    /\ UNCHANGED <<clock, pubs, pc, store, conn, logins, fetched, stat, joining,
                   retracted, acked, extras>>

\* What ofli_msg finds: later than channel_stat and not the user's own.
Offered(u) == {i \in Range(log) : pubs[i].ts > stat[u] /\ pubs[i].uuid # u}

\* Published before now as far as pushes are concerned, and not to be found.
Unlogged == {i \in Pubs : /\ pubs[i].kind # "notice"
                          /\ pc[i] \in {"enqueue", "done"}
                          /\ i \notin Range(log)}

\* The command ofli_msg.  The error of the query is overwritten by the one of
\* json.Marshal: a failed query is answered with no messages.
OfflineMsg(u) ==
    /\ conn[u] # "off"
    /\ fetched' = [fetched EXCEPT ![u] = TRUE]
    /\ \/ /\ See(u, Offered(u), gaps \cup (Unlogged \X {u}))
          /\ UNCHANGED extras
       \/ /\ See(u, {}, gaps \cup ((Offered(u) \cup Unlogged) \X {u}))
          /\ Extra
    /\ UNCHANGED <<clock, pubs, pc, store, conn, logins, flying, stat, joining,
                   retracted, acked>>

\* The messages of the room after time t, the user's own included.
FetchByChannelAndTs(t) == {i \in Range(log) : pubs[i].ts > t}

\* The command history, with a time the client names.
History(u, t) ==
    /\ conn[u] # "off"
    /\ See(u, FetchByChannelAndTs(t), gaps)
    /\ UNCHANGED <<clock, pubs, pc, store, session, stat, joining, retracted,
                   acked, extras>>

\* What an acknowledgement of time ts passes over: not received, and not yet
\* pushed, or with the push under way, or published before a login that was not
\* followed by ofli_msg.
PassedOver(u, ts) ==
    {i \in Pubs : /\ pubs[i].ts =< ts /\ i \notin received[u]
                  /\ \/ pc[i] \in {"insert", "push"}
                     \/ <<i, u>> \in flying
                     \/ ~fetched[u]}

Later(t1, t2) == IF t1 < t2 THEN t2 ELSE t1

\* The history of u's acknowledgements with one more, of time ts.
Acked(u, ts) ==
    [latest |-> Later(acked[u].latest, ts),
     inJoin |-> IF joining[u] = 0 THEN acked[u].inJoin
                ELSE Later(acked[u].inJoin, ts)]

\* Mutant: the time of the acknowledgement instead of the message's.
AckNow(u, i) ==
    /\ conn[u] # "off"
    /\ i \in received[u]
    /\ stat' = [stat EXCEPT ![u] = clock]
    /\ acked' = [acked EXCEPT ![u] = Acked(u, pubs[i].ts)]
    /\ gaps' = gaps \cup (PassedOver(u, pubs[i].ts) \X {u})
    /\ UNCHANGED <<clock, pubs, pc, store, session, received, joining, retracted,
                   extras>>

\* Mutant: the condition $lt is missing.
AckAnyOrder(u, i) ==
    /\ conn[u] # "off"
    /\ i \in received[u]
    /\ stat' = [stat EXCEPT ![u] = pubs[i].ts]
    /\ acked' = [acked EXCEPT ![u] = Acked(u, pubs[i].ts)]
    /\ gaps' = gaps \cup (PassedOver(u, pubs[i].ts) \X {u})
    /\ UNCHANGED <<clock, pubs, pc, store, session, received, joining, retracted,
                   extras>>

\* ack_msg: channel_stat is raised to the message's time and never lowered.
AckMsg(u, i) ==
    /\ conn[u] # "off"
    /\ i \in received[u]
    /\ stat' = [stat EXCEPT ![u] = Later(@, pubs[i].ts)]
    /\ acked' = [acked EXCEPT ![u] = Acked(u, pubs[i].ts)]
    /\ gaps' = gaps \cup (PassedOver(u, pubs[i].ts) \X {u})
    /\ UNCHANGED <<clock, pubs, pc, store, session, received, joining, retracted,
                   extras>>

-----------------------------------------------------------------------------
(* Everything else                                                         *)

\* add_into_room for a user who is a member already: joinRoom takes the time ...
Join(u) ==
    /\ joining[u] = 0
    /\ ReadClock
    /\ joining' = [joining EXCEPT ![u] = clock']
    /\ Extra
    /\ UNCHANGED <<pubs, pc, store, session, received, stat, retracted,
                   acked, gaps>>

\* ... and sets channel_stat to it, whatever it is by then, unless the bulk
\* fails.  What the user has not received counts as older than the membership;
\* what the user has acknowledged in between may be offered again.
JoinStat(u) ==
    /\ joining[u] # 0
    /\ joining' = [joining EXCEPT ![u] = 0]
    /\ \/ /\ stat' = [stat EXCEPT ![u] = joining[u]]
          /\ gaps' = gaps \cup
               ({i \in Pubs \ received[u] : pubs[i].ts =< joining[u]} \X {u})
       \/ UNCHANGED <<stat, gaps>>
    /\ UNCHANGED <<clock, pubs, pc, store, session, received, retracted, acked,
                   extras>>

\* The process ends: the pipeline, all connections and all commands are lost.
Crash ==
    /\ Extra
    /\ L!Crash
    /\ pc' = [i \in Pubs |-> "done"]
    /\ conn' = [u \in Readers |-> "off"]
    /\ joining' = [u \in Readers |-> 0]
    /\ flying' = {}
    /\ fetched' = [u \in Readers |-> FALSE]
    /\ UNCHANGED <<clock, pubs, logins, received, stat, retracted, acked, gaps>>

Next ==
    \/ \E s \in Senders :
        \/ Publish(s)
        \/ \E i \in Pubs : Resend(s, i) \/ Retract(s, i) \/ RetractFails(s, i)
    \/ Notify
    \/ \E i \in Pubs : InsertNotice(i) \/ Push(i) \/ Enqueue(i)
    \/ \E k \in 1..Len(pending) : \E n \in 0..k : StoreSome(k, n)
    \/ \E u \in Readers :
        \/ SetUuid(u) \/ Register(u) \/ Disconnect(u)
        \/ OfflineMsg(u)
        \/ \E t \in 1..clock : History(u, t)
        \/ Join(u) \/ JoinStat(u)
        \/ \E i \in Pubs : Receive(i, u) \/ AckMsg(u, i)
    \/ Crash

Spec == Init /\ [][Next]_vars

-----------------------------------------------------------------------------
(* Properties                                                              *)

\* A message in msg_log that the user has not received and will never get from
\* ofli_msg, because channel_stat has passed its time, met one of these windows
\* and no other: an acknowledgement passed it between its time stamp and the end
\* of its push (client.go:140), or came without ofli_msg after the login; the
\* last ofli_msg came between its push and its storage, or failed silently
\* (cmd_interface.go:1046); its push came between that ofli_msg and the
\* registration (cmd_interface.go:1132); the list of members that its push went
\* through did not have the user (offpush.go:285-296); joinRoom moved
\* channel_stat (im.go:54); or the clock had not moved on since a message
\* acknowledged before.
MissedOnlyInWindow ==
    \A u \in Readers : \A i \in Range(log) :
        (pubs[i].uuid # u /\ i \notin received[u] /\ pubs[i].ts =< stat[u])
            => <<i, u>> \in gaps

\* Acknowledgements may arrive in any order and take nothing back
\* (client.go:137-141).  What the user has acknowledged is offered again by
\* ofli_msg only if joinRoom wrote an older time over channel_stat
\* (im.go:54-63), and then no more of it than was acknowledged between
\* joinRoom's reading the clock and its write: an add_into_room that begins
\* after the acknowledgement brings nothing back.
AckedNotOfferedAgain ==
    \A u \in Readers : \A i \in Offered(u) :
        pubs[i].ts > acked[u].latest \/ pubs[i].ts =< acked[u].inJoin

\* A retraction answered with success takes one copy of the message out of
\* msg_log for good: the pipeline does not bring that copy back, because one
\* that is still in the pipeline is answered with "not found".  The exception
\* is a Remove whose error was passed over (cmd_interface.go:327-340).  Of a
\* message that was sent twice the other copy stays (cmd_interface.go:325).
RetractedIsGone == \A i \in Range(log) : <<i, "deleted">> \notin retracted
=============================================================================
