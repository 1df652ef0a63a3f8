-------------------------------- MODULE Rooms --------------------------------
(***************************************************************************)
(* One chat room: its member list in the database, what user_info and      *)
(* uuid_channels record about it, and the member list cached in memory, by *)
(* which messages are addressed (engine/im.go, ChannelToUserIds and        *)
(* LoadUserIds* of engine/offpush.go, and the commands subs,               *)
(* add_into_room, unsubs, disolve, join_room and createroom of             *)
(* cmd_interface.go).                                                      *)
(*                                                                         *)
(* Every worker is the reader goroutine of a connection, which executes    *)
(* one command after the other.  A step is one database operation, one     *)
(* operation of the LRU cache or one critical section of a collection's    *)
(* rwMutex.  An operation of the database may return an error, a write     *)
(* then having taken effect or not, a bulk for some of its users only; the *)
(* command returns or goes on as the code does.  The label pc[w] is the    *)
(* next step:                                                              *)
(*                                                                         *)
(*   "find"    the check of channel_uuids in subs and add_into_room        *)
(*   "insert", "cstat", "cchan"   createRoom                               *)
(*   "push", "jstat", "jchan"     joinRoom, for one user                   *)
(*   "members"                    disolveRoom's query                      *)
(*   "pull", "rm", "lstat", "lchan"  leaveRoom                             *)
(*   "exists"  channelToUserIds.Exists in add_into_room and unsubs         *)
(*   "rget", "remove"             RemoveUserId, for one user               *)
(*   "del"     channelToUserIds.Del in disolve                             *)
(*   "read"    GetUserIdsByChannel, after its getValue                     *)
(*   "load"    the query of LoadUserIdsFromDatabase                        *)
(*   "aget", "anew", "fill"       AddAllUserIds                            *)
(***************************************************************************)
EXTENDS Naturals

CONSTANTS
    Users,       \* user ids
    Admins,      \* workers that send subs, add_into_room, unsubs, disolve
    Joiners,     \* workers that send join_room and createroom
    Publishers,  \* workers that publish messages into the room
    MaxCreates,  \* bound: rooms created under this channel id
    MaxJoins,    \* bound: join_room and createroom commands
    MaxColls,    \* bound: UserIdCollections stored in the cache
    MaxEvicts,   \* bound: evictions of the entry by the LRU policy
    MaxFails     \* bound: operations of the database that return an error

Workers == Admins \cup Joiners \cup Publishers
Colls   == 1..MaxColls
NoColl  == 0  \* no entry in channelToUserIds

ASSUME BoundAssumption  ==
    /\ MaxCreates \in Nat /\ MaxJoins \in Nat
    /\ MaxColls \in Nat /\ MaxEvicts \in Nat /\ MaxFails \in Nat

VARIABLES
    room,         \* the room has a document in channel_uuids
    uuids,        \* the members in it, {} without a room
    chanStat,     \* users with channel_stat.<room> in user_info
    uuidChans,    \* users with the room in uuid_channels
    entry,        \* channelToUserIds: the room's collection, or NoColl
    userIds,      \* the userIds of every collection
    ncolls,       \* collections stored so far
    pc,           \* per worker: the label
    frame,        \* per worker: the variables of the command
    via,          \* history: the command that put a user into the room
    torn,         \* history: users in whose last command a write failed
    lingering,    \* history: users taken out of the room while a worker was on
                  \* its way to put them into the cached list, or by a command
                  \* that an error kept from the cache
    leftOut,      \* history: users whom add_into_room has put into the room but
                  \* not into the list, or who lost their place in an eviction
    creates, joins, evicts, fails  \* bounded counters

tables == <<room, uuids, chanStat, uuidChans, creates, fails>>
cache  == <<entry, userIds, ncolls, evicts>>
hist   == <<via, torn, lingering, leftOut>>
vars   == <<tables, cache, hist, pc, frame, joins>>

Labels == {"idle", "find", "insert", "cstat", "cchan", "push", "jstat",
           "jchan", "members", "pull", "rm", "lstat", "lchan", "exists",
           "rget", "remove", "del", "read", "load", "aget", "anew", "fill"}

Commands == {"subs", "add", "unsubs", "disolve", "join_room", "createroom",
             "publish"}

\* cmd the command, args the users it names, todo those a loop has still to
\* treat, ids users on their way into a table or a collection, coll the
\* collection the goroutine holds a pointer to.
NoFrame == [cmd |-> "none", args |-> {}, todo |-> {}, ids |-> {},
            coll |-> NoColl]

\* Every variable has its type; a worker that reads or changes a collection
\* holds a pointer to one.
TypeOK ==
    /\ room \in BOOLEAN
    /\ uuids \subseteq Users
    /\ chanStat \subseteq Users
    /\ uuidChans \subseteq Users
    /\ via \in [Users -> Commands \cup {"none"}]
    /\ torn \subseteq Users
    /\ lingering \subseteq Users
    /\ leftOut \subseteq Users
    /\ creates \in 0..MaxCreates
    /\ joins \in 0..MaxJoins
    /\ entry \in Colls \cup {NoColl}
    /\ userIds \in [Colls -> SUBSET Users]
    /\ ncolls \in 0..MaxColls
    /\ evicts \in 0..MaxEvicts
    /\ fails \in 0..MaxFails
    /\ pc \in [Workers -> Labels]
    /\ frame \in [Workers ->
          [cmd : Commands \cup {"none"}, args : SUBSET Users,
           todo : SUBSET Users, ids : SUBSET Users,
           coll : Colls \cup {NoColl}]]
    /\ \A w \in Workers :
          pc[w] \in {"read", "fill", "remove"} => frame[w].coll \in Colls

Init ==
    /\ room = FALSE
    /\ uuids = {}
    /\ chanStat = {}
    /\ uuidChans = {}
    /\ via = [u \in Users |-> "none"]
    /\ torn = {}
    /\ lingering = {}
    /\ leftOut = {}
    /\ creates = 0
    /\ joins = 0
    /\ entry = NoColl
    /\ userIds = [k \in Colls |-> {}]
    /\ ncolls = 0
    /\ evicts = 0
    /\ fails = 0
    /\ pc = [w \in Workers |-> "idle"]
    /\ frame = [w \in Workers |-> NoFrame]

\* The users that workers are on their way to put into the cached list: a list
\* read from the database, or the arguments of add_into_room.
Bringing ==
    {u \in Users : \E w \in Workers :
        \/ frame[w].cmd = "add" /\ u \in frame[w].args
        \/ pc[w] \in {"aget", "anew", "fill"} /\ u \in frame[w].ids}

\* u was added, and a worker has a list without u on its way into the cache.
Stale(u) ==
    /\ via[u] = "add"
    /\ \E w \in Workers :
          pc[w] \in {"aget", "anew", "fill"} /\ u \notin frame[w].ids

\* Worker w goes on at label l with the variables f; a command that returns
\* leaves none behind.
Continue(w, l, f) ==
    /\ pc' = [pc EXCEPT ![w] = l]
    /\ frame' = [frame EXCEPT ![w] = IF l = "idle" THEN NoFrame ELSE f]
    /\ UNCHANGED joins

Goto(w, l) == Continue(w, l, frame[w])
Return(w)  == Goto(w, "idle")

\* An operation of the database ends, with an error unless ok.
Ends(ok) ==
    IF ok THEN UNCHANGED fails ELSE fails < MaxFails /\ fails' = fails + 1

\* A write for the users us ends, and has taken effect for those in done.
Writes(ok, us, done) ==
    /\ Ends(ok)
    /\ done \subseteq us
    /\ ok => done = us

\* A command that returns an error before it comes to the cache leaves those
\* out whom it should have added.
LeavesOut(w, ok) ==
    IF ~ok /\ frame[w].cmd = "add" THEN leftOut' = leftOut \cup frame[w].args
                                  ELSE UNCHANGED leftOut

-----------------------------------------------------------------------------
(* The commands begin.                                                     *)

FrameOf(c, us) == [NoFrame EXCEPT !.cmd = c, !.args = us, !.todo = us]

Begin(w, c, us, l) ==
    /\ pc[w] = "idle"
    /\ Continue(w, l, FrameOf(c, us))
    /\ UNCHANGED <<tables, cache, hist>>

\* The users named by subs and add_into_room exist in user_info.
Subs(w, us)     == creates < MaxCreates /\ Begin(w, "subs", us, "find")
AddUsers(w, us) == Begin(w, "add", us, "find")
Unsubs(w, us)   == Begin(w, "unsubs", us, "pull")
Disolve(w)      == Begin(w, "disolve", {}, "members")

\* A client joins an existing room, or makes one for itself and the first user
\* it names (createroom returns, or panics, after its first joinRoom).
ClientCommand(w, c, us, l) ==
    /\ pc[w] = "idle"
    /\ joins < MaxJoins
    /\ joins' = joins + 1
    /\ pc' = [pc EXCEPT ![w] = l]
    /\ frame' = [frame EXCEPT ![w] = FrameOf(c, us)]
    /\ UNCHANGED <<tables, cache, hist>>

JoinRoom(w, u)      == ClientCommand(w, "join_room", {u}, "push")
CreateRoom(w, u, v) == ClientCommand(w, "createroom", {u, v}, "insert")

\* LoadUserIdsByChannel, called for every published message.
LoadUserIdsByChannel(w) ==
    /\ pc[w] = "idle"
    /\ Continue(w, IF entry = NoColl THEN "load" ELSE "read",
                [NoFrame EXCEPT !.cmd = "publish", !.coll = entry])
    /\ UNCHANGED <<tables, cache, hist>>

\* subs wants the room absent, and takes any error for that; add_into_room
\* wants it present.
FindRoom(w) ==
    /\ pc[w] = "find"
    /\ \E ok \in BOOLEAN :
         /\ Ends(ok)
         /\ Goto(w, CASE frame[w].cmd = "subs" /\ ~(ok /\ room) -> "insert"
                      [] frame[w].cmd = "add" /\ ok /\ room     -> "push"
                      [] OTHER -> "idle")
    /\ UNCHANGED <<room, uuids, chanStat, uuidChans, creates, cache, hist>>

-----------------------------------------------------------------------------
(* createRoom and joinRoom                                                 *)

\* The insertion fails if the room has appeared since "find".
CreateInsert(w) ==
    /\ pc[w] = "insert"
    /\ IF ~room
       THEN /\ creates < MaxCreates
            /\ \E u \in frame[w].args, ok, done \in BOOLEAN :
                 /\ Ends(ok)
                 /\ ok => done
                 /\ IF done
                    THEN /\ room' = TRUE
                         /\ uuids' = {u}
                         /\ via' = [via EXCEPT ![u] = frame[w].cmd]
                         /\ creates' = creates + 1
                    ELSE UNCHANGED <<room, uuids, via, creates>>
                 /\ torn' = IF ok THEN torn \ {u} ELSE torn \cup {u}
                 /\ Continue(w, IF ok THEN "cstat" ELSE "idle",
                             [frame[w] EXCEPT !.ids = {u}])
       ELSE Return(w) /\ UNCHANGED <<room, uuids, via, creates, torn, fails>>
    /\ UNCHANGED <<chanStat, uuidChans, lingering, leftOut, cache>>

CreateStat(w) ==
    /\ pc[w] = "cstat"
    /\ \E ok \in BOOLEAN, done \in SUBSET frame[w].ids :
         /\ Writes(ok, frame[w].ids, done)
         /\ chanStat' = chanStat \cup done
         /\ torn' = IF ok THEN torn ELSE torn \cup frame[w].ids
         /\ Goto(w, IF ok THEN "cchan" ELSE "idle")
    /\ UNCHANGED <<room, uuids, uuidChans, creates, via, lingering, leftOut,
                   cache>>

\* The end of a createRoom or joinRoom: the loop over the users goes on, or
\* the command does, unless there is an error.  Only add_into_room brings the
\* cache up to date.
NextUser(w, ok) ==
    LET rest == frame[w].todo \ frame[w].ids IN
    /\ Continue(w, CASE ok /\ rest # {} -> "push"
                     [] ok /\ rest = {} /\ frame[w].cmd = "add" -> "exists"
                     [] OTHER -> "idle",
                [frame[w] EXCEPT !.todo = rest])
    /\ LeavesOut(w, ok)

\* The third write, of createRoom and of joinRoom.
WriteChan(w) ==
    /\ \E ok \in BOOLEAN, done \in SUBSET frame[w].ids :
         /\ Writes(ok, frame[w].ids, done)
         /\ uuidChans' = uuidChans \cup done
         /\ torn' = IF ok THEN torn ELSE torn \cup frame[w].ids
         /\ NextUser(w, ok)
    /\ UNCHANGED <<room, uuids, chanStat, creates, via, lingering, cache>>

CreateChan(w) == pc[w] = "cchan" /\ WriteChan(w)

\* $addToSet; it fails, and with it the command, if there is no room.
JoinPush(w) ==
    /\ pc[w] = "push"
    /\ IF room
       THEN \E u \in frame[w].todo, ok, done \in BOOLEAN :
              /\ Ends(ok)
              /\ ok => done
              /\ IF done
                 THEN /\ uuids' = uuids \cup {u}
                      /\ via' = [via EXCEPT ![u] = frame[w].cmd]
                 ELSE UNCHANGED <<uuids, via>>
              /\ torn' = IF ok THEN torn \ {u} ELSE torn \cup {u}
              /\ Continue(w, IF ok THEN "jstat" ELSE "idle",
                          [frame[w] EXCEPT !.ids = {u}])
              /\ LeavesOut(w, ok)
       ELSE /\ Return(w)
            /\ LeavesOut(w, FALSE)
            /\ UNCHANGED <<uuids, via, torn, fails>>
    /\ UNCHANGED <<room, chanStat, uuidChans, creates, lingering, cache>>

JoinStat(w) ==
    /\ pc[w] = "jstat"
    /\ \E ok \in BOOLEAN, done \in SUBSET frame[w].ids :
         /\ Writes(ok, frame[w].ids, done)
         /\ chanStat' = chanStat \cup done
         /\ torn' = IF ok THEN torn ELSE torn \cup frame[w].ids
         /\ Goto(w, IF ok THEN "jchan" ELSE "idle")
         /\ LeavesOut(w, ok)
    /\ UNCHANGED <<room, uuids, uuidChans, creates, via, lingering, cache>>

JoinChan(w) == pc[w] = "jchan" /\ WriteChan(w)

-----------------------------------------------------------------------------
(* leaveRoom and disolveRoom                                               *)

DisolveMembers(w) ==
    /\ pc[w] = "members"
    /\ \E ok \in BOOLEAN :
         /\ Ends(ok)
         /\ Continue(w, IF ok /\ room THEN "pull" ELSE "idle",
                     [frame[w] EXCEPT !.args = uuids])
    /\ UNCHANGED <<room, uuids, chanStat, uuidChans, creates, cache, hist>>

\* $pullAll; it fails, and with it the command, if there is no room.
LeavePull(w) ==
    LET us == frame[w].args IN
    /\ pc[w] = "pull"
    /\ IF room
       THEN \E ok, done \in BOOLEAN :
              /\ Ends(ok)
              /\ ok => done
              /\ IF done
                 THEN /\ uuids' = uuids \ us
                      /\ via' = [u \in Users |->
                                    IF u \in us THEN "none" ELSE via[u]]
                      /\ lingering' = lingering \cup
                                      (IF ok THEN us \cap Bringing ELSE us)
                 ELSE UNCHANGED <<uuids, via, lingering>>
              /\ torn' = IF ok THEN torn \ us ELSE torn \cup us
              /\ Goto(w, IF ok THEN "rm" ELSE "idle")
       ELSE Return(w) /\ UNCHANGED <<uuids, via, lingering, torn, fails>>
    /\ UNCHANGED <<room, chanStat, uuidChans, creates, leftOut, cache>>

\* Mutant: the room is removed if the list was empty after $pullAll.
LeaveRemoveAnyway(w) ==
    /\ pc[w] = "rm"
    /\ room' = FALSE
    /\ uuids' = {}
    /\ Goto(w, "lstat")
    /\ UNCHANGED <<chanStat, uuidChans, creates, fails, cache, hist>>

\* The document is removed on the condition that uuids is empty; nobody looks
\* at the error.
LeaveRemove(w) ==
    /\ pc[w] = "rm"
    /\ \E ok, done \in BOOLEAN :
         /\ Ends(ok)
         /\ ok => done
         /\ room' = (room /\ ~(done /\ uuids = {}))
    /\ Goto(w, "lstat")
    /\ UNCHANGED <<uuids, chanStat, uuidChans, creates, cache, hist>>

\* Mutant: channel_stat is unset for those who stay.
LeaveStatOthers(w) ==
    /\ pc[w] = "lstat"
    /\ chanStat' = chanStat \ uuids
    /\ Goto(w, "lchan")
    /\ UNCHANGED <<room, uuids, uuidChans, creates, fails, cache, hist>>

\* The error of this bulk is overwritten by the next one's.
LeaveStat(w) ==
    LET us == frame[w].args IN
    /\ pc[w] = "lstat"
    /\ \E ok \in BOOLEAN, done \in SUBSET us :
         /\ Writes(ok, us, done)
         /\ chanStat' = chanStat \ done
         /\ torn' = IF ok THEN torn ELSE torn \cup us
    /\ Goto(w, "lchan")
    /\ UNCHANGED <<room, uuids, uuidChans, creates, via, lingering, leftOut,
                   cache>>

\* With the error of this one unsubs and disolve return; the users stay in
\* the cached list.
LeaveChan(w) ==
    LET us == frame[w].args IN
    /\ pc[w] = "lchan"
    /\ \E ok \in BOOLEAN, done \in SUBSET us :
         /\ Writes(ok, us, done)
         /\ uuidChans' = uuidChans \ done
         /\ torn' = IF ok THEN torn ELSE torn \cup us
         /\ lingering' = IF ok THEN lingering ELSE lingering \cup us
         /\ Goto(w, CASE ~ok -> "idle"
                      [] ok /\ frame[w].cmd = "disolve" -> "del"
                      [] ok /\ frame[w].cmd = "unsubs"  -> "exists")
    /\ UNCHANGED <<room, uuids, chanStat, creates, via, leftOut, cache>>

-----------------------------------------------------------------------------
(* The cached member list                                                  *)

\* Mutant: add_into_room leaves an absent collection to the next publisher.
ExistsNoRefresh(w) ==
    LET f == frame[w] IN
    /\ pc[w] = "exists"
    /\ Continue(w, CASE f.cmd = "add" /\ entry # NoColl    -> "aget"
                     [] f.cmd = "unsubs" /\ entry # NoColl -> "rget"
                     [] OTHER -> "idle",
                [f EXCEPT !.ids = f.args, !.todo = f.args])
    /\ UNCHANGED <<tables, cache, hist>>

\* In add_into_room a present collection gets the new users and an absent
\* one is loaded; in unsubs a present one loses the users.
Exists(w) ==
    LET f == frame[w] IN
    /\ pc[w] = "exists"
    /\ Continue(w, CASE f.cmd = "add" /\ entry # NoColl    -> "aget"
                     [] f.cmd = "add" /\ entry = NoColl    -> "load"
                     [] f.cmd = "unsubs" /\ entry # NoColl -> "rget"
                     [] f.cmd = "unsubs" /\ entry = NoColl -> "idle",
                [f EXCEPT !.ids = f.args, !.todo = f.args])
    /\ UNCHANGED <<tables, cache, hist>>

\* Mutant: unsubs returns after the first user.
NextRemovalReturns(w, u) ==
    Continue(w, "idle", [frame[w] EXCEPT !.todo = @ \ {u}])

\* The loop of unsubs: one RemoveUserId is done.
NextRemoval(w, u) ==
    Continue(w, IF frame[w].todo = {u} THEN "idle" ELSE "rget",
             [frame[w] EXCEPT !.todo = @ \ {u}])

\* RemoveUserId: getValue ...
RemoveGet(w) ==
    /\ pc[w] = "rget"
    /\ IF entry # NoColl
       THEN Continue(w, "remove", [frame[w] EXCEPT !.coll = entry])
       ELSE \E u \in frame[w].todo : NextRemoval(w, u)
    /\ UNCHANGED <<tables, cache, hist>>

\* ... and the removal under the lock, which also ends the stay of a user who
\* lingered, unless somebody brings the user back.
RemoveUserId(w) ==
    /\ pc[w] = "remove"
    /\ \E u \in frame[w].todo :
         /\ userIds' = [userIds EXCEPT ![frame[w].coll] = @ \ {u}]
         /\ lingering' = IF frame[w].coll = entry
                         THEN lingering \ ({u} \ Bringing) ELSE lingering
         /\ NextRemoval(w, u)
    /\ UNCHANGED <<tables, entry, ncolls, evicts, via, torn, leftOut>>

\* The entry goes, and with it the users who lingered in it, unless they are
\* on their way; left out are those without whom lists are on their way.
DropEntry ==
    /\ entry' = NoColl
    /\ lingering' = lingering \cap Bringing
    /\ leftOut' = {u \in Users : Stale(u)}
    /\ UNCHANGED <<tables, via, torn, userIds, ncolls>>

Del(w) ==
    /\ pc[w] = "del"
    /\ DropEntry
    /\ Return(w)
    /\ UNCHANGED evicts

\* GetUserIdsByChannel copies the collection; the message is pushed to it.
ReadCollection(w) ==
    /\ pc[w] = "read"
    /\ Return(w)
    /\ UNCHANGED <<tables, cache, hist>>

\* The query of LoadUserIdsFromDatabase; without a room, or with an error,
\* nothing is cached, and add_into_room answers with success all the same.
LoadUserIdsFromDatabase(w) ==
    /\ pc[w] = "load"
    /\ \E ok \in BOOLEAN :
         /\ Ends(ok)
         /\ Continue(w, IF ok /\ room THEN "aget" ELSE "idle",
                     [frame[w] EXCEPT !.ids = uuids])
         /\ LeavesOut(w, ok /\ room)
    /\ UNCHANGED <<room, uuids, chanStat, uuidChans, creates, cache, via, torn,
                   lingering>>

\* Mutant: the result of getValue is used without looking at exists.
AddAllGetUnchecked(w) ==
    /\ pc[w] = "aget"
    /\ Continue(w, "fill", [frame[w] EXCEPT !.coll = entry])
    /\ UNCHANGED <<tables, cache, hist>>

AddAllGet(w) ==
    /\ pc[w] = "aget"
    /\ Continue(w, IF entry = NoColl THEN "anew" ELSE "fill",
                [frame[w] EXCEPT !.coll = entry])
    /\ UNCHANGED <<tables, cache, hist>>

\* addNewKeyEmptyValue: the empty collection is visible before it is filled.
AddNewKeyEmptyValue(w) ==
    /\ pc[w] = "anew"
    /\ IF entry = NoColl
       THEN /\ ncolls < MaxColls
            /\ ncolls' = ncolls + 1
            /\ entry' = ncolls + 1
       ELSE UNCHANGED <<entry, ncolls>>
    /\ Continue(w, "fill", [frame[w] EXCEPT !.coll = entry'])
    /\ UNCHANGED <<tables, hist, userIds, evicts>>

\* The collection may have been evicted since getValue.
AddAllFill(w) ==
    LET f == frame[w] IN
    /\ pc[w] = "fill"
    /\ userIds' = [userIds EXCEPT ![f.coll] = @ \cup f.ids]
    /\ leftOut' = CASE f.cmd # "add"      -> leftOut
                    [] f.cmd = "add" /\ f.coll = entry -> leftOut \ f.ids
                    [] f.cmd = "add" /\ f.coll # entry -> leftOut \cup f.args
    /\ Return(w)
    /\ UNCHANGED <<tables, entry, ncolls, evicts, via, torn, lingering>>

\* Messages in other rooms push the entry out of the LRU cache.
Evict ==
    /\ entry # NoColl
    /\ evicts < MaxEvicts
    /\ evicts' = evicts + 1
    /\ DropEntry
    /\ UNCHANGED <<pc, frame, joins>>

-----------------------------------------------------------------------------

BeginCommand ==
    \/ \E w \in Admins, us \in SUBSET Users \ {{}} :
          Subs(w, us) \/ AddUsers(w, us) \/ Unsubs(w, us)
    \/ \E w \in Admins : Disolve(w)
    \/ \E w \in Joiners, u \in Users : JoinRoom(w, u)
    \/ \E w \in Joiners, u, v \in Users : CreateRoom(w, u, v)
    \/ \E w \in Publishers : LoadUserIdsByChannel(w)

DbStep(w) ==
    \/ FindRoom(w)
    \/ CreateInsert(w) \/ CreateStat(w) \/ CreateChan(w)
    \/ JoinPush(w) \/ JoinStat(w) \/ JoinChan(w)
    \/ DisolveMembers(w)
    \/ LeavePull(w) \/ LeaveRemove(w) \/ LeaveStat(w) \/ LeaveChan(w)

CacheStep(w) ==
    \/ Exists(w) \/ RemoveGet(w) \/ RemoveUserId(w) \/ Del(w)
    \/ ReadCollection(w) \/ LoadUserIdsFromDatabase(w)
    \/ AddAllGet(w) \/ AddNewKeyEmptyValue(w) \/ AddAllFill(w)

Next ==
    \/ BeginCommand
    \/ \E w \in Workers : DbStep(w) \/ CacheStep(w)
    \/ Evict

Spec == Init /\ [][Next]_vars

-----------------------------------------------------------------------------
(* Properties                                                              *)

Idle(ws) == \A w \in ws : pc[w] = "idle"

OneAdmin == \E a \in Admins : Admins = {a}

\* A user whom subs, add_into_room or join_room has put into the room is in
\* it until unsubs or disolve takes the user out: the removal of an empty
\* room by leaveRoom does not take a room in which somebody arrived since.
JoinedUsersAreMembers == uuids = {u \in Users : via[u] # "none"}

\* channel_uuids, user_info and uuid_channels agree whenever the commands of
\* the one administrator are done, for every user whose last command met no
\* error, the users of a command that failed half-way excepted until a later
\* one has gone through: createRoom, joinRoom and leaveRoom treat the same
\* users in each table, whatever other commands returned early and also for a
\* room that disappears and comes back.  A join_room or createroom, which no
\* lock keeps apart from unsubs, may spoil it.
TablesAgree ==
    (OneAdmin /\ joins = 0 /\ Idle(Admins))
        => (chanStat \ torn = uuids \ torn /\ uuidChans \ torn = uuids \ torn)

\* A worker is about to put u into the cached list.
Filling(u) ==
    \E w \in Workers :
        pc[w] = "fill" /\ frame[w].coll = entry /\ u \in frame[w].ids

\* The users put into the room by add_into_room are in the cached list (or a
\* worker that has read them is about to fill it) once the command has
\* returned, although publishers load and store older lists, the entry is
\* evicted, and the room is dissolved and made again: "exists" decides between
\* adding to the list and loading it.  With one administrator.  Left out are
\* only the users of an add_into_room that returned before the cache because
\* of an error (cmd_interface.go:921-924), whose load failed unnoticed (:932)
\* or whose collection was evicted before it was filled (:928), and those
\* without whom a list was on its way when the entry was evicted.
AddedUsersAreCached ==
    (OneAdmin /\ Idle(Admins) /\ entry # NoColl)
        => \A u \in Users : via[u] = "add" =>
               u \in userIds[entry] \/ Filling(u) \/ u \in leftOut

\* When all commands are done, the cached list has no user who is not in the
\* room, except one who was taken out between the query of a publisher (or the
\* beginning of an add_into_room) and the filling of the list
\* (cmd_interface.go:988-997, offpush.go:285-296), or by an unsubs or disolve
\* that returned the error of a database write instead of coming to the cache
\* (im.go:92-96, 121, cmd_interface.go:984-986, 1005-1007), and in each case
\* until the user is removed from the list again or the list is dropped.
RemovedUsersAreUncached ==
    (Idle(Workers) /\ entry # NoColl)
        => userIds[entry] \subseteq uuids \cup lingering

\* Claim of the comment on UserIdCollection, "stores the ids of all users of
\* a room": at rest, a cached list has every member.
CacheHoldsAllMembers ==
    (Idle(Workers) /\ entry # NoColl) => uuids \subseteq userIds[entry]
=============================================================================
