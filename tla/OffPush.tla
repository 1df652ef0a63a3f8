------------------------------ MODULE OffPush ------------------------------
(***************************************************************************)
(* Offline push (engine/offpush.go, loadUserInfo of client.go, and the     *)
(* commands update_or_add_push_id and set_off_notify of cmd_interface.go). *)
(*                                                                         *)
(* A user's pushId is kept in user_info and, copied at login, in the       *)
(* connection's Client, from which CheckAndPush takes it.  An update       *)
(* writes the database, looks the connection up and writes its copy.       *)
(* CheckAndPush sends through a pool of senders whose turn is a number     *)
(* advanced by compare-and-swap.                                           *)
(*                                                                         *)
(* The registry is taken as a table with atomic operations; its own races  *)
(* are in ClientRegistry.                                                  *)
(***************************************************************************)
EXTENDS Integers

CONSTANTS
    Users,       \* users
    Conns,       \* connections, each used for one login
    UserOf,      \* per connection: the user who logs in with setuuid
    NoConn,      \* no connection
    Updaters,    \* goroutines that process update_or_add_push_id
    PushIds,     \* pushIds given in updates
    NoPushId,    \* no pushId: the field is missing, or the empty string
    Pushers,     \* goroutines started by CheckAndPush
    Size,        \* OffSenderPoolNum
    MaxUpdates,  \* bound: updates
    MaxPushes    \* bound: offline pushes

ASSUME MarkerAssumption ==
    NoConn \notin Conns /\ NoPushId \notin PushIds \cup Users
ASSUME UserOfAssumption == UserOf \in [Conns -> Users]
ASSUME SizeAssumption == Size \in Nat \ {0}
ASSUME BoundAssumption == MaxUpdates \in Nat /\ MaxPushes \in Nat

VARIABLES
    dbPushId,  \* per user: pushId in user_info
    lpush,     \* per connection: PushId of the Client
    allow,     \* connections with IsAllowForceNotify
    phase,     \* per connection: "new", "loaded", "on" (registered) or "gone"
    reg,       \* per user: the registered connection
    upc,       \* per updater: "idle", "get" or "set"
    job,       \* per updater: userId, pushId and client of the command
    updates,   \* bounded counter
    doubt,     \* history: users whose last update overlapped a login or an
               \* update, or whose login could not read user_info
    gpc,       \* per pusher: "idle", "load" or "cas"
    now,       \* per pusher: the baton it has read
    baton,     \* OffSenderPool.baton
    turns,     \* per sender of the pool: times obtained
    pushes     \* bounded counter

idVars   == <<dbPushId, lpush, allow, phase, reg, upc, job, updates, doubt>>
poolVars == <<gpc, now, baton, turns, pushes>>

Slots == 0..(Size - 1)
NoJob == [user |-> NoConn, id |-> NoPushId, conn |-> NoConn]
Jobs  == [user : Users, id : PushIds, conn : Conns \cup {NoConn}] \cup {NoJob}
Online == {u \in Users : reg[u] # NoConn}

\* Every variable has its type.
PushTypeOK ==
    /\ dbPushId \in [Users -> PushIds \cup {NoPushId}]
    /\ lpush \in [Conns -> PushIds \cup Users \cup {NoPushId}]
    /\ allow \subseteq Conns
    /\ phase \in [Conns -> {"new", "loaded", "on", "gone"}]
    /\ reg \in [Users -> Conns \cup {NoConn}]
    /\ upc \in [Updaters -> {"idle", "get", "set"}]
    /\ job \in [Updaters -> Jobs]
    /\ updates \in 0..MaxUpdates
    /\ doubt \subseteq Users
    /\ gpc \in [Pushers -> {"idle", "load", "cas"}]
    /\ now \in [Pushers -> Slots]
    /\ baton \in Slots
    /\ turns \in [Slots -> Nat]
    /\ pushes \in 0..MaxPushes

\* initOffSenderPool, and no user connected.
PushInit ==
    /\ dbPushId = [u \in Users |-> NoPushId]
    /\ lpush = [c \in Conns |-> NoPushId]
    /\ allow = {}
    /\ phase = [c \in Conns |-> "new"]
    /\ reg = [u \in Users |-> NoConn]
    /\ upc = [p \in Updaters |-> "idle"]
    /\ job = [p \in Updaters |-> NoJob]
    /\ updates = 0
    /\ doubt = {}
    /\ gpc = [g \in Pushers |-> "idle"]
    /\ now = [g \in Pushers |-> 0]
    /\ baton = 0
    /\ turns = [i \in Slots |-> 0]
    /\ pushes = 0

-----------------------------------------------------------------------------
(* Login                                                                   *)

\* What loadUserInfo makes of user_info: a user without a pushId has the own id.
Current(u) == IF dbPushId[u] = NoPushId THEN u ELSE dbPushId[u]

\* loadUserInfo: the copy of the pushId; offline notices are off.  An error leaves
\* the copy empty and is ignored.
LoadUserInfo(c) ==
    /\ phase[c] = "new"
    /\ phase' = [phase EXCEPT ![c] = "loaded"]
    /\ \/ lpush' = [lpush EXCEPT ![c] = Current(UserOf[c])] /\ UNCHANGED doubt
       \/ doubt' = doubt \cup {UserOf[c]} /\ UNCHANGED lpush
    /\ allow' = allow \ {c}
    /\ UNCHANGED <<dbPushId, reg, upc, job, updates, poolVars>>

\* updateUserIdToClientMappingTable: the connection replaces an older one.
Register(c) ==
    /\ phase[c] = "loaded"
    /\ reg' = [reg EXCEPT ![UserOf[c]] = c]
    /\ phase' = [d \in Conns |-> IF d = c THEN "on"
                                 ELSE IF d = reg[UserOf[c]] THEN "gone" ELSE phase[d]]
    /\ UNCHANGED <<dbPushId, lpush, allow, upc, job, updates, doubt, poolVars>>

\* Close takes the connection out of the registry.
Close(c) ==
    /\ phase[c] = "on"
    /\ reg' = [reg EXCEPT ![UserOf[c]] = NoConn]
    /\ phase' = [phase EXCEPT ![c] = "gone"]
    /\ UNCHANGED <<dbPushId, lpush, allow, upc, job, updates, doubt, poolVars>>

-----------------------------------------------------------------------------
(* update_or_add_push_id and set_off_notify                                *)

Loading(u) == {c \in Conns : UserOf[c] = u /\ phase[c] = "loaded"}

Updating(u) == {p \in Updaters : upc[p] # "idle" /\ job[p].user = u}

\* The update of the database.
UpdatePushId(p, u, id) ==
    /\ upc[p] = "idle"
    /\ updates < MaxUpdates
    /\ updates' = updates + 1
    /\ dbPushId' = [dbPushId EXCEPT ![u] = id]
    /\ doubt' = IF Loading(u) = {} /\ Updating(u) = {} THEN doubt \ {u}
                ELSE doubt \cup {u}
    /\ upc' = [upc EXCEPT ![p] = "get"]
    /\ job' = [job EXCEPT ![p] = [user |-> u, id |-> id, conn |-> NoConn]]
    /\ UNCHANGED <<lpush, allow, phase, reg, poolVars>>

\* GetClient.
UpdateGet(p) ==
    /\ upc[p] = "get"
    /\ IF reg[job[p].user] = NoConn
       THEN /\ upc' = [upc EXCEPT ![p] = "idle"]
            /\ job' = [job EXCEPT ![p] = NoJob]
       ELSE /\ upc' = [upc EXCEPT ![p] = "set"]
            /\ job' = [job EXCEPT ![p].conn = reg[job[p].user]]
    /\ UNCHANGED <<dbPushId, lpush, allow, phase, reg, updates, doubt, poolVars>>

\* Mutant: the copy of the command's own connection is written.
UpdateSetOther(p) ==
    /\ upc[p] = "set"
    /\ upc' = [upc EXCEPT ![p] = "idle"]
    /\ job' = [job EXCEPT ![p] = NoJob]
    /\ \E c \in Conns \ {job[p].conn} : lpush' = [lpush EXCEPT ![c] = job[p].id]
    /\ UNCHANGED <<dbPushId, allow, phase, reg, updates, doubt, poolVars>>

\* The copy of the connection that was found then.
UpdateSet(p) ==
    /\ upc[p] = "set"
    /\ upc' = [upc EXCEPT ![p] = "idle"]
    /\ job' = [job EXCEPT ![p] = NoJob]
    /\ lpush' = [lpush EXCEPT ![job[p].conn] = job[p].id]
    /\ UNCHANGED <<dbPushId, allow, phase, reg, updates, doubt, poolVars>>

\* set_off_notify: kept in the Client only, so that it ends with the connection.
SetOffNotify(u, on) ==
    /\ reg[u] # NoConn
    /\ allow' = IF on THEN allow \cup {reg[u]} ELSE allow \ {reg[u]}
    /\ UNCHANGED <<dbPushId, lpush, phase, reg, upc, job, updates, doubt, poolVars>>

-----------------------------------------------------------------------------
(* CheckAndPush and the pool                                               *)

\* CheckAndPush on a message of owner: if a connected user wants offline
\* notices, a goroutine is started to obtain a sender and send.
CheckAndPush(g, owner) ==
    /\ gpc[g] = "idle"
    /\ pushes < MaxPushes
    /\ pushes' = pushes + 1
    /\ \E u \in Online \ {owner} : reg[u] \in allow
    /\ gpc' = [gpc EXCEPT ![g] = "load"]
    /\ UNCHANGED <<idVars, now, baton, turns>>

\* ObtainOneOffSender: the baton is read ...
ObtainLoad(g) ==
    /\ gpc[g] = "load"
    /\ now' = [now EXCEPT ![g] = baton]
    /\ gpc' = [gpc EXCEPT ![g] = "cas"]
    /\ UNCHANGED <<idVars, baton, turns, pushes>>

\* Mutant: the baton is stored without comparison.
ObtainStore(g) ==
    /\ gpc[g] = "cas"
    /\ baton' = (now[g] + 1) % Size
    /\ turns' = [turns EXCEPT ![baton'] = @ + 1]
    /\ gpc' = [gpc EXCEPT ![g] = "idle"]
    /\ UNCHANGED <<idVars, now, pushes>>

\* Mutant: a sender number of the pool is one too high.
ObtainPastEnd(g) ==
    /\ gpc[g] = "cas"
    /\ baton = now[g]
    /\ baton' = (now[g] + 1) % (Size + 1)
    /\ turns' = [turns EXCEPT ![now[g]] = @ + 1]
    /\ gpc' = [gpc EXCEPT ![g] = "idle"]
    /\ UNCHANGED <<idVars, now, pushes>>

\* ... and advanced if it is still the same; else the loop begins again.  The
\* goroutine sends with the sender of that number and ends.
ObtainSwap(g) ==
    /\ gpc[g] = "cas"
    /\ IF baton = now[g]
       THEN /\ baton' = (now[g] + 1) % Size
            /\ turns' = [turns EXCEPT ![baton'] = @ + 1]
            /\ gpc' = [gpc EXCEPT ![g] = "idle"]
       ELSE /\ gpc' = [gpc EXCEPT ![g] = "load"]
            /\ UNCHANGED <<baton, turns>>
    /\ UNCHANGED <<idVars, now, pushes>>

\* Updates for a user without connections change only the database: left out.
PushNext ==
    \/ \E c \in Conns : LoadUserInfo(c) \/ Register(c)
    \/ \E p \in Updaters :
        \/ \E c \in Conns, id \in PushIds : UpdatePushId(p, UserOf[c], id)
        \/ UpdateGet(p) \/ UpdateSet(p)
    \/ \E u \in Users, on \in BOOLEAN : SetOffNotify(u, on)
    \/ \E g \in Pushers :
        \/ \E u \in Users : CheckAndPush(g, u)
        \/ ObtainLoad(g) \/ ObtainSwap(g)

-----------------------------------------------------------------------------
(* Properties                                                              *)

\* Once logins and updates of a connected user are through, CheckAndPush takes
\* the pushId that user_info has, unless the last update came between a login's
\* query and its registration, or overlapped another update, or the login could
\* not read user_info (cmd_interface.go:361-369, client.go:175-194).
PushIdCurrent ==
    \A u \in Online \ doubt :
        (Loading(u) = {} /\ Updating(u) = {}) =>
            lpush[reg[u]] = Current(u)

\* However many goroutines take senders at once, the senders are used in turn:
\* no two of them differ by more than one, and the baton is at the last one
\* obtained (offpush.go:34-47).
EvenlyUsed ==
    LET ahead(i) == IF 0 < i /\ i =< baton THEN 1 ELSE 0
    IN  \A i, j \in Slots : turns[i] - ahead(i) = turns[j] - ahead(j)
=============================================================================
