--------------------------- MODULE ClientRegistry ---------------------------
(***************************************************************************)
(* Connections, their identity and the table UuidToClient, through which   *)
(* every message finds the connection of the user it is addressed to       *)
(* (engine/client.go, engine/pubsub.go, engine/server_tcp.go,              *)
(* engine/acl.go and the auth and setuuid commands of                      *)
(* engine/cmd_interface.go).                                               *)
(*                                                                         *)
(* A connection has one reader goroutine, OnAccept, which executes its     *)
(* commands one after the other and closes it in the end.  Each setuuid    *)
(* command starts one more goroutine, initChatEnv.  The goroutines are the *)
(* processes <<c, 0>> (reader) and <<c, k>> (the k-th initChatEnv).  The   *)
(* label pc[p] is the next statement of p that touches shared state:       *)
(*                                                                         *)
(*   "read"     OnAccept waits for input          (reader only)            *)
(*   "lock"     this.clientLock.Lock() of Close or initChatEnv             *)
(*   "load"     loadUserInfo                      (initChatEnv only)       *)
(*   "get"      Remove: the first GetClient                                *)
(*   "mutex"    Remove: cli.Mutex.Lock()                                   *)
(*   "recheck"  Remove: the second GetClient and the comparison            *)
(*   "delete"   Remove: uuidToClient.Remove and the deferred Unlock        *)
(*   "add"      AddClient, state = INIT_DONE, Unlock (initChatEnv only)    *)
(*   "connclose" this.Client.Close(), Unlock      (reader only)            *)
(***************************************************************************)
EXTENDS Naturals

CONSTANTS
    Conns,       \* connections, in the life of the server
    Uuids,       \* user ids
    MaxSetuuid,  \* bound: setuuid commands of one connection
    Renamers,    \* bound: connections that send more than one
    NoConn,      \* an absent entry of uuidToClient, a nil *Client
    NoUuid,      \* the empty string, a Client's uuid until setuuid
    Free         \* the owner of an unlocked mutex

ASSUME SetuuidAssumption == MaxSetuuid \in Nat \ {0}
ASSUME NoConnAssumption  == NoConn \notin Conns
ASSUME NoUuidAssumption  == NoUuid \notin Uuids
ASSUME FreeAssumption    == Free \notin Conns \X (0..MaxSetuuid)

VARIABLES
    state,         \* Client.state; "none" before the connection is accepted
    type,          \* Client.Type, the set of its bits
    uuid,          \* Client.uuid
    inits,         \* the number of setuuid commands executed
    pc,            \* the control state of every goroutine
    clientLock,    \* Client.clientLock, its owner
    mutex,         \* Client.Mutex, its owner
    arg,           \* Remove's parameter uuid, per goroutine
    cli,           \* Remove's first cli, whose mutex it holds, per goroutine
    uuidToClient,  \* UuidToClient.uuidToClient
    lastReg,       \* history: the connection that last registered a uuid
    raced          \* history: that registration found a Remove of the same
                   \* uuid between its comparison and its deletion

vars == <<state, type, uuid, inits, pc, clientLock, mutex, arg, cli,
          uuidToClient, lastReg, raced>>

connVars == <<state, type, uuid, inits>>
hist     == <<lastReg, raced>>

Procs == Conns \X (0..MaxSetuuid)
Keys  == Uuids \cup {NoUuid}

ReaderOf(c)  == <<c, 0>>
Conn(p)      == p[1]
IsReader(p)  == p[2] = 0
IsClient(c)  == "client" \in type[c]
Registered(u, c) == uuidToClient[u] = c

Labels == {"none", "read", "lock", "load", "get", "mutex", "recheck",
           "delete", "add", "connclose", "done"}

\* The labels of Remove at which cli is dereferenced.
InRemove == {"mutex", "recheck", "delete"}

\* Every variable has its type; in particular Remove never dereferences the
\* nil client that GetClient returns for an absent uuid.
TypeOK ==
    /\ state \in [Conns -> {"none", "create", "init_done", "dead"}]
    /\ type \in [Conns -> SUBSET {"client", "server"}]
    /\ uuid \in [Conns -> Keys]
    /\ inits \in [Conns -> 0..MaxSetuuid]
    /\ pc \in [Procs -> Labels]
    /\ clientLock \in [Conns -> Procs \cup {Free}]
    /\ mutex \in [Conns -> Procs \cup {Free}]
    /\ arg \in [Procs -> Keys]
    /\ cli \in [Procs -> Conns \cup {NoConn}]
    /\ uuidToClient \in [Keys -> Conns \cup {NoConn}]
    /\ lastReg \in [Keys -> Conns \cup {NoConn}]
    /\ raced \in [Keys -> BOOLEAN]
    /\ \A p \in Procs : pc[p] \in InRemove => cli[p] \in Conns

Init ==
    /\ state = [c \in Conns |-> "none"]
    /\ type = [c \in Conns |-> {}]
    /\ uuid = [c \in Conns |-> NoUuid]
    /\ inits = [c \in Conns |-> 0]
    /\ pc = [p \in Procs |-> "none"]
    /\ clientLock = [c \in Conns |-> Free]
    /\ mutex = [c \in Conns |-> Free]
    /\ arg = [p \in Procs |-> NoUuid]
    /\ cli = [p \in Procs |-> NoConn]
    /\ uuidToClient = [u \in Keys |-> NoConn]
    /\ lastReg = [u \in Keys |-> NoConn]
    /\ raced = [u \in Keys |-> FALSE]

Goto(p, l) == pc' = [pc EXCEPT ![p] = l]

-----------------------------------------------------------------------------
(* The reader goroutine: OnAccept and the commands that change identity.   *)

\* OnAccept: a new Client in state CREATE, then the read loop.
Accept(c) ==
    /\ state[c] = "none"
    /\ state' = [state EXCEPT ![c] = "create"]
    /\ Goto(ReaderOf(c), "read")
    /\ UNCHANGED <<type, uuid, inits, clientLock, mutex, arg, cli,
                   uuidToClient, hist>>

SetType(c, bits) ==
    /\ pc[ReaderOf(c)] = "read"
    /\ type' = [type EXCEPT ![c] = bits]
    /\ UNCHANGED <<state, uuid, inits, pc, clientLock, mutex, arg, cli,
                   uuidToClient, hist>>

\* A successful auth_client.
AuthClient(c) == SetType(c, type[c] \cup {"client"})

\* A successful auth_server.
AuthServer(c) == SetType(c, type[c] \cup {"server"})

\* A command of a client whose token is refused: TokenCheck clears the
\* identity, the command is not processed and the connection stays open.
TokenError(c) == IsClient(c) /\ SetType(c, {})

\* AclCheck of a command that is not in skipAclCmd: it needs an identity.
\* Of the identity commands modelled here only setuuid is such a command.
AclCheck(c) == type[c] # {}

\* setuuid: it must pass AclCheck, and TokenCheck lets it pass.
SetUuid(c, u) ==
    /\ pc[ReaderOf(c)] = "read"
    /\ AclCheck(c)
    /\ inits[c] < MaxSetuuid /\ (inits[c] = 0 \/ c \in Renamers)
    /\ uuid' = [uuid EXCEPT ![c] = u]
    /\ inits' = [inits EXCEPT ![c] = @ + 1]
    /\ Goto(<<c, inits[c] + 1>>, "lock")
    /\ UNCHANGED <<state, type, clientLock, mutex, arg, cli, uuidToClient,
                   hist>>

\* EOF, a read timeout or a malformed command: OnAccept calls Close.
ReadError(c) ==
    /\ pc[ReaderOf(c)] = "read"
    /\ Goto(ReaderOf(c), "lock")
    /\ UNCHANGED <<connVars, clientLock, mutex, arg, cli, uuidToClient, hist>>

\* Close, up to the call of Remove.  clearFrameChat does not touch this
\* state, and UnsubscribeAllChannels has no body.
CloseLock(c) ==
    LET p == ReaderOf(c) IN
    /\ pc[p] = "lock"
    /\ clientLock[c] = Free
    /\ clientLock' = [clientLock EXCEPT ![c] = p]
    /\ state' = [state EXCEPT ![c] = "dead"]
    /\ IF IsClient(c)
       THEN Goto(p, "get") /\ arg' = [arg EXCEPT ![p] = uuid[c]]
       ELSE Goto(p, "connclose") /\ UNCHANGED arg
    /\ UNCHANGED <<type, uuid, inits, mutex, cli, uuidToClient, hist>>

\* Close, its end: the socket is closed and the deferred Unlock runs.
ConnClose(c) ==
    LET p == ReaderOf(c) IN
    /\ pc[p] = "connclose"
    /\ clientLock' = [clientLock EXCEPT ![c] = Free]
    /\ Goto(p, "done")
    /\ UNCHANGED <<connVars, mutex, arg, cli, uuidToClient, hist>>

-----------------------------------------------------------------------------
(* UuidClientMap.Remove(uuid, client), called by Close and by initChatEnv. *)

AfterRemove(p) == IF IsReader(p) THEN "connclose" ELSE "add"

\* Mutant: the check of exists is missing.
RemoveGetNoExists(p) ==
    /\ pc[p] = "get"
    /\ Goto(p, "mutex")
    /\ cli' = [cli EXCEPT ![p] = uuidToClient[arg[p]]]
    /\ UNCHANGED <<connVars, clientLock, mutex, arg, uuidToClient, hist>>

RemoveGet(p) ==
    /\ pc[p] = "get"
    /\ IF uuidToClient[arg[p]] = NoConn
       THEN Goto(p, AfterRemove(p)) /\ UNCHANGED cli
       ELSE Goto(p, "mutex") /\ cli' = [cli EXCEPT ![p] = uuidToClient[arg[p]]]
    /\ UNCHANGED <<connVars, clientLock, mutex, arg, uuidToClient, hist>>

RemoveLock(p) ==
    /\ pc[p] = "mutex"
    /\ mutex[cli[p]] = Free
    /\ mutex' = [mutex EXCEPT ![cli[p]] = p]
    /\ Goto(p, "recheck")
    /\ UNCHANGED <<connVars, clientLock, arg, cli, uuidToClient, hist>>

\* Mutant: the entry is deleted whoever it belongs to.
RemoveRecheckAnyone(p) ==
    /\ pc[p] = "recheck"
    /\ Goto(p, "delete")
    /\ UNCHANGED <<connVars, clientLock, mutex, arg, cli, uuidToClient, hist>>

\* Mutant: the early return forgets to unlock.
RemoveRecheckKeepsLock(p) ==
    /\ pc[p] = "recheck"
    /\ IF uuidToClient[arg[p]] = Conn(p)
       THEN Goto(p, "delete")
       ELSE Goto(p, AfterRemove(p))
    /\ UNCHANGED <<connVars, clientLock, mutex, arg, cli, uuidToClient, hist>>

RemoveRecheck(p) ==
    /\ pc[p] = "recheck"
    /\ IF uuidToClient[arg[p]] = Conn(p)
       THEN Goto(p, "delete") /\ UNCHANGED mutex
       ELSE /\ mutex' = [mutex EXCEPT ![cli[p]] = Free]
            /\ Goto(p, AfterRemove(p))
    /\ UNCHANGED <<connVars, clientLock, arg, cli, uuidToClient, hist>>

RemoveDelete(p) ==
    /\ pc[p] = "delete"
    /\ uuidToClient' = [uuidToClient EXCEPT ![arg[p]] = NoConn]
    /\ mutex' = [mutex EXCEPT ![cli[p]] = Free]
    /\ Goto(p, AfterRemove(p))
    /\ UNCHANGED <<connVars, clientLock, arg, cli, hist>>

-----------------------------------------------------------------------------
(* initChatEnv.                                                            *)

\* Mutant: initChatEnv does not ask whether the client died meanwhile.
InitLockNoStateCheck(p) ==
    /\ ~IsReader(p)
    /\ pc[p] = "lock"
    /\ clientLock[Conn(p)] = Free
    /\ clientLock' = [clientLock EXCEPT ![Conn(p)] = p]
    /\ Goto(p, "load")
    /\ UNCHANGED <<connVars, mutex, arg, cli, uuidToClient, hist>>

InitLock(p) ==
    /\ ~IsReader(p)
    /\ pc[p] = "lock"
    /\ clientLock[Conn(p)] = Free
    /\ IF state[Conn(p)] = "create"
       THEN /\ clientLock' = [clientLock EXCEPT ![Conn(p)] = p]
            /\ Goto(p, "load")
       ELSE Goto(p, "done") /\ UNCHANGED clientLock
    /\ UNCHANGED <<connVars, mutex, arg, cli, uuidToClient, hist>>

\* loadUserInfo reads the user's record; then this.uuid is read for Remove.
LoadUserInfo(p) ==
    /\ pc[p] = "load"
    /\ arg' = [arg EXCEPT ![p] = uuid[Conn(p)]]
    /\ Goto(p, "get")
    /\ UNCHANGED <<connVars, clientLock, mutex, cli, uuidToClient, hist>>

\* this.uuid is read again: a later setuuid may have changed it.  state is
\* only accessed under clientLock, so its assignment joins this step.
AddClient(p) ==
    LET c == Conn(p)
        u == uuid[c] IN
    /\ pc[p] = "add"
    /\ uuidToClient' = [uuidToClient EXCEPT ![u] = c]
    /\ state' = [state EXCEPT ![c] = "init_done"]
    /\ clientLock' = [clientLock EXCEPT ![c] = Free]
    /\ Goto(p, "done")
    /\ lastReg' = [lastReg EXCEPT ![u] = c]
    /\ raced' = [raced EXCEPT ![u] =
                    \E q \in Procs : pc[q] = "delete" /\ arg[q] = u]
    /\ UNCHANGED <<type, uuid, inits, mutex, arg, cli>>

-----------------------------------------------------------------------------

\* What the peer of a connection, or the network, decides: OnRead takes one
\* command through AclCheck, TokenCheck and Process.
Input(c) ==
    \/ Accept(c)
    \/ AuthClient(c)
    \/ AuthServer(c)
    \/ TokenError(c)
    \/ \E u \in Uuids : SetUuid(c, u)
    \/ ReadError(c)

\* What the goroutines then do by themselves.
CloseStep(c) == CloseLock(c) \/ ConnClose(c)

Remove(p) ==
    \/ RemoveGet(p)
    \/ RemoveLock(p)
    \/ RemoveRecheck(p)
    \/ RemoveDelete(p)

InitChatEnv(p) ==
    \/ InitLock(p)
    \/ LoadUserInfo(p)
    \/ AddClient(p)

Next ==
    \/ \E c \in Conns : Input(c) \/ CloseStep(c)
    \/ \E p \in Procs : Remove(p) \/ InitChatEnv(p)

Spec == Init /\ [][Next]_vars

\* Goroutines that can run are run.  Each mutex is taken a bounded number of
\* times, so weak fairness on the acquisitions is enough.
Fairness ==
    /\ \A c \in Conns : WF_vars(CloseStep(c))
    /\ \A p \in Procs : WF_vars(Remove(p) \/ InitChatEnv(p))

FairSpec == Spec /\ Fairness

-----------------------------------------------------------------------------
(* Properties.                                                             *)

\* A connection that has closed with its client identity is registered, if at
\* all, under an id it gave up by a second setuuid, which Close does not know:
\* initChatEnv, which may be scheduled long after its setuuid, and Close
\* exclude each other with clientLock and state, and Close removes the entry.
\* Nothing is said of a client whose identity a refused token has cleared
\* (TokenCheck): its Close skips Remove and leaves the entry behind.
NoDeadClientRegistered ==
    \A c \in Conns, u \in Keys :
        (pc[ReaderOf(c)] = "done" /\ IsClient(c) /\ Registered(u, c))
            => inits[c] > 1 /\ u # uuid[c]

\* A connection is registered under at most one user id, although every
\* setuuid starts an initChatEnv of its own and uuid may change between the
\* Remove and the AddClient of an earlier one: the first to get clientLock
\* takes the client out of state CREATE, and the others return.
RegisteredOnce ==
    \A c \in Conns, u, v \in Keys :
        (Registered(u, c) /\ Registered(v, c)) => u = v

\* The connection that registered a user last stays reachable while it is
\* open, although older connections of the same user time out and close
\* later: Remove compares the client before it deletes.  The one exception is
\* a registration that fell between comparison and deletion of a Remove.
LatestLoginReachable ==
    \A u \in Keys : \A c \in Conns :
        (lastReg[u] = c /\ state[c] = "init_done" /\ ~raced[u])
            => Registered(u, c)

\* A step never registers a client that is already dead, however late the
\* goroutine initChatEnv of its setuuid runs.
NoResurrection ==
    [][\A c \in Conns, u \in Keys :
          (state[c] = "dead" /\ ~Registered(u, c))
              => uuidToClient'[u] # c]_vars

\* Close and initChatEnv return, whichever connections close or register at
\* the same time: no cycle among clientLock and Mutex, no lock left behind.
GoroutinesFinish ==
    \A p \in Procs : pc[p] = "lock" ~> pc[p] = "done"

-----------------------------------------------------------------------------
(* The inductive invariant behind the safety properties.                   *)

\* The labels at which a goroutine holds the clientLock of its connection.
Critical == {"load", "get", "mutex", "recheck", "delete", "add", "connclose"}

\* Who is inside Close or initChatEnv owns clientLock, so that two goroutines
\* of one connection are never both inside.
LockOwner ==
    \A p \in Procs : pc[p] \in Critical => clientLock[Conn(p)] = p

\* The statements only Close, or only initChatEnv, can be at.
OwnLabels ==
    \A p \in Procs :
        IF IsReader(p) THEN pc[p] \notin {"load", "add"}
                       ELSE pc[p] \notin {"read", "connclose"}

\* What clientLock protects: the state an initChatEnv has checked does not
\* change before it is done, and Close has made the client dead.
StateUnderLock ==
    \A p \in Procs :
        /\ (~IsReader(p) /\ pc[p] \in Critical) => state[Conn(p)] = "create"
        /\ (IsReader(p) /\ pc[p] \in Critical \cup {"done"})
               => state[Conn(p)] = "dead"

\* Nothing has happened on a connection that was not accepted.
Unaccepted ==
    \A p \in Procs : pc[p] # "none" => state[Conn(p)] # "none"

\* initChatEnv runs, and a client is registered, only after a setuuid.
AfterSetuuid ==
    /\ \A p \in Procs :
          (~IsReader(p) /\ pc[p] # "none") => inits[Conn(p)] >= 1
    /\ \A c \in Conns : inits[c] >= 1 => uuid[c] \in Uuids
    /\ \A c \in Conns, u \in Keys :
          Registered(u, c) => state[c] \in {"init_done", "dead"} /\ inits[c] >= 1
    /\ \A c \in Conns, u \in Keys :
          lastReg[u] = c => state[c] \in {"init_done", "dead"}

\* Close removes the uuid its connection has, which cannot change any more.
CloseArg ==
    \A p \in Procs :
        (IsReader(p) /\ pc[p] \in {"get"} \cup InRemove)
            => arg[p] = uuid[Conn(p)]

\* A client that sent setuuid once is registered under the id it has.
RegisteredUnderOwnUuid ==
    \A c \in Conns, u \in Keys :
        (Registered(u, c) /\ inits[c] =< 1) => uuid[c] = u /\ u # NoUuid

\* From the end of its Remove on, a closed connection is not registered under
\* the id it has.
RemovedWhenClosed ==
    \A c \in Conns :
        (pc[ReaderOf(c)] \in {"connclose", "done"} /\ IsClient(c))
            => ~Registered(uuid[c], c)

\* A Remove about to delete still sees its own client, unless another
\* connection has registered the same uuid since the comparison.
DeletesOwnEntry ==
    \A p \in Procs :
        (pc[p] = "delete" /\ ~raced[arg[p]]) => uuidToClient[arg[p]] = Conn(p)

IInv ==
    /\ TypeOK
    /\ LockOwner
    /\ OwnLabels
    /\ StateUnderLock
    /\ Unaccepted
    /\ AfterSetuuid
    /\ CloseArg
    /\ RegisteredUnderOwnUuid
    /\ RemovedWhenClosed
    /\ DeletesOwnEntry
    /\ LatestLoginReachable
    /\ RegisteredOnce

=============================================================================
