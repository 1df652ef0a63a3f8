# pushd: a TLA+ verification project

pushd is a push and chat server written in Go. Clients keep a TCP connection to
one of several servers, log in, send messages into rooms ("channels") and open
temporary voice and video chats; servers forward messages to each other; MongoDB
holds rooms, users and the message log. This directory models the parts of the
program in which goroutines share state, checks them with TLC on small
instances, and proves with TLAPS every safety property that a run finds to hold,
for all instances.

Line numbers refer to the files under `src/`. `PROJECT.json` maps every
definition that models code to its lines, and lists the hazards (what is hard to
test here) with the properties that cover them.

## 1. Inventory

| Component | State | Operations | Interacts with |
|---|---|---|---|
| Client registry (`engine/client.go`, `pubsub.go`, `server_tcp.go`, `acl.go`) | `state`, `Type`, `uuid`, `clientLock`, `Mutex` of each `Client`; the table `UuidToClient` | accept, `auth_client`, `auth_server`, `setuuid` (starts `initChatEnv` in a goroutine), refused token, `Close`, `UuidClientMap.Remove/AddClient/GetClient` | every push looks up connections here; `Close` calls `clearFrameChat` |
| Storage pipeline (`engine/storage`, `Publish`, `sendmsg`) | channels `msgQueue`, `writeBuffer`; the flusher's batch; collection `msg_log` | `sendmsg`, resend check, `EnqueueMsg`, `Serv`, flusher, shutdown | `Publish` also pushes and forwards |
| Rooms (`engine/im.go`, part of `offpush.go`, room commands) | collections `channel_uuids`, `user_info.channel_stat`, `uuid_channels`; the LRU cache `channelToUserIds` of member lists | `subs`, `add_into_room`, `unsubs`, `disolve`, `join_room`, `createroom`, `LoadUserIdsByChannel` | publishing reads the cached list |
| Temporary chats (`frame_*` commands, `clearFrameChat`) | `unstable_info` documents with `activeUser`; `user_info.frame_chat`; the chat's cached collection | `frame_apply`, `join`, `accept`, `out`, `dismiss`, `refuse`, `info`, `invoke_frame_action`, clean-up in `Close` | notices go through publishing |
| Server-to-server (`s2s_proxy.go`, `router.go`, `s2s_server.go`, `etcClient.go`) | `Router.Peers`, connections, channel `ForwardTuple` | `forwardToAllOtherServer`, `WaitMsg`, `Peer.WriteFormatMsg`, `initClientConn`, `processCmd`, `watchPeers` | called by publishing, calls publishing |
| Acknowledgement, offline messages, history, retraction, notices | `channel_stat` timestamps, `msg_log` | `ack_msg`, `ofli_msg`, `history`, `retract`, `pnicr`, `joinRoom`'s write | reads what storage writes; races with pushes and logins |
| Frames, tokens, ACL (`NewCmdline`, `NewServerCmdline`, `auth.go`, `acl.go`) | `client_token`, `server_token`, `appkey`, `tokenInfo` and `Type` of each `Client` | `OnRead`, `gettoken`, `getappkey`, `auth_*`, `AclCheck`, `TokenCheck` | gate in front of every command |
| Offline push (`offpush.go`, `loadUserInfo`) | `pushId` in `user_info` and in the `Client`, `IsAllowForceNotify`; sender pool and its baton | `update_or_add_push_id`, `set_off_notify`, `CheckAndPush` (no caller in this commit), `ObtainOneOffSender` | reads the registry |
| Mail (`mail/api.go`) | collection `mail` | `pntus`, `psn`, `asn` | pushes through the registry |
| HTTP polling, statistics, start-up, clients and tools | see `PROJECT.json` | | |

What is hard, and where:

* **Interleavings.** Every connection has a reader goroutine, every `setuuid`
  one more; `UuidClientMap.Remove` compares and then deletes without holding
  anything that excludes `AddClient` (`pubsub.go:60-73`). A command is a series of database and cache
  operations without a transaction (`im.go`, `frame_*`).
* **Stale state.** The cached member list is loaded, extended and shrunk while
  the database changes; `clearFrameChat` works from a list it read at the start;
  the goroutine reading a peer's old connection closes the peer's current one.
* **Bounds and blocking.** Three bounded channels, one of them nil until
  `storage.Init` has run.
* **Failures.** Insertions fail and are only logged; a command that writes three
  tables returns at the first error, or passes over it; bulk operations stop
  half-way; connections between servers break with messages under way; the
  process exits without draining its channels.
* **Reconnection.** The old connection of a user lives on until its read times
  out and then cleans up "its" user's data.
* **Order of a reader's view.** A message is stamped, pushed by one goroutine per
  reader and stored later, while the reader's acknowledgement is a single
  timestamp and `ofli_msg` returns what is stored above it.
* **Units and boundaries.** The token's expiry is written in nanoseconds in one
  place and in seconds in another; two parsers cut the same frames with
  different conditions.

What makes each part correct: the registry finds the latest live connection of
a user and never a closed one; the log receives what was accepted, in order and
once; the tables of a room agree, and nobody is lost by a concurrent removal;
a chat ends when, and only when, its last user has gone; a message reaches every
peer node once; a stored message is seen or will be offered; a token opens
commands only if it was stored, and is refused only if wrong or expired; a
letter is kept until acknowledged; offline pushes go to the stored pushId.

## 2. Plan

| Step | Modules | Status |
|---|---|---|
| 1 | `ClientRegistry` with its proofs | done |
| 2 | `MsgLog` (abstract), `MsgStore` (implements it) with proofs | done |
| 3 | `Rooms` with proofs | done |
| 4 | `FrameChat` with proofs | done |
| 5 | `Cluster` with proofs | done, except a first dial that fails |
| 6 | `Inbox`: acknowledgements, offline messages, history, retraction, notices, on top of `MsgLog`, with proofs | done |
| 7 | `Frames` and `Gate` with proofs: parsers, tokens, ACL | done |
| 8 | `OffPush`, `Mail`, composed in `Notify`, with proofs | done |
| 9 | `LoggedInSendOrder` (MsgStore), the last invariant that was only model-checked | done |
| 10 | composition of `Rooms` and `ClientRegistry`: who receives a published message | open |

Abstract specifications: `MsgLog` is what the storage pipeline promises;
`MsgStore` is shown to implement it and `Inbox` uses it in the pipeline's place.
For step 10 an abstract "delivery" specification is planned: a message goes to
the members that are online, each once.

Modules are written so that they can be proved about: constants with named
assumptions, one action per statement that touches shared state, no `RECURSIVE`
operator. Operators whose comment begins with "Mutant:" are not part of a
specification: each is a plausible mistake in the definition after it, and
shows that a property would notice.

## 3. The modules

### ClientRegistry

A goroutine is a process: `<<c, 0>>` is the reader of connection `c`,
`<<c, k>>` the k-th `initChatEnv`. `pc` holds the next statement that touches
shared state, so that each lock operation and each access of the concurrent map
is one step. `Accept`, `AuthClient`, `AuthServer`, `TokenError`, `SetUuid` and
`ReadError` are what the peer or the network does; `CloseLock` ... `ConnClose`
is `Client.Close`; `RemoveGet`, `RemoveLock`, `RemoveRecheck`, `RemoveDelete` is
`UuidClientMap.Remove`, shared by `Close` and `initChatEnv`; `InitLock`,
`LoadUserInfo`, `AddClient` is `initChatEnv`. `this.uuid` is read again at every
use, as in the code, so that a later `setuuid` is seen.

The history variables `lastReg` and `raced` record the last registration of a
uuid and whether it fell into the window of a `Remove`. A connection that renames
itself by a second `setuuid` is registered only once (`RegisteredOnce`), under
the id it had at that moment, and may therefore stay registered under an id it
gave up: `Close` removes the current one. A client whose token was refused has
lost its identity, and its `Close` removes nothing. These are the two ways in
which a closed connection stays registered; `NoDeadClientRegistered` says that
there is no third. `Renamers` bounds which connections rename themselves; the
proofs hold for any such set.

### MsgLog and MsgStore

`MsgLog` has two variables, `pending` and `log`: messages are accepted at the
end of `pending`; a prefix of `pending` is taken away and a prefix of that is
logged; all of `pending` may be lost at once (the process ends).

`MsgStore` has the senders (`sendmsg`, with or without the resend check), the
channels `msgQueue` and `writeBuffer`, the hand of `Serv`, and the flusher with
its count `cLen` and batch `records`. `policy` is `MsgFlushPolicy`, read when the
process starts. A store may fail; `storeMulti`, an ordered insertion, may fail
after any number of records. `Crash` is any end of the process, `shutdown`
included, since that drains nothing. Before `InitStorage` the channels are nil,
and a sender blocks for ever ("stuck"): the TCP server is started first
(`daemon/pushd/main.go:68`).

Refinement mapping: `pending <- records \o writeBuffer \o hand \o msgQueue`,
`log <- msgLog`.

### Rooms

One room. A step is a database operation, a cache operation or a critical
section of a collection's `rwMutex`. The three `createRoom`/`joinRoom`/
`leaveRoom` writes are separate steps. A collection has an identity, since
goroutines keep pointers to collections that have been evicted or deleted.
An operation of the database may return an error (`Ends`, `Writes`), having taken
effect or not, a bulk for some of its users; what follows is the code's: the
commands return with some tables written (`im.go:28-30`, `63-66`, `76-79`),
`leaveRoom` overwrites the error of one bulk by the next one's and ignores that of
the `Remove` (`im.go:100-121`), `subs` takes a failed query for an absent room, and
`add_into_room` ignores a failed load (`cmd_interface.go:932`).

`createroom` is a `createRoom` for the client and one `joinRoom` for the first user
it names: it then returns the error, or panics on the nil one
(`cmd_interface.go:406-408`), and in both cases the command is over.

History variables: `via`, the command that put a user into the room; `torn`, the
users whose last command met a failing write; `leftOut`, the users of an
`add_into_room` that an error or an eviction kept out of the cache; `lingering`, the
users removed while a list with them was on its way into the cache, or by a command
that returned an error before it came to the cache.

Relied on: users named in commands exist in `user_info`; mgo encodes the nil
`[]string` in `leaveRoom`'s condition (`im.go:99-100`) as an empty array;
`leave_room` passes its arguments in the wrong order and therefore always fails
without changing anything, and is no step of the model.

### FrameChat

The chats of one room. Bulk operations treat one document per step and may stop
half-way; every other operation of the database may fail too, having taken effect
or not, and the commands go on as the code does (`InsertFails`, `PushFails`,
`PullFails`, and the branch `~ok` of the other actions). `frame_join`, `accept`,
`out` and `dismiss` do not ask whether the user is invited, nor does `frame_apply`
ask for membership, so `Users` may have users outside `Room`. A connection loses its
identity by a wrong token and may log in again; `Close` calls `clearFrameChat` only
with an identity (`client.go:73`).

The list `activeUser` may name a user twice and is a count per user; `frame_chat`,
into which a chat is pushed once, is a set, and `clearFrameChat` goes through it in
any order: nothing in the code depends on the order of either. `MaxActive` bounds
how often one user is in one list. `Owner` assigns users to connections: identical
(`Self`), or with an old connection of a user that has reconnected (`Reconnect`).
The room's members are fixed, and exist with an empty `frame_chat` from the start
(`create_user`); the temporary channel's collection is not evicted.

History variables: `pushed`, who joined on which connection; `astray`, who is active
without an invitation or closed without a look at `frame_chat`; `failed`, which
operation failed on which chat. The properties excuse a chat only for the failures
that really spoil it, and each names them.

### Cluster

Peers are objects, since `connectPeer` replaces the `Peer` of a server while
writers still hold the old one; so are connections. A write into a connection
that the other side has closed may seem to succeed (TCP), and then the message
is lost; a write that returns an error has delivered nothing, so that its retry is
no second copy; `IsConnected` is false once this side has called `Close`. These
facts are assumptions on golib, which is not part of the repository. A first
dial that fails leaves `client` nil and is not modelled. A reader goroutine is
taken to enter its first `Read` before another writer replaces the connection.
The goroutine also assigns to the named result `err` of `initClientConn`
(`router.go:105`), so that a dial that succeeded may be reported as failed; by
then the goroutine is about to close the connection, which the model covers as a
failed write. Binary messages are forwarded under the command `vido`, which
`processCmd` does not know: `Receive` drops them.

### Inbox

One room on one node, seen by one reader: `pubs` are the publications in the
order of their time stamps, `pc` how far each has come (`pnicr` inserts and then
pushes; everything else is pushed and then put into the pipeline), `flying` the
goroutines that push. The pipeline is `MsgLog`, instantiated with indices of
`pubs`, so that its results rest on the refinement proved for `MsgStore`. A
reader's connection is "named" between the answer to `setuuid` and the
registration by `initChatEnv`, and in that window the client may already call
`ofli_msg`. The clock may stand still between two readings. The history variable
`gaps` collects the publications that met one of the windows listed at
`MissedOnlyInWindow`; a publication that is received after all leaves it. `stat`
is 0 until `joinRoom` has written it. Storage is taken to be enabled.

A push goes to the readers in the list that `LoadUserIdsByChannel` returns, which may
lack some of them: the collection is not filled yet, the load failed, or the list is
stale (`Rooms` has the ways). An incomplete list is one of the windows. `joinRoom`
reads the clock, and later writes that time into `channel_stat`, whatever is there:
`acked` records the latest acknowledgement and, separately, what was acknowledged
while a `joinRoom` was between the two, which is what its write may take back.

A retraction removes a document and announces itself in one step; an error that
is neither a `LastError` nor "not found" is passed over by the code, and the
retraction is announced and answered with success although perhaps nothing was
removed (`RetractFails`). `retracted` tells the two apart ("deleted", "unsure").

### Frames and Gate

`Frames` has the two parsers as operators on a frame `[n, h, b]`: its length and
its two length fields. `CutsInside` says that their slices stay inside. `Gate`
has the connections with `Type`, uuid and `tokenInfo`, the three token
collections, and a clock. A connection handles one command after the other, and
each command touches a shared collection in one operation, so a command is one
step. Frames are varied as long as no token was handed out (the parsers keep no
state), afterwards they are well-formed. `Second` and `Limit` are the nanoseconds
in a second and the limit of `auth.go:66`; `NanosAssumption` says what is true of
the real values, that seconds since 1970 are smaller than nanoseconds since 1970.
The check for an empty token (`auth.go:57`) is never met by a client: the
invariant `Sessions` of the proofs shows that a client has a token that was stored.

The ACL check is enabled, as it is by default; with the option `-acl=false`
(`daemon/pushd/main.go:65-66`) neither `AclCheck` nor `TokenCheck` is called, and
`ProcessedWithStoredTokens` says nothing of such a server. Tokens leave
`client_token` by refusals only: the TTL index on tokens is a TODO of the
repository's `README.md:92-93`, and no expiry by the database is modelled.

### OffPush, Mail, Notify

`OffPush` has the pushId in the database and in every connection, the update as
three steps (database, look-up, assignment), the login as two (query,
registration), and the pool with its load and compare-and-swap. `doubt` records
users whose last update overlapped a login or another update. `Mail` has the bulk
of `pntus` one mailbox at a time, the push after it, and `psn` and `asn`. `Notify`
composes them: the letters are pushed to the connections that `OffPush` registers
and closes. `PushToClients` ignores `isToOtherServer`: users on other servers find
their letters in the mailbox only. The addressees of a letter are a set: a `userIds`
that names a user twice (`cmd_interface.go:491-495`) would push the letter into the
mailbox twice, and the second time perhaps after its acknowledgement. The registry's own races are in
`ClientRegistry`; here its operations are atomic.

## 4. The runs

| Run | Instance | Checks | Result |
|---|---|---|---|
| `Registry` | 2 connections, 2 users, 2 `setuuid` on one of them, fairness | `TypeOK`, `NoDeadClientRegistered`, `RegisteredOnce`, `LatestLoginReachable`, `GoroutinesFinish` | hold, 179k states |
| `Store` | 2 senders, 2 messages each, both policies, queue 1, buffer 2, 1 resend, 1 restart, fairness | `TypeOK`, `FlusherNeverWaits`, `LoggedInSendOrder`, `ImplementsMsgLog`, `SendReturns`, `PendingIsHandedOver` | hold, 77k states |
| `StoreResend` | 1 sender, 1 message, 1 resend | `AtMostOnceLogged` | violated |
| `Rooms` | 2 users; 1 administrator, 1 client, 1 publisher; 2 collections; a command of the client, or a failure, or a second creation and an eviction | `TypeOK`, `JoinedUsersAreMembers`, `TablesAgree`, `AddedUsersAreCached`, `RemovedUsersAreUncached` | hold, 1.4M states |
| `RoomsCacheSubs` | 2 users, 1 administrator, 1 publisher | `CacheHoldsAllMembers` | violated |
| `FrameMembers` | 2 members and an outsider, one connection each; 2 chats, or 1 and a failure | `NoAbandonedChat`, `NoDanglingInvitation`, `JoinedUsersStayActive` | hold, 1.8M states |
| `FrameReconnect` | a user with an old and a new connection, 2 chats, 1 failure, refused tokens | `TypeOK`, `ActiveUsersAreConnected` | hold, 1.0M states |
| `FrameOldConn` | 2 users, 3 connections, 1 chat | `OldConnDoesNotRemove` | violated |
| `Cluster` | 2 nodes, a string and a binary message, 3 peer objects, 1 break, 1 failed dial, fairness | `TypeOK`, `AtMostOncePush`, `ForwardsAccountedFor`, `EveryPeerPushes` | hold, 459k states |
| `Inbox` | 1 sender, 1 reader with 2 logins, notices, 3 publications, 2 times, 1 failure, resend, join, incomplete list or crash | `TypeOK`, `MissedOnlyInWindow`, `AckedNotOfferedAgain`, `RetractedIsGone` | hold, 2.6M states |
| `Gate` | 2 connections, 3 strings, 3 times with limit 1, frames up to 13 bytes | `TypeOK`, `FramesCutInside`, `ForwardsUnderstood`, `ExpiryExact`, `TokensAccountedFor`, `ProcessedWithStoredTokens` | hold, 252k states |
| `Notify` | 2 users, 2 connections of one of them, 2 updates, pool of 2 with 2 pushes, 1 letter | `TypeOK`, `PushIdCurrent`, `EvenlyUsed`, `AckedLettersStayAway`, `LettersKept` | hold, 2.3M states |

Why the bounds are enough for the cases in question: the registry's races are
between two connections of one user and between two `initChatEnv` of one
connection, and the proofs cover all numbers. The store's instance has both
channels full at once, a batch of more than one record, and a message in every
place at the same time. The room is created, dissolved and created again with a
stale collection still held by a publisher; an eviction may come with it,
and a failing operation or a client's command may fall into any of the administrator's
(`AtMostTwo`; the proofs cover all combinations). Three users and two chats let two
leave while a third joins, and two `frame_apply` run at once. Three peer objects
for two nodes let each node be the other's peer and one be announced again with
a message under way. Three publications let an acknowledgement pass one message
that is being pushed and one that is in the pipeline, with or without the same
time stamp; every window of `MissedOnlyInWindow` occurs, and leaving any one of
them out of `gaps` makes TLC find a violation. Three times with a limit of 1 let a token be used, expire, and
stay idle after a login for longer than the limit; the proofs cover all values.
Two connections of one user let a login replace another during an update, and
two pushers on a pool of two make the compare-and-swap fail and the baton wrap.

Deadlock is not checked: connections may all be closed, messages all sent and
the bounds used up, and then nothing need happen. Where somebody must not wait
for ever, a liveness property says so.

**Fairness.** Only steps that goroutines take by themselves are fair, weakly:
lock acquisitions, statements after them, channel operations, the ticker, and
database calls, which return (with an error after a timeout). What clients and
the network do is never assumed to happen. Every mutex is taken, and every
channel filled, a bounded number of times in these models, so weak fairness is
enough; for unbounded traffic the Go runtime serves waiting senders and lockers
in turn. `Inbox`, `Gate` and `Notify` state safety only: what a reader eventually
sees depends on clients that fetch and acknowledge, which nothing guarantees.

## 5. What the violations show

* `StoreResend`: the resend check looks into `msg_log` only; a first copy still
  in a channel is not seen, and the message is logged and pushed twice.
* `RoomsCacheSubs`: `subs` does not touch the cache; a publisher that loads the
  list between two of its `joinRoom` caches a list that stays incomplete.
  `AddedUsersAreCached` shows that `add_into_room` does not have this defect.
* `FrameOldConn`: `$push` instead of `$addToSet` does not protect the new
  connection. A user joins on the old and on the new connection and is in
  `activeUser` twice; the `$pull` of the old one's `Close` removes both occurrences.

The models have further behaviours of this kind, for which there is no run of
their own:

* a `Remove` that has compared and not yet deleted takes away the entry of the
  connection that registers in between, and this user then receives nothing
  although connected (`pubsub.go:68`); `LatestLoginReachable` says, and its proof
  confirms for all instances, that this window is the only way;
* a client whose token was refused is never taken out of the registry when it
  closes (`acl.go:60`, `client.go:73`);
* the goroutine reading a peer's old connection closes `this.client`, by then
  another, working connection (`router.go:107`), and each such closing makes the
  next goroutine do the same; `ForwardsAccountedFor` shows that no message is
  lost by it except through exhausted retries;
* a publisher may find a collection that was entered empty and is not yet filled
  (`offpush.go:202`);
* a write that fails half-way leaves the three tables of a room different until the
  next command for that user (`im.go:63-66`), a user removed by an `unsubs` that
  returned an error keeps receiving (`cmd_interface.go:984-986`), and a user added
  by an `add_into_room` whose load failed is not in the list although the answer is
  success (`cmd_interface.go:932`);
* a user who joins a chat without an invitation, or whose token was refused before
  the connection closed, stays active in it (`client.go:73`, `cmd_interface.go:692`);
  a chat whose conditional `Remove` fails is removed by nobody
  (`cmd_interface.go:752`);
* two `frame_apply` at once make two chats for a room (`cmd_interface.go:619`);
* binary messages are not pushed by other nodes (`pubsub.go:178`);
* a stored message can stay invisible to a reader for good in the windows listed
  at `MissedOnlyInWindow` (`client.go:140`, `cmd_interface.go:1046` and `1132`,
  `im.go:54`);
* a refused token may remove the token of somebody else (`auth.go:62`), and an
  idle client's token does not expire before its first command (`auth.go:66`);
* a retraction is announced although the database refused it
  (`cmd_interface.go:327`);
* `joinRoom` for a member sets `channel_stat` back over an acknowledgement that came
  after its reading of the clock (`im.go:54-63`).

## 6. What is proved

From the named assumptions on the constants only (the markers `NoConn`, `NoUuid`,
`Free` are distinct from real values; every connection has a user; bounds are
naturals; capacities and the size of the pool are positive; the policies are the
two the configuration knows), for any number of connections, users, senders,
messages, workers, peers and failures. Every invariant and action property of a
passing run, and the refinement of `MsgLog`, is a theorem. None of the invariants
is inductive except the simplest; each proof module states its inductive invariant
`IInv` as a conjunction of named parts. A proof has one lemma, or one step, per
action, which establishes the parts the action can disturb.

**ClientRegistryProofs.** `RegistryInvariant`: `Spec => []IInv`; from it
`RegistryTypeOK`, `ClosedNotRegistered`, `OneRegistration`,
`LatestStaysReachable` and, as an action property, `DeadStayOut`. None of the
properties is inductive alone. `IInv` adds:

* `LockOwner`, `OwnLabels`: two goroutines of a connection are never both inside
  `Close` or `initChatEnv`;
* `StateUnderLock`: hence the state that `initChatEnv` checked is still
  "create" when it registers, and a closing client is dead before its `Remove`;
* `Unaccepted`, `AfterSetuuid`: what has not happened on a new connection;
* `CloseArg`: `Close` removes the uuid the connection still has;
* `RemovedWhenClosed`: from the end of its `Remove` a closed connection is not
  registered under the uuid it has; with `RegisteredUnderOwnUuid` (a connection that
  did not rename itself is registered under no other) this carries
  `NoDeadClientRegistered`;
* `DeletesOwnEntry`: a `Remove` about to delete sees its own entry unless the
  last registration raced with it, which carries `LatestLoginReachable`.

**MsgStoreProofs.** `StoreInvariant` (types and capacities; no flusher under
policy "trx"; a command concerns a message sent; the flusher is never short),
from it `StoreTypeOK` and `FlusherIsNeverShort`; and `StoreImplementsMsgLog`,
`Spec => Log!Spec`: `EnqueueMsg` maps to acceptance, `ServStore` and `FlushStore`
to handing a prefix over, `Crash` to the loss of everything pending, and the steps
that move messages between the channels to stuttering, by associativity of
concatenation. The invariant is needed for `ServStore` (the parts of `Pending`
in front of the hand must be empty) and for the types of the sequences.

`LoggedInOrder` rests on that refinement. `Line` is `msgLog \o Pending`; `OrderInv`
says that, without a resend, it has each sender's messages in the order of their
ids and before the one the sender is about to enqueue. An `EnqueueMsg` appends to
the line. Every other step of the pipeline thins it (`Thinned`: a strictly
increasing map of positions exists, given explicitly in `InsertThins`), and a
thinned line is still in order (`ThinnedOrdered`).

**GateProofs.** For frames of any length, any number of connections and tokens,
any span of time and any limit, from `TimeAssumption`, `NanosAssumption` and
`LengthAssumption`: `AnyFrameCutInside` by cases on which parser accepts;
`GateInvariant`, `Spec => []IInv`, and from it every property the run checks.
`IInv` adds to them

* `TokensInHistory`: a token in `client_token` was stored, and what was stored was
  handed out, so that a fresh one is neither;
* `Sessions`: the token of a client was stored; its expiry is the time of the last
  accepted check in seconds or the time of `auth_client` in nanoseconds, which
  carries `ExpiryExact` and `ProcessedWithStoredTokens`;
* that the set of lost tokens is finite, so that a refusal adds at most one to its
  cardinality.

**NotifyProofs.** The variables fall into three groups with an invariant each.
`PushIdStaysCurrent`: a login that has read `user_info` holds the stored pushId, or
its user is in doubt; so does the copy in the registered connection, unless an
update of that user still has to assign it. `SendersTakeTurns`: `EvenlyUsed` is
inductive, by the arithmetic of the baton's wrap-around. `AckedLettersGone`,
`LettersAreKept`: a letter not yet stored for a user has not been pushed to or seen
by that user (`UnstoredUnseen`), so that the bulk cannot store it again after the
acknowledgement; what the bulk has passed is in the mailbox or acknowledged
(`StoredSoFar`).

**InboxProofs.** `RetractedStaysAway` needs `StoredOnce` (a publication is at one
place of the pipeline and the log, once) and `RetractedNowhere`. `AckedStaysAcked`
follows from `StatCoversAcks`: `channel_stat`, and the time a `joinRoom` is about to
write into it, cover every acknowledgement except those that came during a `joinRoom`.
`MissedInWindow` needs two parts about what a reader has not seen and may still be
stored: `PassedIsGap` (`channel_stat` has passed it) and `FetchedIsGap` (its push is
over and the reader has called `ofli_msg` since); in both cases it is in `gaps`, and
the actions put it there only in the windows the property lists.

**RoomsProofs.** `Shape` says which labels a command passes, and `MembersInv` that a
room without a document has no members. `TablesInv` says at every label what the
one administrator has still to write into the other two tables, for users that are
not `torn`. `AddedInv` says where a user added by `add_into_room` is until the list
has the user (`Safe`, `OnItsWay`) or an error or eviction has left the user out. For
`RemovedUsersGetUncached`, `UncachedInv` says that everybody in the list, or on the
way into it in the hands of a worker (`Carried`), is in the room, lingers,
or is about to be removed (`Removing`); `FreshInv` says that nobody has a pointer to
a collection that does not exist yet.

**FrameChatProofs.** `ChatsGetRemoved` is inductive with `Unused`.
`ActiveUsersStayConnected` needs `ActiveInv`: an active user, unless `Strayed`, has a
connection that is open or still has the chat in the list its `Close` goes through
(`Keeps`), and has the chat in `frame_chat`, or its own `frame_apply` is about to put
it there, so that a `Close` starting now would read it. `InvitationsDoNotDangle` needs
`InviterInv`, who invites is active in the chat and so keeps it from being removed,
and `RoomInv`, only members of the room are invited, so that the bulk of withdrawals
reaches everybody. `JoinedUsersStay` follows from `PushedInv`.

**ClusterProofs.** A message has one copy for every peer its origin had, and the
copy is at one place: in the origin's queue (`QueueInv`), in the hands of one writer
(`HeldInv`), once in one connection (`SentInv`), or gone. A peer has pushed only
copies that are gone (`PushInv`), so that receiving a copy pushes for the first time;
`LinkInv` and `ToInv` say that no node is its own peer and that two peers of a message
are different servers. This gives `PushedAtMostOnce`. `AccountInv` and `LossInv`
(connections fail and copies are lost only after a break or a failed dial) give
`NoForwardVanishes`.

**Only model-checked.** The liveness properties `GoroutinesFinish`, `SendReturns`,
`PendingIsHandedOver` and `EveryPeerPushes`, whose fairness is beyond the prover, and
the three violations. The proofs have 8974 obligations in eight modules.

## 7. Not modelled

HTTP long polling: its publish route lacks the message id that its handler
parses, so that it never publishes; `Subscribe` and the cache behind `history()`
have no bodies, so that a subscriber only waits for its timeout.
`Subscribe`, `Unsubscribe` and `UnsubscribeAllChannels` have empty bodies, and
`chanUuidsQueue` has no sender: there is nothing to model. The Router's
channel-to-peers cache is filled but no message is addressed by it. A first dial
of a peer that fails leaves `client` nil (`router.go:94`); what golib's methods do
with a nil receiver is not in the repository. The data
race on `Router.Peers` (`router.go:68` against `pubsub.go:213`), which the Go
runtime may answer by ending the process, is below the granularity of `Cluster`.
Statistics, configuration parsing, the command-line client, the Go and web
clients and the benchmark are tools around the server.
