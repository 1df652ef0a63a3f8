------------------------------- MODULE Cluster -------------------------------
(***************************************************************************)
(* Messages between the servers of a distributed installation: Publish and *)
(* forwardToAllOtherServer (engine/pubsub.go), the proxy with its queue    *)
(* (s2s_proxy.go), the peers and their connections (router.go, fed by      *)
(* watchPeers of etcClient.go) and the server side (s2s_server.go).        *)
(*                                                                         *)
(* Goroutines: one publisher per message, WaitMsg on every node, a writer  *)
(* per message and peer, a reader per outgoing connection, and on the      *)
(* other side the reader of the S2S server.  A node pushes a message to    *)
(* its own clients in one step (ClientRegistry and Rooms have the detail). *)
(* The channel-to-peers cache of the Router is left out: it is filled but  *)
(* no message is addressed by it, and Subscribe does nothing.              *)
(***************************************************************************)
EXTENDS Naturals, Sequences, SequencesExt

CONSTANTS
    Nodes,        \* servers
    StrMsgs,      \* messages published by PublishStrMsg
    BinMsgs,      \* messages published by PublishBinMsg
    NoNode,       \* the origin of a message not yet published
    RETRY_CNT,    \* reconnections a writer attempts
    QueueSize,    \* capacity of the channel ForwardTuple
    MaxPeers,     \* bound: Peer objects made
    MaxBreaks,    \* bound: connections that break
    MaxDialFails  \* bound: reconnections that fail

Msgs == StrMsgs \cup BinMsgs

ASSUME KindAssumption  == StrMsgs \cap BinMsgs = {} /\ NoNode \notin Nodes
ASSUME BoundAssumption ==
    /\ RETRY_CNT \in Nat
    /\ QueueSize \in Nat \ {0}
    /\ MaxPeers \in Nat /\ MaxBreaks \in Nat /\ MaxDialFails \in Nat

VARIABLES
    link,      \* of every Peer object made: its node and its target
    client,    \* of every Peer object: the index of its connection
    conn,      \* all connections ever dialled
    peers,     \* Router.Peers of every node: a set of Peer objects
    queue,     \* ForwardTuple of every node
    pub,       \* how far the publisher of a message is
    origin,    \* the node a message is published on
    to,        \* the peers forwardToAllOtherServer has found
    writers,   \* the goroutines in Peer.WriteFormatMsg
    pushes,    \* how often a node has pushed a message to its clients
    lost,      \* history: <<msg, p>> that no longer can reach p's target
    breaks, dialFails  \* bounded counters

conns == <<link, client, conn, peers>>
pubs  == <<pub, origin, to>>
count == <<breaks, dialFails>>
vars  == <<conns, queue, pubs, writers, pushes, lost, count>>

PeerIds == DOMAIN link
Target(p) == link[p][2]

\* A connection of peer p; reader is TRUE while the goroutine that waits for
\* its end runs, stream is what the other side has not read yet.
NewConn(p) == [peer |-> p, state |-> "up", reader |-> TRUE, stream |-> <<>>]

\* Every variable has its type, and every peer, connection and writer refers
\* to one that exists.
TypeOK ==
    /\ link \in Seq(Nodes \X Nodes)
    /\ client \in Seq(Nat) /\ Len(client) = Len(link)
    /\ \A p \in PeerIds : client[p] \in DOMAIN conn /\ conn[client[p]].peer = p
    /\ conn \in Seq([peer : PeerIds, state : {"up", "broken", "closed"},
                     reader : BOOLEAN, stream : Seq(Msgs)])
    /\ peers \in [Nodes -> SUBSET PeerIds]
    /\ \A n \in Nodes : \A p \in peers[n] : link[p][1] = n
    /\ queue \in [Nodes -> Seq(Msgs)]
    /\ \A n \in Nodes : Len(queue[n]) <= QueueSize
    /\ pub \in [Msgs -> {"new", "blocked", "queued"}]
    /\ origin \in [Msgs -> Nodes \cup {NoNode}]
    /\ to \in [Msgs -> SUBSET PeerIds]
    /\ writers \subseteq [msg : Msgs, peer : PeerIds,
                          pc : {"check", "write", "dial"}, tries : 0..RETRY_CNT]
    /\ pushes \in [Nodes -> [Msgs -> Nat]]
    /\ lost \subseteq Msgs \X PeerIds
    /\ breaks \in 0..MaxBreaks
    /\ dialFails \in 0..MaxDialFails

Init ==
    /\ link = <<>>
    /\ client = <<>>
    /\ conn = <<>>
    /\ peers = [n \in Nodes |-> {}]
    /\ queue = [n \in Nodes |-> <<>>]
    /\ pub = [m \in Msgs |-> "new"]
    /\ origin = [m \in Msgs |-> NoNode]
    /\ to = [m \in Msgs |-> {}]
    /\ writers = {}
    /\ pushes = [n \in Nodes |-> [m \in Msgs |-> 0]]
    /\ lost = {}
    /\ breaks = 0
    /\ dialFails = 0

-----------------------------------------------------------------------------
(* Router                                                                  *)

\* Mutant: the Peer is entered without waiting for its connection.
ConnectPeerUndialled(n, m) ==
    /\ n # m
    /\ Len(link) < MaxPeers
    /\ link' = Append(link, <<n, m>>)
    /\ client' = Append(client, 0)
    /\ peers' = [peers EXCEPT ![n] =
                    {p \in @ : Target(p) # m} \cup {Len(link')}]
    /\ UNCHANGED <<conn, queue, pubs, writers, pushes, lost, count>>

\* watchPeers announces server m to node n: connectPeer makes a new Peer in
\* place of the one there may be, and dials.  A first dial that fails would
\* leave the Peer without a client; it is not modelled.
ConnectPeer(n, m) ==
    /\ n # m
    /\ Len(link) < MaxPeers
    /\ link' = Append(link, <<n, m>>)
    /\ conn' = Append(conn, NewConn(Len(link')))
    /\ client' = Append(client, Len(conn'))
    /\ peers' = [peers EXCEPT ![n] =
                    {p \in @ : Target(p) # m} \cup {Len(link')}]
    /\ UNCHANGED <<queue, pubs, writers, pushes, lost, count>>

\* The other side closes the connection (its session timeout is two minutes)
\* or the network breaks it; what is under way is lost.
Break(k) ==
    /\ breaks < MaxBreaks
    /\ conn[k].state = "up"
    /\ breaks' = breaks + 1
    /\ conn' = [conn EXCEPT ![k].state = "broken", ![k].stream = <<>>]
    /\ lost' = lost \cup {<<m, conn[k].peer>> : m \in ToSet(conn[k].stream)}
    /\ UNCHANGED <<link, client, peers, queue, pubs, writers, pushes,
                   dialFails>>

\* The Read of the goroutine waiting on connection k fails, and it closes
\* this.client: the connection that the peer has by now.  What has been
\* written into a connection before it is closed still arrives.
ReaderError(k) ==
    /\ conn[k].reader
    /\ conn[k].state # "up"
    /\ conn' = [conn EXCEPT ![k].reader = FALSE,
                            ![client[conn[k].peer]].state = "closed"]
    /\ UNCHANGED <<link, client, peers, queue, pubs, writers, pushes, lost,
                   count>>

-----------------------------------------------------------------------------
(* Publishing                                                              *)

PushToNative(n, m) == pushes' = [pushes EXCEPT ![n][m] = @ + 1]

\* PublishStrMsg or PublishBinMsg with isToOtherServer, up to the send.
Publish(n, m) ==
    /\ pub[m] = "new"
    /\ pub' = [pub EXCEPT ![m] = "blocked"]
    /\ origin' = [origin EXCEPT ![m] = n]
    /\ to' = [to EXCEPT ![m] = peers[n]]
    /\ PushToNative(n, m)
    /\ UNCHANGED <<conns, queue, writers, lost, count>>

\* The send into ForwardTuple, which waits for room.
Forward(m) ==
    /\ pub[m] = "blocked"
    /\ Len(queue[origin[m]]) < QueueSize
    /\ pub' = [pub EXCEPT ![m] = "queued"]
    /\ queue' = [queue EXCEPT ![origin[m]] = Append(@, m)]
    /\ UNCHANGED <<conns, origin, to, writers, pushes, lost, count>>

Writer(m, p) == [msg |-> m, peer |-> p, pc |-> "check", tries |-> 0]

\* Mutant: only peers that are still in Router.Peers are served.
WaitMsgCurrentPeers(n) ==
    /\ queue[n] # <<>>
    /\ queue' = [queue EXCEPT ![n] = Tail(@)]
    /\ writers' = writers \cup
          {Writer(Head(queue[n]), p) : p \in to[Head(queue[n])] \cap peers[n]}
    /\ UNCHANGED <<conns, pubs, pushes, lost, count>>

\* WaitMsg takes the next tuple and starts a writer for each of its peers.
WaitMsg(n) ==
    /\ queue[n] # <<>>
    /\ queue' = [queue EXCEPT ![n] = Tail(@)]
    /\ writers' = writers \cup
          {Writer(Head(queue[n]), p) : p \in to[Head(queue[n])]}
    /\ UNCHANGED <<conns, pubs, pushes, lost, count>>

-----------------------------------------------------------------------------
(* Peer.WriteFormatMsg                                                     *)

Becomes(w, v) == writers' = (writers \ {w}) \cup {v}
Ends(w)       == writers' = writers \ {w}

\* After an error: the next reconnection, or none is left.
Failed(w) ==
    IF w.tries < RETRY_CNT
    THEN Becomes(w, [w EXCEPT !.pc = "dial"]) /\ UNCHANGED lost
    ELSE Ends(w) /\ lost' = lost \cup {<<w.msg, w.peer>>}

\* IsConnected is false once this side has closed the connection.
CheckConnected(w) ==
    /\ w.pc = "check"
    /\ IF conn[client[w.peer]].state # "closed"
       THEN Becomes(w, [w EXCEPT !.pc = "write"]) /\ UNCHANGED lost
       ELSE Failed(w)
    /\ UNCHANGED <<conns, queue, pubs, pushes, count>>

\* Into a connection broken unnoticed the write may seem to succeed.
Write(w) ==
    LET k == client[w.peer] IN
    /\ w.pc = "write"
    /\ \/ /\ conn[k].state = "up"
          /\ conn' = [conn EXCEPT ![k].stream = Append(@, w.msg)]
          /\ Ends(w)
          /\ UNCHANGED lost
       \/ /\ conn[k].state = "broken"
          /\ lost' = lost \cup {<<w.msg, w.peer>>}
          /\ Ends(w)
          /\ UNCHANGED conn
       \/ /\ conn[k].state # "up"
          /\ Failed(w)
          /\ UNCHANGED conn
    /\ UNCHANGED <<link, client, peers, queue, pubs, pushes, count>>

\* Mutant: the message is not written again after the reconnection.
DialForgets(w) ==
    /\ w.pc = "dial"
    /\ conn' = Append(conn, NewConn(w.peer))
    /\ client' = [client EXCEPT ![w.peer] = Len(conn')]
    /\ Ends(w)
    /\ UNCHANGED <<link, peers, queue, pubs, pushes, lost, count>>

\* initClientConn succeeds ...
Dial(w) ==
    /\ w.pc = "dial"
    /\ conn' = Append(conn, NewConn(w.peer))
    /\ client' = [client EXCEPT ![w.peer] = Len(conn')]
    /\ Becomes(w, [w EXCEPT !.pc = "write", !.tries = @ + 1])
    /\ UNCHANGED <<link, peers, queue, pubs, pushes, lost, count>>

\* ... or fails.
DialFails(w) ==
    /\ w.pc = "dial"
    /\ dialFails < MaxDialFails
    /\ dialFails' = dialFails + 1
    /\ IF w.tries + 1 < RETRY_CNT
       THEN Becomes(w, [w EXCEPT !.tries = @ + 1]) /\ UNCHANGED lost
       ELSE Ends(w) /\ lost' = lost \cup {<<w.msg, w.peer>>}
    /\ UNCHANGED <<conns, queue, pubs, pushes, breaks>>

-----------------------------------------------------------------------------
(* The S2S server                                                          *)

\* Mutant: the message of a peer is forwarded like one of a client.
ReceiveForwards(k) ==
    LET m == Head(conn[k].stream)
        n == Target(conn[k].peer) IN
    /\ conn[k].stream # <<>>
    /\ conn' = [conn EXCEPT ![k].stream = Tail(@)]
    /\ PushToNative(n, m)
    /\ writers' = writers \cup {Writer(m, p) : p \in peers[n]}
    /\ UNCHANGED <<link, client, peers, queue, pubs, lost, count>>

\* processCmd: a string message is pushed to the clients of this node and
\* goes no further.  A binary message comes under the command "vido", which
\* processCmd does not know.
Receive(k) ==
    LET m == Head(conn[k].stream)
        n == Target(conn[k].peer) IN
    /\ conn[k].stream # <<>>
    /\ conn' = [conn EXCEPT ![k].stream = Tail(@)]
    /\ IF m \in StrMsgs THEN PushToNative(n, m) ELSE UNCHANGED pushes
    /\ UNCHANGED <<link, client, peers, queue, pubs, writers, lost, count>>

-----------------------------------------------------------------------------

Publishing ==
    \/ \E n \in Nodes, m \in Msgs : Publish(n, m)
    \/ \E m \in Msgs : Forward(m)
    \/ \E n \in Nodes : WaitMsg(n)

WriterStep(w) == CheckConnected(w) \/ Write(w) \/ Dial(w) \/ DialFails(w)

\* The registry reports the servers it knows, again and again, and every one
\* of them is connected anew.
WatchPeers == \E n, m \in Nodes : ConnectPeer(n, m)

Connections ==
    \/ WatchPeers
    \/ \E k \in DOMAIN conn : Break(k) \/ ReaderError(k) \/ Receive(k)

Next ==
    \/ Publishing
    \/ \E w \in writers : WriterStep(w)
    \/ Connections

Spec == Init /\ [][Next]_vars

\* Runnable goroutines run: publishers, WaitMsg, writers and S2S readers.
FairSpec ==
    /\ Spec
    /\ \A m \in Msgs : WF_vars(Forward(m))
    /\ \A n \in Nodes : WF_vars(WaitMsg(n))
    /\ WF_vars(\E w \in writers : WriterStep(w))
    /\ WF_vars(\E k \in DOMAIN conn : Receive(k))

-----------------------------------------------------------------------------
(* Properties                                                              *)

\* A node pushes a message to its clients at most once: a forwarded message
\* is not forwarded again although the nodes are each other's peers, and a
\* writer that tries again has not written before, also when connections
\* break or peers are announced anew in the middle.
AtMostOncePush == \A n \in Nodes, m \in Msgs : pushes[n][m] <= 1

\* A published string message is, for every peer known when it was
\* published, in the queue, in the hands of a writer, in a connection,
\* pushed by the peer, or lost in a connection that broke or by a writer
\* that has used up its reconnections.  Nothing else drops it.
ForwardsAccountedFor ==
    \A m \in StrMsgs : pub[m] = "queued" => \A p \in to[m] :
        \/ Contains(queue[origin[m]], m)
        \/ \E w \in writers : w.msg = m /\ w.peer = p
        \/ \E k \in DOMAIN conn : conn[k].peer = p /\ Contains(conn[k].stream, m)
        \/ pushes[Target(p)][m] = 1
        \/ <<m, p>> \in lost /\ breaks + dialFails > 0

\* Every node that was a peer when a string message was published pushes it
\* in the end, also if the peer is announced again while the message is on
\* its way, unless a connection breaks.
EveryPeerPushes ==
    \A m \in StrMsgs, n \in Nodes :
        (\E p \in to[m] : Target(p) = n) ~> (pushes[n][m] = 1 \/ breaks > 0)
=============================================================================
