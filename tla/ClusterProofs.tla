--------------------------- MODULE ClusterProofs ---------------------------
(***************************************************************************)
(* Proofs about Cluster, for any number of servers, messages, peers,       *)
(* reconnections and broken connections, and any size of the queue.        *)
(***************************************************************************)
EXTENDS Cluster, SequenceTheorems, TLAPS

\* Where the copy of message m for peer p may be.
Queued(m)  == \E n \in Nodes : \E i \in DOMAIN queue[n] : queue[n][i] = m
Held(m, p) == \E w \in writers : w.msg = m /\ w.peer = p
Sent(m, p) == \E k \in DOMAIN conn : \E i \in DOMAIN conn[k].stream :
                 conn[k].peer = p /\ conn[k].stream[i] = m

\* No Peer is of the node itself, and a node has one Peer per server.
LinkInv ==
    /\ \A p \in PeerIds : link[p][1] # Target(p)
    /\ \A n \in Nodes : \A p, q \in peers[n] : Target(p) = Target(q) => p = q

\* The peers a message goes to are its origin's, one per server.
ToInv ==
    \A m \in Msgs :
        /\ pub[m] = "new" => to[m] = {} /\ \A n \in Nodes : pushes[n][m] = 0
        /\ pub[m] # "new" => origin[m] \in Nodes
        /\ \A p \in to[m] : link[p][1] = origin[m]
        /\ \A p, q \in to[m] : Target(p) = Target(q) => p = q

\* A message is queued once, at its origin.
QueueInv ==
    \A n \in Nodes :
        /\ \A i \in DOMAIN queue[n] :
              pub[queue[n][i]] = "queued" /\ origin[queue[n][i]] = n
        /\ \A i, j \in DOMAIN queue[n] : queue[n][i] = queue[n][j] => i = j

\* The copy of m for p has left the queue.
Under(m, p) == pub[m] = "queued" /\ ~Queued(m) /\ p \in to[m]

\* A copy is in the hands of one writer ...
HeldInv ==
    /\ \A w \in writers : Under(w.msg, w.peer)
    /\ \A w \in writers : w.pc = "dial" => w.tries < RETRY_CNT
    /\ \A v, w \in writers : v.msg = w.msg /\ v.peer = w.peer => v = w

\* ... or once in one connection ...
SentInv ==
    /\ \A m \in Msgs, p \in PeerIds : Sent(m, p) => Under(m, p) /\ ~Held(m, p)
    /\ \A k, l \in DOMAIN conn :
          \A i \in DOMAIN conn[k].stream, j \in DOMAIN conn[l].stream :
             conn[k].stream[i] = conn[l].stream[j] /\ conn[k].peer = conn[l].peer
                => k = l /\ i = j

\* ... or gone, and only then the peer has pushed the message.
Gone(m, p) == Under(m, p) /\ ~Held(m, p) /\ ~Sent(m, p)

PushInv ==
    \A n \in Nodes, m \in Msgs :
        /\ pushes[n][m] <= 1
        /\ pushes[n][m] = 1 =>
              n = origin[m] \/ \E p \in to[m] : Target(p) = n /\ Gone(m, p)

\* A connection is up, and nothing is lost, as long as nothing has failed.
LossInv ==
    /\ \A k \in DOMAIN conn : conn[k].state # "up" => breaks > 0
    /\ lost # {} => breaks + dialFails > 0

\* ForwardsAccountedFor, in these terms.
Accounted(m, p) ==
    Queued(m) \/ Held(m, p) \/ Sent(m, p) \/ pushes[Target(p)][m] = 1 \/ <<m, p>> \in lost

AccountInv ==
    \A m \in StrMsgs : pub[m] = "queued" => \A p \in to[m] : Accounted(m, p)

IInv ==
    /\ TypeOK /\ LinkInv /\ ToInv /\ QueueInv /\ HeldInv /\ SentInv /\ PushInv
    /\ LossInv /\ AccountInv

-----------------------------------------------------------------------------
(* Types                                                                   *)

ConnRecord ==
    [peer : PeerIds, state : {"up", "broken", "closed"}, reader : BOOLEAN,
     stream : Seq(Msgs)]

LEMMA ConnType ==
    ASSUME TypeOK
    PROVE  /\ DOMAIN conn = 1..Len(conn) /\ Len(conn) \in Nat
           /\ DOMAIN link = 1..Len(link) /\ Len(link) \in Nat
           /\ \A k \in DOMAIN conn :
                 /\ conn[k] \in ConnRecord
                 /\ conn[k].peer \in PeerIds /\ conn[k].stream \in Seq(Msgs)
                 /\ DOMAIN conn[k].stream = 1..Len(conn[k].stream)
                 /\ \A i \in DOMAIN conn[k].stream : conn[k].stream[i] \in Msgs
  <1>1. conn \in Seq(ConnRecord) /\ link \in Seq(Nodes \X Nodes)
    BY DEF TypeOK, ConnRecord
  <1>2. /\ DOMAIN conn = 1..Len(conn) /\ Len(conn) \in Nat
        /\ DOMAIN link = 1..Len(link) /\ Len(link) \in Nat
        /\ \A k \in DOMAIN conn : conn[k] \in ConnRecord
    BY <1>1
  <1>3. ASSUME NEW k \in DOMAIN conn
        PROVE  conn[k].peer \in PeerIds /\ conn[k].stream \in Seq(Msgs)
    BY <1>2 DEF ConnRecord
  <1>4. ASSUME NEW k \in DOMAIN conn
        PROVE  /\ DOMAIN conn[k].stream = 1..Len(conn[k].stream)
               /\ \A i \in DOMAIN conn[k].stream : conn[k].stream[i] \in Msgs
    BY <1>3
  <1> QED BY <1>2, <1>3, <1>4

LEMMA PeerType ==
    ASSUME TypeOK, NEW p \in PeerIds
    PROVE  /\ link[p] \in Nodes \X Nodes /\ Target(p) \in Nodes /\ link[p][1] \in Nodes
           /\ client[p] \in DOMAIN conn /\ conn[client[p]].peer = p
  <1>1. link \in Seq(Nodes \X Nodes) /\ p \in DOMAIN link
    BY DEF TypeOK, PeerIds
  <1>2. link[p] \in Nodes \X Nodes
    BY <1>1
  <1>3. link[p][1] \in Nodes /\ link[p][2] \in Nodes
    BY <1>2
  <1> QED BY <1>2, <1>3 DEF TypeOK, Target

LEMMA SentType ==
    ASSUME TypeOK, NEW m, NEW p, Sent(m, p) PROVE m \in Msgs /\ p \in PeerIds
  BY ConnType DEF Sent

LEMMA QueueType ==
    ASSUME TypeOK, NEW n \in Nodes
    PROVE  /\ queue[n] \in Seq(Msgs) /\ Len(queue[n]) \in Nat
           /\ DOMAIN queue[n] = 1..Len(queue[n])
           /\ \A i \in DOMAIN queue[n] : queue[n][i] \in Msgs
  BY DEF TypeOK

WriterRecord ==
    [msg : Msgs, peer : PeerIds, pc : {"check", "write", "dial"},
     tries : 0..RETRY_CNT]

LEMMA WriterType ==
    ASSUME TypeOK, NEW w \in writers
    PROVE  /\ w \in WriterRecord
           /\ w.msg \in Msgs /\ w.peer \in PeerIds /\ w.tries \in 0..RETRY_CNT
  BY DEF TypeOK, WriterRecord

-----------------------------------------------------------------------------
(* The steps that make no copy: copies stay where they are or are lost.    *)

LinksStay == PeerIds \subseteq DOMAIN link' /\ \A p \in PeerIds : link'[p] = link[p]

\* Every writer goes on with the copy of one there was.
WritersStay ==
    /\ \A v \in writers' : \E w \in writers : v.msg = w.msg /\ v.peer = w.peer
    /\ \A v \in writers' : v.pc = "dial" => v.tries < RETRY_CNT
    /\ \A v, w \in writers' : v.msg = w.msg /\ v.peer = w.peer => v = w

\* A connection carries what it did, or nothing.
StreamsStay ==
    \A k \in DOMAIN conn' :
        \/ conn'[k].stream = <<>>
        \/ /\ k \in DOMAIN conn /\ conn'[k].stream = conn[k].stream
           /\ conn'[k].peer = conn[k].peer

\* What a writer or a connection no longer has is lost.
LossStep ==
    /\ lost \subseteq lost'
    /\ \A m \in Msgs, p \in PeerIds :
          /\ Held(m, p) => Held(m, p)' \/ <<m, p>> \in lost'
          /\ Sent(m, p) => Sent(m, p)' \/ <<m, p>> \in lost'

LEMMA StayInv ==
    ASSUME IInv, TypeOK', UNCHANGED <<queue, pub, origin, to, pushes>>,
           LinksStay, WritersStay, StreamsStay, LossStep, LinkInv', LossInv'
    PROVE  IInv'
  <1>1. \A m \in Msgs : to[m] \subseteq PeerIds
    BY DEF IInv, TypeOK
  <1>2. \A p \in PeerIds : Target(p)' = Target(p) /\ link'[p][1] = link[p][1]
    BY DEF LinksStay, Target
  <1>3. ToInv'
    BY <1>1, <1>2 DEF IInv, ToInv
  <1>4. QueueInv'
    BY DEF IInv, QueueInv
  <1>5. \A m, p : Under(m, p)' <=> Under(m, p)
    BY DEF Under, Queued
  <1>6. \A m, p : Held(m, p)' => Held(m, p)
    BY DEF WritersStay, Held
  <1>7. HeldInv'
    BY <1>5 DEF WritersStay, IInv, HeldInv
  <1>8. ASSUME NEW k \in DOMAIN conn', NEW i \in DOMAIN conn'[k].stream
        PROVE  /\ k \in DOMAIN conn /\ conn'[k].stream = conn[k].stream
               /\ conn'[k].peer = conn[k].peer
    BY <1>8 DEF StreamsStay
  <1>9. \A m, p : Sent(m, p)' => Sent(m, p)
    BY <1>8 DEF Sent
  <1>10. SentInv'
    <2>1. ASSUME NEW m, NEW p, Sent(m, p)' PROVE Under(m, p)' /\ ~Held(m, p)'
      BY <1>5, <1>6, <1>9, <2>1, SentType DEF IInv, SentInv
    <2>2. ASSUME NEW k \in DOMAIN conn', NEW l \in DOMAIN conn',
                 NEW i \in DOMAIN conn'[k].stream, NEW j \in DOMAIN conn'[l].stream,
                 conn'[k].stream[i] = conn'[l].stream[j], conn'[k].peer = conn'[l].peer
          PROVE  k = l /\ i = j
      BY <1>8, <2>2 DEF IInv, SentInv
    <2> QED BY <2>1, <2>2 DEF SentInv
  <1>11. PushInv'
    <2>1. \A m, p : Gone(m, p) => Gone(m, p)'
      BY <1>5, <1>6, <1>9 DEF Gone
    <2> QED BY <1>1, <1>2, <2>1 DEF IInv, PushInv
  <1>12. AccountInv'
    <2> SUFFICES ASSUME NEW m \in StrMsgs, pub[m] = "queued", NEW p \in to[m]
                 PROVE  Accounted(m, p)'
      BY DEF AccountInv
    <2>1. m \in Msgs /\ p \in PeerIds /\ Accounted(m, p)
      BY <1>1 DEF Msgs, IInv, AccountInv
    <2>2. Queued(m)' = Queued(m)
      BY DEF Queued
    <2> QED BY <1>2, <2>1, <2>2 DEF Accounted, LossStep
  <1> QED BY <1>3, <1>4, <1>7, <1>10, <1>11, <1>12 DEF IInv

\* No writer changes hands.
LEMMA SameWriters ==
    ASSUME IInv, writers' = writers
    PROVE  WritersStay /\ \A m, p : Held(m, p)' = Held(m, p)
  BY DEF WritersStay, IInv, HeldInv, Held

\* Writer w goes on as v, or ends.
LEMMA WriterGoesOn ==
    ASSUME IInv, NEW w \in writers, NEW v, v.msg = w.msg, v.peer = w.peer,
           v.pc = "dial" => v.tries < RETRY_CNT, Becomes(w, v)
    PROVE  WritersStay /\ \A m, p : Held(m, p)' = Held(m, p)
  BY DEF WritersStay, IInv, HeldInv, Held, Becomes

LEMMA WriterEnds ==
    ASSUME IInv, NEW w \in writers, Ends(w)
    PROVE  /\ WritersStay
           /\ \A m, p : Held(m, p) => Held(m, p)' \/ (m = w.msg /\ p = w.peer)
           /\ ~Held(w.msg, w.peer)'
  BY DEF WritersStay, IInv, HeldInv, Held, Ends

\* An error: another reconnection, or the copy is lost.
LEMMA WriterFails ==
    ASSUME IInv, NEW w \in writers, Failed(w)
    PROVE  /\ WritersStay /\ lost \subseteq lost' /\ lost' \subseteq lost \cup {<<w.msg, w.peer>>}
           /\ \A m, p : Held(m, p) => Held(m, p)' \/ <<m, p>> \in lost'
           /\ writers' \subseteq WriterRecord
  <1>0. w \in WriterRecord
    BY WriterType DEF IInv
  <1>1. CASE w.tries < RETRY_CNT
    <2> DEFINE v == [w EXCEPT !.pc = "dial"]
    <2>1. Becomes(w, v) /\ lost' = lost
      BY <1>1 DEF Failed
    <2>2. /\ v \in WriterRecord
          /\ v.msg = w.msg /\ v.peer = w.peer /\ v.tries < RETRY_CNT
      BY <1>0, <1>1 DEF WriterRecord
    <2> HIDE DEF v
    <2>3. WritersStay /\ \A m, p : Held(m, p)' = Held(m, p)
      BY <2>1, <2>2, WriterGoesOn
    <2> QED BY <2>1, <2>2, <2>3 DEF Becomes, IInv, TypeOK, WriterRecord
  <1>2. CASE ~(w.tries < RETRY_CNT)
    <2>1. Ends(w) /\ lost' = lost \cup {<<w.msg, w.peer>>}
      BY <1>2 DEF Failed
    <2>2. /\ WritersStay
          /\ \A m, p : Held(m, p) => Held(m, p)' \/ (m = w.msg /\ p = w.peer)
      BY <2>1, WriterEnds
    <2> QED BY <2>1, <2>2 DEF Ends, IInv, TypeOK, WriterRecord
  <1> QED BY <1>1, <1>2

\* The connections carry what they did.
LEMMA SameStreams ==
    ASSUME IInv, conn' = conn
    PROVE  StreamsStay /\ \A m, p : Sent(m, p)' = Sent(m, p)
  BY DEF StreamsStay, Sent

LEMMA SameLinks ==
    ASSUME IInv, link' = link, peers' = peers PROVE LinksStay /\ LinkInv'
  BY DEF LinksStay, IInv, LinkInv, PeerIds, Target

LEMMA CheckConnectedInv ==
    ASSUME IInv, NEW w \in writers, CheckConnected(w) PROVE IInv'
  <1>1. /\ w.pc = "check"
        /\ UNCHANGED <<link, client, conn, peers, queue, pub, origin, to,
                       pushes, breaks, dialFails>>
    BY DEF CheckConnected, conns, pubs, count
  <1>2. LinksStay /\ LinkInv' /\ StreamsStay /\ \A m, p : Sent(m, p)' = Sent(m, p)
    BY <1>1, SameLinks, SameStreams
  <1>3. w \in WriterRecord
    BY WriterType DEF IInv
  <1>4. /\ WritersStay
        /\ LossStep
        /\ lost' \subseteq Msgs \X PeerIds
        /\ writers' \subseteq WriterRecord
        /\ LossInv'
    <2>1. CASE conn[client[w.peer]].state # "closed"
      <3> DEFINE v == [w EXCEPT !.pc = "write"]
      <3>1. Becomes(w, v) /\ lost' = lost
        BY <2>1 DEF CheckConnected
      <3>2. /\ v \in WriterRecord
            /\ v.msg = w.msg /\ v.peer = w.peer /\ v.pc # "dial"
        BY <1>3 DEF WriterRecord
      <3> HIDE DEF v
      <3>3. WritersStay /\ \A m, p : Held(m, p)' = Held(m, p)
        BY <3>1, <3>2, WriterGoesOn
      <3> QED BY <1>1, <1>2, <3>1, <3>2, <3>3
              DEF Becomes, IInv, TypeOK, WriterRecord, LossStep, LossInv
    <2>2. CASE conn[client[w.peer]].state = "closed"
      <3>1. Failed(w)
        BY <2>2 DEF CheckConnected
      <3>2. client[w.peer] \in DOMAIN conn
        BY <1>3, PeerType DEF IInv, WriterRecord
      <3>3. breaks > 0
        BY <2>2, <3>2 DEF IInv, LossInv
      <3>4. breaks' + dialFails' > 0
        BY <1>1, <3>3 DEF IInv, TypeOK
      <3>5. /\ WritersStay /\ lost \subseteq lost'
            /\ lost' \subseteq lost \cup {<<w.msg, w.peer>>}
            /\ \A m, p : Held(m, p) => Held(m, p)' \/ <<m, p>> \in lost'
            /\ writers' \subseteq WriterRecord
        BY <3>1, WriterFails
      <3>6. lost' \subseteq Msgs \X PeerIds
        BY <1>3, <3>5 DEF IInv, TypeOK, WriterRecord
      <3>7. LossStep
        BY <1>2, <3>5 DEF LossStep
      <3>8. LossInv'
        BY <1>1, <3>4 DEF IInv, LossInv
      <3> QED BY <3>5, <3>6, <3>7, <3>8
    <2> QED BY <2>1, <2>2
  <1>5. TypeOK'
    BY <1>1, <1>4 DEF IInv, TypeOK, PeerIds, WriterRecord
  <1> QED BY <1>1, <1>2, <1>4, <1>5, StayInv

LEMMA DialFailsInv ==
    ASSUME IInv, NEW w \in writers, DialFails(w) PROVE IInv'
  <1>1. /\ w.pc = "dial" /\ dialFails < MaxDialFails /\ dialFails' = dialFails + 1
        /\ UNCHANGED <<link, client, conn, peers, queue, pub, origin, to,
                       pushes, breaks>>
    BY DEF DialFails, conns, pubs
  <1>2. LinksStay /\ LinkInv' /\ StreamsStay /\ \A m, p : Sent(m, p)' = Sent(m, p)
    BY <1>1, SameLinks, SameStreams
  <1>3. w \in WriterRecord
    BY WriterType DEF IInv
  <1>4. dialFails' \in 0..MaxDialFails /\ breaks' + dialFails' > 0
    BY <1>1, BoundAssumption DEF IInv, TypeOK
  <1>5. LossInv'
    BY <1>1, <1>4 DEF IInv, LossInv
  <1>6. /\ WritersStay /\ LossStep /\ lost' \subseteq Msgs \X PeerIds
        /\ writers' \subseteq WriterRecord
    <2>1. CASE w.tries + 1 < RETRY_CNT
      <3> DEFINE v == [w EXCEPT !.tries = @ + 1]
      <3>1. Becomes(w, v) /\ lost' = lost
        BY <2>1 DEF DialFails
      <3>2. /\ v \in WriterRecord /\ v.msg = w.msg /\ v.peer = w.peer
            /\ v.tries < RETRY_CNT
        BY <1>3, <2>1, BoundAssumption DEF WriterRecord
      <3> HIDE DEF v
      <3>3. WritersStay /\ \A m, p : Held(m, p)' = Held(m, p)
        BY <3>1, <3>2, WriterGoesOn
      <3> QED BY <1>2, <3>1, <3>2, <3>3
              DEF Becomes, IInv, TypeOK, WriterRecord, LossStep
    <2>2. CASE ~(w.tries + 1 < RETRY_CNT)
      <3>1. Ends(w) /\ lost' = lost \cup {<<w.msg, w.peer>>}
        BY <2>2 DEF DialFails
      <3>2. /\ WritersStay
            /\ \A m, p : Held(m, p) => Held(m, p)' \/ (m = w.msg /\ p = w.peer)
        BY <3>1, WriterEnds
      <3>3. LossStep
        BY <1>2, <3>1, <3>2 DEF LossStep
      <3> QED BY <1>3, <3>1, <3>2, <3>3 DEF Ends, IInv, TypeOK, WriterRecord
    <2> QED BY <2>1, <2>2
  <1>7. TypeOK'
    BY <1>1, <1>4, <1>6 DEF IInv, TypeOK, PeerIds, WriterRecord
  <1> QED BY <1>1, <1>2, <1>5, <1>6, <1>7, StayInv

-----------------------------------------------------------------------------
(* Connections                                                             *)

\* One connection is added.
LEMMA ConnAppend ==
    ASSUME IInv, NEW r, conn' = Append(conn, r), r.stream = <<>>, r.state = "up"
    PROVE  /\ StreamsStay /\ \A m, p : Sent(m, p) => Sent(m, p)'
           /\ Len(conn') = Len(conn) + 1 /\ DOMAIN conn' = 1..(Len(conn) + 1)
           /\ \A j \in DOMAIN conn : conn'[j] = conn[j]
           /\ conn'[Len(conn) + 1] = r
           /\ \A j \in DOMAIN conn' :
              conn'[j].state = "up" \/ (j \in DOMAIN conn /\ conn'[j] = conn[j])
  <1>1. DOMAIN conn = 1..Len(conn) /\ Len(conn) \in Nat /\ conn \in Seq(ConnRecord)
    BY ConnType DEF IInv, TypeOK, ConnRecord
  <1>2. /\ Len(conn') = Len(conn) + 1 /\ DOMAIN conn' = 1..(Len(conn) + 1)
        /\ \A j \in DOMAIN conn : conn'[j] = conn[j]
        /\ conn'[Len(conn) + 1] = r
    BY <1>1
  <1>3. \A j \in DOMAIN conn' : j \in DOMAIN conn \/ j = Len(conn) + 1
    BY <1>1, <1>2
  <1>4. DOMAIN conn \subseteq DOMAIN conn'
    BY <1>1, <1>2
  <1>5. StreamsStay
    BY <1>2, <1>3 DEF StreamsStay
  <1>6. \A m, p : Sent(m, p) => Sent(m, p)'
    BY <1>2, <1>4 DEF Sent
  <1>7. \A j \in DOMAIN conn' :
           conn'[j].state = "up" \/ (j \in DOMAIN conn /\ conn'[j] = conn[j])
    BY <1>2, <1>3
  <1> QED BY <1>2, <1>5, <1>6, <1>7

LEMMA DialInv ==
    ASSUME IInv, NEW w \in writers, Dial(w) PROVE IInv'
  <1>1. /\ w.pc = "dial" /\ conn' = Append(conn, NewConn(w.peer))
        /\ client' = [client EXCEPT ![w.peer] = Len(conn')]
        /\ UNCHANGED <<link, peers, queue, pub, origin, to, pushes, lost,
                       breaks, dialFails>>
    BY DEF Dial, pubs, count
  <1>2. w \in WriterRecord /\ w.peer \in PeerIds
    BY WriterType DEF IInv
  <1>3. LinksStay /\ LinkInv'
    BY <1>1, SameLinks
  <1>4. NewConn(w.peer) \in ConnRecord /\ NewConn(w.peer).stream = <<>>
        /\ NewConn(w.peer).state = "up" /\ NewConn(w.peer).peer = w.peer
    BY <1>2 DEF NewConn, ConnRecord
  <1> HIDE DEF NewConn
  <1>5. /\ StreamsStay /\ \A m, p : Sent(m, p) => Sent(m, p)'
        /\ Len(conn') = Len(conn) + 1 /\ DOMAIN conn' = 1..(Len(conn) + 1)
        /\ \A j \in DOMAIN conn : conn'[j] = conn[j]
        /\ conn'[Len(conn) + 1] = NewConn(w.peer)
        /\ \A j \in DOMAIN conn' :
              conn'[j].state = "up" \/ (j \in DOMAIN conn /\ conn'[j] = conn[j])
    BY <1>1, <1>4, ConnAppend
  <1> DEFINE v == [w EXCEPT !.pc = "write", !.tries = @ + 1]
  <1>6. Becomes(w, v)
    BY DEF Dial
  <1>7. v \in WriterRecord /\ v.msg = w.msg /\ v.peer = w.peer /\ v.pc # "dial"
    <2>1. w.tries < RETRY_CNT
      BY <1>1 DEF IInv, HeldInv
    <2>2. w.tries + 1 \in 0..RETRY_CNT
      BY <1>2, <2>1, BoundAssumption DEF WriterRecord
    <2> QED BY <1>2, <2>2 DEF WriterRecord
  <1> HIDE DEF v
  <1>8. WritersStay /\ \A m, p : Held(m, p)' = Held(m, p)
    BY <1>6, <1>7, WriterGoesOn
  <1>9. LossStep
    BY <1>1, <1>5, <1>8 DEF LossStep
  <1>10. LossInv'
    BY <1>1, <1>5 DEF IInv, LossInv
  <1>11. TypeOK'
    <2>1. conn' \in Seq(ConnRecord)
      BY <1>1, <1>4 DEF IInv, TypeOK, ConnRecord
    <2>2. Len(conn) \in Nat /\ DOMAIN conn = 1..Len(conn) /\ DOMAIN link = 1..Len(link)
      BY ConnType DEF IInv
    <2>3. /\ client' \in Seq(Nat) /\ Len(client') = Len(link)
          /\ \A p \in PeerIds : client'[p] = IF p = w.peer THEN Len(conn) + 1 ELSE client[p]
      <3>1. client \in Seq(Nat) /\ Len(client) = Len(link) /\ DOMAIN client = 1..Len(link)
        BY <2>2 DEF IInv, TypeOK
      <3>2. w.peer \in 1..Len(link) /\ Len(conn) + 1 \in Nat
        BY <1>2, <2>2 DEF PeerIds
      <3>3. client' = [client EXCEPT ![w.peer] = Len(conn) + 1]
        BY <1>1, <1>5
      <3>4. client' \in Seq(Nat)
        BY <3>1, <3>2, <3>3
      <3>5. Len(client') = Len(link)
        BY <3>1, <3>2, <3>3
      <3>6. \A p \in PeerIds : client'[p] = IF p = w.peer THEN Len(conn) + 1 ELSE client[p]
        BY <2>2, <3>1, <3>2, <3>3 DEF PeerIds
      <3> QED BY <3>4, <3>5, <3>6
    <2>4. \A p \in PeerIds : client'[p] \in DOMAIN conn' /\ conn'[client'[p]].peer = p
      BY <1>4, <1>5, <2>2, <2>3, PeerType DEF IInv
    <2>5. writers' \subseteq WriterRecord
      BY <1>6, <1>7 DEF Becomes, IInv, TypeOK, WriterRecord
    <2> QED BY <1>1, <2>1, <2>3, <2>4, <2>5
            DEF IInv, TypeOK, PeerIds, WriterRecord, ConnRecord
  <1> QED BY <1>1, <1>3, <1>5, <1>8, <1>9, <1>10, <1>11, StayInv

\* The connections change, each keeping its peer, and the rest of the Router
\* does not.
LEMMA ConnTypeStep ==
    ASSUME TypeOK, UNCHANGED <<link, client, peers, queue, pub, origin, to>>,
           DOMAIN conn' = DOMAIN conn,
           \A j \in DOMAIN conn : conn'[j] \in ConnRecord /\ conn'[j].peer = conn[j].peer,
           conn' = [j \in DOMAIN conn |-> conn'[j]],
           writers' \subseteq WriterRecord, pushes' \in [Nodes -> [Msgs -> Nat]],
           lost' \subseteq Msgs \X PeerIds,
           breaks' \in 0..MaxBreaks, dialFails' \in 0..MaxDialFails
    PROVE  TypeOK'
  <1>1. DOMAIN conn = 1..Len(conn) /\ Len(conn) \in Nat
    BY ConnType
  <1>2. conn' \in [1..Len(conn) -> ConnRecord]
    BY <1>1
  <1>3. conn' \in Seq(ConnRecord)
    BY <1>1, <1>2
  <1>4. \A p \in PeerIds : client[p] \in DOMAIN conn' /\ conn'[client[p]].peer = p
    BY PeerType
  <1> QED BY <1>3, <1>4 DEF TypeOK, PeerIds, WriterRecord, ConnRecord

LEMMA BreakInv ==
    ASSUME IInv, NEW k \in DOMAIN conn, Break(k) PROVE IInv'
  <1>1. /\ breaks < MaxBreaks /\ breaks' = breaks + 1
        /\ conn' = [conn EXCEPT ![k] = [conn[k] EXCEPT !.state = "broken", !.stream = <<>>]]
        /\ lost' = lost \cup {<<m, conn[k].peer>> : m \in ToSet(conn[k].stream)}
        /\ UNCHANGED <<link, client, peers, queue, pub, origin, to, writers,
                       pushes, dialFails>>
    BY DEF Break, pubs
  <1> DEFINE r == [conn[k] EXCEPT !.state = "broken", !.stream = <<>>]
  <1>2. conn[k] \in ConnRecord /\ conn[k].peer \in PeerIds
        /\ \A i \in DOMAIN conn[k].stream : conn[k].stream[i] \in Msgs
    BY ConnType DEF IInv
  <1>3. r \in ConnRecord /\ r.peer = conn[k].peer /\ r.stream = <<>>
    <2>1. <<>> \in Seq(Msgs)
      OBVIOUS
    <2> QED BY <1>2, <2>1 DEF ConnRecord
  <1>4. /\ DOMAIN conn' = DOMAIN conn /\ conn' = [j \in DOMAIN conn |-> conn'[j]]
        /\ \A j \in DOMAIN conn : conn'[j] = IF j = k THEN r ELSE conn[j]
    BY <1>1
  <1> HIDE DEF r
  <1>5. LinksStay /\ LinkInv' /\ WritersStay /\ \A m, p : Held(m, p)' = Held(m, p)
    BY <1>1, SameLinks, SameWriters
  <1>6. StreamsStay
    BY <1>3, <1>4 DEF StreamsStay
  <1>7. \A m : m \in ToSet(conn[k].stream) <=>
                 \E i \in DOMAIN conn[k].stream : conn[k].stream[i] = m
    BY DEF ToSet
  <1>8. LossStep
    <2>1. ASSUME NEW m, NEW p, Sent(m, p) PROVE Sent(m, p)' \/ <<m, p>> \in lost'
      <3>1. PICK l \in DOMAIN conn : \E i \in DOMAIN conn[l].stream :
               conn[l].peer = p /\ conn[l].stream[i] = m
        BY <2>1 DEF Sent
      <3>2. CASE l = k
        BY <1>1, <1>7, <3>1, <3>2
      <3>3. CASE l # k
        BY <1>4, <3>1, <3>3 DEF Sent
      <3> QED BY <3>2, <3>3
    <2> QED BY <1>1, <1>5, <2>1 DEF LossStep
  <1>9. breaks' \in 0..MaxBreaks /\ breaks' > 0 /\ breaks' + dialFails' > 0
    <2>1. breaks \in 0..MaxBreaks /\ dialFails \in 0..MaxDialFails
      BY DEF IInv, TypeOK
    <2> QED BY <1>1, <2>1, BoundAssumption
  <1>10. LossInv'
    BY <1>9 DEF LossInv
  <1>11. TypeOK'
    <2>1. \A j \in DOMAIN conn : conn'[j] \in ConnRecord /\ conn'[j].peer = conn[j].peer
      BY <1>3, <1>4, ConnType DEF IInv
    <2>2. lost' \subseteq Msgs \X PeerIds
      <3>1. \A m \in ToSet(conn[k].stream) : <<m, conn[k].peer>> \in Msgs \X PeerIds
        BY <1>2, <1>7
      <3>2. lost \subseteq Msgs \X PeerIds
        BY DEF IInv, TypeOK
      <3> QED BY <1>1, <3>1, <3>2
    <2>3. /\ writers' \subseteq WriterRecord /\ pushes' \in [Nodes -> [Msgs -> Nat]]
          /\ dialFails' \in 0..MaxDialFails
      BY <1>1 DEF IInv, TypeOK, WriterRecord
    <2> QED BY <1>1, <1>4, <1>9, <2>1, <2>2, <2>3, ConnTypeStep DEF IInv
  <1> QED BY <1>1, <1>5, <1>6, <1>8, <1>10, <1>11, StayInv

LEMMA ReaderErrorInv ==
    ASSUME IInv, NEW k \in DOMAIN conn, ReaderError(k) PROVE IInv'
  <1> DEFINE c == client[conn[k].peer]
             h == [conn[k] EXCEPT !.reader = FALSE]
             g == [conn EXCEPT ![k] = h]
  <1>1. /\ conn[k].state # "up"
        /\ conn' = [g EXCEPT ![c] = [g[c] EXCEPT !.state = "closed"]]
        /\ UNCHANGED <<link, client, peers, queue, pub, origin, to, writers,
                       pushes, lost,
                       breaks, dialFails>>
    BY DEF ReaderError, pubs, count
  <1>2. conn[k] \in ConnRecord /\ c \in DOMAIN conn
    BY ConnType, PeerType DEF IInv
  <1>3. h \in ConnRecord /\ h.peer = conn[k].peer /\ h.stream = conn[k].stream
        /\ h.state = conn[k].state
    BY <1>2 DEF ConnRecord
  <1> HIDE DEF h, c
  <1>4. /\ DOMAIN g = DOMAIN conn
        /\ \A j \in DOMAIN conn :
              /\ g[j] \in ConnRecord /\ g[j].peer = conn[j].peer
              /\ g[j].stream = conn[j].stream /\ g[j].state = conn[j].state
    BY <1>3, ConnType DEF IInv
  <1> HIDE DEF g
  <1> DEFINE e == [g[c] EXCEPT !.state = "closed"]
  <1>5. e \in ConnRecord /\ e.peer = g[c].peer /\ e.stream = g[c].stream
    BY <1>2, <1>4 DEF ConnRecord
  <1>6. /\ DOMAIN conn' = DOMAIN conn /\ conn' = [j \in DOMAIN conn |-> conn'[j]]
        /\ \A j \in DOMAIN conn : conn'[j] = IF j = c THEN e ELSE g[j]
    BY <1>1, <1>4
  <1> HIDE DEF e
  <1>7. \A j \in DOMAIN conn :
           /\ conn'[j] \in ConnRecord /\ conn'[j].peer = conn[j].peer
           /\ conn'[j].stream = conn[j].stream
    BY <1>2, <1>4, <1>5, <1>6
  <1>8. LinksStay /\ LinkInv' /\ WritersStay /\ \A m, p : Held(m, p)' = Held(m, p)
    BY <1>1, SameLinks, SameWriters
  <1>9. StreamsStay
    BY <1>6, <1>7 DEF StreamsStay
  <1>10. LossStep
    <2>1. \A m, p : Sent(m, p)' = Sent(m, p)
      BY <1>6, <1>7 DEF Sent
    <2> QED BY <1>1, <1>8, <2>1 DEF LossStep
  <1>11. LossInv'
    BY <1>1 DEF IInv, LossInv
  <1>12. TypeOK'
    <2>1. /\ writers' \subseteq WriterRecord /\ pushes' \in [Nodes -> [Msgs -> Nat]]
          /\ lost' \subseteq Msgs \X PeerIds
          /\ breaks' \in 0..MaxBreaks /\ dialFails' \in 0..MaxDialFails
      BY <1>1 DEF IInv, TypeOK, WriterRecord
    <2> QED BY <1>1, <1>6, <1>7, <2>1, ConnTypeStep DEF IInv
  <1> QED BY <1>1, <1>8, <1>9, <1>10, <1>11, <1>12, StayInv

LEMMA ConnectPeerInv ==
    ASSUME IInv, NEW n \in Nodes, NEW m \in Nodes, ConnectPeer(n, m) PROVE IInv'
  <1>1. PICK q : q = Len(link) + 1
    OBVIOUS
  <1>2. /\ DOMAIN conn = 1..Len(conn) /\ Len(conn) \in Nat
        /\ DOMAIN link = 1..Len(link) /\ Len(link) \in Nat
        /\ link \in Seq(Nodes \X Nodes) /\ conn \in Seq(ConnRecord)
        /\ client \in Seq(Nat) /\ Len(client) = Len(link)
        /\ DOMAIN client = 1..Len(link)
    BY ConnType DEF IInv, TypeOK, ConnRecord
  <1>3. /\ n # m /\ link' = Append(link, <<n, m>>)
        /\ Len(link') = q /\ q \in Nat /\ DOMAIN link' = 1..q
        /\ link' \in Seq(Nodes \X Nodes)
        /\ link'[q] = <<n, m>> /\ \A p \in PeerIds : link'[p] = link[p]
    BY <1>1, <1>2 DEF ConnectPeer, PeerIds
  <1>4. /\ conn' = Append(conn, NewConn(q))
        /\ client' = Append(client, Len(conn'))
        /\ peers' = [peers EXCEPT ![n] = {p \in @ : Target(p) # m} \cup {q}]
        /\ UNCHANGED <<queue, pub, origin, to, writers, pushes, lost, breaks,
                       dialFails>>
    BY <1>3 DEF ConnectPeer, pubs, count
  <1>5. NewConn(q).stream = <<>> /\ NewConn(q).state = "up" /\ NewConn(q).peer = q
        /\ NewConn(q).reader \in BOOLEAN
    BY DEF NewConn
  <1>6. /\ StreamsStay /\ \A x, p : Sent(x, p) => Sent(x, p)'
        /\ Len(conn') = Len(conn) + 1 /\ DOMAIN conn' = 1..(Len(conn) + 1)
        /\ \A j \in DOMAIN conn : conn'[j] = conn[j]
        /\ conn'[Len(conn) + 1] = NewConn(q)
        /\ \A j \in DOMAIN conn' :
              conn'[j].state = "up" \/ (j \in DOMAIN conn /\ conn'[j] = conn[j])
    BY <1>4, <1>5, ConnAppend
  <1>7. PeerIds' = PeerIds \cup {q} /\ q \notin PeerIds
    BY <1>1, <1>2, <1>3 DEF PeerIds
  <1>8. LinksStay
    BY <1>3, <1>7 DEF LinksStay, PeerIds
  <1>9. WritersStay /\ \A x, p : Held(x, p)' = Held(x, p)
    BY <1>4, SameWriters
  <1>10. LossStep
    BY <1>4, <1>6, <1>9 DEF LossStep
  <1>11. LossInv'
    BY <1>4, <1>6 DEF IInv, LossInv
  <1>12. /\ Target(q)' = m /\ link'[q][1] = n
         /\ \A p \in PeerIds : Target(p)' = Target(p) /\ link'[p][1] = link[p][1]
    <2>1. <<n, m>>[1] = n /\ <<n, m>>[2] = m
      OBVIOUS
    <2>2. Target(q)' = m /\ link'[q][1] = n
      BY <1>3, <2>1 DEF Target
    <2>3. \A p \in PeerIds : Target(p)' = Target(p) /\ link'[p][1] = link[p][1]
      BY <1>3 DEF Target
    <2> QED BY <2>2, <2>3
  <1>13. /\ peers' \in [Nodes -> SUBSET (PeerIds \cup {q})]
         /\ peers'[n] = {p \in peers[n] : Target(p) # m} \cup {q}
         /\ \A x \in Nodes \ {n} : peers'[x] = peers[x]
         /\ \A x \in Nodes : peers[x] \subseteq PeerIds
    BY <1>4 DEF IInv, TypeOK
  <1>14. LinkInv'
    <2>1. \A p \in PeerIds' : link'[p][1] # Target(p)'
      BY <1>3, <1>7, <1>12 DEF IInv, LinkInv
    <2>2. ASSUME NEW x \in Nodes, NEW p \in peers'[x], NEW o \in peers'[x],
                 Target(p)' = Target(o)'
          PROVE  p = o
      <3>1. CASE x # n
        BY <1>12, <1>13, <2>2, <3>1 DEF IInv, LinkInv
      <3>2. CASE x = n
        BY <1>12, <1>13, <2>2, <3>2 DEF IInv, LinkInv
      <3> QED BY <3>1, <3>2
    <2> QED BY <2>1, <2>2 DEF LinkInv
  <1>15. TypeOK'
    <2>1. conn' \in Seq(ConnRecord')
      <3>1. NewConn(q) \in ConnRecord'
        BY <1>7 DEF NewConn, ConnRecord
      <3>2. ConnRecord \subseteq ConnRecord'
        BY <1>7 DEF ConnRecord
      <3> QED BY <1>2, <1>4, <3>1, <3>2
    <2>2. client' \in Seq(Nat) /\ Len(client') = Len(link')
          /\ client'[q] = Len(conn) + 1 /\ \A p \in PeerIds : client'[p] = client[p]
      BY <1>1, <1>2, <1>3, <1>4, <1>6 DEF PeerIds
    <2>3. \A p \in PeerIds' : client'[p] \in DOMAIN conn' /\ conn'[client'[p]].peer = p
      <3>1. client'[q] \in DOMAIN conn' /\ conn'[client'[q]].peer = q
        BY <1>2, <1>5, <1>6, <2>2
      <3>2. ASSUME NEW p \in PeerIds
            PROVE  client'[p] \in DOMAIN conn' /\ conn'[client'[p]].peer = p
        <4>1. client[p] \in DOMAIN conn /\ conn[client[p]].peer = p
          BY PeerType DEF IInv
        <4>2. DOMAIN conn \subseteq DOMAIN conn'
          BY <1>2, <1>6
        <4> QED BY <1>6, <2>2, <4>1, <4>2
      <3> QED BY <1>7, <3>1, <3>2
    <2>4. \A x \in Nodes : \A p \in peers'[x] : link'[p][1] = x
      <3>1. \A p \in peers'[n] : link'[p][1] = n
        BY <1>12, <1>13 DEF IInv, TypeOK
      <3>2. \A x \in Nodes \ {n} : \A p \in peers'[x] : link'[p][1] = x
        BY <1>12, <1>13 DEF IInv, TypeOK
      <3> QED BY <3>1, <3>2
    <2>5. to' \in [Msgs -> SUBSET PeerIds'] /\ lost' \subseteq Msgs \X PeerIds'
      BY <1>4, <1>7 DEF IInv, TypeOK
    <2>6. writers' \subseteq WriterRecord'
      BY <1>4, <1>7 DEF IInv, TypeOK, WriterRecord
    <2> QED BY <1>3, <1>4, <1>7, <1>13, <2>1, <2>2, <2>3, <2>4, <2>5, <2>6
        DEF IInv, TypeOK, WriterRecord, ConnRecord
  <1> QED BY <1>4, <1>6, <1>8, <1>9, <1>10, <1>11, <1>14, <1>15, StayInv

-----------------------------------------------------------------------------
(* A copy goes from its writer into the connection, and from there into    *)
(* the clients of the other server.                                        *)

LEMMA WriteSent ==
    ASSUME IInv, NEW w \in writers, NEW k \in DOMAIN conn, conn[k].peer = w.peer,
           conn' = [conn EXCEPT ![k].stream = Append(@, w.msg)], Ends(w),
           UNCHANGED <<link, client, peers, queue, pub, origin, to, pushes, lost,
                       breaks, dialFails>>
    PROVE  IInv'
  <1>1. PICK s, t : s = conn[k].stream /\ t = Append(s, w.msg)
    OBVIOUS
  <1>2. /\ conn[k] \in ConnRecord /\ s \in Seq(Msgs) /\ DOMAIN s = 1..Len(s)
        /\ Len(s) \in Nat /\ w.msg \in Msgs /\ w.peer \in PeerIds
    BY <1>1, ConnType, WriterType DEF IInv
  <1>3. /\ t \in Seq(Msgs) /\ DOMAIN t = 1..(Len(s) + 1)
        /\ t[Len(s) + 1] = w.msg /\ \A i \in DOMAIN s : i \in DOMAIN t /\ t[i] = s[i]
        /\ \A i \in DOMAIN t : i \in DOMAIN s \/ i = Len(s) + 1
        /\ Len(s) + 1 \in DOMAIN t
    BY <1>1, <1>2
  <1>4. /\ DOMAIN conn' = DOMAIN conn /\ conn' = [j \in DOMAIN conn |-> conn'[j]]
        /\ conn'[k] = [conn[k] EXCEPT !.stream = t]
        /\ \A j \in DOMAIN conn : j # k => conn'[j] = conn[j]
    BY <1>1
  <1>5. /\ conn'[k] \in ConnRecord /\ conn'[k].peer = w.peer /\ conn'[k].stream = t
        /\ conn'[k].state = conn[k].state
    BY <1>2, <1>3, <1>4 DEF ConnRecord
  <1>6. /\ LinksStay /\ LinkInv' /\ WritersStay /\ ~Held(w.msg, w.peer)'
        /\ \A m, p : Held(m, p) => Held(m, p)' \/ (m = w.msg /\ p = w.peer)
        /\ \A m, p : Held(m, p)' => Held(m, p)
    BY SameLinks, WriterEnds DEF Held, Ends
  <1>7. Held(w.msg, w.peer) /\ Under(w.msg, w.peer)
    BY DEF Held, IInv, HeldInv
  <1>8. \A m, p : Under(m, p)' <=> Under(m, p)
    BY DEF Under, Queued
  \* Every place in a connection is an old one or the new one.
  <1>9. ASSUME NEW l \in DOMAIN conn, NEW i \in DOMAIN conn'[l].stream
        PROVE  /\ conn'[l].peer = conn[l].peer
               /\ \/ /\ i \in DOMAIN conn[l].stream
                     /\ conn'[l].stream[i] = conn[l].stream[i]
                  \/ /\ l = k /\ i = Len(s) + 1
                     /\ conn'[l].stream[i] = w.msg /\ conn'[l].peer = w.peer
    <2>1. CASE l = k
      BY <1>1, <1>3, <1>5, <2>1
    <2>2. CASE l # k
      BY <1>4, <2>2
    <2> QED BY <2>1, <2>2
  <1>10. ASSUME NEW l \in DOMAIN conn, NEW i \in DOMAIN conn[l].stream
         PROVE  /\ i \in DOMAIN conn'[l].stream /\ conn'[l].peer = conn[l].peer
                /\ conn'[l].stream[i] = conn[l].stream[i]
    <2>1. CASE l = k
      BY <1>1, <1>3, <1>5, <2>1
    <2>2. CASE l # k
      BY <1>4, <2>2
    <2> QED BY <2>1, <2>2
  <1>11. Sent(w.msg, w.peer)'
    BY <1>3, <1>4, <1>5 DEF Sent
  <1>12. \A m, p : Sent(m, p) => Sent(m, p)'
    BY <1>4, <1>10 DEF Sent
  <1>13. \A m, p : Sent(m, p)' => Sent(m, p) \/ (m = w.msg /\ p = w.peer)
    BY <1>4, <1>9 DEF Sent
  <1>14. HeldInv'
    BY <1>6, <1>8 DEF WritersStay, IInv, HeldInv
  <1>15. SentInv'
    <2>1. ASSUME NEW m, NEW p, Sent(m, p)' PROVE Under(m, p)' /\ ~Held(m, p)'
      <3>1. CASE Sent(m, p)
        BY <1>6, <1>8, <3>1, SentType DEF IInv, SentInv
      <3>2. CASE m = w.msg /\ p = w.peer
        BY <1>6, <1>7, <1>8, <3>2
      <3> QED BY <1>13, <2>1, <3>1, <3>2
    <2>2. ASSUME NEW l \in DOMAIN conn', NEW h \in DOMAIN conn',
                 NEW i \in DOMAIN conn'[l].stream, NEW j \in DOMAIN conn'[h].stream,
                 conn'[l].stream[i] = conn'[h].stream[j], conn'[l].peer = conn'[h].peer
          PROVE  l = h /\ i = j
      <3>1. ASSUME NEW x \in DOMAIN conn, NEW y \in DOMAIN conn[x].stream
            PROVE  ~(conn[x].stream[y] = w.msg /\ conn[x].peer = w.peer)
        BY <1>2, <1>7 DEF IInv, SentInv, Sent
      <3>2. \A x, z \in DOMAIN conn :
               \A y \in DOMAIN conn[x].stream, v \in DOMAIN conn[z].stream :
                  conn[x].stream[y] = conn[z].stream[v] /\ conn[x].peer = conn[z].peer
                     => x = z /\ y = v
        BY DEF IInv, SentInv
      <3>3. CASE i \in DOMAIN conn[l].stream /\ conn'[l].stream[i] = conn[l].stream[i]
        BY <1>4, <1>9, <2>2, <3>1, <3>2, <3>3
      <3>4. CASE /\ l = k /\ i = Len(s) + 1
                 /\ conn'[l].stream[i] = w.msg /\ conn'[l].peer = w.peer
        BY <1>4, <1>9, <2>2, <3>1, <3>4
      <3> QED BY <1>4, <1>9, <3>3, <3>4
    <2> QED BY <2>1, <2>2 DEF SentInv
  <1>16. PushInv'
    <2>1. \A m, p : Gone(m, p) => Gone(m, p)'
      BY <1>6, <1>7, <1>8, <1>13 DEF Gone
    <2> QED BY <2>1 DEF IInv, PushInv, Target
  <1>17. AccountInv'
    <2>1. \A m \in Msgs : \A p : Accounted(m, p) => Accounted(m, p)'
      BY <1>6, <1>11, <1>12 DEF Accounted, Queued, Target
    <2> QED BY <2>1 DEF IInv, AccountInv, Msgs
  <1>18. ToInv' /\ QueueInv'
    BY DEF IInv, ToInv, QueueInv, Target
  <1>19. LossInv'
    BY <1>4, <1>5 DEF IInv, LossInv
  <1>20. TypeOK'
    <2>1. \A j \in DOMAIN conn : conn'[j] \in ConnRecord /\ conn'[j].peer = conn[j].peer
      BY <1>4, <1>5, ConnType DEF IInv
    <2>2. /\ writers' \subseteq WriterRecord /\ pushes' \in [Nodes -> [Msgs -> Nat]]
          /\ lost' \subseteq Msgs \X PeerIds
          /\ breaks' \in 0..MaxBreaks /\ dialFails' \in 0..MaxDialFails
      BY DEF IInv, TypeOK, WriterRecord, Ends
    <2> QED BY <1>4, <2>1, <2>2, ConnTypeStep DEF IInv
  <1> QED BY <1>6, <1>14, <1>15, <1>16, <1>17, <1>18, <1>19, <1>20 DEF IInv

LEMMA WriteInv ==
    ASSUME IInv, NEW w \in writers, Write(w) PROVE IInv'
  <1> DEFINE k == client[w.peer]
  <1>1. w \in WriterRecord /\ k \in DOMAIN conn /\ conn[k].peer = w.peer
    BY WriterType, PeerType DEF IInv
  <1>2. UNCHANGED <<link, client, peers, queue, pub, origin, to, pushes, breaks,
                    dialFails>>
    BY DEF Write, pubs, count
  <1>3. CASE /\ conn' = [conn EXCEPT ![k].stream = Append(@, w.msg)]
             /\ Ends(w) /\ lost' = lost
    BY <1>1, <1>2, <1>3, WriteSent
  <1>4. CASE /\ conn[k].state # "up" /\ conn' = conn
             /\ \/ Failed(w)
                \/ lost' = lost \cup {<<w.msg, w.peer>>} /\ Ends(w)
    <2>1. LinksStay /\ LinkInv' /\ StreamsStay /\ \A m, p : Sent(m, p)' = Sent(m, p)
      BY <1>2, <1>4, SameLinks, SameStreams
    <2>2. /\ WritersStay /\ lost \subseteq lost'
          /\ lost' \subseteq lost \cup {<<w.msg, w.peer>>}
          /\ \A m, p : Held(m, p) => Held(m, p)' \/ <<m, p>> \in lost'
          /\ writers' \subseteq WriterRecord
      <3>1. CASE Failed(w)
        BY <3>1, WriterFails
      <3>2. CASE lost' = lost \cup {<<w.msg, w.peer>>} /\ Ends(w)
        <4>1. /\ WritersStay
              /\ \A m, p : Held(m, p) => Held(m, p)' \/ (m = w.msg /\ p = w.peer)
          BY <3>2, WriterEnds
        <4> QED BY <3>2, <4>1 DEF Ends, IInv, TypeOK, WriterRecord
      <3> QED BY <1>4, <3>1, <3>2
    <2>3. LossStep
      BY <2>1, <2>2 DEF LossStep
    <2>4. breaks' > 0 /\ breaks' + dialFails' > 0
      <3>1. breaks > 0
        BY <1>1, <1>4 DEF IInv, LossInv
      <3> QED BY <1>2, <3>1 DEF IInv, TypeOK
    <2>5. LossInv'
      BY <2>4 DEF LossInv
    <2>6. lost' \subseteq Msgs \X PeerIds
      <3>1. <<w.msg, w.peer>> \in Msgs \X PeerIds /\ lost \subseteq Msgs \X PeerIds
        BY WriterType DEF IInv, TypeOK
      <3> QED BY <2>2, <3>1
    <2>7. TypeOK'
      BY <1>2, <1>4, <2>2, <2>6 DEF IInv, TypeOK, PeerIds, WriterRecord
    <2> QED BY <1>2, <2>1, <2>2, <2>3, <2>5, <2>7, StayInv
  <1> QED BY <1>3, <1>4 DEF Write

\* The clients of node n get message m.
LEMMA Pushed ==
    ASSUME TypeOK, NEW n \in Nodes, NEW m \in Msgs, PushToNative(n, m)
    PROVE  /\ pushes' \in [Nodes -> [Msgs -> Nat]]
           /\ pushes'[n][m] = pushes[n][m] + 1
           /\ \A x \in Nodes, y \in Msgs :
                 ~(x = n /\ y = m) => pushes'[x][y] = pushes[x][y]
  <1>1. pushes' = [pushes EXCEPT ![n] = [pushes[n] EXCEPT ![m] = pushes[n][m] + 1]]
    BY DEF PushToNative
  <1>2. pushes[n] \in [Msgs -> Nat] /\ pushes[n][m] + 1 \in Nat
    BY DEF TypeOK
  <1>3. [pushes[n] EXCEPT ![m] = pushes[n][m] + 1] \in [Msgs -> Nat]
    BY <1>2
  <1>4. pushes' \in [Nodes -> [Msgs -> Nat]]
    BY <1>1, <1>3 DEF TypeOK
  <1>5. pushes'[n] = [pushes[n] EXCEPT ![m] = pushes[n][m] + 1]
        /\ \A x \in Nodes : x # n => pushes'[x] = pushes[x]
    BY <1>1 DEF TypeOK
  <1>6. pushes'[n][m] = pushes[n][m] + 1
        /\ \A y \in Msgs : y # m => pushes'[n][y] = pushes[n][y]
    BY <1>2, <1>5
  <1> QED BY <1>4, <1>5, <1>6

LEMMA ReceiveInv ==
    ASSUME IInv, NEW k \in DOMAIN conn, Receive(k) PROVE IInv'
  <1>1. PICK s, t, m, q, n :
          s = conn[k].stream /\ t = Tail(s) /\ m = Head(s) /\ q = conn[k].peer /\ n = Target(q)
    OBVIOUS
  <1>2. /\ s # <<>> /\ conn' = [conn EXCEPT ![k].stream = t]
        /\ IF m \in StrMsgs THEN PushToNative(n, m) ELSE pushes' = pushes
        /\ UNCHANGED <<link, client, peers, queue, pub, origin, to, writers, lost,
                       breaks, dialFails>>
    BY <1>1 DEF Receive, pubs, count
  <1>3. /\ conn[k] \in ConnRecord /\ s \in Seq(Msgs) /\ DOMAIN s = 1..Len(s)
        /\ Len(s) \in Nat /\ q \in PeerIds
    BY <1>1, ConnType DEF IInv
  <1>4. /\ t \in Seq(Msgs) /\ DOMAIN t = 1..(Len(s) - 1) /\ m = s[1] /\ 1 \in DOMAIN s
        /\ \A i \in DOMAIN t : i + 1 \in DOMAIN s /\ t[i] = s[i + 1]
        /\ \A i \in DOMAIN s : i # 1 => i - 1 \in DOMAIN t /\ t[i - 1] = s[i]
    <2>1. s # <<>> /\ s \in Seq(Msgs)
      BY <1>2, <1>3
    <2>2. t \in Seq(Msgs) /\ Len(t) = Len(s) - 1 /\ m = s[1]
      BY <1>1, <2>1
    <2>3. Len(s) > 0
      BY <1>3, <2>1
    <2>4. DOMAIN t = 1..(Len(s) - 1)
      BY <2>2
    <2>5. \A i \in 1..(Len(s) - 1) : t[i] = s[i + 1]
      BY <1>1, <2>1
    <2> QED BY <1>3, <2>2, <2>3, <2>4, <2>5
  <1>5. m \in Msgs /\ n \in Nodes
    BY <1>1, <1>3, <1>4, PeerType DEF IInv
  <1>6. /\ DOMAIN conn' = DOMAIN conn /\ conn' = [j \in DOMAIN conn |-> conn'[j]]
        /\ conn'[k] = [conn[k] EXCEPT !.stream = t]
        /\ \A j \in DOMAIN conn : j # k => conn'[j] = conn[j]
    BY <1>2
  <1>7. /\ conn'[k] \in ConnRecord /\ conn'[k].peer = q /\ conn'[k].stream = t
        /\ conn'[k].state = conn[k].state
    BY <1>1, <1>3, <1>4, <1>6 DEF ConnRecord
  <1>8. /\ LinksStay /\ LinkInv' /\ WritersStay
        /\ \A x, p : Held(x, p)' = Held(x, p)
        /\ \A x, p : Under(x, p)' = Under(x, p)
    BY <1>2, SameLinks, SameWriters DEF Under, Queued
  <1>9. Sent(m, q) /\ Under(m, q) /\ ~Held(m, q)
    <2>1. Sent(m, q)
      BY <1>1, <1>4 DEF Sent
    <2> QED BY <1>3, <1>5, <2>1 DEF IInv, SentInv
  \* Where a place of a connection was before.
  <1> DEFINE Was(l, i) == IF l = k THEN i + 1 ELSE i
  <1>10. ASSUME NEW l \in DOMAIN conn, NEW i \in DOMAIN conn'[l].stream
         PROVE  /\ conn'[l].peer = conn[l].peer
                /\ Was(l, i) \in DOMAIN conn[l].stream
                /\ conn'[l].stream[i] = conn[l].stream[Was(l, i)]
                /\ ~(l = k /\ Was(l, i) = 1)
                /\ i \in Int
    <2>1. CASE l = k
      <3>1. i \in DOMAIN t /\ i + 1 # 1 /\ i \in Int
        BY <1>3, <1>4, <1>7, <2>1
      <3> QED BY <1>1, <1>4, <1>7, <2>1, <3>1
    <2>2. CASE l # k
      BY <1>6, <2>2, ConnType DEF IInv
    <2> QED BY <2>1, <2>2
  <1>11. \A x, z \in DOMAIN conn :
            \A y \in DOMAIN conn[x].stream, v \in DOMAIN conn[z].stream :
               conn[x].stream[y] = conn[z].stream[v] /\ conn[x].peer = conn[z].peer
                  => x = z /\ y = v
    BY DEF IInv, SentInv
  <1>12. \A x, p : Sent(x, p)' => Sent(x, p)
    BY <1>6, <1>10 DEF Sent
  <1>13. ~Sent(m, q)'
    <2> SUFFICES ASSUME NEW l \in DOMAIN conn, NEW i \in DOMAIN conn'[l].stream,
                        conn'[l].peer = q, conn'[l].stream[i] = m
                 PROVE  FALSE
      BY <1>6 DEF Sent
    <2> QED BY <1>1, <1>4, <1>10, <1>11
  <1>14. ASSUME NEW x, NEW p, Sent(x, p), ~(x = m /\ p = q) PROVE Sent(x, p)'
    <2>1. PICK l \in DOMAIN conn : \E i \in DOMAIN conn[l].stream :
             conn[l].peer = p /\ conn[l].stream[i] = x
      BY <1>14 DEF Sent
    <2>2. PICK i \in DOMAIN conn[l].stream : conn[l].peer = p /\ conn[l].stream[i] = x
      BY <2>1
    <2>3. CASE l = k
      <3>1. i # 1 /\ i \in DOMAIN s
        BY <1>1, <1>4, <1>14, <2>2, <2>3
      <3>2. i - 1 \in DOMAIN t /\ t[i - 1] = x
        BY <1>1, <1>4, <2>2, <2>3, <3>1
      <3>3. \E j \in DOMAIN conn'[k].stream :
               conn'[k].peer = p /\ conn'[k].stream[j] = x
        BY <1>1, <1>7, <2>2, <2>3, <3>2
      <3> QED BY <1>6, <3>3 DEF Sent
    <2>4. CASE l # k
      BY <1>6, <2>2, <2>4 DEF Sent
    <2> QED BY <2>3, <2>4
  <1>15. HeldInv'
    BY <1>8 DEF WritersStay, IInv, HeldInv
  <1>16. SentInv'
    <2>1. ASSUME NEW x, NEW p, Sent(x, p)' PROVE Under(x, p)' /\ ~Held(x, p)'
      BY <1>8, <1>12, <2>1, SentType DEF IInv, SentInv
    <2>2. ASSUME NEW l \in DOMAIN conn', NEW h \in DOMAIN conn',
                 NEW i \in DOMAIN conn'[l].stream, NEW j \in DOMAIN conn'[h].stream,
                 conn'[l].stream[i] = conn'[h].stream[j], conn'[l].peer = conn'[h].peer
          PROVE  l = h /\ i = j
      <3>1. l = h /\ Was(l, i) = Was(h, j)
        BY <1>6, <1>10, <1>11, <2>2
      <3> QED BY <1>6, <1>10, <3>1
    <2> QED BY <2>1, <2>2 DEF SentInv
  <1>17. pushes[n][m] = 0 /\ pub[m] # "new"
    <2>1. pushes[n][m] \in Nat /\ pushes[n][m] <= 1
      BY <1>5 DEF IInv, TypeOK, PushInv
    <2>2. /\ pub[m] # "new" /\ n # origin[m]
          /\ \A p \in to[m] : Target(p) = n => p = q
      BY <1>1, <1>3, <1>5, <1>9 DEF Under, IInv, ToInv, LinkInv
    <2>3. \A p \in to[m] : ~(Target(p) = n /\ Gone(m, p))
      BY <1>9, <2>2 DEF Gone
    <2> QED BY <1>5, <2>1, <2>2, <2>3 DEF IInv, PushInv
  <1>18. /\ pushes' \in [Nodes -> [Msgs -> Nat]]
         /\ pushes'[n][m] = IF m \in StrMsgs THEN 1 ELSE 0
         /\ \A x \in Nodes, y \in Msgs :
               ~(x = n /\ y = m) => pushes'[x][y] = pushes[x][y]
    <2>1. CASE m \in StrMsgs
      BY <1>2, <1>5, <1>17, <2>1, Pushed DEF IInv
    <2>2. CASE m \notin StrMsgs
      BY <1>2, <1>17, <2>2 DEF IInv, TypeOK
    <2> QED BY <2>1, <2>2
  <1>19. PushInv'
    <2>1. \A x, p : Gone(x, p) => Gone(x, p)'
      BY <1>8, <1>12 DEF Gone
    <2>2. q \in to[m] /\ Target(q)' = n /\ Gone(m, q)'
      BY <1>1, <1>2, <1>8, <1>9, <1>13 DEF Gone, Under, Target
    <2>3. ASSUME NEW x \in Nodes, NEW y \in Msgs
          PROVE  /\ pushes'[x][y] <= 1
                 /\ pushes'[x][y] = 1 =>
                       x = origin'[y] \/ \E p \in to'[y] : Target(p)' = x /\ Gone(y, p)'
      <3>1. CASE x = n /\ y = m
        BY <1>2, <1>18, <2>2, <3>1
      <3>2. CASE ~(x = n /\ y = m)
        <4>1. pushes'[x][y] = pushes[x][y]
          BY <1>18, <3>2
        <4> QED BY <1>2, <2>1, <4>1 DEF IInv, PushInv, Target
      <3> QED BY <3>1, <3>2
    <2> QED BY <2>3 DEF PushInv
  <1>20. AccountInv'
    <2> SUFFICES ASSUME NEW x \in StrMsgs, pub[x] = "queued", NEW p \in to[x]
                 PROVE  Accounted(x, p)'
      BY <1>2 DEF AccountInv
    <2>1. Accounted(x, p) /\ x \in Msgs /\ p \in PeerIds /\ Target(p) \in Nodes
      BY PeerType DEF IInv, TypeOK, AccountInv, Msgs
    <2>2. Target(p)' = Target(p) /\ Queued(x)' = Queued(x)
      BY <1>2 DEF Target, Queued
    <2>3. CASE x = m /\ p = q
      BY <1>1, <1>18, <2>2, <2>3 DEF Accounted
    <2>4. CASE ~(x = m /\ p = q)
      <3>1. pushes[Target(p)][x] = 1 => pushes'[Target(p)][x] = 1
        BY <1>17, <1>18, <2>1
      <3> QED BY <1>2, <1>8, <1>14, <2>1, <2>2, <2>4, <3>1 DEF Accounted
    <2> QED BY <2>3, <2>4
  <1>21. ToInv'
    <2>1. \A y \in Msgs : pub[y] = "new" => \A x \in Nodes : pushes'[x][y] = 0
      BY <1>17, <1>18 DEF IInv, ToInv
    <2> QED BY <1>2, <2>1 DEF IInv, ToInv, Target
  <1>22. QueueInv' /\ LossInv'
    BY <1>2, <1>6, <1>7 DEF IInv, QueueInv, LossInv
  <1>23. TypeOK'
    <2>1. \A j \in DOMAIN conn : conn'[j] \in ConnRecord /\ conn'[j].peer = conn[j].peer
      BY <1>1, <1>6, <1>7, ConnType DEF IInv
    <2>2. /\ writers' \subseteq WriterRecord /\ lost' \subseteq Msgs \X PeerIds
          /\ breaks' \in 0..MaxBreaks /\ dialFails' \in 0..MaxDialFails
      BY <1>2 DEF IInv, TypeOK, WriterRecord
    <2> QED BY <1>2, <1>6, <1>18, <2>1, <2>2, ConnTypeStep DEF IInv
  <1> QED BY <1>8, <1>15, <1>16, <1>19, <1>20, <1>21, <1>22, <1>23 DEF IInv

-----------------------------------------------------------------------------
(* Publishing                                                              *)

LEMMA PublishInv ==
    ASSUME IInv, NEW n \in Nodes, NEW m \in Msgs, Publish(n, m) PROVE IInv'
  <1>1. /\ pub[m] = "new" /\ pub' = [pub EXCEPT ![m] = "blocked"]
        /\ origin' = [origin EXCEPT ![m] = n] /\ to' = [to EXCEPT ![m] = peers[n]]
        /\ PushToNative(n, m)
        /\ UNCHANGED <<link, client, conn, peers, queue, writers, lost, breaks,
                       dialFails>>
    BY DEF Publish, conns, count
  <1>2. /\ pub' \in [Msgs -> {"new", "blocked", "queued"}] /\ pub'[m] = "blocked"
        /\ origin' \in [Msgs -> Nodes \cup {NoNode}] /\ origin'[m] = n
        /\ to' \in [Msgs -> SUBSET PeerIds] /\ to'[m] = peers[n]
        /\ \A x \in Msgs : x # m =>
              pub'[x] = pub[x] /\ origin'[x] = origin[x] /\ to'[x] = to[x]
    BY <1>1 DEF IInv, TypeOK
  <1>3. /\ pushes' \in [Nodes -> [Msgs -> Nat]]
        /\ pushes'[n][m] = 1
        /\ \A x \in Nodes : x # n => pushes'[x][m] = 0
        /\ \A x \in Nodes, y \in Msgs : y # m => pushes'[x][y] = pushes[x][y]
    <2>1. \A x \in Nodes : pushes[x][m] = 0
      BY <1>1 DEF IInv, ToInv
    <2> QED BY <1>1, <2>1, Pushed DEF IInv
  <1>4. TypeOK'
    BY <1>1, <1>2, <1>3 DEF IInv, TypeOK, PeerIds
  <1>5. LinkInv' /\ LossInv'
    BY <1>1 DEF IInv, LinkInv, LossInv, PeerIds, Target
  <1>6. ToInv'
    <2>1. /\ \A p \in peers[n] : link[p][1] = n
          /\ \A p, q \in peers[n] : Target(p) = Target(q) => p = q
      BY DEF IInv, TypeOK, LinkInv
    <2>2. ASSUME NEW y \in Msgs
          PROVE  /\ pub'[y] = "new" => to'[y] = {} /\ \A x \in Nodes : pushes'[x][y] = 0
                 /\ pub'[y] # "new" => origin'[y] \in Nodes
                 /\ \A p \in to'[y] : link'[p][1] = origin'[y]
                 /\ \A p, q \in to'[y] : Target(p)' = Target(q)' => p = q
      <3>1. CASE y = m
        BY <1>1, <1>2, <2>1, <3>1 DEF Target
      <3>2. CASE y # m
        BY <1>1, <1>2, <1>3, <3>2 DEF IInv, ToInv, Target
      <3> QED BY <3>1, <3>2
    <2> QED BY <2>2 DEF ToInv
  <1>7. \A x, p : x \in Msgs => (Under(x, p)' <=> Under(x, p))
    <2>1. \A x : Queued(x)' = Queued(x)
      BY <1>1 DEF Queued
    <2> QED BY <1>1, <1>2, <2>1 DEF Under
  <1>8. \A x, p : Held(x, p)' = Held(x, p) /\ Sent(x, p)' = Sent(x, p)
    BY <1>1 DEF Held, Sent
  <1>9. QueueInv'
    <2>1. \A x \in Nodes : \A i \in DOMAIN queue[x] :
             queue[x][i] \in Msgs /\ queue[x][i] # m
      BY <1>1, QueueType DEF IInv, QueueInv
    <2> QED BY <1>1, <1>2, <2>1 DEF IInv, QueueInv
  <1>10. HeldInv'
    BY <1>1, <1>7, WriterType DEF IInv, HeldInv
  <1>11. SentInv'
    <2>1. PeerIds' = PeerIds
      BY <1>1 DEF PeerIds
    <2> QED BY <1>1, <1>7, <1>8, <2>1 DEF IInv, SentInv
  <1>12. PushInv'
    <2>1. \A x \in Msgs : \A p : Gone(x, p)' <=> Gone(x, p)
      BY <1>7, <1>8 DEF Gone
    <2>2. ASSUME NEW x \in Nodes, NEW y \in Msgs
          PROVE  /\ pushes'[x][y] <= 1
                 /\ pushes'[x][y] = 1 =>
                       x = origin'[y] \/ \E p \in to'[y] : Target(p)' = x /\ Gone(y, p)'
      <3>1. CASE y = m
        BY <1>2, <1>3, <3>1
      <3>2. CASE y # m
        BY <1>1, <1>2, <1>3, <2>1, <3>2 DEF IInv, PushInv, Target
      <3> QED BY <3>1, <3>2
    <2> QED BY <2>2 DEF PushInv
  <1>13. AccountInv'
    <2> SUFFICES ASSUME NEW x \in StrMsgs, pub'[x] = "queued", NEW p \in to'[x]
                 PROVE  Accounted(x, p)'
      BY DEF AccountInv
    <2>1. x # m /\ x \in Msgs
      BY <1>2 DEF Msgs
    <2>2. p \in to[x] /\ p \in PeerIds /\ Accounted(x, p) /\ Target(p) \in Nodes
      BY <1>2, <2>1, PeerType DEF IInv, TypeOK, AccountInv
    <2>3. Target(p)' = Target(p) /\ Queued(x)' = Queued(x)
      BY <1>1 DEF Target, Queued
    <2>4. pushes'[Target(p)][x] = pushes[Target(p)][x]
      BY <1>3, <2>1, <2>2
    <2> QED BY <1>1, <1>8, <2>2, <2>3, <2>4 DEF Accounted
  <1> QED BY <1>4, <1>5, <1>6, <1>9, <1>10, <1>11, <1>12, <1>13 DEF IInv

LEMMA ForwardInv ==
    ASSUME IInv, NEW m \in Msgs, Forward(m) PROVE IInv'
  <1>1. PICK n, s, t : n = origin[m] /\ s = queue[n] /\ t = Append(s, m)
    OBVIOUS
  <1>2. /\ pub[m] = "blocked" /\ Len(s) < QueueSize
        /\ pub' = [pub EXCEPT ![m] = "queued"] /\ queue' = [queue EXCEPT ![n] = t]
        /\ UNCHANGED <<link, client, conn, peers, origin, to, writers, pushes,
                       lost, breaks,
                       dialFails>>
    BY <1>1 DEF Forward, conns, count
  <1>3. n \in Nodes
    BY <1>1, <1>2 DEF IInv, ToInv
  <1>4. s \in Seq(Msgs) /\ Len(s) \in Nat /\ DOMAIN s = 1..Len(s)
        /\ \A i \in DOMAIN s : s[i] \in Msgs
    BY <1>1, <1>3, QueueType DEF IInv
  <1>5. /\ t \in Seq(Msgs) /\ Len(t) = Len(s) + 1 /\ DOMAIN t = 1..(Len(s) + 1)
        /\ t[Len(s) + 1] = m /\ \A i \in DOMAIN s : i \in DOMAIN t /\ t[i] = s[i]
        /\ \A i \in DOMAIN t : i \in DOMAIN s \/ i = Len(s) + 1
        /\ Len(s) + 1 \in DOMAIN t
    BY <1>1, <1>4
  <1>6. /\ pub' \in [Msgs -> {"new", "blocked", "queued"}] /\ pub'[m] = "queued"
        /\ \A x \in Msgs : x # m => pub'[x] = pub[x]
    BY <1>2 DEF IInv, TypeOK
  <1>7. /\ queue' \in [Nodes -> Seq(Msgs)] /\ queue'[n] = t
        /\ \A x \in Nodes : x # n => queue'[x] = queue[x]
    BY <1>2, <1>3, <1>5 DEF IInv, TypeOK
  <1>8. TypeOK'
    <2>1. Len(t) <= QueueSize
      BY <1>2, <1>4, <1>5, BoundAssumption
    <2>2. \A x \in Nodes : Len(queue'[x]) <= QueueSize
      BY <1>7, <2>1 DEF IInv, TypeOK
    <2> QED BY <1>2, <1>6, <1>7, <2>2 DEF IInv, TypeOK, PeerIds
  <1>9. LinkInv' /\ LossInv'
    BY <1>2 DEF IInv, LinkInv, LossInv, PeerIds, Target
  <1>10. ToInv'
    BY <1>2, <1>6 DEF IInv, ToInv, Target
  <1>11. \A x \in Nodes : \A i \in DOMAIN queue[x] : queue[x][i] \in Msgs /\ queue[x][i] # m
    BY <1>2, QueueType DEF IInv, QueueInv
  <1>12. QueueInv'
    <2>1. ASSUME NEW x \in Nodes, x # n
          PROVE  /\ \A i \in DOMAIN queue'[x] :
                       pub'[queue'[x][i]] = "queued" /\ origin'[queue'[x][i]] = x
                 /\ \A i, j \in DOMAIN queue'[x] : queue'[x][i] = queue'[x][j] => i = j
      BY <1>2, <1>6, <1>7, <1>11, <2>1 DEF IInv, QueueInv
    <2>2. \A i \in DOMAIN s :
             /\ pub[s[i]] = "queued" /\ origin[s[i]] = n /\ s[i] # m
             /\ \A j \in DOMAIN s : s[i] = s[j] => i = j
      BY <1>1, <1>3, <1>11 DEF IInv, QueueInv
    <2>3. \A i \in DOMAIN t : pub'[t[i]] = "queued" /\ origin'[t[i]] = n
      BY <1>1, <1>2, <1>4, <1>5, <1>6, <2>2
    <2>4. \A i, j \in DOMAIN t : t[i] = t[j] => i = j
      BY <1>5, <2>2
    <2> QED BY <1>7, <2>1, <2>3, <2>4 DEF QueueInv
  <1>13. Queued(m)'
    BY <1>3, <1>5, <1>7 DEF Queued
  <1>14. \A x : x # m => (Queued(x)' <=> Queued(x))
    <2>1. ASSUME NEW x, x # m, Queued(x) PROVE Queued(x)'
      <3>1. PICK y \in Nodes : \E i \in DOMAIN queue[y] : queue[y][i] = x
        BY <2>1 DEF Queued
      <3>2. PICK i \in DOMAIN queue[y] : queue[y][i] = x
        BY <3>1
      <3>3. i \in DOMAIN queue'[y] /\ queue'[y][i] = x
        BY <1>1, <1>5, <1>7, <3>2
      <3> QED BY <3>3 DEF Queued
    <2>2. ASSUME NEW x, x # m, Queued(x)' PROVE Queued(x)
      <3>1. PICK y \in Nodes : \E i \in DOMAIN queue'[y] : queue'[y][i] = x
        BY <2>2 DEF Queued
      <3>2. PICK i \in DOMAIN queue'[y] : queue'[y][i] = x
        BY <3>1
      <3>3. i \in DOMAIN queue[y] /\ queue[y][i] = x
        BY <1>1, <1>5, <1>7, <2>2, <3>2
      <3> QED BY <3>3 DEF Queued
    <2> QED BY <2>1, <2>2
  <1>15. \A x, p : x \in Msgs => (Under(x, p)' <=> Under(x, p))
    BY <1>2, <1>6, <1>13, <1>14 DEF Under
  <1>16. \A x, p : Held(x, p)' = Held(x, p) /\ Sent(x, p)' = Sent(x, p)
    BY <1>2 DEF Held, Sent
  <1>17. HeldInv'
    BY <1>2, <1>15, WriterType DEF IInv, HeldInv
  <1>18. SentInv'
    <2>1. PeerIds' = PeerIds
      BY <1>2 DEF PeerIds
    <2> QED BY <1>2, <1>15, <1>16, <2>1 DEF IInv, SentInv
  <1>19. PushInv'
    <2>1. \A x \in Msgs : \A p : Gone(x, p)' <=> Gone(x, p)
      BY <1>15, <1>16 DEF Gone
    <2> QED BY <1>2, <2>1 DEF IInv, PushInv, Target
  <1>20. AccountInv'
    <2> SUFFICES ASSUME NEW x \in StrMsgs, pub'[x] = "queued", NEW p \in to[x], x # m
                 PROVE  Accounted(x, p)'
      BY <1>2, <1>13 DEF AccountInv, Accounted
    <2>1. Accounted(x, p)
      BY <1>6 DEF IInv, AccountInv, Msgs
    <2> QED BY <1>2, <1>14, <1>16, <2>1 DEF Accounted, Target
  <1> QED BY <1>8, <1>9, <1>10, <1>12, <1>17, <1>18, <1>19, <1>20 DEF IInv

LEMMA WaitMsgInv ==
    ASSUME IInv, NEW n \in Nodes, WaitMsg(n) PROVE IInv'
  <1>1. PICK s, t, m : s = queue[n] /\ t = Tail(s) /\ m = Head(s)
    OBVIOUS
  <1>2. /\ s # <<>> /\ queue' = [queue EXCEPT ![n] = t]
        /\ writers' = writers \cup {Writer(m, p) : p \in to[m]}
        /\ UNCHANGED <<link, client, conn, peers, pub, origin, to, pushes, lost,
                       breaks,
                       dialFails>>
    BY <1>1 DEF WaitMsg, conns, pubs, count
  <1>3. /\ s \in Seq(Msgs) /\ Len(s) \in Nat /\ DOMAIN s = 1..Len(s)
        /\ \A i \in DOMAIN s : s[i] \in Msgs
    BY <1>1, QueueType DEF IInv
  <1>4. /\ t \in Seq(Msgs) /\ Len(t) = Len(s) - 1 /\ DOMAIN t = 1..(Len(s) - 1)
        /\ m = s[1] /\ 1 \in DOMAIN s
        /\ \A i \in DOMAIN t : i + 1 \in DOMAIN s /\ t[i] = s[i + 1] /\ i + 1 # 1 /\ i \in Int
        /\ \A i \in DOMAIN s : i # 1 => i - 1 \in DOMAIN t /\ t[i - 1] = s[i]
    <2>1. t \in Seq(Msgs) /\ Len(t) = Len(s) - 1 /\ m = s[1]
      BY <1>1, <1>2, <1>3
    <2>2. Len(s) > 0
      BY <1>2, <1>3
    <2>3. DOMAIN t = 1..(Len(s) - 1)
      BY <2>1
    <2>4. \A i \in 1..(Len(s) - 1) : t[i] = s[i + 1]
      BY <1>1, <1>2, <1>3
    <2> QED BY <1>3, <2>1, <2>2, <2>3, <2>4
  <1>5. /\ m \in Msgs /\ Queued(m) /\ pub[m] = "queued" /\ origin[m] = n
        /\ to[m] \subseteq PeerIds
    BY <1>1, <1>3, <1>4 DEF Queued, IInv, QueueInv, TypeOK
  <1>6. /\ queue' \in [Nodes -> Seq(Msgs)] /\ queue'[n] = t
        /\ \A x \in Nodes : x # n => queue'[x] = queue[x]
    BY <1>2, <1>4 DEF IInv, TypeOK
  <1>7. ASSUME NEW p
        PROVE  /\ Writer(m, p).msg = m /\ Writer(m, p).peer = p
               /\ Writer(m, p).pc = "check" /\ Writer(m, p).tries = 0
               /\ p \in PeerIds => Writer(m, p) \in WriterRecord
    BY <1>5, BoundAssumption DEF Writer, WriterRecord
  <1>8. TypeOK'
    <2>1. Len(t) <= QueueSize
      BY <1>1, <1>3, <1>4, BoundAssumption DEF IInv, TypeOK
    <2>2. \A x \in Nodes : Len(queue'[x]) <= QueueSize
      BY <1>6, <2>1 DEF IInv, TypeOK
    <2>3. writers' \subseteq WriterRecord
      BY <1>2, <1>5, <1>7 DEF IInv, TypeOK, WriterRecord
    <2> QED BY <1>2, <1>6, <2>2, <2>3 DEF IInv, TypeOK, PeerIds, WriterRecord
  <1>9. LinkInv' /\ LossInv' /\ ToInv'
    BY <1>2 DEF IInv, LinkInv, LossInv, ToInv, PeerIds, Target
  <1>10. \A i \in DOMAIN s :
            /\ pub[s[i]] = "queued" /\ origin[s[i]] = n
            /\ \A j \in DOMAIN s : s[i] = s[j] => i = j
    BY <1>1 DEF IInv, QueueInv
  <1>11. QueueInv'
    <2>1. ASSUME NEW x \in Nodes, x # n
          PROVE  /\ \A i \in DOMAIN queue'[x] :
                       pub'[queue'[x][i]] = "queued" /\ origin'[queue'[x][i]] = x
                 /\ \A i, j \in DOMAIN queue'[x] : queue'[x][i] = queue'[x][j] => i = j
      BY <1>2, <1>6, <2>1 DEF IInv, QueueInv
    <2>2. \A i \in DOMAIN t : pub'[t[i]] = "queued" /\ origin'[t[i]] = n
      BY <1>2, <1>4, <1>10
    <2>3. ASSUME NEW i \in DOMAIN t, NEW j \in DOMAIN t, t[i] = t[j] PROVE i = j
      <3>1. i + 1 = j + 1
        BY <1>4, <1>10, <2>3
      <3> QED BY <1>4, <3>1
    <2> QED BY <1>6, <2>1, <2>2, <2>3 DEF QueueInv
  <1>12. ~Queued(m)'
    <2> SUFFICES ASSUME NEW y \in Nodes, NEW i \in DOMAIN queue'[y], queue'[y][i] = m
                 PROVE  FALSE
      BY DEF Queued
    <2>1. CASE y = n
      BY <1>4, <1>6, <1>10, <2>1
    <2>2. CASE y # n
      BY <1>5, <1>6, <2>2 DEF IInv, QueueInv
    <2> QED BY <2>1, <2>2
  <1>13. \A x : x # m => (Queued(x)' <=> Queued(x))
    <2>1. ASSUME NEW x, x # m, Queued(x) PROVE Queued(x)'
      <3>1. PICK y \in Nodes : \E i \in DOMAIN queue[y] : queue[y][i] = x
        BY <2>1 DEF Queued
      <3>2. PICK i \in DOMAIN queue[y] : queue[y][i] = x
        BY <3>1
      <3>3. \E j \in DOMAIN queue'[y] : queue'[y][j] = x
        <4>1. CASE y = n
          <5>1. i \in DOMAIN s /\ i # 1 /\ s[i] = x
            BY <1>1, <1>4, <2>1, <3>2, <4>1
          <5>2. i - 1 \in DOMAIN t /\ t[i - 1] = x
            BY <1>4, <5>1
          <5> QED BY <1>6, <4>1, <5>2
        <4>2. CASE y # n
          BY <1>6, <3>2, <4>2
        <4> QED BY <4>1, <4>2
      <3> QED BY <3>3 DEF Queued
    <2>2. ASSUME NEW x, x # m, Queued(x)' PROVE Queued(x)
      <3>1. PICK y \in Nodes : \E i \in DOMAIN queue'[y] : queue'[y][i] = x
        BY <2>2 DEF Queued
      <3>2. PICK i \in DOMAIN queue'[y] : queue'[y][i] = x
        BY <3>1
      <3>3. \E j \in DOMAIN queue[y] : queue[y][j] = x
        <4>1. CASE y = n
          <5>1. i \in DOMAIN t /\ t[i] = x
            BY <1>6, <3>2, <4>1
          <5>2. i + 1 \in DOMAIN s /\ s[i + 1] = x
            BY <1>4, <5>1
          <5> QED BY <1>1, <4>1, <5>2
        <4>2. CASE y # n
          BY <1>6, <3>2, <4>2
        <4> QED BY <4>1, <4>2
      <3> QED BY <3>3 DEF Queued
    <2> QED BY <2>1, <2>2
  <1>14. /\ \A p : Under(m, p)' <=> p \in to[m]
         /\ \A p : ~Under(m, p)
         /\ \A x, p : x # m => (Under(x, p)' <=> Under(x, p))
    BY <1>2, <1>5, <1>12, <1>13 DEF Under
  <1>15. \A w \in writers : w.msg # m
    BY <1>14 DEF IInv, HeldInv
  <1>16. \A v \in writers' :
            v \in writers \/ (v.msg = m /\ v.peer \in to[m] /\ v = Writer(m, v.peer))
    BY <1>2, <1>7
  <1>17. /\ \A p \in to[m] : Held(m, p)'
         /\ \A x, p : x # m => (Held(x, p)' <=> Held(x, p))
    <2>1. \A p \in to[m] : Writer(m, p) \in writers'
      BY <1>2
    <2> QED BY <1>2, <1>7, <1>16, <2>1 DEF Held
  <1>18. HeldInv'
    <2>1. ASSUME NEW w \in writers'
          PROVE  Under(w.msg, w.peer)' /\ (w.pc = "dial" => w.tries < RETRY_CNT)
      <3>1. CASE w \in writers
        <4>1. PICK x, p : x = w.msg /\ p = w.peer
          OBVIOUS
        <4>2. Under(x, p) /\ x # m
          BY <1>15, <3>1, <4>1 DEF IInv, HeldInv
        <4>3. Under(x, p)'
          BY <1>14, <4>2
        <4> QED BY <3>1, <4>1, <4>3 DEF IInv, HeldInv
      <3>2. CASE w.msg = m /\ w.peer \in to[m] /\ w = Writer(m, w.peer)
        <4>1. PICK p : p = w.peer
          OBVIOUS
        <4>2. Under(m, p)'
          BY <1>14, <3>2, <4>1
        <4> QED BY <1>7, <3>2, <4>1, <4>2
      <3> QED BY <1>16, <3>1, <3>2
    <2>2. ASSUME NEW v \in writers', NEW w \in writers', v.msg = w.msg, v.peer = w.peer
          PROVE  v = w
      BY <1>15, <1>16, <2>2 DEF IInv, HeldInv
    <2> QED BY <2>1, <2>2 DEF HeldInv
  <1>19. \A x, p : Sent(x, p)' = Sent(x, p)
    BY <1>2 DEF Sent
  <1>20. \A p : ~Sent(m, p)
    BY <1>14, SentType DEF IInv, SentInv
  <1>21. SentInv'
    <2>1. PeerIds' = PeerIds
      BY <1>2 DEF PeerIds
    <2>2. ASSUME NEW x \in Msgs, NEW p \in PeerIds, Sent(x, p)'
          PROVE  Under(x, p)' /\ ~Held(x, p)'
      BY <1>14, <1>17, <1>19, <1>20, <2>2 DEF IInv, SentInv
    <2> QED BY <1>2, <2>1, <2>2 DEF IInv, SentInv
  <1>22. PushInv'
    <2>1. \A x, p : Gone(x, p) => Gone(x, p)'
      BY <1>14, <1>17, <1>19 DEF Gone
    <2> QED BY <1>2, <2>1 DEF IInv, PushInv, Target
  <1>23. AccountInv'
    <2> SUFFICES ASSUME NEW x \in StrMsgs, pub[x] = "queued", NEW p \in to[x], x # m
                 PROVE  Accounted(x, p)'
      BY <1>2, <1>17 DEF AccountInv, Accounted
    <2>1. Accounted(x, p)
      BY DEF IInv, AccountInv
    <2> QED BY <1>2, <1>13, <1>17, <1>19, <2>1 DEF Accounted, Target
  <1> QED BY <1>8, <1>9, <1>11, <1>18, <1>21, <1>22, <1>23 DEF IInv

-----------------------------------------------------------------------------
(* The theorems                                                            *)

LEMMA InitIInv == Init => IInv
  <1> SUFFICES ASSUME Init PROVE IInv
    OBVIOUS
  <1>1. /\ link = <<>> /\ client = <<>> /\ conn = <<>> /\ writers = {} /\ lost = {}
        /\ DOMAIN link = {} /\ DOMAIN conn = {} /\ DOMAIN <<>> = {}
        /\ \A n \in Nodes : queue[n] = <<>> /\ peers[n] = {}
        /\ \A m \in Msgs : pub[m] = "new" /\ to[m] = {}
        /\ \A n \in Nodes, m \in Msgs : pushes[n][m] = 0
    BY DEF Init
  <1>2. TypeOK
    <2>1. /\ pushes \in [Nodes -> [Msgs -> Nat]] /\ pub \in [Msgs -> {"new", "blocked", "queued"}]
          /\ queue \in [Nodes -> Seq(Msgs)] /\ peers \in [Nodes -> SUBSET PeerIds]
          /\ origin \in [Msgs -> Nodes \cup {NoNode}] /\ to \in [Msgs -> SUBSET PeerIds]
          /\ breaks \in 0..MaxBreaks /\ dialFails \in 0..MaxDialFails
      BY BoundAssumption DEF Init
    <2>2. link \in Seq(Nodes \X Nodes) /\ client \in Seq(Nat) /\ Len(client) = Len(link)
          /\ conn \in Seq(ConnRecord)
      BY <1>1
    <2>3. \A n \in Nodes : Len(queue[n]) <= QueueSize
      BY <1>1, BoundAssumption
    <2> QED BY <1>1, <2>1, <2>2, <2>3 DEF TypeOK, PeerIds, ConnRecord
  <1>3. LinkInv /\ ToInv /\ QueueInv
    BY <1>1 DEF LinkInv, ToInv, QueueInv, PeerIds
  <1>4. HeldInv /\ SentInv
    BY <1>1 DEF HeldInv, SentInv, Sent
  <1>5. PushInv /\ LossInv /\ AccountInv
    BY <1>1 DEF PushInv, LossInv, AccountInv, Msgs
  <1> QED BY <1>2, <1>3, <1>4, <1>5 DEF IInv

LEMMA StutterInv ==
    ASSUME IInv, UNCHANGED vars PROVE IInv'
  <1>1. UNCHANGED <<link, client, conn, peers, queue, pub, origin, to, writers,
                    pushes, lost,
                    breaks, dialFails>>
    BY DEF vars, conns, pubs, count
  <1>2. TypeOK'
    BY <1>1 DEF IInv, TypeOK, PeerIds
  <1>3. /\ LinksStay /\ LinkInv' /\ WritersStay /\ StreamsStay
        /\ \A m, p : Held(m, p)' = Held(m, p) /\ Sent(m, p)' = Sent(m, p)
    BY <1>1, SameLinks, SameWriters, SameStreams
  <1>4. LossStep /\ LossInv'
    BY <1>1, <1>3 DEF LossStep, IInv, LossInv
  <1> QED BY <1>1, <1>2, <1>3, <1>4, StayInv

LEMMA NextIInv == IInv /\ [Next]_vars => IInv'
  <1> SUFFICES ASSUME IInv, [Next]_vars PROVE IInv'
    OBVIOUS
  <1>1. CASE Publishing
    BY <1>1, PublishInv, ForwardInv, WaitMsgInv DEF Publishing
  <1>2. ASSUME NEW w \in writers, WriterStep(w) PROVE IInv'
    BY <1>2, CheckConnectedInv, WriteInv, DialInv, DialFailsInv DEF WriterStep
  <1>3. CASE Connections
    BY <1>3, ConnectPeerInv, BreakInv, ReaderErrorInv, ReceiveInv
    DEF Connections, WatchPeers
  <1>4. CASE UNCHANGED vars
    BY <1>4, StutterInv
  <1> QED BY <1>1, <1>2, <1>3, <1>4 DEF Next

\* The inductive invariant of the forwarding: the copy of a message for a peer
\* is in one place.
THEOREM ClusterInvariant == Spec => []IInv
  BY InitIInv, NextIInv, PTL DEF Spec

\* Types: every peer has a connection that was dialled for it.
THEOREM ClusterTypeOK == Spec => []TypeOK
  <1>1. IInv => TypeOK
    BY DEF IInv
  <1> QED BY ClusterInvariant, <1>1, PTL

\* A message is pushed at most once by every server, whatever breaks and is
\* dialled again: a copy is made for each server known to Publish, and one
\* that has been written is never written again.
THEOREM PushedAtMostOnce == Spec => []AtMostOncePush
  <1>1. IInv => AtMostOncePush
    BY DEF IInv, PushInv, AtMostOncePush
  <1> QED BY ClusterInvariant, <1>1, PTL

\* The copies that WaitMsg and WriteFormatMsg handle do not get lost otherwise
\* than with a connection that broke or after the last reconnection.
THEOREM NoForwardVanishes == Spec => []ForwardsAccountedFor
  <1>1. ASSUME IInv, NEW m \in StrMsgs, pub[m] = "queued", NEW p \in to[m]
        PROVE  \/ Contains(queue[origin[m]], m)
               \/ \E w \in writers : w.msg = m /\ w.peer = p
               \/ \E k \in DOMAIN conn : conn[k].peer = p /\ Contains(conn[k].stream, m)
               \/ pushes[Target(p)][m] = 1
               \/ <<m, p>> \in lost /\ breaks + dialFails > 0
    <2>1. Accounted(m, p)
      BY <1>1 DEF IInv, AccountInv
    <2>2. CASE Queued(m)
      <3>1. PICK n \in Nodes : \E i \in DOMAIN queue[n] : queue[n][i] = m
        BY <2>2 DEF Queued
      <3>2. n = origin[m] /\ DOMAIN queue[n] = 1..Len(queue[n])
        BY <1>1, <3>1, QueueType DEF IInv, QueueInv
      <3> QED BY <3>1, <3>2 DEF Contains
    <2>3. CASE Sent(m, p)
      <3>1. PICK k \in DOMAIN conn : \E i \in DOMAIN conn[k].stream :
               conn[k].peer = p /\ conn[k].stream[i] = m
        BY <2>3 DEF Sent
      <3>2. DOMAIN conn[k].stream = 1..Len(conn[k].stream)
        BY <1>1, ConnType DEF IInv
      <3> QED BY <3>1, <3>2 DEF Contains
    <2> QED BY <1>1, <2>1, <2>2, <2>3 DEF Accounted, Held, IInv, LossInv
  <1>2. IInv => ForwardsAccountedFor
    BY <1>1 DEF ForwardsAccountedFor
  <1> QED BY ClusterInvariant, <1>2, PTL
=============================================================================
