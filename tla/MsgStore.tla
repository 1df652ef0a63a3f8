------------------------------ MODULE MsgStore ------------------------------
(***************************************************************************)
(* The way of a message from sendmsg into the collection msg_log           *)
(* (engine/storage/storage.go, storage_mgo.go, Publish of pubsub.go and    *)
(* the command sendmsg of cmd_interface.go).                               *)
(*                                                                         *)
(* Senders, the connections' reader goroutines, put messages into the      *)
(* channel msgQueue.  The goroutine Serv takes them out, one at a time,    *)
(* and stores each (flush policy "trx") or puts it into the channel        *)
(* writeBuffer (policy "second"), from which the flusher goroutine takes   *)
(* a batch every second.  Only the database survives the process.          *)
(***************************************************************************)
EXTENDS Naturals, Sequences

CONSTANTS
    Senders,      \* connections that send
    Policies,     \* values of MsgFlushPolicy considered: "trx", "second"
    QueueSize,    \* MaxStorageOutstandingMsg, capacity of msgQueue
    BufferSize,   \* MsgStorageWriteBufferSize, capacity of writeBuffer
    MaxMsgId,     \* bound: messages of one sender
    MaxResends,   \* bound: resends in all
    MaxCrashes    \* bound: ends of the process

ASSUME PolicyAssumption == Policies \subseteq {"trx", "second"}
ASSUME SizeAssumption   == QueueSize \in Nat \ {0} /\ BufferSize \in Nat \ {0}
ASSUME BoundAssumption  ==
    MaxMsgId \in Nat /\ MaxResends \in Nat /\ MaxCrashes \in Nat

VARIABLES
    policy,       \* MsgFlushPolicy of this process
    pc,           \* per sender: "idle", "check", "enqueue" or "stuck"
    cur,          \* per sender: the msgId of the command being processed
    sent,         \* per sender: the highest msgId sent so far
    inited,       \* storage.Init has run
    msgQueue,     \* the channel, its contents
    hand,         \* mt of Serv's loop: <<>> or <<m>>
    writeBuffer,  \* the channel, its contents
    cLen,         \* the flusher's batch size, 0 when it waits for the tick
    records,      \* the flusher's batch so far
    msgLog,       \* collection msg_log
    resends,      \* bounded counter
    crashes       \* bounded counter

senders  == <<pc, cur, sent, resends>>
flusher  == <<cLen, records>>
channels == <<msgQueue, hand, writeBuffer>>
vars     == <<senders, inited, channels, flusher, msgLog, policy, crashes>>

\* Of MsgTuple the model keeps what the resend check compares.
Msgs == [uuid : Senders, msgid : 1..MaxMsgId]

MsgOf(s) == [uuid |-> s, msgid |-> cur[s]]

Contains(q, m) == \E i \in 1..Len(q) : q[i] = m

\* Every variable has its type and no channel exceeds its capacity.
TypeOK ==
    /\ policy \in Policies
    /\ pc \in [Senders -> {"idle", "check", "enqueue", "stuck"}]
    /\ cur \in [Senders -> 0..MaxMsgId]
    /\ sent \in [Senders -> 0..MaxMsgId]
    /\ inited \in BOOLEAN
    /\ msgQueue \in Seq(Msgs) /\ Len(msgQueue) =< QueueSize
    /\ hand \in Seq(Msgs) /\ Len(hand) =< 1
    /\ writeBuffer \in Seq(Msgs) /\ Len(writeBuffer) =< BufferSize
    /\ cLen \in 0..BufferSize
    /\ records \in Seq(Msgs) /\ Len(records) =< cLen
    /\ msgLog \in Seq(Msgs)
    /\ resends \in 0..MaxResends
    /\ crashes \in 0..MaxCrashes

\* main accepts connections before it calls storage.Init and starts Serv, so
\* commands may be processed while the channels do not exist yet.
Init ==
    /\ policy \in Policies
    /\ pc = [s \in Senders |-> "idle"]
    /\ cur = [s \in Senders |-> 0]
    /\ sent = [s \in Senders |-> 0]
    /\ inited = FALSE
    /\ msgQueue = <<>>
    /\ hand = <<>>
    /\ writeBuffer = <<>>
    /\ cLen = 0
    /\ records = <<>>
    /\ msgLog = <<>>
    /\ resends = 0
    /\ crashes = 0

-----------------------------------------------------------------------------
(* sendmsg                                                                 *)

\* sendmsg with isResend "N": a new message, to be published.
SendMsg(s) ==
    /\ pc[s] = "idle"
    /\ sent[s] < MaxMsgId
    /\ sent' = [sent EXCEPT ![s] = @ + 1]
    /\ cur' = [cur EXCEPT ![s] = sent[s] + 1]
    /\ pc' = [pc EXCEPT ![s] = "enqueue"]
    /\ UNCHANGED <<inited, channels, flusher, msgLog, resends, policy,
                   crashes>>

\* sendmsg with isResend "Y": the client saw no answer to message k.
ResendMsg(s, k) ==
    /\ pc[s] = "idle"
    /\ k =< sent[s]
    /\ resends < MaxResends
    /\ resends' = resends + 1
    /\ cur' = [cur EXCEPT ![s] = k]
    /\ pc' = [pc EXCEPT ![s] = "check"]
    /\ UNCHANGED <<sent, inited, channels, flusher, msgLog, policy, crashes>>

\* The search of msg_log: a hit is answered at once.
CheckSent(s) ==
    /\ pc[s] = "check"
    /\ pc' = [pc EXCEPT ![s] = IF Contains(msgLog, MsgOf(s))
                               THEN "idle" ELSE "enqueue"]
    /\ UNCHANGED <<cur, sent, inited, channels, flusher, msgLog, resends, policy,
                   crashes>>

\* EnqueueMsg, at the end of Publish.  Sending on a full channel blocks;
\* sending on the nil channel, before Init, blocks for ever.
EnqueueMsg(s) ==
    /\ pc[s] = "enqueue"
    /\ IF inited
       THEN /\ Len(msgQueue) < QueueSize
            /\ msgQueue' = Append(msgQueue, MsgOf(s))
            /\ pc' = [pc EXCEPT ![s] = "idle"]
       ELSE pc' = [pc EXCEPT ![s] = "stuck"] /\ UNCHANGED msgQueue
    /\ UNCHANGED <<cur, sent, inited, hand, writeBuffer, flusher, msgLog,
                   resends, policy,
                   crashes>>

-----------------------------------------------------------------------------
(* storage.Serv: the main loop                                             *)

\* storage.Init and the start of Serv; clients can connect before.
InitStorage ==
    /\ ~inited
    /\ inited' = TRUE
    /\ UNCHANGED <<senders, channels, flusher, msgLog, policy, crashes>>

ServReceive ==
    /\ hand = <<>>
    /\ msgQueue # <<>>
    /\ hand' = <<Head(msgQueue)>>
    /\ msgQueue' = Tail(msgQueue)
    /\ UNCHANGED <<senders, inited, writeBuffer, flusher, msgLog,
                   policy, crashes>>

\* Mutant: a store that may have failed is tried again.
ServStoreAgain ==
    /\ policy = "trx"
    /\ hand # <<>>
    /\ \/ msgLog' = msgLog \o hand
       \/ UNCHANGED msgLog
    /\ hand' \in {hand, <<>>}
    /\ UNCHANGED <<senders, inited, msgQueue, writeBuffer, flusher,
                   policy, crashes>>

\* driver.store; its error is only logged.
ServStore ==
    /\ policy = "trx"
    /\ hand # <<>>
    /\ \/ msgLog' = msgLog \o hand
       \/ UNCHANGED msgLog
    /\ hand' = <<>>
    /\ UNCHANGED <<senders, inited, msgQueue, writeBuffer, flusher,
                   policy, crashes>>

\* writeBuffer <- mt
ServBuffer ==
    /\ policy = "second"
    /\ hand # <<>>
    /\ Len(writeBuffer) < BufferSize
    /\ writeBuffer' = writeBuffer \o hand
    /\ hand' = <<>>
    /\ UNCHANGED <<senders, inited, msgQueue, flusher, msgLog,
                   policy, crashes>>

-----------------------------------------------------------------------------
(* storage.Serv: the flusher of policy "second"                            *)

\* Mutant: the flusher is started for the other policy.
FlushTickOtherPolicy ==
    /\ policy # "second"
    /\ cLen = 0
    /\ writeBuffer # <<>>
    /\ cLen' = Len(writeBuffer)
    /\ UNCHANGED <<senders, inited, channels, records, msgLog, policy, crashes>>

\* Mutant: the flusher waits until the buffer is full.
FlushTickWhenFull ==
    /\ policy = "second"
    /\ cLen = 0
    /\ Len(writeBuffer) = BufferSize
    /\ cLen' = Len(writeBuffer)
    /\ UNCHANGED <<senders, inited, channels, records, msgLog,
                   policy, crashes>>

\* Mutant: the message Serv is about to buffer is counted as well.
FlushTickCountsHand ==
    /\ policy = "second"
    /\ cLen = 0
    /\ writeBuffer # <<>>
    /\ cLen' = Len(writeBuffer \o hand)
    /\ UNCHANGED <<senders, inited, channels, records, msgLog,
                   policy, crashes>>

FlushTick ==
    /\ policy = "second"
    /\ cLen = 0
    /\ writeBuffer # <<>>
    /\ cLen' = Len(writeBuffer)
    /\ UNCHANGED <<senders, inited, channels, records, msgLog,
                   policy, crashes>>

\* Mutant: the loop runs to i <= cLen.
FlushReceiveOneMore ==
    /\ cLen > 0
    /\ Len(records) =< cLen
    /\ writeBuffer # <<>>
    /\ records' = Append(records, Head(writeBuffer))
    /\ writeBuffer' = Tail(writeBuffer)
    /\ UNCHANGED <<senders, inited, msgQueue, hand, cLen, msgLog,
                   policy, crashes>>

FlushReceive ==
    /\ Len(records) < cLen
    /\ writeBuffer # <<>>
    /\ records' = Append(records, Head(writeBuffer))
    /\ writeBuffer' = Tail(writeBuffer)
    /\ UNCHANGED <<senders, inited, msgQueue, hand, cLen, msgLog,
                   policy, crashes>>

\* Mutant: records is not reset after the insertion.
FlushStoreKeepsRecords ==
    /\ cLen > 0
    /\ Len(records) = cLen
    /\ \E n \in 0..cLen : msgLog' = msgLog \o SubSeq(records, 1, n)
    /\ cLen' = 0
    /\ UNCHANGED <<senders, inited, channels, records, policy, crashes>>

\* Mutant: what could not be inserted is put back into the buffer.
FlushStorePutsBack ==
    /\ cLen > 0
    /\ Len(records) = cLen
    /\ \E n \in 0..cLen :
          /\ msgLog' = msgLog \o SubSeq(records, 1, n)
          /\ writeBuffer' = writeBuffer \o SubSeq(records, n + 1, cLen)
    /\ records' = <<>>
    /\ cLen' = 0
    /\ UNCHANGED <<senders, inited, msgQueue, hand, policy, crashes>>

\* driver.storeMulti: one ordered insertion, which may fail after any number
\* of records; the error is only logged.
FlushStore ==
    /\ cLen > 0
    /\ Len(records) = cLen
    /\ \E n \in 0..cLen : msgLog' = msgLog \o SubSeq(records, 1, n)
    /\ records' = <<>>
    /\ cLen' = 0
    /\ UNCHANGED <<senders, inited, channels, policy, crashes>>

-----------------------------------------------------------------------------

\* The process ends, by a failure or by shutdown, which drains no channel,
\* and is started again; clients reconnect.  The configuration is read anew.
Crash ==
    /\ crashes < MaxCrashes
    /\ crashes' = crashes + 1
    /\ policy' \in Policies
    /\ pc' = [s \in Senders |-> "idle"]
    /\ inited' = FALSE
    /\ msgQueue' = <<>>
    /\ hand' = <<>>
    /\ writeBuffer' = <<>>
    /\ cLen' = 0
    /\ records' = <<>>
    /\ UNCHANGED <<cur, sent, msgLog, resends>>

Serv    == ServReceive \/ ServStore \/ ServBuffer
Flusher == FlushTick \/ FlushReceive \/ FlushStore

SenderStep(s) == CheckSent(s) \/ EnqueueMsg(s)

Next ==
    \/ \E s \in Senders :
          \/ SendMsg(s)
          \/ \E k \in 1..MaxMsgId : ResendMsg(s, k)
          \/ SenderStep(s)
    \/ InitStorage
    \/ Serv
    \/ Flusher
    \/ Crash

Spec == Init /\ [][Next]_vars

\* The goroutines run when they can, database calls return and the ticker
\* ticks.  Senders blocked on a full channel are served in turn by the Go
\* runtime; with bounded messages weak fairness suffices.
Fairness ==
    /\ WF_vars(InitStorage)
    /\ WF_vars(Serv)
    /\ WF_vars(Flusher)
    /\ \A s \in Senders : WF_vars(SenderStep(s))

FairSpec == Spec /\ Fairness

-----------------------------------------------------------------------------
(* Properties                                                              *)

\* Accepted messages on their way to the database, the oldest first.
Pending == ((records \o writeBuffer) \o hand) \o msgQueue

Log == INSTANCE MsgLog WITH pending <- Pending, log <- msgLog

\* The pipeline of two channels, two goroutines and a batch is a first-in
\* first-out log: it neither reorders nor duplicates what EnqueueMsg accepts,
\* whatever insertions fail and whenever the process ends.
ImplementsMsgLog == Log!Spec

\* The flusher counts the buffer once and then receives that many messages:
\* they are there, since nobody else receives from writeBuffer, and the
\* branch "Ghost appears" of Serv is dead.
FlusherNeverWaits == cLen - Len(records) =< Len(writeBuffer)

\* A sender's messages are logged in the order of their ids, each once, as
\* long as nothing is resent.
LoggedInSendOrder ==
    resends = 0 =>
        \A i, j \in 1..Len(msgLog) :
            (i < j /\ msgLog[i].uuid = msgLog[j].uuid)
                => msgLog[i].msgid < msgLog[j].msgid

\* A sender whose message meets a full msgQueue gets its answer: Serv and the
\* flusher always make room, also when the database refuses batches.
SendReturns ==
    \A s \in Senders :
        (pc[s] = "enqueue" /\ inited) ~> (pc[s] = "idle")

\* No accepted message stays in the channels: it is handed to the database,
\* or the process ends.
PendingIsHandedOver ==
    \A m \in Msgs : Contains(Pending, m) ~> ~Contains(Pending, m)

\* Claim of the comment "check if this message has been sent" in sendmsg: a
\* resend does not store a message a second time.
AtMostOnceLogged ==
    \A i, j \in 1..Len(msgLog) : msgLog[i] = msgLog[j] => i = j
=============================================================================
