--------------------------- MODULE MsgStoreProofs ---------------------------
(***************************************************************************)
(* Proofs about MsgStore, for any number of senders, any capacities of the *)
(* channels and any bounds: the flusher's invariant, and that the pipeline *)
(* implements MsgLog.                                                      *)
(***************************************************************************)
EXTENDS MsgStore, SequenceTheorems, TLAPS

\* Without a flusher, nothing enters its buffer.
NoFlusher ==
    policy = "trx" => writeBuffer = <<>> /\ cLen = 0

\* A sender's command concerns a message it has sent.
CurrentMsg ==
    \A s \in Senders : pc[s] \in {"check", "enqueue"} => cur[s] \in 1..MaxMsgId

IInv == TypeOK /\ NoFlusher /\ CurrentMsg /\ FlusherNeverWaits

-----------------------------------------------------------------------------
(* Facts about sequences.                                                  *)

LEMMA EmptyIffLenZero ==
    ASSUME NEW S, NEW s \in Seq(S), Len(s) = 0 PROVE s = <<>>
  BY EmptySeq

LEMMA Singleton ==
    ASSUME NEW S, NEW e \in S
    PROVE  <<e>> \in Seq(S) /\ Len(<<e>>) = 1 /\ <<e>> # <<>>
  OBVIOUS

(* Concatenation of message sequences is associative.                      *)
LEMMA Assoc ==
    \A s, t, u \in Seq(Msgs) : (s \o t) \o u = s \o (t \o u)
  BY ConcatAssociative

(* Taking the head of t away and putting it at the end of s.               *)
LEMMA HeadMoves ==
    ASSUME NEW S, NEW t \in Seq(S), t # <<>>
    PROVE  <<Head(t)>> \o Tail(t) = t
  <1>1. Head(t) \in S /\ Tail(t) \in Seq(S) /\ Len(Tail(t)) = Len(t) - 1
        /\ \A i \in 1..Len(Tail(t)) : Tail(t)[i] = t[i + 1]
    BY HeadTailProperties
  <1>2. Len(t) \in Nat \ {0}
    BY EmptySeq
  <1>3. <<Head(t)>> \in Seq(S) /\ Len(<<Head(t)>>) = 1 /\ <<Head(t)>>[1] = t[1]
    BY <1>1, <1>2, Singleton
  <1>4. /\ <<Head(t)>> \o Tail(t) \in Seq(S)
        /\ Len(<<Head(t)>> \o Tail(t)) = 1 + Len(Tail(t))
        /\ \A i \in 1..1 + Len(Tail(t)) : (<<Head(t)>> \o Tail(t))[i] =
              IF i <= 1 THEN <<Head(t)>>[i] ELSE Tail(t)[i - 1]
    BY <1>1, <1>3, ConcatProperties
  <1>5. \A i \in 1..Len(t) : (<<Head(t)>> \o Tail(t))[i] = t[i]
    BY <1>1, <1>2, <1>3, <1>4
  <1>6. Len(<<Head(t)>> \o Tail(t)) = Len(t)
    BY <1>1, <1>2, <1>4
  <1> QED BY <1>4, <1>5, <1>6, SeqEqual

(* A prefix of s is a prefix of s \o t, and t is what follows s.           *)
LEMMA SplitConcat ==
    ASSUME NEW S, NEW s \in Seq(S), NEW t \in Seq(S), NEW n \in 0..Len(s)
    PROVE  /\ SubSeq(s \o t, 1, n) = SubSeq(s, 1, n)
           /\ SubSeq(s \o t, Len(s) + 1, Len(s \o t)) = t
  <1>1. /\ Len(s) \in Nat /\ Len(t) \in Nat
        /\ s \o t \in Seq(S) /\ Len(s \o t) = Len(s) + Len(t)
    BY ConcatProperties, LenProperties
  <1>2. SubSeq(s \o t, 1, n) = SubSeq(s, 1, n)
    <2>1. CASE n = 0
      BY <2>1, SubSeqEmpty
    <2>2. CASE n > 0
      BY <1>1, <2>2, SubSeqOfConcat1
    <2> QED BY <2>1, <2>2, <1>1
  <1>3. SubSeq(s \o t, Len(s) + 1, Len(s \o t)) = t
    <2>1. CASE Len(t) = 0
      <3>1. t = <<>>
        BY <2>1, EmptyIffLenZero
      <3>2. SubSeq(s \o t, Len(s) + 1, Len(s \o t)) = <<>>
        BY <1>1, <2>1, SubSeqEmpty
      <3> QED BY <3>1, <3>2
    <2>2. CASE Len(t) > 0
      <3>1. SubSeq(s \o t, Len(s) + 1, Len(s) + Len(t))
               = SubSeq(t, Len(s) + 1 - Len(s), Len(s) + Len(t) - Len(s))
        BY <1>1, <2>2, SubSeqOfConcat2
      <3>2. Len(s) + 1 - Len(s) = 1 /\ Len(s) + Len(t) - Len(s) = Len(t)
        BY <1>1
      <3> QED BY <1>1, <3>1, <3>2, SubSeqFull
    <2> QED BY <1>1, <2>1, <2>2
  <1> QED BY <1>2, <1>3

-----------------------------------------------------------------------------
(* The inductive invariant.                                                *)

LEMMA InitIInv == Init => IInv
  <1> SUFFICES ASSUME Init PROVE IInv
    OBVIOUS
  <1>1. <<>> \in Seq(Msgs) /\ Len(<<>>) = 0
    BY EmptySeq
  <1>2. TypeOK
    <2>1. inited \in BOOLEAN
      BY Zenon DEF Init
    <2>2. /\ pc \in [Senders -> {"idle", "check", "enqueue", "stuck"}]
          /\ cur \in [Senders -> 0..MaxMsgId]
          /\ sent \in [Senders -> 0..MaxMsgId]
          /\ resends \in 0..MaxResends
          /\ crashes \in 0..MaxCrashes
          /\ cLen \in 0..BufferSize
          /\ policy \in Policies
      BY SizeAssumption, BoundAssumption DEF Init
    <2> QED BY <1>1, <2>1, <2>2, SizeAssumption DEF Init, TypeOK
  <1>3. NoFlusher /\ CurrentMsg
    BY DEF Init, NoFlusher, CurrentMsg
  <1>4. FlusherNeverWaits
    BY <1>1 DEF Init, FlusherNeverWaits
  <1> QED BY <1>2, <1>3, <1>4 DEF IInv

LEMMA NextIInv == IInv /\ [Next]_vars => IInv'
  <1> SUFFICES ASSUME IInv, [Next]_vars PROVE IInv'
    OBVIOUS
  <1> USE PolicyAssumption, SizeAssumption, BoundAssumption
      DEF IInv, TypeOK, NoFlusher, CurrentMsg, FlusherNeverWaits, senders,
          flusher, channels
  <1>0. <<>> \in Seq(Msgs) /\ Len(<<>>) = 0
    BY EmptySeq
  <1>1. ASSUME NEW s \in Senders, SendMsg(s) PROVE IInv'
    BY <1>1 DEF SendMsg
  <1>2. ASSUME NEW s \in Senders, NEW k \in 1..MaxMsgId, ResendMsg(s, k)
        PROVE  IInv'
    BY <1>2 DEF ResendMsg
  <1>3. ASSUME NEW s \in Senders, CheckSent(s) PROVE IInv'
    BY <1>3 DEF CheckSent
  <1>4. ASSUME NEW s \in Senders, EnqueueMsg(s) PROVE IInv'
    <2>1. MsgOf(s) \in Msgs
      BY <1>4 DEF EnqueueMsg, MsgOf, Msgs
    <2>2. Append(msgQueue, MsgOf(s)) \in Seq(Msgs)
          /\ Len(Append(msgQueue, MsgOf(s))) = Len(msgQueue) + 1
      BY <2>1, AppendProperties
    <2>3. CASE inited
      <3>0. msgQueue' = Append(msgQueue, MsgOf(s)) /\ Len(msgQueue) < QueueSize
        BY <1>4, <2>3, Zenon DEF EnqueueMsg
      <3>1. msgQueue' \in Seq(Msgs) /\ Len(msgQueue') =< QueueSize
        BY <2>2, <3>0, LenProperties
      <3>2. pc' = [pc EXCEPT ![s] = "idle"]
        BY <1>4, <2>3 DEF EnqueueMsg
      <3> QED BY <1>4, <3>1, <3>2 DEF EnqueueMsg
    <2>4. CASE ~inited
      BY <1>4, <2>4 DEF EnqueueMsg
    <2> QED BY <2>3, <2>4
  <1>5. CASE InitStorage
    BY <1>5 DEF InitStorage
  <1>6. CASE ServReceive
    <2>1. Head(msgQueue) \in Msgs /\ Tail(msgQueue) \in Seq(Msgs)
          /\ Len(Tail(msgQueue)) = Len(msgQueue) - 1
      BY <1>6, HeadTailProperties DEF ServReceive
    <2>2. hand' \in Seq(Msgs) /\ Len(hand') = 1
      BY <1>6, <2>1, Singleton DEF ServReceive
    <2> QED BY <1>6, <2>1, <2>2 DEF ServReceive
  <1>7. CASE ServStore
    <2>1. msgLog \o hand \in Seq(Msgs)
      BY ConcatProperties
    <2>2. msgLog' \in Seq(Msgs)
      BY <1>7, <2>1 DEF ServStore
    <2>3. hand' \in Seq(Msgs) /\ Len(hand') =< 1
      BY <1>0, <1>7 DEF ServStore
    <2> QED BY <1>7, <2>2, <2>3 DEF ServStore
  <1>8. CASE ServBuffer
    <2>1. writeBuffer \o hand \in Seq(Msgs)
          /\ Len(writeBuffer \o hand) = Len(writeBuffer) + Len(hand)
      BY ConcatProperties
    <2> QED BY <1>0, <1>8, <2>1 DEF ServBuffer
  <1>9. CASE FlushTick
    BY <1>9, EmptySeq DEF FlushTick
  <1>10. CASE FlushReceive
    <2>1. Head(writeBuffer) \in Msgs /\ Tail(writeBuffer) \in Seq(Msgs)
          /\ Len(Tail(writeBuffer)) = Len(writeBuffer) - 1
      BY <1>10, HeadTailProperties DEF FlushReceive
    <2>2. records' \in Seq(Msgs) /\ Len(records') = Len(records) + 1
      BY <1>10, <2>1, AppendProperties DEF FlushReceive
    <2> QED BY <1>10, <2>1, <2>2 DEF FlushReceive
  <1>11. CASE FlushStore
    <2>1. PICK n \in 0..cLen : msgLog' = msgLog \o SubSeq(records, 1, n)
      BY <1>11 DEF FlushStore
    <2>2. \A i \in 1..n : records[i] \in Msgs
      BY <1>11, ElementOfSeq DEF FlushStore
    <2>3. SubSeq(records, 1, n) \in Seq(Msgs)
      BY <2>2, SubSeqProperties
    <2>4. msgLog' \in Seq(Msgs)
      BY <2>1, <2>3, ConcatProperties
    <2> QED BY <1>0, <1>11, <2>4 DEF FlushStore
  <1>12. CASE Crash
    <2>1. /\ msgQueue' = <<>> /\ hand' = <<>> /\ writeBuffer' = <<>>
          /\ records' = <<>> /\ cLen' = 0
      BY <1>12 DEF Crash
    <2>2. pc' \in [Senders -> {"idle"}] /\ crashes' \in 0..MaxCrashes
      BY <1>12 DEF Crash
    <2>3. TypeOK'
      <3>1. inited' \in BOOLEAN
        BY <1>12, Zenon DEF Crash
      <3>2. /\ cur' = cur /\ sent' = sent /\ msgLog' = msgLog
            /\ resends' = resends /\ policy' \in Policies
        BY <1>12 DEF Crash
      <3> QED BY <1>0, <2>1, <2>2, <3>1, <3>2
    <2>4. NoFlusher' /\ CurrentMsg'
      BY <2>1, <2>2
    <2>5. FlusherNeverWaits'
      BY <1>0, <2>1
    <2> QED BY <2>3, <2>4, <2>5
  <1>13. CASE UNCHANGED vars
    BY <1>13 DEF vars
  <1> QED
    BY <1>1, <1>2, <1>3, <1>4, <1>5, <1>6, <1>7, <1>8, <1>9, <1>10, <1>11,
       <1>12, <1>13
    DEF Next, SenderStep, Serv, Flusher

(* The channels stay within their capacities and every variable keeps its  *)
(* type, with the flusher never short of messages.                         *)
THEOREM StoreInvariant == Spec => []IInv
  BY InitIInv, NextIInv, PTL DEF Spec

(* The type invariant of MsgStore.                                         *)
THEOREM StoreTypeOK == Spec => []TypeOK
  <1>1. IInv => TypeOK
    BY DEF IInv
  <1> QED BY <1>1, StoreInvariant, PTL

(* The flusher never blocks in the middle of a batch, for any capacities.  *)
THEOREM FlusherIsNeverShort == Spec => []FlusherNeverWaits
  <1>1. IInv => FlusherNeverWaits
    BY DEF IInv
  <1> QED BY <1>1, StoreInvariant, PTL

-----------------------------------------------------------------------------
(* The refinement.  Every step of a goroutine maps to a step of MsgLog or  *)
(* leaves Pending and msgLog as they are.                                  *)

LEMMA InitRefines == Init => Log!Init
  <1> SUFFICES ASSUME Init PROVE Pending = <<>> /\ msgLog = <<>>
    BY DEF Log!Init
  <1>1. <<>> \o <<>> = <<>>
    BY EmptySeq, ConcatEmptySeq
  <1> QED BY <1>1 DEF Init, Pending

LEMMA PendingType ==
    ASSUME IInv
    PROVE  /\ records \in Seq(Msgs) /\ writeBuffer \in Seq(Msgs)
           /\ hand \in Seq(Msgs) /\ msgQueue \in Seq(Msgs)
           /\ records \o writeBuffer \in Seq(Msgs)
           /\ (records \o writeBuffer) \o hand \in Seq(Msgs)
           /\ Pending \in Seq(Msgs) /\ msgLog \in Seq(Msgs)
  <1>1. /\ records \in Seq(Msgs) /\ writeBuffer \in Seq(Msgs)
        /\ hand \in Seq(Msgs) /\ msgQueue \in Seq(Msgs)
    BY DEF IInv, TypeOK
  <1>2. /\ records \o writeBuffer \in Seq(Msgs)
        /\ (records \o writeBuffer) \o hand \in Seq(Msgs)
    BY <1>1, ConcatProperties
  <1> QED BY <1>1, <1>2, ConcatProperties DEF IInv, TypeOK, Pending

LEMMA SenderSteps ==
    ASSUME NEW s \in Senders,
           \/ SendMsg(s) \/ CheckSent(s)
           \/ \E k \in 1..MaxMsgId : ResendMsg(s, k)
    PROVE  Pending' = Pending /\ msgLog' = msgLog
  BY DEF SendMsg, CheckSent, ResendMsg, Pending, channels, flusher

(* What EnqueueMsg puts into msgQueue is accepted.                         *)
LEMMA EnqueueAccepts ==
    ASSUME IInv, NEW s \in Senders, EnqueueMsg(s)
    PROVE  /\ MsgOf(s) \in Msgs
           /\ \/ inited /\ Log!Accept(MsgOf(s))
              \/ Pending' = Pending /\ msgLog' = msgLog
  <1>0. MsgOf(s) \in Msgs
    BY DEF EnqueueMsg, MsgOf, Msgs, IInv, TypeOK, CurrentMsg
  <1>1. CASE inited
    <2>1. /\ msgQueue' = Append(msgQueue, MsgOf(s))
          /\ hand' = hand /\ writeBuffer' = writeBuffer
          /\ records' = records /\ msgLog' = msgLog
      BY <1>1, Zenon DEF EnqueueMsg, flusher
    <2>2. Append(msgQueue, MsgOf(s)) = msgQueue \o <<MsgOf(s)>>
      BY <1>0, PendingType, AppendIsConcat
    <2>3. Append(Pending, MsgOf(s)) = Pending \o <<MsgOf(s)>>
      BY <1>0, PendingType, AppendIsConcat
    <2>4. <<MsgOf(s)>> \in Seq(Msgs)
      BY <1>0, Singleton
    <2>5. ((records \o writeBuffer) \o hand) \o (msgQueue \o <<MsgOf(s)>>)
             = (((records \o writeBuffer) \o hand) \o msgQueue) \o <<MsgOf(s)>>
      <3>1. /\ (records \o writeBuffer) \o hand \in Seq(Msgs)
            /\ msgQueue \in Seq(Msgs)
        BY PendingType
      <3> QED BY <2>4, <3>1, Assoc
    <2>6. Pending' = Append(Pending, MsgOf(s))
      BY <2>1, <2>2, <2>3, <2>5, Zenon DEF Pending
    <2> QED BY <1>0, <1>1, <2>1, <2>6, Zenon DEF Log!Accept
  <1>2. CASE ~inited
    <2>1. UNCHANGED <<msgQueue, hand, writeBuffer, records, msgLog>>
      BY <1>2, Zenon DEF EnqueueMsg, flusher
    <2> QED BY <1>0, <2>1 DEF Pending
  <1> QED BY <1>1, <1>2, Zenon

HandsOver == \E k \in 1..Len(Pending) : \E n \in 0..k : Log!Insert(k, n)

(* What Serv and the flusher take from it is handed over, oldest first.    *)
LEMMA PipelineSteps ==
    ASSUME IInv, InitStorage \/ Serv \/ Flusher \/ Crash
    PROVE  HandsOver \/ Log!Crash \/ (Pending' = Pending /\ msgLog' = msgLog)
  <1>0. /\ records \in Seq(Msgs) /\ writeBuffer \in Seq(Msgs)
        /\ hand \in Seq(Msgs) /\ msgQueue \in Seq(Msgs)
    BY PendingType
  <1>a. /\ records \o writeBuffer \in Seq(Msgs)
        /\ (records \o writeBuffer) \o hand \in Seq(Msgs)
    BY PendingType
  <1>3. CASE InitStorage
    BY <1>3 DEF InitStorage, Pending, channels, flusher
  <1>4. CASE ServReceive
    <2>1. /\ hand = <<>> /\ hand' = <<Head(msgQueue)>> /\ msgQueue' = Tail(msgQueue)
          /\ msgQueue # <<>>
          /\ UNCHANGED <<writeBuffer, records, msgLog>>
      BY <1>4 DEF ServReceive, flusher
    <2>2. Head(msgQueue) \in Msgs /\ Tail(msgQueue) \in Seq(Msgs)
      BY <1>0, <2>1, HeadTailProperties
    <2>3. <<Head(msgQueue)>> \in Seq(Msgs)
      BY <2>2, Singleton
    <2>4. <<Head(msgQueue)>> \o Tail(msgQueue) = msgQueue
      BY <1>0, <2>1, HeadMoves
    <2>5. ((records \o writeBuffer) \o <<Head(msgQueue)>>) \o Tail(msgQueue)
             = (records \o writeBuffer) \o (<<Head(msgQueue)>> \o Tail(msgQueue))
      BY <1>a, <2>2, <2>3, Assoc
    <2>6. (records \o writeBuffer) \o <<>> = records \o writeBuffer
      BY <1>0, ConcatEmptySeq
    <2>7. Pending' = Pending
      BY <2>1, <2>4, <2>5, <2>6, Zenon DEF Pending
    <2> QED BY <2>1, <2>7
  <1>5. CASE ServStore
    <2>1. records = <<>> /\ writeBuffer = <<>>
      <3>1. writeBuffer = <<>> /\ cLen = 0
        BY <1>5 DEF ServStore, IInv, NoFlusher
      <3>2. Len(records) = 0
        BY <3>1, <1>0, LenProperties DEF IInv, TypeOK
      <3> QED BY <1>0, <3>1, <3>2, EmptyIffLenZero
    <2>2. Len(hand) = 1
      <3>1. hand # <<>> /\ Len(hand) =< 1
        BY <1>5 DEF ServStore, IInv, TypeOK
      <3>2. Len(hand) # 0 /\ Len(hand) \in Nat
        BY <1>0, <3>1, EmptyIffLenZero, LenProperties
      <3>3. \A n \in Nat : n # 0 /\ n =< 1 => n = 1
        OBVIOUS
      <3> QED BY <3>1, <3>2, <3>3, Zenon
    <2>3. <<>> \o <<>> = <<>> /\ <<>> \o hand = hand /\ <<>> \o msgQueue = msgQueue
      BY <1>0, ConcatEmptySeq
    <2>4. Pending = hand \o msgQueue
      BY <2>1, <2>3, Zenon DEF Pending
    <2>5. Pending' = msgQueue
      <3>1. /\ hand' = <<>> /\ msgQueue' = msgQueue
            /\ writeBuffer' = writeBuffer /\ records' = records
        BY <1>5 DEF ServStore, flusher
      <3> QED BY <2>1, <2>3, <3>1, Zenon DEF Pending
    <2>6. /\ SubSeq(hand \o msgQueue, 1, 0) = <<>>
          /\ SubSeq(hand \o msgQueue, 1, 1) = hand
          /\ SubSeq(hand \o msgQueue, 1 + 1, Len(hand \o msgQueue)) = msgQueue
      <3>1. SubSeq(hand \o msgQueue, 1, 1) = SubSeq(hand, 1, 1)
            /\ SubSeq(hand \o msgQueue, Len(hand) + 1, Len(hand \o msgQueue)) = msgQueue
        <4>1. 1 \in 0..Len(hand)
          BY <2>2
        <4> QED BY <1>0, <4>1, SplitConcat, Zenon
      <3>2. SubSeq(hand, 1, Len(hand)) = hand
        BY <1>0, SubSeqFull
      <3>3. SubSeq(hand \o msgQueue, 1, 0) = <<>>
        BY SubSeqEmpty
      <3> QED BY <2>2, <3>1, <3>2, <3>3
    <2>7. 1 \in 1..Len(Pending)
      <3>1. Len(hand \o msgQueue) = Len(hand) + Len(msgQueue) /\ Len(msgQueue) \in Nat
        BY <1>0, ConcatProperties, LenProperties
      <3> QED BY <2>2, <2>4, <3>1
    <2>8. CASE msgLog' = msgLog \o hand
      <3>1. Log!Insert(1, 1)
        BY <2>4, <2>5, <2>6, <2>8 DEF Log!Insert
      <3> QED BY <2>7, <3>1 DEF HandsOver
    <2>9. CASE msgLog' = msgLog
      <3>1. msgLog \o <<>> = msgLog
        BY <1>0, ConcatEmptySeq
      <3>2. Log!Insert(1, 0)
        BY <2>4, <2>5, <2>6, <2>9, <3>1 DEF Log!Insert
      <3> QED BY <2>7, <3>2 DEF HandsOver
    <2> QED BY <1>5, <2>8, <2>9 DEF ServStore
  <1>6. CASE ServBuffer
    <2>1. /\ writeBuffer' = writeBuffer \o hand /\ hand' = <<>>
          /\ UNCHANGED <<msgQueue, records, msgLog>>
      BY <1>6 DEF ServBuffer, flusher
    <2>2. writeBuffer \o hand \in Seq(Msgs) /\ records \o (writeBuffer \o hand) \in Seq(Msgs)
      BY <1>0, ConcatProperties
    <2>3. (records \o (writeBuffer \o hand)) \o <<>> = records \o (writeBuffer \o hand)
      BY <2>2, ConcatEmptySeq
    <2>4. (records \o writeBuffer) \o hand = records \o (writeBuffer \o hand)
      BY <1>0, Assoc
    <2>5. Pending' = Pending
      BY <2>1, <2>3, <2>4, Zenon DEF Pending
    <2> QED BY <2>1, <2>5
  <1>7. CASE FlushTick
    BY <1>7 DEF FlushTick, Pending, channels
  <1>8. CASE FlushReceive
    <2>1. /\ records' = Append(records, Head(writeBuffer)) /\ writeBuffer' = Tail(writeBuffer)
          /\ writeBuffer # <<>>
          /\ UNCHANGED <<msgQueue, hand, msgLog>>
      BY <1>8 DEF FlushReceive
    <2>2. Head(writeBuffer) \in Msgs /\ Tail(writeBuffer) \in Seq(Msgs)
      BY <1>0, <2>1, HeadTailProperties
    <2>3. Append(records, Head(writeBuffer)) = records \o <<Head(writeBuffer)>>
      BY <1>0, <2>2, AppendIsConcat
    <2>4. <<Head(writeBuffer)>> \in Seq(Msgs)
      BY <2>2, Singleton
    <2>5. (records \o <<Head(writeBuffer)>>) \o Tail(writeBuffer)
             = records \o (<<Head(writeBuffer)>> \o Tail(writeBuffer))
      BY <1>0, <2>2, <2>4, Assoc
    <2>6. <<Head(writeBuffer)>> \o Tail(writeBuffer) = writeBuffer
      BY <1>0, <2>1, HeadMoves
    <2>7. Pending' = Pending
      BY <2>1, <2>3, <2>5, <2>6, Zenon DEF Pending
    <2> QED BY <2>1, <2>7
  <1>9. CASE FlushStore
    <2> DEFINE T == (writeBuffer \o hand) \o msgQueue
    <2>1. PICK n \in 0..cLen : msgLog' = msgLog \o SubSeq(records, 1, n)
      BY <1>9 DEF FlushStore
    <2>2. /\ cLen = Len(records) /\ cLen \in Nat \ {0}
          /\ records' = <<>>
          /\ UNCHANGED <<msgQueue, hand, writeBuffer>>
      BY <1>9, SizeAssumption DEF FlushStore, channels, IInv, TypeOK
    <2>3. writeBuffer \o hand \in Seq(Msgs) /\ T \in Seq(Msgs)
      BY <1>0, ConcatProperties
    <2>4. Pending = records \o T
      <3>1. (records \o writeBuffer) \o hand = records \o (writeBuffer \o hand)
        BY <1>0, Assoc
      <3>2. (records \o (writeBuffer \o hand)) \o msgQueue
               = records \o ((writeBuffer \o hand) \o msgQueue)
        BY <1>0, <2>3, Assoc
      <3> QED BY <3>1, <3>2, Zenon DEF Pending
    <2>5. Pending' = T
      <3>1. <<>> \o writeBuffer = writeBuffer
        BY <1>0, ConcatEmptySeq
      <3> QED BY <2>2, <3>1, Zenon DEF Pending
    <2>6. /\ SubSeq(records \o T, 1, n) = SubSeq(records, 1, n)
          /\ SubSeq(records \o T, cLen + 1, Len(records \o T)) = T
      <3>1. n \in 0..Len(records)
        BY <2>2
      <3>2. /\ SubSeq(records \o T, 1, n) = SubSeq(records, 1, n)
            /\ SubSeq(records \o T, Len(records) + 1, Len(records \o T)) = T
        BY <1>0, <2>3, <3>1, SplitConcat
      <3> QED BY <2>2, <3>2
    <2>7. cLen \in 1..Len(Pending)
      <3>1. Len(records \o T) = Len(records) + Len(T) /\ Len(T) \in Nat
        BY <1>0, <2>3, ConcatProperties, LenProperties
      <3> QED BY <2>2, <2>4, <3>1
    <2>8. Log!Insert(cLen, n)
      BY <2>1, <2>4, <2>5, <2>6, Zenon DEF Log!Insert
    <2> QED BY <2>7, <2>8 DEF HandsOver
  <1>10. CASE Crash
    <2>1. /\ records' = <<>> /\ writeBuffer' = <<>> /\ hand' = <<>>
          /\ msgQueue' = <<>> /\ msgLog' = msgLog
      BY <1>10 DEF Crash
    <2>2. <<>> \o <<>> = <<>>
      BY <1>0, ConcatEmptySeq
    <2>3. Pending' = <<>>
      BY <2>1, <2>2, Zenon DEF Pending
    <2> QED BY <2>1, <2>3 DEF Log!Crash
  <1> QED
    BY <1>3, <1>4, <1>5, <1>6, <1>7, <1>8, <1>9, <1>10 DEF Serv, Flusher

LEMMA StepRefines ==
    IInv /\ [Next]_vars => [Log!Next]_<<Pending, msgLog>>
  <1> SUFFICES ASSUME IInv, [Next]_vars
               PROVE  Log!Next \/ (Pending' = Pending /\ msgLog' = msgLog)
    OBVIOUS
  <1>1. ASSUME NEW s \in Senders, EnqueueMsg(s)
        PROVE  Log!Next \/ (Pending' = Pending /\ msgLog' = msgLog)
    BY <1>1, EnqueueAccepts DEF Log!Next
  <1>2. CASE InitStorage \/ Serv \/ Flusher \/ Crash
    BY <1>2, PipelineSteps DEF HandsOver, Log!Next
  <1>3. CASE UNCHANGED vars
    BY <1>3 DEF vars, channels, flusher, Pending
  <1> QED BY <1>1, <1>2, <1>3, SenderSteps DEF Next, SenderStep

(* Channels, goroutines and batches together are a first-in first-out log  *)
(* that neither reorders nor duplicates what it accepted.                  *)
THEOREM StoreImplementsMsgLog == Spec => ImplementsMsgLog
  BY InitRefines, StepRefines, StoreInvariant, PTL
  DEF Spec, ImplementsMsgLog, Log!Spec

-----------------------------------------------------------------------------
(* The order.  What is logged and pending is one line of messages, in the  *)
(* order of every sender; a step adds to its end or takes out of it.       *)

Line == msgLog \o Pending

Ordered(q) ==
    \A i, j \in 1..Len(q) :
        (i < j /\ q[i].uuid = q[j].uuid) => q[i].msgid < q[j].msgid

\* The messages of a sender in q have been sent, and come before the one it is
\* about to enqueue.
Sent(q) ==
    \A i \in 1..Len(q) :
        LET s == q[i].uuid IN
        /\ q[i].msgid =< sent[s]
        /\ pc[s] = "enqueue" => q[i].msgid < sent[s]

Newest == \A s \in Senders : pc[s] # "check" /\ (pc[s] = "enqueue" => cur[s] = sent[s])

OrderInv == resends = 0 => Ordered(Line) /\ Sent(Line) /\ Newest

(* The messages of t are messages of q in the same order.                  *)
Thinned(t, q) ==
    \E f \in [1..Len(t) -> 1..Len(q)] :
        \A i, j \in 1..Len(t) : t[i] = q[f[i]] /\ (i < j => f[i] < f[j])

LEMMA ThinnedOrdered ==
    ASSUME NEW t \in Seq(Msgs), NEW q \in Seq(Msgs), Thinned(t, q), Ordered(q)
    PROVE  Ordered(t)
  <1>1. PICK f \in [1..Len(t) -> 1..Len(q)] :
           \A i, j \in 1..Len(t) : t[i] = q[f[i]] /\ (i < j => f[i] < f[j])
    BY DEF Thinned
  <1> SUFFICES ASSUME NEW i \in 1..Len(t), NEW j \in 1..Len(t), i < j,
                      t[i].uuid = t[j].uuid
               PROVE  t[i].msgid < t[j].msgid
    BY DEF Ordered
  <1>2. f[i] \in 1..Len(q) /\ f[j] \in 1..Len(q) /\ f[i] < f[j]
    BY <1>1
  <1>3. t[i] = q[f[i]] /\ t[j] = q[f[j]]
    BY <1>1
  <1>4. q[f[i]].uuid = q[f[j]].uuid
    BY <1>3
  <1>5. q[f[i]].msgid < q[f[j]].msgid
    BY <1>2, <1>4 DEF Ordered
  <1> QED BY <1>3, <1>5

(* Handing over the k oldest of p, n of which are kept, thins the line.    *)
LEMMA InsertThins ==
    ASSUME NEW l \in Seq(Msgs), NEW p \in Seq(Msgs),
           NEW k \in 1..Len(p), NEW n \in 0..k
    PROVE  Thinned((l \o SubSeq(p, 1, n)) \o SubSeq(p, k + 1, Len(p)), l \o p)
  <1> DEFINE a == SubSeq(p, 1, n)
             b == SubSeq(p, k + 1, Len(p))
             t == (l \o a) \o b
             q == l \o p
             f == [i \in 1..Len(t) |->
                     IF i =< Len(l) + n THEN i ELSE i + (k - n)]
  <1>0. Len(l) \in Nat /\ Len(p) \in Nat /\ k \in Nat /\ n \in Nat /\ n =< k
        /\ k =< Len(p)
    BY LenProperties
  <1>1. a \in Seq(Msgs) /\ Len(a) = n /\ \A i \in 1..n : a[i] = p[i]
    <2>1. \A i \in 1..n : p[i] \in Msgs
      BY <1>0, ElementOfSeq
    <2>2. /\ a \in Seq(Msgs)
          /\ Len(a) = IF 1 <= n THEN n - 1 + 1 ELSE 0
          /\ \A i \in 1..n - 1 + 1 : a[i] = p[1 + i - 1]
      BY <1>0, <2>1, SubSeqProperties
    <2> QED BY <1>0, <2>2
  <1>2. b \in Seq(Msgs) /\ Len(b) = Len(p) - k
        /\ \A i \in 1..Len(p) - k : b[i] = p[k + i]
    <2>1. \A i \in k + 1..Len(p) : p[i] \in Msgs
      BY <1>0, ElementOfSeq
    <2>2. /\ b \in Seq(Msgs)
          /\ Len(b) = IF k + 1 <= Len(p) THEN Len(p) - (k + 1) + 1 ELSE 0
          /\ \A i \in 1..Len(p) - (k + 1) + 1 : b[i] = p[k + 1 + i - 1]
      BY <1>0, <2>1, SubSeqProperties
    <2> QED BY <1>0, <2>2
  <1> HIDE DEF a, b
  <1>L. PICK L \in Nat : L = Len(l)
    BY <1>0
  <1>P. PICK P \in Nat : P = Len(p)
    BY <1>0
  <1>b. k \in 1..P /\ n \in 0..k
    BY <1>P
  <1>3. l \o a \in Seq(Msgs) /\ Len(l \o a) = L + n
        /\ \A i \in 1..L + n :
              (l \o a)[i] = IF i <= L THEN l[i] ELSE a[i - L]
    BY <1>1, <1>L, ConcatProperties
  <1>4. t \in Seq(Msgs) /\ Len(t) = (L + n) + (P - k)
        /\ \A i \in 1..(L + n) + (P - k) :
              t[i] = IF i <= L + n THEN (l \o a)[i] ELSE b[i - (L + n)]
    <2>1. /\ t \in Seq(Msgs) /\ Len(t) = Len(l \o a) + Len(b)
          /\ \A i \in 1..Len(l \o a) + Len(b) :
                t[i] = IF i <= Len(l \o a) THEN (l \o a)[i]
                       ELSE b[i - Len(l \o a)]
      BY <1>2, <1>3, ConcatProperties
    <2>2. Len(l \o a) = L + n /\ Len(b) = P - k
      BY <1>2, <1>3, <1>P
    <2> QED BY <2>1, <2>2, Zenon
  <1>5. q \in Seq(Msgs) /\ Len(q) = L + P
        /\ \A i \in 1..L + P :
              q[i] = IF i <= L THEN l[i] ELSE p[i - L]
    BY <1>L, <1>P, ConcatProperties
  <1>6. f \in [1..Len(t) -> 1..Len(q)]
    <2> SUFFICES ASSUME NEW i \in 1..(L + n) + (P - k)
                 PROVE  (IF i =< L + n THEN i ELSE i + (k - n)) \in 1..L + P
      BY <1>4, <1>5, <1>L
    <2> QED BY <1>b
  <1>f. \A i \in 1..(L + n) + (P - k) :
           f[i] = IF i =< L + n THEN i ELSE i + (k - n)
    BY <1>4, <1>L
  <1> HIDE DEF t, q, f
  <1>7. ASSUME NEW i \in 1..(L + n) + (P - k) PROVE t[i] = q[f[i]]
    <2>1. CASE i =< L
      <3>1. i =< L + n /\ i \in 1..L + n /\ i \in 1..L + P
        BY <1>b, <2>1
      <3>2. t[i] = l[i]
        BY <1>3, <1>4, <2>1, <3>1, Zenon
      <3>3. q[i] = l[i] /\ f[i] = i
        BY <1>5, <1>f, <2>1, <3>1, Zenon
      <3> QED BY <3>2, <3>3
    <2>2. CASE ~(i =< L) /\ i =< L + n
      <3>1. i \in 1..L + n /\ i \in 1..L + P /\ i - L \in 1..n
        BY <1>b, <2>2
      <3>2. t[i] = a[i - L]
        BY <1>3, <1>4, <2>2, <3>1, Zenon
      <3>3. q[i] = p[i - L] /\ f[i] = i
        BY <1>5, <1>f, <2>2, <3>1, Zenon
      <3> QED BY <1>1, <3>1, <3>2, <3>3
    <2>3. CASE ~(i =< L + n)
      <3>1. i - (L + n) \in 1..P - k
        BY <1>b, <2>3
      <3>2. t[i] = b[i - (L + n)]
        BY <1>4, <2>3, Zenon
      <3>3. b[i - (L + n)] = p[k + (i - (L + n))]
        BY <1>2, <1>P, <3>1, Zenon
      <3>4. f[i] = i + (k - n)
        BY <1>f, <2>3, Zenon
      <3>5. /\ i + (k - n) \in 1..L + P /\ ~(i + (k - n) =< L)
            /\ (i + (k - n)) - L = k + (i - (L + n))
        BY <1>b, <2>3
      <3>6. q[i + (k - n)] = p[k + (i - (L + n))]
        BY <1>5, <3>5, Zenon
      <3> QED BY <3>2, <3>3, <3>4, <3>6, Zenon
    <2> QED BY <2>1, <2>2, <2>3
  <1>8. ASSUME NEW i \in 1..(L + n) + (P - k),
               NEW j \in 1..(L + n) + (P - k), i < j
        PROVE  f[i] < f[j]
    <2>1. /\ f[i] = IF i =< L + n THEN i ELSE i + (k - n)
          /\ f[j] = IF j =< L + n THEN j ELSE j + (k - n)
      BY <1>f, Zenon
    <2> QED BY <1>b, <1>8, <2>1
  <1>9. \A i, j \in 1..Len(t) : t[i] = q[f[i]] /\ (i < j => f[i] < f[j])
    BY <1>4, <1>7, <1>8, Zenon
  <1>10. Thinned(t, q)
    BY <1>6, <1>9, Zenon DEF Thinned
  <1> QED BY <1>10, Zenon DEF t, q, a, b

LEMMA SameThinned ==
    ASSUME NEW q \in Seq(Msgs) PROVE Thinned(q, q)
  <1>1. [i \in 1..Len(q) |-> i] \in [1..Len(q) -> 1..Len(q)]
    OBVIOUS
  <1> QED BY <1>1, LenProperties DEF Thinned

LEMMA PrefixThins ==
    ASSUME NEW l \in Seq(Msgs), NEW p \in Seq(Msgs)
    PROVE  Thinned(l, l \o p)
  <1> DEFINE f == [i \in 1..Len(l) |-> i]
  <1>1. /\ Len(l) \in Nat /\ Len(p) \in Nat
        /\ Len(l \o p) = Len(l) + Len(p)
        /\ \A i \in 1..Len(l) : (l \o p)[i] = l[i]
    BY ConcatProperties, LenProperties
  <1>2. f \in [1..Len(l) -> 1..Len(l \o p)]
    BY <1>1
  <1>3. \A i, j \in 1..Len(l) : l[i] = (l \o p)[f[i]] /\ (i < j => f[i] < f[j])
    BY <1>1
  <1> QED BY <1>2, <1>3 DEF Thinned

LEMMA LineType ==
    ASSUME IInv PROVE Line \in Seq(Msgs)
  <1>1. msgLog \in Seq(Msgs) /\ Pending \in Seq(Msgs)
    BY PendingType
  <1> QED BY <1>1, ConcatProperties DEF Line

LEMMA PrimedLineType ==
    IInv' => (Line \in Seq(Msgs))'
  <1>1. IInv => Line \in Seq(Msgs)
    BY LineType
  <1> QED BY <1>1, PTL

(* A step of the goroutines, or the end of the process, thins the line.    *)
LEMMA PipelineThins ==
    ASSUME IInv, InitStorage \/ Serv \/ Flusher \/ Crash
    PROVE  Thinned(Line', Line)
  <1>0. msgLog \in Seq(Msgs) /\ Pending \in Seq(Msgs) /\ Line \in Seq(Msgs)
    BY PendingType, LineType
  <1>1. CASE HandsOver
    <2>k. PICK k \in 1..Len(Pending) : \E n \in 0..k : Log!Insert(k, n)
      BY <1>1, Zenon DEF HandsOver
    <2>1. PICK n \in 0..k : Log!Insert(k, n)
      BY <2>k, Zenon
    <2>2. Line' = (msgLog \o SubSeq(Pending, 1, n))
                     \o SubSeq(Pending, k + 1, Len(Pending))
      BY <2>1, Zenon DEF Line, Log!Insert
    <2>3. Thinned((msgLog \o SubSeq(Pending, 1, n))
                     \o SubSeq(Pending, k + 1, Len(Pending)), msgLog \o Pending)
      BY <1>0, InsertThins
    <2> QED BY <2>2, <2>3, Zenon DEF Line
  <1>2. CASE Log!Crash
    <2>1. Line' = msgLog \o <<>>
      BY <1>2, Zenon DEF Line, Log!Crash
    <2>2. Line' = msgLog
      BY <1>0, <2>1, ConcatEmptySeq
    <2>3. Thinned(msgLog, msgLog \o Pending)
      BY <1>0, PrefixThins
    <2> QED BY <2>2, <2>3, Zenon DEF Line
  <1>3. CASE Pending' = Pending /\ msgLog' = msgLog
    <2>1. Line' = Line
      BY <1>3, Zenon DEF Line
    <2> QED BY <1>0, <2>1, SameThinned
  <1> QED BY <1>1, <1>2, <1>3, PipelineSteps

LEMMA PipelineKeepsOrder ==
    ASSUME IInv, IInv', OrderInv, InitStorage \/ Serv \/ Flusher \/ Crash
    PROVE  OrderInv'
  <1> SUFFICES ASSUME resends' = 0 PROVE (Ordered(Line) /\ Sent(Line) /\ Newest)'
    BY DEF OrderInv
  <1>0. /\ sent' = sent /\ cur' = cur /\ resends' = resends
        /\ \A s \in Senders : pc'[s] \in {pc[s], "idle"}
    <2>1. CASE InitStorage \/ Serv \/ Flusher
      BY <2>1 DEF InitStorage, Serv, ServReceive, ServStore, ServBuffer, Flusher,
                  FlushTick, FlushReceive, FlushStore, senders
    <2>2. CASE Crash
      BY <2>2 DEF Crash
    <2> QED BY <2>1, <2>2
  <1>1. Ordered(Line) /\ Sent(Line) /\ Newest
    BY <1>0 DEF OrderInv
  <1>2. PICK q \in Seq(Msgs) : q = Line
    BY LineType
  <1>3. PICK t \in Seq(Msgs) : t = Line'
    BY PrimedLineType
  <1>4. Thinned(t, q)
    BY <1>2, <1>3, PipelineThins
  <1>5. Ordered(t)
    BY <1>1, <1>2, <1>4, ThinnedOrdered
  <1>6. Ordered(Line)'
    BY <1>3, <1>5 DEF Ordered
  <1>7. Sent(Line)'
    <2>1. PICK f \in [1..Len(t) -> 1..Len(q)] :
             \A i, j \in 1..Len(t) : t[i] = q[f[i]] /\ (i < j => f[i] < f[j])
      BY <1>4 DEF Thinned
    <2>2. ASSUME NEW i \in 1..Len(t)
          PROVE  /\ t[i].msgid =< sent'[t[i].uuid]
                 /\ pc'[t[i].uuid] = "enqueue" => t[i].msgid < sent'[t[i].uuid]
      <3>1. f[i] \in 1..Len(q) /\ t[i] = q[f[i]]
        BY <2>1
      <3>2. t[i] \in Msgs
        BY ElementOfSeq
      <3>3. t[i].uuid \in Senders
        BY <3>2 DEF Msgs
      <3>4. /\ q[f[i]].msgid =< sent[q[f[i]].uuid]
            /\ pc[q[f[i]].uuid] = "enqueue"
                  => q[f[i]].msgid < sent[q[f[i]].uuid]
        BY <1>1, <1>2, <3>1 DEF Sent
      <3> QED BY <1>0, <3>1, <3>3, <3>4
    <2> QED BY <1>3, <2>2 DEF Sent
  <1>8. Newest'
    BY <1>0, <1>1 DEF Newest
  <1> QED BY <1>6, <1>7, <1>8

LEMMA SendKeepsOrder ==
    ASSUME IInv, OrderInv, NEW s \in Senders, SendMsg(s)
    PROVE  OrderInv'
  <1> SUFFICES ASSUME resends' = 0 PROVE (Ordered(Line) /\ Sent(Line) /\ Newest)'
    BY DEF OrderInv
  <1>0. /\ sent \in [Senders -> 0..MaxMsgId] /\ cur \in [Senders -> 0..MaxMsgId]
        /\ pc \in [Senders -> {"idle", "check", "enqueue", "stuck"}]
    BY DEF IInv, TypeOK
  <1>1. /\ pc[s] = "idle" /\ sent[s] < MaxMsgId
        /\ sent' = [sent EXCEPT ![s] = sent[s] + 1]
        /\ cur' = [cur EXCEPT ![s] = sent[s] + 1]
        /\ pc' = [pc EXCEPT ![s] = "enqueue"]
        /\ resends' = resends
    BY DEF SendMsg
  <1>2. Ordered(Line) /\ Sent(Line) /\ Newest
    BY <1>1 DEF OrderInv
  <1>3. Line' = Line
    BY SenderSteps DEF Line
  <1>4. PICK q \in Seq(Msgs) : q = Line
    BY LineType
  <1>5. Ordered(Line)'
    BY <1>2, <1>3 DEF Ordered
  <1>6. ASSUME NEW i \in 1..Len(q)
        PROVE  /\ q[i].msgid =< sent'[q[i].uuid]
               /\ pc'[q[i].uuid] = "enqueue" => q[i].msgid < sent'[q[i].uuid]
    <2>1. q[i] \in Msgs
      BY ElementOfSeq
    <2>2. q[i].uuid \in Senders /\ q[i].msgid \in Nat
      BY <2>1, BoundAssumption DEF Msgs
    <2>3. /\ q[i].msgid =< sent[q[i].uuid]
          /\ pc[q[i].uuid] = "enqueue" => q[i].msgid < sent[q[i].uuid]
      BY <1>2, <1>4 DEF Sent
    <2>4. CASE q[i].uuid = s
      <3>1. sent'[s] = sent[s] + 1 /\ sent[s] \in Nat
        BY <1>0, <1>1, BoundAssumption
      <3> QED BY <2>2, <2>3, <2>4, <3>1
    <2>5. CASE q[i].uuid # s
      <3>1. sent'[q[i].uuid] = sent[q[i].uuid] /\ pc'[q[i].uuid] = pc[q[i].uuid]
        BY <1>0, <1>1, <2>2, <2>5
      <3> QED BY <2>3, <3>1
    <2> QED BY <2>4, <2>5
  <1>7. Sent(Line)'
    BY <1>3, <1>4, <1>6 DEF Sent
  <1>8. Newest'
    BY <1>0, <1>1, <1>2 DEF Newest
  <1> QED BY <1>5, <1>7, <1>8

LEMMA EnqueueKeepsOrder ==
    ASSUME IInv, OrderInv, NEW s \in Senders, EnqueueMsg(s)
    PROVE  OrderInv'
  <1> SUFFICES ASSUME resends' = 0 PROVE (Ordered(Line) /\ Sent(Line) /\ Newest)'
    BY DEF OrderInv
  <1>0. /\ sent \in [Senders -> 0..MaxMsgId] /\ cur \in [Senders -> 0..MaxMsgId]
        /\ pc \in [Senders -> {"idle", "check", "enqueue", "stuck"}]
    BY DEF IInv, TypeOK
  <1>1. /\ pc[s] = "enqueue" /\ sent' = sent /\ cur' = cur
        /\ resends' = resends
        /\ \/ pc' = [pc EXCEPT ![s] = "idle"] \/ pc' = [pc EXCEPT ![s] = "stuck"]
    BY DEF EnqueueMsg
  <1>a. \A u \in Senders : /\ pc'[u] = "enqueue" => pc[u] = "enqueue" /\ u # s
                           /\ pc'[u] = "check" => pc[u] = "check"
    BY <1>0, <1>1
  <1>2. Ordered(Line) /\ Sent(Line) /\ Newest
    BY <1>1 DEF OrderInv
  <1>4. PICK q \in Seq(Msgs) : q = Line
    BY LineType
  <1>5. Newest'
    BY <1>1, <1>a, <1>2 DEF Newest
  <1>6. ASSUME NEW i \in 1..Len(q)
        PROVE  /\ q[i] \in Msgs /\ q[i].uuid \in Senders
               /\ q[i].msgid =< sent[q[i].uuid]
               /\ pc[q[i].uuid] = "enqueue" => q[i].msgid < sent[q[i].uuid]
    <2>1. q[i] \in Msgs
      BY ElementOfSeq
    <2> QED BY <1>2, <1>4, <2>1 DEF Sent, Msgs
  <1>7. CASE Pending' = Pending /\ msgLog' = msgLog
    <2>1. Line' = q
      BY <1>4, <1>7 DEF Line
    <2>2. Ordered(Line)'
      BY <1>2, <1>4, <2>1 DEF Ordered
    <2>3. Sent(Line)'
      BY <1>1, <1>6, <1>a, <2>1 DEF Sent
    <2> QED BY <1>5, <2>2, <2>3
  <1>8. CASE Log!Accept(MsgOf(s))
    <2>0. PICK m \in Msgs : m = MsgOf(s)
      BY EnqueueAccepts
    <2>1. m.uuid = s /\ m.msgid = sent[s]
      BY <1>1, <1>2, <2>0 DEF MsgOf, Newest
    <2>2. PICK t \in Seq(Msgs) : t = Append(q, m)
      BY AppendProperties
    <2>3. Line' = t
      <3>1. msgLog \in Seq(Msgs) /\ Pending \in Seq(Msgs) /\ <<m>> \in Seq(Msgs)
        BY PendingType, Singleton
      <3>2. Append(Pending, m) = Pending \o <<m>>
        BY <3>1, AppendIsConcat
      <3>3. Append(q, m) = q \o <<m>>
        BY AppendIsConcat
      <3>4. (msgLog \o Pending) \o <<m>> = msgLog \o (Pending \o <<m>>)
        BY <3>1, Assoc
      <3>5. Line' = msgLog \o Append(Pending, m)
        BY <1>8, <2>0, Zenon DEF Line, Log!Accept
      <3> QED BY <1>4, <2>2, <3>2, <3>3, <3>4, <3>5, Zenon DEF Line
    <2>4. /\ Len(q) \in Nat /\ Len(t) = Len(q) + 1
          /\ \A i \in 1..Len(q) : t[i] = q[i]
          /\ t[Len(q) + 1] = m
      BY <2>2, AppendProperties, LenProperties
    <2>5. \A i \in 1..Len(t) : i \in 1..Len(q) \/ i = Len(q) + 1
      BY <2>4
    <2>6. Ordered(t)
      <3> SUFFICES ASSUME NEW i \in 1..Len(t), NEW j \in 1..Len(t), i < j,
                          t[i].uuid = t[j].uuid
                   PROVE  t[i].msgid < t[j].msgid
        BY DEF Ordered
      <3>1. i \in 1..Len(q)
        BY <2>4
      <3>2. CASE j \in 1..Len(q)
        <4>1. t[i] = q[i] /\ t[j] = q[j]
          BY <2>4, <3>1, <3>2
        <4>2. q[i].msgid < q[j].msgid
          BY <1>2, <1>4, <3>1, <3>2, <4>1 DEF Ordered
        <4> QED BY <4>1, <4>2
      <3>3. CASE j = Len(q) + 1
        <4>1. t[i] = q[i] /\ t[j] = m
          BY <2>4, <3>1, <3>3
        <4>2. q[i].uuid = s
          BY <2>1, <4>1
        <4>3. q[i].msgid < sent[s]
          BY <1>1, <1>6, <3>1, <4>2
        <4> QED BY <2>1, <4>1, <4>3
      <3> QED BY <2>5, <3>2, <3>3
    <2>7. ASSUME NEW i \in 1..Len(t)
          PROVE  /\ t[i].msgid =< sent'[t[i].uuid]
                 /\ pc'[t[i].uuid] = "enqueue" => t[i].msgid < sent'[t[i].uuid]
      <3>1. CASE i \in 1..Len(q)
        <4>1. t[i] = q[i]
          BY <2>4, <3>1
        <4> QED BY <1>1, <1>6, <1>a, <3>1, <4>1
      <3>2. CASE i = Len(q) + 1
        <4>1. t[i] = m
          BY <2>4, <3>2
        <4>2. sent[s] \in Nat
          BY <1>0, BoundAssumption
        <4> QED BY <1>1, <1>a, <2>1, <4>1, <4>2
      <3> QED BY <2>5, <3>1, <3>2
    <2>8. Ordered(Line)'
      BY <2>3, <2>6 DEF Ordered
    <2>9. Sent(Line)'
      BY <2>3, <2>7 DEF Sent
    <2> QED BY <1>5, <2>8, <2>9
  <1> QED BY <1>7, <1>8, EnqueueAccepts

LEMMA NextOrderInv == IInv /\ IInv' /\ OrderInv /\ [Next]_vars => OrderInv'
  <1> SUFFICES ASSUME IInv, IInv', OrderInv, [Next]_vars PROVE OrderInv'
    OBVIOUS
  <1>1. ASSUME NEW s \in Senders, NEW k \in 1..MaxMsgId, ResendMsg(s, k)
        PROVE  OrderInv'
    <2>1. resends' = resends + 1 /\ resends \in Nat
      BY <1>1, BoundAssumption DEF ResendMsg, IInv, TypeOK
    <2>2. resends' # 0
      BY <2>1
    <2> QED BY <2>2 DEF OrderInv
  <1>2. ASSUME NEW s \in Senders, CheckSent(s) PROVE OrderInv'
    <2>1. resends' = resends /\ pc[s] = "check"
      BY <1>2 DEF CheckSent
    <2>2. resends # 0
      BY <2>1 DEF OrderInv, Newest
    <2> QED BY <2>1, <2>2 DEF OrderInv
  <1>3. CASE UNCHANGED vars
    <2>1. UNCHANGED <<pc, cur, sent, resends>> /\ Line' = Line
      BY <1>3 DEF vars, senders, channels, flusher, Line, Pending
    <2> QED BY <2>1 DEF OrderInv, Ordered, Sent, Newest
  <1> QED
    BY <1>1, <1>2, <1>3, SendKeepsOrder, EnqueueKeepsOrder, PipelineKeepsOrder
    DEF Next, SenderStep

LEMMA InitOrderInv == Init => OrderInv
  <1> SUFFICES ASSUME Init PROVE OrderInv
    OBVIOUS
  <1>1. Line = <<>>
    <2>1. <<>> \o <<>> = <<>>
      BY EmptySeq, ConcatEmptySeq
    <2> QED BY <2>1, Zenon DEF Init, Line, Pending
  <1>2. 1..Len(Line) = {}
    BY <1>1
  <1> QED BY <1>2 DEF Init, OrderInv, Ordered, Sent, Newest

(* The messages of every sender are in the log in the order in which it    *)
(* sent them and each once, whatever channel, batch or failed insertion    *)
(* they went through, unless one was resent.                               *)
THEOREM LoggedInOrder == Spec => []LoggedInSendOrder
  <1>1. IInv /\ OrderInv => LoggedInSendOrder
    <2> SUFFICES ASSUME IInv, Ordered(Line)
                 PROVE  Ordered(msgLog)
      BY DEF OrderInv, LoggedInSendOrder, Ordered
    <2>1. msgLog \in Seq(Msgs) /\ Pending \in Seq(Msgs) /\ Line \in Seq(Msgs)
      BY PendingType, LineType
    <2>2. Thinned(msgLog, Line)
      BY <2>1, PrefixThins DEF Line
    <2> QED BY <2>1, <2>2, ThinnedOrdered
  <1> QED
    BY <1>1, InitIInv, NextIInv, InitOrderInv, NextOrderInv, PTL DEF Spec
=============================================================================
