---------------------------- MODULE InboxProofs ----------------------------
(***************************************************************************)
(* Proofs about Inbox, for any number of senders, readers, publications,   *)
(* logins and failures.                                                    *)
(***************************************************************************)
EXTENDS Inbox, SequenceTheorems, TLAPS

\* A publication is at most once in the pipeline and in msg_log together, and
\* only when its goroutine has put it there.
NoDup(s) == \A i, j \in DOMAIN s : s[i] = s[j] => i = j

StoredOnce ==
    /\ NoDup(pending) /\ NoDup(log)
    /\ \A i \in Range(pending) :
          pc[i] = "done" /\ pubs[i].kind # "notice" /\ i \notin Range(log)
    /\ \A i \in Range(log) :
          IF pubs[i].kind = "notice" THEN pc[i] \in {"push", "done"}
                                     ELSE pc[i] = "done"
    /\ \A i \in Pubs :
          /\ pc[i] = "insert" => pubs[i].kind = "notice"
          /\ pc[i] = "enqueue" => pubs[i].kind # "notice"

\* A copy that Remove has deleted is stored nowhere and will not be.
RetractedNowhere ==
    \A i \in Pubs : <<i, "deleted">> \in retracted =>
        /\ pc[i] = "done" /\ pubs[i].kind = "msg"
        /\ i \notin Range(log) /\ i \notin Range(pending)

\* Time t is not behind the acknowledgements of u, other than those that came
\* while joinRoom was under way.
Covered(u, t) ==
    acked[u].latest =< t \/ acked[u].latest =< acked[u].inJoin

\* channel_stat, and the time joinRoom is about to write, are not; nothing is
\* published or acknowledged ahead of the clock.
StatCoversAcks ==
    /\ \A u \in Readers :
          /\ Covered(u, stat[u])
          /\ joining[u] # 0 => Covered(u, joining[u])
          /\ acked[u].latest =< clock
    /\ \A i \in Pubs : pubs[i].ts =< clock

\* Without a connection nothing has been fetched over it.
FetchedOnline == \A u \in Readers : conn[u] = "off" => ~fetched[u]

\* What reader u has not seen, is not u's own and is or may get into msg_log.
Unseen(i, u) ==
    /\ i \in Pubs \ received[u]
    /\ pubs[i].uuid # u
    /\ pubs[i].kind # "notice" \/ pc[i] = "insert" \/ i \in Range(log)

\* Such a publication is a gap if channel_stat has passed it ...
PassedIsGap ==
    \A u \in Readers : \A i \in Pubs :
        (Unseen(i, u) /\ pubs[i].ts =< stat[u]) => <<i, u>> \in gaps

\* ... and if its push is over and ofli_msg has been called since the login.
FetchedIsGap ==
    \A u \in Readers : \A i \in Pubs :
        (Unseen(i, u) /\ fetched[u] /\ pc[i] \in {"enqueue", "done"}
            /\ <<i, u>> \notin flying) => <<i, u>> \in gaps

IInv ==
    /\ TypeOK /\ StoredOnce /\ RetractedNowhere /\ StatCoversAcks
    /\ FetchedOnline /\ PassedIsGap /\ FetchedIsGap

-----------------------------------------------------------------------------
(* Sequences without duplicates.                                           *)

LEMMA AppendOnce ==
    ASSUME NEW S, NEW s \in Seq(S), NEW e \in S, NoDup(s), e \notin Range(s)
    PROVE  /\ Append(s, e) \in Seq(S) /\ NoDup(Append(s, e))
           /\ Range(Append(s, e)) = Range(s) \cup {e}
  <1>1. /\ Append(s, e) \in Seq(S) /\ Len(Append(s, e)) = Len(s) + 1
        /\ Len(s) \in Nat
        /\ \A i \in 1..Len(s) : Append(s, e)[i] = s[i]
        /\ Append(s, e)[Len(s) + 1] = e
    BY AppendProperties, LenProperties
  <1>2. DOMAIN s = 1..Len(s) /\ DOMAIN Append(s, e) = 1..(Len(s) + 1)
    BY <1>1, LenProperties
  <1>3. \A i \in 1..(Len(s) + 1) : i \in 1..Len(s) \/ i = Len(s) + 1
    BY <1>1
  <1>4. \A i \in 1..Len(s) : i \in 1..(Len(s) + 1) /\ s[i] # e
    BY <1>1, <1>2 DEF Range
  <1>5. NoDup(Append(s, e))
    BY <1>1, <1>2, <1>3, <1>4 DEF NoDup
  <1>6. Range(Append(s, e)) = Range(s) \cup {e}
    BY <1>1, <1>2, <1>3, <1>4 DEF Range
  <1> QED BY <1>1, <1>5, <1>6

(* A part of a sequence.                                                   *)
LEMMA PartOnce ==
    ASSUME NEW S, NEW s \in Seq(S), NoDup(s),
           NEW a \in 1..(Len(s) + 1), NEW b \in 0..Len(s), a =< b + 1
    PROVE  /\ SubSeq(s, a, b) \in Seq(S) /\ NoDup(SubSeq(s, a, b))
           /\ Range(SubSeq(s, a, b)) = {s[i] : i \in a..b}
           /\ Len(SubSeq(s, a, b)) = b - a + 1
           /\ \A i \in 1..(b - a + 1) : SubSeq(s, a, b)[i] = s[a + i - 1]
  <1>0. Len(s) \in Nat /\ DOMAIN s = 1..Len(s)
    BY LenProperties
  <1>1. /\ SubSeq(s, a, b) \in Seq(S)
        /\ Len(SubSeq(s, a, b)) = b - a + 1
        /\ \A i \in 1..(b - a + 1) : SubSeq(s, a, b)[i] = s[a + i - 1]
    <2>1. \A i \in a..b : s[i] \in S
      BY <1>0, ElementOfSeq
    <2>2. /\ SubSeq(s, a, b) \in Seq(S)
          /\ Len(SubSeq(s, a, b)) = IF a <= b THEN b - a + 1 ELSE 0
      BY <1>0, <2>1, SubSeqProperties
    <2>3. \A i \in 1..(b - a + 1) : SubSeq(s, a, b)[i] = s[a + i - 1]
      BY <1>0, <2>1, SubSeqProperties
    <2> QED BY <1>0, <2>2, <2>3
  <1>2. DOMAIN SubSeq(s, a, b) = 1..(b - a + 1)
    BY <1>1, LenProperties
  <1>3. NoDup(SubSeq(s, a, b))
    <2>1. \A i \in 1..(b - a + 1) : a + i - 1 \in 1..Len(s)
      BY <1>0
    <2> QED BY <1>0, <1>1, <1>2, <2>1 DEF NoDup
  <1>4. Range(SubSeq(s, a, b)) = {s[i] : i \in a..b}
    <2>1. ASSUME NEW x \in Range(SubSeq(s, a, b)) PROVE x \in {s[i] : i \in a..b}
      <3>1. PICK i \in 1..(b - a + 1) : x = s[a + i - 1]
        BY <1>1, <1>2, <2>1 DEF Range
      <3>2. a + i - 1 \in a..b
        BY <1>0
      <3> QED BY <3>1, <3>2
    <2>2. ASSUME NEW i \in a..b PROVE s[i] \in Range(SubSeq(s, a, b))
      <3>1. i - a + 1 \in 1..(b - a + 1) /\ a + (i - a + 1) - 1 = i
        BY <1>0
      <3>2. SubSeq(s, a, b)[i - a + 1] = s[i]
        BY <1>1, <3>1
      <3> QED BY <1>2, <3>1, <3>2 DEF Range
    <2> QED BY <2>1, <2>2
  <1> QED BY <1>1, <1>3, <1>4

(* What follows the k-th element.                                          *)
LEMMA RestOnce ==
    ASSUME NEW S, NEW s \in Seq(S), NoDup(s), NEW k \in 1..Len(s)
    PROVE  LET v == SubSeq(s, k + 1, Len(s))
           IN  /\ v \in Seq(S) /\ NoDup(v)
               /\ Range(v) = {s[i] : i \in (k + 1)..Len(s)}
  <1>1. /\ k + 1 \in 1..(Len(s) + 1) /\ Len(s) \in 0..Len(s)
        /\ k + 1 =< Len(s) + 1
    BY LenProperties
  <1> QED BY <1>1, PartOnce

(* Two sequences with different elements in a row.                         *)
LEMMA ConcatOnce ==
    ASSUME NEW S, NEW s \in Seq(S), NEW t \in Seq(S), NoDup(s), NoDup(t),
           Range(s) \cap Range(t) = {}
    PROVE  /\ s \o t \in Seq(S) /\ NoDup(s \o t)
           /\ Range(s \o t) = Range(s) \cup Range(t)
  <1>0. /\ Len(s) \in Nat /\ DOMAIN s = 1..Len(s)
        /\ Len(t) \in Nat /\ DOMAIN t = 1..Len(t)
    BY LenProperties
  <1>1. /\ s \o t \in Seq(S) /\ Len(s \o t) = Len(s) + Len(t)
        /\ \A i \in 1..(Len(s) + Len(t)) : (s \o t)[i] =
              IF i <= Len(s) THEN s[i] ELSE t[i - Len(s)]
    BY ConcatProperties
  <1>2. DOMAIN (s \o t) = 1..(Len(s) + Len(t))
    BY <1>1, LenProperties
  <1>3. \A i \in 1..(Len(s) + Len(t)) :
            \/ i \in 1..Len(s) /\ (s \o t)[i] = s[i]
            \/ /\ i - Len(s) \in 1..Len(t) /\ i \notin 1..Len(s)
               /\ (s \o t)[i] = t[i - Len(s)]
    BY <1>0, <1>1
  <1>4. \A i \in 1..Len(s), j \in 1..Len(t) : s[i] # t[j]
    BY <1>0 DEF Range
  <1>5. ASSUME NEW i \in 1..(Len(s) + Len(t)), NEW j \in 1..(Len(s) + Len(t)),
               (s \o t)[i] = (s \o t)[j]
        PROVE  i = j
    <2>1. CASE i \in 1..Len(s) /\ j \in 1..Len(s)
      BY <1>0, <1>3, <1>5, <2>1 DEF NoDup
    <2>2. CASE i \notin 1..Len(s) /\ j \notin 1..Len(s)
      <3>1. i - Len(s) = j - Len(s)
        BY <1>0, <1>3, <1>5, <2>2 DEF NoDup
      <3> QED BY <1>0, <3>1
    <2>3. CASE i \in 1..Len(s) /\ j \notin 1..Len(s)
      BY <1>3, <1>4, <1>5, <2>3
    <2>4. CASE i \notin 1..Len(s) /\ j \in 1..Len(s)
      BY <1>3, <1>4, <1>5, <2>4
    <2> QED BY <2>1, <2>2, <2>3, <2>4
  <1>6. NoDup(s \o t)
    BY <1>2, <1>5 DEF NoDup
  <1>7. Range(s \o t) \subseteq Range(s) \cup Range(t)
    BY <1>0, <1>2, <1>3 DEF Range
  <1>8. ASSUME NEW i \in 1..Len(s) PROVE s[i] \in Range(s \o t)
    <2>1. i \in 1..(Len(s) + Len(t)) /\ (s \o t)[i] = s[i]
      BY <1>0, <1>1
    <2> QED BY <1>2, <2>1 DEF Range
  <1>9. ASSUME NEW i \in 1..Len(t) PROVE t[i] \in Range(s \o t)
    <2>1. /\ Len(s) + i \in 1..(Len(s) + Len(t))
          /\ (s \o t)[Len(s) + i] = t[i]
      BY <1>0, <1>1
    <2> QED BY <1>2, <2>1 DEF Range
  <1>10. Range(s) \subseteq Range(s \o t) /\ Range(t) \subseteq Range(s \o t)
    BY <1>0, <1>8, <1>9 DEF Range
  <1> QED BY <1>1, <1>6, <1>7, <1>10

(* What the pipeline's step L!Insert does to the two sequences.            *)
LEMMA InsertOnce ==
    ASSUME NEW S, NEW s \in Seq(S), NEW t \in Seq(S), NoDup(s), NoDup(t),
           Range(s) \cap Range(t) = {},
           NEW k \in 1..Len(s), NEW n \in 0..k
    PROVE  LET u == t \o SubSeq(s, 1, n)
               v == SubSeq(s, k + 1, Len(s))
           IN  /\ u \in Seq(S) /\ v \in Seq(S) /\ NoDup(u) /\ NoDup(v)
               /\ Range(u) \subseteq Range(t) \cup Range(s)
               /\ Range(v) \subseteq Range(s)
               /\ Range(t) \subseteq Range(u)
               /\ Range(u) \cap Range(v) = {}
  <1> DEFINE a == SubSeq(s, 1, n)
             v == SubSeq(s, k + 1, Len(s))
  <1>0. Len(s) \in Nat /\ DOMAIN s = 1..Len(s)
    BY LenProperties
  <1>1. /\ a \in Seq(S) /\ NoDup(a) /\ Range(a) = {s[i] : i \in 1..n}
    BY <1>0, PartOnce
  <1>2. /\ v \in Seq(S) /\ NoDup(v) /\ Range(v) = {s[i] : i \in (k + 1)..Len(s)}
    BY RestOnce
  <1>3. Range(a) \subseteq Range(s) /\ Range(v) \subseteq Range(s)
    BY <1>0, <1>1, <1>2 DEF Range
  <1>4. Range(a) \cap Range(v) = {}
    <2> SUFFICES ASSUME NEW i \in 1..n, NEW j \in (k + 1)..Len(s), s[i] = s[j]
                 PROVE  FALSE
      BY <1>1, <1>2
    <2>1. i \in DOMAIN s /\ j \in DOMAIN s /\ i # j
      BY <1>0
    <2> QED BY <2>1 DEF NoDup
  <1>5. /\ t \o a \in Seq(S) /\ NoDup(t \o a)
        /\ Range(t \o a) = Range(t) \cup Range(a)
    <2>1. Range(t) \cap Range(a) = {}
      BY <1>3
    <2> HIDE DEF a
    <2> QED BY <1>1, <2>1, ConcatOnce
  <1> QED BY <1>1, <1>2, <1>3, <1>4, <1>5

(* Without its k-th element a sequence has the others.                     *)
LEMMA RemoveOnce ==
    ASSUME NEW S, NEW s \in Seq(S), NoDup(s), NEW k \in DOMAIN s
    PROVE  LET r == SubSeq(s, 1, k - 1) \o SubSeq(s, k + 1, Len(s))
           IN  r \in Seq(S) /\ NoDup(r) /\ Range(r) = Range(s) \ {s[k]}
  <1> DEFINE a == SubSeq(s, 1, k - 1)
             b == SubSeq(s, k + 1, Len(s))
  <1>0. Len(s) \in Nat /\ DOMAIN s = 1..Len(s)
    BY LenProperties
  <1>1. /\ a \in Seq(S) /\ NoDup(a) /\ Range(a) = {s[i] : i \in 1..(k - 1)}
    <2>1. 1 \in 1..(Len(s) + 1) /\ k - 1 \in 0..Len(s) /\ 1 =< k - 1 + 1
      BY <1>0
    <2> QED BY <2>1, PartOnce
  <1>2. /\ b \in Seq(S) /\ NoDup(b) /\ Range(b) = {s[i] : i \in (k + 1)..Len(s)}
    BY <1>0, RestOnce
  <1>3. Range(a) \cap Range(b) = {}
    <2> SUFFICES ASSUME NEW i \in 1..(k - 1), NEW j \in (k + 1)..Len(s),
                        s[i] = s[j]
                 PROVE  FALSE
      BY <1>1, <1>2
    <2>1. i \in DOMAIN s /\ j \in DOMAIN s /\ i # j
      BY <1>0
    <2> QED BY <2>1 DEF NoDup
  <1>4. /\ a \o b \in Seq(S) /\ NoDup(a \o b)
        /\ Range(a \o b) = Range(a) \cup Range(b)
    <2> HIDE DEF a, b
    <2> QED BY <1>1, <1>2, <1>3, ConcatOnce
  <1>5. Range(a) \cup Range(b) = Range(s) \ {s[k]}
    <2>1. ASSUME NEW i \in 1..Len(s), i # k
          PROVE  i \in 1..(k - 1) \/ i \in (k + 1)..Len(s)
      BY <1>0, <2>1
    <2>2. \A i \in 1..(k - 1) : i \in 1..Len(s) /\ i # k
      BY <1>0
    <2>3. \A i \in (k + 1)..Len(s) : i \in 1..Len(s) /\ i # k
      BY <1>0
    <2>4. \A i \in 1..Len(s) : i # k => s[i] # s[k]
      BY <1>0 DEF NoDup
    <2>5. Range(s) = {s[i] : i \in 1..Len(s)}
      BY <1>0 DEF Range
    <2> HIDE DEF a, b
    <2>6. Range(a) \cup Range(b) \subseteq Range(s) \ {s[k]}
      BY <1>1, <1>2, <2>2, <2>3, <2>4, <2>5
    <2>7. Range(s) \ {s[k]} \subseteq Range(a) \cup Range(b)
      BY <1>1, <1>2, <2>1, <2>5
    <2> QED BY <2>6, <2>7
  <1> QED BY <1>4, <1>5

-----------------------------------------------------------------------------
(* Facts about the state.                                                  *)

Labels == {"push", "enqueue", "insert", "done"}

LEMMA Indices ==
    ASSUME TypeOK
    PROVE  /\ Len(pubs) \in Nat /\ Pubs = 1..Len(pubs) /\ DOMAIN pubs = Pubs
           /\ Len(pc) = Len(pubs) /\ DOMAIN pc = Pubs
           /\ \A i \in Pubs :
                 /\ pubs[i] \in Publication /\ pubs[i].ts \in Nat
                 /\ pc[i] \in Labels
           /\ Range(log) \subseteq Pubs /\ Range(pending) \subseteq Pubs
  <1>1. /\ Len(pubs) \in Nat /\ DOMAIN pubs = 1..Len(pubs)
        /\ DOMAIN pc = 1..Len(pc)
    BY LenProperties DEF TypeOK
  <1>2. \A i \in Pubs : pubs[i] \in Publication /\ pc[i] \in Labels
    BY <1>1, ElementOfSeq DEF TypeOK, Pubs, Labels
  <1>3. \A i \in Pubs : pubs[i].ts \in Nat
    BY <1>2 DEF Publication, Times
  <1>4. Range(log) \subseteq Pubs /\ Range(pending) \subseteq Pubs
    BY ElementOfSeq, LenProperties DEF TypeOK, Range
  <1> QED BY <1>1, <1>2, <1>3, <1>4 DEF TypeOK, Pubs

LEMMA ReaderTimes ==
    ASSUME TypeOK, NEW u \in Readers
    PROVE  /\ stat[u] \in Nat /\ joining[u] \in Nat /\ clock \in Nat
           /\ acked[u].latest \in Nat /\ acked[u].inJoin \in Nat
           /\ acked[u] \in [latest : Times \cup {0}, inJoin : Times \cup {0}]
  <1>1. Times \cup {0} \subseteq Nat
    BY DEF Times
  <1> QED BY <1>1 DEF TypeOK

(* A new publication is the last one, and the others are what they were.   *)
LEMMA Stamped ==
    ASSUME TypeOK, NEW kind \in {"msg", "del", "notice"},
           NEW s \in Senders \cup {Server}, NEW id \in 0..MaxPubs,
           NEW label \in Labels, Stamp(kind, s, id, label)
    PROVE  LET n == Len(pubs) + 1
           IN  /\ Pubs' = Pubs \cup {n} /\ n \notin Pubs
               /\ \A i \in Pubs : pubs'[i] = pubs[i] /\ pc'[i] = pc[i]
               /\ pubs'[n] = [kind |-> kind, uuid |-> s, msgid |-> id, ts |-> clock']
               /\ pc'[n] = label
               /\ pubs' \in Seq(Publication) /\ Len(pubs') = n /\ n =< MaxPubs
               /\ pc' \in Seq(Labels) /\ Len(pc') = n
               /\ clock' \in Times /\ clock \in Nat /\ clock' \in Nat
  <1> DEFINE r == [kind |-> kind, uuid |-> s, msgid |-> id, ts |-> clock']
  <1>1. clock' \in Times /\ clock \in Nat /\ clock' \in Nat
    BY BoundAssumption DEF TypeOK, Stamp, ReadClock, Times
  <1>2. r \in Publication
    BY <1>1 DEF Publication
  <1>3. pubs' = Append(pubs, r) /\ pc' = Append(pc, label)
    BY DEF Stamp
  <1>4. pubs \in Seq(Publication) /\ pc \in Seq(Labels)
    BY DEF TypeOK, Labels
  <1> HIDE DEF r
  <1>5. /\ pubs' \in Seq(Publication) /\ Len(pubs') = Len(pubs) + 1
        /\ \A i \in 1..Len(pubs) : pubs'[i] = pubs[i]
        /\ pubs'[Len(pubs) + 1] = r
    BY <1>2, <1>3, <1>4, AppendProperties
  <1>6. /\ pc' \in Seq(Labels) /\ Len(pc') = Len(pc) + 1
        /\ \A i \in 1..Len(pc) : pc'[i] = pc[i]
        /\ pc'[Len(pc) + 1] = label
    BY <1>3, <1>4, AppendProperties
  <1>7. Pubs' = Pubs \cup {Len(pubs) + 1} /\ Len(pubs) + 1 \notin Pubs
    BY <1>5, Indices DEF Pubs
  <1>8. Len(pubs) + 1 =< MaxPubs
    BY Indices, BoundAssumption DEF Stamp
  <1> QED BY <1>1, <1>5, <1>6, <1>7, <1>8, Indices DEF r

(* Every command that stamps a publication preserves the invariant; a       *)
(* retraction also takes a message out of msg_log, which is then nowhere.  *)
LEMMA StampInv ==
    ASSUME IInv, NEW kind \in {"msg", "del", "notice"},
           NEW s \in Senders \cup {Server}, NEW id \in 0..MaxPubs,
           NEW label \in {"push", "insert"}, kind = "notice" <=> label = "insert",
           Stamp(kind, s, id, label), extras' \in 0..MaxExtras,
           UNCHANGED <<pending, session, received, stat, joining, acked>>,
           log' \in Seq(Pubs), NoDup(log'), Range(log') \subseteq Range(log),
           retracted' \subseteq Pubs \X {"deleted", "unsure"},
           \A i \in Pubs : <<i, "deleted">> \in retracted' \ retracted =>
               /\ pc[i] = "done" /\ pubs[i].kind = "msg"
               /\ i \notin Range(log') /\ i \notin Range(pending)
    PROVE  IInv'
  <1> DEFINE n == Len(pubs) + 1
  <1>0. /\ UNCHANGED <<pending, conn, logins, flying, fetched, received, stat,
                       joining, acked>>
        /\ label \in Labels
    BY DEF session, Labels
  <1>1. /\ Pubs' = Pubs \cup {n} /\ n \notin Pubs
        /\ \A i \in Pubs : pubs'[i] = pubs[i] /\ pc'[i] = pc[i]
        /\ pubs'[n] = [kind |-> kind, uuid |-> s, msgid |-> id, ts |-> clock']
        /\ pc'[n] = label
        /\ pubs' \in Seq(Publication) /\ Len(pubs') = n /\ n =< MaxPubs
        /\ pc' \in Seq(Labels) /\ Len(pc') = n
        /\ clock' \in Times /\ clock \in Nat /\ clock' \in Nat
    BY <1>0, Stamped DEF IInv
  <1>2. gaps' = gaps \cup ({n} \X {u \in Readers : stat[u] >= clock'})
    BY DEF Stamp
  <1>3. /\ Range(log) \subseteq Pubs /\ Range(pending) \subseteq Pubs
        /\ \A i \in Pubs : pubs[i].ts \in Nat
    BY Indices DEF IInv
  <1> HIDE DEF n
  <1>4. TypeOK'
    <2>1. pending' \in Seq(Pubs') /\ log' \in Seq(Pubs')
      BY <1>0, <1>1, SeqMonotonic DEF IInv, TypeOK
    <2>2. pc' \in Seq({"push", "enqueue", "insert", "done"}) /\ Len(pc') = Len(pubs')
      BY <1>1 DEF Labels
    <2>3. gaps' \subseteq Pubs' \X Readers
      BY <1>1, <1>2 DEF IInv, TypeOK
    <2>4. flying' \subseteq Pubs' \X {u \in Readers : conn'[u] = "on"}
      BY <1>0, <1>1 DEF IInv, TypeOK
    <2>5. received' \in [Readers -> SUBSET Pubs']
      BY <1>0, <1>1 DEF IInv, TypeOK
    <2>6. retracted' \subseteq Pubs' \X {"deleted", "unsure"}
      BY <1>1
    <2>7. /\ conn' \in [Readers -> {"off", "named", "on"}]
          /\ logins' \in [Readers -> 0..MaxLogins]
          /\ acked' \in [Readers -> [latest : Times \cup {0}, inJoin : Times \cup {0}]]
          /\ stat' \in [Readers -> Times \cup {0}]
          /\ joining' \in [Readers -> Times \cup {0}]
      BY <1>0 DEF IInv, TypeOK
    <2>8. fetched' \in [Readers -> BOOLEAN]
      BY <1>0, Zenon DEF IInv, TypeOK
    <2> QED BY <1>1, <2>1, <2>2, <2>3, <2>4, <2>5, <2>6, <2>7, <2>8 DEF TypeOK
  <1>5. StoredOnce'
    <2>1. NoDup(pending') /\ NoDup(log') /\ pending' = pending
      BY <1>0 DEF IInv, StoredOnce
    <2>2. ASSUME NEW i \in Range(pending')
          PROVE  pc'[i] = "done" /\ pubs'[i].kind # "notice" /\ i \notin Range(log')
      BY <1>1, <1>3, <2>1, <2>2 DEF IInv, StoredOnce
    <2>3. ASSUME NEW i \in Range(log')
          PROVE  IF pubs'[i].kind = "notice" THEN pc'[i] \in {"push", "done"}
                                             ELSE pc'[i] = "done"
      BY <1>1, <1>3, <2>3 DEF IInv, StoredOnce
    <2>4. ASSUME NEW i \in Pubs'
          PROVE  /\ pc'[i] = "insert" => pubs'[i].kind = "notice"
                 /\ pc'[i] = "enqueue" => pubs'[i].kind # "notice"
      <3>1. CASE i = n
        BY <1>1, <3>1
      <3>2. CASE i \in Pubs
        BY <1>1, <3>2 DEF IInv, StoredOnce
      <3> QED BY <1>1, <3>1, <3>2
    <2> QED BY <2>1, <2>2, <2>3, <2>4 DEF StoredOnce
  <1>6. RetractedNowhere'
    <2> SUFFICES ASSUME NEW i \in Pubs', <<i, "deleted">> \in retracted'
                 PROVE  /\ pc'[i] = "done" /\ pubs'[i].kind = "msg"
                        /\ i \notin Range(log') /\ i \notin Range(pending')
      BY DEF RetractedNowhere
    <2>1. i \in Pubs /\ pc'[i] = pc[i] /\ pubs'[i] = pubs[i] /\ pending' = pending
      BY <1>0, <1>1
    <2> QED BY <2>1 DEF IInv, RetractedNowhere
  <1>7. StatCoversAcks' /\ FetchedOnline'
    <2>1. clock =< clock'
      BY <1>1 DEF Stamp, ReadClock
    <2>2. ASSUME NEW i \in Pubs' PROVE pubs'[i].ts =< clock'
      <3>1. CASE i = n
        BY <1>1, <3>1
      <3>2. CASE i \in Pubs
        BY <1>1, <1>3, <2>1, <3>2 DEF IInv, StatCoversAcks
      <3> QED BY <1>1, <3>1, <3>2
    <2>3. ASSUME NEW u \in Readers
          PROVE  /\ Covered(u, stat[u])' /\ (joining'[u] # 0 => Covered(u, joining[u])')
                 /\ acked'[u].latest =< clock'
      BY <1>0, <1>1, <2>1, ReaderTimes DEF IInv, StatCoversAcks, Covered
    <2> QED BY <1>0, <2>2, <2>3 DEF IInv, StatCoversAcks, FetchedOnline
  <1>8. ASSUME NEW u \in Readers, NEW i \in Pubs, Unseen(i, u)'
        PROVE  Unseen(i, u)
    BY <1>0, <1>1, <1>8 DEF Unseen
  <1>9. PassedIsGap'
    <2> SUFFICES ASSUME NEW u \in Readers, NEW i \in Pubs', Unseen(i, u)',
                        pubs'[i].ts =< stat'[u]
                 PROVE  <<i, u>> \in gaps'
      BY DEF PassedIsGap
    <2>1. CASE i = n
      <3>1. pubs'[n].ts = clock'
        BY <1>1
      <3>2. stat'[u] = stat[u] /\ stat[u] \in Nat
        BY <1>0, ReaderTimes DEF IInv
      <3> QED BY <1>1, <1>2, <2>1, <3>1, <3>2
    <2>2. CASE i \in Pubs
      BY <1>0, <1>1, <1>2, <1>8, <2>2 DEF IInv, PassedIsGap
    <2> QED BY <1>1, <2>1, <2>2
  <1>10. FetchedIsGap'
    <2> SUFFICES ASSUME NEW u \in Readers, NEW i \in Pubs', Unseen(i, u)',
                        fetched'[u], pc'[i] \in {"enqueue", "done"},
                        <<i, u>> \notin flying'
                 PROVE  <<i, u>> \in gaps'
      BY DEF FetchedIsGap
    <2>1. i \in Pubs
      BY <1>1
    <2> QED BY <1>0, <1>1, <1>2, <1>8, <2>1 DEF IInv, FetchedIsGap
  <1> QED BY <1>4, <1>5, <1>6, <1>7, <1>9, <1>10 DEF IInv

(* The commands that stamp a publication.                                  *)
LEMMA CommandInv ==
    ASSUME IInv, NEW s \in Senders,
           \/ Publish(s)
           \/ \E i \in Pubs : Resend(s, i) \/ Retract(s, i) \/ RetractFails(s, i)
    PROVE  IInv'
  <1>0. /\ log \in Seq(Pubs) /\ NoDup(log) /\ retracted \subseteq Pubs \X {"deleted", "unsure"}
        /\ extras \in 0..MaxExtras
    BY DEF IInv, TypeOK, StoredOnce
  <1>1. Len(pubs) < MaxPubs => Len(pubs) + 1 \in 0..MaxPubs
    BY Indices, BoundAssumption DEF IInv
  <1>2. CASE Publish(s)
    BY <1>0, <1>1, <1>2, StampInv DEF Publish, Stamp, store
  <1>3. ASSUME NEW i \in Pubs, Resend(s, i) PROVE IInv'
    <2>1. pubs[i].msgid \in 0..MaxPubs
      BY Indices DEF IInv, Publication
    <2>2. Stamp("msg", s, pubs[i].msgid, "push") /\ extras' \in 0..MaxExtras
      BY <1>0, <1>3, BoundAssumption DEF Resend, Extra
    <2> QED BY <1>0, <1>3, <2>1, <2>2, StampInv DEF Resend, store
  <1>4. ASSUME NEW i \in Pubs, Retract(s, i) PROVE IInv'
    <2>1. PICK k \in DOMAIN log : log[k] = i /\ log' = RemoveDoc(k)
      BY <1>4 DEF Retract
    <2>2. log' \in Seq(Pubs) /\ NoDup(log') /\ Range(log') = Range(log) \ {i}
      BY <1>0, <2>1, RemoveOnce DEF RemoveDoc
    <2>3. i \in Range(log) /\ retracted' = retracted \cup {<<i, "deleted">>} /\ pubs[i].kind = "msg"
      BY <1>4, <2>1 DEF Range, Retract
    <2>4. pc[i] = "done" /\ i \notin Range(pending)
      BY <2>3 DEF IInv, StoredOnce
    <2>5. \A j \in Pubs : <<j, "deleted">> \in retracted' \ retracted =>
               /\ pc[j] = "done" /\ pubs[j].kind = "msg"
               /\ j \notin Range(log') /\ j \notin Range(pending)
      BY <2>2, <2>3, <2>4
    <2>6. /\ Stamp("del", s, Len(pubs) + 1, "push") /\ extras' = extras
          /\ Len(pubs) + 1 \in 0..MaxPubs
          /\ UNCHANGED <<pending, session, received, stat, joining, acked>>
      BY <1>1, <1>4 DEF Retract, Announce, Stamp
    <2> QED BY <1>0, <2>2, <2>3, <2>5, <2>6, StampInv
  <1>5. ASSUME NEW i \in Pubs, RetractFails(s, i) PROVE IInv'
    <2>1. /\ Stamp("del", s, Len(pubs) + 1, "push") /\ extras' \in 0..MaxExtras
          /\ Len(pubs) + 1 \in 0..MaxPubs
          /\ UNCHANGED <<pending, session, received, stat, joining, acked>>
      BY <1>0, <1>1, <1>5, BoundAssumption
      DEF RetractFails, Announce, Stamp, Extra
    <2>2. log' \in Seq(Pubs) /\ NoDup(log') /\ Range(log') \subseteq Range(log)
      <3>1. CASE \E k \in DOMAIN log : log' = RemoveDoc(k)
        <4>1. PICK k \in DOMAIN log : log' = RemoveDoc(k)
          BY <3>1
        <4> QED BY <1>0, <4>1, RemoveOnce DEF RemoveDoc
      <3>2. CASE log' = log
        BY <1>0, <3>2
      <3> QED BY <1>5, <3>1, <3>2 DEF RetractFails
    <2>3. /\ retracted' \subseteq Pubs \X {"deleted", "unsure"}
          /\ \A j \in Pubs : <<j, "deleted">> \notin retracted' \ retracted
      BY <1>0, <1>5 DEF RetractFails
    <2> QED BY <2>1, <2>2, <2>3, StampInv
  <1> QED BY <1>2, <1>3, <1>4, <1>5

LEMMA NotifyInv == ASSUME IInv, Notify PROVE IInv'
  <1>1. /\ log \in Seq(Pubs) /\ NoDup(log) /\ retracted \subseteq Pubs \X {"deleted", "unsure"}
        /\ extras \in 0..MaxExtras /\ 0 \in 0..MaxPubs
    BY BoundAssumption DEF IInv, TypeOK, StoredOnce
  <1> QED BY <1>1, StampInv DEF Notify, store

-----------------------------------------------------------------------------
(* The steps of a publication.                                             *)

LEMMA PcChanges ==
    ASSUME TypeOK, NEW i \in Pubs, NEW l \in Labels
    PROVE  LET p == [pc EXCEPT ![i] = l]
           IN  /\ p \in Seq(Labels) /\ Len(p) = Len(pc)
               /\ \A j \in Pubs : p[j] = IF j = i THEN l ELSE pc[j]
  <1>1. pc \in Seq(Labels) /\ Len(pc) \in Nat /\ DOMAIN pc = 1..Len(pc)
    BY LenProperties DEF TypeOK, Labels
  <1>2. i \in 1..Len(pc) /\ DOMAIN pc = Pubs
    BY <1>1, Indices
  <1> QED BY <1>1, <1>2, ExceptSeq

LEMMA InsertNoticeInv ==
    ASSUME IInv, NEW i \in Pubs, InsertNotice(i) PROVE IInv'
  <1>1. /\ pc[i] = "insert" /\ pc' = [pc EXCEPT ![i] = "push"]
        /\ UNCHANGED <<clock, pubs, pending, conn, logins, flying, fetched,
                       received, stat, joining, retracted, acked, gaps>>
    BY DEF InsertNotice, session
  <1>2. /\ pc' \in Seq(Labels) /\ Len(pc') = Len(pc) /\ Pubs' = Pubs
        /\ \A j \in Pubs : pc'[j] = IF j = i THEN "push" ELSE pc[j]
    BY <1>1, PcChanges DEF IInv, Labels, Pubs
  <1>3. pubs[i].kind = "notice" /\ i \notin Range(log)
    BY <1>1 DEF IInv, StoredOnce
  <1>4. /\ log' \in Seq(Pubs) /\ NoDup(log') /\ extras' \in 0..MaxExtras
        /\ Range(log) \subseteq Range(log')
        /\ Range(log') \subseteq Range(log) \cup {i}
    <2>1. CASE log' = Append(log, i) /\ UNCHANGED extras
      BY <1>3, <2>1, AppendOnce DEF IInv, TypeOK, StoredOnce
    <2>2. CASE Extra /\ UNCHANGED log
      BY <2>2, BoundAssumption DEF IInv, TypeOK, StoredOnce, Extra
    <2> QED BY <2>1, <2>2 DEF InsertNotice
  <1>5. TypeOK'
    BY <1>1, <1>2, <1>4 DEF IInv, TypeOK, Labels
  <1>6. StoredOnce'
    BY <1>1, <1>2, <1>3, <1>4, Indices DEF IInv, StoredOnce
  <1>7. RetractedNowhere'
    BY <1>1, <1>2, <1>3, <1>4, Indices DEF IInv, RetractedNowhere, TypeOK
  <1>8. StatCoversAcks' /\ FetchedOnline'
    BY <1>1 DEF IInv, StatCoversAcks, Covered, Pubs, FetchedOnline
  <1>9. ASSUME NEW u \in Readers, NEW j \in Pubs, Unseen(j, u)'
        PROVE  Unseen(j, u)
    BY <1>1, <1>2, <1>4, <1>9 DEF Unseen
  <1>10. PassedIsGap' /\ FetchedIsGap'
    BY <1>1, <1>2, <1>9 DEF IInv, PassedIsGap, FetchedIsGap
  <1> QED BY <1>5, <1>6, <1>7, <1>8, <1>10 DEF IInv

LEMMA PushInv ==
    ASSUME IInv, NEW i \in Pubs, Push(i) PROVE IInv'
  <1> DEFINE l == IF pubs[i].kind = "notice" THEN "done" ELSE "enqueue"
             others == Readers \ {pubs[i].uuid}
  <1>1. /\ pc[i] = "push" /\ pc' = [pc EXCEPT ![i] = l]
        /\ flying \subseteq flying'
        /\ flying' \subseteq flying \cup ({i} \X {u \in Readers : conn[u] = "on"})
        /\ gaps' = gaps \cup
              ({i} \X {u \in others : fetched[u] /\ <<i, u>> \notin flying'})
        /\ extras' \in 0..MaxExtras
        /\ UNCHANGED <<clock, pubs, pending, log, conn, logins, fetched,
                       received, stat, joining, retracted, acked>>
    <2>1. PICK listed \in SUBSET Readers :
            /\ IF listed = Readers THEN UNCHANGED extras ELSE Extra
            /\ flying' = flying \cup
                  ({i} \X {u \in listed \ {pubs[i].uuid} : conn[u] = "on"})
      BY DEF Push
    <2>2. extras' \in 0..MaxExtras
      BY <2>1, BoundAssumption DEF IInv, TypeOK, Extra
    <2>3. /\ flying \subseteq flying'
          /\ flying' \subseteq flying \cup ({i} \X {u \in Readers : conn[u] = "on"})
      BY <2>1
    <2> QED BY <2>2, <2>3 DEF Push, store
  <1>2. /\ pc' \in Seq(Labels) /\ Len(pc') = Len(pc) /\ Pubs' = Pubs
        /\ \A j \in Pubs : pc'[j] = IF j = i THEN l ELSE pc[j]
    BY <1>1, PcChanges DEF IInv, Labels, Pubs
  <1>3. /\ Range(log) \subseteq Pubs /\ Range(pending) \subseteq Pubs
    BY Indices DEF IInv
  <1>4. TypeOK'
    <2>1. flying' \subseteq Pubs \X {u \in Readers : conn[u] = "on"}
      BY <1>1 DEF IInv, TypeOK
    <2>2. gaps' \subseteq Pubs \X Readers
      BY <1>1 DEF IInv, TypeOK
    <2> QED BY <1>1, <1>2, <2>1, <2>2 DEF IInv, TypeOK, Labels
  <1>5. StoredOnce'
    BY <1>1, <1>2, <1>3 DEF IInv, StoredOnce
  <1>6. RetractedNowhere'
    BY <1>1, <1>2, <1>3 DEF IInv, RetractedNowhere, TypeOK
  <1>7. StatCoversAcks' /\ FetchedOnline'
    BY <1>1 DEF IInv, StatCoversAcks, Covered, Pubs, FetchedOnline
  <1>8. ASSUME NEW u \in Readers, NEW j \in Pubs, Unseen(j, u)'
        PROVE  Unseen(j, u)
    BY <1>1, <1>2, <1>8 DEF Unseen
  <1>9. PassedIsGap'
    BY <1>1, <1>2, <1>8 DEF IInv, PassedIsGap
  <1>10. FetchedIsGap'
    <2> SUFFICES ASSUME NEW u \in Readers, NEW j \in Pubs, Unseen(j, u)',
                        fetched[u], pc'[j] \in {"enqueue", "done"},
                        <<j, u>> \notin flying'
                 PROVE  <<j, u>> \in gaps'
      BY <1>1, <1>2 DEF FetchedIsGap
    <2>1. CASE j = i
      <3>1. u \in others
        BY <1>1, <1>8, <2>1 DEF Unseen
      <3> QED BY <1>1, <2>1, <3>1
    <2>2. CASE j # i
      BY <1>1, <1>2, <1>8, <2>2 DEF IInv, FetchedIsGap
    <2> QED BY <2>1, <2>2
  <1> QED BY <1>4, <1>5, <1>6, <1>7, <1>9, <1>10 DEF IInv

LEMMA EnqueueInv ==
    ASSUME IInv, NEW i \in Pubs, Enqueue(i) PROVE IInv'
  <1>1. /\ pc[i] = "enqueue" /\ pc' = [pc EXCEPT ![i] = "done"]
        /\ pending' = Append(pending, i)
        /\ UNCHANGED <<clock, pubs, log, conn, logins, flying, fetched,
                       received, stat, joining, retracted, acked, gaps, extras>>
    BY DEF Enqueue, session, L!Accept
  <1>2. /\ pc' \in Seq(Labels) /\ Len(pc') = Len(pc) /\ Pubs' = Pubs
        /\ \A j \in Pubs : pc'[j] = IF j = i THEN "done" ELSE pc[j]
    BY <1>1, PcChanges DEF IInv, Labels, Pubs
  <1>3. /\ pubs[i].kind # "notice" /\ i \notin Range(log)
        /\ i \notin Range(pending)
    BY <1>1 DEF IInv, StoredOnce
  <1>4. /\ pending' \in Seq(Pubs) /\ NoDup(pending')
        /\ Range(pending') = Range(pending) \cup {i}
    BY <1>1, <1>3, AppendOnce DEF IInv, TypeOK, StoredOnce
  <1>5. TypeOK'
    BY <1>1, <1>2, <1>4 DEF IInv, TypeOK, Labels
  <1>6. StoredOnce'
    BY <1>1, <1>2, <1>3, <1>4, Indices DEF IInv, StoredOnce
  <1>7. RetractedNowhere'
    BY <1>1, <1>2, <1>3, <1>4, Indices DEF IInv, RetractedNowhere, TypeOK
  <1>8. StatCoversAcks' /\ FetchedOnline'
    BY <1>1 DEF IInv, StatCoversAcks, Covered, Pubs, FetchedOnline
  <1>9. ASSUME NEW u \in Readers, NEW j \in Pubs, Unseen(j, u)'
        PROVE  Unseen(j, u)
    BY <1>1, <1>2, <1>9 DEF Unseen
  <1>10. PassedIsGap' /\ FetchedIsGap'
    BY <1>1, <1>2, <1>9 DEF IInv, PassedIsGap, FetchedIsGap
  <1> QED BY <1>5, <1>6, <1>7, <1>8, <1>10 DEF IInv

LEMMA StoreSomeInv ==
    ASSUME IInv, NEW k \in 1..Len(pending), NEW n \in 0..k, StoreSome(k, n)
    PROVE  IInv'
  <1>1. /\ log' = log \o SubSeq(pending, 1, n)
        /\ pending' = SubSeq(pending, k + 1, Len(pending))
        /\ UNCHANGED <<clock, pubs, pc, conn, logins, flying, fetched,
                       received, stat, joining, retracted, acked, gaps>>
        /\ Pubs' = Pubs
    BY DEF StoreSome, session, L!Insert, Pubs
  <1>2. extras' \in 0..MaxExtras
    BY BoundAssumption DEF StoreSome, Extra, IInv, TypeOK
  <1>3. /\ log' \in Seq(Pubs) /\ NoDup(log')
        /\ pending' \in Seq(Pubs) /\ NoDup(pending')
        /\ Range(log') \subseteq Range(log) \cup Range(pending)
        /\ Range(pending') \subseteq Range(pending)
        /\ Range(log) \subseteq Range(log')
        /\ Range(log') \cap Range(pending') = {}
    <2>1. Range(pending) \cap Range(log) = {}
      BY DEF IInv, StoredOnce
    <2>2. /\ pending \in Seq(Pubs) /\ log \in Seq(Pubs)
          /\ NoDup(pending) /\ NoDup(log)
      BY DEF IInv, TypeOK, StoredOnce
    <2> QED BY <1>1, <2>1, <2>2, InsertOnce
  <1>4. TypeOK'
    BY <1>1, <1>2, <1>3 DEF IInv, TypeOK
  <1>5. StoredOnce'
    BY <1>1, <1>3 DEF IInv, StoredOnce
  <1>6. RetractedNowhere'
    BY <1>1, <1>3 DEF IInv, RetractedNowhere
  <1>7. StatCoversAcks' /\ FetchedOnline'
    BY <1>1 DEF IInv, StatCoversAcks, Covered, Pubs, FetchedOnline
  <1>8. ASSUME NEW u \in Readers, NEW j \in Pubs, Unseen(j, u)'
        PROVE  Unseen(j, u)
    BY <1>1, <1>3, <1>8 DEF Unseen, IInv, StoredOnce
  <1>9. PassedIsGap' /\ FetchedIsGap'
    BY <1>1, <1>8 DEF IInv, PassedIsGap, FetchedIsGap
  <1> QED BY <1>4, <1>5, <1>6, <1>7, <1>9 DEF IInv

-----------------------------------------------------------------------------
(* The steps of a reader.                                                  *)

\* What no step of a reader changes: the publications and where they are.
Stored == <<pubs, pc, pending, log, retracted>>

(* The parts of the invariant that depend on nothing else.                 *)
LEMMA StoredUnchanged ==
    ASSUME IInv, UNCHANGED Stored
    PROVE  StoredOnce' /\ RetractedNowhere' /\ Pubs' = Pubs
  BY DEF Stored, IInv, StoredOnce, RetractedNowhere, Pubs

LEMMA SessionInv ==
    ASSUME IInv, NEW u \in Readers, SetUuid(u) \/ Register(u) \/ Disconnect(u)
    PROVE  IInv'
  <1>1. /\ UNCHANGED <<Stored, clock, received, stat, joining, acked, gaps,
                       extras>>
        /\ UNCHANGED Stored
    BY DEF SetUuid, Register, Disconnect, Stored, store
  <1>2. /\ flying' \subseteq flying
        /\ conn' \in [Readers -> {"off", "named", "on"}]
        /\ logins' \in [Readers -> 0..MaxLogins]
    <2>1. flying' \subseteq flying
      BY DEF SetUuid, Register, Disconnect
    <2>2. conn' \in [Readers -> {"off", "named", "on"}]
      BY DEF SetUuid, Register, Disconnect, IInv, TypeOK
    <2>3. logins' \in [Readers -> 0..MaxLogins]
      <3>1. \/ UNCHANGED logins
            \/ /\ logins[u] + 1 \in 0..MaxLogins
               /\ logins' = [logins EXCEPT ![u] = logins[u] + 1]
        BY BoundAssumption DEF SetUuid, Register, Disconnect, IInv, TypeOK
      <3> QED BY <3>1 DEF IInv, TypeOK
    <2> QED BY <2>1, <2>2, <2>3
  <1>3. fetched' \in [Readers -> BOOLEAN]
    BY Zenon DEF SetUuid, Register, Disconnect, IInv, TypeOK
  <1>4. /\ \A v \in Readers : fetched'[v] =>
              fetched[v] /\ \A i \in Pubs : <<i, v>> \in flying => <<i, v>> \in flying'
        /\ FetchedOnline'
    BY DEF SetUuid, Register, Disconnect, IInv, TypeOK, FetchedOnline
  <1>5. TypeOK'
    <2>1. ASSUME NEW i \in Pubs, NEW v \in Readers, <<i, v>> \in flying'
          PROVE  conn'[v] = "on"
      <3>1. <<i, v>> \in flying /\ conn[v] = "on"
        BY <1>2, <2>1 DEF IInv, TypeOK
      <3>2. Disconnect(u) => v # u
        BY <2>1 DEF Disconnect
      <3> QED BY <3>1, <3>2 DEF SetUuid, Register, Disconnect, IInv, TypeOK
    <2>2. flying' \subseteq Pubs \X {v \in Readers : conn'[v] = "on"}
      BY <1>2, <2>1 DEF IInv, TypeOK
    <2> QED BY <1>1, <1>2, <1>3, <2>2, StoredUnchanged DEF Stored, IInv, TypeOK
  <1>6. PassedIsGap' /\ FetchedIsGap'
    BY <1>1, <1>4, StoredUnchanged
    DEF Stored, IInv, PassedIsGap, FetchedIsGap, Unseen
  <1> QED
    BY <1>1, <1>4, <1>5, <1>6, StoredUnchanged
    DEF Stored, IInv, StatCoversAcks, Covered

(* A reader sees more: what it has seen is no gap and need not be one.     *)
LEMMA SeeInv ==
    ASSUME IInv, NEW u \in Readers, NEW S \in SUBSET Pubs, NEW g,
           gaps \subseteq g, g \subseteq Pubs \X Readers, See(u, S, g),
           UNCHANGED <<Stored, clock, conn, logins, stat, joining, acked>>,
           extras' \in 0..MaxExtras, fetched' \in [Readers -> BOOLEAN],
           flying' \subseteq flying,
           \A i \in Pubs, v \in Readers :
               <<i, v>> \in flying \ flying' => i \in S /\ v = u,
           conn[u] # "off",
           \A v \in Readers : fetched'[v] => fetched[v] \/ v = u,
           \A i \in Pubs : (Unseen(i, u)' /\ fetched'[u]
               /\ pc[i] \in {"enqueue", "done"} /\ <<i, u>> \notin flying')
                   => <<i, u>> \in g
    PROVE  IInv'
  <1>0. UNCHANGED Stored /\ Pubs' = Pubs
    BY DEF Stored, Pubs
  <1>1. /\ received' = [received EXCEPT ![u] = @ \cup S]
        /\ gaps' = g \ ((S \cup received[u]) \X {u})
        /\ received \in [Readers -> SUBSET Pubs]
    BY DEF See, IInv, TypeOK
  <1>2. TypeOK'
    <2>1. /\ received' \in [Readers -> SUBSET Pubs]
          /\ gaps' \subseteq Pubs \X Readers
      BY <1>1
    <2>2. flying' \subseteq Pubs \X {v \in Readers : conn'[v] = "on"}
      BY DEF IInv, TypeOK
    <2> QED BY <1>0, <2>1, <2>2 DEF Stored, IInv, TypeOK
  <1>3. ASSUME NEW v \in Readers, NEW i \in Pubs, Unseen(i, v)'
        PROVE  /\ Unseen(i, v)
               /\ <<i, v>> \in g => <<i, v>> \in gaps'
               /\ <<i, v>> \in flying => <<i, v>> \in flying'
    <2>1. i \notin received'[v]
      BY <1>3 DEF Unseen
    <2>2. v = u => i \notin S \cup received[u]
      BY <1>1, <2>1
    <2>3. i \notin received[v]
      BY <1>1, <2>1
    <2> QED BY <1>1, <1>3, <2>2, <2>3 DEF Unseen, Stored
  <1>4. PassedIsGap'
    BY <1>0, <1>3 DEF Stored, IInv, PassedIsGap
  <1>5. FetchedIsGap'
    <2> SUFFICES ASSUME NEW v \in Readers, NEW i \in Pubs, Unseen(i, v)',
                        fetched'[v], pc[i] \in {"enqueue", "done"},
                        <<i, v>> \notin flying'
                 PROVE  <<i, v>> \in gaps'
      BY <1>0 DEF Stored, FetchedIsGap
    <2>1. CASE v = u
      BY <1>3, <2>1
    <2>2. CASE v # u
      BY <1>3, <2>2 DEF IInv, FetchedIsGap
    <2> QED BY <2>1, <2>2
  <1>6. StatCoversAcks' /\ FetchedOnline'
    BY <1>0 DEF Stored, IInv, StatCoversAcks, Covered, FetchedOnline
  <1> QED BY <1>0, <1>2, <1>4, <1>5, <1>6, StoredUnchanged DEF IInv

LEMMA ReceiveInv ==
    ASSUME IInv, NEW u \in Readers, NEW i \in Pubs, Receive(i, u) PROVE IInv'
  <1>1. /\ <<i, u>> \in flying /\ flying' = flying \ {<<i, u>>}
        /\ See(u, {i}, gaps)
        /\ UNCHANGED <<Stored, clock, conn, logins, stat, joining, acked>>
        /\ UNCHANGED <<extras, fetched>>
    BY DEF Receive, Stored, store
  <1>2. /\ gaps \subseteq Pubs \X Readers /\ extras \in 0..MaxExtras
        /\ conn[u] # "off"
    BY <1>1 DEF IInv, TypeOK
  <1>3. fetched \in [Readers -> BOOLEAN]
    BY DEF IInv, TypeOK
  <1>4. ASSUME NEW j \in Pubs, Unseen(j, u)', fetched[u],
               pc[j] \in {"enqueue", "done"}, <<j, u>> \notin flying'
        PROVE  <<j, u>> \in gaps
    <2>1. j # i /\ j \notin received[u]
      BY <1>1, <1>4 DEF Unseen, See, IInv, TypeOK
    <2>2. Unseen(j, u) /\ <<j, u>> \notin flying
      BY <1>1, <1>4, <2>1 DEF Unseen, Stored
    <2> QED BY <1>4, <2>2 DEF IInv, FetchedIsGap
  <1> QED BY <1>1, <1>2, <1>3, <1>4, SeeInv

LEMMA HistoryInv ==
    ASSUME IInv, NEW u \in Readers, NEW t \in Nat, History(u, t) PROVE IInv'
  <1>1. /\ See(u, FetchByChannelAndTs(t), gaps) /\ conn[u] # "off"
        /\ UNCHANGED <<Stored, clock, conn, logins, stat, joining, acked>>
        /\ UNCHANGED <<extras, fetched, flying>>
    BY DEF History, Stored, store, session
  <1>2. /\ gaps \subseteq Pubs \X Readers /\ extras \in 0..MaxExtras
        /\ FetchByChannelAndTs(t) \subseteq Pubs
    BY Indices DEF IInv, TypeOK, FetchByChannelAndTs
  <1>3. fetched \in [Readers -> BOOLEAN]
    BY DEF IInv, TypeOK
  <1>4. ASSUME NEW j \in Pubs, Unseen(j, u)', fetched[u],
               pc[j] \in {"enqueue", "done"}, <<j, u>> \notin flying'
        PROVE  <<j, u>> \in gaps
    <2>1. j \notin received[u]
      BY <1>1, <1>4 DEF Unseen, See, IInv, TypeOK
    <2>2. Unseen(j, u) /\ <<j, u>> \notin flying
      BY <1>1, <1>4, <2>1 DEF Unseen, Stored
    <2> QED BY <1>4, <2>2 DEF IInv, FetchedIsGap
  <1> QED BY <1>1, <1>2, <1>3, <1>4, SeeInv

LEMMA OfflineMsgInv ==
    ASSUME IInv, NEW u \in Readers, OfflineMsg(u) PROVE IInv'
  <1>1. /\ conn[u] # "off" /\ fetched' = [fetched EXCEPT ![u] = TRUE]
        /\ UNCHANGED <<Stored, clock, conn, logins, stat, joining, acked>>
        /\ UNCHANGED flying
    BY DEF OfflineMsg, Stored, store
  <1>2. fetched' \in [Readers -> BOOLEAN]
    BY <1>1, Zenon DEF IInv, TypeOK
  <1>3. /\ gaps \subseteq Pubs \X Readers /\ Unlogged \subseteq Pubs
        /\ Offered(u) \subseteq Pubs
        /\ \A v \in Readers : fetched'[v] => fetched[v] \/ v = u
    BY <1>1, Indices DEF IInv, TypeOK, Unlogged, Offered
  <1>4. ASSUME NEW j \in Pubs, Unseen(j, u), pc[j] \in {"enqueue", "done"}
        PROVE  j \in Offered(u) \/ j \in Unlogged \/ <<j, u>> \in gaps
    <2>1. CASE j \in Range(log) /\ pubs[j].ts > stat[u]
      BY <1>4, <2>1 DEF Offered, Unseen
    <2>2. CASE j \in Range(log) /\ ~(pubs[j].ts > stat[u])
      <3>1. pubs[j].ts =< stat[u]
        BY <2>2, Indices, ReaderTimes DEF IInv
      <3> QED BY <1>4, <3>1 DEF IInv, PassedIsGap
    <2>3. CASE j \notin Range(log)
      <3>1. pubs[j].kind # "notice"
        BY <1>4, <2>3 DEF Unseen
      <3> QED BY <1>4, <2>3, <3>1 DEF Unlogged
    <2> QED BY <2>1, <2>2, <2>3
  <1>5. ASSUME NEW S \in SUBSET Pubs, NEW g, See(u, S, g),
               NEW j \in Pubs, Unseen(j, u)'
        PROVE  Unseen(j, u) /\ j \notin S
    BY <1>1, <1>5 DEF Unseen, See, IInv, TypeOK, Stored
  <1>6. CASE See(u, Offered(u), gaps \cup (Unlogged \X {u})) /\ UNCHANGED extras
    <2>1. extras' \in 0..MaxExtras
      BY <1>6 DEF IInv, TypeOK
    <2>2. ASSUME NEW j \in Pubs, Unseen(j, u)', pc[j] \in {"enqueue", "done"}
          PROVE  <<j, u>> \in gaps \cup (Unlogged \X {u})
      BY <1>3, <1>4, <1>5, <1>6, <2>2
    <2>3. gaps \cup (Unlogged \X {u}) \subseteq Pubs \X Readers
      BY <1>3
    <2> QED BY <1>1, <1>2, <1>3, <1>6, <2>1, <2>2, <2>3, SeeInv
  <1>7. CASE See(u, {}, gaps \cup ((Offered(u) \cup Unlogged) \X {u})) /\ Extra
    <2>1. extras' \in 0..MaxExtras
      BY <1>7, BoundAssumption DEF IInv, TypeOK, Extra
    <2>2. ASSUME NEW j \in Pubs, Unseen(j, u)', pc[j] \in {"enqueue", "done"}
          PROVE  <<j, u>> \in gaps \cup ((Offered(u) \cup Unlogged) \X {u})
      BY <1>3, <1>4, <1>5, <1>7, <2>2
    <2>3. gaps \cup ((Offered(u) \cup Unlogged) \X {u}) \subseteq Pubs \X Readers
      BY <1>3
    <2> QED BY <1>1, <1>2, <1>3, <1>7, <2>1, <2>2, <2>3, SeeInv
  <1> QED BY <1>6, <1>7 DEF OfflineMsg

(* An acknowledgement: what it passes is a gap.                            *)
LEMMA AckMsgInv ==
    ASSUME IInv, NEW u \in Readers, NEW j \in Pubs, AckMsg(u, j) PROVE IInv'
  <1> DEFINE ts == pubs[j].ts
  <1>1. /\ stat' = [stat EXCEPT ![u] = Later(stat[u], ts)]
        /\ acked' = [acked EXCEPT ![u] = Acked(u, ts)]
        /\ gaps' = gaps \cup (PassedOver(u, ts) \X {u})
        /\ UNCHANGED <<Stored, clock, conn, logins, flying, fetched, received,
                       joining, extras>>
        /\ UNCHANGED Stored
    BY DEF AckMsg, Stored, store, session
  <1>2. /\ ts \in Times /\ ts \in Nat /\ ts =< clock
        /\ stat[u] \in Nat /\ joining[u] \in Nat /\ clock \in Nat
        /\ acked[u].latest \in Nat /\ acked[u].inJoin \in Nat
        /\ acked[u] \in [latest : Times \cup {0}, inJoin : Times \cup {0}]
        /\ stat[u] \in Times \cup {0}
    <2>1. ts \in Times /\ ts =< clock
      BY Indices DEF IInv, Publication, StatCoversAcks
    <2> QED BY <2>1, Indices, ReaderTimes DEF IInv, TypeOK
  <1>3. /\ Later(stat[u], ts) \in {stat[u], ts}
        /\ Acked(u, ts) \in [latest : Times \cup {0}, inJoin : Times \cup {0}]
        /\ Acked(u, ts).latest = Later(acked[u].latest, ts)
        /\ Acked(u, ts).inJoin = IF joining[u] = 0 THEN acked[u].inJoin
                                 ELSE Later(acked[u].inJoin, ts)
    BY <1>2 DEF Later, Acked
  <1>4. StoredOnce' /\ RetractedNowhere' /\ Pubs' = Pubs
    BY <1>1, StoredUnchanged
  <1>5. /\ stat' \in [Readers -> Times \cup {0}]
        /\ acked' \in [Readers -> [latest : Times \cup {0}, inJoin : Times \cup {0}]]
        /\ gaps' \subseteq Pubs \X Readers
    BY <1>1, <1>2, <1>3 DEF IInv, TypeOK, PassedOver
  <1>6. TypeOK'
    BY <1>1, <1>4, <1>5 DEF Stored, IInv, TypeOK
  <1>7. StatCoversAcks' /\ FetchedOnline'
    <2>1. ASSUME NEW v \in Readers
          PROVE  /\ Covered(v, stat[v])' /\ (joining'[v] # 0 => Covered(v, joining[v])')
                 /\ acked'[v].latest =< clock'
      <3>1. CASE v = u
        <4>1. acked'[u] = Acked(u, ts) /\ stat'[u] = Later(stat[u], ts)
          BY <1>1 DEF IInv, TypeOK
        <4>2. Covered(u, stat[u]) /\ (joining[u] # 0 => Covered(u, joining[u]))
              /\ acked[u].latest =< clock
          BY DEF IInv, StatCoversAcks
        <4>3. /\ acked'[u].latest =< clock'
              /\ acked'[u].latest =< stat'[u] \/ acked'[u].latest =< acked'[u].inJoin
              /\ joining[u] # 0 =>
                   (acked'[u].latest =< joining[u] \/ acked'[u].latest =< acked'[u].inJoin)
          BY <1>1, <1>2, <1>3, <4>1, <4>2 DEF Covered, Later
        <4> QED BY <1>1, <3>1, <4>3 DEF Covered
      <3>2. CASE v # u
        BY <1>1, <3>2 DEF IInv, TypeOK, StatCoversAcks, Covered
      <3> QED BY <3>1, <3>2
    <2> QED BY <1>1, <1>4, <2>1 DEF Stored, IInv, StatCoversAcks, FetchedOnline
  <1>8. ASSUME NEW v \in Readers, NEW i \in Pubs, Unseen(i, v)'
        PROVE  Unseen(i, v)
    BY <1>1, <1>8 DEF Unseen, Stored
  <1>9. ASSUME NEW i \in Pubs, Unseen(i, u), pubs[i].ts =< ts
        PROVE  <<i, u>> \in gaps'
    <2>1. CASE \/ pc[i] \in {"insert", "push"} \/ <<i, u>> \in flying
               \/ ~fetched[u]
      BY <1>1, <1>9, <2>1 DEF PassedOver, Unseen
    <2>2. CASE /\ pc[i] \notin {"insert", "push"} /\ <<i, u>> \notin flying
               /\ fetched[u]
      <3>1. pc[i] \in {"enqueue", "done"}
        BY <2>2, Indices DEF IInv, Labels
      <3> QED BY <1>1, <1>9, <2>2, <3>1 DEF IInv, FetchedIsGap
    <2> QED BY <2>1, <2>2
  <1>10. PassedIsGap'
    <2> SUFFICES ASSUME NEW v \in Readers, NEW i \in Pubs, Unseen(i, v)',
                        pubs[i].ts =< stat'[v]
                 PROVE  <<i, v>> \in gaps'
      BY <1>1, <1>4 DEF PassedIsGap, Stored
    <2>1. CASE pubs[i].ts =< stat[v]
      BY <1>1, <1>8, <2>1 DEF IInv, PassedIsGap
    <2>2. CASE ~(pubs[i].ts =< stat[v])
      <3>1. v = u /\ stat'[u] = ts
        BY <1>1, <1>3, <2>2 DEF IInv, TypeOK
      <3> QED BY <1>8, <1>9, <3>1
    <2> QED BY <2>1, <2>2
  <1>11. FetchedIsGap'
    BY <1>1, <1>4, <1>8 DEF IInv, FetchedIsGap, Stored
  <1> QED BY <1>4, <1>6, <1>7, <1>10, <1>11 DEF IInv

LEMMA JoinInv ==
    ASSUME IInv, NEW u \in Readers, Join(u) PROVE IInv'
  <1>1. /\ joining' = [joining EXCEPT ![u] = clock']
        /\ UNCHANGED <<Stored, conn, logins, flying, fetched, received, stat,
                       acked, gaps>>
        /\ UNCHANGED Stored
    BY DEF Join, Stored, store, session
  <1>2. clock' \in Times /\ extras' \in 0..MaxExtras
    BY BoundAssumption DEF Join, ReadClock, Extra, IInv, TypeOK
  <1>3. StoredOnce' /\ RetractedNowhere' /\ Pubs' = Pubs
    BY <1>1, StoredUnchanged
  <1>4. TypeOK'
    BY <1>1, <1>2, <1>3 DEF Stored, IInv, TypeOK
  <1>5. FetchedOnline' /\ PassedIsGap' /\ FetchedIsGap'
    BY <1>1, <1>3 DEF Stored, IInv, FetchedOnline, PassedIsGap, FetchedIsGap,
       Unseen
  <1>6. StatCoversAcks'
    <2>1. clock =< clock' /\ clock \in Nat /\ clock' \in Nat
      BY <1>2 DEF Join, ReadClock, IInv, TypeOK, Times
    <2>2. ASSUME NEW v \in Readers
          PROVE  /\ Covered(v, stat[v])' /\ (joining'[v] # 0 => Covered(v, joining[v])')
                 /\ acked'[v].latest =< clock'
      <3>1. acked'[v].latest =< clock' /\ Covered(v, stat[v])'
        BY <1>1, <2>1, ReaderTimes DEF IInv, StatCoversAcks, Covered
      <3>2. CASE v = u
        BY <1>1, <3>1, <3>2 DEF Covered, IInv, TypeOK
      <3>3. CASE v # u
        BY <1>1, <3>1, <3>3 DEF Covered, IInv, TypeOK, StatCoversAcks
      <3> QED BY <3>1, <3>2, <3>3
    <2>3. ASSUME NEW i \in Pubs PROVE pubs'[i].ts =< clock'
      BY <1>1, <2>1, Indices DEF Stored, IInv, StatCoversAcks
    <2> QED BY <1>3, <2>2, <2>3 DEF StatCoversAcks
  <1> QED BY <1>3, <1>4, <1>5, <1>6 DEF IInv

(* channel_stat jumps to the time joinRoom has taken, or stays.           *)
LEMMA JoinStatInv ==
    ASSUME IInv, NEW u \in Readers, JoinStat(u) PROVE IInv'
  <1>0. PICK t : t = joining[u]
    OBVIOUS
  <1>1. /\ joining' = [joining EXCEPT ![u] = 0] /\ t # 0
        /\ UNCHANGED <<Stored, clock, conn, logins, flying, fetched, received,
                       acked, extras>>
        /\ UNCHANGED Stored
    BY <1>0 DEF JoinStat, Stored, store, session
  <1>2. t \in Times \cup {0} /\ Covered(u, t)
    BY <1>0, <1>1 DEF IInv, TypeOK, StatCoversAcks
  <1>3. StoredOnce' /\ RetractedNowhere' /\ Pubs' = Pubs
    BY <1>1, StoredUnchanged
  <1>4. /\ stat' \in [Readers -> Times \cup {0}] /\ gaps \subseteq gaps'
        /\ gaps' \subseteq Pubs \X Readers
        /\ \A v \in Readers : stat'[v] = stat[v]
                              \/ (v = u /\ stat'[v] = t)
        /\ \/ stat'[u] = stat[u]
           \/ \A i \in Pubs \ received[u] : pubs[i].ts =< t => <<i, u>> \in gaps'
    <2>1. CASE /\ stat' = [stat EXCEPT ![u] = t]
               /\ gaps' = gaps \cup
                    ({i \in Pubs \ received[u] : pubs[i].ts =< t} \X {u})
      BY <1>2, <2>1 DEF IInv, TypeOK
    <2>2. CASE stat' = stat /\ gaps' = gaps
      BY <2>2 DEF IInv, TypeOK
    <2> QED BY <1>0, <2>1, <2>2 DEF JoinStat
  <1>5. TypeOK'
    <2>1. joining' \in [Readers -> Times \cup {0}]
      BY <1>1 DEF IInv, TypeOK
    <2> QED BY <1>1, <1>3, <1>4, <2>1 DEF Stored, IInv, TypeOK
  <1>6. StatCoversAcks' /\ FetchedOnline'
    <2>1. ASSUME NEW v \in Readers
          PROVE  /\ Covered(v, stat[v])' /\ (joining'[v] # 0 => Covered(v, joining[v])')
                 /\ acked'[v].latest =< clock'
      <3>1. Covered(v, stat[v])'
        BY <1>1, <1>2, <1>4 DEF IInv, StatCoversAcks, Covered
      <3>2. joining'[v] # 0 => Covered(v, joining[v])'
        BY <1>1 DEF IInv, TypeOK, StatCoversAcks, Covered
      <3> QED BY <1>1, <3>1, <3>2 DEF IInv, StatCoversAcks
    <2> QED BY <1>1, <1>3, <2>1 DEF Stored, IInv, StatCoversAcks, FetchedOnline
  <1>7. ASSUME NEW v \in Readers, NEW i \in Pubs, Unseen(i, v)'
        PROVE  Unseen(i, v)
    BY <1>1, <1>7 DEF Unseen, Stored
  <1>8. PassedIsGap'
    <2> SUFFICES ASSUME NEW v \in Readers, NEW i \in Pubs, Unseen(i, v)',
                        pubs[i].ts =< stat'[v]
                 PROVE  <<i, v>> \in gaps'
      BY <1>1, <1>3 DEF PassedIsGap, Stored
    <2>1. CASE stat'[v] = stat[v]
      BY <1>4, <1>7, <2>1 DEF IInv, PassedIsGap
    <2>2. CASE stat'[v] # stat[v]
      <3>1. v = u /\ i \in Pubs \ received[u] /\ pubs[i].ts =< t
        BY <1>4, <1>7, <2>2 DEF Unseen
      <3> QED BY <1>4, <2>2, <3>1
    <2> QED BY <2>1, <2>2
  <1>9. FetchedIsGap'
    BY <1>1, <1>3, <1>4, <1>7 DEF IInv, FetchedIsGap, Stored
  <1> QED BY <1>3, <1>5, <1>6, <1>8, <1>9 DEF IInv

LEMMA CrashInv ==
    ASSUME IInv, Crash PROVE IInv'
  <1>1. /\ pending' = <<>> /\ log' = log
        /\ pc' = [i \in Pubs |-> "done"]
        /\ conn' = [u \in Readers |-> "off"]
        /\ joining' = [u \in Readers |-> 0]
        /\ flying' = {}
        /\ fetched' = [u \in Readers |-> FALSE]
        /\ UNCHANGED <<clock, pubs, logins, received, stat, retracted, acked,
                       gaps>>
        /\ Pubs' = Pubs
    BY DEF Crash, L!Crash, Pubs
  <1>2. extras' \in 0..MaxExtras
    BY BoundAssumption DEF Crash, Extra, IInv, TypeOK
  <1>3. pc' \in Seq(Labels) /\ Len(pc') = Len(pubs) /\ DOMAIN pc' = Pubs
    BY <1>1, Indices, IsASeq DEF IInv, Labels
  <1>4. /\ pending' \in Seq(Pubs) /\ DOMAIN pending' = {} /\ Range(pending') = {}
    BY <1>1, EmptySeq DEF Range
  <1>5. TypeOK'
    <2>1. fetched' \in [Readers -> BOOLEAN]
      BY <1>1, Zenon
    <2> QED BY <1>1, <1>2, <1>3, <1>4, <2>1 DEF IInv, TypeOK, Labels
  <1>6. \A i \in Pubs : pc'[i] = "done"
    BY <1>1
  <1>7. StoredOnce'
    BY <1>1, <1>4, <1>6, Indices DEF IInv, StoredOnce, NoDup, TypeOK
  <1>8. RetractedNowhere'
    BY <1>1, <1>4, <1>6 DEF IInv, RetractedNowhere, TypeOK
  <1>9. StatCoversAcks' /\ FetchedOnline' /\ FetchedIsGap'
    BY <1>1 DEF IInv, StatCoversAcks, Covered, FetchedOnline, FetchedIsGap
  <1>10. PassedIsGap'
    BY <1>1, <1>6 DEF IInv, PassedIsGap, Unseen
  <1> QED BY <1>5, <1>7, <1>8, <1>9, <1>10 DEF IInv

-----------------------------------------------------------------------------
(* The invariant, and the properties that follow from it.                  *)

LEMMA InitIInv ==
    ASSUME Init PROVE IInv
  <1>1. /\ pending = <<>> /\ log = <<>> /\ pubs = <<>> /\ pc = <<>>
        /\ Len(pubs) = 0 /\ Len(pc) = 0 /\ Pubs = {}
        /\ Range(pending) = {} /\ Range(log) = {}
    BY DEF Init, L!Init, Pubs, Range
  <1>2. /\ 0 =< MaxPubs /\ 1 \in Times /\ 0 \in 0..MaxExtras /\ 0 \in 0..MaxLogins
    BY BoundAssumption DEF Times
  <1>3. fetched \in [Readers -> BOOLEAN]
    BY Zenon DEF Init
  <1>4. TypeOK
    BY <1>1, <1>2, <1>3, EmptySeq DEF Init, TypeOK
  <1>5. StatCoversAcks
    <2>1. \A u \in Readers : acked[u].latest = 0 /\ stat[u] = 0 /\ joining[u] = 0
      BY DEF Init
    <2> QED BY <1>1, <2>1 DEF Init, StatCoversAcks, Covered
  <1> QED BY <1>1, <1>4, <1>5
    DEF Init, IInv, StoredOnce, NoDup, RetractedNowhere, FetchedOnline,
        PassedIsGap, FetchedIsGap

LEMMA StutterInv ==
    ASSUME IInv, UNCHANGED vars PROVE IInv'
  BY DEF IInv, vars, store, session, TypeOK, StoredOnce, RetractedNowhere,
         StatCoversAcks, Covered, FetchedOnline, PassedIsGap, FetchedIsGap, Unseen,
         Pubs

LEMMA NextIInv ==
    ASSUME IInv, [Next]_vars PROVE IInv'
  <1>1. CASE \E s \in Senders :
                \/ Publish(s)
                \/ \E i \in Pubs : Resend(s, i) \/ Retract(s, i) \/ RetractFails(s, i)
    BY <1>1, CommandInv
  <1>2. CASE Notify
    BY <1>2, NotifyInv
  <1>3. CASE \E i \in Pubs : InsertNotice(i) \/ Push(i) \/ Enqueue(i)
    BY <1>3, InsertNoticeInv, PushInv, EnqueueInv
  <1>4. CASE \E k \in 1..Len(pending) : \E n \in 0..k : StoreSome(k, n)
    BY <1>4, StoreSomeInv
  <1>5. ASSUME NEW u \in Readers,
               \/ SetUuid(u) \/ Register(u) \/ Disconnect(u)
               \/ OfflineMsg(u)
               \/ \E t \in 1..clock : History(u, t)
               \/ Join(u) \/ JoinStat(u)
               \/ \E i \in Pubs : Receive(i, u) \/ AckMsg(u, i)
        PROVE  IInv'
    <2>1. CASE \E t \in 1..clock : History(u, t)
      <3>1. PICK t \in 1..clock : History(u, t)
        BY <2>1
      <3>2. t \in Nat
        OBVIOUS
      <3> QED BY <3>1, <3>2, HistoryInv
    <2>2. CASE SetUuid(u) \/ Register(u) \/ Disconnect(u)
      BY <2>2, SessionInv
    <2>3. CASE OfflineMsg(u) \/ Join(u) \/ JoinStat(u)
      BY <2>3, OfflineMsgInv, JoinInv, JoinStatInv
    <2>4. CASE \E i \in Pubs : Receive(i, u) \/ AckMsg(u, i)
      BY <2>4, ReceiveInv, AckMsgInv
    <2> QED BY <1>5, <2>1, <2>2, <2>3, <2>4
  <1>6. CASE Crash
    BY <1>6, CrashInv
  <1>7. CASE UNCHANGED vars
    BY <1>7, StutterInv
  <1> QED BY <1>1, <1>2, <1>3, <1>4, <1>5, <1>6, <1>7 DEF Next

(* The inductive invariant holds in every reachable state.                 *)
THEOREM InboxInvariant == Spec => []IInv
  BY InitIInv, NextIInv, PTL DEF Spec

(* Every variable keeps its type and refers to existing publications only, *)
(* whatever interleaving of commands, pushes, storage and logins.          *)
THEOREM InboxTypeOK == Spec => []TypeOK
  <1>1. IInv => TypeOK
    BY DEF IInv
  <1> QED BY <1>1, InboxInvariant, PTL

(* A stored message that a reader has not received and that channel_stat   *)
(* has passed met one of the windows MissedOnlyInWindow lists (AckMsg of   *)
(* client.go, ofli_msg, initChatEnv, LoadUserIdsByChannel, joinRoom):      *)
(* there is no other way to miss a message of msg_log.                     *)
THEOREM MissedInWindow == Spec => []MissedOnlyInWindow
  <1>1. ASSUME IInv PROVE MissedOnlyInWindow
    <2> SUFFICES ASSUME NEW u \in Readers, NEW i \in Range(log),
                        pubs[i].uuid # u, i \notin received[u],
                        pubs[i].ts =< stat[u]
                 PROVE  <<i, u>> \in gaps
      BY DEF MissedOnlyInWindow
    <2>1. i \in Pubs
      BY <1>1, Indices DEF IInv
    <2>2. Unseen(i, u)
      BY <2>1 DEF Unseen
    <2> QED BY <1>1, <2>1, <2>2 DEF IInv, PassedIsGap
  <1> QED BY <1>1, InboxInvariant, PTL

(* What the user has acknowledged, in whatever order, ofli_msg offers      *)
(* again only as far as it was acknowledged while joinRoom was between     *)
(* reading the clock and writing channel_stat (client.go:137-141,          *)
(* im.go:54-63).                                                           *)
THEOREM AckedStaysAcked == Spec => []AckedNotOfferedAgain
  <1>1. ASSUME IInv PROVE AckedNotOfferedAgain
    <2> SUFFICES ASSUME NEW u \in Readers, NEW i \in Offered(u)
                 PROVE  pubs[i].ts > acked[u].latest \/ pubs[i].ts =< acked[u].inJoin
      BY DEF AckedNotOfferedAgain
    <2>1. /\ i \in Pubs /\ pubs[i].ts > stat[u] /\ Covered(u, stat[u])
      BY <1>1, Indices DEF Offered, IInv, StatCoversAcks
    <2>2. /\ pubs[i].ts \in Nat /\ stat[u] \in Nat
          /\ acked[u].latest \in Nat /\ acked[u].inJoin \in Nat
      BY <1>1, <2>1, Indices, ReaderTimes DEF IInv
    <2> QED BY <2>1, <2>2 DEF Covered
  <1> QED BY <1>1, InboxInvariant, PTL

(* A copy of a message that a retraction has deleted is not in msg_log and *)
(* the pipeline does not bring it back (cmd_interface.go:325-340).  The    *)
(* theorem is about the deleted copy: not about a Remove whose error was   *)
(* passed over, nor about a second copy that the client sent.              *)
THEOREM RetractedStaysAway == Spec => []RetractedIsGone
  <1>1. ASSUME IInv PROVE RetractedIsGone
    BY <1>1, Indices DEF RetractedIsGone, IInv, RetractedNowhere
  <1> QED BY <1>1, InboxInvariant, PTL
=============================================================================
