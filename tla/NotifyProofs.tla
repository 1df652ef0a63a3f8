---------------------------- MODULE NotifyProofs ----------------------------
(***************************************************************************)
(* Proofs about Notify, for any number of users, connections, updates,     *)
(* senders of the pool and letters.  The variables fall into three groups  *)
(* with an inductive invariant each: the pushIds, the pool, the letters.   *)
(***************************************************************************)
EXTENDS Notify, TLAPS

-----------------------------------------------------------------------------
(* The letters.                                                            *)

\* A letter that has not been stored for a user cannot have been seen.
UnstoredUnseen ==
    \A l \in Letters, u \in Users :
        (lpc[l] = "new" \/ u \in todo[l]) =>
            /\ l \notin mail[u] /\ l \notin seen[u] /\ l \notin ackedMail[u]
            /\ <<l, u>> \notin carried

\* The bulk has work left only while it runs, and only for addressees.
BulkWork ==
    \A l \in Letters :
        /\ todo[l] \subseteq addressees[l]
        /\ lpc[l] # "store" => todo[l] = {}

\* What the bulk has stored is in the mailbox until acknowledged.
StoredFor(l, u) ==
    /\ l \in mail[u] => u \in addressees[l]
    /\ (u \in addressees[l] /\ u \notin todo[l] /\ <<l, u>> \notin failed)
          => l \in mail[u] \/ l \in ackedMail[u]

StoredSoFar == \A l \in Letters, u \in Users : StoredFor(l, u)

\* Only letters that were seen are acknowledged.
AckedWereSeen == \A u \in Users : ackedMail[u] \subseteq seen[u]

MailInv ==
    /\ MailTypeOK /\ UnstoredUnseen /\ BulkWork /\ StoredSoFar /\ AckedWereSeen
    /\ AckedLettersStayAway

LEMMA InitMailInv == MailInit => MailInv
  BY DEF MailInit, MailInv, MailTypeOK, UnstoredUnseen, BulkWork, StoredSoFar,
     StoredFor, AckedWereSeen, AckedLettersStayAway

LEMMA MailStep ==
    ASSUME MailInv, MailNext(Online) PROVE MailInv'
  <1> USE DEF MailInv, MailTypeOK, UnstoredUnseen, BulkWork, StoredSoFar,
              AckedWereSeen, AckedLettersStayAway
  <1>1. ASSUME NEW l \in Letters, NEW S \in SUBSET Users, PushNotify(l, S)
        PROVE  MailInv'
    <2>1. MailTypeOK'
      BY <1>1 DEF PushNotify
    <2>2. UnstoredUnseen'
      BY <1>1 DEF PushNotify
    <2>3. BulkWork'
      BY <1>1 DEF PushNotify
    <2>4. ASSUME NEW k \in Letters, NEW v \in Users PROVE StoredFor(k, v)'
      <3>1. CASE k = l
        <4>1. todo'[l] = S /\ addressees'[l] = S
          BY <1>1 DEF PushNotify
        <4>2. l \notin mail'[v]
          BY <1>1 DEF PushNotify
        <4> QED BY <3>1, <4>1, <4>2 DEF StoredFor
      <3>2. CASE k # l
        BY <1>1, <3>2 DEF PushNotify, StoredFor
      <3> QED BY <3>1, <3>2
    <2>5. AckedWereSeen' /\ AckedLettersStayAway'
      BY <1>1 DEF PushNotify
    <2> QED BY <2>1, <2>2, <2>3, <2>4, <2>5
  <1>2. ASSUME NEW l \in Letters, NEW u \in Users, SendLetterToMail(l, u)
        PROVE  MailInv'
    <2>1. MailTypeOK'
      BY <1>2 DEF SendLetterToMail
    <2>2. UnstoredUnseen'
      BY <1>2 DEF SendLetterToMail
    <2>3. BulkWork'
      BY <1>2 DEF SendLetterToMail
    <2>4. ASSUME NEW k \in Letters, NEW v \in Users PROVE StoredFor(k, v)'
      BY <1>2 DEF SendLetterToMail, StoredFor
    <2>5. AckedWereSeen' /\ AckedLettersStayAway'
      BY <1>2 DEF SendLetterToMail
    <2> QED BY <2>1, <2>2, <2>3, <2>4, <2>5
  <1>3. ASSUME NEW l \in Letters, BulkEnds(l) PROVE MailInv'
    BY <1>3 DEF StoredFor, BulkEnds
  <1>4. ASSUME NEW l \in Letters, PushToClients(l, Online) PROVE MailInv'
    BY <1>4 DEF StoredFor, PushToClients, Online
  <1>5. ASSUME NEW l \in Letters, NEW u \in Users, ReceiveLetter(l, u)
        PROVE  MailInv'
    BY <1>5 DEF StoredFor, ReceiveLetter
  <1>6. ASSUME NEW u \in Users, PeekLetters(u) PROVE MailInv'
    BY <1>6 DEF StoredFor, PeekLetters
  <1>7. ASSUME NEW u \in Users, NEW S \in SUBSET Letters, RemoveLetter(u, S)
        PROVE  MailInv'
    BY <1>7 DEF StoredFor, RemoveLetter
  <1> QED BY <1>1, <1>2, <1>3, <1>4, <1>5, <1>6, <1>7 DEF MailNext, Online
-----------------------------------------------------------------------------
(* The pushIds.                                                            *)

\* A registered connection is one of its user, and is the only one "on".
Registry ==
    /\ \A u \in Users : reg[u] # NoConn =>
          UserOf[reg[u]] = u /\ phase[reg[u]] = "on"
    /\ \A c \in Conns : phase[c] = "on" => reg[UserOf[c]] = c

\* An update is for a user, and writes the copy of a connection of this user.
Updates ==
    \A p \in Updaters :
        /\ upc[p] # "idle" => job[p].user \in Users /\ job[p].id \in PushIds
        /\ upc[p] = "set" =>
              job[p].conn \in Conns /\ UserOf[job[p].conn] = job[p].user

\* Without doubt, a user has at most one update under way, of the value that
\* user_info has ...
LatestUpdate ==
    \A p \in Updaters : (upc[p] # "idle" /\ job[p].user \notin doubt) =>
        /\ job[p].id = dbPushId[job[p].user]
        /\ \A q \in Updaters :
              (upc[q] # "idle" /\ job[q].user = job[p].user) => q = p

\* ... a login under way has loaded this value ...
LoadedCurrent ==
    \A c \in Conns : (phase[c] = "loaded" /\ UserOf[c] \notin doubt) =>
        lpush[c] = Current(UserOf[c])

\* ... and the registered connection has it or is about to get it.
CopyCurrent ==
    \A u \in Users : (reg[u] # NoConn /\ u \notin doubt) =>
        \/ lpush[reg[u]] = Current(u)
        \/ \E p \in Updaters :
              /\ job[p].user = u
              /\ upc[p] = "get" \/ (upc[p] = "set" /\ job[p].conn = reg[u])

IdTypeOK ==
    /\ dbPushId \in [Users -> PushIds \cup {NoPushId}]
    /\ lpush \in [Conns -> PushIds \cup Users \cup {NoPushId}]
    /\ allow \subseteq Conns
    /\ phase \in [Conns -> {"new", "loaded", "on", "gone"}]
    /\ reg \in [Users -> Conns \cup {NoConn}]
    /\ upc \in [Updaters -> {"idle", "get", "set"}]
    /\ job \in [Updaters -> Jobs]
    /\ updates \in 0..MaxUpdates
    /\ doubt \subseteq Users

IdInv ==
    IdTypeOK /\ Registry /\ Updates /\ LatestUpdate /\ LoadedCurrent /\ CopyCurrent

LEMMA InitIdInv == PushInit => IdInv
  BY MarkerAssumption, BoundAssumption
  DEF PushInit, IdInv, IdTypeOK, Registry, Updates, LatestUpdate, LoadedCurrent,
      CopyCurrent, Jobs, NoJob

LEMMA IdStep ==
    ASSUME IdInv, PushNext \/ \E c \in Conns : Close(c) PROVE IdInv'
  <1> USE MarkerAssumption, UserOfAssumption, BoundAssumption
      DEF IdInv, IdTypeOK, Registry, Updates, LatestUpdate, LoadedCurrent,
          CopyCurrent, Current
  <1>1. ASSUME NEW c \in Conns, LoadUserInfo(c) PROVE IdInv'
    BY <1>1 DEF LoadUserInfo
  <1>2. ASSUME NEW c \in Conns, Register(c) PROVE IdInv'
    BY <1>2 DEF Register
  <1>3. ASSUME NEW c \in Conns, Close(c) PROVE IdInv'
    BY <1>3 DEF Close
  <1>4. ASSUME NEW p \in Updaters, NEW u \in Users, NEW id \in PushIds,
               UpdatePushId(p, u, id)
        PROVE  IdInv'
    BY <1>4 DEF UpdatePushId, Loading, Updating, Jobs
  <1>5. ASSUME NEW p \in Updaters, UpdateGet(p) PROVE IdInv'
    BY <1>5 DEF UpdateGet, Jobs, NoJob
  <1>6. ASSUME NEW p \in Updaters, UpdateSet(p) PROVE IdInv'
    BY <1>6 DEF UpdateSet, Jobs, NoJob
  <1>7. ASSUME NEW u \in Users, NEW on \in BOOLEAN, SetOffNotify(u, on)
        PROVE  IdInv'
    BY <1>7 DEF SetOffNotify
  <1>8. ASSUME UNCHANGED idVars PROVE IdInv'
    BY <1>8 DEF idVars
  <1> QED
    BY <1>1, <1>2, <1>3, <1>4, <1>5, <1>6, <1>7, <1>8
    DEF PushNext, CheckAndPush, ObtainLoad, ObtainSwap

-----------------------------------------------------------------------------
(* The pool.                                                               *)

PoolTypeOK ==
    /\ gpc \in [Pushers -> {"idle", "load", "cas"}]
    /\ now \in [Pushers -> Slots]
    /\ baton \in Slots
    /\ turns \in [Slots -> Nat]
    /\ pushes \in 0..MaxPushes

PoolInv == PoolTypeOK /\ EvenlyUsed

\* The turn after the last sender is the first one's.
LEMMA NextTurn ==
    ASSUME NEW b \in Slots
    PROVE  (b + 1) % Size = IF b = Size - 1 THEN 0 ELSE b + 1
  BY SizeAssumption DEF Slots

LEMMA InitPoolInv == PushInit => PoolInv
  BY SizeAssumption, BoundAssumption
  DEF PushInit, PoolInv, PoolTypeOK, EvenlyUsed, Slots

LEMMA PoolStep ==
    ASSUME PoolInv, PushNext \/ \E c \in Conns : Close(c) PROVE PoolInv'
  <1> USE SizeAssumption, BoundAssumption DEF PoolInv, PoolTypeOK
  <1>1. ASSUME NEW g \in Pushers, NEW u \in Users, CheckAndPush(g, u)
        PROVE  PoolInv'
    BY <1>1 DEF CheckAndPush, EvenlyUsed, Slots
  <1>2. ASSUME NEW g \in Pushers, ObtainLoad(g) PROVE PoolInv'
    BY <1>2 DEF ObtainLoad, EvenlyUsed, Slots
  <1>3. ASSUME NEW g \in Pushers, ObtainSwap(g) PROVE PoolInv'
    <2>1. CASE baton = now[g]
      <3>1. /\ baton' = IF baton = Size - 1 THEN 0 ELSE baton + 1
            /\ turns' = [turns EXCEPT ![baton'] = @ + 1]
            /\ gpc' = [gpc EXCEPT ![g] = "idle"]
            /\ UNCHANGED <<now, pushes>>
        BY <1>3, <2>1, NextTurn DEF ObtainSwap
      <3>2. PoolTypeOK'
        BY <3>1 DEF Slots
      <3>3. CASE baton = Size - 1
        BY <3>1, <3>2, <3>3 DEF EvenlyUsed, Slots
      <3>4. CASE baton # Size - 1
        BY <3>1, <3>2, <3>4 DEF EvenlyUsed, Slots
      <3> QED BY <3>2, <3>3, <3>4
    <2>2. CASE baton # now[g]
      BY <1>3, <2>2 DEF ObtainSwap, EvenlyUsed, Slots
    <2> QED BY <2>1, <2>2
  <1>4. ASSUME UNCHANGED poolVars PROVE PoolInv'
    BY <1>4 DEF poolVars, EvenlyUsed, Slots
  <1> QED
    BY <1>1, <1>2, <1>3, <1>4
    DEF PushNext, LoadUserInfo, Register, Close, UpdatePushId, UpdateGet,
        UpdateSet, SetOffNotify

-----------------------------------------------------------------------------
(* The composition.                                                        *)

IInv == IdInv /\ PoolInv /\ MailInv

LEMMA InitIInv == Init => IInv
  BY InitIdInv, InitPoolInv, InitMailInv DEF Init, IInv

LEMMA NextIInv == IInv /\ [Next]_vars => IInv'
  <1> SUFFICES ASSUME IInv, [Next]_vars PROVE IInv'
    OBVIOUS
  <1> USE DEF IInv
  <1>1. CASE PushNext /\ UNCHANGED letters
    <2>1. MailInv'
      BY <1>1 DEF letters, MailInv, MailTypeOK, UnstoredUnseen, BulkWork,
         StoredSoFar, StoredFor, AckedWereSeen, AckedLettersStayAway
    <2> QED BY <1>1, <2>1, IdStep, PoolStep
  <1>2. CASE MailNext(Online) /\ UNCHANGED <<idVars, poolVars>>
    <2>1. IdInv'
      BY <1>2 DEF idVars, IdInv, IdTypeOK, Registry, Updates, LatestUpdate,
         LoadedCurrent, CopyCurrent, Current
    <2>2. PoolInv'
      BY <1>2 DEF poolVars, PoolInv, PoolTypeOK, EvenlyUsed
    <2> QED BY <1>2, <2>1, <2>2, MailStep
  <1>3. CASE \E c \in Conns : Disconnect(c)
    <2>1. MailInv'
      BY <1>3 DEF Disconnect, DropPushes, MailInv, MailTypeOK, UnstoredUnseen,
         BulkWork, StoredSoFar, StoredFor, AckedWereSeen, AckedLettersStayAway
    <2> QED BY <1>3, <2>1, IdStep, PoolStep DEF Disconnect
  <1>4. CASE UNCHANGED vars
    <2>1. IdInv'
      BY <1>4 DEF vars, idVars, IdInv, IdTypeOK, Registry, Updates, LatestUpdate,
         LoadedCurrent, CopyCurrent, Current
    <2>2. PoolInv'
      BY <1>4 DEF vars, poolVars, PoolInv, PoolTypeOK, EvenlyUsed
    <2>3. MailInv'
      BY <1>4 DEF vars, letters, MailInv, MailTypeOK, UnstoredUnseen, BulkWork,
         StoredSoFar, StoredFor, AckedWereSeen, AckedLettersStayAway
    <2> QED BY <2>1, <2>2, <2>3
  <1> QED BY <1>1, <1>2, <1>3, <1>4 DEF Next

(* The three invariants hold in every reachable state.                     *)
THEOREM NotifyInvariant == Spec => []IInv
  <1> QED BY InitIInv, NextIInv, PTL DEF Spec

(* Every variable of the composition has its type, however many users,     *)
(* connections and letters there are (OffPush, Mail).                      *)
THEOREM NotifyTypeOK == Spec => []TypeOK
  <1>1. IInv => TypeOK
    BY DEF IInv, IdInv, IdTypeOK, PoolInv, PoolTypeOK, MailInv, TypeOK,
       PushTypeOK
  <1> QED BY <1>1, NotifyInvariant, PTL

(* CheckAndPush uses the pushId that user_info has once the logins and the *)
(* updates of a connected user are through, except after the overlaps that *)
(* doubt records (cmd_interface.go:361-369, client.go:175-194).            *)
THEOREM PushIdStaysCurrent == Spec => []PushIdCurrent
  <1>1. IInv => PushIdCurrent
    BY DEF IInv, IdInv, IdTypeOK, CopyCurrent, PushIdCurrent, Online, Updating
  <1> QED BY <1>1, NotifyInvariant, PTL

(* The compare-and-swap on the baton makes the senders take turns, however *)
(* many goroutines obtain one at once (offpush.go:34-47).                  *)
THEOREM SendersTakeTurns == Spec => []EvenlyUsed
  <1>1. IInv => EvenlyUsed
    BY DEF IInv, PoolInv
  <1> QED BY <1>1, NotifyInvariant, PTL

(* An acknowledged letter never comes back into the mailbox, though three  *)
(* goroutines store, push and acknowledge it (cmd_interface.go:510-514).   *)
THEOREM AckedLettersGone == Spec => []AckedLettersStayAway
  <1>1. IInv => AckedLettersStayAway
    BY DEF IInv, MailInv
  <1> QED BY <1>1, NotifyInvariant, PTL

(* A letter stays in the mailbox of every addressee until acknowledged,    *)
(* unless its bulk failed before that mailbox, and reaches nobody else     *)
(* (mail/api.go:38-56).                                                    *)
THEOREM LettersAreKept == Spec => []LettersKept
  <1>1. IInv => LettersKept
    BY DEF IInv, MailInv, MailTypeOK, StoredSoFar, StoredFor, BulkWork,
       LettersKept
  <1> QED BY <1>1, NotifyInvariant, PTL
=============================================================================
