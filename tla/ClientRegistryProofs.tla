------------------------ MODULE ClientRegistryProofs ------------------------
(***************************************************************************)
(* Proofs about ClientRegistry, for any set of connections and users and   *)
(* any number of setuuid commands per connection.  The invariant IInv is   *)
(* inductive: one lemma per action, then the theorems.                     *)
(***************************************************************************)
EXTENDS ClientRegistry, TLAPS

(* A goroutine is determined by its connection and its number.             *)
LEMMA ProcFacts ==
    /\ \A p \in Procs : Conn(p) \in Conns /\ p[2] \in 0..MaxSetuuid
    /\ \A p, q \in Procs : Conn(p) = Conn(q) /\ p[2] = q[2] => p = q
    /\ \A c \in Conns, k \in 0..MaxSetuuid :
          <<c, k>> \in Procs /\ Conn(<<c, k>>) = c /\ <<c, k>>[2] = k
    /\ \A c \in Conns : ReaderOf(c) \in Procs /\ IsReader(ReaderOf(c))
                        /\ Conn(ReaderOf(c)) = c
    /\ \A p \in Procs : IsReader(p) => p = ReaderOf(Conn(p))
    /\ Free \notin Procs
  BY SetuuidAssumption, FreeAssumption DEF Procs, Conn, ReaderOf, IsReader

(* The server starts with no connection and an empty table.                *)
LEMMA InitIInv == Init => IInv
  BY ProcFacts, NoConnAssumption, NoUuidAssumption, SetuuidAssumption
  DEF Init, IInv, TypeOK, LockOwner, OwnLabels, StateUnderLock, Unaccepted,
      AfterSetuuid, CloseArg, RegisteredUnderOwnUuid, RemovedWhenClosed,
      DeletesOwnEntry, LatestLoginReachable, RegisteredOnce, Registered, Keys,
      Labels,
      InRemove, Critical

-----------------------------------------------------------------------------
(* Each action preserves IInv.                                             *)

(* A new connection has no goroutine but its reader.                       *)
LEMMA AcceptIInv ==
    ASSUME IInv, NEW c \in Conns, Accept(c) PROVE IInv'
  <1> USE ProcFacts, NoConnAssumption, NoUuidAssumption, SetuuidAssumption
      DEF Accept, Goto, connVars, hist, IInv, TypeOK, Registered, IsClient,
          InRemove, Critical
  <1>1. TypeOK'
    <2>1. state' \in [Conns -> {"none", "create", "init_done", "dead"}]
      OBVIOUS
    <2>2. pc' \in [Procs -> Labels]
      BY DEF Labels
    <2>3. \A q \in Procs : pc'[q] \in InRemove => cli'[q] \in Conns
      BY DEF Keys
    <2> QED BY <2>1, <2>2, <2>3
  <1>2. LockOwner'
    BY DEF LockOwner
  <1>3. OwnLabels'
    BY DEF OwnLabels
  <1>4. StateUnderLock'
    BY DEF StateUnderLock, Unaccepted
  <1>5. Unaccepted'
    BY DEF Unaccepted
  <1>6. AfterSetuuid'
    BY DEF AfterSetuuid
  <1>7. CloseArg'
    BY DEF CloseArg
  <1>8. RegisteredUnderOwnUuid'
    BY DEF RegisteredUnderOwnUuid
  <1>9. RemovedWhenClosed'
    BY DEF RemovedWhenClosed, Unaccepted
  <1>10. DeletesOwnEntry'
    BY DEF DeletesOwnEntry
  <1>11. LatestLoginReachable'
    BY DEF LatestLoginReachable
  <1>12. RegisteredOnce'
    BY DEF RegisteredOnce
  <1> QED BY <1>1, <1>2, <1>3, <1>4, <1>5, <1>6, <1>7, <1>8, <1>9, <1>10, <1>11,
             <1>12

(* Only the identity bits change, while the reader reads.                  *)
LEMMA AuthClientIInv ==
    ASSUME IInv, NEW c \in Conns, AuthClient(c) PROVE IInv'
  <1> USE ProcFacts, NoConnAssumption, NoUuidAssumption, SetuuidAssumption
      DEF AuthClient, SetType, Goto, connVars, hist, IInv, TypeOK, Registered,
          IsClient,
          InRemove, Critical
  <1>1. TypeOK'
    <2>1. type' \in [Conns -> SUBSET {"client", "server"}]
      OBVIOUS
    <2>2. \A q \in Procs : pc'[q] \in InRemove => cli'[q] \in Conns
      BY DEF Keys
    <2> QED BY <2>1, <2>2
  <1>2. LockOwner'
    BY DEF LockOwner
  <1>3. OwnLabels'
    BY DEF OwnLabels
  <1>4. StateUnderLock'
    BY DEF StateUnderLock
  <1>5. Unaccepted'
    BY DEF Unaccepted
  <1>6. AfterSetuuid'
    BY DEF AfterSetuuid
  <1>7. CloseArg'
    BY DEF CloseArg
  <1>8. RegisteredUnderOwnUuid'
    BY DEF RegisteredUnderOwnUuid
  <1>9. RemovedWhenClosed'
    BY DEF RemovedWhenClosed
  <1>10. DeletesOwnEntry'
    BY DEF DeletesOwnEntry
  <1>11. LatestLoginReachable'
    BY DEF LatestLoginReachable
  <1>12. RegisteredOnce'
    BY DEF RegisteredOnce
  <1> QED BY <1>1, <1>2, <1>3, <1>4, <1>5, <1>6, <1>7, <1>8, <1>9, <1>10, <1>11,
             <1>12

(* Likewise.                                                               *)
LEMMA AuthServerIInv ==
    ASSUME IInv, NEW c \in Conns, AuthServer(c) PROVE IInv'
  <1> USE ProcFacts, NoConnAssumption, NoUuidAssumption, SetuuidAssumption
      DEF AuthServer, SetType, Goto, connVars, hist, IInv, TypeOK, Registered,
          IsClient,
          InRemove, Critical
  <1>1. TypeOK'
    <2>1. type' \in [Conns -> SUBSET {"client", "server"}]
      OBVIOUS
    <2>2. \A q \in Procs : pc'[q] \in InRemove => cli'[q] \in Conns
      BY DEF Keys
    <2> QED BY <2>1, <2>2
  <1>2. LockOwner'
    BY DEF LockOwner
  <1>3. OwnLabels'
    BY DEF OwnLabels
  <1>4. StateUnderLock'
    BY DEF StateUnderLock
  <1>5. Unaccepted'
    BY DEF Unaccepted
  <1>6. AfterSetuuid'
    BY DEF AfterSetuuid
  <1>7. CloseArg'
    BY DEF CloseArg
  <1>8. RegisteredUnderOwnUuid'
    BY DEF RegisteredUnderOwnUuid
  <1>9. RemovedWhenClosed'
    BY DEF RemovedWhenClosed
  <1>10. DeletesOwnEntry'
    BY DEF DeletesOwnEntry
  <1>11. LatestLoginReachable'
    BY DEF LatestLoginReachable
  <1>12. RegisteredOnce'
    BY DEF RegisteredOnce
  <1> QED BY <1>1, <1>2, <1>3, <1>4, <1>5, <1>6, <1>7, <1>8, <1>9, <1>10, <1>11,
             <1>12

(* Likewise.                                                               *)
LEMMA TokenErrorIInv ==
    ASSUME IInv, NEW c \in Conns, TokenError(c) PROVE IInv'
  <1> USE ProcFacts, NoConnAssumption, NoUuidAssumption, SetuuidAssumption
      DEF TokenError, SetType, Goto, connVars, hist, IInv, TypeOK, Registered,
          IsClient,
          InRemove, Critical
  <1>1. TypeOK'
    <2>1. type' \in [Conns -> SUBSET {"client", "server"}]
      OBVIOUS
    <2>2. \A q \in Procs : pc'[q] \in InRemove => cli'[q] \in Conns
      BY DEF Keys
    <2> QED BY <2>1, <2>2
  <1>2. LockOwner'
    BY DEF LockOwner
  <1>3. OwnLabels'
    BY DEF OwnLabels
  <1>4. StateUnderLock'
    BY DEF StateUnderLock
  <1>5. Unaccepted'
    BY DEF Unaccepted
  <1>6. AfterSetuuid'
    BY DEF AfterSetuuid
  <1>7. CloseArg'
    BY DEF CloseArg
  <1>8. RegisteredUnderOwnUuid'
    BY DEF RegisteredUnderOwnUuid
  <1>9. RemovedWhenClosed'
    BY DEF RemovedWhenClosed
  <1>10. DeletesOwnEntry'
    BY DEF DeletesOwnEntry
  <1>11. LatestLoginReachable'
    BY DEF LatestLoginReachable
  <1>12. RegisteredOnce'
    BY DEF RegisteredOnce
  <1> QED BY <1>1, <1>2, <1>3, <1>4, <1>5, <1>6, <1>7, <1>8, <1>9, <1>10, <1>11,
             <1>12

(* The uuid changes only before the first registration, or is no longer
   the only one (inits > 1).                                             *)
LEMMA SetUuidIInv ==
    ASSUME IInv, NEW c \in Conns, NEW u \in Uuids, SetUuid(c, u) PROVE IInv'
  <1> USE ProcFacts, NoConnAssumption, NoUuidAssumption, SetuuidAssumption
      DEF SetUuid, Goto, connVars, hist, IInv, TypeOK, Registered, IsClient,
          InRemove, Critical
  <1>1. TypeOK'
    <2>1. uuid' \in [Conns -> Keys]
      BY DEF Keys
    <2>2. inits' \in [Conns -> 0..MaxSetuuid]
      OBVIOUS
    <2>3. pc' \in [Procs -> Labels]
      BY DEF Labels
    <2>4. \A q \in Procs : pc'[q] \in InRemove => cli'[q] \in Conns
      BY DEF Keys
    <2> QED BY <2>1, <2>2, <2>3, <2>4
  <1>2. LockOwner'
    BY DEF LockOwner
  <1>3. OwnLabels'
    BY DEF OwnLabels
  <1>4. StateUnderLock'
    BY DEF StateUnderLock
  <1>5. Unaccepted'
    BY DEF Unaccepted
  <1>6. AfterSetuuid'
    BY DEF AfterSetuuid, Keys
  <1>7. CloseArg'
    BY DEF CloseArg
  <1>8. RegisteredUnderOwnUuid'
    BY DEF RegisteredUnderOwnUuid, AfterSetuuid, Keys
  <1>9. RemovedWhenClosed'
    BY DEF RemovedWhenClosed, AfterSetuuid
  <1>10. DeletesOwnEntry'
    BY DEF DeletesOwnEntry
  <1>11. LatestLoginReachable'
    BY DEF LatestLoginReachable
  <1>12. RegisteredOnce'
    BY DEF RegisteredOnce
  <1> QED BY <1>1, <1>2, <1>3, <1>4, <1>5, <1>6, <1>7, <1>8, <1>9, <1>10, <1>11,
             <1>12

(* The reader has not entered Close yet.                                   *)
LEMMA ReadErrorIInv ==
    ASSUME IInv, NEW c \in Conns, ReadError(c) PROVE IInv'
  <1> USE ProcFacts, NoConnAssumption, NoUuidAssumption, SetuuidAssumption
      DEF ReadError, Goto, connVars, hist, IInv, TypeOK, Registered, IsClient,
          InRemove, Critical
  <1>1. TypeOK'
    <2>1. pc' \in [Procs -> Labels]
      BY DEF Labels
    <2>2. \A q \in Procs : pc'[q] \in InRemove => cli'[q] \in Conns
      BY DEF Keys
    <2> QED BY <2>1, <2>2
  <1>2. LockOwner'
    BY DEF LockOwner
  <1>3. OwnLabels'
    BY DEF OwnLabels
  <1>4. StateUnderLock'
    BY DEF StateUnderLock
  <1>5. Unaccepted'
    BY DEF Unaccepted
  <1>6. AfterSetuuid'
    BY DEF AfterSetuuid
  <1>7. CloseArg'
    BY DEF CloseArg
  <1>8. RegisteredUnderOwnUuid'
    BY DEF RegisteredUnderOwnUuid
  <1>9. RemovedWhenClosed'
    BY DEF RemovedWhenClosed
  <1>10. DeletesOwnEntry'
    BY DEF DeletesOwnEntry
  <1>11. LatestLoginReachable'
    BY DEF LatestLoginReachable
  <1>12. RegisteredOnce'
    BY DEF RegisteredOnce
  <1> QED BY <1>1, <1>2, <1>3, <1>4, <1>5, <1>6, <1>7, <1>8, <1>9, <1>10, <1>11,
             <1>12

(* No initChatEnv of this connection is inside: clientLock was free.       *)
LEMMA CloseLockIInv ==
    ASSUME IInv, NEW c \in Conns, CloseLock(c) PROVE IInv'
  <1> USE ProcFacts, NoConnAssumption, NoUuidAssumption, SetuuidAssumption
      DEF CloseLock, Goto, connVars, hist, IInv, TypeOK, Registered, IsClient,
          InRemove, Critical
  <1>1. TypeOK'
    <2>1. state' \in [Conns -> {"none", "create", "init_done", "dead"}]
      OBVIOUS
  <2>2. pc' \in [Procs -> Labels]
      <3>1. PICK l \in Labels : pc' = [pc EXCEPT ![ReaderOf(c)] = l]
        BY DEF Labels
      <3> QED BY <3>1
    <2>3. clientLock' \in [Conns -> Procs \cup {Free}]
      OBVIOUS
    <2>4. arg' \in [Procs -> Keys]
      BY DEF Keys
    <2>5. \A q \in Procs : pc'[q] \in InRemove => cli'[q] \in Conns
      BY DEF Keys
    <2> QED BY <2>1, <2>2, <2>3, <2>4, <2>5
  <1>2. LockOwner'
    BY DEF LockOwner
  <1>3. OwnLabels'
    BY DEF OwnLabels
  <1>4. StateUnderLock'
    BY DEF StateUnderLock, LockOwner
  <1>5. Unaccepted'
    BY DEF Unaccepted
  <1>6. AfterSetuuid'
    BY DEF AfterSetuuid, StateUnderLock
  <1>7. CloseArg'
    BY DEF CloseArg
  <1>8. RegisteredUnderOwnUuid'
    BY DEF RegisteredUnderOwnUuid
<1>9. RemovedWhenClosed'
    <2>1. IsClient(c) => pc'[ReaderOf(c)] = "get"
      OBVIOUS
    <2>2. \A d \in Conns : d # c => pc'[ReaderOf(d)] = pc[ReaderOf(d)]
      OBVIOUS
    <2> QED BY <2>1, <2>2 DEF RemovedWhenClosed
<1>10. DeletesOwnEntry'
    <2>1. ASSUME NEW q \in Procs, pc'[q] = "delete"
          PROVE  pc[q] = "delete" /\ arg'[q] = arg[q]
      BY <2>1
    <2> QED BY <2>1 DEF DeletesOwnEntry
  <1>11. LatestLoginReachable'
    BY DEF LatestLoginReachable
  <1>12. RegisteredOnce'
    BY DEF RegisteredOnce
  <1> QED BY <1>1, <1>2, <1>3, <1>4, <1>5, <1>6, <1>7, <1>8, <1>9, <1>10, <1>11,
             <1>12

(* The entry was removed before.                                           *)
LEMMA ConnCloseIInv ==
    ASSUME IInv, NEW c \in Conns, ConnClose(c) PROVE IInv'
  <1> USE ProcFacts, NoConnAssumption, NoUuidAssumption, SetuuidAssumption
      DEF ConnClose, Goto, connVars, hist, IInv, TypeOK, Registered, IsClient,
          InRemove, Critical
  <1>1. TypeOK'
    <2>1. pc' \in [Procs -> Labels]
      BY DEF Labels
    <2>2. clientLock' \in [Conns -> Procs \cup {Free}]
      OBVIOUS
    <2>3. \A q \in Procs : pc'[q] \in InRemove => cli'[q] \in Conns
      BY DEF Keys
    <2> QED BY <2>1, <2>2, <2>3
  <1>2. LockOwner'
    BY DEF LockOwner
  <1>3. OwnLabels'
    BY DEF OwnLabels
  <1>4. StateUnderLock'
    BY DEF StateUnderLock
  <1>5. Unaccepted'
    BY DEF Unaccepted
  <1>6. AfterSetuuid'
    BY DEF AfterSetuuid
  <1>7. CloseArg'
    BY DEF CloseArg
  <1>8. RegisteredUnderOwnUuid'
    BY DEF RegisteredUnderOwnUuid
  <1>9. RemovedWhenClosed'
    BY DEF RemovedWhenClosed
  <1>10. DeletesOwnEntry'
    BY DEF DeletesOwnEntry
  <1>11. LatestLoginReachable'
    BY DEF LatestLoginReachable
  <1>12. RegisteredOnce'
    BY DEF RegisteredOnce
  <1> QED BY <1>1, <1>2, <1>3, <1>4, <1>5, <1>6, <1>7, <1>8, <1>9, <1>10, <1>11,
             <1>12

(* If the uuid is absent, the connection is not registered under it.       *)
LEMMA RemoveGetIInv ==
    ASSUME IInv, NEW p \in Procs, RemoveGet(p) PROVE IInv'
  <1> USE ProcFacts, NoConnAssumption, NoUuidAssumption, SetuuidAssumption
      DEF RemoveGet, AfterRemove, Goto, connVars, hist, IInv, TypeOK,
          Registered, IsClient,
          InRemove, Critical
  <1>1. TypeOK'
    <2>0. AfterRemove(p) \in Labels
      BY DEF Labels
    <2>1. pc' \in [Procs -> Labels]
      BY <2>0 DEF Labels
    <2>2. cli' \in [Procs -> Conns \cup {NoConn}]
      OBVIOUS
    <2>3. \A q \in Procs : pc'[q] \in InRemove => cli'[q] \in Conns
      BY DEF Keys
    <2> QED BY <2>1, <2>2, <2>3
  <1>2. LockOwner'
    BY DEF LockOwner
  <1>3. OwnLabels'
    BY DEF OwnLabels
  <1>4. StateUnderLock'
    BY DEF StateUnderLock
  <1>5. Unaccepted'
    BY DEF Unaccepted
  <1>6. AfterSetuuid'
    BY DEF AfterSetuuid
  <1>7. CloseArg'
    BY DEF CloseArg
  <1>8. RegisteredUnderOwnUuid'
    BY DEF RegisteredUnderOwnUuid
  <1>9. RemovedWhenClosed'
    BY DEF RemovedWhenClosed, CloseArg, RegisteredUnderOwnUuid, Keys
  <1>10. DeletesOwnEntry'
    BY DEF DeletesOwnEntry
  <1>11. LatestLoginReachable'
    BY DEF LatestLoginReachable
  <1>12. RegisteredOnce'
    BY DEF RegisteredOnce
  <1> QED BY <1>1, <1>2, <1>3, <1>4, <1>5, <1>6, <1>7, <1>8, <1>9, <1>10, <1>11,
             <1>12

(* The mutex protects the comparison only.                                 *)
LEMMA RemoveLockIInv ==
    ASSUME IInv, NEW p \in Procs, RemoveLock(p) PROVE IInv'
  <1> USE ProcFacts, NoConnAssumption, NoUuidAssumption, SetuuidAssumption
      DEF RemoveLock, Goto, connVars, hist, IInv, TypeOK, Registered, IsClient,
          InRemove, Critical
  <1>1. TypeOK'
    <2>1. pc' \in [Procs -> Labels]
      BY DEF Labels
    <2>2. mutex' \in [Conns -> Procs \cup {Free}]
      OBVIOUS
    <2>3. \A q \in Procs : pc'[q] \in InRemove => cli'[q] \in Conns
      BY DEF Keys
    <2> QED BY <2>1, <2>2, <2>3
  <1>2. LockOwner'
    BY DEF LockOwner
  <1>3. OwnLabels'
    BY DEF OwnLabels
  <1>4. StateUnderLock'
    BY DEF StateUnderLock
  <1>5. Unaccepted'
    BY DEF Unaccepted
  <1>6. AfterSetuuid'
    BY DEF AfterSetuuid
  <1>7. CloseArg'
    BY DEF CloseArg
  <1>8. RegisteredUnderOwnUuid'
    BY DEF RegisteredUnderOwnUuid
  <1>9. RemovedWhenClosed'
    BY DEF RemovedWhenClosed
  <1>10. DeletesOwnEntry'
    BY DEF DeletesOwnEntry
  <1>11. LatestLoginReachable'
    BY DEF LatestLoginReachable
  <1>12. RegisteredOnce'
    BY DEF RegisteredOnce
  <1> QED BY <1>1, <1>2, <1>3, <1>4, <1>5, <1>6, <1>7, <1>8, <1>9, <1>10, <1>11,
             <1>12

(* The comparison is what DeletesOwnEntry records.                         *)
LEMMA RemoveRecheckIInv ==
    ASSUME IInv, NEW p \in Procs, RemoveRecheck(p) PROVE IInv'
  <1> USE ProcFacts, NoConnAssumption, NoUuidAssumption, SetuuidAssumption
      DEF RemoveRecheck, AfterRemove, Goto, connVars, hist, IInv, TypeOK,
          Registered, IsClient,
          InRemove, Critical
  <1>1. TypeOK'
    <2>0. AfterRemove(p) \in Labels
      BY DEF Labels
  <2>1. pc' \in [Procs -> Labels]
      <3>1. PICK l \in Labels : pc' = [pc EXCEPT ![p] = l]
        BY <2>0 DEF Labels
      <3> QED BY <3>1
    <2>2. mutex' \in [Conns -> Procs \cup {Free}]
      OBVIOUS
    <2>3. \A q \in Procs : pc'[q] \in InRemove => cli'[q] \in Conns
      BY DEF Keys
    <2> QED BY <2>1, <2>2, <2>3
  <1>2. LockOwner'
    BY DEF LockOwner
  <1>3. OwnLabels'
    BY DEF OwnLabels
  <1>4. StateUnderLock'
    BY DEF StateUnderLock
  <1>5. Unaccepted'
    BY DEF Unaccepted
  <1>6. AfterSetuuid'
    BY DEF AfterSetuuid
  <1>7. CloseArg'
    BY DEF CloseArg
  <1>8. RegisteredUnderOwnUuid'
    BY DEF RegisteredUnderOwnUuid
  <1>9. RemovedWhenClosed'
    BY DEF RemovedWhenClosed, CloseArg, RegisteredUnderOwnUuid, Keys
  <1>10. DeletesOwnEntry'
    BY DEF DeletesOwnEntry
  <1>11. LatestLoginReachable'
    BY DEF LatestLoginReachable
  <1>12. RegisteredOnce'
    BY DEF RegisteredOnce
  <1> QED BY <1>1, <1>2, <1>3, <1>4, <1>5, <1>6, <1>7, <1>8, <1>9, <1>10, <1>11,
             <1>12

(* What is deleted is one's own entry, or the registration was raced.      *)
LEMMA RemoveDeleteIInv ==
    ASSUME IInv, NEW p \in Procs, RemoveDelete(p) PROVE IInv'
  <1> USE ProcFacts, NoConnAssumption, NoUuidAssumption, SetuuidAssumption
      DEF RemoveDelete, AfterRemove, Goto, connVars, hist, IInv, TypeOK,
          Registered, IsClient,
          InRemove, Critical
  <1>1. TypeOK'
    <2>0. AfterRemove(p) \in Labels
      BY DEF Labels
    <2>1. pc' \in [Procs -> Labels]
      BY <2>0 DEF Labels
    <2>2. mutex' \in [Conns -> Procs \cup {Free}]
      OBVIOUS
    <2>3. uuidToClient' \in [Keys -> Conns \cup {NoConn}]
      BY DEF Keys
    <2>4. \A q \in Procs : pc'[q] \in InRemove => cli'[q] \in Conns
      BY DEF Keys
    <2> QED BY <2>1, <2>2, <2>3, <2>4
  <1>2. LockOwner'
    BY DEF LockOwner
  <1>3. OwnLabels'
    BY DEF OwnLabels
  <1>4. StateUnderLock'
    BY DEF StateUnderLock
  <1>5. Unaccepted'
    BY DEF Unaccepted
  <1>6. AfterSetuuid'
    BY DEF AfterSetuuid, Keys
  <1>7. CloseArg'
    BY DEF CloseArg
  <1>8. RegisteredUnderOwnUuid'
    BY DEF RegisteredUnderOwnUuid, Keys
  <1>9. RemovedWhenClosed'
    BY DEF RemovedWhenClosed, CloseArg, RegisteredUnderOwnUuid, Keys
  <1>10. DeletesOwnEntry'
    BY DEF DeletesOwnEntry, LockOwner, Keys
<1>11. LatestLoginReachable'
    <2> SUFFICES ASSUME NEW u \in Keys, NEW d \in Conns, lastReg[u] = d,
                        state[d] = "init_done", ~raced[u], u = arg[p]
                 PROVE  FALSE
      BY DEF LatestLoginReachable
    <2>1. uuidToClient[u] = d /\ uuidToClient[u] = Conn(p)
      BY DEF LatestLoginReachable, DeletesOwnEntry
    <2>2. state[Conn(p)] \in {"create", "dead"}
      BY DEF StateUnderLock
    <2> QED BY <2>1, <2>2
  <1>12. RegisteredOnce'
    BY DEF RegisteredOnce
  <1> QED BY <1>1, <1>2, <1>3, <1>4, <1>5, <1>6, <1>7, <1>8, <1>9, <1>10, <1>11,
             <1>12

(* The state is checked under clientLock.                                  *)
LEMMA InitLockIInv ==
    ASSUME IInv, NEW p \in Procs, InitLock(p) PROVE IInv'
  <1> USE ProcFacts, NoConnAssumption, NoUuidAssumption, SetuuidAssumption
      DEF InitLock, Goto, connVars, hist, IInv, TypeOK, Registered, IsClient,
          InRemove, Critical
  <1>1. TypeOK'
  <2>1. pc' \in [Procs -> Labels]
      <3>1. PICK l \in Labels : pc' = [pc EXCEPT ![p] = l]
        BY DEF Labels
      <3> QED BY <3>1
    <2>2. clientLock' \in [Conns -> Procs \cup {Free}]
      OBVIOUS
    <2>3. \A q \in Procs : pc'[q] \in InRemove => cli'[q] \in Conns
      BY DEF Keys
    <2> QED BY <2>1, <2>2, <2>3
  <1>2. LockOwner'
    BY DEF LockOwner
  <1>3. OwnLabels'
    BY DEF OwnLabels
  <1>4. StateUnderLock'
    BY DEF StateUnderLock
  <1>5. Unaccepted'
    BY DEF Unaccepted
  <1>6. AfterSetuuid'
    BY DEF AfterSetuuid
  <1>7. CloseArg'
    BY DEF CloseArg
  <1>8. RegisteredUnderOwnUuid'
    BY DEF RegisteredUnderOwnUuid
  <1>9. RemovedWhenClosed'
    BY DEF RemovedWhenClosed
  <1>10. DeletesOwnEntry'
    BY DEF DeletesOwnEntry
  <1>11. LatestLoginReachable'
    BY DEF LatestLoginReachable
  <1>12. RegisteredOnce'
    BY DEF RegisteredOnce
  <1> QED BY <1>1, <1>2, <1>3, <1>4, <1>5, <1>6, <1>7, <1>8, <1>9, <1>10, <1>11,
             <1>12

(* The argument of Remove is read.                                         *)
LEMMA LoadUserInfoIInv ==
    ASSUME IInv, NEW p \in Procs, LoadUserInfo(p) PROVE IInv'
  <1> USE ProcFacts, NoConnAssumption, NoUuidAssumption, SetuuidAssumption
      DEF LoadUserInfo, Goto, connVars, hist, IInv, TypeOK, Registered, IsClient,
          InRemove, Critical
  <1>1. TypeOK'
    <2>1. pc' \in [Procs -> Labels]
      BY DEF Labels
    <2>2. arg' \in [Procs -> Keys]
      BY DEF Keys
    <2>3. \A q \in Procs : pc'[q] \in InRemove => cli'[q] \in Conns
      BY DEF Keys
    <2> QED BY <2>1, <2>2, <2>3
  <1>2. LockOwner'
    BY DEF LockOwner
  <1>3. OwnLabels'
    BY DEF OwnLabels
  <1>4. StateUnderLock'
    BY DEF StateUnderLock
  <1>5. Unaccepted'
    BY DEF Unaccepted
  <1>6. AfterSetuuid'
    BY DEF AfterSetuuid
  <1>7. CloseArg'
    BY DEF CloseArg, OwnLabels
  <1>8. RegisteredUnderOwnUuid'
    BY DEF RegisteredUnderOwnUuid
  <1>9. RemovedWhenClosed'
    BY DEF RemovedWhenClosed
  <1>10. DeletesOwnEntry'
    BY DEF DeletesOwnEntry
  <1>11. LatestLoginReachable'
    BY DEF LatestLoginReachable
  <1>12. RegisteredOnce'
    BY DEF RegisteredOnce
  <1> QED BY <1>1, <1>2, <1>3, <1>4, <1>5, <1>6, <1>7, <1>8, <1>9, <1>10, <1>11,
             <1>12

(* The client is in state CREATE, hence alive and registered nowhere.      *)
LEMMA AddClientIInv ==
    ASSUME IInv, NEW p \in Procs, AddClient(p) PROVE IInv'
  <1> USE ProcFacts, NoConnAssumption, NoUuidAssumption, SetuuidAssumption
      DEF AddClient, Goto, connVars, hist, IInv, TypeOK, Registered, IsClient,
          InRemove, Critical
  <1>1. TypeOK'
    <2>1. pc' \in [Procs -> Labels]
      BY DEF Labels
    <2>2. clientLock' \in [Conns -> Procs \cup {Free}]
      OBVIOUS
    <2>3. state' \in [Conns -> {"none", "create", "init_done", "dead"}]
      OBVIOUS
    <2>4. uuidToClient' \in [Keys -> Conns \cup {NoConn}]
      BY DEF Keys
    <2>5. lastReg' \in [Keys -> Conns \cup {NoConn}]
      BY DEF Keys
    <2>6. raced' \in [Keys -> BOOLEAN]
      BY DEF Keys
    <2>7. \A q \in Procs : pc'[q] \in InRemove => cli'[q] \in Conns
      BY DEF Keys
    <2> QED BY <2>1, <2>2, <2>3, <2>4, <2>5, <2>6, <2>7
  <1>2. LockOwner'
    BY DEF LockOwner
  <1>3. OwnLabels'
    BY DEF OwnLabels
  <1>4. StateUnderLock'
    <2>1. \A q \in Procs :
             (q # p /\ Conn(q) = Conn(p)) => pc[q] \notin Critical
      BY DEF LockOwner
    <2>2. \A q \in Procs : (IsReader(q) /\ pc[q] = "done") => Conn(q) # Conn(p)
      BY DEF StateUnderLock, OwnLabels
    <2>3. ~IsReader(p)
      BY DEF OwnLabels
    <2>4. \A q \in Procs :
             Conn(q) = Conn(p) => pc'[q] \notin Critical /\ (IsReader(q) => pc'[q] # "done")
      BY <2>1, <2>2, <2>3
    <2>5. \A q \in Procs : Conn(q) # Conn(p) => pc'[q] = pc[q] /\ state'[Conn(q)] = state[Conn(q)]
      OBVIOUS
    <2> QED BY <2>4, <2>5 DEF StateUnderLock
  <1>5. Unaccepted'
    BY DEF Unaccepted
  <1>6. AfterSetuuid'
    BY DEF AfterSetuuid, StateUnderLock, OwnLabels, Keys
  <1>7. CloseArg'
    BY DEF CloseArg
  <1>8. RegisteredUnderOwnUuid'
    BY DEF RegisteredUnderOwnUuid, AfterSetuuid, OwnLabels, Keys
  <1>9. RemovedWhenClosed'
    BY DEF RemovedWhenClosed, StateUnderLock, OwnLabels
  <1>10. DeletesOwnEntry'
    BY DEF DeletesOwnEntry, Keys
  <1>11. LatestLoginReachable'
    BY DEF LatestLoginReachable, AfterSetuuid, OwnLabels, StateUnderLock, Keys
  <1>12. RegisteredOnce'
    <2>1. state[Conn(p)] = "create"
      BY DEF OwnLabels, StateUnderLock
    <2>2. \A v \in Keys : uuidToClient[v] # Conn(p)
      BY <2>1 DEF AfterSetuuid
    <2>3. \A v \in Keys :
             uuidToClient'[v] = IF v = uuid[Conn(p)] THEN Conn(p) ELSE uuidToClient[v]
      OBVIOUS
    <2> QED BY <2>2, <2>3 DEF RegisteredOnce
  <1> QED BY <1>1, <1>2, <1>3, <1>4, <1>5, <1>6, <1>7, <1>8, <1>9, <1>10, <1>11,
             <1>12

-----------------------------------------------------------------------------
(* IInv is an invariant; the properties follow from it.                    *)

LEMMA NextIInv == IInv /\ [Next]_vars => IInv'
  <1> SUFFICES ASSUME IInv, [Next]_vars PROVE IInv'
    OBVIOUS
  <1>1. ASSUME NEW c \in Conns, Input(c) PROVE IInv'
    BY <1>1, AcceptIInv, AuthClientIInv, AuthServerIInv, TokenErrorIInv,
       SetUuidIInv, ReadErrorIInv DEF Input
  <1>2. ASSUME NEW c \in Conns, CloseStep(c) PROVE IInv'
    BY <1>2, CloseLockIInv, ConnCloseIInv DEF CloseStep
  <1>3. ASSUME NEW p \in Procs, Remove(p) PROVE IInv'
    BY <1>3, RemoveGetIInv, RemoveLockIInv, RemoveRecheckIInv,
       RemoveDeleteIInv DEF Remove
  <1>4. ASSUME NEW p \in Procs, InitChatEnv(p) PROVE IInv'
    BY <1>4, InitLockIInv, LoadUserInfoIInv, AddClientIInv DEF InitChatEnv
  <1>5. CASE UNCHANGED vars
    BY <1>5 DEF vars, IInv, TypeOK, LockOwner, OwnLabels, StateUnderLock,
       Unaccepted, AfterSetuuid, CloseArg, RegisteredUnderOwnUuid,
       RemovedWhenClosed, DeletesOwnEntry, LatestLoginReachable,
       RegisteredOnce, Registered, IsClient
  <1> QED BY <1>1, <1>2, <1>3, <1>4, <1>5 DEF Next

(* The invariant of clientLock, state and the table holds throughout.      *)
THEOREM RegistryInvariant == Spec => []IInv
  BY InitIInv, NextIInv, PTL DEF Spec

(* Every variable keeps its type and Remove never dereferences a nil       *)
(* client.                                                                 *)
THEOREM RegistryTypeOK == Spec => []TypeOK
  <1>1. IInv => TypeOK
    BY DEF IInv
  <1> QED BY <1>1, RegistryInvariant, PTL

(* A client closed with its identity is in the table at most under an id   *)
(* it gave up, whatever the schedule of Close and of a late initChatEnv.   *)
THEOREM ClosedNotRegistered == Spec => []NoDeadClientRegistered
  <1>1. IInv => NoDeadClientRegistered
    BY DEF IInv, TypeOK, AfterSetuuid, RemovedWhenClosed, RegisteredUnderOwnUuid,
       NoDeadClientRegistered, Registered
  <1> QED BY <1>1, RegistryInvariant, PTL

(* However many setuuid commands a client sends, one of its goroutines     *)
(* registers it, under one id.                                             *)
THEOREM OneRegistration == Spec => []RegisteredOnce
  <1>1. IInv => RegisteredOnce
    BY DEF IInv
  <1> QED BY <1>1, RegistryInvariant, PTL

(* Only the window between comparison and deletion in Remove can make an   *)
(* open connection, the last to register its user, unreachable.            *)
THEOREM LatestStaysReachable == Spec => []LatestLoginReachable
  <1>1. IInv => LatestLoginReachable
    BY DEF IInv
  <1> QED BY <1>1, RegistryInvariant, PTL

(* No step puts a dead client into the table.                              *)
THEOREM DeadStayOut == Spec => NoResurrection
  <1> DEFINE A == \A c \in Conns, u \in Keys :
                     (state[c] = "dead" /\ ~Registered(u, c))
                         => uuidToClient'[u] # c
  <1>1. ASSUME IInv, [Next]_vars PROVE [A]_vars
    <2> SUFFICES ASSUME Next, NEW c \in Conns, NEW u \in Keys,
                        state[c] = "dead", uuidToClient[u] # c
                 PROVE  uuidToClient'[u] # c
      BY <1>1 DEF Registered
    <2>1. ASSUME NEW d \in Conns, Input(d) PROVE uuidToClient' = uuidToClient
      BY <2>1 DEF Input, Accept, AuthClient, AuthServer, TokenError, SetType,
         SetUuid, ReadError
    <2>2. ASSUME NEW d \in Conns, CloseStep(d)
          PROVE  uuidToClient' = uuidToClient
      BY <2>2 DEF CloseStep, CloseLock, ConnClose
    <2>3. ASSUME NEW p \in Procs, Remove(p) PROVE uuidToClient'[u] # c
      BY <1>1, <2>3, NoConnAssumption
      DEF Remove, RemoveGet, RemoveLock, RemoveRecheck, RemoveDelete, IInv,
          TypeOK
    <2>4. ASSUME NEW p \in Procs, InitChatEnv(p) PROVE uuidToClient'[u] # c
      <3>1. CASE AddClient(p)
        <4>1. state[Conn(p)] = "create"
          BY <1>1, <3>1 DEF AddClient, IInv, OwnLabels, StateUnderLock, Critical
        <4> QED BY <1>1, <3>1, <4>1, ProcFacts DEF AddClient, IInv, TypeOK
      <3> QED BY <2>4, <3>1 DEF InitChatEnv, InitLock, LoadUserInfo
    <2> QED BY <2>1, <2>2, <2>3, <2>4 DEF Next
  <1> QED BY <1>1, RegistryInvariant, PTL DEF Spec, NoResurrection
=============================================================================
