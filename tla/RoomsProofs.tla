---------------------------- MODULE RoomsProofs ----------------------------
(***************************************************************************)
(* Proofs about Rooms, for any number of users, workers, rooms, joins,     *)
(* collections, evictions and failing operations of the database.          *)
(***************************************************************************)
EXTENDS Rooms, TLAPS

\* Command c passes label l.
Fits(c, l) ==
    \/ c = "none" /\ l = "idle"
    \/ c = "subs" /\ l \in {"find", "insert", "cstat", "cchan", "push", "jstat",
                            "jchan"}
    \/ c = "add" /\ l \in {"find", "push", "jstat", "jchan", "exists", "load",
                           "aget", "anew", "fill"}
    \/ c = "unsubs" /\ l \in {"pull", "rm", "lstat", "lchan", "exists", "rget",
                              "remove"}
    \/ c = "disolve" /\ l \in {"members", "pull", "rm", "lstat", "lchan", "del"}
    \/ c = "join_room" /\ l \in {"push", "jstat", "jchan"}
    \/ c = "createroom" /\ l \in {"insert", "cstat", "cchan", "push", "jstat",
                                  "jchan"}
    \/ c = "publish" /\ l \in {"read", "load", "aget", "anew", "fill"}

\* Where a worker is fits its command, only administrators have the commands
\* that are theirs, and loops run over the users the command names.
ShapeAt(w) ==
    LET f == frame[w] IN
    /\ Fits(f.cmd, pc[w])
    /\ f.cmd \in {"subs", "add", "unsubs", "disolve"} => w \in Admins
    /\ f.cmd \in {"join_room", "createroom"} => joins # 0
    /\ f.todo \subseteq f.args
    /\ f.cmd = "disolve" => f.todo = {}
    /\ pc[w] \in {"find", "insert"} => f.todo = f.args
    /\ pc[w] \in {"cstat", "cchan", "jstat", "jchan"} => f.ids \subseteq f.todo

Shape == \A w \in Workers : ShapeAt(w)

\* A room without a document has no members, the others those who joined.
MembersInv == JoinedUsersAreMembers /\ (~room => uuids = {})

\* The users in S are the members, as far as no write has failed.
Agree(S) == \A u \in Users \ torn : u \in S <=> u \in uuids

\* What the tables have to do with each other wherever worker w, the only one
\* that changes them, is.
TablesAt(w) ==
    LET f == frame[w] IN
    /\ CASE pc[w] \in {"cstat", "jstat"} -> Agree(chanStat \cup f.ids)
         [] pc[w] \in {"rm", "lstat"}    -> Agree(chanStat \ f.args)
         [] OTHER                        -> Agree(chanStat)
    /\ CASE pc[w] \in {"cstat", "cchan", "jstat", "jchan"} ->
              Agree(uuidChans \cup f.ids)
         [] pc[w] \in {"rm", "lstat", "lchan"} -> Agree(uuidChans \ f.args)
         [] OTHER -> Agree(uuidChans)

TablesInv == (OneAdmin /\ joins = 0) => \A w \in Admins : TablesAt(w)

\* The current list has the user.
Cached(u) == entry # NoColl /\ u \in userIds[entry]

\* Nothing is to be done to get u, who was added, into the list: u is in it or
\* about to be, or the next list to be stored has u.
Safe(u) ==
    \/ u \in leftOut
    \/ Cached(u)
    \/ Filling(u)
    \/ entry = NoColl /\ ~Stale(u)

\* The add_into_room of worker w has still to put u into the list.
OnItsWay(w, u) ==
    LET f == frame[w] IN
    /\ f.cmd = "add" /\ pc[w] # "find" /\ u \in f.args
    /\ pc[w] \in {"aget", "anew", "fill"} => u \in f.ids

\* With one administrator w: who was added is safe, or add_into_room, on its
\* way, has the user to add; and nobody who was added is about to be removed
\* from the list or to be dropped with it.
AddedAt(w) ==
    LET f == frame[w] IN
    /\ \A u \in Users : via[u] = "add" => Safe(u) \/ OnItsWay(w, u)
    /\ f.cmd = "unsubs" /\ pc[w] # "pull" => \A u \in f.args : via[u] # "add"
    /\ f.cmd = "disolve" /\ pc[w] = "pull" =>
          \A u \in Users : via[u] = "add" => u \in f.args
    /\ f.cmd = "disolve" /\ pc[w] \in {"rm", "lstat", "lchan", "del"} =>
          \A u \in Users : via[u] # "add"

AddedInv == OneAdmin => \A w \in Admins : AddedAt(w)

\* Collections that are not stored yet are empty and nobody has a pointer.
FreshInv ==
    /\ entry =< ncolls
    /\ \A w \in Workers : frame[w].coll =< ncolls
    /\ \A k \in Colls : k > ncolls => userIds[k] = {}

\* Worker w is going to remove u from the current list.
Removing(w, u) ==
    LET f == frame[w] IN
    \/ pc[w] \in {"rm", "lstat", "lchan", "exists", "del"} /\ u \in f.args
         /\ f.cmd # "add"
    \/ pc[w] = "rget" /\ u \in f.todo
    \/ pc[w] = "remove" /\ u \in f.todo /\ f.coll = entry

\* Users that worker w has on the way into the list: those read from the
\* database, and those whom add_into_room has put into the room already.
Carried(w) ==
    LET f == frame[w] IN
    {u \in Users :
        \/ pc[w] \in {"aget", "anew", "fill"} /\ u \in f.ids
        \/ /\ f.cmd = "add" /\ u \in f.args /\ pc[w] # "find"
           /\ \/ pc[w] \notin {"push", "jstat", "jchan"}
              \/ u \notin f.todo
              \/ pc[w] # "push" /\ u \in f.ids}

\* Who is in the list, or on the way into it, is in the room, is known to
\* linger or is about to be removed.
UncachedInv ==
    /\ \A w \in Workers : Carried(w) \subseteq uuids \cup lingering
    /\ \A u \in Users : Cached(u) =>
          u \in uuids \cup lingering \/ \E w \in Workers : Removing(w, u)

IInv ==
    /\ TypeOK /\ Shape /\ MembersInv /\ TablesInv /\ AddedInv /\ FreshInv
    /\ UncachedInv

-----------------------------------------------------------------------------
(* How a step moves its worker.                                            *)

Frame ==
    [cmd : Commands \cup {"none"}, args : SUBSET Users, todo : SUBSET Users,
     ids : SUBSET Users, coll : Colls \cup {NoColl}]

\* Worker w gets to label l with the frame f and the others stay.
Moves(w, l, f) ==
    /\ pc' \in [Workers -> Labels] /\ frame' \in [Workers -> Frame]
    /\ pc'[w] = l /\ frame'[w] = f
    /\ \A v \in Workers : v # w => pc'[v] = pc[v] /\ frame'[v] = frame[v]

LEMMA Moved ==
    ASSUME TypeOK, NEW w \in Workers, NEW l \in Labels, NEW f \in Frame,
           pc' = [pc EXCEPT ![w] = l], frame' = [frame EXCEPT ![w] = f]
    PROVE  Moves(w, l, f)
  BY DEF TypeOK, Moves, Frame

LEMMA FrameType ==
    ASSUME TypeOK, NEW w \in Workers
    PROVE  /\ frame[w] \in Frame
           /\ frame[w].cmd \in Commands \cup {"none"}
           /\ frame[w].args \subseteq Users /\ frame[w].todo \subseteq Users
           /\ frame[w].ids \subseteq Users
           /\ frame[w].coll \in Colls \cup {NoColl}
           /\ pc[w] \in Labels
  BY DEF TypeOK, Frame

LEMMA NoFrameType == NoFrame \in Frame
  BY DEF NoFrame, Frame

(* A step that returns, and one that goes on.                              *)
LEMMA Returned ==
    ASSUME TypeOK, NEW w \in Workers, NEW f, Continue(w, "idle", f)
    PROVE  Moves(w, "idle", NoFrame) /\ joins' = joins
  BY Moved, NoFrameType DEF Continue, Labels

LEMMA Continued ==
    ASSUME TypeOK, NEW w \in Workers, NEW l \in Labels \ {"idle"},
           NEW f \in Frame, Continue(w, l, f)
    PROVE  Moves(w, l, f) /\ joins' = joins
  BY Moved DEF Continue

-----------------------------------------------------------------------------
(* What the actions do to the worker, with the changed frame spelt out.    *)

\* The five fields of a frame.
Fields(f, c, a, t, i, k) ==
    f.cmd = c /\ f.args = a /\ f.todo = t /\ f.ids = i /\ f.coll = k

\* Worker w gets to label l with these fields; a command that returns has none.
Steps(w, l, c, a, t, i, k) ==
    /\ pc' \in [Workers -> Labels] /\ frame' \in [Workers -> Frame]
    /\ pc'[w] = l
    /\ IF l = "idle" THEN Fields(frame'[w], "none", {}, {}, {}, NoColl)
                     ELSE Fields(frame'[w], c, a, t, i, k)
    /\ \A v \in Workers : v # w => pc'[v] = pc[v] /\ frame'[v] = frame[v]

LEMMA SteppedTo ==
    ASSUME TypeOK, NEW w \in Workers, NEW l \in Labels, NEW f \in Frame,
           Continue(w, l, f)
    PROVE  Steps(w, l, f.cmd, f.args, f.todo, f.ids, f.coll) /\ joins' = joins
  <1>1. CASE l = "idle"
    BY <1>1, Returned DEF Moves, Steps, Fields, NoFrame
  <1>2. CASE l # "idle"
    BY <1>2, Continued DEF Moves, Steps, Fields
  <1> QED BY <1>1, <1>2

LEMMA SteppedTo2 ==
    ASSUME TypeOK, NEW w \in Workers, NEW l \in Labels,
           NEW a \in SUBSET Users, NEW t \in SUBSET Users, NEW i \in SUBSET Users,
           NEW k \in Colls \cup {NoColl}, NEW f,
           f = [frame[w] EXCEPT !.args = a, !.todo = t, !.ids = i, !.coll = k],
           Continue(w, l, f)
    PROVE  Steps(w, l, frame[w].cmd, a, t, i, k) /\ joins' = joins
  <1>1. f \in Frame /\ Fields(f, frame[w].cmd, a, t, i, k)
    BY DEF TypeOK, Frame, Fields
  <1> QED BY <1>1, SteppedTo DEF Fields

-----------------------------------------------------------------------------
(* Parts of the invariant that a step of worker w does not disturb.        *)

\* What a step of worker w owes the parts of the invariant that speak of all
\* workers.
TablesStep(w) ==
    (OneAdmin /\ joins' = 0) =>
        IF w \in Admins THEN TablesAt(w)'
        ELSE UNCHANGED <<uuids, chanStat, uuidChans, torn>>

SafeStep ==
    \A u \in Users : via[u] = "add" /\ via'[u] = "add" /\ Safe(u) => Safe(u)'

AddedStep(w) ==
    OneAdmin =>
        /\ SafeStep
        /\ IF w \in Admins THEN AddedAt(w)'
           ELSE \A u \in Users : via'[u] = "add" => via[u] = "add"

UncachedStep(w) ==
    /\ Carried(w)' \subseteq uuids' \cup lingering'
    /\ \A u \in Users : Removing(w, u) /\ Cached(u)' =>
          Removing(w, u)' \/ u \in uuids' \cup lingering'

LEMMA ShapeKept ==
    ASSUME IInv, NEW w \in Workers, NEW l, NEW c, NEW a, NEW t, NEW i, NEW k,
           Steps(w, l, c, a, t, i, k), joins # 0 => joins' # 0, ShapeAt(w)'
    PROVE  Shape'
  BY DEF IInv, Shape, ShapeAt, Steps

LEMMA TablesKept ==
    ASSUME IInv, NEW w \in Workers, NEW l, NEW c, NEW a, NEW t, NEW i, NEW k,
           Steps(w, l, c, a, t, i, k), joins # 0 => joins' # 0,
           TablesStep(w)
    PROVE  TablesInv'
  <1> SUFFICES ASSUME OneAdmin, joins' = 0, joins = 0, NEW v \in Admins
               PROVE  TablesAt(v)'
    BY DEF TablesInv, OneAdmin
  <1>1. CASE w \in Admins
    BY <1>1 DEF OneAdmin, Steps, TablesStep
  <1>2. CASE w \notin Admins
    <2>1. v # w /\ v \in Workers /\ pc'[v] = pc[v] /\ frame'[v] = frame[v]
      BY <1>2 DEF Workers, Steps
    <2> QED BY <1>2, <2>1 DEF IInv, TablesInv, TablesAt, TablesStep, Agree
  <1> QED BY <1>1, <1>2

LEMMA AddedKept ==
    ASSUME IInv, NEW w \in Workers, NEW l, NEW c, NEW a, NEW t, NEW i, NEW k,
           Steps(w, l, c, a, t, i, k), AddedStep(w)
    PROVE  AddedInv'
  <1> SUFFICES ASSUME OneAdmin, NEW v \in Admins PROVE AddedAt(v)'
    BY DEF AddedInv, OneAdmin
  <1>1. CASE w \in Admins
    BY <1>1 DEF OneAdmin, AddedStep
  <1>2. CASE w \notin Admins
    <2>1. v # w /\ v \in Workers /\ pc'[v] = pc[v] /\ frame'[v] = frame[v]
      BY <1>2 DEF Workers, Steps
    <2>2. /\ frame[v].args \subseteq Users
          /\ AddedAt(v) /\ SafeStep
          /\ \A u \in Users : via'[u] = "add" => via[u] = "add"
      BY <1>2, <2>1, FrameType DEF IInv, AddedInv, AddedStep
    <2>3. ASSUME NEW u \in Users, via'[u] = "add"
          PROVE  Safe(u)' \/ OnItsWay(v, u)'
      BY <2>1, <2>2, <2>3 DEF AddedAt, SafeStep, OnItsWay
    <2> QED BY <2>1, <2>2, <2>3 DEF AddedAt
  <1> QED BY <1>1, <1>2

(* A step of worker w keeps users safe if it takes none of them out of the *)
(* list, does not fill one and brings none without them on the way.        *)
LEMMA SafeKept ==
    ASSUME IInv, NEW w \in Workers, NEW l, NEW c, NEW a, NEW t, NEW i, NEW k,
           Steps(w, l, c, a, t, i, k), entry' = entry, leftOut \subseteq leftOut',
           \A u \in Users : via[u] = "add" /\ Cached(u) => Cached(u)',
           pc[w] # "fill",
           \A u \in Users :
               /\ l \in {"aget", "anew", "fill"} /\ entry = NoColl
               /\ via[u] = "add" /\ u \notin i
               => pc[w] \in {"aget", "anew"} /\ u \notin frame[w].ids
    PROVE  SafeStep
  <1> SUFFICES ASSUME NEW u \in Users, via[u] = "add", via'[u] = "add", Safe(u)
               PROVE  Safe(u)'
    BY DEF SafeStep
  <1>1. CASE Filling(u)
    <2>1. PICK v \in Workers :
             pc[v] = "fill" /\ frame[v].coll = entry /\ u \in frame[v].ids
      BY <1>1 DEF Filling
    <2>2. v # w /\ pc'[v] = pc[v] /\ frame'[v] = frame[v]
      BY <2>1 DEF Steps
    <2> QED BY <2>1, <2>2 DEF Safe, Filling
  <1>2. CASE entry = NoColl /\ ~Stale(u)
    <2>1. ASSUME NEW v \in Workers, pc'[v] \in {"aget", "anew", "fill"},
                 u \notin frame'[v].ids
          PROVE  FALSE
      <3>1. CASE v = w
        <4>1. l \in {"aget", "anew", "fill"} /\ u \notin i
          BY <2>1, <3>1 DEF Steps, Fields
        <4> QED BY <1>2, <4>1 DEF Stale
      <3>2. CASE v # w
        BY <1>2, <2>1, <3>2 DEF Steps, Stale
      <3> QED BY <3>1, <3>2
    <2>2. ~Stale(u)'
      BY <2>1 DEF Stale
    <2> QED BY <1>2, <2>2 DEF Safe
  <1> QED BY <1>1, <1>2 DEF Safe

(* What is on the way into the list counts as being brought there.         *)
LEMMA CarriedIsBrought ==
    ASSUME NEW w \in Workers PROVE Carried(w) \subseteq Bringing
  BY DEF Carried, Bringing

LEMMA UncachedKept ==
    ASSUME IInv, NEW w \in Workers, NEW l, NEW c, NEW a, NEW t, NEW i, NEW k,
           Steps(w, l, c, a, t, i, k), entry' = entry,
           \A u \in uuids \cup lingering :
               u \in uuids' \cup lingering' \/ (u \notin Bringing /\ ~Cached(u)'),
           \A u \in Users : Cached(u)' => Cached(u) \/ u \in uuids' \cup lingering',
           UncachedStep(w)
    PROVE  UncachedInv'
  <1>1. ASSUME NEW v \in Workers, v # w
        PROVE  /\ Carried(v)' = Carried(v)
               /\ \A u \in Users : Removing(v, u) => Removing(v, u)'
    BY <1>1 DEF Steps, Carried, Removing
  <1>2. ASSUME NEW v \in Workers PROVE Carried(v)' \subseteq uuids' \cup lingering'
    <2>1. CASE v = w
      BY <2>1 DEF UncachedStep
    <2>2. CASE v # w
      BY <1>1, <2>2, CarriedIsBrought DEF IInv, UncachedInv
    <2> QED BY <2>1, <2>2
  <1>3. ASSUME NEW u \in Users, Cached(u)'
        PROVE  u \in uuids' \cup lingering' \/ \E v \in Workers : Removing(v, u)'
    BY <1>1, <1>3 DEF IInv, UncachedInv, UncachedStep
  <1> QED BY <1>2, <1>3 DEF UncachedInv

(* How an operation of the database ends.                                  *)
LEMMA EndsType ==
    ASSUME IInv, NEW ok \in BOOLEAN, Ends(ok) PROVE fails' \in 0..MaxFails
  BY BoundAssumption DEF Ends, IInv, TypeOK

(* Whom an early return leaves out.                                        *)
LEMMA LeavesOutType ==
    ASSUME IInv, NEW w \in Workers, NEW ok \in BOOLEAN, LeavesOut(w, ok)
    PROVE  /\ leftOut \subseteq leftOut' /\ leftOut' \subseteq Users
           /\ ~ok /\ frame[w].cmd = "add" => frame[w].args \subseteq leftOut'
  BY FrameType DEF LeavesOut, IInv, TypeOK

(* A step that changes its worker only.                                    *)
LEMMA QuietStep ==
    ASSUME IInv, NEW w \in Workers, NEW l, NEW c, NEW a, NEW t, NEW i, NEW k,
           Steps(w, l, c, a, t, i, k),
           UNCHANGED <<room, uuids, chanStat, uuidChans, creates, cache, via,
                       torn,
                       lingering>>,
           fails' \in 0..MaxFails, leftOut' \subseteq Users,
           joins' \in 0..MaxJoins, joins # 0 => joins' # 0,
           l \in {"read", "fill", "remove"} => k \in Colls,
           k =< ncolls,
           ShapeAt(w)',
           TablesStep(w), AddedStep(w), UncachedStep(w)
    PROVE  IInv'
  <1>1. UNCHANGED <<room, uuids, chanStat, uuidChans, via, lingering, creates,
                    entry, userIds, ncolls, evicts, torn>>
    BY DEF cache
  <1>2. TypeOK'
    BY <1>1 DEF IInv, TypeOK, Steps, Frame, Fields
  <1>3. Shape'
    BY ShapeKept
  <1>4. MembersInv'
    BY <1>1 DEF IInv, MembersInv, JoinedUsersAreMembers
  <1>5. TablesInv'
    BY <1>1, TablesKept
  <1>6. AddedInv'
    BY <1>1, AddedKept
  <1>7. FreshInv'
    <2>1. frame'[w].coll =< ncolls
      BY DEF Steps, Fields, IInv, TypeOK, NoColl
    <2> QED BY <1>1, <2>1 DEF IInv, FreshInv, Steps
  <1>8. UncachedInv'
    BY <1>1, UncachedKept DEF Cached
  <1> QED BY <1>2, <1>3, <1>4, <1>5, <1>6, <1>7, <1>8 DEF IInv

(* Such a step for the obligations of AddedInv: the users who were on      *)
(* their way still are, or are left out.                                   *)
LEMMA AddedQuiet ==
    ASSUME IInv, NEW w \in Workers, NEW l, NEW c, NEW a, NEW t, NEW i, NEW k,
           Steps(w, l, c, a, t, i, k),
           UNCHANGED <<uuids, cache, via>>, leftOut \subseteq leftOut',
           pc[w] # "fill",
           l \in {"aget", "anew", "fill"} /\ entry = NoColl =>
               \/ pc[w] \in {"aget", "anew"} /\ i = frame[w].ids
               \/ i = uuids,
           \A u \in Users : OnItsWay(w, u) /\ via[u] = "add" =>
               u \in leftOut' \/ OnItsWay(w, u)',
           frame'[w].cmd = "unsubs" /\ pc'[w] # "pull" =>
               /\ frame[w].cmd = "unsubs" /\ pc[w] # "pull"
               /\ frame'[w].args = frame[w].args,
           frame'[w].cmd = "disolve" /\ pc'[w] = "pull" => frame'[w].args = uuids,
           frame'[w].cmd = "disolve" /\ pc'[w] \in {"rm", "lstat", "lchan", "del"} =>
               frame[w].cmd = "disolve" /\ pc[w] \in {"rm", "lstat", "lchan"}
    PROVE  AddedStep(w)
  <1> SUFFICES ASSUME OneAdmin PROVE SafeStep /\ (w \in Admins => AddedAt(w)')
    BY DEF AddedStep
  <1>1. /\ UNCHANGED <<entry,
                       userIds>> /\ \A u \in Users : Cached(u)' <=> Cached(u)
        /\ \A u \in Users : via[u] = "add" => u \in uuids
    BY DEF cache, Cached, IInv, MembersInv, JoinedUsersAreMembers
  <1>2. SafeStep
    BY <1>1, SafeKept
  <1>3. ASSUME w \in Admins PROVE AddedAt(w)'
    <2>1. AddedAt(w)
      BY <1>3 DEF IInv, AddedInv
    <2>2. ASSUME NEW u \in Users, via'[u] = "add"
          PROVE  Safe(u)' \/ OnItsWay(w, u)'
      <3>1. via[u] = "add" /\ (Safe(u) \/ OnItsWay(w, u))
        BY <2>1, <2>2 DEF AddedAt
      <3>2. u \in leftOut' => Safe(u)'
        BY DEF Safe
      <3> QED BY <1>2, <2>2, <3>1, <3>2 DEF SafeStep
    <2>3. frame'[w].cmd = "unsubs" /\ pc'[w] # "pull" =>
              \A u \in frame'[w].args : via'[u] # "add"
      BY <2>1 DEF AddedAt
    <2>4. frame'[w].cmd = "disolve" /\ pc'[w] = "pull" =>
              \A u \in Users : via'[u] = "add" => u \in frame'[w].args
      BY <1>1
    <2>5. frame'[w].cmd = "disolve" /\ pc'[w] \in {"rm", "lstat", "lchan", "del"} =>
              \A u \in Users : via'[u] # "add"
      BY <2>1 DEF AddedAt
    <2> QED BY <2>2, <2>3, <2>4, <2>5 DEF AddedAt
  <1> QED BY <1>2, <1>3

(* A command begins.                                                       *)
LEMMA BeginInv ==
    ASSUME IInv, NEW w \in Workers, NEW us \in SUBSET Users,
           NEW c \in {"subs", "add", "unsubs", "disolve", "join_room", "createroom"},
           NEW l,
           c \notin {"join_room", "createroom"} => w \in Admins,
           c = "disolve" => us = {},
           \/ c \in {"subs", "add"} /\ l = "find"
           \/ c = "unsubs" /\ l = "pull"
           \/ c = "disolve" /\ l = "members"
           \/ c = "join_room" /\ l = "push"
           \/ c = "createroom" /\ l = "insert",
           pc[w] = "idle", UNCHANGED <<tables, cache, hist>>,
           pc' = [pc EXCEPT ![w] = l],
           frame' = [frame EXCEPT ![w] = FrameOf(c, us)],
           joins' \in 0..MaxJoins, joins # 0 => joins' # 0,
           c \in {"join_room", "createroom"} => joins' # 0
    PROVE  IInv'
  <1>1. FrameOf(c, us) \in Frame /\ Fields(FrameOf(c, us), c, us, us, {}, NoColl)
    BY DEF FrameOf, NoFrame, Frame, Fields, Commands
  <1>2. Steps(w, l, c, us, us, {}, NoColl)
    BY <1>1, Moved DEF Moves, Steps, IInv, Labels
  <1>3. frame[w].cmd = "none"
    BY DEF IInv, Shape, ShapeAt, Fits
  <1>4. ShapeAt(w)'
    BY <1>2 DEF Steps, Fields, ShapeAt, Fits
  <1>5. TablesStep(w)
    BY <1>2 DEF TablesStep, IInv, TablesInv, TablesAt, Agree, Steps, Fields,
       tables, hist
  <1>6. AddedStep(w)
    BY <1>2, <1>3, AddedQuiet DEF OnItsWay, Steps, Fields, tables, hist
  <1>7. UncachedStep(w)
    BY <1>2 DEF UncachedStep, Carried, Removing, Steps, Fields
  <1>8. NoColl =< ncolls /\ fails' \in 0..MaxFails /\ leftOut' \subseteq Users
    BY DEF IInv, TypeOK, NoColl, tables, hist
  <1> QED BY <1>2, <1>4, <1>5, <1>6, <1>7, <1>8, QuietStep DEF tables, hist

(* The actions of BeginCommand.                                            *)
LEMMA BeginCommandInv ==
    ASSUME IInv, BeginCommand PROVE IInv'
  <1>1. ASSUME NEW w \in Admins, NEW us \in SUBSET Users,
               Subs(w, us) \/ AddUsers(w, us) \/ Unsubs(w, us)
        PROVE  IInv'
    <2>1. PICK c \in {"subs", "add", "unsubs"}, l \in {"find", "pull"} :
             Begin(w, c, us, l) /\ (c = "unsubs" <=> l = "pull")
      BY <1>1 DEF Subs, AddUsers, Unsubs
    <2> QED BY <2>1, BeginInv DEF Begin, Continue, Workers, IInv, TypeOK
  <1>2. ASSUME NEW w \in Admins, Disolve(w) PROVE IInv'
    <2>1. Begin(w, "disolve", {}, "members")
      BY <1>2 DEF Disolve
    <2> QED BY <2>1, BeginInv DEF Begin, Continue, Workers, IInv, TypeOK
  <1>3. ASSUME NEW w \in Joiners, NEW us \in SUBSET Users,
               ClientCommand(w, "join_room", us, "push")
               \/ ClientCommand(w, "createroom", us, "insert")
        PROVE  IInv'
    <2>1. PICK c \in {"join_room", "createroom"}, l \in {"push", "insert"} :
             ClientCommand(w, c, us, l) /\ (c = "join_room" <=> l = "push")
      BY <1>3
    <2>2. joins' \in 0..MaxJoins /\ joins' # 0
      BY <2>1, BoundAssumption DEF ClientCommand, IInv, TypeOK
    <2> QED BY <2>1, <2>2, BeginInv DEF ClientCommand, Workers
  <1>4. ASSUME NEW w \in Joiners, NEW u \in Users, JoinRoom(w, u) PROVE IInv'
    BY <1>3, <1>4 DEF JoinRoom
  <1>5. ASSUME NEW w \in Joiners, NEW u \in Users, NEW v \in Users,
               CreateRoom(w, u, v)
        PROVE  IInv'
    BY <1>3, <1>5 DEF CreateRoom
  <1>6. ASSUME NEW w \in Publishers, LoadUserIdsByChannel(w) PROVE IInv'
    <2> DEFINE f == [NoFrame EXCEPT !.cmd = "publish", !.coll = entry]
               l == IF entry = NoColl THEN "load" ELSE "read"
    <2>0. w \in Workers /\ pc[w] = "idle" /\ UNCHANGED <<tables, cache, hist>>
      BY <1>6 DEF LoadUserIdsByChannel, Workers
    <2>1. /\ f \in Frame /\ Fields(f, "publish", {}, {}, {}, entry)
          /\ l \in Labels
      BY DEF NoFrame, Frame, Fields, Commands, IInv, TypeOK, Labels
    <2>2. Steps(w, l, "publish", {}, {}, {}, entry) /\ joins' = joins
      <3> HIDE DEF f, l
      <3>1. Continue(w, l, f)
        BY <1>6 DEF LoadUserIdsByChannel, f, l
      <3> QED BY <2>0, <2>1, <3>1, SteppedTo DEF IInv, Fields
    <2>3. frame[w].cmd = "none"
      BY <2>0 DEF IInv, Shape, ShapeAt, Fits
    <2>4. ShapeAt(w)'
      BY <2>2 DEF Steps, Fields, ShapeAt, Fits
    <2>5. TablesStep(w)
      BY <2>0, <2>2
      DEF TablesStep, IInv, TablesInv, TablesAt, Agree, Steps, Fields, tables,
          hist
    <2>6. AddedStep(w)
      BY <2>0, <2>2, <2>3, AddedQuiet
      DEF OnItsWay, Steps, Fields, tables, hist
    <2>7. UncachedStep(w)
      BY <2>0, <2>2 DEF UncachedStep, Carried, Removing, Steps, Fields
    <2>8. /\ entry =< ncolls /\ joins' \in 0..MaxJoins
          /\ entry # NoColl => entry \in Colls
          /\ fails' \in 0..MaxFails /\ leftOut' \subseteq Users
      BY <2>0, <2>2 DEF IInv, TypeOK, FreshInv, tables, hist
    <2>9. l \in {"read", "fill", "remove"} => entry \in Colls
      BY <2>8
    <2> HIDE DEF l
    <2> QED BY <2>0, <2>2, <2>4, <2>5, <2>6, <2>7, <2>8, <2>9, QuietStep
      DEF tables, hist
  <1> QED BY <1>1, <1>2, <1>4, <1>5, <1>6 DEF BeginCommand

(* The check of channel_uuids.                                             *)
LEMMA FindRoomInv ==
    ASSUME IInv, NEW w \in Workers, FindRoom(w) PROVE IInv'
  <1>00. PICK ok \in BOOLEAN :
           /\ Ends(ok)
           /\ Goto(w, CASE frame[w].cmd = "subs" /\ ~(ok /\ room) -> "insert"
                        [] frame[w].cmd = "add" /\ ok /\ room     -> "push"
                        [] OTHER -> "idle")
    BY DEF FindRoom
  <1> DEFINE l == CASE frame[w].cmd = "subs" /\ ~(ok /\ room) -> "insert"
                    [] frame[w].cmd = "add" /\ ok /\ room     -> "push"
                    [] OTHER -> "idle"
             f == frame[w]
  <1>0. /\ pc[w] = "find"
        /\ UNCHANGED <<room, uuids, chanStat, uuidChans, creates, cache, via,
                       torn,
                       lingering>>
        /\ fails' \in 0..MaxFails
        /\ leftOut \subseteq leftOut' /\ leftOut' \subseteq Users
    BY <1>00, EndsType DEF FindRoom, tables, hist, IInv, TypeOK
  <1>1. /\ f \in Frame /\ l \in Labels
        /\ Fields(f, frame[w].cmd, frame[w].args, frame[w].todo, frame[w].ids,
                  frame[w].coll)
    BY <1>0, FrameType DEF IInv, TypeOK, Frame, Fields, Labels
  <1>2. /\ Steps(w, l, frame[w].cmd, frame[w].args, frame[w].todo, frame[w].ids,
                 frame[w].coll)
        /\ joins' = joins
    <2> HIDE DEF f, l
    <2>1. Continue(w, l, f)
      BY <1>00 DEF FindRoom, Goto, Return, f, l
    <2> QED BY <1>1, <2>1, SteppedTo DEF IInv, Fields
  <1>3. ShapeAt(w) /\ (w \in Admins => w \in Workers)
    BY DEF IInv, Shape
  <1>4. ShapeAt(w)'
    BY <1>0, <1>2, <1>3 DEF Steps, Fields, ShapeAt, Fits
  <1>5. TablesStep(w)
    BY <1>0, <1>2
    DEF TablesStep, IInv, TablesInv, TablesAt, Agree, Steps, Fields
  <1>6. AddedStep(w)
    <2>1. \A u \in Users : OnItsWay(w, u) /\ via[u] = "add" =>
              u \in leftOut' \/ OnItsWay(w, u)'
      BY <1>00, <1>0, <1>2, <1>3
      DEF OnItsWay, Steps, Fields, ShapeAt, Fits, IInv, MembersInv,
          JoinedUsersAreMembers
    <2> QED BY <1>0, <1>2, <1>3, <2>1, AddedQuiet
      DEF Steps, Fields, ShapeAt, Fits
  <1>7. UncachedStep(w)
    <2>1. Carried(w)' \subseteq uuids \cup lingering
      BY <1>0, <1>2, <1>3
      DEF IInv, UncachedInv, Carried, Steps, Fields, ShapeAt, Fits
    <2>2. \A u \in Users : Removing(w, u) /\ Cached(u) => Removing(w, u)'
      BY <1>0, <1>2, <1>3
      DEF Removing, Cached, Steps, Fields, ShapeAt, Fits, cache
    <2> QED BY <1>0, <2>1, <2>2 DEF UncachedStep, Cached, cache
  <1>9. /\ l \in {"read", "fill", "remove"} => frame[w].coll \in Colls
        /\ frame[w].coll =< ncolls /\ joins' \in 0..MaxJoins
    BY <1>0, <1>2 DEF IInv, TypeOK, FreshInv
  <1> HIDE DEF l
  <1> QED BY <1>0, <1>2, <1>4, <1>5, <1>6, <1>7, <1>9, QuietStep

(* The query of disolveRoom.                                               *)
LEMMA DisolveMembersInv ==
    ASSUME IInv, NEW w \in Workers, DisolveMembers(w) PROVE IInv'
  <1>00. PICK ok \in BOOLEAN :
           /\ Ends(ok)
           /\ Continue(w, IF ok /\ room THEN "pull" ELSE "idle",
                       [frame[w] EXCEPT !.args = uuids])
    BY DEF DisolveMembers
  <1> DEFINE l == IF ok /\ room THEN "pull" ELSE "idle"
             f == [frame[w] EXCEPT !.args = uuids]
  <1>0. /\ pc[w] = "members"
        /\ UNCHANGED <<room, uuids, chanStat, uuidChans, creates, cache, via,
                       torn,
                       lingering>>
        /\ fails' \in 0..MaxFails
        /\ leftOut \subseteq leftOut' /\ leftOut' \subseteq Users
    BY <1>00, EndsType DEF DisolveMembers, tables, hist, IInv, TypeOK
  <1>1. /\ f \in Frame /\ l \in Labels
        /\ Fields(f, frame[w].cmd, uuids, frame[w].todo, frame[w].ids,
                  frame[w].coll)
    BY <1>0, FrameType DEF IInv, TypeOK, Frame, Fields, Labels
  <1>2. /\ Steps(w, l, frame[w].cmd, uuids, frame[w].todo, frame[w].ids,
                 frame[w].coll)
        /\ joins' = joins
    <2> HIDE DEF f, l
    <2>1. Continue(w, l, f)
      BY <1>00 DEF DisolveMembers, Goto, Return, f, l
    <2> QED BY <1>1, <2>1, SteppedTo DEF IInv, Fields
  <1>3. ShapeAt(w) /\ (w \in Admins => w \in Workers)
    BY DEF IInv, Shape
  <1>4. ShapeAt(w)'
    BY <1>0, <1>2, <1>3 DEF Steps, Fields, ShapeAt, Fits
  <1>5. TablesStep(w)
    BY <1>0, <1>2
    DEF TablesStep, IInv, TablesInv, TablesAt, Agree, Steps, Fields
  <1>6. AddedStep(w)
    <2>1. \A u \in Users : OnItsWay(w, u) /\ via[u] = "add" =>
              u \in leftOut' \/ OnItsWay(w, u)'
      BY <1>00, <1>0, <1>2, <1>3
      DEF OnItsWay, Steps, Fields, ShapeAt, Fits, IInv, MembersInv,
          JoinedUsersAreMembers
    <2> QED BY <1>0, <1>2, <1>3, <2>1, AddedQuiet
      DEF Steps, Fields, ShapeAt, Fits
  <1>7. UncachedStep(w)
    <2>1. Carried(w)' \subseteq uuids \cup lingering
      BY <1>0, <1>2, <1>3
      DEF IInv, UncachedInv, Carried, Steps, Fields, ShapeAt, Fits
    <2>2. \A u \in Users : Removing(w, u) /\ Cached(u) => Removing(w, u)'
      BY <1>0, <1>2, <1>3
      DEF Removing, Cached, Steps, Fields, ShapeAt, Fits, cache
    <2> QED BY <1>0, <2>1, <2>2 DEF UncachedStep, Cached, cache
  <1>9. /\ l \in {"read", "fill", "remove"} => frame[w].coll \in Colls
        /\ frame[w].coll =< ncolls /\ joins' \in 0..MaxJoins
    BY <1>0, <1>2 DEF IInv, TypeOK, FreshInv
  <1> HIDE DEF l
  <1> QED BY <1>0, <1>2, <1>4, <1>5, <1>6, <1>7, <1>9, QuietStep

(* The copy of a collection.                                               *)
LEMMA ReadCollectionInv ==
    ASSUME IInv, NEW w \in Workers, ReadCollection(w) PROVE IInv'
  <1> DEFINE l == "idle"
             f == frame[w]
  <1>0. /\ pc[w] = "read"
        /\ UNCHANGED <<room, uuids, chanStat, uuidChans, creates, cache, via,
                       torn,
                       lingering>>
        /\ fails' \in 0..MaxFails
        /\ leftOut \subseteq leftOut' /\ leftOut' \subseteq Users
    BY DEF ReadCollection, tables, hist, IInv, TypeOK
  <1>1. /\ f \in Frame /\ l \in Labels
        /\ Fields(f, frame[w].cmd, frame[w].args, frame[w].todo, frame[w].ids,
                  frame[w].coll)
    BY <1>0, FrameType DEF IInv, TypeOK, Frame, Fields, Labels
  <1>2. /\ Steps(w, l, frame[w].cmd, frame[w].args, frame[w].todo, frame[w].ids,
                 frame[w].coll)
        /\ joins' = joins
    <2> HIDE DEF f, l
    <2>1. Continue(w, l, f)
      BY DEF ReadCollection, Goto, Return, f, l
    <2> QED BY <1>1, <2>1, SteppedTo DEF IInv, Fields
  <1>3. ShapeAt(w) /\ (w \in Admins => w \in Workers)
    BY DEF IInv, Shape
  <1>4. ShapeAt(w)'
    BY <1>0, <1>2, <1>3 DEF Steps, Fields, ShapeAt, Fits
  <1>5. TablesStep(w)
    BY <1>0, <1>2
    DEF TablesStep, IInv, TablesInv, TablesAt, Agree, Steps, Fields
  <1>6. AddedStep(w)
    <2>1. \A u \in Users : OnItsWay(w, u) /\ via[u] = "add" =>
              u \in leftOut' \/ OnItsWay(w, u)'
      BY <1>0, <1>2, <1>3
      DEF OnItsWay, Steps, Fields, ShapeAt, Fits, IInv, MembersInv,
          JoinedUsersAreMembers
    <2> QED BY <1>0, <1>2, <1>3, <2>1, AddedQuiet
      DEF Steps, Fields, ShapeAt, Fits
  <1>7. UncachedStep(w)
    <2>1. Carried(w)' \subseteq uuids \cup lingering
      BY <1>0, <1>2, <1>3
      DEF IInv, UncachedInv, Carried, Steps, Fields, ShapeAt, Fits
    <2>2. \A u \in Users : Removing(w, u) /\ Cached(u) => Removing(w, u)'
      BY <1>0, <1>2, <1>3
      DEF Removing, Cached, Steps, Fields, ShapeAt, Fits, cache
    <2> QED BY <1>0, <2>1, <2>2 DEF UncachedStep, Cached, cache
  <1>9. /\ l \in {"read", "fill", "remove"} => frame[w].coll \in Colls
        /\ frame[w].coll =< ncolls /\ joins' \in 0..MaxJoins
    BY <1>0, <1>2 DEF IInv, TypeOK, FreshInv
  <1> HIDE DEF l
  <1> QED BY <1>0, <1>2, <1>4, <1>5, <1>6, <1>7, <1>9, QuietStep

(* The query of LoadUserIdsFromDatabase.                                   *)
LEMMA LoadUserIdsFromDatabaseInv ==
    ASSUME IInv, NEW w \in Workers, LoadUserIdsFromDatabase(w) PROVE IInv'
  <1>00. PICK ok \in BOOLEAN :
           /\ Ends(ok)
           /\ Continue(w, IF ok /\ room THEN "aget" ELSE "idle",
                       [frame[w] EXCEPT !.ids = uuids])
           /\ LeavesOut(w, ok /\ room)
    BY DEF LoadUserIdsFromDatabase
  <1> DEFINE l == IF ok /\ room THEN "aget" ELSE "idle"
             f == [frame[w] EXCEPT !.ids = uuids]
  <1>0. /\ pc[w] = "load"
        /\ UNCHANGED <<room, uuids, chanStat, uuidChans, creates, cache, via,
                       torn,
                       lingering>>
        /\ fails' \in 0..MaxFails
        /\ leftOut \subseteq leftOut' /\ leftOut' \subseteq Users
    BY <1>00, EndsType, LeavesOutType
    DEF LoadUserIdsFromDatabase, tables, hist, IInv, TypeOK
  <1>1. /\ f \in Frame /\ l \in Labels
        /\ Fields(f, frame[w].cmd, frame[w].args, frame[w].todo, uuids,
                  frame[w].coll)
    BY <1>0, FrameType DEF IInv, TypeOK, Frame, Fields, Labels
  <1>2. /\ Steps(w, l, frame[w].cmd, frame[w].args, frame[w].todo, uuids,
                 frame[w].coll)
        /\ joins' = joins
    <2> HIDE DEF f, l
    <2>1. Continue(w, l, f)
      BY <1>00 DEF LoadUserIdsFromDatabase, Goto, Return, f, l
    <2> QED BY <1>1, <2>1, SteppedTo DEF IInv, Fields
  <1>3. ShapeAt(w) /\ (w \in Admins => w \in Workers)
    BY DEF IInv, Shape
  <1>4. ShapeAt(w)'
    BY <1>0, <1>2, <1>3 DEF Steps, Fields, ShapeAt, Fits
  <1>5. TablesStep(w)
    BY <1>0, <1>2
    DEF TablesStep, IInv, TablesInv, TablesAt, Agree, Steps, Fields
  <1>6. AddedStep(w)
    <2>1. \A u \in Users : OnItsWay(w, u) /\ via[u] = "add" =>
              u \in leftOut' \/ OnItsWay(w, u)'
      BY <1>00, <1>0, <1>2, <1>3, LeavesOutType
      DEF OnItsWay, Steps, Fields, ShapeAt, Fits, IInv, MembersInv,
          JoinedUsersAreMembers
    <2> QED BY <1>0, <1>2, <1>3, <2>1, AddedQuiet
      DEF Steps, Fields, ShapeAt, Fits
  <1>7. UncachedStep(w)
    <2>1. Carried(w)' \subseteq uuids \cup lingering
      BY <1>0, <1>2, <1>3
      DEF IInv, UncachedInv, Carried, Steps, Fields, ShapeAt, Fits
    <2>2. \A u \in Users : Removing(w, u) /\ Cached(u) => Removing(w, u)'
      BY <1>0, <1>2, <1>3
      DEF Removing, Cached, Steps, Fields, ShapeAt, Fits, cache
    <2> QED BY <1>0, <2>1, <2>2 DEF UncachedStep, Cached, cache
  <1>9. /\ l \in {"read", "fill", "remove"} => frame[w].coll \in Colls
        /\ frame[w].coll =< ncolls /\ joins' \in 0..MaxJoins
    BY <1>0, <1>2 DEF IInv, TypeOK, FreshInv
  <1> HIDE DEF l
  <1> QED BY <1>0, <1>2, <1>4, <1>5, <1>6, <1>7, <1>9, QuietStep

(* getValue of AddAllUserIds.                                              *)
LEMMA AddAllGetInv ==
    ASSUME IInv, NEW w \in Workers, AddAllGet(w) PROVE IInv'
  <1> DEFINE l == IF entry = NoColl THEN "anew" ELSE "fill"
             f == [frame[w] EXCEPT !.coll = entry]
  <1>0. /\ pc[w] = "aget"
        /\ UNCHANGED <<room, uuids, chanStat, uuidChans, creates, cache, via,
                       torn,
                       lingering>>
        /\ fails' \in 0..MaxFails
        /\ leftOut \subseteq leftOut' /\ leftOut' \subseteq Users
    BY DEF AddAllGet, tables, hist, IInv, TypeOK
  <1>1. /\ f \in Frame /\ l \in Labels
        /\ Fields(f, frame[w].cmd, frame[w].args, frame[w].todo, frame[w].ids,
                  entry)
    BY <1>0, FrameType DEF IInv, TypeOK, Frame, Fields, Labels
  <1>2. /\ Steps(w, l, frame[w].cmd, frame[w].args, frame[w].todo, frame[w].ids,
                 entry)
        /\ joins' = joins
    <2> HIDE DEF f, l
    <2>1. Continue(w, l, f)
      BY DEF AddAllGet, Goto, Return, f, l
    <2> QED BY <1>1, <2>1, SteppedTo DEF IInv, Fields
  <1>3. ShapeAt(w) /\ (w \in Admins => w \in Workers)
    BY DEF IInv, Shape
  <1>4. ShapeAt(w)'
    BY <1>0, <1>2, <1>3 DEF Steps, Fields, ShapeAt, Fits
  <1>5. TablesStep(w)
    BY <1>0, <1>2
    DEF TablesStep, IInv, TablesInv, TablesAt, Agree, Steps, Fields
  <1>6. AddedStep(w)
    <2>1. \A u \in Users : OnItsWay(w, u) /\ via[u] = "add" =>
              u \in leftOut' \/ OnItsWay(w, u)'
      BY <1>0, <1>2, <1>3
      DEF OnItsWay, Steps, Fields, ShapeAt, Fits, IInv, MembersInv,
          JoinedUsersAreMembers
    <2> QED BY <1>0, <1>2, <1>3, <2>1, AddedQuiet
      DEF Steps, Fields, ShapeAt, Fits
  <1>7. UncachedStep(w)
    <2>1. Carried(w)' \subseteq uuids \cup lingering
      BY <1>0, <1>2, <1>3
      DEF IInv, UncachedInv, Carried, Steps, Fields, ShapeAt, Fits
    <2>2. \A u \in Users : Removing(w, u) /\ Cached(u) => Removing(w, u)'
      BY <1>0, <1>2, <1>3
      DEF Removing, Cached, Steps, Fields, ShapeAt, Fits, cache
    <2> QED BY <1>0, <2>1, <2>2 DEF UncachedStep, Cached, cache
  <1>9. /\ l \in {"read", "fill", "remove"} => entry \in Colls
        /\ entry =< ncolls /\ joins' \in 0..MaxJoins
    BY <1>0, <1>2 DEF IInv, TypeOK, FreshInv
  <1> HIDE DEF l
  <1> QED BY <1>0, <1>2, <1>4, <1>5, <1>6, <1>7, <1>9, QuietStep

(* The cache is looked at once the tables are written.                     *)
LEMMA ExistsInv ==
    ASSUME IInv, NEW w \in Workers, Exists(w) PROVE IInv'
  <1> DEFINE l == CASE frame[w].cmd = "add" /\ entry # NoColl    -> "aget"
                    [] frame[w].cmd = "add" /\ entry = NoColl    -> "load"
                    [] frame[w].cmd = "unsubs" /\ entry # NoColl -> "rget"
                    [] frame[w].cmd = "unsubs" /\ entry = NoColl -> "idle"
             f == [frame[w] EXCEPT !.ids = frame[w].args,
                                   !.todo = frame[w].args]
  <1>0. /\ pc[w] = "exists" /\ frame[w].cmd \in {"add", "unsubs"}
        /\ UNCHANGED <<room, uuids, chanStat, uuidChans, creates, cache, via,
                       torn,
                       lingering>>
        /\ fails' \in 0..MaxFails
        /\ leftOut \subseteq leftOut' /\ leftOut' \subseteq Users
    BY DEF Exists, Shape, ShapeAt, Fits, tables, hist, IInv, TypeOK
  <1>1. /\ f \in Frame /\ l \in Labels
        /\ Fields(f, frame[w].cmd, frame[w].args, frame[w].args, frame[w].args,
                  frame[w].coll)
    BY <1>0, FrameType DEF IInv, TypeOK, Frame, Fields, Labels
  <1>2. /\ Steps(w, l, frame[w].cmd, frame[w].args, frame[w].args, frame[w].args,
                 frame[w].coll)
        /\ joins' = joins
    <2> HIDE DEF f, l
    <2>1. Continue(w, l, f)
      BY DEF Exists, Goto, Return, f, l
    <2> QED BY <1>1, <2>1, SteppedTo DEF IInv, Fields
  <1>3. ShapeAt(w) /\ (w \in Admins => w \in Workers)
    BY DEF IInv, Shape
  <1>4. ShapeAt(w)'
    BY <1>0, <1>2, <1>3 DEF Steps, Fields, ShapeAt, Fits
  <1>5. TablesStep(w)
    BY <1>0, <1>2
    DEF TablesStep, IInv, TablesInv, TablesAt, Agree, Steps, Fields
  <1>6. AddedStep(w)
    <2>1. \A u \in Users : OnItsWay(w, u) /\ via[u] = "add" =>
              u \in leftOut' \/ OnItsWay(w, u)'
      BY <1>0, <1>2, <1>3
      DEF OnItsWay, Steps, Fields, ShapeAt, Fits, IInv, MembersInv,
          JoinedUsersAreMembers
    <2> QED BY <1>0, <1>2, <1>3, <2>1, AddedQuiet
      DEF Steps, Fields, ShapeAt, Fits
  <1>7. UncachedStep(w)
    <2>1. Carried(w)' \subseteq uuids \cup lingering
      BY <1>0, <1>2, <1>3
      DEF IInv, UncachedInv, Carried, Steps, Fields, ShapeAt, Fits
    <2>2. \A u \in Users : Removing(w, u) /\ Cached(u) => Removing(w, u)'
      BY <1>0, <1>2, <1>3
      DEF Removing, Cached, Steps, Fields, ShapeAt, Fits, cache
    <2> QED BY <1>0, <2>1, <2>2 DEF UncachedStep, Cached, cache
  <1>9. /\ l \in {"read", "fill", "remove"} => frame[w].coll \in Colls
        /\ frame[w].coll =< ncolls /\ joins' \in 0..MaxJoins
    BY <1>0, <1>2 DEF IInv, TypeOK, FreshInv
  <1> HIDE DEF l
  <1> QED BY <1>0, <1>2, <1>4, <1>5, <1>6, <1>7, <1>9, QuietStep

(* RemoveUserId looks for the collection; without one the loop goes on.    *)
LEMMA RemoveGetInv ==
    ASSUME IInv, NEW w \in Workers, RemoveGet(w) PROVE IInv'
  <1>0. /\ pc[w] = "rget" /\ UNCHANGED <<tables, cache, hist>> /\ ShapeAt(w)
        /\ frame[w].cmd = "unsubs"
    BY DEF RemoveGet, IInv, Shape, ShapeAt, Fits
  <1>1. ASSUME NEW l \in {"remove", "rget", "idle"}, NEW f \in Frame,
               NEW t \in SUBSET frame[w].todo, NEW k \in {entry, frame[w].coll},
               Fields(f, frame[w].cmd, frame[w].args, t, frame[w].ids, k),
               Continue(w, l, f),
               IF entry = NoColl THEN l # "remove"
               ELSE l = "remove" /\ k = entry /\ t = frame[w].todo
        PROVE  IInv'
    <2>1. Steps(w, l, "unsubs", frame[w].args, t, frame[w].ids, k) /\ joins' = joins
      BY <1>0, <1>1, SteppedTo DEF IInv, Fields, Labels
    <2>2. ShapeAt(w)'
      BY <1>0, <2>1 DEF Steps, Fields, ShapeAt, Fits
    <2>3. TablesStep(w)
      BY <1>0, <1>1, <2>1
      DEF TablesStep, IInv, TablesInv, TablesAt, Agree, Steps, Fields, tables,
          hist
    <2>4. AddedStep(w)
      BY <1>0, <1>1, <2>1, AddedQuiet DEF OnItsWay, Steps, Fields, tables, hist
    <2>5. Carried(w)' \subseteq uuids \cup lingering
      BY <2>1 DEF Carried, Steps, Fields
    <2>6. UncachedStep(w)
      BY <1>0, <1>1, <2>1, <2>5
      DEF UncachedStep, Removing, Cached, Steps, Fields, tables, hist, cache
    <2>7. /\ l = "remove" => k \in Colls
          /\ k =< ncolls /\ joins' \in 0..MaxJoins
          /\ fails' \in 0..MaxFails /\ leftOut' \subseteq Users
      BY <1>0, <1>1, <2>1 DEF IInv, TypeOK, FreshInv, tables, hist
    <2> QED BY <1>0, <2>1, <2>2, <2>3, <2>4, <2>5, <2>6, <2>7, QuietStep
      DEF tables, hist
  <1>2. CASE entry # NoColl
    <2> DEFINE f == [frame[w] EXCEPT !.coll = entry]
    <2>1. /\ f \in Frame
          /\ Fields(f, frame[w].cmd, frame[w].args, frame[w].todo, frame[w].ids, entry)
      BY FrameType DEF IInv, TypeOK, Frame, Fields
    <2>2. Continue(w, "remove", f)
      BY <1>2 DEF RemoveGet
    <2> HIDE DEF f
    <2> QED BY <1>1, <1>2, <2>1, <2>2
  <1>3. CASE entry = NoColl
    <2>1. PICK u \in frame[w].todo : NextRemoval(w, u)
      BY <1>3 DEF RemoveGet
    <2> DEFINE f == [frame[w] EXCEPT !.todo = @ \ {u}]
               l == IF frame[w].todo = {u} THEN "idle" ELSE "rget"
    <2>2. /\ f \in Frame
          /\ Fields(f, frame[w].cmd, frame[w].args, frame[w].todo \ {u},
                    frame[w].ids, frame[w].coll)
      BY FrameType DEF IInv, TypeOK, Frame, Fields
    <2>3. Continue(w, l, f) /\ l \in {"rget", "idle"}
      BY <2>1 DEF NextRemoval
    <2> HIDE DEF f, l
    <2> QED BY <1>1, <1>3, <2>2, <2>3
  <1> QED BY <1>2, <1>3

(* A user is removed from the collection the worker holds.                 *)
LEMMA RemoveUserIdInv ==
    ASSUME IInv, NEW w \in Workers, RemoveUserId(w) PROVE IInv'
  <1>0. /\ pc[w] = "remove" /\ ShapeAt(w) /\ frame[w].cmd = "unsubs"
        /\ frame[w].coll \in Colls
        /\ UNCHANGED <<room, uuids, chanStat, uuidChans, via, creates, entry,
                       ncolls, evicts, fails, torn, leftOut>>
    BY DEF RemoveUserId, IInv, TypeOK, Shape, ShapeAt, Fits, tables
  <1>1. PICK u \in frame[w].todo :
          /\ userIds' = [userIds EXCEPT ![frame[w].coll] = @ \ {u}]
          /\ lingering' = IF frame[w].coll = entry
                          THEN lingering \ ({u} \ Bringing) ELSE lingering
          /\ NextRemoval(w, u)
    BY DEF RemoveUserId
  <1> DEFINE f == [frame[w] EXCEPT !.todo = @ \ {u}]
             l == IF frame[w].todo = {u} THEN "idle" ELSE "rget"
             t == frame[w].todo \ {u}
  <1>2. f \in Frame /\ Fields(f, "unsubs", frame[w].args, t, frame[w].ids, frame[w].coll)
    BY <1>0, FrameType DEF IInv, TypeOK, Frame, Fields
  <1>3. Continue(w, l, f) /\ l \in {"rget", "idle"} /\ t \subseteq frame[w].todo
    BY <1>1 DEF NextRemoval
  <1>4. Steps(w, l, "unsubs", frame[w].args, t, frame[w].ids, frame[w].coll)
        /\ joins' = joins
    <2> HIDE DEF f, l
    <2> QED BY <1>2, <1>3, SteppedTo DEF IInv, Fields, Labels
  <1>5. /\ userIds' \in [Colls -> SUBSET Users]
        /\ \A k \in Colls : userIds'[k] \subseteq userIds[k]
        /\ \A k \in Colls : \A v \in userIds[k] : v = u \/ v \in userIds'[k]
        /\ u \notin userIds'[frame[w].coll]
    BY <1>0, <1>1 DEF IInv, TypeOK
  <1>6. t # {} => l = "rget"
    BY <1>1
  <1> HIDE DEF f, l
  <1>7. TypeOK'
    <2>1. lingering' \subseteq Users
      BY <1>1 DEF IInv, TypeOK
    <2> QED BY <1>0, <1>3, <1>4, <1>5, <2>1 DEF IInv, TypeOK, Steps, Frame
  <1>8. Shape'
    <2>1. ShapeAt(w)'
      BY <1>0, <1>3, <1>4 DEF Steps, Fields, ShapeAt, Fits
    <2> QED BY <1>4, <2>1, ShapeKept
  <1>9. MembersInv'
    BY <1>0 DEF IInv, MembersInv, JoinedUsersAreMembers
  <1>10. TablesInv'
    <2>1. TablesStep(w)
      BY <1>0, <1>3, <1>4
      DEF TablesStep, IInv, TablesInv, TablesAt, Agree, Steps, Fields
    <2> QED BY <1>0, <1>4, <2>1, TablesKept
  <1>11. AddedInv'
    <2>1. w \in Admins /\ u \in frame[w].args
      BY <1>0 DEF ShapeAt
    <2>2. ASSUME OneAdmin PROVE SafeStep /\ AddedAt(w)'
      <3>1. AddedAt(w) /\ \A v \in Users : via[v] = "add" => v # u
        BY <1>0, <2>1, <2>2 DEF IInv, AddedInv, AddedAt
      <3>2. \A v \in Users : via[v] = "add" /\ Cached(v) => Cached(v)'
        BY <1>0, <1>5, <3>1 DEF Cached, IInv, TypeOK
      <3>3. SafeStep
        BY <1>0, <1>3, <1>4, <3>2, SafeKept
      <3>4. \A v \in Users : via'[v] = "add" => Safe(v)'
        BY <1>0, <3>1, <3>3 DEF AddedAt, SafeStep, OnItsWay
      <3>5. \A v \in frame[w].args : via'[v] # "add"
        BY <1>0, <3>1 DEF AddedAt
      <3>6. frame'[w].cmd = "none" \/ (frame'[w].cmd = "unsubs"
                                       /\ frame'[w].args = frame[w].args)
        BY <1>3, <1>4 DEF Steps, Fields
      <3> QED BY <3>3, <3>4, <3>5, <3>6 DEF AddedAt
    <2>3. AddedStep(w)
      BY <2>1, <2>2 DEF AddedStep
    <2> QED BY <1>0, <1>4, <2>3, AddedKept
  <1>12. FreshInv'
    <2>1. frame'[w].coll =< ncolls
      BY <1>0, <1>3, <1>4 DEF Steps, Fields, IInv, TypeOK, NoColl, FreshInv
    <2> QED BY <1>0, <1>4, <1>5, <2>1 DEF IInv, FreshInv, Steps
  <1>13. UncachedInv'
    <2>1. Carried(w)' \subseteq uuids' \cup lingering'
      BY <1>3, <1>4 DEF Carried, Steps, Fields
    <2>2. \A v \in Users : Cached(v)' => Cached(v)
      BY <1>0, <1>5 DEF Cached, IInv, TypeOK
    <2>3. ASSUME NEW v \in Users, Removing(w, v), Cached(v)' PROVE Removing(w, v)'
      <3>1. v \in frame[w].todo /\ frame[w].coll = entry
        BY <1>0, <2>3 DEF Removing
      <3>2. v # u
        BY <1>0, <1>5, <2>3, <3>1 DEF Cached
      <3> QED BY <1>3, <1>4, <1>6, <3>1, <3>2 DEF Removing, Steps, Fields
    <2>4. UncachedStep(w)
      BY <1>0, <2>1, <2>3 DEF UncachedStep
    <2>5. \A v \in uuids \cup lingering :
             v \in uuids' \cup lingering' \/ (v \notin Bringing /\ ~Cached(v)')
      BY <1>0, <1>1, <1>5 DEF Cached
    <2> QED BY <1>0, <1>4, <2>2, <2>4, <2>5, UncachedKept
  <1> QED
    BY <1>7, <1>8, <1>9, <1>10, <1>11, <1>12, <1>13 DEF IInv

\* The types of the tables.
TablesType ==
    /\ room \in BOOLEAN /\ uuids \subseteq Users /\ chanStat \subseteq Users
    /\ uuidChans \subseteq Users /\ creates \in 0..MaxCreates
    /\ via \in [Users -> Commands \cup {"none"}] /\ torn \subseteq Users
    /\ leftOut \subseteq Users /\ fails \in 0..MaxFails

(* A step in the database that takes nobody out of the room.               *)
LEMMA TableStep ==
    ASSUME IInv, NEW w \in Workers, NEW l, NEW a, NEW t, NEW i,
           Steps(w, l, frame[w].cmd, a, t, i, frame[w].coll),
           UNCHANGED <<cache, joins>>,
           lingering \subseteq lingering', lingering' \subseteq Users,
           l \notin {"read", "fill", "remove"},
           TablesType', uuids \subseteq uuids', ShapeAt(w)', MembersInv',
           TablesStep(w), AddedStep(w), UncachedStep(w)
    PROVE  IInv'
  <1>1. UNCHANGED <<entry, userIds, ncolls, evicts, joins>>
    BY DEF cache
  <1>2. TypeOK'
    BY <1>1 DEF IInv, TypeOK, TablesType, Steps, Frame
  <1>3. Shape'
    BY <1>1, ShapeKept
  <1>4. TablesInv'
    BY <1>1, TablesKept
  <1>5. AddedInv'
    BY <1>1, AddedKept
  <1>6. FreshInv'
    <2>1. frame'[w].coll =< ncolls
      BY DEF Steps, Fields, IInv, TypeOK, NoColl, FreshInv
    <2> QED BY <1>1, <2>1 DEF IInv, FreshInv, Steps
  <1>7. UncachedInv'
    BY <1>1, UncachedKept DEF Cached
  <1> QED BY <1>2, <1>3, <1>4, <1>5, <1>6, <1>7 DEF IInv

(* A command that returns early leaves everything else as it is.           *)
LEMMA ReturnInv ==
    ASSUME IInv, NEW w \in Workers, Return(w),
           UNCHANGED <<room, uuids, chanStat, uuidChans, creates, cache, via,
                       torn,
                       lingering, fails>>,
           leftOut \subseteq leftOut', leftOut' \subseteq Users,
           \/ pc[w] = "insert"
           \/ pc[w] \in {"push", "pull"} /\ ~room
    PROVE  IInv'
  <1>1. Steps(w, "idle", "none", {}, {}, {}, NoColl) /\ joins' = joins
    BY Returned DEF Return, Goto, IInv, Moves, Steps, Fields, NoFrame
  <1>2. ShapeAt(w)' /\ ShapeAt(w)
    BY <1>1 DEF IInv, Shape, Steps, Fields, ShapeAt, Fits
  <1>3. TablesStep(w)
    BY <1>1 DEF TablesStep, IInv, TablesInv, TablesAt, Agree, Steps, Fields
  <1>4. AddedStep(w)
    <2>1. pc[w] = "insert" => frame[w].cmd \in {"subs", "createroom"}
      BY <1>2 DEF ShapeAt, Fits
    <2>2. ~room => \A u \in Users : via[u] = "none"
      BY DEF IInv, MembersInv, JoinedUsersAreMembers
    <2>3. \A u \in Users : ~(OnItsWay(w, u) /\ via[u] = "add")
      BY <2>1, <2>2 DEF OnItsWay
    <2> QED BY <1>1, <2>3, AddedQuiet DEF Steps, Fields
  <1>5. UncachedStep(w)
    BY <1>1 DEF UncachedStep, Carried, Removing, Steps, Fields
  <1>6. NoColl =< ncolls /\ joins' \in 0..MaxJoins /\ fails' \in 0..MaxFails
    BY <1>1 DEF IInv, TypeOK, NoColl
  <1> QED BY <1>1, <1>2, <1>3, <1>4, <1>5, <1>6, QuietStep

(* createRoom inserts the document.                                        *)
LEMMA CreateInsertInv ==
    ASSUME IInv, NEW w \in Workers, CreateInsert(w) PROVE IInv'
  <1>0. /\ pc[w] = "insert" /\ ShapeAt(w)
        /\ frame[w].cmd \in {"subs", "createroom"}
        /\ UNCHANGED <<chanStat, uuidChans, lingering, leftOut, cache>>
    BY DEF CreateInsert, IInv, Shape, ShapeAt, Fits
  <1>1. CASE room
    <2>1. Return(w) /\ UNCHANGED <<room, uuids, via, creates, torn, fails>>
      BY <1>1 DEF CreateInsert
    <2> QED BY <1>0, <2>1, ReturnInv DEF IInv, TypeOK
  <1>2. CASE ~room
    <2>1. PICK u \in frame[w].args, ok \in BOOLEAN, done \in BOOLEAN :
            /\ Ends(ok)
            /\ ok => done
            /\ IF done
               THEN /\ room' = TRUE
                    /\ uuids' = {u}
                    /\ via' = [via EXCEPT ![u] = frame[w].cmd]
                    /\ creates' = creates + 1
               ELSE UNCHANGED <<room, uuids, via, creates>>
            /\ torn' = IF ok THEN torn \ {u} ELSE torn \cup {u}
            /\ Continue(w, IF ok THEN "cstat" ELSE "idle",
                        [frame[w] EXCEPT !.ids = {u}])
      BY <1>2 DEF CreateInsert
    <2> DEFINE f == [frame[w] EXCEPT !.ids = {u}]
               l == IF ok THEN "cstat" ELSE "idle"
    <2>2. /\ f \in Frame /\ u \in Users
          /\ Fields(f, frame[w].cmd, frame[w].args, frame[w].todo, {u}, frame[w].coll)
      BY FrameType DEF IInv, TypeOK, Frame, Fields
    <2>3. /\ Steps(w, l, frame[w].cmd, frame[w].args, frame[w].todo, {u},
                   frame[w].coll)
          /\ joins' = joins
      <3>1. Continue(w, l, f) /\ l \in Labels
        BY <2>1 DEF f, Labels
      <3> HIDE DEF f, l
      <3> QED BY <2>2, <3>1, SteppedTo DEF IInv, Fields
    <2>4. /\ creates' \in 0..MaxCreates /\ fails' \in 0..MaxFails
          /\ via' \in [Users -> Commands \cup {"none"}]
      BY <1>0, <1>2, <2>1, <2>2, BoundAssumption, EndsType, FrameType
      DEF CreateInsert, IInv, TypeOK
    <2>5. uuids = {} /\ \A v \in Users : via[v] = "none"
      BY <1>2 DEF IInv, MembersInv, JoinedUsersAreMembers
    <2>6. MembersInv'
      BY <1>0, <1>2, <2>1, <2>2, <2>5
      DEF IInv, TypeOK, MembersInv, JoinedUsersAreMembers
    <2>7. ShapeAt(w)'
      BY <1>0, <2>1, <2>3 DEF Steps, Fields, ShapeAt, Fits
    <2>8. TablesStep(w)
      <3>1. (OneAdmin /\ joins = 0) =>
               \A v \in Users \ torn : v \notin chanStat /\ v \notin uuidChans
        BY <1>0, <2>5 DEF ShapeAt, IInv, TablesInv, TablesAt, Agree
      <3> QED BY <1>0, <2>1, <2>3, <2>5, <3>1
        DEF TablesStep, TablesAt, Agree, ShapeAt, Steps, Fields
    <2>9. \A v \in Users : via'[v] # "add" /\ via[v] # "add"
      BY <1>0, <2>1, <2>5 DEF IInv, TypeOK
    <2>10. AddedStep(w)
      BY <1>0, <2>3, <2>9 DEF AddedStep, SafeStep, AddedAt, Steps, Fields
    <2>11. UncachedStep(w)
      BY <1>0, <2>3 DEF UncachedStep, Carried, Removing, Steps, Fields
    <2>12. TablesType' /\ uuids \subseteq uuids'
      BY <1>0, <2>1, <2>2, <2>4, <2>5 DEF IInv, TypeOK, TablesType
    <2>13. l \notin {"read", "fill", "remove"}
      OBVIOUS
    <2> HIDE DEF l
    <2> QED BY <1>0, <2>3, <2>6, <2>7, <2>8, <2>10, <2>11, <2>12, <2>13, TableStep
      DEF IInv, TypeOK
  <1> QED BY <1>1, <1>2

(* joinRoom adds the user to the document.                                 *)
LEMMA JoinPushInv ==
    ASSUME IInv, NEW w \in Workers, JoinPush(w) PROVE IInv'
  <1>0. /\ pc[w] = "push" /\ ShapeAt(w)
        /\ frame[w].cmd \in {"subs", "add", "join_room", "createroom"}
        /\ UNCHANGED <<room, chanStat, uuidChans, lingering, creates, cache>>
    BY DEF JoinPush, IInv, Shape, ShapeAt, Fits
  <1>1. CASE ~room
    <2>1. Return(w) /\ LeavesOut(w, FALSE) /\ UNCHANGED <<uuids, via, torn,
                                                          fails>>
      BY <1>1 DEF JoinPush
    <2> QED BY <1>0, <1>1, <2>1, ReturnInv, LeavesOutType
  <1>2. CASE room
    <2>1. PICK u \in frame[w].todo, ok \in BOOLEAN, done \in BOOLEAN :
            /\ Ends(ok)
            /\ ok => done
            /\ IF done
               THEN /\ uuids' = uuids \cup {u}
                    /\ via' = [via EXCEPT ![u] = frame[w].cmd]
               ELSE UNCHANGED <<uuids, via>>
            /\ torn' = IF ok THEN torn \ {u} ELSE torn \cup {u}
            /\ Continue(w, IF ok THEN "jstat" ELSE "idle",
                        [frame[w] EXCEPT !.ids = {u}])
            /\ LeavesOut(w, ok)
      BY <1>2 DEF JoinPush
    <2> DEFINE f == [frame[w] EXCEPT !.ids = {u}]
               l == IF ok THEN "jstat" ELSE "idle"
    <2>2. /\ f \in Frame /\ u \in Users /\ u \in frame[w].args
          /\ Fields(f, frame[w].cmd, frame[w].args, frame[w].todo, {u}, frame[w].coll)
      BY <1>0, FrameType DEF IInv, TypeOK, Frame, Fields, ShapeAt
    <2>3. /\ Steps(w, l, frame[w].cmd, frame[w].args, frame[w].todo, {u},
                   frame[w].coll)
          /\ joins' = joins
      <3>1. Continue(w, l, f) /\ l \in Labels
        BY <2>1 DEF f, Labels
      <3> HIDE DEF f, l
      <3> QED BY <2>2, <3>1, SteppedTo DEF IInv, Fields
    <2>4. /\ via' \in [Users -> Commands \cup {"none"}]
          /\ \A v \in Users : via'[v] = via[v] \/ (v = u /\ via'[v] = frame[w].cmd)
          /\ fails' \in 0..MaxFails
          /\ leftOut \subseteq leftOut' /\ leftOut' \subseteq Users
          /\ ~ok /\ frame[w].cmd = "add" => frame[w].args \subseteq leftOut'
      BY <1>0, <2>1, <2>2, EndsType, LeavesOutType, FrameType DEF IInv, TypeOK
    <2>5. MembersInv'
      <3>1. \A v \in Users : via'[v] =
               IF done /\ v = u THEN frame[w].cmd ELSE via[v]
        BY <2>1, <2>2 DEF IInv, TypeOK
      <3>2. uuids' = IF done THEN uuids \cup {u} ELSE uuids
        BY <2>1
      <3> QED BY <1>0, <1>2, <2>2, <3>1, <3>2
        DEF IInv, MembersInv, JoinedUsersAreMembers
    <2>6. ShapeAt(w)'
      BY <1>0, <2>1, <2>3 DEF Steps, Fields, ShapeAt, Fits
    <2>7. TablesStep(w)
      BY <1>0, <2>1, <2>3
      DEF TablesStep, ShapeAt, IInv, TablesInv, TablesAt, Agree, Steps, Fields
    <2>8. UNCHANGED <<entry,
                      userIds>> /\ \A v \in Users : Cached(v)' <=> Cached(v)
      BY <1>0 DEF Cached, cache
    <2>9. SafeStep
      BY <1>0, <2>3, <2>4, <2>8, SafeKept
    <2>10. ASSUME OneAdmin, w \in Admins PROVE AddedAt(w)'
      <3>1. AddedAt(w) /\ OneAdmin
        BY <2>10 DEF IInv, AddedInv
      <3>2. ASSUME NEW v \in Users, via'[v] = "add"
            PROVE  Safe(v)' \/ OnItsWay(w, v)'
        <4>1. CASE via[v] = "add" /\ Safe(v)
          BY <2>9, <3>2, <4>1 DEF SafeStep
        <4>2. CASE frame[w].cmd = "add" /\ v \in frame[w].args
          <5>1. CASE ok
            BY <2>3, <4>2, <5>1 DEF OnItsWay, Steps, Fields
          <5>2. CASE ~ok
            BY <2>4, <4>2, <5>2 DEF Safe
          <5> QED BY <5>1, <5>2
        <4> QED BY <2>2, <2>4, <3>1, <3>2, <4>1, <4>2 DEF AddedAt, OnItsWay
      <3> QED BY <1>0, <2>3, <3>2 DEF AddedAt, Steps, Fields
    <2>11. AddedStep(w)
      BY <1>0, <2>4, <2>9, <2>10 DEF AddedStep, ShapeAt
    <2>12. UncachedStep(w)
      BY <1>0, <2>1, <2>3
      DEF UncachedStep, IInv, UncachedInv, Carried, Removing, Steps, Fields
    <2>13. TablesType' /\ uuids \subseteq uuids'
      BY <1>0, <2>1, <2>2, <2>4 DEF IInv, TypeOK, TablesType
    <2>14. l \notin {"read", "fill", "remove"}
      OBVIOUS
    <2> HIDE DEF l
    <2> QED BY <1>0, <2>3, <2>5, <2>6, <2>7, <2>11, <2>12, <2>13, <2>14, TableStep
      DEF IInv, TypeOK
  <1> QED BY <1>1, <1>2

(* createRoom writes user_info.                                            *)
LEMMA CreateStatInv ==
    ASSUME IInv, NEW w \in Workers, CreateStat(w) PROVE IInv'
  <1>0. PICK ok \in BOOLEAN, done \in SUBSET frame[w].ids :
          /\ Ends(ok) /\ (ok => done = frame[w].ids)
          /\ chanStat' = chanStat \cup done
          /\ torn' = IF ok THEN torn ELSE torn \cup frame[w].ids
          /\ Goto(w, IF ok THEN "cchan" ELSE "idle")
          /\ leftOut' = leftOut
    BY DEF CreateStat, Writes
  <1>1. /\ pc[w] = "cstat" /\ ShapeAt(w) /\ frame[w].ids \subseteq Users
        /\ UNCHANGED <<room, uuids, uuidChans, via, lingering, creates, cache>>
    BY FrameType DEF CreateStat, IInv, Shape
  <1>2. /\ fails' \in 0..MaxFails
        /\ leftOut \subseteq leftOut' /\ leftOut' \subseteq Users
        /\ ~ok /\ frame[w].cmd = "add" => frame[w].args \subseteq leftOut'
    BY <1>0, <1>1, EndsType DEF IInv, TypeOK, ShapeAt, Fits
  <1> DEFINE l == IF ok THEN "cchan" ELSE "idle"
  <1>3. /\ Steps(w, l, frame[w].cmd, frame[w].args, frame[w].todo,
                 frame[w].ids, frame[w].coll)
        /\ joins' = joins /\ l \in {"cchan", "idle"}
    BY <1>0, FrameType, SteppedTo DEF Goto, IInv, Labels
  <1>4. ShapeAt(w)'
    BY <1>1, <1>3 DEF Steps, Fields, ShapeAt, Fits
  <1>5. TablesStep(w)
    BY <1>0, <1>1, <1>3
    DEF TablesStep, ShapeAt, Fits, IInv, TablesInv, TablesAt, Agree, Steps, Fields
  <1>6. AddedStep(w)
    <2>1. \A u \in Users : OnItsWay(w, u) /\ via[u] = "add" =>
              u \in leftOut' \/ OnItsWay(w, u)'
      BY <1>1, <1>2, <1>3 DEF OnItsWay, Steps, Fields
    <2> QED BY <1>1, <1>2, <1>3, <2>1, AddedQuiet DEF Steps, Fields, ShapeAt, Fits
  <1>7. UncachedStep(w)
    BY <1>1, <1>3
    DEF UncachedStep, IInv, UncachedInv, Carried, Removing, Steps, Fields
  <1>8. TablesType' /\ uuids \subseteq uuids'
    BY <1>0, <1>1, <1>2 DEF IInv, TypeOK, TablesType
  <1>9. MembersInv'
    BY <1>1 DEF IInv, MembersInv, JoinedUsersAreMembers
  <1> HIDE DEF l
  <1> QED BY <1>1, <1>3, <1>4, <1>5, <1>6, <1>7, <1>8, <1>9, TableStep
    DEF IInv, TypeOK

(* joinRoom writes user_info.                                              *)
LEMMA JoinStatInv ==
    ASSUME IInv, NEW w \in Workers, JoinStat(w) PROVE IInv'
  <1>0. PICK ok \in BOOLEAN, done \in SUBSET frame[w].ids :
          /\ Ends(ok) /\ (ok => done = frame[w].ids)
          /\ chanStat' = chanStat \cup done
          /\ torn' = IF ok THEN torn ELSE torn \cup frame[w].ids
          /\ Goto(w, IF ok THEN "jchan" ELSE "idle")
          /\ LeavesOut(w, ok)
    BY DEF JoinStat, Writes
  <1>1. /\ pc[w] = "jstat" /\ ShapeAt(w) /\ frame[w].ids \subseteq Users
        /\ UNCHANGED <<room, uuids, uuidChans, via, lingering, creates, cache>>
    BY FrameType DEF JoinStat, IInv, Shape
  <1>2. /\ fails' \in 0..MaxFails
        /\ leftOut \subseteq leftOut' /\ leftOut' \subseteq Users
        /\ ~ok /\ frame[w].cmd = "add" => frame[w].args \subseteq leftOut'
    BY <1>0, <1>1, EndsType, LeavesOutType DEF IInv, TypeOK
  <1> DEFINE l == IF ok THEN "jchan" ELSE "idle"
  <1>3. /\ Steps(w, l, frame[w].cmd, frame[w].args, frame[w].todo,
                 frame[w].ids, frame[w].coll)
        /\ joins' = joins /\ l \in {"jchan", "idle"}
    BY <1>0, FrameType, SteppedTo DEF Goto, IInv, Labels
  <1>4. ShapeAt(w)'
    BY <1>1, <1>3 DEF Steps, Fields, ShapeAt, Fits
  <1>5. TablesStep(w)
    BY <1>0, <1>1, <1>3
    DEF TablesStep, ShapeAt, Fits, IInv, TablesInv, TablesAt, Agree, Steps, Fields
  <1>6. AddedStep(w)
    <2>1. \A u \in Users : OnItsWay(w, u) /\ via[u] = "add" =>
              u \in leftOut' \/ OnItsWay(w, u)'
      BY <1>1, <1>2, <1>3 DEF OnItsWay, Steps, Fields
    <2> QED BY <1>1, <1>2, <1>3, <2>1, AddedQuiet DEF Steps, Fields, ShapeAt, Fits
  <1>7. UncachedStep(w)
    BY <1>1, <1>3
    DEF UncachedStep, IInv, UncachedInv, Carried, Removing, Steps, Fields
  <1>8. TablesType' /\ uuids \subseteq uuids'
    BY <1>0, <1>1, <1>2 DEF IInv, TypeOK, TablesType
  <1>9. MembersInv'
    BY <1>1 DEF IInv, MembersInv, JoinedUsersAreMembers
  <1> HIDE DEF l
  <1> QED BY <1>1, <1>3, <1>4, <1>5, <1>6, <1>7, <1>8, <1>9, TableStep
    DEF IInv, TypeOK

(* createRoom and joinRoom write uuid_channels; the loop goes on.          *)
LEMMA WriteChanInv ==
    ASSUME IInv, NEW w \in Workers, pc[w] \in {"cchan", "jchan"}, WriteChan(w)
    PROVE  IInv'
  <1>0. PICK ok \in BOOLEAN, done \in SUBSET frame[w].ids :
          /\ Ends(ok) /\ (ok => done = frame[w].ids)
          /\ uuidChans' = uuidChans \cup done
          /\ torn' = IF ok THEN torn ELSE torn \cup frame[w].ids
          /\ NextUser(w, ok)
    BY DEF WriteChan, Writes
  <1>1. /\ ShapeAt(w) /\ frame[w].ids \subseteq Users
        /\ UNCHANGED <<room, uuids, chanStat, via, lingering, creates, cache>>
    BY FrameType DEF WriteChan, IInv, Shape
  <1>2. /\ fails' \in 0..MaxFails
        /\ leftOut \subseteq leftOut' /\ leftOut' \subseteq Users
        /\ ~ok /\ frame[w].cmd = "add" => frame[w].args \subseteq leftOut'
    BY <1>0, EndsType, LeavesOutType DEF NextUser
  <1> DEFINE rest == frame[w].todo \ frame[w].ids
             l == CASE ok /\ rest # {} -> "push"
                    [] ok /\ rest = {} /\ frame[w].cmd = "add" -> "exists"
                    [] OTHER -> "idle"
             f == [frame[w] EXCEPT !.todo = rest]
  <1>3. /\ f \in Frame /\ l \in {"push", "exists", "idle"}
        /\ Fields(f, frame[w].cmd, frame[w].args, rest, frame[w].ids, frame[w].coll)
        /\ l = "idle" => ~ok \/ frame[w].cmd # "add"
        /\ l = "exists" => rest = {} /\ frame[w].cmd = "add"
        /\ l # "idle" => ok
    BY FrameType DEF IInv, TypeOK, Frame, Fields
  <1>4. /\ Steps(w, l, frame[w].cmd, frame[w].args, rest, frame[w].ids, frame[w].coll)
        /\ joins' = joins
    <2> HIDE DEF f, l, rest
    <2>1. Continue(w, l, f)
      BY <1>0 DEF NextUser, f, l, rest
    <2> QED BY <1>3, <2>1, SteppedTo DEF IInv, Fields, Labels
  <1> HIDE DEF l
  <1>5. ShapeAt(w)'
    BY <1>1, <1>3, <1>4 DEF Steps, Fields, ShapeAt, Fits
  <1>6. TablesStep(w)
    BY <1>0, <1>1, <1>3, <1>4
    DEF TablesStep, ShapeAt, Fits, IInv, TablesInv, TablesAt, Agree, Steps, Fields
  <1>7. AddedStep(w)
    <2>1. \A u \in Users : OnItsWay(w, u) /\ via[u] = "add" =>
              u \in leftOut' \/ OnItsWay(w, u)'
      BY <1>1, <1>2, <1>3, <1>4 DEF OnItsWay, Steps, Fields
    <2> QED BY <1>1, <1>2, <1>3, <1>4, <2>1, AddedQuiet
      DEF Steps, Fields, ShapeAt, Fits
  <1>8. UncachedStep(w)
    BY <1>1, <1>3, <1>4
    DEF UncachedStep, ShapeAt, Fits, IInv, UncachedInv, Carried, Removing,
        Steps, Fields
  <1>9. TablesType' /\ uuids \subseteq uuids'
    BY <1>0, <1>1, <1>2 DEF IInv, TypeOK, TablesType
  <1>10. MembersInv'
    BY <1>1 DEF IInv, MembersInv, JoinedUsersAreMembers
  <1> HIDE DEF rest, f
  <1> QED BY <1>1, <1>3, <1>4, <1>5, <1>6, <1>7, <1>8, <1>9, <1>10, TableStep
    DEF IInv, TypeOK

(* leaveRoom removes the document of an empty room.                        *)
LEMMA LeaveRemoveInv ==
    ASSUME IInv, NEW w \in Workers, LeaveRemove(w) PROVE IInv'
  <1>0. PICK ok \in BOOLEAN, done \in BOOLEAN :
          Ends(ok) /\ room' = (room /\ ~(done /\ uuids = {}))
    BY DEF LeaveRemove
  <1>1. /\ pc[w] = "rm" /\ ShapeAt(w) /\ fails' \in 0..MaxFails
        /\ UNCHANGED <<uuids, chanStat, uuidChans, via, lingering, torn, leftOut,
                       creates, cache>>
    BY <1>0, EndsType DEF LeaveRemove, IInv, Shape, hist
  <1> DEFINE l == "lstat"
  <1>2. /\ Steps(w, l, frame[w].cmd, frame[w].args, frame[w].todo,
                 frame[w].ids, frame[w].coll)
        /\ joins' = joins /\ l \notin {"read", "fill", "remove"}
    BY FrameType, SteppedTo DEF LeaveRemove, Goto, IInv, Labels
  <1>3. ShapeAt(w)'
    BY <1>1, <1>2 DEF Steps, Fields, ShapeAt, Fits
  <1>4. TablesStep(w)
    BY <1>1, <1>2
    DEF TablesStep, ShapeAt, Fits, IInv, TablesInv, TablesAt, Agree, Steps, Fields
  <1>5. AddedStep(w)
    <2>1. \A u \in Users : OnItsWay(w, u) => OnItsWay(w, u)'
      BY <1>1, <1>2 DEF OnItsWay, Steps, Fields, ShapeAt, Fits
    <2> QED BY <1>1, <1>2, <2>1, AddedQuiet DEF Steps, Fields, ShapeAt, Fits
  <1>6. UncachedStep(w)
    BY <1>1, <1>2
    DEF UncachedStep, Carried, Removing, ShapeAt, Fits, Steps, Fields
  <1>7. TablesType' /\ uuids \subseteq uuids'
    BY <1>0, <1>1 DEF IInv, TypeOK, TablesType
  <1>8. MembersInv'
    BY <1>0, <1>1 DEF IInv, MembersInv, JoinedUsersAreMembers
  <1> HIDE DEF l
  <1> QED BY <1>1, <1>2, <1>3, <1>4, <1>5, <1>6, <1>7, <1>8, TableStep
    DEF IInv, TypeOK

(* leaveRoom writes user_info, and goes on after an error.                 *)
LEMMA LeaveStatInv ==
    ASSUME IInv, NEW w \in Workers, LeaveStat(w) PROVE IInv'
  <1>0. PICK ok \in BOOLEAN, done \in SUBSET frame[w].args :
          /\ Ends(ok) /\ (ok => done = frame[w].args)
          /\ chanStat' = chanStat \ done
          /\ torn' = IF ok THEN torn ELSE torn \cup frame[w].args
    BY DEF LeaveStat, Writes
  <1>1. /\ pc[w] = "lstat" /\ ShapeAt(w) /\ fails' \in 0..MaxFails
        /\ frame[w].args \subseteq Users
        /\ UNCHANGED <<room, uuids, uuidChans, via, lingering, leftOut, creates,
                       cache>>
    BY <1>0, EndsType, FrameType DEF LeaveStat, IInv, Shape
  <1> DEFINE l == "lchan"
  <1>2. /\ Steps(w, l, frame[w].cmd, frame[w].args, frame[w].todo,
                 frame[w].ids, frame[w].coll)
        /\ joins' = joins /\ l \notin {"read", "fill", "remove"}
    BY FrameType, SteppedTo DEF LeaveStat, Goto, IInv, Labels
  <1>3. ShapeAt(w)'
    BY <1>1, <1>2 DEF Steps, Fields, ShapeAt, Fits
  <1>4. TablesStep(w)
    BY <1>0, <1>1, <1>2
    DEF TablesStep, ShapeAt, Fits, IInv, TablesInv, TablesAt, Agree, Steps, Fields
  <1>5. AddedStep(w)
    <2>1. \A u \in Users : OnItsWay(w, u) => OnItsWay(w, u)'
      BY <1>1, <1>2 DEF OnItsWay, Steps, Fields, ShapeAt, Fits
    <2> QED BY <1>1, <1>2, <2>1, AddedQuiet DEF Steps, Fields, ShapeAt, Fits
  <1>6. UncachedStep(w)
    BY <1>1, <1>2
    DEF UncachedStep, Carried, Removing, ShapeAt, Fits, Steps, Fields
  <1>7. TablesType' /\ uuids \subseteq uuids'
    BY <1>0, <1>1 DEF IInv, TypeOK, TablesType
  <1>8. MembersInv'
    BY <1>1 DEF IInv, MembersInv, JoinedUsersAreMembers
  <1> HIDE DEF l
  <1> QED BY <1>1, <1>2, <1>3, <1>4, <1>5, <1>6, <1>7, <1>8, TableStep
    DEF IInv, TypeOK

(* leaveRoom writes uuid_channels; after an error the users linger.        *)
LEMMA LeaveChanInv ==
    ASSUME IInv, NEW w \in Workers, LeaveChan(w) PROVE IInv'
  <1>0. PICK ok \in BOOLEAN, done \in SUBSET frame[w].args :
          /\ Ends(ok) /\ (ok => done = frame[w].args)
          /\ uuidChans' = uuidChans \ done
          /\ torn' = IF ok THEN torn ELSE torn \cup frame[w].args
          /\ lingering' = IF ok THEN lingering ELSE lingering \cup frame[w].args
          /\ Goto(w, CASE ~ok -> "idle"
                       [] ok /\ frame[w].cmd = "disolve" -> "del"
                       [] ok /\ frame[w].cmd = "unsubs"  -> "exists")
    BY DEF LeaveChan, Writes
  <1>1. /\ pc[w] = "lchan" /\ ShapeAt(w) /\ fails' \in 0..MaxFails
        /\ frame[w].args \subseteq Users /\ frame[w].cmd \in {"unsubs", "disolve"}
        /\ UNCHANGED <<room, uuids, chanStat, via, leftOut, creates, cache>>
    BY <1>0, EndsType, FrameType DEF LeaveChan, IInv, Shape, ShapeAt, Fits
  <1> DEFINE l == CASE ~ok -> "idle"
                    [] ok /\ frame[w].cmd = "disolve" -> "del"
                    [] ok /\ frame[w].cmd = "unsubs"  -> "exists"
  <1>2. /\ l \in {"idle", "del", "exists"} /\ (l = "idle" <=> ~ok)
        /\ l = "del" => frame[w].cmd = "disolve"
        /\ l = "exists" => frame[w].cmd = "unsubs"
    BY <1>1
  <1>3. /\ Steps(w, l, frame[w].cmd, frame[w].args, frame[w].todo,
                 frame[w].ids, frame[w].coll)
        /\ joins' = joins
    <2>1. Continue(w, l, frame[w])
      BY <1>0 DEF Goto
    <2> HIDE DEF l
    <2> QED BY <1>2, <2>1, FrameType, SteppedTo DEF IInv, Labels
  <1> HIDE DEF l
  <1>4. ShapeAt(w)'
    BY <1>1, <1>2, <1>3 DEF Steps, Fields, ShapeAt, Fits
  <1>5. TablesStep(w)
    BY <1>0, <1>1, <1>2, <1>3
    DEF TablesStep, ShapeAt, Fits, IInv, TablesInv, TablesAt, Agree, Steps, Fields
  <1>6. AddedStep(w)
    <2>1. \A u \in Users : ~OnItsWay(w, u)
      BY <1>1 DEF OnItsWay
    <2> QED BY <1>1, <1>2, <1>3, <2>1, AddedQuiet DEF Steps, Fields, ShapeAt, Fits
  <1>7. UncachedStep(w)
    BY <1>0, <1>1, <1>2, <1>3
    DEF UncachedStep, Carried, Removing, ShapeAt, Fits, Steps, Fields
  <1>8. TablesType' /\ uuids \subseteq uuids'
    BY <1>0, <1>1 DEF IInv, TypeOK, TablesType
  <1>9. MembersInv'
    BY <1>1 DEF IInv, MembersInv, JoinedUsersAreMembers
  <1>10. lingering \subseteq lingering' /\ lingering' \subseteq Users
    BY <1>0, <1>1 DEF IInv, TypeOK
  <1> QED BY <1>1, <1>2, <1>3, <1>4, <1>5, <1>6, <1>7, <1>8, <1>9, <1>10,
             TableStep

(* leaveRoom takes the users out of the document.                          *)
LEMMA LeavePullInv ==
    ASSUME IInv, NEW w \in Workers, LeavePull(w) PROVE IInv'
  <1>0. /\ pc[w] = "pull" /\ ShapeAt(w) /\ frame[w].cmd \in {"unsubs", "disolve"}
        /\ UNCHANGED <<room, chanStat, uuidChans, creates, leftOut, cache>>
        /\ w \in Admins
    BY DEF LeavePull, IInv, Shape, ShapeAt, Fits
  <1>1. CASE ~room
    <2>1. Return(w) /\ UNCHANGED <<uuids, via, lingering, torn, fails>>
      BY <1>1 DEF LeavePull
    <2> QED BY <1>0, <1>1, <2>1, ReturnInv DEF IInv, TypeOK
  <1>2. CASE room
    <2>1. PICK ok \in BOOLEAN, done \in BOOLEAN :
            /\ Ends(ok)
            /\ ok => done
            /\ IF done
               THEN /\ uuids' = uuids \ frame[w].args
                    /\ via' = [u \in Users |->
                                  IF u \in frame[w].args THEN "none" ELSE via[u]]
                    /\ lingering' = lingering \cup
                         (IF ok THEN frame[w].args \cap Bringing ELSE frame[w].args)
               ELSE UNCHANGED <<uuids, via, lingering>>
            /\ torn' = IF ok THEN torn \ frame[w].args ELSE torn \cup frame[w].args
            /\ Goto(w, IF ok THEN "rm" ELSE "idle")
      BY <1>2 DEF LeavePull
    <2> DEFINE l == IF ok THEN "rm" ELSE "idle"
    <2>2. /\ Steps(w, l, frame[w].cmd, frame[w].args, frame[w].todo,
                   frame[w].ids, frame[w].coll)
          /\ joins' = joins /\ l \in {"rm", "idle"} /\ (l = "rm" <=> ok)
      BY <2>1, FrameType, SteppedTo DEF Goto, IInv, Labels
    <2> HIDE DEF l
    <2>3. /\ UNCHANGED <<entry, userIds, ncolls, evicts>>
          /\ frame[w].args \subseteq Users /\ fails' \in 0..MaxFails
          /\ torn' \subseteq Users
      BY <1>0, <2>1, FrameType, EndsType DEF cache, IInv, TypeOK
    <2>4. /\ via' \in [Users -> Commands \cup {"none"}]
          /\ uuids' \subseteq Users /\ lingering' \subseteq Users
          /\ \A u \in Users : via'[u] = "add" =>
                via[u] = "add" /\ (done => u \notin frame[w].args)
      BY <2>1, <2>3 DEF IInv, TypeOK
    <2>5. TypeOK'
      BY <1>0, <2>2, <2>3, <2>4 DEF IInv, TypeOK, Steps, Frame
    <2>6. Shape'
      <3>1. ShapeAt(w)'
        BY <1>0, <2>2 DEF Steps, Fields, ShapeAt, Fits
      <3> QED BY <2>2, <3>1, ShapeKept
    <2>7. MembersInv'
      BY <1>0, <1>2, <2>1 DEF IInv, TypeOK, MembersInv, JoinedUsersAreMembers
    <2>8. TablesInv'
      <3>1. TablesStep(w)
        BY <1>0, <2>1, <2>2
        DEF TablesStep, IInv, TablesInv, TablesAt, Agree, Steps, Fields
      <3> QED BY <2>2, <3>1, TablesKept
    <2>9. AddedInv'
      <3>1. SafeStep
        BY <1>0, <2>2, <2>3, SafeKept DEF Cached
      <3>2. ASSUME OneAdmin PROVE AddedAt(w)'
        <4>1. AddedAt(w)
          BY <1>0, <3>2 DEF IInv, AddedInv
        <4>2. \A u \in Users : via'[u] = "add" => Safe(u)'
          BY <1>0, <2>4, <3>1, <4>1 DEF AddedAt, OnItsWay, SafeStep
        <4>3. CASE ~ok
          BY <2>2, <4>2, <4>3 DEF AddedAt, Steps, Fields
        <4>4. CASE ok
          <5>1. \A u \in frame[w].args : via'[u] # "add"
            BY <2>1, <2>3, <2>4, <4>4
          <5>2. frame[w].cmd = "disolve" => \A u \in Users : via'[u] # "add"
            BY <1>0, <2>4, <4>1, <5>1 DEF AddedAt
          <5> QED BY <2>2, <4>2, <4>4, <5>1, <5>2 DEF AddedAt, Steps, Fields
        <4> QED BY <4>3, <4>4
      <3> QED BY <1>0, <2>2, <3>1, <3>2, AddedKept DEF AddedStep
    <2>10. FreshInv'
      <3>1. frame'[w].coll =< ncolls
        BY <2>2 DEF Steps, Fields, IInv, TypeOK, NoColl, FreshInv
      <3> QED BY <2>2, <2>3, <3>1 DEF IInv, FreshInv, Steps
    <2>11. UncachedInv'
      <3>1. ASSUME NEW v \in Workers PROVE Carried(v)' \subseteq Carried(v)
        BY <1>0, <2>2 DEF Carried, Steps, Fields
      <3>2. ASSUME NEW v \in Workers PROVE Carried(v)' \subseteq uuids' \cup lingering'
        BY <2>1, <3>1, CarriedIsBrought DEF IInv, UncachedInv
      <3>3. ASSUME NEW u \in Users, Cached(u)'
            PROVE  \/ u \in uuids' \cup lingering'
                   \/ \E v \in Workers : Removing(v, u)'
        <4>1. Cached(u)
          BY <2>3, <3>3 DEF Cached
        <4>2. CASE u \in frame[w].args /\ done
          BY <1>0, <2>1, <2>2, <4>2 DEF Removing, Steps, Fields
        <4>3. CASE ~(u \in frame[w].args /\ done) /\ u \in uuids \cup lingering
          BY <2>1, <4>3
        <4>4. ASSUME NEW v \in Workers, Removing(v, u) PROVE Removing(v, u)'
          BY <1>0, <2>2, <2>3, <4>4 DEF Removing, Steps
        <4> QED BY <4>1, <4>2, <4>3, <4>4 DEF IInv, UncachedInv
      <3> QED BY <3>2, <3>3 DEF UncachedInv
    <2> QED BY <2>5, <2>6, <2>7, <2>8, <2>9, <2>10, <2>11 DEF IInv
  <1> QED BY <1>1, <1>2

(* Whoever is without a list on its way when the entry goes is left out,   *)
(* and the next list has the others.                                       *)
LEMMA DroppedIsSafe ==
    ASSUME NEW u \in Users, entry' = NoColl, leftOut' = {x \in Users : Stale(x)},
           Stale(u)' => Stale(u)
    PROVE  Safe(u)'
  BY DEF Safe

(* disolve drops the list.                                                 *)
LEMMA DelInv ==
    ASSUME IInv, NEW w \in Workers, Del(w) PROVE IInv'
  <1>0. /\ pc[w] = "del" /\ ShapeAt(w) /\ frame[w].cmd = "disolve" /\ w \in Admins
        /\ entry' = NoColl /\ lingering' = lingering \cap Bringing
        /\ leftOut' = {x \in Users : Stale(x)}
        /\ UNCHANGED <<room, uuids, chanStat, uuidChans, via, creates, userIds,
                       ncolls, evicts, fails, torn>>
    BY DEF Del, DropEntry, IInv, Shape, ShapeAt, Fits, tables
  <1>1. Steps(w, "idle", "none", {}, {}, {}, NoColl) /\ joins' = joins
    BY Returned DEF Del, Return, Goto, IInv, Moves, Steps, Fields, NoFrame
  <1>2. TypeOK'
    BY <1>0, <1>1 DEF IInv, TypeOK, Steps, Frame
  <1>3. Shape'
    <2>1. ShapeAt(w)'
      BY <1>1 DEF Steps, Fields, ShapeAt, Fits
    <2> QED BY <1>1, <2>1, ShapeKept
  <1>4. MembersInv'
    BY <1>0 DEF IInv, MembersInv, JoinedUsersAreMembers
  <1>5. TablesInv'
    <2>1. TablesStep(w)
      BY <1>0, <1>1 DEF TablesStep, IInv, TablesInv, TablesAt, Agree, Steps,
         Fields
    <2> QED BY <1>1, <2>1, TablesKept
  <1>6. AddedInv'
    <2>1. ASSUME NEW u \in Users PROVE Safe(u)'
      <3>1. Stale(u)' => Stale(u)
        BY <1>0, <1>1 DEF Stale, Steps
      <3> QED BY <1>0, <3>1, DroppedIsSafe
    <2>2. AddedStep(w)
      BY <1>0, <1>1, <2>1 DEF AddedStep, SafeStep, AddedAt, Steps, Fields
    <2> QED BY <1>1, <2>2, AddedKept
  <1>7. FreshInv'
    BY <1>0, <1>1 DEF IInv, TypeOK, FreshInv, Steps, Fields, NoColl
  <1>8. UncachedInv'
    <2>1. ASSUME NEW v \in Workers PROVE Carried(v)' \subseteq Carried(v)
      BY <1>1 DEF Carried, Steps, Fields
    <2>2. ASSUME NEW v \in Workers PROVE Carried(v)' \subseteq uuids' \cup lingering'
      BY <1>0, <2>1, CarriedIsBrought DEF IInv, UncachedInv
    <2> QED BY <1>0, <2>2 DEF UncachedInv, Cached
  <1> QED BY <1>2, <1>3, <1>4, <1>5, <1>6, <1>7, <1>8 DEF IInv

(* The LRU policy drops the list.                                          *)
LEMMA EvictInv ==
    ASSUME IInv, Evict PROVE IInv'
  <1>0. /\ entry' = NoColl /\ lingering' = lingering \cap Bringing
        /\ leftOut' = {x \in Users : Stale(x)}
        /\ UNCHANGED <<room, uuids, chanStat, uuidChans, via, creates, userIds,
                       ncolls, pc, frame, joins, fails, torn>>
        /\ evicts' \in 0..MaxEvicts
    BY BoundAssumption DEF Evict, DropEntry, IInv, TypeOK, tables
  <1>1. TypeOK'
    BY <1>0 DEF IInv, TypeOK
  <1>2. Shape' /\ MembersInv' /\ TablesInv'
    BY <1>0 DEF IInv, Shape, ShapeAt, MembersInv, JoinedUsersAreMembers,
       TablesInv, TablesAt, Agree
  <1>3. AddedInv'
    <2>1. ASSUME NEW u \in Users PROVE Safe(u)'
      <3>1. Stale(u)' => Stale(u)
        BY <1>0 DEF Stale
      <3> QED BY <1>0, <3>1, DroppedIsSafe
    <2> QED BY <1>0, <2>1 DEF IInv, AddedInv, AddedAt
  <1>4. FreshInv'
    BY <1>0 DEF IInv, TypeOK, FreshInv, NoColl
  <1>5. UncachedInv'
    <2>1. ASSUME NEW v \in Workers PROVE Carried(v)' \subseteq uuids' \cup lingering'
      <3>1. Carried(v)' = Carried(v)
        BY <1>0 DEF Carried
      <3> QED BY <1>0, <3>1, CarriedIsBrought DEF IInv, UncachedInv
    <2> QED BY <1>0, <2>1 DEF UncachedInv, Cached
  <1> QED BY <1>1, <1>2, <1>3, <1>4, <1>5 DEF IInv

(* A new collection is stored, empty, unless there is one by now.          *)
LEMMA AddNewKeyEmptyValueInv ==
    ASSUME IInv, NEW w \in Workers, AddNewKeyEmptyValue(w) PROVE IInv'
  <1>0. /\ pc[w] = "anew" /\ ShapeAt(w) /\ frame[w].cmd \in {"add", "publish"}
        /\ UNCHANGED <<room, uuids, chanStat, uuidChans, via, lingering, creates,
                       userIds, evicts, fails, torn, leftOut>>
    BY DEF AddNewKeyEmptyValue, tables, hist, IInv, Shape, ShapeAt, Fits
  <1>1. \/ /\ entry = NoColl /\ ncolls' = ncolls + 1 /\ entry' = ncolls + 1
           /\ ncolls + 1 \in Colls
        \/ entry # NoColl /\ entry' = entry /\ ncolls' = ncolls
    BY BoundAssumption DEF AddNewKeyEmptyValue, IInv, TypeOK, Colls
  <1>2. /\ entry' \in Colls /\ ncolls' \in 0..MaxColls /\ entry' =< ncolls'
        /\ ncolls =< ncolls'
    BY <1>1 DEF IInv, TypeOK, FreshInv, Colls
  <1> DEFINE f == [frame[w] EXCEPT !.coll = entry']
  <1>3. /\ f \in Frame
        /\ Fields(f, frame[w].cmd, frame[w].args, frame[w].todo, frame[w].ids, entry')
    BY <1>2, FrameType DEF IInv, TypeOK, Frame, Fields
  <1>4. /\ Steps(w, "fill", frame[w].cmd, frame[w].args, frame[w].todo,
                 frame[w].ids, entry')
        /\ joins' = joins
    <2>1. Continue(w, "fill", f)
      BY DEF AddNewKeyEmptyValue
    <2> HIDE DEF f
    <2> QED BY <1>3, <2>1, SteppedTo DEF IInv, Fields, Labels
  <1>5. TypeOK'
    BY <1>0, <1>2, <1>4 DEF IInv, TypeOK, Steps, Fields, Frame
  <1>6. Shape'
    <2>1. ShapeAt(w)'
      BY <1>0, <1>4 DEF Steps, Fields, ShapeAt, Fits
    <2> QED BY <1>4, <2>1, ShapeKept
  <1>7. MembersInv'
    BY <1>0 DEF IInv, MembersInv, JoinedUsersAreMembers
  <1>8. TablesInv'
    <2>1. TablesStep(w)
      BY <1>0, <1>4 DEF TablesStep, IInv, TablesInv, TablesAt, Agree, Steps,
         Fields
    <2> QED BY <1>4, <2>1, TablesKept
  <1>9. AddedInv'
    <2>1. CASE entry # NoColl
      <3>1. entry' = entry /\ \A u \in Users : Cached(u)' <=> Cached(u)
        BY <1>0, <1>1, <2>1 DEF Cached
      <3>2. SafeStep
        BY <1>0, <1>4, <2>1, <3>1, SafeKept
      <3>3. ASSUME NEW u \in Users, OnItsWay(w, u) PROVE OnItsWay(w, u)'
        BY <1>0, <1>4, <3>3 DEF OnItsWay, Steps, Fields
      <3>4. AddedStep(w)
        BY <1>0, <1>4, <3>2, <3>3
        DEF AddedStep, SafeStep, IInv, AddedInv, AddedAt, Steps, Fields
      <3> QED BY <1>4, <3>4, AddedKept
    <2>2. CASE entry = NoColl
      <3>1. ASSUME NEW u \in Users, via[u] = "add", Safe(u) PROVE Safe(u)'
        <4>1. ~Filling(u) /\ ~Cached(u)
          BY <2>2 DEF Filling, Cached, IInv, TypeOK, Colls, NoColl
        <4>2. CASE u \in leftOut
          BY <1>0, <4>2 DEF Safe
        <4>3. CASE ~Stale(u)
          <5>1. u \in frame[w].ids
            BY <1>0, <3>1, <4>3 DEF Stale
          <5> QED BY <1>4, <5>1 DEF Safe, Filling, Steps, Fields
        <4> QED BY <3>1, <4>1, <4>2, <4>3 DEF Safe
      <3>2. SafeStep
        BY <3>1 DEF SafeStep
      <3>3. ASSUME NEW u \in Users, OnItsWay(w, u) PROVE OnItsWay(w, u)'
        BY <1>0, <1>4, <3>3 DEF OnItsWay, Steps, Fields
      <3>4. AddedStep(w)
        BY <1>0, <1>4, <3>2, <3>3
        DEF AddedStep, SafeStep, IInv, AddedInv, AddedAt, Steps, Fields
      <3> QED BY <1>4, <3>4, AddedKept
    <2> QED BY <2>1, <2>2
  <1>10. FreshInv'
    <2>1. \A v \in Workers : frame'[v].coll =< ncolls'
      BY <1>1, <1>2, <1>4 DEF IInv, TypeOK, FreshInv, Steps, Fields, Colls, NoColl
    <2>2. \A k \in Colls : k > ncolls' => k > ncolls
      BY <1>1 DEF IInv, TypeOK, Colls
    <2> QED BY <1>0, <1>2, <2>1, <2>2 DEF IInv, FreshInv
  <1>11. UncachedInv'
    <2>1. ASSUME NEW v \in Workers PROVE Carried(v)' = Carried(v)
      BY <1>0, <1>4 DEF Carried, Steps, Fields
    <2>2. CASE entry = NoColl
      <3>1. userIds[entry'] = {}
        BY <1>1, <2>2 DEF IInv, TypeOK, FreshInv
      <3> QED BY <1>0, <2>1, <3>1 DEF IInv, UncachedInv, Cached
    <2>3. CASE entry # NoColl
      <3>1. UncachedStep(w) /\ entry' = entry
        BY <1>0, <1>1, <2>1, <2>3 DEF UncachedStep, IInv, UncachedInv, Removing
      <3> QED BY <1>0, <1>4, <3>1, UncachedKept DEF Cached
    <2> QED BY <2>2, <2>3
  <1> QED BY <1>5, <1>6, <1>7, <1>8, <1>9, <1>10, <1>11 DEF IInv

(* The users are put into the collection the worker holds.                 *)
LEMMA AddAllFillInv ==
    ASSUME IInv, NEW w \in Workers, AddAllFill(w) PROVE IInv'
  <1>0. /\ pc[w] = "fill" /\ ShapeAt(w) /\ frame[w].cmd \in {"add", "publish"}
        /\ frame[w].coll \in Colls /\ frame[w].ids \subseteq Users
        /\ UNCHANGED <<room, uuids, chanStat, uuidChans, via, lingering, creates,
                       entry, ncolls, evicts, fails, torn>>
        /\ leftOut' = CASE frame[w].cmd # "add" -> leftOut
                        [] frame[w].cmd = "add" /\ frame[w].coll = entry ->
                             leftOut \ frame[w].ids
                        [] frame[w].cmd = "add" /\ frame[w].coll # entry ->
                             leftOut \cup frame[w].args
    BY DEF AddAllFill, tables, IInv, TypeOK, Shape, ShapeAt, Fits
  <1>1. Steps(w, "idle", "none", {}, {}, {}, NoColl) /\ joins' = joins
    BY Returned DEF AddAllFill, Return, Goto, IInv, Moves, Steps, Fields, NoFrame
  <1>2. /\ userIds' \in [Colls -> SUBSET Users]
        /\ \A k \in Colls : userIds'[k] =
              IF k = frame[w].coll THEN userIds[k] \cup frame[w].ids ELSE userIds[k]
    BY <1>0 DEF AddAllFill, IInv, TypeOK
  <1>3. TypeOK'
    <2>1. leftOut' \subseteq Users
      BY <1>0, FrameType DEF IInv, TypeOK
    <2> QED BY <1>0, <1>1, <1>2, <2>1 DEF IInv, TypeOK, Steps, Frame
  <1>4. Shape'
    <2>1. ShapeAt(w)'
      BY <1>1 DEF Steps, Fields, ShapeAt, Fits
    <2> QED BY <1>1, <2>1, ShapeKept
  <1>5. MembersInv'
    BY <1>0 DEF IInv, MembersInv, JoinedUsersAreMembers
  <1>6. TablesInv'
    <2>1. TablesStep(w)
      BY <1>0, <1>1 DEF TablesStep, IInv, TablesInv, TablesAt, Agree, Steps,
         Fields
    <2> QED BY <1>1, <2>1, TablesKept
  <1>7. /\ \A u \in Users : Cached(u) => Cached(u)'
        /\ \A u \in frame[w].ids : frame[w].coll = entry => Cached(u)'
        /\ \A u \in Users : Cached(u)' => Cached(u) \/ u \in frame[w].ids
    BY <1>0, <1>2 DEF Cached, IInv, TypeOK, Colls, NoColl
  <1>8. AddedInv'
    <2>1. ASSUME NEW u \in Users, u \in leftOut PROVE u \in leftOut' \/ Cached(u)'
      BY <1>0, <1>7, <2>1
    <2>2. ASSUME NEW u \in Users, via[u] = "add", Safe(u) PROVE Safe(u)'
      <3>1. CASE u \in leftOut \/ Cached(u)
        BY <1>7, <2>1, <3>1 DEF Safe
      <3>2. CASE Filling(u)
        <4>1. PICK v \in Workers :
                 pc[v] = "fill" /\ frame[v].coll = entry /\ u \in frame[v].ids
          BY <3>2 DEF Filling
        <4>2. CASE v = w
          BY <1>7, <4>1, <4>2 DEF Safe
        <4>3. CASE v # w
          BY <1>0, <1>1, <4>1, <4>3 DEF Safe, Filling, Steps
        <4> QED BY <4>2, <4>3
      <3>3. CASE entry = NoColl /\ ~Stale(u)
        BY <1>0, <1>1, <3>3 DEF Safe, Stale, Steps
      <3> QED BY <2>2, <3>1, <3>2, <3>3 DEF Safe
    <2>3. ASSUME NEW u \in Users, OnItsWay(w, u) PROVE Safe(u)'
      <3>1. frame[w].cmd = "add" /\ u \in frame[w].args /\ u \in frame[w].ids
        BY <1>0, <2>3 DEF OnItsWay
      <3>2. CASE frame[w].coll = entry
        BY <1>7, <3>1, <3>2 DEF Safe
      <3>3. CASE frame[w].coll # entry
        BY <1>0, <3>1, <3>3 DEF Safe
      <3> QED BY <3>2, <3>3
    <2>4. AddedStep(w)
      BY <1>0, <1>1, <2>2, <2>3
      DEF AddedStep, SafeStep, IInv, AddedInv, AddedAt, Steps, Fields
    <2> QED BY <1>1, <2>4, AddedKept
  <1>9. FreshInv'
    <2>1. /\ \A k \in Colls : k > ncolls => k # frame[w].coll
          /\ frame'[w].coll =< ncolls
      BY <1>0, <1>1 DEF IInv, TypeOK, FreshInv, Steps, Fields, Colls, NoColl
    <2> QED BY <1>0, <1>1, <1>2, <2>1 DEF IInv, FreshInv, Steps
  <1>10. UncachedInv'
    <2>1. frame[w].ids \subseteq uuids \cup lingering
      BY <1>0 DEF IInv, UncachedInv, Carried
    <2>2. UncachedStep(w)
      BY <1>0, <1>1 DEF UncachedStep, Carried, Removing, Steps, Fields
    <2> QED BY <1>0, <1>1, <1>7, <2>1, <2>2, UncachedKept
  <1> QED BY <1>3, <1>4, <1>5, <1>6, <1>8, <1>9, <1>10 DEF IInv

-----------------------------------------------------------------------------
(* The invariant, and the properties that follow from it.                  *)

LEMMA InitIInv ==
    ASSUME Init PROVE IInv
  <1>1. /\ \A w \in Workers : Fields(frame[w], "none", {}, {}, {}, NoColl)
        /\ \A w \in Workers : pc[w] = "idle"
    BY DEF Init, NoFrame, Fields
  <1>2. TypeOK
    <2>1. /\ frame \in [Workers -> Frame] /\ pc \in [Workers -> Labels]
          /\ userIds \in [Colls -> SUBSET Users]
      BY NoFrameType DEF Init, Labels
    <2>2. via \in [Users -> Commands \cup {"none"}]
      BY DEF Init
    <2>3. /\ creates \in 0..MaxCreates /\ joins \in 0..MaxJoins
          /\ ncolls \in 0..MaxColls /\ evicts \in 0..MaxEvicts
          /\ fails \in 0..MaxFails
      BY BoundAssumption DEF Init
    <2> QED BY <1>1, <2>1, <2>2, <2>3 DEF Init, TypeOK, Frame
  <1>3. Shape /\ MembersInv /\ TablesInv /\ AddedInv
    BY <1>1 DEF Init, Fields, Shape, ShapeAt, Fits, MembersInv, OneAdmin,
       JoinedUsersAreMembers, TablesInv, TablesAt, Agree, AddedInv, AddedAt,
       Workers
  <1>4. FreshInv
    BY <1>1 DEF Init, Fields, FreshInv, NoColl
  <1>5. UncachedInv
    BY <1>1 DEF Init, Fields, UncachedInv, Carried, Cached
  <1> QED BY <1>2, <1>3, <1>4, <1>5 DEF IInv

LEMMA StutterInv ==
    ASSUME IInv, UNCHANGED vars PROVE IInv'
  <1>1. UNCHANGED <<room, uuids, chanStat, uuidChans, via, lingering, creates,
                    entry, userIds, ncolls, evicts, pc, frame, joins, fails,
                    torn, leftOut>>
    BY DEF vars, tables, hist, cache
  <1> QED BY <1>1
    DEF IInv, TypeOK, Shape, ShapeAt, MembersInv, JoinedUsersAreMembers,
        TablesInv, TablesAt, Agree, AddedInv, AddedAt, Safe, OnItsWay, Filling,
        Stale, Cached, FreshInv, UncachedInv, Carried, Removing

LEMMA NextIInv ==
    ASSUME IInv, [Next]_vars PROVE IInv'
  <1>1. CASE BeginCommand
    BY <1>1, BeginCommandInv
  <1>2. ASSUME NEW w \in Workers, DbStep(w) PROVE IInv'
    BY <1>2, FindRoomInv, CreateInsertInv, CreateStatInv, WriteChanInv,
       JoinPushInv, JoinStatInv, DisolveMembersInv, LeavePullInv, LeaveRemoveInv,
       LeaveStatInv, LeaveChanInv DEF DbStep, CreateChan, JoinChan
  <1>3. ASSUME NEW w \in Workers, CacheStep(w) PROVE IInv'
    BY <1>3, ExistsInv, RemoveGetInv, RemoveUserIdInv, DelInv, ReadCollectionInv,
       LoadUserIdsFromDatabaseInv, AddAllGetInv, AddNewKeyEmptyValueInv,
       AddAllFillInv DEF CacheStep
  <1>4. CASE Evict
    BY <1>4, EvictInv
  <1>5. CASE UNCHANGED vars
    BY <1>5, StutterInv
  <1> QED BY <1>1, <1>2, <1>3, <1>4, <1>5 DEF Next

(* The inductive invariant holds in every reachable state.                 *)
THEOREM RoomsInvariant == Spec => []IInv
  BY InitIInv, NextIInv, PTL DEF Spec

(* Every variable keeps its type, and a worker that reads or changes a     *)
(* collection of channelToUserIds holds a pointer to one (offpush.go).     *)
THEOREM RoomsTypeOK == Spec => []TypeOK
  <1>1. IInv => TypeOK
    BY DEF IInv
  <1> QED BY <1>1, RoomsInvariant, PTL

(* Who was put into the room is in it until taken out: the removal of an   *)
(* empty room by leaveRoom takes nobody who arrived since (im.go).         *)
THEOREM JoinedUsersStayMembers == Spec => []JoinedUsersAreMembers
  <1>1. IInv => JoinedUsersAreMembers
    BY DEF IInv, MembersInv
  <1> QED BY <1>1, RoomsInvariant, PTL

(* createRoom, joinRoom and leaveRoom leave the three tables in agreement  *)
(* whenever the one administrator is idle and no client used join_room or  *)
(* createroom, for every user whose last command met no failing write,     *)
(* whichever other writes failed (im.go:28-30, 63-66, 76-79, 100-121).     *)
THEOREM TablesStayInAgreement == Spec => []TablesAgree
  <1>1. ASSUME IInv PROVE TablesAgree
    <2> SUFFICES ASSUME OneAdmin, joins = 0, Idle(Admins)
                 PROVE  chanStat \ torn = uuids \ torn
                        /\ uuidChans \ torn = uuids \ torn
      BY DEF TablesAgree
    <2>1. Agree(chanStat) /\ Agree(uuidChans)
      BY <1>1 DEF IInv, TablesInv, TablesAt, OneAdmin, Idle
    <2>2. chanStat \subseteq Users /\ uuidChans \subseteq Users /\ uuids \subseteq Users
      BY <1>1 DEF IInv, TypeOK
    <2> QED BY <2>1, <2>2 DEF Agree
  <1> QED BY <1>1, RoomsInvariant, PTL

(* The users of an add_into_room that has returned are in the cached list, *)
(* or about to be, whatever older lists publishers load and store          *)
(* meanwhile and whenever the list is evicted; left out are only those of  *)
(* a command that an error kept from the cache (cmd_interface.go:921-932)  *)
(* and those whom the eviction of a list with fills on their way concerns. *)
THEOREM AddedUsersGetCached == Spec => []AddedUsersAreCached
  <1>1. ASSUME IInv PROVE AddedUsersAreCached
    <2> SUFFICES ASSUME OneAdmin, Idle(Admins), entry # NoColl, NEW u \in Users,
                        via[u] = "add"
                 PROVE  u \in userIds[entry] \/ Filling(u) \/ u \in leftOut
      BY DEF AddedUsersAreCached
    <2>1. PICK a \in Admins : Admins = {a}
      BY DEF OneAdmin
    <2>2. pc[a] = "idle" /\ frame[a].cmd = "none"
      BY <1>1, <2>1 DEF Idle, IInv, Shape, ShapeAt, Fits, Workers
    <2> QED BY <1>1, <2>2 DEF IInv, AddedInv, AddedAt, OnItsWay, Safe, Cached
  <1> QED BY <1>1, RoomsInvariant, PTL

(* At rest the cached list has nobody who is not in the room, except users *)
(* taken out while a list with them was on its way (offpush.go:285-296) or *)
(* by a command that an error kept from the cache (im.go:92-96, 121), and  *)
(* those until they are removed again or the list is dropped.              *)
THEOREM RemovedUsersGetUncached == Spec => []RemovedUsersAreUncached
  <1>1. ASSUME IInv PROVE RemovedUsersAreUncached
    <2> SUFFICES ASSUME Idle(Workers), entry # NoColl, NEW u \in userIds[entry]
                 PROVE  u \in uuids \cup lingering
      BY DEF RemovedUsersAreUncached
    <2>1. u \in Users /\ Cached(u)
      BY <1>1 DEF IInv, TypeOK, Cached
    <2>2. \A w \in Workers : ~Removing(w, u)
      BY DEF Idle, Removing
    <2> QED BY <1>1, <2>1, <2>2 DEF IInv, UncachedInv
  <1> QED BY <1>1, RoomsInvariant, PTL
=============================================================================
