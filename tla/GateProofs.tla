----------------------------- MODULE GateProofs -----------------------------
(***************************************************************************)
(* Proofs about Frames and Gate, for frames of any length, any number of   *)
(* connections and tokens, any span of time and any limit.                 *)
(***************************************************************************)
EXTENDS Gate, FiniteSetTheorems, TLAPS

\* A token in client_token is in its history, and was handed out.
TokensInHistory == clientTokens \subseteq stored /\ stored \subseteq handed

\* What the next check of a client's token rests on: the token was stored once,
\* and the expiry is the time of the last accepted check in seconds, or the
\* time of auth_client in nanoseconds.
Sessions ==
    \A c \in Conns :
        /\ since[c] =< clock
        /\ IsClient(c) => /\ token[c] \in stored
                          /\ c \in used => expire[c] = since[c]
                          /\ c \notin used => expire[c] = since[c] * Second

\* Each token lost has its refusal.
Losses == IsFiniteSet(stored \ clientTokens) /\ TokensAccountedFor

IInv ==
    /\ TypeOK
    /\ FramesCutInside
    /\ ForwardsUnderstood
    /\ TokensInHistory
    /\ Sessions
    /\ ExpiryExact
    /\ Losses
    /\ ProcessedWithStoredTokens

-----------------------------------------------------------------------------
(* Frames.                                                                 *)

(* Both parsers keep inside any frame: lengths that are negative, too long *)
(* or do not add up never make a slice that leaves it                      *)
(* (cmd_interface.go:110-156, s2s_server.go:81-130).                       *)
THEOREM AnyFrameCutInside ==
    ASSUME NEW f \in [n : Nat, h : Int, b : Int]
    PROVE  CutsInside(f)
  <1>0. f.n \in Nat /\ f.h \in Int /\ f.b \in Int
    OBVIOUS
  <1>1. CASE NewCmdline(f) = Refused /\ NewServerCmdline(f) = Refused
    BY <1>1 DEF CutsInside, Refused
  <1>2. CASE /\ NewCmdline(f) # Refused
             /\ NewServerCmdline(f) = Refused
    <2>1. /\ f.n >= f.h + 4 /\ f.h > 0
          /\ f.n > f.h + 8 => f.n = f.h + 8 + f.b
          /\ NewCmdline(f) = Cut(f, IF f.n > f.h + 8
                                    THEN <<f.h + 8, f.h + 8 + f.b>> ELSE <<0, 0>>)
      BY <1>0, <1>2 DEF NewCmdline
    <2>2. CASE f.n > f.h + 8
      BY <1>0, <1>2, <2>1, <2>2 DEF CutsInside, Cut, Refused, Inside
    <2>3. CASE ~(f.n > f.h + 8)
      BY <1>0, <1>2, <2>1, <2>3 DEF CutsInside, Cut, Refused, Inside
    <2> QED BY <2>2, <2>3
  <1>3. CASE NewServerCmdline(f) # Refused
    <2>1. /\ f.n > f.h + 8 /\ f.h > 0
          /\ f.n = f.h + 8 + f.b
          /\ NewServerCmdline(f) = Cut(f, <<f.h + 8, f.h + 8 + f.b>>)
      BY <1>0, <1>3 DEF NewServerCmdline
    <2>2. NewCmdline(f) = NewServerCmdline(f)
      BY <1>0, <2>1 DEF NewCmdline
    <2> QED BY <1>0, <2>1, <2>2 DEF CutsInside, Cut, Inside
  <1> QED BY <1>1, <1>2, <1>3

(* A peer accepts every frame that a server forwards.                      *)
LEMMA ForwardAccepted ==
    ASSUME NEW hl \in Nat \ {0}, NEW bl \in Nat \ {0}
    PROVE  /\ FormatMsg(hl, bl) \in [n : Nat, h : Int, b : Int]
           /\ NewServerCmdline(FormatMsg(hl, bl)).ok
  BY DEF FormatMsg, NewServerCmdline, Cut

(* The frame of every command that does not vary.                          *)
LEMMA WellFormedCut ==
    ASSUME WellFormed
    PROVE  /\ input' \in [n : Nat, h : Int, b : Int]
           /\ FramesCutInside'
  <1>1. input' \in [n : Nat, h : Int, b : Int]
    BY ForwardAccepted DEF WellFormed
  <1> QED BY <1>1, AnyFrameCutInside DEF FramesCutInside

-----------------------------------------------------------------------------
(* Every step keeps IInv.                                                  *)

LEMMA InitInv == Init => IInv
  <1> SUFFICES ASSUME Init PROVE IInv
    OBVIOUS
  <1> USE DEF Init
  <1>0. Start \in Times
    BY TimeAssumption, NanosAssumption DEF Times
  <1>1. input \in [n : Nat, h : Int, b : Int]
    BY ForwardAccepted
  <1>2. TypeOK
    BY <1>0, <1>1 DEF TypeOK, Checks
  <1>3. FramesCutInside
    BY <1>1, AnyFrameCutInside DEF FramesCutInside
  <1>4. Sessions
    BY TimeAssumption DEF Sessions, IsClient
  <1>5. stored \ clientTokens = {}
    OBVIOUS
  <1>6. Losses
    BY <1>5, FS_EmptySet DEF Losses, TokensAccountedFor
  <1> QED
    BY <1>2, <1>3, <1>4, <1>6
    DEF IInv, ForwardsUnderstood, TokensInHistory, ExpiryExact,
        ProcessedWithStoredTokens

LEMMA TickInv ==
    ASSUME IInv, Tick
    PROVE  IInv'
  <1> USE DEF IInv, Tick, conns, tables, history
  <1>1. clock' \in Times /\ clock =< clock'
    BY TimeAssumption DEF TypeOK, Times
  <1>2. TypeOK'
    BY <1>1 DEF TypeOK
  <1>3. Sessions'
    BY <1>1, TimeAssumption DEF Sessions, IsClient, TypeOK, Times
  <1> QED
    BY <1>2, <1>3 DEF FramesCutInside, ForwardsUnderstood, TokensInHistory,
        ExpiryExact, Losses, TokensAccountedFor, ProcessedWithStoredTokens

LEMMA OnReadInv ==
    ASSUME IInv, NEW c \in Conns, NEW f \in Inputs, OnRead(c, f)
    PROVE  IInv'
  <1> USE DEF IInv, OnRead, tables, history
  <1>1. f \in [n : Nat, h : Int, b : Int]
    BY LengthAssumption DEF Inputs
  <1>2. TypeOK'
    BY <1>1 DEF TypeOK
  <1>3. FramesCutInside'
    BY <1>1, AnyFrameCutInside DEF FramesCutInside
  <1> QED
    BY <1>2, <1>3 DEF ForwardsUnderstood, TokensInHistory, Sessions, IsClient,
        ExpiryExact, Losses, TokensAccountedFor, ProcessedWithStoredTokens

LEMMA ForwardInv ==
    ASSUME IInv, NEW hl \in 0..MaxHead, NEW bl \in 0..MaxBody, Forward(hl, bl)
    PROVE  IInv'
  <1> USE DEF IInv, Forward, conns, tables, history
  <1>0. hl \in Nat \ {0} /\ bl \in Nat \ {0}
    BY LengthAssumption
  <1>1. /\ input' \in [n : Nat, h : Int, b : Int]
        /\ NewServerCmdline(input').ok
    BY <1>0, ForwardAccepted
  <1>2. peerOpen' = TRUE
    BY <1>1 DEF NewServerCmdline, Refused, Cut
  <1>3. TypeOK'
    BY <1>1, <1>2 DEF TypeOK
  <1>4. FramesCutInside'
    BY <1>1, AnyFrameCutInside DEF FramesCutInside
  <1> QED
    BY <1>2, <1>3, <1>4 DEF ForwardsUnderstood, TokensInHistory, Sessions,
        IsClient, ExpiryExact, Losses, TokensAccountedFor,
        ProcessedWithStoredTokens

LEMMA GetClientTokenInv ==
    ASSUME IInv, NEW c \in Conns, NEW x \in Strings, GetClientToken(c, x)
    PROVE  IInv'
  <1> USE DEF IInv, GetClientToken, Fresh, conns
  <1>1. x \notin stored /\ x \notin clientTokens
    BY DEF TokensInHistory
  <1>2. stored' \ clientTokens' = stored \ clientTokens
    BY <1>1
  <1>3. TypeOK'
    BY WellFormedCut DEF TypeOK
  <1>4. Sessions'
    BY DEF Sessions, IsClient
  <1> QED
    BY <1>2, <1>3, <1>4, WellFormedCut DEF ForwardsUnderstood, TokensInHistory,
        ExpiryExact, Losses, TokensAccountedFor, ProcessedWithStoredTokens

LEMMA GetAppKeyInv ==
    ASSUME IInv, NEW c \in Conns, NEW x \in Strings, GetAppKey(c, x)
    PROVE  IInv'
  <1> USE DEF IInv, GetAppKey, Fresh, conns
  <1>1. TypeOK'
    BY WellFormedCut DEF TypeOK
  <1> QED
    BY <1>1, WellFormedCut DEF ForwardsUnderstood, TokensInHistory, Sessions,
        IsClient, ExpiryExact, Losses, TokensAccountedFor,
        ProcessedWithStoredTokens

LEMMA AuthServerInv ==
    ASSUME IInv, NEW c \in Conns, NEW key, NEW x \in Strings,
           AuthServer(c, key, x)
    PROVE  IInv'
  <1> USE DEF IInv, AuthServer, Fresh
  <1>1. TypeOK'
    BY WellFormedCut DEF TypeOK
  <1>2. \A d \in Conns : IsClient(d)' <=> IsClient(d)
    BY DEF IsClient, TypeOK
  <1>3. Sessions'
    BY <1>2 DEF Sessions
  <1> QED
    BY <1>1, <1>3, WellFormedCut DEF ForwardsUnderstood, TokensInHistory,
        ExpiryExact, Losses, TokensAccountedFor, ProcessedWithStoredTokens

LEMMA AuthClientInv ==
    ASSUME IInv, NEW c \in Conns, NEW x \in Strings, AuthClient(c, x)
    PROVE  IInv'
  <1> USE DEF IInv, AuthClient, tables
  <1>1. clock * Second \in Nat
    BY NanosAssumption DEF TypeOK, Times
  <1>2. TypeOK'
    BY <1>1, WellFormedCut DEF TypeOK
  <1>3. Sessions'
    <2>1. \A d \in Conns \ {c} : IsClient(d)' <=> IsClient(d)
      BY DEF IsClient, TypeOK
    <2>2. clock \in Int
      BY TimeAssumption DEF TypeOK, Times
    <2> QED BY <2>1, <2>2 DEF Sessions, TypeOK, TokensInHistory
  <1> QED
    BY <1>2, <1>3, WellFormedCut DEF ForwardsUnderstood, TokensInHistory,
        ExpiryExact, Losses, TokensAccountedFor, ProcessedWithStoredTokens

LEMMA SetUuidInv ==
    ASSUME IInv, NEW c \in Conns, SetUuid(c)
    PROVE  IInv'
  <1> USE DEF IInv, SetUuid, tables, history
  <1>1. TypeOK'
    BY WellFormedCut DEF TypeOK
  <1> QED
    BY <1>1, WellFormedCut DEF ForwardsUnderstood, TokensInHistory, Sessions,
        IsClient, ExpiryExact, Losses, TokensAccountedFor,
        ProcessedWithStoredTokens

(* The times a check compares are numbers.                                 *)
LEMMA CheckTimes ==
    ASSUME IInv, NEW c \in Conns
    PROVE  /\ clock \in Nat /\ since[c] \in Nat /\ expire[c] \in Nat
           /\ clock - since[c] \in Nat
           /\ Limit \in Nat
  BY TimeAssumption DEF IInv, TypeOK, Times, Sessions

LEMMA AcceptedInv ==
    ASSUME IInv, NEW c \in Conns, NEW x \in Strings, Accepted(c, x)
    PROVE  IInv'
  <1> USE DEF IInv, Accepted, tables
  <1>0. last' = [right |-> x = token[c], idle |-> clock - since[c],
                 used |-> c \in used, ok |-> TRUE]
    BY Zenon DEF Check
  <1>1. /\ last' \in Checks
        /\ last'.ok /\ last'.right
        /\ last'.used <=> c \in used
        /\ last'.idle = clock - since[c]
    <2>1. last' \in Checks
      BY <1>0, CheckTimes DEF Checks
    <2>2. last'.right
      BY <1>0, Zenon
    <2> QED BY <1>0, <2>1, <2>2
  <1>2. TypeOK'
    BY <1>1, CheckTimes, WellFormedCut DEF TypeOK
  <1>3. Sessions'
    BY CheckTimes DEF Sessions, IsClient, TypeOK
  <1>4. c \in used => clock - since[c] =< Limit
    BY CheckTimes DEF Sessions, Expired
  <1>5. ExpiryExact'
    BY <1>1, <1>4, CheckTimes DEF ExpiryExact
  <1>6. ProcessedWithStoredTokens'
    BY DEF ProcessedWithStoredTokens, Sessions
  <1> QED
    BY <1>2, <1>3, <1>5, <1>6, WellFormedCut DEF ForwardsUnderstood,
        TokensInHistory, Losses, TokensAccountedFor

LEMMA RefusedTokenInv ==
    ASSUME IInv, NEW c \in Conns, NEW x \in Strings, RefusedToken(c, x)
    PROVE  IInv'
  <1> USE DEF IInv, RefusedToken
  <1>1. /\ last' \in Checks
        /\ last'.ok = FALSE /\ last'.right = (x = token[c])
        /\ last'.used = (c \in used) /\ last'.idle = clock - since[c]
    BY CheckTimes DEF Check, Checks
  <1>2. clientTokens' \subseteq clientTokens
    BY DEF Revoke
  <1>3. TypeOK'
    BY <1>1, <1>2, WellFormedCut DEF TypeOK
  <1>4. Sessions'
    BY DEF Sessions, IsClient, TypeOK
  <1>5. Expired(c) => c \in used /\ clock - since[c] > Limit
    <2>1. MaxClock =< since[c] * Second + Limit /\ since[c] * Second \in Nat
      BY NanosAssumption DEF TypeOK, Times
    <2>2. clock =< MaxClock /\ MaxClock \in Nat
      BY TimeAssumption DEF TypeOK, Times
    <2> QED BY <2>1, <2>2, CheckTimes DEF Sessions, Expired
  <1>6. ExpiryExact'
    BY <1>1, <1>5, CheckTimes DEF ExpiryExact
  <1>7. Losses'
    <2>1. CASE UNCHANGED clientTokens
      <3>1. Cardinality(stored \ clientTokens) \in Nat
        BY FS_CardinalityType DEF Losses
      <3>2. refusals \in Nat /\ refusals =< refusals'
        BY DEF TypeOK
      <3>3. stored' \ clientTokens' = stored \ clientTokens /\ refusals' \in Nat
        BY <2>1 DEF TypeOK
      <3>4. Cardinality(stored \ clientTokens) =< refusals
        BY DEF Losses, TokensAccountedFor
      <3>5. Cardinality(stored \ clientTokens) =< refusals'
        BY <3>1, <3>2, <3>3, <3>4
      <3>6. Cardinality(stored' \ clientTokens') =< refusals'
        BY <3>3, <3>5
      <3> QED BY <3>3, <3>6 DEF Losses, TokensAccountedFor
    <2>2. CASE c \notin named /\ clientTokens # {}
      <3>1. PICK y \in clientTokens : clientTokens' = clientTokens \ {y}
        BY <2>2 DEF Revoke
      <3>2. stored' \ clientTokens' = (stored \ clientTokens) \cup {y}
        BY <3>1 DEF TokensInHistory
      <3>3. /\ IsFiniteSet(stored' \ clientTokens')
            /\ Cardinality(stored' \ clientTokens')
                    = Cardinality(stored \ clientTokens) + 1
        BY <3>1, <3>2, FS_AddElement DEF Losses
      <3>4. Cardinality(stored \ clientTokens) \in Nat
        BY FS_CardinalityType DEF Losses
      <3> QED BY <2>2, <3>3, <3>4 DEF Losses, TokensAccountedFor, TypeOK
    <2> QED BY <2>1, <2>2 DEF Revoke
  <1> QED
    BY <1>2, <1>3, <1>4, <1>6, <1>7, WellFormedCut DEF ForwardsUnderstood,
        TokensInHistory, ProcessedWithStoredTokens

LEMMA ServerCommandInv ==
    ASSUME IInv, NEW c \in Conns, NEW x \in Strings, NEW skipsAcl,
           ServerCommand(c, x, skipsAcl)
    PROVE  IInv'
  <1> USE DEF IInv, ServerCommand, conns, tables
  <1>1. TypeOK'
    BY WellFormedCut DEF TypeOK
  <1> QED
    BY <1>1, WellFormedCut DEF ForwardsUnderstood, TokensInHistory, Sessions,
        IsClient, ExpiryExact, Losses, TokensAccountedFor,
        ProcessedWithStoredTokens

LEMMA StutterInv ==
    ASSUME IInv, UNCHANGED vars
    PROVE  IInv'
  BY DEF IInv, vars, conns, tables, history, TypeOK, FramesCutInside,
     ForwardsUnderstood, TokensInHistory, Sessions, IsClient, ExpiryExact,
     Losses, TokensAccountedFor, ProcessedWithStoredTokens

-----------------------------------------------------------------------------
(* The theorems.                                                           *)

(* The inductive invariant of Gate.                                        *)
THEOREM GateInvariant == Spec => []IInv
  <1>1. IInv /\ [Next]_vars => IInv'
    <2> SUFFICES ASSUME IInv, [Next]_vars PROVE IInv'
      OBVIOUS
    <2>1. CASE UNCHANGED vars
      BY <2>1, StutterInv
    <2>2. CASE Tick
      BY <2>2, TickInv
    <2>3. ASSUME NEW c \in Conns, NEW f \in Inputs, OnRead(c, f) PROVE IInv'
      BY <2>3, OnReadInv
    <2>4. ASSUME NEW c \in Conns, NEW x \in Strings,
                 GetClientToken(c, x) \/ GetAppKey(c, x) \/ AuthClient(c, x)
          PROVE  IInv'
      BY <2>4, GetClientTokenInv, GetAppKeyInv, AuthClientInv
    <2>5. ASSUME NEW c \in Conns, NEW x \in Strings,
                 Accepted(c, x) \/ RefusedToken(c, x)
          PROVE  IInv'
      BY <2>5, AcceptedInv, RefusedTokenInv
    <2>6. ASSUME NEW c \in Conns, NEW x \in Strings, NEW key \in appkeys,
                 AuthServer(c, key, x)
          PROVE  IInv'
      BY <2>6, AuthServerInv
    <2>7. ASSUME NEW c \in Conns, NEW x \in Strings, NEW skipsAcl \in BOOLEAN,
                 ServerCommand(c, x, skipsAcl)
          PROVE  IInv'
      BY <2>7, ServerCommandInv
    <2>8. ASSUME NEW c \in Conns, SetUuid(c) PROVE IInv'
      BY <2>8, SetUuidInv
    <2>9. ASSUME NEW hl \in 0..MaxHead, NEW bl \in 0..MaxBody, Forward(hl, bl)
          PROVE  IInv'
      BY <2>9, ForwardInv
    <2> QED
      BY <2>1, <2>2, <2>3, <2>4, <2>5, <2>6, <2>7, <2>8, <2>9 DEF Next
  <1> QED BY InitInv, <1>1, PTL DEF Spec

(* Type correctness: expiries stay natural numbers, in whichever unit.     *)
THEOREM GateTypeOK == Spec => []TypeOK
  BY GateInvariant, PTL DEF IInv

(* The connection between two servers is never closed for a damaged frame, *)
(* for commands and messages of any length (s2s_server.go:109).            *)
THEOREM PeersUnderstand == Spec => []ForwardsUnderstood
  BY GateInvariant, PTL DEF IInv

(* The parsers never leave the frames that arrive (cmd_interface.go:110).  *)
THEOREM FramesStayInside == Spec => []FramesCutInside
  BY GateInvariant, PTL DEF IInv

(* A token is refused exactly if it is wrong or if its client was idle for *)
(* more than the limit after an accepted command (auth.go:56-73).          *)
THEOREM ExpiryIsExact == Spec => []ExpiryExact
  BY GateInvariant, PTL DEF IInv

(* No more tokens get lost than there were refusals on connections without *)
(* a uuid (auth.go:62).                                                    *)
THEOREM TokensAreAccountedFor == Spec => []TokensAccountedFor
  BY GateInvariant, PTL DEF IInv, Losses

(* Only tokens the server itself stored open the commands (acl.go:52-70).  *)
THEOREM OnlyStoredTokens == Spec => []ProcessedWithStoredTokens
  BY GateInvariant, PTL DEF IInv
=============================================================================
