-------------------------------- MODULE Gate --------------------------------
(***************************************************************************)
(* What stands between a connection and the commands: OnRead of            *)
(* server_tcp.go with the frame parser, AclCheck and TokenCheck of acl.go, *)
(* and the commands that hand out and take tokens (auth.go and gettoken,   *)
(* getappkey, auth_client, auth_server, setuuid of cmd_interface.go).      *)
(*                                                                         *)
(* A connection's commands are handled one after the other, and a command  *)
(* touches the shared collections client_token, server_token and appkey in *)
(* one operation each, so a command is one step.  Time is in seconds;      *)
(* auth_client sets the token's expiry in nanoseconds, the checks set and  *)
(* compare it in seconds.                                                  *)
(***************************************************************************)
EXTENDS Frames, FiniteSets

CONSTANTS
    Conns,     \* connections
    Strings,   \* the random strings the server makes: tokens and appkeys
    NoString,  \* the empty string
    Start,     \* the time when the model begins, in seconds
    MaxClock,  \* bound: the time when it ends
    Second,    \* nanoseconds in a second
    Limit,     \* 36000000000, in seconds
    MaxHead,   \* bound: length of commands
    MaxBody    \* bound: length of parameters

ASSUME NoStringAssumption == NoString \notin Strings
ASSUME TimeAssumption ==
    /\ {Start, MaxClock, Second, Limit} \subseteq Nat
    /\ Start =< MaxClock
ASSUME LengthAssumption == MaxHead \in Nat /\ MaxBody \in Nat
\* Seconds since 1970 never exceed the nanoseconds up to any time at which the
\* program has run.
ASSUME NanosAssumption ==
    \A t \in Start..MaxClock : t * Second \in Nat /\ MaxClock =< t * Second + Limit

VARIABLES
    clock,         \* time.Now().Unix()
    open,          \* connections that are open
    type,          \* per connection: Type as a set of "client" and "server"
    named,         \* connections whose uuid is not empty
    token,         \* per connection: tokenInfo.token
    expire,        \* per connection: tokenInfo.expire
    clientTokens,  \* collection client_token, tk; uuid is "" in every document
    serverTokens,  \* collection server_token
    appkeys,       \* collection appkey
    peerOpen,      \* the connection from a peer server is open
    input,         \* the last frame read
    handed,        \* history: strings given to somebody
    stored,        \* history: tokens that were ever in client_token
    refusals,      \* history: refused checks of connections without a uuid
    since,         \* history, per connection: time of the last auth_client or
                   \* accepted check
    used,          \* history: connections with an accepted check since then
    last,          \* history: the last check of a client's token
    processed      \* history: tokens with which commands were processed

conns   == <<open, type, named, token, expire>>
tables  == <<clientTokens, serverTokens, appkeys>>
history == <<handed, stored, refusals, since, used, last, processed>>
vars    == <<clock, conns, tables, peerOpen, input, history>>

Times == Start..MaxClock

\* Frames up to the bounds, with every pair of length fields.
Inputs == [n : 0..(MaxHead + MaxBody + 9), h : -1..MaxHead, b : -1..MaxBody]

Checks == [right : BOOLEAN, idle : Nat, used : BOOLEAN, ok : BOOLEAN]

\* Every variable has its type.
TypeOK ==
    /\ clock \in Times
    /\ open \subseteq Conns
    /\ type \in [Conns -> SUBSET {"client", "server"}]
    /\ named \subseteq Conns
    /\ token \in [Conns -> Strings \cup {NoString}]
    /\ expire \in [Conns -> Nat]
    /\ clientTokens \subseteq Strings
    /\ serverTokens \subseteq Strings
    /\ appkeys \subseteq Strings
    /\ peerOpen \in BOOLEAN
    /\ input \in [n : Nat, h : Int, b : Int]
    /\ handed \subseteq Strings
    /\ stored \subseteq Strings
    /\ refusals \in Nat
    /\ since \in [Conns -> Times]
    /\ used \subseteq Conns
    /\ last \in Checks
    /\ processed \subseteq Strings

Init ==
    /\ clock = Start
    /\ open = Conns
    /\ type = [c \in Conns |-> {}]
    /\ named = {}
    /\ token = [c \in Conns |-> NoString]
    /\ expire = [c \in Conns |-> 0]
    /\ clientTokens = {} /\ serverTokens = {} /\ appkeys = {}
    /\ peerOpen = TRUE
    /\ input = FormatMsg(1, 1)
    /\ handed = {} /\ stored = {}
    /\ refusals = 0
    /\ since = [c \in Conns |-> Start]
    /\ used = {}
    /\ last = [right |-> FALSE, idle |-> 0, used |-> FALSE, ok |-> FALSE]
    /\ processed = {}

\* Bound: the parsers keep no state, so that it is enough to vary the frames
\* as long as no token has been handed out.  After that all are well-formed.
Varied == handed = {}
WellFormed == input' = FormatMsg(1, 1)

Tick ==
    /\ clock < MaxClock
    /\ clock' = clock + 1
    /\ UNCHANGED <<conns, tables, peerOpen, input, history>>

-----------------------------------------------------------------------------
(* Frames                                                                  *)

\* OnRead with a frame that carries none of the commands below.  OnRead returns
\* the parser's error, and OnAccept closes the connection; an unknown command is
\* refused by AclCheck or TokenCheck, or answered "not found".
OnRead(c, f) ==
    /\ c \in open /\ Varied
    /\ input' = f
    /\ open' = IF NewCmdline(f).ok THEN open ELSE open \ {c}
    /\ UNCHANGED <<clock, type, named, token, expire, tables, peerOpen, history>>

\* A peer forwards: forwardToAllOtherServer sends neither an empty command nor
\* an empty message.  A frame the parser refuses ends the connection.
Forward(hl, bl) ==
    /\ peerOpen /\ Varied
    /\ hl > 0 /\ bl > 0
    /\ input' = FormatMsg(hl, bl)
    /\ peerOpen' = NewServerCmdline(input').ok
    /\ UNCHANGED <<clock, conns, tables, history>>

-----------------------------------------------------------------------------
(* Commands without a check of the token                                   *)

IsClient(c) == "client" \in type[c]

\* Commands in skipAclCmd need no identity, all others do.
AclCheck(c) == type[c] # {}

Fresh(x) == x \notin handed /\ handed' = handed \cup {x}

\* gettoken: the token is handed out even if the insertion fails.
GetClientToken(c, x) ==
    /\ c \in open /\ WellFormed
    /\ Fresh(x)
    /\ \/ clientTokens' = clientTokens \cup {x} /\ stored' = stored \cup {x}
       \/ UNCHANGED <<clientTokens, stored>>
    /\ UNCHANGED <<clock, conns, serverTokens, appkeys, peerOpen, refusals,
                   since, used, last, processed>>

\* getappkey: a key whose insertion fails is not handed out.
GetAppKey(c, x) ==
    /\ c \in open /\ WellFormed
    /\ Fresh(x)
    /\ appkeys' = appkeys \cup {x}
    /\ UNCHANGED <<clock, conns, clientTokens, serverTokens, peerOpen,
                   stored, refusals, since, used, last, processed>>

\* auth_server: for an appkey a token, handed out even if the insertion fails.
AuthServer(c, key, x) ==
    /\ c \in open /\ WellFormed
    /\ key \in appkeys
    /\ Fresh(x)
    /\ serverTokens' \in {serverTokens, serverTokens \cup {x}}
    /\ type' = [type EXCEPT ![c] = @ \cup {"server"}]
    /\ UNCHANGED <<clock, open, named, token, expire, clientTokens, appkeys,
                   peerOpen, stored, refusals, since, used, last, processed>>

\* Mutant: the expiry is set in seconds.
AuthClientSeconds(c, x) ==
    /\ c \in open /\ WellFormed
    /\ x \in clientTokens
    /\ type' = [type EXCEPT ![c] = @ \cup {"client"}]
    /\ token' = [token EXCEPT ![c] = x]
    /\ expire' = [expire EXCEPT ![c] = clock]
    /\ since' = [since EXCEPT ![c] = clock]
    /\ used' = used \ {c}
    /\ UNCHANGED <<clock, open, named, tables, peerOpen, handed, stored,
                   refusals, last, processed>>

\* Mutant: the result of the search in client_token is not looked at.
AuthClientAnyToken(c, x) ==
    /\ c \in open /\ WellFormed
    /\ type' = [type EXCEPT ![c] = @ \cup {"client"}]
    /\ token' = [token EXCEPT ![c] = x]
    /\ expire' = [expire EXCEPT ![c] = clock * Second]
    /\ since' = [since EXCEPT ![c] = clock]
    /\ used' = used \ {c}
    /\ UNCHANGED <<clock, open, named, tables, peerOpen, handed, stored,
                   refusals, last, processed>>

\* auth_client: a token in client_token makes the connection a client.
AuthClient(c, x) ==
    /\ c \in open /\ WellFormed
    /\ x \in clientTokens
    /\ type' = [type EXCEPT ![c] = @ \cup {"client"}]
    /\ token' = [token EXCEPT ![c] = x]
    /\ expire' = [expire EXCEPT ![c] = clock * Second]
    /\ since' = [since EXCEPT ![c] = clock]
    /\ used' = used \ {c}
    /\ UNCHANGED <<clock, open, named, tables, peerOpen, handed, stored,
                   refusals, last, processed>>

\* setuuid needs an identity and no token.
SetUuid(c) ==
    /\ c \in open /\ WellFormed
    /\ AclCheck(c)
    /\ named' = named \cup {c}
    /\ UNCHANGED <<clock, open, type, token, expire, tables, peerOpen,
                   history>>

-----------------------------------------------------------------------------
(* Commands with a check of the token                                      *)

Expired(c) == clock - expire[c] > Limit

Check(c, x, ok) ==
    last' = [right |-> x = token[c], idle |-> clock - since[c],
             used |-> c \in used, ok |-> ok]

\* Mutant: the expiry is moved back by the limit instead of being compared with
\* it.
AcceptedWindowStart(c, x) ==
    /\ c \in open /\ IsClient(c) /\ WellFormed
    /\ x = token[c] /\ ~Expired(c)
    /\ Check(c, x, TRUE)
    /\ expire' = [expire EXCEPT ![c] = clock - (Limit + 1)]
    /\ since' = [since EXCEPT ![c] = clock]
    /\ used' = used \cup {c}
    /\ processed' = processed \cup {x}
    /\ UNCHANGED <<clock, open, type, named, token, tables, peerOpen, handed,
                   stored, refusals>>

\* A client's command: checkClientToken accepts the token and notes the time.
Accepted(c, x) ==
    /\ c \in open /\ IsClient(c) /\ WellFormed
    /\ x = token[c] /\ ~Expired(c)
    /\ Check(c, x, TRUE)
    /\ expire' = [expire EXCEPT ![c] = clock]
    /\ since' = [since EXCEPT ![c] = clock]
    /\ used' = used \cup {c}
    /\ processed' = processed \cup {x}
    /\ UNCHANGED <<clock, open, type, named, token, tables, peerOpen,
                   handed, stored, refusals>>

\* Mutant: every document with the uuid is removed.
RevokeAll(c) ==
    clientTokens' = IF c \in named THEN clientTokens ELSE {}

\* Remove deletes one document with the connection's uuid.  All documents have
\* the uuid "": one of them goes if the connection has none, and none if it has.
Revoke(c) ==
    IF c \in named \/ clientTokens = {}
    THEN UNCHANGED clientTokens
    ELSE \E y \in clientTokens : clientTokens' = clientTokens \ {y}

\* checkClientToken refuses: the identity is cleared, the connection goes on.
RefusedToken(c, x) ==
    /\ c \in open /\ IsClient(c) /\ WellFormed
    /\ x # token[c] \/ Expired(c)
    /\ Check(c, x, FALSE)
    /\ Revoke(c)
    /\ type' = [type EXCEPT ![c] = {}]
    /\ refusals' = refusals + IF c \in named THEN 0 ELSE 1
    /\ UNCHANGED <<clock, open, named, token, expire, serverTokens, appkeys,
                   peerOpen, handed, stored, since, used, processed>>

\* Everybody else's command is processed if checkServerToken finds the token,
\* and refused without further effect if not; commands that do not skip the
\* access check also need an identity.
ServerCommand(c, x, skipsAcl) ==
    /\ c \in open /\ ~IsClient(c) /\ WellFormed
    /\ skipsAcl \/ AclCheck(c)
    /\ x \in serverTokens
    /\ processed' = processed \cup {x}
    /\ UNCHANGED <<clock, conns, tables, peerOpen, handed, stored,
                   refusals, since, used, last>>

Next ==
    \/ Tick
    \/ \E c \in Conns :
        \/ \E f \in Inputs : OnRead(c, f)
        \/ \E x \in Strings :
            \/ GetClientToken(c, x) \/ GetAppKey(c, x)
            \/ AuthClient(c, x)
            \/ \E key \in appkeys : AuthServer(c, key, x)
            \/ Accepted(c, x) \/ RefusedToken(c, x)
            \/ \E skipsAcl \in BOOLEAN : ServerCommand(c, x, skipsAcl)
        \/ SetUuid(c)
    \/ \E hl \in 0..MaxHead : \E bl \in 0..MaxBody : Forward(hl, bl)

Spec == Init /\ [][Next]_vars

-----------------------------------------------------------------------------
(* Properties                                                              *)

\* Both parsers keep inside every frame and agree (cmd_interface.go:110-156,
\* s2s_server.go:81-130); see CutsInside.
FramesCutInside == CutsInside(input)

\* What a server forwards its peers understand: the connection between servers
\* is never closed for a damaged frame (pubsub.go:208, s2s_server.go:109).
ForwardsUnderstood == peerOpen

\* A client's token is refused if and only if it is the wrong one, or the client
\* has been idle for more than Limit seconds after a command that was accepted.
\* Idling between auth_client and the first command never counts, because that
\* expiry is in nanoseconds (auth.go:66, cmd_interface.go:1120).
ExpiryExact ==
    last.ok <=> (last.right /\ ~(last.used /\ last.idle > Limit))

\* A token once stored stays good for auth_client, on any connection, unless a
\* check was refused on a connection that had no uuid yet; each such refusal
\* costs one token, though perhaps another's (auth.go:62).
TokensAccountedFor == Cardinality(stored \ clientTokens) =< refusals

\* Commands that need a token are processed only with one that the server
\* itself stored, whatever logins, refusals and revocations went before
\* (acl.go:52-70).
ProcessedWithStoredTokens == processed \subseteq stored \cup serverTokens
=============================================================================
