------------------------------- MODULE Frames -------------------------------
(***************************************************************************)
(* How the two parsers cut a frame into a command and its parameters       *)
(* (NewCmdline of cmd_interface.go, NewServerCmdline of s2s_server.go).     *)
(*                                                                         *)
(* A frame is [n, h, b]: its length in bytes, the big-endian int32 at      *)
(* offset 0, the length of the command, and the one after the command, the *)
(* length of the parameters.  n is below 4, or not above h + 8, when h or  *)
(* b is not there; then it is not read.  A slice is a pair of offsets.     *)
(* Go's int has 64 bits, so sums of two int32 do not overflow.             *)
(***************************************************************************)
EXTENDS Integers

Refused == [ok |-> FALSE, cmd |-> <<0, 0>>, params |-> <<0, 0>>]

Cut(f, params) == [ok |-> TRUE, cmd |-> <<4, f.h + 4>>, params |-> params]

\* Mutant: the check of the command's length is missing.
NewCmdlineLongHead(f) ==
    IF \/ f.n < 4
       \/ f.h =< 0
       \/ f.n > f.h + 8 /\ f.n # f.h + 8 + f.b
    THEN Refused
    ELSE Cut(f, IF f.n > f.h + 8 THEN <<f.h + 8, f.h + 8 + f.b>> ELSE <<0, 0>>)

\* The parser for clients: a command may come without parameters.
NewCmdline(f) ==
    IF \/ f.n < 4
       \/ f.h =< 0
       \/ f.n < f.h + 4
       \/ f.n > f.h + 8 /\ f.n # f.h + 8 + f.b
    THEN Refused
    ELSE Cut(f, IF f.n > f.h + 8 THEN <<f.h + 8, f.h + 8 + f.b>> ELSE <<0, 0>>)

\* Mutant: parameters of one byte are taken for none.
NewServerCmdlineOneByte(f) ==
    IF \/ f.n < 4
       \/ f.h =< 0
       \/ f.n < f.h + 4
       \/ f.n =< f.h + 9
       \/ f.n # f.h + 8 + f.b
    THEN Refused
    ELSE Cut(f, <<f.h + 8, f.h + 8 + f.b>>)

\* The parser for peers: parameters are required.
NewServerCmdline(f) ==
    IF \/ f.n < 4
       \/ f.h =< 0
       \/ f.n < f.h + 4
       \/ f.n =< f.h + 8
       \/ f.n # f.h + 8 + f.b
    THEN Refused
    ELSE Cut(f, <<f.h + 8, f.h + 8 + f.b>>)

\* What golib's WriteFormatBinMsg sends for a command of hl bytes with a
\* message of bl bytes.
FormatMsg(hl, bl) == [n |-> hl + bl + 8, h |-> hl, b |-> bl]

Inside(s, f) == 0 =< s[1] /\ s[1] =< s[2] /\ s[2] =< f.n

\* The slices of an accepted frame lie inside it and do not overlap, the
\* command is not empty, and both parsers cut a frame that both accept alike.
CutsInside(f) ==
    /\ \A c \in {NewCmdline(f), NewServerCmdline(f)} :
        c.ok => /\ Inside(c.cmd, f) /\ c.cmd[1] < c.cmd[2]
                /\ Inside(c.params, f)
                /\ c.params # <<0, 0>> => c.cmd[2] < c.params[1] /\ c.params[2] = f.n
    /\ NewServerCmdline(f).ok => NewCmdline(f) = NewServerCmdline(f)
=============================================================================
