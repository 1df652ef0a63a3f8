------------------------------- MODULE MsgLog -------------------------------
(***************************************************************************)
(* What the message storage promises to Publish: messages are logged in    *)
(* the order in which they were accepted, each accepted message at most    *)
(* once, and nothing that was not accepted is logged.  It may lose         *)
(* messages: those of a failed insertion, and all pending ones when the    *)
(* process ends.                                                           *)
(***************************************************************************)
EXTENDS Naturals, Sequences

CONSTANT Msgs

VARIABLES
    pending,  \* accepted and not yet handed to the database
    log       \* the collection msg_log, in the order of insertion

Init == pending = <<>> /\ log = <<>>

Accept(m) ==
    /\ pending' = Append(pending, m)
    /\ UNCHANGED log

\* The k oldest pending messages are handed over; the database keeps the
\* first n of them.
Insert(k, n) ==
    /\ log' = log \o SubSeq(pending, 1, n)
    /\ pending' = SubSeq(pending, k + 1, Len(pending))

Crash ==
    /\ pending' = <<>>
    /\ UNCHANGED log

Next ==
    \/ \E m \in Msgs : Accept(m)
    \/ \E k \in 1..Len(pending) : \E n \in 0..k : Insert(k, n)
    \/ Crash

Spec == Init /\ [][Next]_<<pending, log>>
=============================================================================
