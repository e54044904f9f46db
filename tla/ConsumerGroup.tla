--------------------------- MODULE ConsumerGroup ---------------------------
(***************************************************************************)
(* What the worker pool asks of a stream with one consumer group, be it in *)
(* Redis or in memory: messages are only ever added at the end, the group  *)
(* is given each of them once and in order, and a message it was given is  *)
(* pending until it is acknowledged, and never again afterwards.           *)
(***************************************************************************)
EXTENDS Naturals, Sequences

VARIABLES
    log,       \* the messages of the stream, in the order they were added
    joined,    \* the group exists
    cursor,    \* how many messages the group has moved past
    pending    \* positions of the messages given out and not acknowledged

vars == <<log, joined, cursor, pending>>

Init ==
    /\ log = << >>
    /\ joined \in BOOLEAN
    /\ cursor = 0
    /\ pending = {}

Add ==
    /\ Len(log') = Len(log) + 1
    /\ \A m \in 1 .. Len(log) : log'[m] = log[m]
    /\ UNCHANGED <<joined, cursor, pending>>

\* A new group starts at the beginning of the stream or at its end.
Join ==
    /\ ~joined
    /\ joined'
    /\ cursor' \in {0, Len(log)}
    /\ UNCHANGED <<log, pending>>

\* The next n messages; asking for messages creates the group.
Give(n) ==
    /\ joined'
    /\ cursor' = cursor + n
    /\ pending' = pending \cup cursor + 1 .. cursor + n
    /\ UNCHANGED log

Done(S) ==
    /\ pending' = pending \ S
    /\ UNCHANGED <<log, joined, cursor>>

Next ==
    \/ Add
    \/ Join
    \/ \E n \in 1 .. Len(log) - cursor : Give(n)
    \/ \E m \in pending : Done({m})

Spec == Init /\ [][Next]_vars

=============================================================================
