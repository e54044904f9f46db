--------------------------- MODULE DeliveryPromise ---------------------------
(***************************************************************************)
(* What the engine promises of an event, whatever carries it: the values   *)
(* of events.status a client, the DLQ API or the dashboard can observe and *)
(* the delivery attempts that back them.  Queues, workers and failures do  *)
(* not appear.                                                             *)
(***************************************************************************)
CONSTANT Events

VARIABLES
    status,    \* events.status
    evidence   \* the final attempts on record for each event

vars == <<status, evidence>>

Known(e) == status[e] # "NONE"

Init ==
    /\ status = [e \in Events |-> "NONE"]
    /\ evidence = [e \in Events |-> {}]

\* A client's event is accepted: it starts PENDING, once.
Accept(e) ==
    /\ ~Known(e)
    /\ status' = [status EXCEPT ![e] = "PENDING"]
    /\ UNCHANGED evidence

\* A final answer of an endpoint goes on record.
Attempt(e, result) ==
    /\ Known(e)
    /\ evidence' = [evidence EXCEPT ![e] = @ \cup {result}]
    /\ UNCHANGED status

\* An event is DELIVERED on the evidence of a success.
Deliver(e) ==
    /\ Known(e)
    /\ "SUCCESS" \in evidence[e]
    /\ status' = [status EXCEPT ![e] = "DELIVERED"]
    /\ UNCHANGED evidence

\* An event is dead-lettered after a final failure, or quarantined by the claim
\* ceiling, which asks for no evidence.
DeadLetter(e) ==
    /\ Known(e)
    /\ status' = [status EXCEPT ![e] = "DLQ"]
    /\ UNCHANGED evidence

\* Only events of the DLQ are reopened.
Reopen(S) ==
    /\ \A e \in S : status[e] = "DLQ"
    /\ status' = [e \in Events |-> IF e \in S THEN "PENDING" ELSE status[e]]
    /\ UNCHANGED evidence

Next ==
    \/ \E e \in Events : Accept(e) \/ Deliver(e) \/ DeadLetter(e)
    \/ \E e \in Events, result \in {"SUCCESS", "FAILED"} : Attempt(e, result)
    \/ \E S \in SUBSET Events : Reopen(S)

Spec == Init /\ [][Next]_vars

=============================================================================
