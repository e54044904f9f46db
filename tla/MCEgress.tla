------------------------------ MODULE MCEgress ------------------------------
(* A worker's pass and a reclaimer's: on one flaky endpoint, on a flaky and a    *)
(* verifying one, and on receivers that refuse, are slow or simply accept.       *)
EXTENDS Egress
MCRoutings ==
    {[worker |-> w, reclaimer |-> r] : w \in {"flaky"}, r \in {"flaky", "verify"}}
      \cup {[worker |-> w, reclaimer |-> r] : w \in {"poison", "success"}, r \in {"slow", "verify"}}
=============================================================================
