--------------------------- MODULE MCWebhookEngine ---------------------------
(***************************************************************************)
(* Small instances of WebhookEngine for TLC.                               *)
(***************************************************************************)
EXTENDS WebhookEngine, TLC

\* Events, endpoints and workers are interchangeable: no action and no safety
\* property names one.  (The reclaimer and the order of messages are not.)
EngineSymmetry ==
    Permutations(Events) \cup Permutations(Endpoints) \cup Permutations(Workers)

=============================================================================
