---------------------------- MODULE MCSSEBroker ----------------------------
(***************************************************************************)
(* Small instances of SSEBroker for TLC.                                   *)
(***************************************************************************)
EXTENDS SSEBroker, TLC

=============================================================================
