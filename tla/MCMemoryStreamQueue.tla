------------------------ MODULE MCMemoryStreamQueue ------------------------
(***************************************************************************)
(* Small instances of MemoryStreamQueue for TLC.                           *)
(***************************************************************************)
EXTENDS MemoryStreamQueue, TLC

=============================================================================
