---------------------------- MODULE MCIngestGuard ----------------------------
(***************************************************************************)
(* Small instances of IngestGuard for TLC.                                 *)
(***************************************************************************)
EXTENDS IngestGuard, TLC

\* Requests differ only in whether their body is valid.
RequestSymmetry == Permutations(Valid) \cup Permutations(Requests \ Valid)

=============================================================================
