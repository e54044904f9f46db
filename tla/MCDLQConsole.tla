---------------------------- MODULE MCDLQConsole ----------------------------
(***************************************************************************)
(* A small instance of DLQConsole for TLC.                                 *)
(***************************************************************************)
EXTENDS DLQConsole

\* All events are of the first tenant: a dashboard comes to the second one and back.
MCTenants == {"alpha", "beta"}
MCTenantOf == [e \in 1 .. MaxEvent |-> "alpha"]

\* A program asks for two events in either order, for one event twice, and for too many.
MCBatches == {<<1, 2>>, <<2, 1>>, <<1, 1>>, <<2, 1, 2>>}

=============================================================================
