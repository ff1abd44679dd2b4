------------------------- MODULE MCManagedRecovery -------------------------
(* ManagedRecovery for TLC. *)
EXTENDS ManagedRecovery
=============================================================================
