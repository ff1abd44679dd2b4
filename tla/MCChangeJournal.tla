-------------------------- MODULE MCChangeJournal --------------------------
(* ChangeJournal for TLC; the instance is in the configuration. *)
EXTENDS ChangeJournal
=============================================================================
