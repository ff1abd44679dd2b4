--------------------------- MODULE MCCommandQueue ---------------------------
(* Instances of CommandQueue for TLC: the .cfg files choose the kinds of     *)
(* command, all their orders and interleavings are explored.                 *)
EXTENDS CommandQueue
=============================================================================
