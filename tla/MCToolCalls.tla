---------------------------- MODULE MCToolCalls ----------------------------
(* ToolCalls for TLC. *)
EXTENDS ToolCalls, TLC

CONSTANTS i1, i2, t1, r1, export, patch, create, old, new

MCIds == {i1, i2}
MCTokens == {t1}
MCRequests == {r1}
MCWorks == {export}
MCCalls == {export, patch, create}
MCContents == {old, new}
MCWritten == (export :> new) @@ (patch :> old) @@ (create :> new)
=============================================================================
