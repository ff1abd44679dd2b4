-------------------------- MODULE MCSessionRoutes --------------------------
(* SessionRoutes for TLC: two servers, one of them with two threads, and the *)
(* editor and a game of the same project.                                    *)
EXTENDS SessionRoutes, TLC

CONSTANTS srv1, srv2, loop1, loop2, job2, editor, game, n1, n2

MCProcs == {srv1, srv2}
MCThreads == {loop1, loop2, job2}
MCProcOf == loop1 :> srv1 @@ loop2 :> srv2 @@ job2 :> srv2
MCSessions == {editor, game}
MCEditors == {editor}
MCInodes == {n1, n2}

\* The two threads of srv2 are alike.
MCSymmetry == Permutations({loop2, job2})
=============================================================================
