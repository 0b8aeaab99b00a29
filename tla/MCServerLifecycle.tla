------------------------- MODULE MCServerLifecycle -------------------------
(* ServerLifecycle with two requests under way at the same time.            *)
EXTENDS ServerLifecycle

CONSTANTS r1, r2

MCRequests == {r1, r2}
=============================================================================
