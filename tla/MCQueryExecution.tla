-------------------------- MODULE MCQueryExecution --------------------------
(* QueryExecution on a small instance: two requests for one connection.     *)
EXTENDS QueryExecution

CONSTANTS r1, r2, c1, sales, ops

MCRequests == {r1, r2}
MCConns == {c1}
MCDatabases == {sales, ops}
MCAsked == {0, 1}
=============================================================================
