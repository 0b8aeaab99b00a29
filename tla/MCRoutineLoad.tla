--------------------------- MODULE MCRoutineLoad ---------------------------
(* RoutineLoad and its page with two user databases and the columns that     *)
(* matter.                                                                  *)
EXTENDS RoutineLoadViews

CONSTANTS sales, ops, sys, job

MCDatabases == {sales, ops}
MCSystem == {sys}
MCNames == {job}

Offsets(a, b) == [p \in {0, 1} |-> IF p = 0 THEN a ELSE b]

MCRows == {
    [state |-> "RUNNING", reason |-> FALSE, statistics |-> {[total |-> 10, error |-> 1]},
     progress |-> Offsets(5, 9), latest |-> Offsets(9, 5)],
    [state |-> "PAUSED", reason |-> TRUE, statistics |-> {}, progress |-> Offsets(1, 2), latest |-> Offsets(4, 2)],
    [state |-> "CANCELLED", reason |-> FALSE, statistics |-> {[total |-> 2, error |-> 2]},
     progress |-> Offsets(5, Marker), latest |-> Offsets(9, 9)],
    [state |-> "UNKNOWN", reason |-> TRUE, statistics |-> {[total |-> 0, error |-> 0]},
     progress |-> Offsets(5, 5), latest |-> [p \in {1} |-> 7]]}

MCPolicies == {[ratio |-> 1, minTotal |-> 0, maxLag |-> 3],
               [ratio |-> 2, minTotal |-> 3, maxLag |-> 0],
               [ratio |-> 0, minTotal |-> 0, maxLag |-> 2]}
=============================================================================
