----------------------------- MODULE MCStorage -----------------------------
(* Storage and its page with two table names, two databases and up to three    *)
(* tablets on two backends.                                                 *)
EXTENDS StorageViews, TLC

CONSTANTS orders, users

MCNames == {orders, users}
MCDatabases == {"sales", "ops"}

Count(tablet, field, n) ==
    [f \in Fields |-> CASE f = "tablet" -> tablet [] f = field -> n [] OTHER -> 0]

MCCounters == {Count(3, "cloning", 1), Count(5, "errorState", 2)}

Row(be, rows, bytes, rowsets, ok) ==
    [be |-> be, rows |-> rows, bytes |-> bytes, rowsets |-> rowsets, ok |-> ok]

MCTabletRows == {Row(1, 0, 1, 1, TRUE), Row(1, 2, 4, 1, FALSE), Row(1, Nil, Nil, Nil, TRUE),
                 Row(2, 3, 3, 2, TRUE), Row(2, 9, 9, Nil, TRUE)}
MCSymmetry == Permutations(MCNames)
=============================================================================
