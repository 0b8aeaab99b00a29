---------------------------- MODULE MCBrowserTab ----------------------------
(* BrowserTab with two databases that both have a table of the same name,    *)
(* two statements and one database to run them in.                           *)
EXTENDS BrowserTab

CONSTANTS sales, ops, orders, select, show, blank, tab

MCRoutes == {"topology", "storage", "worksheet"}
MCCatalog == {sales, ops}
MCTables == {orders}
MCDatabases == {}
MCStatements == {select, show}
MCTabs == {tab}

\* The pages share the tab, its cache and its store, but the executions of the
\* worksheet and the queries of the monitoring pages do not touch each other: each is
\* explored with the other at rest.
ShellAtRest == /\ route \in {"topology", "worksheet"}
               /\ server = "healthy" /\ autoRefresh
               /\ cache = Loaded("topology")
WorksheetAtRest == /\ run = << >>
                   /\ typed = [t \in Tabs |-> NotTyped]
                   /\ storage = [sql |-> FirstStatement, database |-> NoDb, autoRefresh |-> autoRefresh]
                   /\ memory = [t \in Tabs |-> storage]

Apart == (ShellAtRest \/ WorksheetAtRest)'

MCSpec == TabSpec /\ ConsoleFairness
=============================================================================
