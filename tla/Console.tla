------------------------------- MODULE Console -------------------------------
(***************************************************************************)
(* One browser tab of the console: the shell that is always on screen      *)
(* (DashboardLayout.tsx, Header.tsx, Sidebar.tsx), the page its route      *)
(* selects (App.tsx), and the cache of server data they share              *)
(* (useTopology.ts, useRoutineLoads.ts, useStorage.ts, queryClient.ts).    *)
(*                                                                         *)
(* The cache is TanStack Query, external: a query is fetched when a        *)
(* component that shows it appears and it is missing or stale, on an       *)
(* interval, when the window regains focus, or when a button asks for it.  *)
(* A fetch is one request and its retry; it ends with data, which replaces *)
(* the old, or with an error, which leaves the data that is there.  When   *)
(* nothing shows a query any more its request is cancelled, and some time  *)
(* later its data is dropped.  A fetch that waits for the network or for   *)
(* the tab to come into view is still a fetch here.                        *)
(*                                                                         *)
(* What a page draws from its data is in TopologyViews, RoutineLoadViews   *)
(* and StorageViews; the alert history is AlertsPanel, and BrowserTab puts *)
(* the shell and the worksheet together.                                   *)
(***************************************************************************)
EXTENDS Integers, FiniteSets

CONSTANTS Routes,      \* pages of the application
          Catalog,   \* databases the storage page offers
          Tables,      \* names of tables
          None         \* nothing: no data, no error, no selection

Monitoring == {"topology", "loads", "storage"}

\* The cluster and the StarLens server, as the tab meets them.
Servers == {"healthy", "degraded", "clusterDown", "apiDown"}

\* What an answer says: the verdict on the cluster, and what it is about.
Answers == [verdict : Servers \cup {None},
            of : {<< >>} \cup {<<d>> : d \in Catalog} \cup (Catalog \X Tables)]

ASSUME ConsoleAssumption == /\ "topology" \in Routes
                            /\ None \notin Catalog \cup Tables
                            /\ None \notin {"unavailable", "failed"} \cup Answers

VARIABLES route,        \* the page on screen
          database,     \* StorageView: the database selected
          table,        \* StorageView: the table selected
          autoRefresh,  \* useAppStore.autoRefresh
          cache,        \* each query: [data, error, fetching]
          server,       \* one of Servers
          picked        \* history variable: database and table of the last row clicked

selection == <<database, table, picked>>
consoleVars == <<route, selection, autoRefresh, cache, server>>

-----------------------------------------------------------------------------
(* Query keys *)

TopologyKey == <<"cluster", "topology">>
LoadsKey == <<"loads", "routine">>
StatisticKey == <<"storage", "statistic">>
TablesKey(d) == <<"storage", "tables", d>>

\* Mutant: the database is left out of the key.
DetailKeyByTable(d, t) == <<"storage", "table", t, t>>

DetailKey(d, t) == <<"storage", "table", d, t>>

PageKeys == {TopologyKey, LoadsKey, StatisticKey}
Keys == PageKeys \cup {TablesKey(d) : d \in Catalog}
        \cup {DetailKey(d, t) : d \in Catalog, t \in Tables}

PageKey(r) == CASE r = "loads" -> LoadsKey
                [] r = "storage" -> StatisticKey
                [] OTHER -> TopologyKey

\* The queries shown, on page r with database d and table t selected: the shell
\* shows the topology on every page; useTables and useTableDetail are enabled by
\* the selection.
Shown(r, d, t) == {TopologyKey, PageKey(r)}
                  \cup {TablesKey(x) : x \in Catalog \cap {d}}
                  \cup {DetailKey(d, x) : x \in Tables \cap {t}}

Here == Shown(route, database, table)

-----------------------------------------------------------------------------
(* The cache *)

NoQuery == [data |-> None, error |-> None, fetching |-> FALSE]

\* A fetch begins: without data to show the error is forgotten.
Fetching(q) == [q EXCEPT !.fetching = TRUE, !.error = IF q.data = None THEN None ELSE @]

\* Nothing shows it any more: the request is cancelled.
Dropped(q) == IF q.data = None THEN NoQuery ELSE [q EXCEPT !.fetching = FALSE]

\* What is shown changes from the keys in old to those in new; of the queries that
\* appear, those without data are fetched, and so are those that are stale.
Reshow(old, new, stale) ==
    [k \in Keys |->
        IF k \in old \ new THEN Dropped(cache[k])
        ELSE IF k \in new \ old /\ (cache[k].data = None \/ k \in stale) THEN Fetching(cache[k])
        ELSE cache[k]]

\* The server's verdict on the cluster, and what a request was about.
Answer(k) == [verdict |-> IF k = TopologyKey THEN server ELSE None,
              of |-> IF table # None /\ k = DetailKey(database, table) THEN <<database, table>>
                     ELSE IF database # None /\ k = TablesKey(database) THEN <<database>>
                     ELSE << >>]

\* toApiError, as far as anyone tells errors apart: whether StarRocks is down
\* or the server, and only the header asks.
ApiError(k) == IF server = "clusterDown" /\ k = TopologyKey THEN "unavailable" ELSE "failed"

Reachable == server \in {"healthy", "degraded"}

-----------------------------------------------------------------------------
(* What is on screen *)

\* The common shape of the three monitoring pages: skeletons while nothing is known,
\* the error when there is nothing else, and else the data, with a notice when
\* the last fetch failed (StorageView has no such notice).
\* Mutant: the error takes over the page.
PageShowsErrorFirst(q) ==
    IF q.data = None /\ q.error = None THEN "skeleton"
    ELSE IF q.error # None THEN "error"
    ELSE "data"

PageShows(q) ==
    IF q.data = None /\ q.error = None THEN "skeleton"
    ELSE IF q.error # None /\ q.data = None THEN "error"
    ELSE "data"

StaleNotice(r, q) == PageShows(q) = "data" /\ q.error # None /\ r # "storage"

\* Mutant: an outage is not told from an answer.
PillIgnoresOutage(q) ==
    IF q.data = None THEN IF q.error = None THEN "loading" ELSE "unknown"
    ELSE q.data.verdict

\* ClusterStatusPill: resolveTone with the summary's own verdict left to
\* TopologyViews.
Pill(q) ==
    IF q.error = "unavailable" THEN "unreachable"
    ELSE IF q.data = None THEN IF q.error = None THEN "loading" ELSE "unknown"
    ELSE q.data.verdict

OnPage == IF route \in Monitoring THEN PageShows(cache[PageKey(route)]) ELSE "other"

\* StorageView draws its browser once the statistic is there.
Browsing == route = "storage" /\ OnPage = "data"

\* The table browser of the storage page.
Browser == IF database = None THEN "prompt"
           ELSE LET q == cache[TablesKey(database)]
                IN IF q.data = None /\ q.error = None THEN "skeleton"
                   ELSE IF q.data # None THEN "list" ELSE "empty"

\* Mutant: the pending state is drawn whether a table is selected or not.
PanelWithoutSelection ==
    IF table = None THEN IF Browsing THEN "skeleton" ELSE "none"
    ELSE LET q == cache[DetailKey(database, table)]
         IN IF q.data = None /\ q.error = None THEN "skeleton"
            ELSE IF q.data # None THEN "detail" ELSE "none"

\* The panel below it.
Panel == IF table = None THEN "none"
         ELSE LET q == cache[DetailKey(database, table)]
              IN IF q.data = None /\ q.error = None THEN "skeleton"
                 ELSE IF q.data # None THEN "detail" ELSE "none"

-----------------------------------------------------------------------------
(* The user *)

\* The page has just been loaded at route r.
Loaded(r) == [k \in Keys |-> IF k \in Shown(r, None, None) THEN Fetching(NoQuery) ELSE NoQuery]

ConsoleInit == /\ route \in Routes
               /\ database = None /\ table = None /\ picked = << >>
               /\ autoRefresh = TRUE
               /\ server \in Servers
               /\ cache = Loaded(route)

\* The page is loaded again; autoRefresh is what is in the storage.
LoadPage == /\ autoRefresh' \in BOOLEAN
            /\ cache' = Loaded(route)
            /\ database' = None /\ table' = None /\ picked' = << >>
            /\ UNCHANGED <<route, server>>

\* A link of the sidebar; the storage page forgets its selection.
Navigate == /\ \E r \in Routes \ {route}, stale \in {{}, PageKeys} :
                  /\ cache' = Reshow(Here, Shown(r, None, None), stale)
                  /\ route' = r
            /\ database' = None /\ table' = None /\ picked' = << >>
            /\ UNCHANGED <<autoRefresh, server>>

\* A choice in the database menu resets the table.
SetDatabase == /\ Browsing
               /\ \E d \in Catalog \ {database}, stale \in {{}, Keys} :
                     /\ database' = d
                     /\ cache' = Reshow(Here, Shown(route, d, None), stale)
               /\ table' = None
               /\ UNCHANGED <<route, picked, autoRefresh, server>>

\* A click on a row of the table list.
SetTable == /\ Browsing /\ Browser = "list"
            /\ \E t \in Tables, stale \in {{}, Keys} :
                  /\ table' = t
                  /\ picked' = <<database, t>>
                  /\ cache' = Reshow(Here, Shown(route, database, t), stale)
            /\ UNCHANGED <<route, database, autoRefresh, server>>

ToggleRefresh == /\ autoRefresh' = ~autoRefresh
                 /\ UNCHANGED <<route, selection, cache, server>>

Refetch(k) == /\ ~cache[k].fetching
              /\ cache' = [cache EXCEPT ![k] = Fetching(@)]
              /\ UNCHANGED <<route, selection, autoRefresh, server>>

\* The header's button, disabled while it fetches,
RefreshButton == Refetch(TopologyKey)

\* and the one of ErrorState.
RetryButton == OnPage = "error" /\ Refetch(PageKey(route))

-----------------------------------------------------------------------------
(* Time, the window and the network *)

\* Mutant: an interval that stops at an error.
PollUntilError(k) == /\ autoRefresh
                     /\ k \in Here \cap PageKeys
                     /\ cache[k].error = None
                     /\ Refetch(k)

\* The interval of a monitoring query.
Poll(k) == /\ autoRefresh
           /\ k \in Here \cap PageKeys
           /\ Refetch(k)

\* The window regains focus: what is stale is fetched.
WindowFocus == \E k \in Here : Refetch(k)

\* An answer.  The detail of a table may be a 404: it has been dropped.  Only the
\* queries of pages are asked for their error while they have data; for the others
\* it is not kept.
Answered(k) ==
    /\ cache[k].fetching
    /\ \/ /\ Reachable
          /\ cache' = [cache EXCEPT ![k] = [data |-> Answer(k), error |-> None, fetching |-> FALSE]]
       \/ /\ ~Reachable \/ k \notin PageKeys
          /\ cache' = [cache EXCEPT ![k].fetching = FALSE,
                                    ![k].error = IF k \in PageKeys \/ cache[k].data = None
                                                 THEN ApiError(k) ELSE None]
    /\ UNCHANGED <<route, selection, autoRefresh, server>>

\* Data that nothing has shown for a while is dropped.
CollectGarbage == /\ \E k \in Keys \ Here : /\ cache[k].data # None
                                            /\ cache' = [cache EXCEPT ![k] = NoQuery]
                  /\ UNCHANGED <<route, selection, autoRefresh, server>>

ServerChanges == /\ server' \in Servers \ {server}
                 /\ UNCHANGED <<route, selection, autoRefresh, cache>>

\* What happens while the user stays on the page.
Staying == \/ SetDatabase \/ SetTable \/ RefreshButton \/ RetryButton
           \/ \E k \in PageKeys : Poll(k)
           \/ WindowFocus
           \/ \E k \in Keys : Answered(k)
           \/ CollectGarbage \/ ServerChanges

ConsoleNext == Navigate \/ LoadPage \/ ToggleRefresh \/ Staying

\* A request ends, by its answer or by its time-out of 15 s, and the interval of
\* the shell's query fires while the tab is in view.
ConsoleFairness == /\ \A k \in Keys : WF_consoleVars(Answered(k))
                   /\ WF_consoleVars(Poll(TopologyKey))

ConsoleSpec == ConsoleInit /\ [][ConsoleNext]_consoleVars /\ ConsoleFairness

-----------------------------------------------------------------------------
(* Properties *)

\* An entry of the cache.
Queries == [data : Answers \cup {None}, error : {None, "unavailable", "failed"},
            fetching : BOOLEAN]

\* Every variable has its type; a selection exists on the storage page only.
ConsoleTypeOK ==
    /\ route \in Routes
    /\ database \in Catalog \cup {None} /\ table \in Tables \cup {None}
    /\ autoRefresh \in BOOLEAN /\ server \in Servers
    /\ cache \in [Keys -> Queries]
    /\ database = None => table = None
    /\ route # "storage" => database = None

\* "Keep the previous snapshot on screen while refetching so the node grid does
\* not flash back to skeletons every poll" (useTopology.ts:28) and "an error only
\* takes over the page when there is nothing to show" (TopologyView.tsx:23): as
\* long as the user stays and does not load the page again, what shows data goes on
\* showing data.
NoFlashBack ==
    [][\/ LoadPage
       \/ /\ (route' = route /\ OnPage = "data") => OnPage' = "data"
          /\ (table' = table /\ database' = database /\ Panel = "detail")
                => Panel' = "detail"]_consoleVars

\* The panel is about the row that was clicked, and the list about the database
\* selected (StorageView.tsx:40-116), although lists and details arrive late, are
\* cached and are shown again, and a table name exists in several databases.
ShownIsTheSelection ==
    /\ Panel = "detail" => cache[DetailKey(database, table)].data.of = picked
    /\ Panel # "none" => picked = <<database, table>>
    /\ Browser = "list" => cache[TablesKey(database)].data.of = <<database>>

\* A skeleton means that something is on its way: wherever one is drawn, a fetch is
\* under way (StorageView.tsx:48, 99 and 115: a query that is not enabled is
\* pending as well, and would be so for ever).
SkeletonMeansLoading ==
    /\ OnPage = "skeleton" => cache[PageKey(route)].fetching
    /\ Browser = "skeleton" => cache[TablesKey(database)].fetching
    /\ Panel = "skeleton" => table # None /\ cache[DetailKey(database, table)].fetching

\* "Every caller shares one cache entry, so the header summary and the topology
\* page never disagree" (useTopology.ts:18): the pill and the page load together;
\* the pill's verdict is the page's; an outage of the cluster is in both, as a
\* verdict and as an error or a notice.
HeaderAgreesWithPage ==
    LET q == cache[TopologyKey]
        pill == Pill(q)
    IN route = "topology" =>
         /\ pill = "loading" <=> OnPage = "skeleton"
         /\ pill \in {"healthy", "degraded"} => OnPage = "data" /\ q.data.verdict = pill
         /\ OnPage = "data" => StaleNotice(route, q) \/ pill = q.data.verdict
         /\ pill = "unreachable" <=> q.error = "unavailable"
         /\ pill = "unreachable" => OnPage = "error" \/ StaleNotice(route, q)

\* "the answer to 'is anything wrong?' is always on screen" (ClusterStatusPill.tsx:
\* 31): with automatic refresh on, on whatever page, a verdict that lasts is what
\* the pill says in the end and for good.  An outage is said again and again: a
\* tab that never had data falls back to "checking" with every poll.
PillSays(what) == Pill(cache[TopologyKey]) \in what

CatchesUp ==
    <>[][~LoadPage]_consoleVars =>
       /\ \A s \in {"healthy", "degraded"} :
             <>[](autoRefresh /\ server = s) => <>[]PillSays({s})
       /\ <>[](autoRefresh /\ server = "clusterDown")
             => /\ <>[]PillSays({"unreachable", "loading"})
                /\ []<>PillSays({"unreachable"})
=============================================================================
