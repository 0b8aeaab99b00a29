--------------------------- MODULE BrowserTabProofs ---------------------------
(***************************************************************************)
(* The shell and its pages, the worksheet, and a whole tab.                *)
(* Of the shell, its pages and their cache, for any routes, databases and  *)
(* tables, whatever the user, the network and the cluster do: only what is *)
(* shown is fetched, so that an answer is about what is selected when it   *)
(* comes, and what is shown without data and without an error is being     *)
(* fetched.                                                                *)
(* A worksheet follows the last execution started in it and an execution   *)
(* belongs to one tab, so that whatever settles changes at most the        *)
(* results of the worksheet that waits for it.                             *)
(* Every step of a tab is one of the shell and its pages or leaves them    *)
(* alone, and one of the worksheet or leaves it alone, so that what is     *)
(* proved of the parts holds of the two together.  The editor's text       *)
(* survives because a single tab and the storage always agree.             *)
(***************************************************************************)
EXTENDS BrowserTab, TLAPS


-----------------------------------------------------------------------------
(* Keys *)

\* Two keys are equal only if they name the same query (useTopology.ts:7,
\* useRoutineLoads.ts:7, useStorage.ts:7-61).
LEMMA KeysDiffer ==
    /\ \A c, d : TablesKey(c) = TablesKey(d) => c = d
    /\ \A c, d, s, t : DetailKey(c, s) = DetailKey(d, t) => c = d /\ s = t
    /\ \A c, d, t : TablesKey(c) # DetailKey(d, t)
    /\ \A k \in PageKeys : \A c, d, t : k # TablesKey(c) /\ k # DetailKey(d, t)
    /\ TopologyKey # LoadsKey /\ TopologyKey # StatisticKey /\ LoadsKey # StatisticKey
<1>1. /\ TopologyKey[2] = "topology" /\ LoadsKey[2] = "routine" /\ StatisticKey[2] = "statistic"
      /\ \A d : TablesKey(d)[2] = "tables" /\ TablesKey(d)[3] = d
      /\ \A d, t : DetailKey(d, t)[2] = "table" /\ DetailKey(d, t)[3] = d /\ DetailKey(d, t)[4] = t
  BY DEF TopologyKey, LoadsKey, StatisticKey, TablesKey, DetailKey
<1>2. "topology" # "routine" /\ "topology" # "statistic" /\ "topology" # "tables"
      /\ "topology" # "table" /\ "routine" # "statistic" /\ "routine" # "tables"
      /\ "routine" # "table" /\ "statistic" # "tables" /\ "statistic" # "table"
      /\ "tables" # "table"
  OBVIOUS
<1>3. ASSUME NEW c, NEW d, TablesKey(c) = TablesKey(d) PROVE c = d
  BY <1>1, <1>3
<1>4. ASSUME NEW c, NEW d, NEW s, NEW t, DetailKey(c, s) = DetailKey(d, t)
      PROVE  c = d /\ s = t
  BY <1>1, <1>4
<1>5. ASSUME NEW c, NEW d, NEW t PROVE TablesKey(c) # DetailKey(d, t)
  BY <1>1, <1>2
<1>6. ASSUME NEW k \in PageKeys, NEW c, NEW d, NEW t
      PROVE  k # TablesKey(c) /\ k # DetailKey(d, t)
  BY <1>1, <1>2 DEF PageKeys
<1>7. TopologyKey # LoadsKey /\ TopologyKey # StatisticKey /\ LoadsKey # StatisticKey
  BY <1>1, <1>2
<1> QED
  BY <1>3, <1>4, <1>5, <1>6, <1>7

\* What the storage page and the shell show are queries.
LEMMA ShownKeys ==
    ASSUME NEW r, NEW d \in Catalog \cup {None}, NEW t \in Tables \cup {None},
           d = None => t = None
    PROVE  /\ Shown(r, d, t) \subseteq Keys
           /\ TopologyKey \in Shown(r, d, t) /\ PageKey(r) \in Shown(r, d, t)
           /\ PageKey(r) \in PageKeys
           /\ d # None => TablesKey(d) \in Shown(r, d, t)
           /\ t # None => DetailKey(d, t) \in Shown(r, d, t)
           /\ \A c \in Catalog : TablesKey(c) \in Shown(r, d, t) => c = d
           /\ \A c \in Catalog, s \in Tables : DetailKey(c, s) \in Shown(r, d, t) => c = d /\ s = t
<1>1. PageKey(r) \in PageKeys
  BY DEF PageKey, PageKeys
<1>2. PageKeys \subseteq Keys /\ TopologyKey \in PageKeys
  BY DEF Keys, PageKeys
<1>3. \A x \in Catalog \cap {d} : x = d /\ TablesKey(x) \in Keys
  BY DEF Keys
<1>4. \A x \in Tables \cap {t} : x = t /\ DetailKey(d, x) \in Keys
  <2> SUFFICES ASSUME t \in Tables PROVE DetailKey(d, t) \in Keys
    OBVIOUS
  <2>1. d \in Catalog
    BY ConsoleAssumption
  <2> QED
    BY <2>1 DEF Keys
<1>5. Shown(r, d, t) \subseteq Keys
  BY <1>1, <1>2, <1>3, <1>4 DEF Shown
<1>6. /\ d # None => TablesKey(d) \in Shown(r, d, t)
      /\ t # None => DetailKey(d, t) \in Shown(r, d, t)
      /\ TopologyKey \in Shown(r, d, t) /\ PageKey(r) \in Shown(r, d, t)
  BY DEF Shown
<1>7. \A c \in Catalog : TablesKey(c) \in Shown(r, d, t) => c = d
  <2> SUFFICES ASSUME NEW c \in Catalog, TablesKey(c) \in Shown(r, d, t) PROVE c = d
    OBVIOUS
  <2>1. TablesKey(c) \notin {TopologyKey, PageKey(r)}
    BY <1>1, <1>2, KeysDiffer
  <2>2. \A x : TablesKey(c) # DetailKey(d, x)
    BY KeysDiffer
  <2>3. PICK x \in Catalog \cap {d} : TablesKey(c) = TablesKey(x)
    BY <2>1, <2>2 DEF Shown
  <2> QED
    BY <2>3, KeysDiffer
<1>8. \A c \in Catalog, s \in Tables : DetailKey(c, s) \in Shown(r, d, t) => c = d /\ s = t
  <2> SUFFICES ASSUME NEW c \in Catalog, NEW s \in Tables, DetailKey(c, s) \in Shown(r, d, t)
               PROVE  c = d /\ s = t
    OBVIOUS
  <2>1. DetailKey(c, s) \notin {TopologyKey, PageKey(r)}
    BY <1>1, <1>2, KeysDiffer
  <2>2. \A x : DetailKey(c, s) # TablesKey(x)
    BY KeysDiffer
  <2>3. PICK x \in Tables \cap {t} : DetailKey(c, s) = DetailKey(d, x)
    BY <2>1, <2>2 DEF Shown
  <2> QED
    BY <2>3, KeysDiffer
<1> QED
  BY <1>1, <1>5, <1>6, <1>7, <1>8

-----------------------------------------------------------------------------
(* The invariant *)

\* The answers kept are about what their keys name, and a verdict is one of a
\* cluster that answers.
Right(c) ==
    /\ \A d \in Catalog :
         c[TablesKey(d)].data # None => c[TablesKey(d)].data.of = <<d>>
    /\ \A d \in Catalog, t \in Tables :
         c[DetailKey(d, t)].data # None => c[DetailKey(d, t)].data.of = <<d, t>>
    /\ c[TopologyKey].data # None => c[TopologyKey].data.verdict \in {"healthy", "degraded"}

\* Only what is shown is fetched, and what is shown and unknown is.
Tidy(c, here) ==
    /\ \A k \in Keys \ here : ~c[k].fetching
    /\ \A k \in Keys \cap here : c[k].data = None /\ c[k].error = None => c[k].fetching

Picked == table # None => picked = <<database, table>>

ConsoleInv == ConsoleTypeOK /\ Right(cache) /\ Tidy(cache, Here) /\ Picked

\* Starting and dropping a fetch leave the data of a query alone.
LEMMA FetchFacts ==
    ASSUME NEW q \in Queries
    PROVE  /\ Fetching(q) \in Queries /\ Fetching(q).data = q.data /\ Fetching(q).fetching
           /\ Dropped(q) \in Queries /\ Dropped(q).data = q.data /\ ~Dropped(q).fetching
           /\ NoQuery \in Queries /\ NoQuery.data = None /\ ~NoQuery.fetching
  BY ConsoleAssumption DEF Fetching, Dropped, NoQuery, Queries

\* Right depends on the data only.
LEMMA SameDataIsRight ==
    ASSUME NEW c, NEW e, \A k \in Keys : e[k].data \in {c[k].data, None}, Right(c)
    PROVE  Right(e)
<1>1. /\ \A d \in Catalog : TablesKey(d) \in Keys
      /\ \A d \in Catalog, t \in Tables : DetailKey(d, t) \in Keys
      /\ TopologyKey \in Keys
  BY DEF Keys, PageKeys
<1> QED
  BY <1>1 DEF Right

\* A change of what is shown keeps all data, and fetches what appears unknown.
LEMMA ReshowFacts ==
    ASSUME ConsoleTypeOK, Right(cache), Tidy(cache, Here),
           NEW new \in SUBSET Keys, NEW stale
    PROVE  /\ Reshow(Here, new, stale) \in [Keys -> Queries]
           /\ Right(Reshow(Here, new, stale))
           /\ Tidy(Reshow(Here, new, stale), new)
           /\ \A k \in Keys : Reshow(Here, new, stale)[k].data = cache[k].data
<1> DEFINE c == Reshow(Here, new, stale)
<1>1. ASSUME NEW k \in Keys
      PROVE  /\ c[k] \in Queries /\ c[k].data = cache[k].data
             /\ k \notin new => ~c[k].fetching
             /\ k \in new /\ c[k].data = None /\ c[k].error = None => c[k].fetching
  <2>1. cache[k] \in Queries
    BY DEF ConsoleTypeOK
  <2>2. CASE k \in Here \ new
    <3>1. c[k] = Dropped(cache[k])
      BY <2>2 DEF Reshow
    <3> QED
      BY <2>1, <2>2, <3>1, FetchFacts
  <2>3. CASE k \in new \ Here /\ (cache[k].data = None \/ k \in stale)
    <3>1. c[k] = Fetching(cache[k])
      BY <2>3 DEF Reshow
    <3> QED
      BY <2>1, <2>3, <3>1, FetchFacts
  <2>4. CASE /\ k \notin Here \ new
             /\ ~(k \in new \ Here /\ (cache[k].data = None \/ k \in stale))
    <3>1. c[k] = cache[k]
      BY <2>4 DEF Reshow
    <3> QED
      BY <2>1, <2>4, <3>1 DEF Tidy
  <2> QED
    BY <2>2, <2>3, <2>4
<1>2. c \in [Keys -> Queries]
  BY <1>1 DEF Reshow
<1>3. Right(c)
  BY <1>1, SameDataIsRight
<1>4. Tidy(c, new)
  BY <1>1 DEF Tidy
<1> QED
  BY <1>1, <1>2, <1>3, <1>4

\* A page that was just loaded knows nothing and fetches what it shows.
LEMMA LoadedFacts ==
    ASSUME NEW r \in Routes
    PROVE  /\ Loaded(r) \in [Keys -> Queries]
           /\ Right(Loaded(r))
           /\ Tidy(Loaded(r), Shown(r, None, None))
<1>1. NoQuery \in Queries /\ NoQuery.data = None /\ ~NoQuery.fetching
  BY ConsoleAssumption DEF NoQuery, Queries
<1>2. /\ Fetching(NoQuery) \in Queries /\ Fetching(NoQuery).data = None
      /\ Fetching(NoQuery).fetching
  BY <1>1, FetchFacts
<1>3. ASSUME NEW k \in Keys
      PROVE  /\ Loaded(r)[k] \in Queries /\ Loaded(r)[k].data = None
             /\ Loaded(r)[k].fetching <=> k \in Shown(r, None, None)
  <2>1. Loaded(r)[k] = IF k \in Shown(r, None, None) THEN Fetching(NoQuery) ELSE NoQuery
    BY DEF Loaded
  <2> QED
    BY <1>1, <1>2, <2>1
<1>4. Loaded(r) \in [Keys -> Queries]
  BY <1>3 DEF Loaded
<1>5. TopologyKey \in Keys /\ (\A d \in Catalog : TablesKey(d) \in Keys)
      /\ \A d \in Catalog, t \in Tables : DetailKey(d, t) \in Keys
  BY DEF Keys, PageKeys
<1>6. Right(Loaded(r))
  BY <1>3, <1>5 DEF Right
<1>7. Tidy(Loaded(r), Shown(r, None, None))
  BY <1>3 DEF Tidy
<1> QED
  BY <1>4, <1>6, <1>7

\* What is on screen, by name.
LEMMA HereFacts ==
    ASSUME ConsoleTypeOK
    PROVE  /\ Here \subseteq Keys
           /\ TopologyKey \in Here /\ PageKey(route) \in Here /\ PageKey(route) \in PageKeys
           /\ database # None => database \in Catalog /\ TablesKey(database) \in Here
           /\ table # None => /\ table \in Tables /\ database # None
                              /\ DetailKey(database, table) \in Here
           /\ \A d \in Catalog : TablesKey(d) \in Here => d = database
           /\ \A d \in Catalog, t \in Tables :
                 DetailKey(d, t) \in Here => d = database /\ t = table
  BY ShownKeys DEF ConsoleTypeOK, Here

-----------------------------------------------------------------------------
(* Steps *)

\* What is shown with data goes on having data.
KeepsShown == \A k \in Here : cache[k].data # None => cache'[k].data # None

LEMMA ConsoleStart == ConsoleInit => ConsoleInv
<1> SUFFICES ASSUME ConsoleInit PROVE ConsoleInv
  OBVIOUS
<1>1. /\ cache \in [Keys -> Queries] /\ Right(cache)
      /\ Tidy(cache, Shown(route, None, None))
  BY LoadedFacts DEF ConsoleInit
<1>2. ConsoleTypeOK
  BY <1>1 DEF ConsoleInit, ConsoleTypeOK
<1> QED
  BY <1>1, <1>2 DEF ConsoleInit, ConsoleInv, Here, Picked

\* One query that is shown changes, and nothing else does.
LEMMA OneQueryChanges ==
    ASSUME ConsoleInv, NEW k \in Here, NEW q \in Queries,
           q.data = None /\ q.error = None => q.fetching,
           cache' = [cache EXCEPT ![k] = q],
           Right(cache'),
           UNCHANGED <<route, selection, autoRefresh, server>>
    PROVE  ConsoleInv'
<1>1. Here \subseteq Keys /\ Here' = Here
  BY HereFacts DEF ConsoleInv, Here, selection
<1>2. cache \in [Keys -> Queries] /\ Tidy(cache, Here)
  BY DEF ConsoleInv, ConsoleTypeOK
<1>3. cache' \in [Keys -> Queries] /\ cache'[k] = q /\ \A j \in Keys \ {k} : cache'[j] = cache[j]
  BY <1>1, <1>2
<1>4. Tidy(cache, Here)'
  BY <1>1, <1>2, <1>3 DEF Tidy
<1>5. ConsoleTypeOK'
  BY <1>3 DEF ConsoleInv, ConsoleTypeOK, selection
<1>6. Right(cache)' /\ Picked'
  BY DEF ConsoleInv, Right, Picked, selection
<1> QED
  BY <1>4, <1>5, <1>6 DEF ConsoleInv

LEMMA RefetchStep ==
    ASSUME ConsoleInv, NEW k \in Here, Refetch(k)
    PROVE  ConsoleInv' /\ KeepsShown
<1>1. Here \subseteq Keys /\ cache \in [Keys -> Queries]
  BY HereFacts DEF ConsoleInv, ConsoleTypeOK
<1>2. Fetching(cache[k]) \in Queries /\ Fetching(cache[k]).data = cache[k].data
      /\ Fetching(cache[k]).fetching
  BY <1>1, FetchFacts
<1>3. cache' = [cache EXCEPT ![k] = Fetching(cache[k])]
      /\ UNCHANGED <<route, selection, autoRefresh, server>>
  BY DEF Refetch
<1>4. \A j \in Keys : cache'[j].data = cache[j].data
  BY <1>1, <1>2, <1>3
<1>5. Right(cache')
  BY <1>4, SameDataIsRight DEF ConsoleInv
<1>6. ConsoleInv'
  BY <1>2, <1>3, <1>5, OneQueryChanges
<1> QED
  BY <1>1, <1>4, <1>6 DEF KeepsShown

\* An answer is about what its key names, because it is shown.
LEMMA AnswerFacts ==
    ASSUME ConsoleInv, NEW k \in Here, Reachable
    PROVE  /\ Answer(k) \in Answers /\ Answer(k) # None
           /\ k = TopologyKey => Answer(k).verdict \in {"healthy", "degraded"}
           /\ \A d \in Catalog : k = TablesKey(d) => Answer(k).of = <<d>>
           /\ \A d \in Catalog, t \in Tables : k = DetailKey(d, t) => Answer(k).of = <<d, t>>
<1> DEFINE v == IF k = TopologyKey THEN server ELSE None
<1> DEFINE o == IF table # None /\ k = DetailKey(database, table) THEN <<database, table>>
                ELSE IF database # None /\ k = TablesKey(database) THEN <<database>>
                ELSE << >>
<1>1. Answer(k) = [verdict |-> v, of |-> o]
  BY DEF Answer
<1>2. database # None => database \in Catalog
  BY HereFacts DEF ConsoleInv
<1>3. table # None => database \in Catalog /\ table \in Tables
  BY HereFacts DEF ConsoleInv
<1>4. v \in Servers \cup {None}
  BY DEF ConsoleInv, ConsoleTypeOK
<1>5. o \in {<< >>} \cup {<<d>> : d \in Catalog} \cup (Catalog \X Tables)
  <2>1. CASE table # None /\ k = DetailKey(database, table)
    BY <1>3, <2>1
  <2>2. CASE database # None /\ ~(table # None /\ k = DetailKey(database, table))
    BY <1>2, <2>2
  <2>3. CASE database = None /\ ~(table # None /\ k = DetailKey(database, table))
    BY <2>3
  <2> QED
    BY <2>1, <2>2, <2>3
<1>6. Answer(k) \in Answers /\ Answer(k) # None
  <2>1. Answer(k) \in Answers
    BY <1>1, <1>4, <1>5 DEF Answers
  <2> QED
    BY <2>1, ConsoleAssumption
<1>7. k = TopologyKey => Answer(k).verdict \in {"healthy", "degraded"}
  BY <1>1 DEF Reachable
<1>8. ASSUME NEW d \in Catalog, k = TablesKey(d) PROVE Answer(k).of = <<d>>
  <2>1. d = database /\ database # None
    BY <1>8, HereFacts, ConsoleAssumption DEF ConsoleInv
  <2>2. k # DetailKey(database, table)
    BY <1>8, KeysDiffer
  <2> QED
    BY <1>1, <1>8, <2>1, <2>2
<1>9. ASSUME NEW d \in Catalog, NEW t \in Tables, k = DetailKey(d, t)
      PROVE  Answer(k).of = <<d, t>>
  <2>1. d = database /\ t = table /\ table # None
    BY <1>9, HereFacts, ConsoleAssumption DEF ConsoleInv
  <2> QED
    BY <1>1, <1>9, <2>1
<1> QED
  BY <1>6, <1>7, <1>8, <1>9

LEMMA AnsweredStep ==
    ASSUME ConsoleInv, NEW k \in Keys, Answered(k)
    PROVE  ConsoleInv' /\ KeepsShown
<1>1. k \in Here /\ Here \subseteq Keys /\ cache \in [Keys -> Queries] /\ cache[k] \in Queries
  BY HereFacts DEF ConsoleInv, ConsoleTypeOK, Answered, Tidy
<1>2. UNCHANGED <<route, selection, autoRefresh, server>>
  BY DEF Answered
<1>3. CASE /\ Reachable
           /\ cache' = [cache EXCEPT ![k] = [data |-> Answer(k), error |-> None, fetching |-> FALSE]]
  <2> DEFINE q == [data |-> Answer(k), error |-> None, fetching |-> FALSE]
  <2>1. Answer(k) \in Answers /\ Answer(k) # None
    BY <1>1, <1>3, AnswerFacts
  <2>2. q \in Queries /\ q.data = Answer(k)
    BY <2>1 DEF Queries
  <2>3. cache'[k] = q /\ \A j \in Keys \ {k} : cache'[j] = cache[j]
    BY <1>1, <1>3
  <2>4. Right(cache')
    <3>1. /\ \A d \in Catalog : TablesKey(d) \in Keys
          /\ \A d \in Catalog, t \in Tables : DetailKey(d, t) \in Keys
          /\ TopologyKey \in Keys
      BY DEF Keys, PageKeys
    <3>2. Right(cache)
      BY DEF ConsoleInv
    <3>3. ASSUME NEW d \in Catalog, cache'[TablesKey(d)].data # None
          PROVE  cache'[TablesKey(d)].data.of = <<d>>
      <4>1. CASE k = TablesKey(d)
        BY <1>1, <1>3, <2>2, <2>3, <4>1, AnswerFacts
      <4>2. CASE k # TablesKey(d)
        BY <2>3, <3>1, <3>2, <3>3, <4>2 DEF Right
      <4> QED
        BY <4>1, <4>2
    <3>4. ASSUME NEW d \in Catalog, NEW t \in Tables, cache'[DetailKey(d, t)].data # None
          PROVE  cache'[DetailKey(d, t)].data.of = <<d, t>>
      <4>1. CASE k = DetailKey(d, t)
        BY <1>1, <1>3, <2>2, <2>3, <4>1, AnswerFacts
      <4>2. CASE k # DetailKey(d, t)
        BY <2>3, <3>1, <3>2, <3>4, <4>2 DEF Right
      <4> QED
        BY <4>1, <4>2
    <3>5. cache'[TopologyKey].data # None
             => cache'[TopologyKey].data.verdict \in {"healthy", "degraded"}
      <4>1. CASE k = TopologyKey
        BY <1>1, <1>3, <2>2, <2>3, <4>1, AnswerFacts
      <4>2. CASE k # TopologyKey
        BY <2>3, <3>1, <3>2, <4>2 DEF Right
      <4> QED
        BY <4>1, <4>2
    <3> QED
      BY <3>3, <3>4, <3>5 DEF Right
  <2>5. ConsoleInv'
    BY <1>1, <1>2, <1>3, <2>1, <2>2, <2>4, OneQueryChanges
  <2> QED
    BY <1>1, <2>1, <2>2, <2>3, <2>5 DEF KeepsShown
<1>4. CASE /\ ~Reachable \/ k \notin PageKeys
           /\ cache' = [cache EXCEPT ![k].fetching = FALSE,
                                     ![k].error = IF k \in PageKeys \/ cache[k].data = None
                                                  THEN ApiError(k) ELSE None]
  <2> DEFINE x == IF k \in PageKeys \/ cache[k].data = None THEN ApiError(k) ELSE None
  <2> DEFINE q == [data |-> cache[k].data, error |-> x, fetching |-> FALSE]
  <2>1. ApiError(k) \in {"unavailable", "failed"} /\ ApiError(k) # None
    BY ConsoleAssumption DEF ApiError
  <2>2. q \in Queries /\ (q.data = None => q.error # None)
    BY <1>1, <2>1 DEF Queries
  <2>3. cache' = [cache EXCEPT ![k] = q]
    <3>1. cache[k].fetching \in BOOLEAN
          /\ cache[k] = [data |-> cache[k].data, error |-> cache[k].error, fetching |-> cache[k].fetching]
      BY <1>1 DEF Queries
    <3>2. cache'[k] = [cache[k] EXCEPT !.fetching = FALSE, !.error = x]
      BY <1>1, <1>4
    <3>3. cache'[k] = q
      BY <3>1, <3>2
    <3>4. \A j \in Keys \ {k} : cache'[j] = cache[j]
      BY <1>1, <1>4
    <3>5. DOMAIN cache' = Keys /\ cache' = [j \in Keys |-> cache'[j]]
      BY <1>1, <1>4
    <3> QED
      BY <1>1, <3>3, <3>4, <3>5
  <2>4. \A j \in Keys : cache'[j].data = cache[j].data
    BY <1>1, <2>3
  <2>5. Right(cache')
    BY <2>4, SameDataIsRight DEF ConsoleInv
  <2>6. ConsoleInv'
    BY <1>1, <1>2, <2>2, <2>3, <2>5, OneQueryChanges
  <2> QED
    BY <1>1, <2>4, <2>6 DEF KeepsShown
<1> QED
  BY <1>3, <1>4 DEF Answered

\* What is shown changes with the selection.
LEMMA SelectionStep ==
    ASSUME ConsoleInv, NEW stale,
           cache' = Reshow(Here, Here', stale),
           UNCHANGED <<autoRefresh, server>>,
           route' \in Routes, database' \in Catalog \cup {None}, table' \in Tables \cup {None},
           database' = None => table' = None,
           route' # "storage" => database' = None,
           Picked'
    PROVE  ConsoleInv' /\ KeepsShown
<1>1. Here' \subseteq Keys
  BY ShownKeys DEF Here
<1>2. /\ cache' \in [Keys -> Queries] /\ Right(cache') /\ Tidy(cache', Here')
      /\ \A k \in Keys : cache'[k].data = cache[k].data
  BY <1>1, ReshowFacts DEF ConsoleInv
<1>3. ConsoleTypeOK'
  BY <1>2 DEF ConsoleInv, ConsoleTypeOK
<1>4. Here \subseteq Keys
  BY HereFacts DEF ConsoleInv
<1>5. Right(cache)' /\ Tidy(cache, Here)'
  BY <1>2 DEF Right, Tidy
<1> QED
  BY <1>2, <1>3, <1>4, <1>5 DEF ConsoleInv, KeepsShown

LEMMA ConsoleStep ==
    ConsoleInv /\ [ConsoleNext]_consoleVars
       => ConsoleInv' /\ (LoadPage \/ KeepsShown)
<1> SUFFICES ASSUME ConsoleInv, [ConsoleNext]_consoleVars
             PROVE  ConsoleInv' /\ (LoadPage \/ KeepsShown)
  OBVIOUS
<1>0. ConsoleTypeOK /\ Here \subseteq Keys
  BY HereFacts DEF ConsoleInv
<1>1. CASE Navigate
  <2>1. PICK r \in Routes \ {route}, stale \in {{}, PageKeys} :
             cache' = Reshow(Here, Shown(r, None, None), stale) /\ route' = r
    BY <1>1 DEF Navigate
  <2>2. database' = None /\ table' = None /\ UNCHANGED <<autoRefresh, server>>
    BY <1>1 DEF Navigate
  <2> QED
    BY <2>1, <2>2, SelectionStep DEF Here, Picked
<1>2. CASE LoadPage
  <2>1. /\ cache' \in [Keys -> Queries] /\ Right(cache')
        /\ Tidy(cache', Shown(route, None, None))
    BY <1>0, <1>2, LoadedFacts DEF LoadPage, ConsoleTypeOK
  <2>2. ConsoleTypeOK'
    BY <1>0, <1>2, <2>1 DEF LoadPage, ConsoleTypeOK
  <2>3. Right(cache)' /\ Tidy(cache, Here)' /\ Picked'
    BY <1>2, <2>1 DEF LoadPage, Here, Right, Tidy, Picked
  <2> QED
    BY <1>2, <2>2, <2>3 DEF ConsoleInv
<1>3. CASE ToggleRefresh
  BY <1>0, <1>3
     DEF ToggleRefresh, ConsoleInv, ConsoleTypeOK, Here, Right, Tidy, Picked, selection, KeepsShown
<1>4. CASE SetDatabase
  <2>1. PICK d \in Catalog \ {database}, stale \in {{}, Keys} :
             database' = d /\ cache' = Reshow(Here, Shown(route, d, None), stale)
    BY <1>4 DEF SetDatabase
  <2>2. route = "storage" /\ table' = None /\ UNCHANGED <<route, picked, autoRefresh, server>>
    BY <1>4 DEF SetDatabase, Browsing
  <2> QED
    BY <1>0, <2>1, <2>2, SelectionStep DEF Here, Picked, ConsoleTypeOK
<1>5. CASE SetTable
  <2>1. PICK t \in Tables, stale \in {{}, Keys} :
             /\ table' = t /\ picked' = <<database, t>>
             /\ cache' = Reshow(Here, Shown(route, database, t), stale)
    BY <1>5 DEF SetTable
  <2>2. /\ route = "storage" /\ UNCHANGED <<route, database, autoRefresh, server>>
        /\ database # None
    <3>1. "prompt" # "list"
      OBVIOUS
    <3> QED
      BY <1>5, <3>1 DEF SetTable, Browsing, Browser
  <2> QED
    BY <1>0, <2>1, <2>2, SelectionStep DEF Here, Picked, ConsoleTypeOK
<1>6. CASE RefreshButton \/ RetryButton \/ WindowFocus \/ \E k \in PageKeys : Poll(k)
  <2>1. \E k \in Here : Refetch(k)
    <3>1. TopologyKey \in Here /\ PageKey(route) \in Here
      BY <1>0, HereFacts
    <3> QED
      BY <1>6, <3>1 DEF RefreshButton, RetryButton, WindowFocus, Poll
  <2> QED
    BY <2>1, RefetchStep
<1>7. CASE \E k \in Keys : Answered(k)
  BY <1>7, AnsweredStep
<1>8. CASE CollectGarbage
  <2>1. PICK k \in Keys \ Here : cache' = [cache EXCEPT ![k] = NoQuery]
    BY <1>8 DEF CollectGarbage
  <2>2. UNCHANGED <<route, selection, autoRefresh, server>>
    BY <1>8 DEF CollectGarbage
  <2>3. NoQuery \in Queries /\ NoQuery.data = None /\ ~NoQuery.fetching
    BY ConsoleAssumption DEF NoQuery, Queries
  <2>4. cache' \in [Keys -> Queries] /\ cache'[k] = NoQuery
        /\ \A j \in Keys \ {k} : cache'[j] = cache[j]
    BY <1>0, <2>1, <2>3 DEF ConsoleTypeOK
  <2>5. \A j \in Keys : cache'[j].data \in {cache[j].data, None}
    BY <2>3, <2>4
  <2>6. Right(cache')
    BY <2>5, SameDataIsRight DEF ConsoleInv
  <2>7. Here' = Here
    BY <2>2 DEF Here, selection
  <2>8. Tidy(cache, Here)'
    BY <2>1, <2>3, <2>4, <2>7 DEF ConsoleInv, Tidy
  <2>9. ConsoleTypeOK' /\ Right(cache)' /\ Picked'
    BY <1>0, <2>2, <2>4, <2>6 DEF ConsoleTypeOK, ConsoleInv, Right, Picked, selection
  <2> QED
    BY <1>0, <2>1, <2>4, <2>8, <2>9 DEF ConsoleInv, KeepsShown
<1>9. CASE ServerChanges
  BY <1>0, <1>9
     DEF ServerChanges, ConsoleInv, ConsoleTypeOK, Here, Right, Tidy, Picked, selection, KeepsShown
<1>10. CASE UNCHANGED consoleVars
  BY <1>0, <1>10
     DEF consoleVars, ConsoleInv, ConsoleTypeOK, Here, Right, Tidy, Picked, selection, KeepsShown
<1> QED
  BY <1>1, <1>2, <1>3, <1>4, <1>5, <1>6, <1>7, <1>8, <1>9, <1>10 DEF ConsoleNext, Staying

-----------------------------------------------------------------------------
(* What the invariant means *)

\* A page shows data exactly when its query has some, and so does the panel.
LEMMA DataIsShown ==
    /\ OnPage = "data" <=> route \in Monitoring /\ cache[PageKey(route)].data # None
    /\ Panel = "detail" <=> table # None /\ cache[DetailKey(database, table)].data # None
<1>1. "other" # "data" /\ "skeleton" # "data" /\ "error" # "data" /\ "none" # "detail"
      /\ "skeleton" # "detail"
  OBVIOUS
<1> QED
  BY <1>1 DEF OnPage, PageShows, Panel

LEMMA InvShownIsTheSelection == ConsoleInv => ShownIsTheSelection
<1> SUFFICES ASSUME ConsoleInv PROVE ShownIsTheSelection
  OBVIOUS
<1>1. ConsoleTypeOK /\ Right(cache) /\ Picked
  BY DEF ConsoleInv
<1>2. Panel # "none" => table # None
  BY DEF Panel
<1>3. Browser = "list" => database # None /\ cache[TablesKey(database)].data # None
  <2>1. "prompt" # "list" /\ "skeleton" # "list" /\ "empty" # "list"
    OBVIOUS
  <2> QED
    BY <2>1 DEF Browser
<1>4. /\ database # None => database \in Catalog
      /\ table # None => table \in Tables /\ database \in Catalog
  BY <1>1, HereFacts
<1> QED
  BY <1>1, <1>2, <1>3, <1>4, DataIsShown DEF ShownIsTheSelection, Right, Picked

LEMMA InvSkeletonMeansLoading == ConsoleInv => SkeletonMeansLoading
<1> SUFFICES ASSUME ConsoleInv PROVE SkeletonMeansLoading
  OBVIOUS
<1>1. \A k \in Here : cache[k].data = None /\ cache[k].error = None => cache[k].fetching
  BY HereFacts DEF ConsoleInv, Tidy
<1>2. OnPage = "skeleton" => cache[PageKey(route)].data = None /\ cache[PageKey(route)].error = None
  <2>1. "other" # "skeleton" /\ "data" # "skeleton" /\ "error" # "skeleton"
    OBVIOUS
  <2> QED
    BY <2>1 DEF OnPage, PageShows
<1>3. Browser = "skeleton" => LET q == cache[TablesKey(database)]
                              IN database # None /\ q.data = None /\ q.error = None
  <2>1. "prompt" # "skeleton" /\ "list" # "skeleton" /\ "empty" # "skeleton"
    OBVIOUS
  <2> QED
    BY <2>1 DEF Browser
<1>4. Panel = "skeleton" => LET q == cache[DetailKey(database, table)]
                            IN table # None /\ q.data = None /\ q.error = None
  <2>1. "none" # "skeleton" /\ "detail" # "skeleton"
    OBVIOUS
  <2> QED
    BY <2>1 DEF Panel
<1> QED
  BY <1>1, <1>2, <1>3, <1>4, HereFacts DEF SkeletonMeansLoading, ConsoleInv

LEMMA InvHeaderAgreesWithPage == ConsoleInv => HeaderAgreesWithPage
<1> SUFFICES ASSUME ConsoleInv, route = "topology" PROVE HeaderAgreesWithPage
  BY DEF HeaderAgreesWithPage
<1> DEFINE q == cache[TopologyKey]
<1>1. OnPage = PageShows(q)
  BY DEF OnPage, Monitoring, PageKey
<1>2. q.data # None => q.data.verdict \in {"healthy", "degraded"}
  BY DEF ConsoleInv, Right
<1>3. q.error \in {None, "unavailable", "failed"}
  BY HereFacts DEF ConsoleInv, ConsoleTypeOK, Queries
<1>4. "unavailable" # None
  BY ConsoleAssumption
<1>5. CASE q.data = None /\ q.error = None
  BY <1>1, <1>4, <1>5 DEF HeaderAgreesWithPage, Pill, PageShows, StaleNotice
<1>6. CASE q.data = None /\ q.error # None
  BY <1>1, <1>3, <1>6 DEF HeaderAgreesWithPage, Pill, PageShows, StaleNotice
<1>7. CASE q.data # None
  BY <1>1, <1>2, <1>3, <1>4, <1>7 DEF HeaderAgreesWithPage, Pill, PageShows, StaleNotice
<1> QED
  BY <1>5, <1>6, <1>7

\* What shows data goes on showing data while the page is not loaded again.
LEMMA StepNoFlashBack ==
    ConsoleInv /\ ConsoleInv' /\ KeepsShown =>
       /\ (route' = route /\ OnPage = "data") => OnPage' = "data"
       /\ (table' = table /\ database' = database /\ Panel = "detail") => Panel' = "detail"
<1> SUFFICES ASSUME ConsoleInv, ConsoleInv', KeepsShown
             PROVE  /\ (route' = route /\ OnPage = "data") => OnPage' = "data"
                    /\ (table' = table /\ database' = database /\ Panel = "detail")
                          => Panel' = "detail"
  OBVIOUS
<1>1. PageKey(route) \in Here /\ (table # None => DetailKey(database, table) \in Here)
  BY HereFacts DEF ConsoleInv
<1>2. ASSUME route' = route, OnPage = "data" PROVE OnPage' = "data"
  <2>1. route \in Monitoring /\ cache[PageKey(route)].data # None
    BY <1>2, DataIsShown
  <2>2. cache'[PageKey(route)].data # None
    BY <1>1, <2>1 DEF KeepsShown
  <2>3. PageKey(route') = PageKey(route)
    BY <1>2
  <2>4. (route \in Monitoring)' /\ (cache[PageKey(route)].data # None)'
    BY <1>2, <2>1, <2>2, <2>3 DEF PageKey, TopologyKey, LoadsKey, StatisticKey, Monitoring
  <2> QED
    BY <2>4 DEF OnPage, PageShows
<1>3. ASSUME table' = table, database' = database, Panel = "detail" PROVE Panel' = "detail"
  <2>1. table # None /\ cache[DetailKey(database, table)].data # None
    BY <1>3, DataIsShown
  <2>2. (table # None)' /\ (cache[DetailKey(database, table)].data # None)'
    BY <1>1, <1>3, <2>1 DEF KeepsShown, DetailKey
  <2> QED
    BY <2>2 DEF Panel
<1> QED
  BY <1>2, <1>3

-----------------------------------------------------------------------------
(* The theorem *)

\* The shell keeps its invariant: every variable has its type, an answer kept in the
\* cache is about what its key names, only what is shown is fetched, and what is
\* shown and unknown is being fetched (Console: DashboardLayout.tsx, App.tsx,
\* useTopology.ts, useRoutineLoads.ts, useStorage.ts).
THEOREM ConsoleInvariant == ConsoleSpec => []ConsoleInv
<1>1. ConsoleInit => ConsoleInv
  BY ConsoleStart
<1>2. ConsoleInv /\ [ConsoleNext]_consoleVars => ConsoleInv'
  BY ConsoleStep
<1> QED
  BY <1>1, <1>2, PTL DEF ConsoleSpec


-----------------------------------------------------------------------------
(* The worksheet, in any number of tabs *)

Execution == [tab : Tabs, client : {"waiting", "ok", "error", "timeout", "gone"},
              server : {"sent", "executing", "ok", "error", "stopped"}, age : Nat]

\* What the results area makes of a client's state.
Fate(client) == IF client = "waiting" THEN "running" ELSE client

\* The worksheet of t, which follows execution r or none, shows what it should.
Follows(t, r, what) ==
    IF r = 0 THEN what = "prompt"
    ELSE r \in Runs /\ run[r].tab = t /\ what = Fate(run[r].client)

WorksheetInv == /\ run \in Seq(Execution)
                /\ observed \in [Tabs -> Nat]
                /\ DOMAIN shown = Tabs /\ shown = [t \in Tabs |-> shown[t]]
                /\ pressed = observed
                /\ \A t \in Tabs : Follows(t, observed[t], shown[t])

LEMMA WorksheetStart == Init => WorksheetInv
<1>1. << >> \in Seq(Execution)
  OBVIOUS
<1> QED
  BY <1>1 DEF Init, WorksheetInv, Follows

\* Executions move on without their clients noticing.
LEMMA ClientsUnmoved ==
    ASSUME WorksheetInv,
           run' \in Seq(Execution), Len(run') = Len(run),
           \A r \in Runs : run'[r].tab = run[r].tab /\ run'[r].client = run[r].client,
           UNCHANGED <<observed, shown, pressed>>
    PROVE  WorksheetInv'
  BY DEF WorksheetInv, Follows, Runs

\* A worksheet that is mounted, left or loaded again follows nothing, and the
\* executions of the others keep their clients.
LEMMA FreshStep ==
    ASSUME WorksheetInv, NEW t \in Tabs, Fresh(t),
           run' \in Seq(Execution), Len(run') = Len(run),
           \A r \in Runs : /\ run'[r].tab = run[r].tab
                           /\ run[r].tab # t => run'[r].client = run[r].client
    PROVE  WorksheetInv'
<1>1. /\ observed' = [observed EXCEPT ![t] = 0]
      /\ shown' = [shown EXCEPT ![t] = "prompt"]
      /\ pressed' = [pressed EXCEPT ![t] = 0]
  BY DEF Fresh
<1>2. /\ observed' \in [Tabs -> Nat] /\ pressed' = observed'
      /\ DOMAIN shown' = Tabs /\ shown' = [s \in Tabs |-> shown'[s]]
  BY <1>1 DEF WorksheetInv
<1>3. ASSUME NEW s \in Tabs PROVE Follows(s, observed[s], shown[s])'
  <2>1. CASE s = t
    BY <1>1, <2>1 DEF WorksheetInv, Follows
  <2>2. CASE s # t
    <3>1. observed'[s] = observed[s] /\ shown'[s] = shown[s]
      BY <1>1, <2>2 DEF WorksheetInv
    <3>2. Follows(s, observed[s], shown[s])
      BY DEF WorksheetInv
    <3> QED
      BY <2>2, <3>1, <3>2 DEF Follows, Runs
  <2> QED
    BY <2>1, <2>2
<1> QED
  BY <1>2, <1>3 DEF WorksheetInv

\* One execution changes.
LEMMA OneExecution ==
    ASSUME run \in Seq(Execution), NEW r \in Runs, NEW e \in Execution,
           run' = [run EXCEPT ![r] = e]
    PROVE  /\ run' \in Seq(Execution) /\ Len(run') = Len(run)
           /\ run'[r] = e /\ \A q \in Runs \ {r} : run'[q] = run[q]
  BY DEF Runs

LEMMA SettleStep ==
    ASSUME WorksheetInv, NEW r \in Runs,
           NEW outcome \in {"ok", "error", "timeout"}, Settle(r, outcome)
    PROVE  WorksheetInv'
<1> DEFINE e == [tab |-> run[r].tab, client |-> outcome, server |-> run[r].server,
                 age |-> run[r].age]
<1>1. run \in Seq(Execution) /\ run[r] \in Execution
  BY DEF WorksheetInv, Runs
<1>2. e \in Execution /\ [run[r] EXCEPT !.client = outcome] = e
  BY <1>1 DEF Execution
<1>3. run' = [run EXCEPT ![r] = e]
  BY <1>1, <1>2 DEF Settle
<1>4. /\ run' \in Seq(Execution) /\ Len(run') = Len(run)
      /\ run'[r] = e /\ \A q \in Runs \ {r} : run'[q] = run[q]
  BY <1>1, <1>2, <1>3, OneExecution
<1>5. run[r].tab \in Tabs
  BY <1>1 DEF Execution
<1>6. UNCHANGED <<observed, pressed>>
  BY DEF Settle
<1>7. shown' = IF observed[run[r].tab] = r THEN [shown EXCEPT ![run[r].tab] = outcome] ELSE shown
  BY DEF Settle
<1>8. DOMAIN shown' = Tabs /\ shown' = [s \in Tabs |-> shown'[s]]
  BY <1>7 DEF WorksheetInv
<1>9. ASSUME NEW s \in Tabs PROVE Follows(s, observed[s], shown[s])'
  <2>1. Follows(s, observed[s], shown[s]) /\ observed'[s] = observed[s]
    BY <1>6 DEF WorksheetInv
  <2>2. CASE observed[s] = r
    <3>1. r # 0 /\ run[r].tab = s
      BY <2>1, <2>2 DEF Follows, Runs
    <3>2. shown'[s] = outcome
      BY <1>7, <2>2, <3>1 DEF WorksheetInv
    <3>3. r \in 1 .. Len(run') /\ run'[r].tab = s /\ run'[r].client = outcome
      BY <1>4, <3>1 DEF Runs
    <3> QED
      BY <2>1, <2>2, <3>1, <3>2, <3>3 DEF Follows, Runs, Fate
  <2>3. CASE observed[s] # r
    <3>1. shown'[s] = shown[s]
      BY <1>5, <1>7, <2>3 DEF WorksheetInv
    <3> QED
      BY <1>4, <2>1, <2>3, <3>1 DEF Follows, Runs
  <2> QED
    BY <2>2, <2>3
<1> QED
  BY <1>4, <1>6, <1>8, <1>9 DEF WorksheetInv

LEMMA PressStep ==
    ASSUME WorksheetInv, NEW t \in Tabs, Press(t)
    PROVE  WorksheetInv'
<1> DEFINE e == [tab |-> t, client |-> "waiting", server |-> "sent", age |-> 0]
<1> DEFINE n == Len(run) + 1
<1>1. /\ run' = Append(run, e) /\ observed' = [observed EXCEPT ![t] = n]
      /\ pressed' = [pressed EXCEPT ![t] = n] /\ shown' = [shown EXCEPT ![t] = "running"]
  BY DEF Press
<1>2. e \in Execution /\ run \in Seq(Execution)
  BY DEF Execution, WorksheetInv
<1>3. /\ run' \in Seq(Execution) /\ Len(run') = n /\ run'[n] = e
      /\ \A q \in Runs : run'[q] = run[q]
  BY <1>1, <1>2 DEF Runs
<1>4. n \in Nat /\ n # 0 /\ Runs \subseteq 1 .. n
  BY <1>2 DEF Runs
<1>5. /\ observed' \in [Tabs -> Nat] /\ pressed' = observed'
      /\ DOMAIN shown' = Tabs /\ shown' = [s \in Tabs |-> shown'[s]]
  BY <1>1, <1>4 DEF WorksheetInv
<1>6. ASSUME NEW s \in Tabs PROVE Follows(s, observed[s], shown[s])'
  <2>1. Follows(s, observed[s], shown[s])
    BY DEF WorksheetInv
  <2>2. CASE s = t
    <3>1. observed'[s] = n /\ shown'[s] = "running"
      BY <1>1, <2>2 DEF WorksheetInv
    <3>2. n \in 1 .. Len(run') /\ run'[n].tab = s /\ run'[n].client = "waiting"
      BY <1>3, <1>4, <2>2
    <3> QED
      BY <1>4, <3>1, <3>2 DEF Follows, Runs, Fate
  <2>3. CASE s # t
    <3>1. observed'[s] = observed[s] /\ shown'[s] = shown[s]
      BY <1>1, <2>3 DEF WorksheetInv
    <3> QED
      BY <1>3, <1>4, <2>1, <3>1 DEF Follows, Runs
  <2> QED
    BY <2>2, <2>3
<1> QED
  BY <1>3, <1>5, <1>6 DEF WorksheetInv

LEMMA ReloadStep ==
    ASSUME WorksheetInv, NEW t \in Tabs, Reload(t)
    PROVE  WorksheetInv'
<1> DEFINE e(r) == IF run[r].tab = t /\ run[r].client = "waiting"
                   THEN [run[r] EXCEPT !.client = "gone"] ELSE run[r]
<1>1. run' = [r \in Runs |-> e(r)] /\ Fresh(t)
  BY DEF Reload
<1>2. run \in Seq(Execution) /\ \A r \in Runs : run[r] \in Execution
  BY DEF WorksheetInv, Runs
<1>3. ASSUME NEW r \in Runs
      PROVE  e(r) \in Execution /\ e(r).tab = run[r].tab
             /\ (run[r].tab # t => e(r).client = run[r].client)
  BY <1>2 DEF Execution
<1>4. run' \in Seq(Execution) /\ Len(run') = Len(run)
  BY <1>1, <1>2, <1>3 DEF Runs
<1> QED
  BY <1>1, <1>3, <1>4, FreshStep

\* The server's part and the passing of time.
LEMMA ServerStep ==
    ASSUME WorksheetInv, NEW r \in Runs,
           Arrive(r) \/ Finish(r) \/ Abort(r) \/ Wait(r)
    PROVE  WorksheetInv'
<1>1. run \in Seq(Execution) /\ run[r] \in Execution
  BY DEF WorksheetInv, Runs
<1>2. UNCHANGED <<observed, shown, pressed>>
  BY DEF Arrive, Finish, Abort, Wait, OnServer, page
<1>3. PICK e \in Execution : /\ run' = [run EXCEPT ![r] = e]
                             /\ e.tab = run[r].tab /\ e.client = run[r].client
  <2>1. CASE Wait(r)
    <3> DEFINE x == [run[r] EXCEPT !.age = run[r].age + 1]
    <3>0. run[r].age + 1 \in Nat
      <4>1. run[r].age \in Nat
        BY <1>1 DEF Execution
      <4> QED
        BY <4>1
    <3>1. x \in Execution /\ x.tab = run[r].tab /\ x.client = run[r].client
      BY <1>1, <3>0 DEF Execution
    <3>2. run' = [run EXCEPT ![r] = x]
      BY <1>1, <2>1 DEF Wait
    <3> QED
      BY <3>1, <3>2
  <2>2. CASE Arrive(r) \/ Finish(r) \/ Abort(r)
    <3>1. PICK fate \in {"executing", "ok", "error", "stopped"} : OnServer(r, fate)
      BY <2>2 DEF Arrive, Finish, Abort
    <3> DEFINE x == [run[r] EXCEPT !.server = fate]
    <3>2. x \in Execution /\ x.tab = run[r].tab /\ x.client = run[r].client
      BY <1>1 DEF Execution
    <3>3. run' = [run EXCEPT ![r] = x]
      BY <1>1, <3>1 DEF OnServer
    <3> QED
      BY <3>2, <3>3
  <2> QED
    BY <2>1, <2>2
<1>4. /\ run' \in Seq(Execution) /\ Len(run') = Len(run)
      /\ run'[r] = e /\ \A q \in Runs \ {r} : run'[q] = run[q]
  BY <1>1, <1>3, OneExecution
<1>5. \A q \in Runs : run'[q].tab = run[q].tab /\ run'[q].client = run[q].client
  BY <1>3, <1>4
<1> QED
  BY <1>2, <1>4, <1>5, ClientsUnmoved

LEMMA WorksheetStep == WorksheetInv /\ [Next]_vars => WorksheetInv'
<1> SUFFICES ASSUME WorksheetInv, [Next]_vars PROVE WorksheetInv'
  OBVIOUS
<1>1. run \in Seq(Execution)
  BY DEF WorksheetInv
<1>2. ASSUME NEW t \in Tabs, TypeSql(t) \/ PickDatabase(t) \/ ToggleAutoRefresh(t) \/ Render(t)
      PROVE  WorksheetInv'
  <2>1. UNCHANGED <<run, observed, shown, pressed>>
    BY <1>2 DEF TypeSql, PickDatabase, ToggleAutoRefresh, Render, page
  <2> QED
    BY <1>1, <2>1, ClientsUnmoved
<1>3. ASSUME NEW t \in Tabs, Enter(t) \/ Leave(t) PROVE WorksheetInv'
  <2>1. Fresh(t) /\ run' = run
    BY <1>3 DEF Enter, Leave
  <2> QED
    BY <1>1, <2>1, FreshStep
<1>4. ASSUME NEW t \in Tabs, Reload(t) PROVE WorksheetInv'
  BY <1>4, ReloadStep
<1>5. ASSUME NEW t \in Tabs, Press(t) PROVE WorksheetInv'
  BY <1>5, PressStep
<1>6. ASSUME NEW r \in Runs, Reply(r) \/ ConnectionFails(r) \/ ClientTimesOut(r)
      PROVE  WorksheetInv'
  <2>1. PICK outcome \in {"ok", "error", "timeout"} : Settle(r, outcome)
    BY <1>6 DEF Reply, ConnectionFails, ClientTimesOut
  <2> QED
    BY <2>1, SettleStep
<1>7. ASSUME NEW r \in Runs, Arrive(r) \/ Finish(r) \/ Abort(r) \/ Wait(r) PROVE WorksheetInv'
  BY <1>7, ServerStep
<1>8. CASE UNCHANGED vars
  BY <1>1, <1>8, ClientsUnmoved DEF vars
<1> QED
  BY <1>2, <1>3, <1>4, <1>5, <1>6, <1>7, <1>8 DEF Next

LEMMA InvShownIsTheLastRun == WorksheetInv => ShownIsTheLastRun
  BY DEF WorksheetInv, ShownIsTheLastRun, Follows, Fate

\* Whatever settles late, in however many tabs and however often the worksheet is
\* left, entered and loaded again, its results are those of the last execution
\* started in it (SqlWorksheet.tsx:45-57, 150-175).
THEOREM TabsShowTheLastRun == Spec => []ShownIsTheLastRun
<1>1. Init => WorksheetInv
  BY WorksheetStart
<1>2. WorksheetInv /\ [Next]_vars => WorksheetInv'
  BY WorksheetStep
<1>3. WorksheetInv => ShownIsTheLastRun
  BY InvShownIsTheLastRun
<1> QED
  BY <1>1, <1>2, <1>3, PTL DEF Spec

-----------------------------------------------------------------------------
(* The steps of a tab *)

tabVars == <<vars, consoleVars>>

LEMMA TabStepsAreSteps ==
    [TabNext]_tabVars => [Next]_vars /\ [ConsoleNext]_consoleVars
<1> SUFFICES ASSUME [TabNext]_tabVars PROVE [Next]_vars /\ [ConsoleNext]_consoleVars
  OBVIOUS
<1>1. Tab \in Tabs
  BY TabAssumption
<1>2. CASE FollowLink
  <2>1. [Next]_vars
    <3>1. Enter(Tab) \/ Leave(Tab) \/ UNCHANGED vars
      <4>1. CASE route' = "worksheet"
        <5>1. route # "worksheet"
          BY <1>2, <4>1 DEF FollowLink, Navigate
        <5> QED
          BY <1>2, <4>1, <5>1 DEF FollowLink
      <4>2. CASE route' # "worksheet"
        BY <1>2, <4>2 DEF FollowLink
      <4> QED
        BY <4>1, <4>2
    <3> QED
      BY <1>1, <3>1 DEF Next
  <2>2. ConsoleNext
    BY <1>2 DEF FollowLink, ConsoleNext
  <2> QED
    BY <2>1, <2>2
<1>3. CASE SwitchRefresh
  BY <1>1, <1>3 DEF SwitchRefresh, ConsoleNext, Next
<1>4. CASE ReloadTab
  BY <1>1, <1>4 DEF ReloadTab, ConsoleNext, Next
<1>5. CASE Staying /\ UNCHANGED vars
  BY <1>5 DEF ConsoleNext
<1>6. CASE Working /\ UNCHANGED consoleVars
  BY <1>1, <1>6 DEF Working, Next
<1>7. CASE UNCHANGED tabVars
  BY <1>7 DEF tabVars
<1> QED
  BY <1>2, <1>3, <1>4, <1>5, <1>6, <1>7 DEF TabNext

-----------------------------------------------------------------------------
(* The store *)

\* The tab and the storage agree, and hold the text last typed.
StoreInv == /\ memory \in [Tabs -> State]
            /\ storage = memory[Tab]
            /\ typed[Tab] # NotTyped => memory[Tab].sql = typed[Tab]
            /\ DOMAIN typed = Tabs /\ typed = [t \in Tabs |-> typed[t]]

LEMMA StoreStart == Init => StoreInv
<1> SUFFICES ASSUME Init PROVE StoreInv
  OBVIOUS
<1>1. storage \in State
  BY WorksheetAssumption DEF Init, State
<1> QED
  BY <1>1, TabAssumption DEF Init, StoreInv

LEMMA StoreStep == StoreInv /\ [Next]_vars => StoreInv'
<1> SUFFICES ASSUME StoreInv, [Next]_vars PROVE StoreInv'
  OBVIOUS
<1>1. Tabs = {Tab} /\ memory[Tab] \in State
  BY TabAssumption DEF StoreInv
<1>2. CASE TypeSql(Tab)
  <2>1. PICK s \in Statements \cup {Blank} :
             Set(Tab, [memory[Tab] EXCEPT !.sql = s]) /\ typed' = [typed EXCEPT ![Tab] = s]
    BY <1>2 DEF TypeSql
  <2>2. [memory[Tab] EXCEPT !.sql = s] \in State /\ [memory[Tab] EXCEPT !.sql = s].sql = s
    BY <1>1 DEF State
  <2> QED
    BY <1>1, <2>1, <2>2 DEF Set, StoreInv
<1>3. CASE PickDatabase(Tab) \/ ToggleAutoRefresh(Tab)
  <2>1. PICK s \in State : Set(Tab, s) /\ s.sql = memory[Tab].sql
    <3>1. CASE PickDatabase(Tab)
      <4>1. PICK d \in Databases \cup {NoDb} : Set(Tab, [memory[Tab] EXCEPT !.database = d])
        BY <3>1 DEF PickDatabase
      <4>2. /\ [memory[Tab] EXCEPT !.database = d] \in State
            /\ [memory[Tab] EXCEPT !.database = d].sql = memory[Tab].sql
        BY <1>1 DEF State
      <4> QED
        BY <4>1, <4>2
    <3>2. CASE ToggleAutoRefresh(Tab)
      <4>1. Set(Tab, [memory[Tab] EXCEPT !.autoRefresh = ~@])
        BY <3>2 DEF ToggleAutoRefresh
      <4>2. /\ [memory[Tab] EXCEPT !.autoRefresh = ~@] \in State
            /\ [memory[Tab] EXCEPT !.autoRefresh = ~@].sql = memory[Tab].sql
        BY <1>1 DEF State
      <4> QED
        BY <4>1, <4>2
    <3> QED
      BY <1>3, <3>1, <3>2
  <2>2. typed' = typed
    BY <1>3 DEF PickDatabase, ToggleAutoRefresh
  <2> QED
    BY <1>1, <2>1, <2>2 DEF Set, StoreInv
<1>4. CASE Reload(Tab)
  BY <1>1, <1>4 DEF Reload, StoreInv
<1>5. ASSUME UNCHANGED <<storage, memory, typed>> PROVE StoreInv'
  BY <1>5 DEF StoreInv
<1>6. CASE Enter(Tab) \/ Leave(Tab) \/ Press(Tab) \/ Render(Tab)
  BY <1>5, <1>6 DEF Enter, Leave, Press, Render
<1>7. ASSUME NEW r \in Runs,
             \/ Reply(r) \/ ConnectionFails(r) \/ ClientTimesOut(r)
             \/ Arrive(r) \/ Finish(r) \/ Abort(r) \/ Wait(r)
      PROVE  StoreInv'
  BY <1>5, <1>7
     DEF Reply, ConnectionFails, ClientTimesOut, Settle, Arrive, Finish, Abort, OnServer, Wait
<1>8. CASE UNCHANGED vars
  BY <1>5, <1>8 DEF vars
<1> QED
  BY <1>1, <1>2, <1>3, <1>4, <1>6, <1>7, <1>8 DEF Next

\* What a reload brings back is what the storage holds.
LEMMA ReloadBringsItBack ==
    StoreInv => \A t \in Tabs : (Reload(t) /\ typed[t] # NotTyped) => memory'[t].sql = typed[t]
  BY TabAssumption DEF StoreInv, Reload

-----------------------------------------------------------------------------
(* The theorems *)

TabInv == ConsoleInv /\ WorksheetInv /\ StoreInv

LEMMA TabKeepsItsInvariant ==
    /\ TabInit => TabInv
    /\ TabInv /\ [TabNext]_tabVars => TabInv' /\ [LoadPage \/ KeepsShown]_consoleVars
<1>1. TabInit => TabInv
  BY ConsoleStart, WorksheetStart, StoreStart DEF TabInit, TabInv
<1>2. TabInv /\ [TabNext]_tabVars => TabInv' /\ [LoadPage \/ KeepsShown]_consoleVars
  BY TabStepsAreSteps, ConsoleStep, WorksheetStep, StoreStep DEF TabInv
<1> QED
  BY <1>1, <1>2

\* What the storage page draws is what was selected: the panel is about the row that
\* was clicked and the list about the database chosen, although answers arrive
\* late, are cached and shown again (StorageView.tsx:40-116), for any databases and
\* tables.
THEOREM SelectionIsShown == TabSpec => []ShownIsTheSelection
<1>1. TabInv => ShownIsTheSelection
  BY InvShownIsTheSelection DEF TabInv
<1> QED
  BY <1>1, TabKeepsItsInvariant, PTL DEF TabSpec, tabVars

\* No skeleton without a request under way (StorageView.tsx:48, 99 and 115).
THEOREM SkeletonsEnd == TabSpec => []SkeletonMeansLoading
<1>1. TabInv => SkeletonMeansLoading
  BY InvSkeletonMeansLoading DEF TabInv
<1> QED
  BY <1>1, TabKeepsItsInvariant, PTL DEF TabSpec, tabVars

\* The header and the topology page never disagree (useTopology.ts:18).
THEOREM HeaderAgrees == TabSpec => []HeaderAgreesWithPage
<1>1. TabInv => HeaderAgreesWithPage
  BY InvHeaderAgreesWithPage DEF TabInv
<1> QED
  BY <1>1, TabKeepsItsInvariant, PTL DEF TabSpec, tabVars

\* The worksheet of the tab shows its last execution (SqlWorksheet.tsx:45-57).
THEOREM TabShowsTheLastRun == TabSpec => []ShownIsTheLastRun
<1>1. TabInv => ShownIsTheLastRun
  BY InvShownIsTheLastRun DEF TabInv
<1> QED
  BY <1>1, TabKeepsItsInvariant, PTL DEF TabSpec, tabVars

\* What shows data goes on showing data as long as the user stays and does not load
\* the page again, whatever fails meanwhile (useTopology.ts:28, TopologyView.tsx:23).
THEOREM NothingFlashesBack == TabSpec => NoFlashBack
<1>1. TabInv /\ [TabNext]_tabVars =>
        [\/ LoadPage
         \/ /\ (route' = route /\ OnPage = "data") => OnPage' = "data"
            /\ (table' = table /\ database' = database /\ Panel = "detail")
                  => Panel' = "detail"]_consoleVars
  BY TabKeepsItsInvariant, StepNoFlashBack DEF TabInv
<1> QED
  BY <1>1, TabKeepsItsInvariant, PTL DEF TabSpec, tabVars, NoFlashBack

\* After a reload the editor has what was last typed in it (useAppStore.ts:14), for a
\* single tab.
THEOREM TheQueryIsKept == TabSpec => ReloadKeepsTheQuery
<1>1. TabInv /\ [TabNext]_tabVars =>
        [\A t \in Tabs : (Reload(t) /\ typed[t] # NotTyped) => memory'[t].sql = typed[t]]_vars
  BY ReloadBringsItBack DEF TabInv
<1> QED
  BY <1>1, TabKeepsItsInvariant, PTL DEF TabSpec, tabVars, ReloadKeepsTheQuery
=============================================================================
