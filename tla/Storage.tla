------------------------------- MODULE Storage -------------------------------
(***************************************************************************)
(* StorageService (backend/internal/service/storage_service.go) behind     *)
(* backend/internal/api/storage.go: Statistic is one statement; TableDetail*)
(* reads the tables, their sizes, the partitions (by the table's name) and *)
(* the tablets (by its id) one after the other, each of which may fail     *)
(* with other consequences, while tables are dropped and created again.    *)
(*                                                                         *)
(* StarRocks is external: a table that is created gets an id of its own.   *)
(* The counters of a statistic are whatever they are when it is read.  The *)
(* fold of the tablets is TabletLoads.                                     *)
(***************************************************************************)
EXTENDS TabletLoads

CONSTANTS TableNames,          \* names of tables that may exist
          NoTable,             \* the id of a table that does not exist, or of no table
          MaxIds,              \* bound: tables created in one behaviour
          StatisticDatabases,  \* databases of SHOW PROC '/statistic'
          Counters,            \* counters a database may have
          TabletRows,          \* rows be_tablets may return for a tablet
          MaxTablets           \* bound: tablets of a table

Health == {"unhealthy", "inconsistent", "cloning", "errorState"}
Fields == Health \cup {"tablet"}

ASSUME StorageAssumption ==
    /\ MaxIds \in Nat
    /\ NoTable \notin Nat
    /\ IsFiniteSet(TableNames) /\ IsFiniteSet(StatisticDatabases)
    /\ \A c \in Counters : /\ DOMAIN c = Fields
                           /\ \A f \in DOMAIN c : c[f] \in Nat
    /\ "Total" \notin StatisticDatabases
    /\ MaxTablets \in Nat
    /\ Nil \notin Nat
    /\ \A row \in TabletRows : /\ row.be \in Int
                              /\ {row.rows, row.bytes, row.rowsets} \subseteq Nat \cup {Nil}
                              /\ row.ok \in BOOLEAN

VARIABLES tables,        \* the catalog: id of each table
          created,       \* tables created so far
          storagePc,     \* where the request is
          asked,         \* the table it names
          summary,       \* id in the table list
          sized,         \* id whose size was read
          partitions,    \* id whose partitions were read
          tablets,       \* id whose tablets were read
          levels,        \* what applyTabletLoads made of them
          read,          \* history variable: the rows it folded
          warnings,      \* TableDetail.Warnings
          answer,        \* the status of the answer
          statistic,     \* the last StorageStatistic
          tableSteady    \* history variable: no table changed since the request began

catalog == <<tables, created>>
detail == <<summary, sized, partitions, tablets, levels, read, warnings>>
storageVars == <<catalog, storagePc, asked, detail, answer, statistic, tableSteady>>

Ids == 0..MaxIds \cup {NoTable}

-----------------------------------------------------------------------------
(* Statistic *)

\* Rows of SHOW PROC '/statistic': one per database, and the row that StarRocks
\* appends, whose id column reads "Total".
Sum(rows, f) == SumFunction([r \in DOMAIN rows |-> rows[r][f]])

ProcRows(counters) ==
    [d \in StatisticDatabases \cup {"Total"} |->
        IF d = "Total" THEN [f \in Fields |-> Sum(counters, f)] ELSE counters[d]]

\* Mutant: the appended row is taken for a database.
foldWithTotal(rows) ==
    [databases |-> rows,
     totals |-> [f \in Fields |-> Sum(rows, f)]]

\* The loop of Statistic: every row but that one is a database and adds to the
\* totals.
fold(rows) ==
    LET databases == [d \in DOMAIN rows \ {"Total"} |-> rows[d]]
    IN [databases |-> databases,
        totals |-> [f \in Fields |-> Sum(databases, f)]]

-----------------------------------------------------------------------------
(* The catalog *)

StorageInit == /\ tables = [n \in TableNames |-> NoTable]
               /\ created = 0
               /\ storagePc = "idle"
               /\ asked \in TableNames
               /\ summary = NoTable /\ sized = NoTable /\ partitions = NoTable /\ tablets = NoTable
               /\ levels = NoLevels
               /\ read = << >>
               /\ warnings = {}
               /\ answer = "none"
               /\ statistic = fold([r \in {} |-> 0])
               /\ tableSteady = FALSE

CreateTable == /\ created < MaxIds
               /\ \E n \in TableNames : /\ tables[n] = NoTable
                                        /\ tables' = [tables EXCEPT ![n] = created]
               /\ created' = created + 1
               /\ tableSteady' = FALSE
               /\ UNCHANGED <<storagePc, asked, detail, answer, statistic>>

DropTable == /\ \E n \in TableNames : /\ tables[n] # NoTable
                                      /\ tables' = [tables EXCEPT ![n] = NoTable]
             /\ tableSteady' = FALSE
             /\ UNCHANGED <<created, storagePc, asked, detail, answer, statistic>>

-----------------------------------------------------------------------------
(* The requests *)

\* Statistic; an error of its one statement changes nothing.
Statistic == /\ \E counters \in [StatisticDatabases -> Counters] :
                   statistic' = fold(ProcRows(counters))
             /\ UNCHANGED <<catalog, storagePc, asked, detail, answer, tableSteady>>

\* GET /storage/tables/:database/:table; a blank name is a 400.
TableDetail(n) ==
    /\ storagePc = "idle"
    /\ asked' = n
    /\ answer' = "none"
    /\ summary' = NoTable /\ sized' = NoTable /\ partitions' = NoTable /\ tablets' = NoTable
    /\ levels' = NoLevels
    /\ read' = << >>
    /\ warnings' = {}
    /\ storagePc' = "tables"
    /\ tableSteady' = TRUE
    /\ UNCHANGED <<catalog, statistic>>

Respond(status) == /\ storagePc' = "idle"
                   /\ answer' = status

\* The rows of tables_config, from which the table asked for is taken,
ReadTables ==
    /\ storagePc = "tables"
    /\ summary' = tables[asked]
    /\ storagePc' = "sizes"
    /\ UNCHANGED <<catalog, asked, sized, partitions, tablets, levels, read,
                  warnings, answer, statistic, tableSteady>>

\* or a 503.
ReadTablesFails ==
    /\ storagePc = "tables"
    /\ Respond("unavailable")
    /\ UNCHANGED <<catalog, asked, detail, statistic, tableSteady>>

\* The sizes, joined by name; an error leaves them out.  A table that is not in
\* the list is a 404.
ReadSizes ==
    /\ storagePc = "sizes"
    /\ sized' \in {NoTable, IF summary = NoTable THEN NoTable ELSE tables[asked]}
    /\ IF summary = NoTable THEN Respond("not_found")
       ELSE storagePc' = "partitions" /\ UNCHANGED answer
    /\ UNCHANGED <<catalog, asked, summary, partitions, tablets, levels, read,
                  warnings, statistic, tableSteady>>

ReadPartitions ==
    /\ storagePc = "partitions"
    /\ partitions' = tables[asked]
    /\ storagePc' = "tablets"
    /\ UNCHANGED <<catalog, asked, summary, sized, tablets, levels, read,
                  warnings, answer, statistic, tableSteady>>

\* Mutant: the error of the partitions ends the request without a warning.
PartitionsFailSilently ==
    /\ storagePc = "partitions"
    /\ storagePc' = "tablets"
    /\ UNCHANGED <<catalog, asked, detail, answer, statistic, tableSteady>>

PartitionsFail ==
    /\ storagePc = "partitions"
    /\ warnings' = warnings \cup {"partitions"}
    /\ storagePc' = "tablets"
    /\ UNCHANGED <<catalog, asked, summary, sized, partitions, tablets, levels,
                  read, answer, statistic, tableSteady>>

\* The tablets of a table, as be_tablets reports them.
TabletsOf(id) == IF id = NoTable THEN {<< >>} ELSE BoundedSeq(TabletRows, MaxTablets)

\* Mutant: the tablets are looked up by the name as well.
ReadTabletsByName ==
    /\ storagePc = "tablets"
    /\ tablets' = tables[asked]
    /\ read' \in TabletsOf(tablets')
    /\ levels' = applyTabletLoads(read')
    /\ Respond("ok")
    /\ UNCHANGED <<catalog, asked, summary, sized, partitions, warnings,
                  statistic, tableSteady>>

\* The tablets of the id that the list gave; a table that is gone has none.
ReadTablets ==
    /\ storagePc = "tablets"
    /\ tablets' = IF \E n \in TableNames : tables[n] = summary THEN summary ELSE NoTable
    /\ read' \in TabletsOf(tablets')
    /\ levels' = applyTabletLoads(read')
    /\ Respond("ok")
    /\ UNCHANGED <<catalog, asked, summary, sized, partitions, warnings,
                  statistic, tableSteady>>

TabletsFail ==
    /\ storagePc = "tablets"
    /\ warnings' = warnings \cup {"tablets"}
    /\ Respond("ok")
    /\ UNCHANGED <<catalog, asked, summary, sized, partitions, tablets, levels,
                  read, statistic, tableSteady>>

Request == \/ ReadTables \/ ReadTablesFails \/ ReadSizes \/ ReadPartitions \/ PartitionsFail
           \/ ReadTablets \/ TabletsFail

StorageNext == \/ CreateTable \/ DropTable \/ Statistic
               \/ \E n \in TableNames : TableDetail(n)
               \/ Request

StorageSpec == StorageInit /\ [][StorageNext]_storageVars

-----------------------------------------------------------------------------
(* Properties *)

\* Every variable has its type, and a request is answered once, at its end.
StorageTypeOK ==
    /\ tables \in [TableNames -> Ids]
    /\ created \in 0..MaxIds
    /\ storagePc \in {"idle", "tables", "sizes", "partitions", "tablets"}
    /\ asked \in TableNames
    /\ {summary, sized, partitions, tablets} \subseteq Ids
    /\ read \in BoundedSeq(TabletRows, MaxTablets) /\ levels = applyTabletLoads(read)
    /\ warnings \subseteq {"partitions", "tablets"}
    /\ answer \in {"none", "ok", "not_found", "unavailable"}
    /\ storagePc # "idle" => answer = "none"

\* TableDetail when no table changes during the request (storage_service.go:
\* 157-202): every part is the asked table's, or it is missing and a warning
\* says so (sizes are optional, and missing without a warning).
SteadyDetailIsTheTable ==
    (answer = "ok" /\ tableSteady /\ storagePc = "idle") =>
       /\ summary = tables[asked] /\ summary # NoTable
       /\ sized \in {NoTable, summary}
       /\ partitions = IF "partitions" \in warnings THEN NoTable ELSE summary
       /\ tablets = IF "tablets" \in warnings THEN NoTable ELSE summary

\* Whatever is dropped and created meanwhile, the tablets are those of the very
\* table the list gave, never of a table created since under the same name
\* (storage_service.go:194-200), and a table that exists throughout is found.
TabletsOfTheListedTable ==
    /\ tablets \in {NoTable, summary}
    /\ (answer = "not_found" /\ tableSteady) => tables[asked] = NoTable

\* The levels agree with the rows and with each other, in whatever order the
\* rows came and whatever columns they lack (storage_service.go:221-277), and
\* computeSkew agrees with a definition by counting (storage_service.go:282-334),
\* for tablets and for backends.
LevelsAndSkewAgree == LevelsOf(levels, read) /\ SoundSkew(levels)
=============================================================================
