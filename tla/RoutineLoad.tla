----------------------------- MODULE RoutineLoad -----------------------------
(***************************************************************************)
(* RoutineLoadService (backend/internal/service/routineload_service.go and *)
(* routineload_alerts.go) over RoutineLoadRepository                       *)
(* (backend/internal/repository/routineload_repository.go): one collection *)
(* reads the jobs of all databases from information_schema, or sweeps the  *)
(* databases one SHOW at a time, while jobs, databases and permissions     *)
(* change; the alert rules then judge what was read.                       *)
(*                                                                         *)
(* StarRocks is external.  A job's columns are one of the Rows: its state, *)
(* its statistics (a set, empty when the column is missing or malformed)   *)
(* and the two offset maps, from partition to a numeric offset or Marker.  *)
(***************************************************************************)
EXTENDS Integers, FiniteSets, Functions, FiniteSetsExt

CONSTANTS Databases,       \* user databases that may exist
          SystemDatabases, \* databases the sweep skips
          Names,           \* job names
          Rows,            \* columns a job may show
          Marker,          \* an offset that is no number (OFFSET_END)
          Policies,        \* thresholds SetPolicy is called with
          RatioOne         \* the ratio 1.0 (a policy's ratio counts in its parts)

Jobs == Databases \X Names

States == {"NEED_SCHEDULE", "RUNNING", "PAUSED", "STOPPED", "CANCELLED", "UNKNOWN"}

IsOffsetMap(map) == /\ IsFiniteSet(DOMAIN map)
                    /\ \A p \in DOMAIN map : map[p] \in Int \cup {Marker}

\* Error rows are counted among the rows: their ratio is "in [0, 1]"
\* (model/routineload.go:31).
ASSUME RoutineLoadAssumption ==
    /\ Databases \cap SystemDatabases = {}
    /\ IsFiniteSet(Databases) /\ IsFiniteSet(SystemDatabases)
    /\ IsFiniteSet(Names)
    /\ Marker \notin Int
    /\ RatioOne \in Nat \ {0}
    /\ \A row \in Rows : /\ row.state \in States
                         /\ IsFiniteSet(row.statistics)
                         /\ \A s \in row.statistics : s.total \in Nat /\ s.error \in 0..s.total
                         /\ IsOffsetMap(row.progress) /\ IsOffsetMap(row.latest)
    /\ \A p \in Policies : p.ratio \in Int /\ p.minTotal \in Nat /\ p.maxLag \in Int

VARIABLES jobs,        \* the cluster: its jobs, each with its columns
          databases,   \* user databases that exist
          infoSchema,  \* information_schema.routine_load_jobs exists
          loadsCtxDone, \* the context of the collection has ended
          loadPolicy,  \* RoutineLoadAlertPolicy
          loadsPc,     \* where the collection is
          todo,        \* databases the sweep has still to read
          swept,       \* databases that answered
          failed,      \* databases that could not be read: the warnings
          rows,        \* jobs read so far, with their columns
          loadsSteady  \* history variable: no change since the collection began

loadsCluster == <<jobs, databases, infoSchema>>
unaffected == <<loadsCluster, loadsCtxDone, loadPolicy>>
collection == <<loadsPc, todo, swept, failed, rows>>
loadsVars == <<loadsCluster, loadsCtxDone, loadPolicy, collection, loadsSteady>>

-----------------------------------------------------------------------------
(* From columns to a job *)

\* parseOffsetMap keeps the numeric entries.
parseOffsetMap(raw) == [p \in {q \in DOMAIN raw : raw[q] # Marker} |-> raw[p]]

\* Mutant: a partition that is ahead makes up for one that is behind.
computeOffsetLagNet(row) ==
    LET progress == parseOffsetMap(row.progress)
        latest == parseOffsetMap(row.latest)
        matched == DOMAIN progress \cap DOMAIN latest
    IN IF matched = {} THEN {}
       ELSE {SumFunction([p \in matched |-> latest[p] - progress[p]])}

\* The lag, as a set that is empty when it is not reported.
computeOffsetLag(row) ==
    LET progress == parseOffsetMap(row.progress)
        latest == parseOffsetMap(row.latest)
        matched == DOMAIN progress \cap DOMAIN latest
        behind == {p \in matched : latest[p] > progress[p]}
    IN IF matched = {} THEN {}
       ELSE {SumFunction([p \in behind |-> latest[p] - progress[p]])}

InState(read, s) == {j \in DOMAIN read : read[j].state = s}

-----------------------------------------------------------------------------
(* The alert rules *)

\* errorRatioAlert: enough rows, and more than the given share of errors.
\* ErrorRatio is 0 without rows.
ErrorRatioFires(row) ==
    /\ loadPolicy.ratio > 0
    /\ \E s \in row.statistics : /\ s.total >= loadPolicy.minTotal
                                 /\ s.total > 0
                                 /\ s.error * RatioOne > loadPolicy.ratio * s.total

OffsetLagFires(row) ==
    loadPolicy.maxLag > 0 /\ \E lag \in computeOffsetLag(row) : lag > loadPolicy.maxLag

\* EvaluateAlerts: alert keys (rule, job).
EvaluateLoadAlerts(read) ==
    {<<"routine_load_paused", j>> : j \in InState(read, "PAUSED")}
    \cup {<<"routine_load_cancelled", j>> : j \in InState(read, "CANCELLED")}
    \cup {<<"routine_load_error_ratio", j>> :
             j \in {k \in DOMAIN read : ErrorRatioFires(read[k])}}
    \cup {<<"routine_load_offset_lag", j>> :
             j \in {k \in DOMAIN read : OffsetLagFires(read[k])}}

-----------------------------------------------------------------------------
(* The cluster *)

NoneRead == [j \in {} |-> {}]

JobsOf(d) == {j \in DOMAIN jobs : j[1] = d}

LoadsInit ==
    /\ jobs \in UNION {[existing -> Rows] : existing \in SUBSET Jobs}
    /\ databases = Databases
    /\ infoSchema \in BOOLEAN
    /\ loadsCtxDone = FALSE
    /\ loadPolicy \in Policies
    /\ loadsPc = "idle"
    /\ todo = {}
    /\ swept = {}
    /\ failed = {}
    /\ rows = NoneRead
    /\ loadsSteady = FALSE

\* A job is created or changes, or it is dropped.
JobChanges == /\ \/ \E d \in databases, n \in Names, row \in Rows :
                      jobs' = [j \in DOMAIN jobs \cup {<<d, n>>} |->
                                 IF j = <<d, n>> THEN row ELSE jobs[j]]
                 \/ \E j \in DOMAIN jobs : jobs' = Restrict(jobs, DOMAIN jobs \ {j})
              /\ loadsSteady' = FALSE
              /\ UNCHANGED <<databases, infoSchema, loadsCtxDone, loadPolicy, collection>>

\* A database is created, without jobs, or dropped, and its jobs with it.
DatabaseChanges ==
    /\ \/ \E d \in Databases : databases' = databases \cup {d} /\ UNCHANGED jobs
       \/ \E d \in databases : /\ databases' = databases \ {d}
                                /\ jobs' = Restrict(jobs, DOMAIN jobs \ JobsOf(d))
    /\ loadsSteady' = FALSE
    /\ UNCHANGED <<infoSchema, loadsCtxDone, loadPolicy, collection>>

\* The client goes away, or the poller's context is cancelled.
ContextEnds == /\ loadsPc # "idle"
               /\ loadsCtxDone' = TRUE
               /\ UNCHANGED <<loadsCluster, loadPolicy, collection, loadsSteady>>

SetPolicy == /\ loadPolicy' \in Policies
             /\ UNCHANGED <<loadsCluster, loadsCtxDone, collection, loadsSteady>>

-----------------------------------------------------------------------------
(* The collection *)

\* Jobs: one statement answers for all databases,
ReadInfoSchema ==
    /\ loadsPc = "idle"
    /\ infoSchema
    /\ rows' = jobs
    /\ loadsPc' = "evaluate"
    /\ loadsSteady' = TRUE
    /\ UNCHANGED <<unaffected, todo, swept, failed>>

\* or it fails: it does not exist, times out or the connection breaks.
InfoSchemaFails ==
    /\ loadsPc = "idle"
    /\ loadsPc' = "show"
    /\ loadsSteady' = TRUE
    /\ UNCHANGED <<unaffected, todo, swept, failed, rows>>

\* jobsViaShow: SHOW DATABASES, and the system databases are skipped.
ShowDatabases ==
    /\ loadsPc = "show"
    /\ ~loadsCtxDone
    /\ todo' = (databases \cup SystemDatabases) \ SystemDatabases
    /\ loadsPc' = "sweep"
    /\ UNCHANGED <<unaffected, swept, failed, rows, loadsSteady>>

\* The context had ended, or SHOW DATABASES failed: no snapshot.
ShowDatabasesFails ==
    /\ loadsPc = "show"
    /\ loadsPc' = "failed"
    /\ UNCHANGED <<unaffected, todo, swept, failed, rows, loadsSteady>>

\* SHOW ALL ROUTINE LOAD FROM one database.
SweepDatabase(d) ==
    /\ loadsPc = "sweep"
    /\ d \in todo
    /\ ~loadsCtxDone /\ d \in databases
    /\ rows' = [j \in DOMAIN rows \cup JobsOf(d) |->
                  IF j \in JobsOf(d) THEN jobs[j] ELSE rows[j]]
    /\ todo' = todo \ {d}
    /\ swept' = swept \cup {d}
    /\ UNCHANGED <<unaffected, loadsPc, failed, loadsSteady>>

\* Mutant: a database that fails is skipped, and no warning names it.
SweepFailsSilently(d) ==
    /\ loadsPc = "sweep"
    /\ d \in todo
    /\ todo' = todo \ {d}
    /\ UNCHANGED <<unaffected, loadsPc, swept, failed, rows, loadsSteady>>

\* It fails, for whatever reason (dropped, permission denied, timed out): a warning.
SweepFails(d) ==
    /\ loadsPc = "sweep"
    /\ d \in todo
    /\ failed' = failed \cup {d}
    /\ todo' = todo \ {d}
    /\ UNCHANGED <<unaffected, loadsPc, swept, rows, loadsSteady>>

\* The sweep is over: an error when there were databases and all of them failed.
SweepEnd ==
    /\ loadsPc = "sweep"
    /\ todo = {}
    /\ loadsPc' = IF failed # {} /\ swept = {} THEN "failed" ELSE "evaluate"
    /\ UNCHANGED <<unaffected, todo, swept, failed, rows, loadsSteady>>

\* The snapshot is returned, or its alerts, or ErrUnavailable.
LoadsDone ==
    /\ loadsPc \in {"evaluate", "failed"}
    /\ loadsPc' = "idle"
    /\ loadsCtxDone' = FALSE
    /\ todo' = {} /\ swept' = {} /\ failed' = {} /\ rows' = NoneRead
    /\ loadsSteady' = FALSE
    /\ UNCHANGED <<loadsCluster, loadPolicy>>

LoadsNext ==
    \/ JobChanges \/ DatabaseChanges \/ ContextEnds \/ SetPolicy
    \/ ReadInfoSchema \/ InfoSchemaFails \/ ShowDatabases \/ ShowDatabasesFails
    \/ \E d \in Databases : SweepDatabase(d) \/ SweepFails(d)
    \/ SweepEnd \/ LoadsDone

LoadsSpec == LoadsInit /\ [][LoadsNext]_loadsVars

-----------------------------------------------------------------------------
(* Properties *)

LoadsCollected == loadsPc = "evaluate"

\* Every variable has its type, and nothing of a collection outlives it.
LoadsTypeOK ==
    /\ databases \subseteq Databases
    /\ DOMAIN jobs \subseteq databases \X Names /\ \A j \in DOMAIN jobs : jobs[j] \in Rows
    /\ infoSchema \in BOOLEAN /\ loadsCtxDone \in BOOLEAN /\ loadsSteady \in BOOLEAN
    /\ loadPolicy \in Policies
    /\ loadsPc \in {"idle", "show", "sweep", "evaluate", "failed"}
    /\ todo \subseteq Databases /\ swept \subseteq Databases /\ failed \subseteq Databases
    /\ DOMAIN rows \subseteq Jobs /\ \A j \in DOMAIN rows : rows[j] \in Rows
    /\ loadsPc = "idle" => <<todo, swept, failed, rows>> = <<{}, {}, {}, NoneRead>>

\* "A database that fails becomes a warning rather than failing the whole
\* snapshot" (routineload_repository.go:76-78): when the cluster kept still,
\* each of its jobs is in the snapshot as it is, or its database is in the
\* warnings; no job is lost without a trace.
ReportedOrWarned ==
    (LoadsCollected /\ loadsSteady) =>
       /\ DOMAIN rows = {j \in DOMAIN jobs : j[1] \notin failed}
       /\ \A j \in DOMAIN rows : rows[j] = jobs[j]

\* The rules against what the thresholds promise (routineload_alerts.go:22-33),
\* stated on the columns as StarRocks shows them: a job is reported as paused
\* or cancelled when it is, for its error rows when it has consumed minTotal
\* rows and more than the ratio failed, and for its lag when the partitions
\* known on both sides trail by more than maxLag together, ahead or not.
Behind(row, p) == IF row.latest[p] > row.progress[p] THEN row.latest[p] - row.progress[p] ELSE 0

Trails(row) ==
    SumFunction([p \in {q \in DOMAIN row.latest \cap DOMAIN row.progress :
                          row.latest[q] # Marker /\ row.progress[q] # Marker}
                 |-> Behind(row, p)])

Reported(rule, row) ==
    CASE rule = "routine_load_paused" -> row.state = "PAUSED"
      [] rule = "routine_load_cancelled" -> row.state = "CANCELLED"
      [] rule = "routine_load_error_ratio" ->
            loadPolicy.ratio > 0 /\ \E s \in row.statistics :
               s.total >= loadPolicy.minTotal /\ s.error * RatioOne > loadPolicy.ratio * s.total
      [] rule = "routine_load_offset_lag" ->
            loadPolicy.maxLag > 0 /\ Trails(row) > loadPolicy.maxLag

Rules == {"routine_load_paused", "routine_load_cancelled", "routine_load_error_ratio",
          "routine_load_offset_lag"}

AlertsMatchColumns ==
    LoadsCollected => \A j \in DOMAIN rows, rule \in Rules :
        <<rule, j>> \in EvaluateLoadAlerts(rows) <=> Reported(rule, rows[j])
=============================================================================
