--------------------------- MODULE RoutineLoadViews ---------------------------
(***************************************************************************)
(* What the console shows of a routine load snapshot: the counters of      *)
(* summarizeRoutineLoads (routineload_service.go) and the page drawn from  *)
(* them and from the jobs (RoutineLoadView.tsx, JobsTable.tsx,             *)
(* JobStateBadge.tsx).  The page judges the jobs again, with a threshold   *)
(* of its own; the operators keep what each part shows and drop how it is  *)
(* drawn.  The snapshot is the one RoutineLoad collects.                   *)
(***************************************************************************)
EXTENDS RoutineLoad

CONSTANT Highlight    \* ERROR_RATIO_HIGHLIGHT, in the parts RatioOne counts

ASSUME HighlightAssumption == /\ Highlight \in Nat /\ Highlight < RatioOne
                              /\ \A row \in Rows : row.reason \in BOOLEAN

-----------------------------------------------------------------------------
(* GET /loads/routine *)

ErrorRows(read) ==
    SumFunction([j \in DOMAIN read |-> SumFunction([s \in read[j].statistics |-> s.error])])

\* Mutant: a state is missing from the switch.
summarizeRoutineLoadsNoCancelled(read) ==
    LET Count(s) == Cardinality(InState(read, s))
    IN [total |-> Cardinality(DOMAIN read), running |-> Count("RUNNING"),
        needSchedule |-> Count("NEED_SCHEDULE"), paused |-> Count("PAUSED"),
        stopped |-> Count("STOPPED"), cancelled |-> 0,
        unhealthy |-> Count("PAUSED") + Count("CANCELLED"), totalErrorRows |-> ErrorRows(read)]

summarizeRoutineLoads(read) ==
    LET Count(s) == Cardinality(InState(read, s))
    IN [total |-> Cardinality(DOMAIN read), running |-> Count("RUNNING"),
        needSchedule |-> Count("NEED_SCHEDULE"), paused |-> Count("PAUSED"),
        stopped |-> Count("STOPPED"), cancelled |-> Count("CANCELLED"),
        unhealthy |-> Count("PAUSED") + Count("CANCELLED"), totalErrorRows |-> ErrorRows(read)]

Snapshot == [jobs |-> rows, summary |-> summarizeRoutineLoads(rows), warnings |-> failed]

-----------------------------------------------------------------------------
(* The page *)

JobStateBadge(state) ==
    CASE state = "RUNNING" -> "success"
      [] state = "NEED_SCHEDULE" -> "primary"
      [] state = "PAUSED" -> "warning"
      [] state = "CANCELLED" -> "destructive"
      [] OTHER -> "muted"

\* The colour of the error-rows cell.
ErrorCell(row) ==
    IF \E s \in row.statistics : s.error > 0
    THEN IF \E s \in row.statistics : s.total > 0 /\ s.error * RatioOne > Highlight * s.total
         THEN "destructive" ELSE "warning"
    ELSE "plain"

JobRow(row) == [badge |-> JobStateBadge(row.state),
                tinted |-> row.state = "CANCELLED",
                errors |-> ErrorCell(row),
                lag |-> computeOffsetLag(row),
                detail |-> row.state \in {"PAUSED", "CANCELLED"} /\ row.reason]

SummaryRow(s) ==
    [running |-> IF s.running = s.total /\ s.total > 0 THEN "good" ELSE "neutral",
     paused |-> IF s.paused > 0 THEN "bad" ELSE "good",
     cancelled |-> IF s.cancelled > 0 THEN "bad" ELSE "good",
     errorRows |-> IF s.totalErrorRows > 0 THEN "neutral" ELSE "good"]

RoutineLoadPage(snapshot) ==
    [notices |-> snapshot.warnings,
     summary |-> SummaryRow(snapshot.summary),
     table |-> [j \in DOMAIN snapshot.jobs |-> JobRow(snapshot.jobs[j])]]

-----------------------------------------------------------------------------
(* Properties *)

\* What an operator finds on the page for an alert.
LoadAlertVisible(alert, page) ==
    LET line == page.table[alert[2]]
    IN CASE alert[1] = "routine_load_paused" ->
                /\ line.badge = "warning" /\ page.summary.paused = "bad"
                /\ rows[alert[2]].reason => line.detail
         [] alert[1] = "routine_load_cancelled" ->
                /\ line.badge = "destructive" /\ line.tinted /\ page.summary.cancelled = "bad"
                /\ rows[alert[2]].reason => line.detail
         [] alert[1] = "routine_load_error_ratio" ->
                /\ line.errors # "plain"
                /\ loadPolicy.ratio >= Highlight => line.errors = "destructive"
                /\ page.summary.errorRows # "good"
         [] OTHER -> \E lag \in line.lag : lag > loadPolicy.maxLag

\* Every alert the backend evaluates on a snapshot (routineload_alerts.go:56) is
\* seen on the page drawn from that snapshot: in its job's row, with the reason
\* when StarRocks gave one, and in the counters above the table, whatever the
\* thresholds, which the page does not know (JobsTable.tsx:18).  The other way
\* round, a page whose cards are all good comes with no alert but lag.  Of a cluster
\* that kept still, every row is a job it has, and a job that has no row is in a
\* database the notices name: a page without rows and notices ("no routine load jobs
\* found", RoutineLoadView.tsx:59) is one of a cluster without jobs.
LoadAlertsAreOnThePage ==
    LoadsCollected =>
        LET page == RoutineLoadPage(Snapshot)
        IN /\ \A a \in EvaluateLoadAlerts(rows) : LoadAlertVisible(a, page)
           /\ (\A card \in DOMAIN page.summary : page.summary[card] = "good")
                => /\ {a[1] : a \in EvaluateLoadAlerts(rows)}
                        \subseteq {"routine_load_offset_lag"}
                   /\ InState(rows, "RUNNING") = DOMAIN rows
           /\ Cardinality({j \in DOMAIN rows :
                 \/ <<"routine_load_paused", j>> \in EvaluateLoadAlerts(rows)
                 \/ <<"routine_load_cancelled", j>> \in EvaluateLoadAlerts(rows)})
                = Snapshot.summary.unhealthy
           /\ loadsSteady => /\ DOMAIN page.table \subseteq DOMAIN jobs
                             /\ \A j \in DOMAIN jobs \ DOMAIN page.table :
                                  j[1] \in page.notices
=============================================================================
