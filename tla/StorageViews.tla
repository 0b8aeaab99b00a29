----------------------------- MODULE StorageViews -----------------------------
(***************************************************************************)
(* What the storage page shows of its answers (StorageView.tsx,            *)
(* SkewBar.tsx): the catalog's counters with their colours, and the panel  *)
(* of one table with its notices, its skew cards and its bars.  The        *)
(* operators keep what each part shows and drop how it is drawn; which     *)
(* table the panel is about is Console's.                                  *)
(***************************************************************************)
EXTENDS Storage

-----------------------------------------------------------------------------
(* GET /storage/statistic *)

NeedsAttention(counters) == counters.unhealthy + counters.inconsistent + counters.errorState

StatisticSummary(totals) == [tablets |-> totals.tablet,
                             unhealthy |-> NeedsAttention(totals),
                             tone |-> IF NeedsAttention(totals) > 0 THEN "bad" ELSE "good"]

\* Cloning is transient repair traffic, not a fault.
NumCell(f, value) ==
    IF value > 0 /\ f \in {"unhealthy", "inconsistent", "errorState"} THEN "destructive" ELSE "plain"

DatabaseHealthTable(databases) ==
    [d \in DOMAIN databases |-> [f \in Fields |-> NumCell(f, databases[d][f])]]

-----------------------------------------------------------------------------
(* GET /storage/tables/:database/:table *)

\* Mutant: a level counts as measured only when its rows are.
SkewCardByRows(m) ==
    [tone |-> IF m.rowsRatio = {} THEN "unmeasured" ELSE IF m.skewed THEN "skewed" ELSE "even",
     ratios |-> m.rowsRatio \cup m.bytesRatio]

SkewCard(m) ==
    [tone |-> IF m.rowsRatio = {} /\ m.bytesRatio = {} THEN "unmeasured"
              ELSE IF m.skewed THEN "skewed" ELSE "even",
     ratios |-> m.rowsRatio \cup m.bytesRatio]

\* Each backend's bar, as the pair of its rows and of the rows of a full bar.
BackendDistribution(loads) ==
    LET maxRows == Max({loads[b].rows : b \in DOMAIN loads} \cup {1})
    IN [b \in DOMAIN loads |-> <<loads[b].rows, maxRows>>]

TableDetailPanel ==
    LET skew == computeSkew(levels)
    IN [notices |-> warnings,
        alarming |-> levels.abnormal > 0,
        skew |-> [level \in DOMAIN skew |-> SkewCard(skew[level])],
        bars |-> BackendDistribution(levels.loads),
        partitions |-> partitions # NoTable]

-----------------------------------------------------------------------------
(* Properties *)

\* The counters on screen (StorageView.tsx:121, StorageView.tsx:150 and Statistic,
\* storage_service.go:57-90): the totals are the databases' own sums, with the
\* row StarRocks appends left out, and the card above the table is green exactly
\* when no cell of the table is red.
CountersOnScreen ==
    LET table == DatabaseHealthTable(statistic.databases)
        card == StatisticSummary(statistic.totals)
    IN /\ DOMAIN table \subseteq StatisticDatabases
       /\ \A f \in Fields : statistic.totals[f] = Sum(statistic.databases, f)
       /\ card.tone = "good" <=> \A d \in DOMAIN table, f \in Fields : table[d][f] = "plain"

\* The panel of an answer (StorageView.tsx:273, SkewBar.tsx:42): a red skew card
\* shows a ratio over the threshold and a green one a ratio that is not; a level
\* that could not be measured is neither, and so are both when the tablets could
\* not be read; no bar is longer than a full one, and a backend with rows has one;
\* an abnormal tablet alarms; and what is missing has a notice.
DetailOnScreen ==
    (answer = "ok" /\ storagePc = "idle") =>
        LET panel == TableDetailPanel
        IN /\ \A level \in DOMAIN panel.skew :
                LET card == panel.skew[level]
                IN /\ card.tone = "skewed" <=> Over(card.ratios)
                   /\ card.tone = "even" => card.ratios # {}
                   /\ "tablets" \in panel.notices => card.tone = "unmeasured"
           /\ \A b \in DOMAIN panel.bars : panel.bars[b][1] <= panel.bars[b][2]
           /\ (\E i \in DOMAIN read : OrZero(read[i].rows) > 0)
                => \E b \in DOMAIN panel.bars : panel.bars[b][1] = panel.bars[b][2]
           /\ panel.alarming <=> \E i \in DOMAIN read : ~read[i].ok
           /\ tableSteady => (panel.partitions \/ "partitions" \in panel.notices)
=============================================================================
