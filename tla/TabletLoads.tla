----------------------------- MODULE TabletLoads -----------------------------
(***************************************************************************)
(* applyTabletLoads and computeSkew of                                     *)
(* backend/internal/service/storage_service.go: the rows of be_tablets are *)
(* folded one by one into per-backend loads and totals, and the skew is    *)
(* measured between backends and between tablets.                          *)
(*                                                                         *)
(* A row is [be, rows, bytes, rowsets, ok]; a column the backend did not   *)
(* report is Nil.  Segments are folded like rowsets and are left out.  A   *)
(* ratio is the pair <<max, median>>.                                      *)
(***************************************************************************)
EXTENDS Integers, SequencesExt

CONSTANT Nil           \* a column that is missing

OrZero(v) == IF v = Nil THEN 0 ELSE v

-----------------------------------------------------------------------------
(* The fold *)

NoLoad == [tabletNum |-> 0, rows |-> 0, bytes |-> 0, rowsetNum |-> 0]

NoLevels == [tabletTotal |-> 0, rowsetTotal |-> 0, maxRowsets |-> 0, abnormal |-> 0,
             loads |-> [b \in {} |-> NoLoad], tablets |-> << >>]

\* The load of a backend with one more tablet.
AddTo(load, row) == [tabletNum |-> load.tabletNum + 1,
                     rows |-> load.rows + OrZero(row.rows),
                     bytes |-> load.bytes + OrZero(row.bytes),
                     rowsetNum |-> load.rowsetNum + OrZero(row.rowsets)]

LoadOf(loads, b) == IF b \in DOMAIN loads THEN loads[b] ELSE NoLoad

AddLoad(loads, row) ==
    [b \in DOMAIN loads \cup {row.be} |->
        IF b = row.be THEN AddTo(LoadOf(loads, b), row) ELSE loads[b]]

\* Mutant: the rowset total is overwritten.
applyTabletOverwrites(levels, row) ==
    [levels EXCEPT !.tabletTotal = @ + 1, !.rowsetTotal = OrZero(row.rowsets),
                   !.maxRowsets = Max({@, OrZero(row.rowsets)}),
                   !.abnormal = IF row.ok THEN @ ELSE @ + 1,
                   !.loads = AddLoad(@, row),
                   !.tablets = Append(@, [rows |-> OrZero(row.rows), bytes |-> OrZero(row.bytes)])]

\* One iteration of the loop over the rows.
applyTablet(levels, row) ==
    [levels EXCEPT !.tabletTotal = @ + 1,
                   !.rowsetTotal = @ + OrZero(row.rowsets),
                   !.maxRowsets = Max({@, OrZero(row.rowsets)}),
                   !.abnormal = IF row.ok THEN @ ELSE @ + 1,
                   !.loads = AddLoad(@, row),
                   !.tablets = Append(@, [rows |-> OrZero(row.rows), bytes |-> OrZero(row.bytes)])]

applyTabletLoads(rows) ==
    LET after[i \in 0..Len(rows)] ==
            IF i = 0 THEN NoLevels ELSE applyTablet(after[i - 1], rows[i])
    IN after[Len(rows)]

-----------------------------------------------------------------------------
(* Skew *)

Column(list, c) == [i \in DOMAIN list |-> list[i][c]]

\* sort.Slice, by what it returns: the same members in ascending order.
ascending(values) ==
    LET order == CHOOSE p \in [DOMAIN values -> DOMAIN values] :
                    \A i, j \in DOMAIN values :
                       i < j => p[i] # p[j] /\ values[p[i]] <= values[p[j]]
    IN [i \in DOMAIN values |-> values[order[i]]]

\* The loads in the order of the backends' ids.
BackendLoads(levels) ==
    LET order == ascending(SetToSeq(DOMAIN levels.loads))
    IN [i \in DOMAIN order |-> levels.loads[order[i]]]

\* The median in int64: the mean of the two middle values is rounded down.
median(values) ==
    LET sorted == ascending(values)
        mid == Len(values) \div 2
    IN IF Len(values) % 2 = 0 THEN (sorted[mid] + sorted[mid + 1]) \div 2 ELSE sorted[mid + 1]

\* max/median, as a set that is empty when the median is not positive.
ratioToMedian(values) ==
    IF median(values) <= 0 THEN {}
    ELSE {<<Max({values[i] : i \in 1..Len(values)}), median(values)>>}

\* The ratio is over skewThreshold (1.5).
Over(ratio) == \E r \in ratio : 2 * r[1] > 3 * r[2]

\* measureSkew: nothing is measured below two members.
measureSkew(list) ==
    LET ratio == [c \in {"rows", "bytes"} |->
                    IF Len(list) < 2 THEN {} ELSE ratioToMedian(Column(list, c))]
    IN [rowsRatio |-> ratio["rows"], bytesRatio |-> ratio["bytes"],
        skewed |-> Over(ratio["rows"]) \/ Over(ratio["bytes"])]

computeSkew(levels) == [acrossTablets |-> measureSkew(levels.tablets),
                        acrossBackends |-> measureSkew(BackendLoads(levels))]

Skewed(levels) == \E level \in {"acrossTablets", "acrossBackends"} : computeSkew(levels)[level].skewed

-----------------------------------------------------------------------------
(* What the levels and the skew promise of the rows they were folded from *)

\* Each backend has its own tablets' sum, the backends add up to the table, and
\* the list the skew is measured on holds every tablet.
LevelsOf(levels, rows) ==
    LET loads == levels.loads
        tablets == levels.tablets
    IN /\ \A b \in DOMAIN loads :
             LET mine == {i \in DOMAIN rows : rows[i].be = b}
             IN /\ loads[b].tabletNum = Cardinality(mine)
                /\ loads[b].rows = SumFunction([i \in mine |-> OrZero(rows[i].rows)])
                /\ loads[b].bytes = SumFunction([i \in mine |-> OrZero(rows[i].bytes)])
       /\ SumFunction([b \in DOMAIN loads |-> loads[b].tabletNum]) = Len(rows)
       /\ SumFunction([b \in DOMAIN loads |-> loads[b].rows])
             = SumFunction([i \in DOMAIN tablets |-> tablets[i].rows])
       /\ SumFunction([b \in DOMAIN loads |-> loads[b].rowsetNum]) = levels.rowsetTotal
       /\ levels.abnormal = Cardinality({i \in DOMAIN rows : ~rows[i].ok})

\* Twice the median, by counting: the smallest value that at least half of the
\* members do not exceed, plus the largest that at least half reach.
TwiceMedian(values) ==
    LET members == DOMAIN values
        low == {v \in {values[i] : i \in members} :
                   2 * Cardinality({i \in members : values[i] <= v}) >= Len(values)}
        high == {v \in {values[i] : i \in members} :
                   2 * Cardinality({i \in members : values[i] >= v}) >= Len(values)}
    IN Min(low) + Max(high)

\* The largest member is more than one and a half times the median.
Outlier(values) == \E i \in DOMAIN values : 4 * values[i] > 3 * TwiceMedian(values)

Uneven(values) == \E i, j \in DOMAIN values : values[i] # values[j]

\* Exact on an odd number of members with a positive median; on an even number,
\* where the median is rounded down, no outlier is missed unless the median
\* rounds to zero.  A table is skewed only when some list has members that
\* differ, and not between backends when it has one.
SoundSkew(levels) ==
    LET lists == {Column(list, c) : list \in {levels.tablets, BackendLoads(levels)},
                                    c \in {"rows", "bytes"}}
    IN /\ \A values \in {v \in lists : Len(v) >= 2 /\ TwiceMedian(v) > 0} :
             /\ Len(values) % 2 = 1 => (Over(ratioToMedian(values)) <=> Outlier(values))
             /\ (Outlier(values) /\ TwiceMedian(values) >= 2) => Over(ratioToMedian(values))
       /\ Skewed(levels) => \E values \in lists : Uneven(values)
       /\ Cardinality(DOMAIN levels.loads) < 2 => ~computeSkew(levels).acrossBackends.skewed
=============================================================================
