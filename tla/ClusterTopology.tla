--------------------------- MODULE ClusterTopology ---------------------------
(***************************************************************************)
(* ClusterService (backend/internal/service/cluster_service.go and         *)
(* cluster_alerts.go): Topology reads frontends, backends, compute nodes   *)
(* and the run mode with four statements, one after the other, while the   *)
(* cluster goes on changing; summarize and the alert rules then work on    *)
(* what was read.                                                          *)
(*                                                                         *)
(* StarRocks is external: nodes go down and come back, a majority of the   *)
(* electable frontends elects a leader, the leader's journal grows and the *)
(* replicas replay it.  A dead leader is listed as leader until the next   *)
(* election.                                                               *)
(***************************************************************************)
EXTENDS Integers, FiniteSets, FiniteSetsExt

CONSTANTS FEs, Observers, BEs, CNs,   \* nodes; Observers are frontends that do not vote
          ClusterIDs,     \* what a frontend may report as its cluster's id
          Columns,        \* which columns the frontends' rows may fill
          Draining,       \* data nodes that are being decommissioned
          Releases,       \* how SHOW FRONTENDS marks the leader: "role", "ismaster"
          MaxLags,        \* thresholds SetAlertPolicy is called with
          NoNode,         \* no leader
          NoRows,         \* a list that has not been read
          MaxJournal      \* bound: journal entries

Nodes == FEs \cup BEs \cup CNs

ASSUME TopologyAssumption ==
    /\ IsFiniteSet(FEs) /\ IsFiniteSet(BEs) /\ IsFiniteSet(CNs)
    /\ Observers \subseteq FEs /\ Draining \subseteq BEs \cup CNs
    /\ Columns \subseteq [FEs -> [journal : BOOLEAN, clusterId : ClusterIDs \cup {""}]]
    /\ FEs \cap BEs = {} /\ FEs \cap CNs = {} /\ BEs \cap CNs = {}
    /\ Releases \subseteq {"role", "ismaster"}
    /\ MaxLags \subseteq Int
    /\ NoNode \notin Nodes
    /\ MaxJournal \in Nat

VARIABLES alive, leader, journal,    \* the cluster
          release, columns,          \* its release, and what each frontend's row reports
          policy,                    \* ClusterAlertPolicy.MaxJournalLag
          pc,                        \* where Topology is
          fe, be, cn,                \* nodes read so far
          steady                     \* history variable: since the first read nothing has
                                     \* changed and every statement has answered

cluster == <<alive, leader, journal, release, columns>>
reading == <<fe, be, cn>>
vars == <<cluster, policy, pc, reading, steady>>

Electable == FEs \ Observers

-----------------------------------------------------------------------------
(* From rows to nodes *)

\* A row of SHOW FRONTENDS: newer releases put the leader in the role column,
\* older ones always say FOLLOWER and set a flag.  The replayed journal id is a set,
\* empty when the row has none; a cluster id that is not reported is blank.
FeRow(f) ==
    LET voter == IF f \in Observers THEN "OBSERVER" ELSE "FOLLOWER"
    IN [alive |-> alive[f], replayed |-> {j \in {journal[f]} : columns[f].journal},
        clusterId |-> columns[f].clusterId,
        ismaster |-> release = "ismaster" /\ f = leader,
        role |-> IF release = "role" /\ f = leader THEN "LEADER" ELSE voter]

frontendRole(row) ==
    IF row.ismaster \/ row.role \in {"LEADER", "MASTER"} THEN "LEADER"
    ELSE IF row.role = "" THEN "UNKNOWN" ELSE row.role

mapFrontend(row) == [alive |-> row.alive, replayed |-> row.replayed,
                     clusterId |-> row.clusterId, role |-> frontendRole(row),
                     status |-> IF row.alive THEN "HEALTHY" ELSE "DOWN"]

\* Mutant: decommissioning is looked at before liveness.
dataNodeStatusDrainingFirst(isAlive, decommissioned) ==
    IF decommissioned THEN "DECOMMISSIONED" ELSE IF isAlive THEN "HEALTHY" ELSE "DOWN"

dataNodeStatus(isAlive, decommissioned) ==
    IF ~isAlive THEN "DOWN" ELSE IF decommissioned THEN "DECOMMISSIONED" ELSE "HEALTHY"

mapDataNode(n) == [alive |-> alive[n], status |-> dataNodeStatus(alive[n], n \in Draining)]

\* The live leader applyJournalLag and summarize find in a list of frontends.
LiveLeaders(fes) == {f \in DOMAIN fes : fes[f].role = "LEADER" /\ fes[f].alive}

LagBetween(j, i) == IF j > i THEN j - i ELSE 0

\* Mutant: a journal id that is not reported reads as 0.
JournalLagFromZero(fes, f) ==
    {LagBetween(j, i) : j \in UNION {fes[l].replayed : l \in LiveLeaders(fes)},
                        i \in IF fes[f].replayed = {} THEN {0} ELSE fes[f].replayed}

\* applyJournalLag: the lag of a frontend behind the live leader, as a set that is
\* empty when one of the two does not report its journal id.
JournalLag(fes, f) ==
    {LagBetween(j, i) : j \in UNION {fes[l].replayed : l \in LiveLeaders(fes)},
                        i \in fes[f].replayed}

-----------------------------------------------------------------------------
(* summarize *)

Up(list) == {n \in DOMAIN list : list[n].alive}
Voters(fes) == {f \in DOMAIN fes : fes[f].role \in {"LEADER", "FOLLOWER"}}
Replicas(fes) == {f \in DOMAIN fes : fes[f].alive /\ fes[f].role # "LEADER"}

QuorumHealthy(fes) ==
    LET total == Cardinality(Voters(fes))
    IN total > 0 /\ Cardinality(Voters(fes) \cap Up(fes)) > total \div 2

\* Blank ids are not counted.
ClusterIDMismatch(fes) == Cardinality({fes[f].clusterId : f \in DOMAIN fes} \ {""}) > 1

LeaderHost(fes) == LiveLeaders(fes)

MaxJournalLag(fes) ==
    LET lags == UNION {JournalLag(fes, f) : f \in Replicas(fes)}
    IN IF lags = {} THEN {} ELSE {Max(lags)}

Healthy(fes, bes, cns) ==
    /\ LeaderHost(fes) # {}
    /\ QuorumHealthy(fes)
    /\ ~ClusterIDMismatch(fes)
    /\ Up(fes) = DOMAIN fes /\ Up(bes) = DOMAIN bes /\ Up(cns) = DOMAIN cns
    /\ DOMAIN bes \cup DOMAIN cns # {}

-----------------------------------------------------------------------------
(* The alert rules *)

nodeDownAlerts(fes, bes, cns) ==
    {<<"cluster_node_down", n>> : n \in (DOMAIN fes \ Up(fes)) \cup (DOMAIN bes \ Up(bes))
                                        \cup (DOMAIN cns \ Up(cns))}

\* Mutant: the rule fires at the threshold.
journalLagAlertsAtThreshold(fes) ==
    IF policy <= 0 THEN {}
    ELSE {<<"fe_journal_lag", f>> : f \in {g \in Replicas(fes) :
                                       \E lag \in JournalLag(fes, g) : lag >= policy}}

journalLagAlerts(fes) ==
    IF policy <= 0 THEN {}
    ELSE {<<"fe_journal_lag", f>> : f \in {g \in Replicas(fes) :
                                       \E lag \in JournalLag(fes, g) : lag > policy}}

\* EvaluateAlerts: alert keys (rule, node).
EvaluateAlerts(fes, bes, cns) ==
    (IF LeaderHost(fes) = {} THEN {<<"cluster_no_leader", NoNode>>}
     ELSE IF ~QuorumHealthy(fes) THEN {<<"cluster_quorum_lost", NoNode>>} ELSE {})
    \cup (IF ClusterIDMismatch(fes) THEN {<<"cluster_id_mismatch", NoNode>>} ELSE {})
    \cup (IF DOMAIN bes \cup DOMAIN cns # {} /\ Up(bes) \cup Up(cns) = {}
          THEN {<<"cluster_no_compute_capacity", NoNode>>} ELSE {})
    \cup nodeDownAlerts(fes, bes, cns)
    \cup journalLagAlerts(fes)

-----------------------------------------------------------------------------
(* The cluster.  It changes at any time, but no answer depends on it once the last
   list has been read: the model lets it wait from there to the judgement. *)

Changing == pc \in {"idle", "backends", "compute"}

NodeChanges == /\ Changing
               /\ \E n \in Nodes : alive' = [alive EXCEPT ![n] = ~@]
               /\ steady' = FALSE
               /\ UNCHANGED <<leader, journal, release, columns, policy, pc, reading>>

Elect == /\ Changing
         /\ ~\E f \in FEs : f = leader /\ alive[f]
         /\ 2 * Cardinality({f \in Electable : alive[f]}) > Cardinality(Electable)
         /\ leader' \in {f \in Electable : alive[f]}
         /\ steady' = FALSE
         /\ UNCHANGED <<alive, journal, release, columns, policy, pc, reading>>

JournalGrows == /\ Changing
                /\ leader # NoNode /\ alive[leader] /\ journal[leader] < MaxJournal
                /\ journal' = [journal EXCEPT ![leader] = @ + 1]
                /\ steady' = FALSE
                /\ UNCHANGED <<alive, leader, release, columns, policy, pc, reading>>

Replay == /\ Changing
          /\ \E f \in FEs : /\ alive[f] /\ leader # NoNode /\ journal[f] < journal[leader]
                            /\ journal' = [journal EXCEPT ![f] = @ + 1]
          /\ steady' = FALSE
          /\ UNCHANGED <<alive, leader, release, columns, policy, pc, reading>>

-----------------------------------------------------------------------------
(* The service *)

Init == /\ alive = [n \in Nodes |-> TRUE]
        /\ leader \in Electable \cup {NoNode}
        /\ journal = [f \in FEs |-> 0]
        /\ release \in Releases
        /\ columns \in Columns
        /\ policy \in MaxLags
        /\ pc = "idle"
        /\ fe = NoRows /\ be = NoRows /\ cn = NoRows
        /\ steady = FALSE

SetAlertPolicy == /\ policy' \in MaxLags
                  /\ UNCHANGED <<cluster, pc, reading, steady>>

\* SHOW FRONTENDS; an error ends the collection (ErrUnavailable), as does one
\* of SHOW BACKENDS.
ReadFrontends == /\ pc = "idle"
                 /\ fe' = [f \in FEs |-> mapFrontend(FeRow(f))]
                 /\ pc' = "backends"
                 /\ steady' = TRUE
                 /\ UNCHANGED <<cluster, policy, be, cn>>

Forget == /\ pc' = "idle"
          /\ fe' = NoRows /\ be' = NoRows /\ cn' = NoRows
          /\ steady' = FALSE
          /\ UNCHANGED <<cluster, policy>>

ReadBackends == /\ pc = "backends"
                /\ be' = [n \in BEs |-> mapDataNode(n)]
                /\ pc' = "compute"
                /\ UNCHANGED <<cluster, policy, fe, cn, steady>>

\* SHOW BACKENDS fails: ErrUnavailable, without a partial topology.
BackendsFail == pc = "backends" /\ Forget

\* SHOW COMPUTE NODES: an error of any kind counts as "no compute nodes".
ReadComputeNodes == /\ pc = "compute"
                    /\ \E listed \in {CNs, {}} : cn' = [n \in listed |-> mapDataNode(n)]
                    /\ pc' = "runmode"
                    /\ UNCHANGED <<cluster, policy, fe, be, steady>>

\* resolveRunMode reads one configuration item and never fails (its error is
\* "unknown").  No judgement of the service depends on its value: the model keeps
\* the statement and the time it takes; TopologyViews takes every answer it may give.
resolveRunMode == /\ pc = "runmode"
                  /\ pc' = "evaluate"
                  /\ UNCHANGED <<cluster, policy, reading, steady>>

\* The topology is returned, or its alerts are.
Done == pc = "evaluate" /\ Forget

Next == \/ NodeChanges \/ Elect \/ JournalGrows \/ Replay \/ SetAlertPolicy
        \/ ReadFrontends \/ ReadBackends \/ BackendsFail \/ ReadComputeNodes
        \/ resolveRunMode \/ Done

Spec == Init /\ [][Next]_vars

-----------------------------------------------------------------------------
(* Properties *)

Collected == pc = "evaluate"
Alerts == EvaluateAlerts(fe, be, cn)
Urgent == {a \in Alerts : a[1] # "fe_journal_lag"}

\* Every variable has its type, and between collections nothing is left of the
\* last one.
TypeOK ==
    /\ alive \in [Nodes -> BOOLEAN]
    /\ leader \in Electable \cup {NoNode}
    /\ journal \in [FEs -> 0..MaxJournal]
    /\ policy \in MaxLags
    /\ pc \in {"idle", "backends", "compute", "runmode", "evaluate"}
    /\ (pc # "idle") = (fe # NoRows)

\* summarize against EvaluateAlerts (cluster_service.go:287 and 324,
\* cluster_alerts.go:63 and 163): two pieces of code that judge the same lists
\* agree, also on lists read at different moments.  A healthy summary comes with no
\* alert but lag, and an unhealthy one with an alert, unless the cluster has no data
\* node at all; the largest lag exceeds the threshold exactly when the lag rule fires.
HealthAgreesWithAlerts ==
    /\ Healthy(fe, be, cn) => Urgent = {}
    /\ (~Healthy(fe, be, cn) /\ DOMAIN be \cup DOMAIN cn # {}) => Urgent # {}

LagAgreesWithAlerts ==
    (\E a \in Alerts : a[1] = "fe_journal_lag")
       <=> (policy > 0 /\ \E lag \in MaxJournalLag(fe) : lag > policy)

SummaryAgreesWithAlerts == Collected => HealthAgreesWithAlerts /\ LagAgreesWithAlerts

\* The whole path from rows to alerts: when the cluster kept still while it was
\* read, the alerts name the dead nodes, the missing leader or majority, two cluster
\* ids that differ, and the replicas that trail, and nothing else; what a row does not
\* report raises no alert (cluster_service.go:282, 399, 410).  A failed SHOW COMPUTE NODES, which counts
\* as "no compute nodes" (cluster_service.go:70), hides what is wrong with compute
\* nodes and nothing else.
Expected ==
    LET voters == {f \in Electable : alive[f]}
        led == leader # NoNode /\ alive[leader]
        data == BEs \cup DOMAIN cn
        ids == {columns[f].clusterId : f \in FEs} \ {""}
    IN {<<"cluster_node_down", n>> : n \in {m \in FEs \cup data : ~alive[m]}}
       \cup {<<"cluster_no_leader", NoNode>> : x \in {y \in {1} : ~led}}
       \cup {<<"cluster_quorum_lost", NoNode>> :
               x \in {y \in {1} : led /\ 2 * Cardinality(voters) <= Cardinality(Electable)}}
       \cup {<<"cluster_id_mismatch", NoNode>> : x \in {y \in {1} : \E i, j \in ids : i # j}}
       \cup {<<"cluster_no_compute_capacity", NoNode>> :
               x \in {y \in {1} : data # {} /\ \A n \in data : ~alive[n]}}
       \cup {<<"fe_journal_lag", f>> :
               f \in {g \in FEs \ {leader} : /\ led /\ policy > 0 /\ alive[g]
                                             /\ columns[leader].journal /\ columns[g].journal
                                             /\ journal[leader] - journal[g] > policy}}

SteadySnapshotIsAccurate == (Collected /\ steady) => Alerts = Expected
=============================================================================
