--------------------------- MODULE MonitoringProofs ---------------------------
(***************************************************************************)
(* What the server reads from StarRocks and what the pages show of it, for *)
(* any nodes, jobs, sources, tables and tablets.                           *)
(*                                                                         *)
(* ClusterTopology, TopologyViews: each list that has been read is one the *)
(* cluster had, and, while the cluster keeps still, has (TopologyInv).     *)
(*                                                                         *)
(* RoutineLoad, RoutineLoadViews: a sweep splits the databases it found    *)
(* into those it has still to read, those that answered and those it warns *)
(* of, and what it has read are the jobs of those that answered            *)
(* (CollectionInv).                                                        *)
(*                                                                         *)
(* AlertPipeline: what has been collected are the alerts of the sources    *)
(* that answered and one event for each that failed (PollerInv).           *)
(*                                                                         *)
(* Storage, StorageViews: how far a request for a table's detail has come  *)
(* decides which of its parts have been read (StorageInv); the rest is     *)
(* TabletLoadsProofs.                                                      *)
(***************************************************************************)
EXTENDS TopologyViews, RoutineLoadViews, AlertPipeline, StorageViews, TabletLoadsProofs

-----------------------------------------------------------------------------
(* ClusterTopology: the lists of nodes *)

\* What TopologyAssumption says, in the sets the module is built from.
LEMMA TopologyFacts ==
    /\ IsFiniteSet(FEs) /\ IsFiniteSet(BEs) /\ IsFiniteSet(CNs)
    /\ FEs \cap BEs = {} /\ FEs \cap CNs = {} /\ BEs \cap CNs = {}
    /\ Electable \subseteq FEs /\ FEs \subseteq Nodes /\ BEs \subseteq Nodes /\ CNs \subseteq Nodes
    /\ NoNode \notin Nodes /\ NoNode \notin FEs
    /\ Releases \subseteq {"role", "ismaster"}
    /\ MaxLags \subseteq Int /\ MaxJournal \in Nat
  BY TopologyAssumption DEF Electable, Nodes

\* A row says whether it has a journal id, and its cluster id, which may be blank.
LEMMA ColumnFacts ==
    ASSUME NEW c \in Columns, NEW f \in FEs
    PROVE  c[f].journal \in BOOLEAN /\ c[f].clusterId \in ClusterIDs \cup {""}
<1>1. c \in [FEs -> [journal : BOOLEAN, clusterId : ClusterIDs \cup {""}]]
  BY TopologyAssumption
<1>2. c[f] \in [journal : BOOLEAN, clusterId : ClusterIDs \cup {""}]
  BY <1>1
<1> QED
  BY <1>2

-----------------------------------------------------------------------------
(* What has been read *)

Frontends == [alive : BOOLEAN, replayed : SUBSET (0..MaxJournal), clusterId : ClusterIDs \cup {""},
              role : {"LEADER", "FOLLOWER", "OBSERVER"}, status : {"HEALTHY", "DOWN"}]

DataNodes == [alive : BOOLEAN, status : {"HEALTHY", "DOWN", "DECOMMISSIONED"}]

\* Down says the status of a node that is not alive, and of no other.
StatusFits(list) == \A n \in DOMAIN list : list[n].status = "DOWN" <=> ~list[n].alive

OneLeader(fes) ==
    \A f, g \in DOMAIN fes : fes[f].role = "LEADER" /\ fes[g].role = "LEADER" => f = g

ClusterType == /\ alive \in [Nodes -> BOOLEAN]
               /\ leader \in Electable \cup {NoNode}
               /\ journal \in [FEs -> 0..MaxJournal]
               /\ release \in Releases
               /\ columns \in Columns

FeRead == /\ fe \in [FEs -> Frontends]
          /\ StatusFits(fe)
          /\ OneLeader(fe)
          /\ steady => fe = [f \in FEs |-> mapFrontend(FeRow(f))]

BeRead == /\ be \in [BEs -> DataNodes]
          /\ StatusFits(be)
          /\ steady => be = [n \in BEs |-> mapDataNode(n)]

CnRead == /\ cn \in [CNs -> DataNodes] \cup [{} -> DataNodes]
          /\ StatusFits(cn)
          /\ steady => cn = [n \in DOMAIN cn |-> mapDataNode(n)]

\* Each list that has been read is one the cluster had, and, while it keeps still, has.
TopologyInv ==
    /\ ClusterType
    /\ policy \in MaxLags
    /\ pc \in {"idle", "backends", "compute", "runmode", "evaluate"}
    /\ pc # "idle" => FeRead
    /\ pc \notin {"idle", "backends"} => BeRead
    /\ pc \in {"runmode", "evaluate"} => CnRead

\* The journal id in a frontend's row, when there is one.
ReportedId(f) == {j \in {journal[f]} : columns[f].journal}

\* A list of frontends read from the cluster as it is (listFrontends).
LEMMA FrontendsRead ==
    ASSUME ClusterType
    PROVE  LET list == [f \in FEs |-> mapFrontend(FeRow(f))]
           IN /\ list \in [FEs -> Frontends] /\ StatusFits(list) /\ OneLeader(list)
              /\ \A f \in FEs : /\ list[f].alive = alive[f] /\ list[f].replayed = ReportedId(f)
                                /\ list[f].clusterId = columns[f].clusterId
                                /\ list[f].role = "LEADER" <=> f = leader
                                /\ list[f].role \in {"LEADER", "FOLLOWER"} <=> f \in Electable
<1> DEFINE row(f) == mapFrontend(FeRow(f))
<1>1. ASSUME NEW f \in FEs
      PROVE  /\ row(f) \in Frontends
             /\ row(f).status = "DOWN" <=> ~row(f).alive
             /\ row(f).alive = alive[f] /\ row(f).replayed = ReportedId(f)
             /\ row(f).clusterId = columns[f].clusterId
             /\ row(f).role = "LEADER" <=> f = leader
             /\ row(f).role \in {"LEADER", "FOLLOWER"} <=> f \in Electable
  <2> DEFINE r == FeRow(f)
  <2>1. /\ r.alive = alive[f] /\ r.replayed = ReportedId(f) /\ r.clusterId = columns[f].clusterId
        /\ r.ismaster = (release = "ismaster" /\ f = leader)
        /\ r.role = IF release = "role" /\ f = leader THEN "LEADER"
                    ELSE IF f \in Observers THEN "OBSERVER" ELSE "FOLLOWER"
    BY DEF FeRow, ReportedId
  <2>2. release \in {"role", "ismaster"} /\ (f = leader => f \in Electable)
    BY TopologyFacts DEF ClusterType
  <2>3. frontendRole(r) = IF f = leader THEN "LEADER"
                          ELSE IF f \in Observers THEN "OBSERVER" ELSE "FOLLOWER"
    BY <2>1, <2>2 DEF frontendRole
  <2>4. /\ alive[f] \in BOOLEAN /\ ReportedId(f) \in SUBSET (0..MaxJournal)
        /\ columns[f].clusterId \in ClusterIDs \cup {""}
    <3>1. f \in Nodes /\ alive \in [Nodes -> BOOLEAN] /\ journal[f] \in 0..MaxJournal
      BY TopologyFacts DEF ClusterType
    <3>2. columns[f].clusterId \in ClusterIDs \cup {""}
      BY ColumnFacts DEF ClusterType
    <3> QED
      BY <3>1, <3>2 DEF ReportedId
  <2> HIDE DEF r
  <2>5. /\ row(f).alive = r.alive /\ row(f).replayed = r.replayed
        /\ row(f).clusterId = r.clusterId /\ row(f).role = frontendRole(r)
        /\ row(f).status = IF r.alive THEN "HEALTHY" ELSE "DOWN"
    BY DEF mapFrontend, r
  <2>6. row(f) = [alive |-> r.alive, replayed |-> r.replayed, clusterId |-> r.clusterId,
                  role |-> frontendRole(r), status |-> IF r.alive THEN "HEALTHY" ELSE "DOWN"]
    BY DEF mapFrontend, r
  <2>7. row(f) \in Frontends
    <3>1. /\ frontendRole(r) \in {"LEADER", "FOLLOWER", "OBSERVER"}
          /\ (IF r.alive THEN "HEALTHY" ELSE "DOWN") \in {"HEALTHY", "DOWN"}
      BY <2>3
    <3>2. /\ r.alive \in BOOLEAN /\ r.replayed \in SUBSET (0..MaxJournal)
          /\ r.clusterId \in ClusterIDs \cup {""}
      BY <2>1, <2>4
    <3> DEFINE role == frontendRole(r)
               status == IF r.alive THEN "HEALTHY" ELSE "DOWN"
               ids == ClusterIDs \cup {""}
               sets == SUBSET (0..MaxJournal)
    <3> HIDE DEF role, status, ids, sets
    <3>3. [alive |-> r.alive, replayed |-> r.replayed, clusterId |-> r.clusterId,
           role |-> role, status |-> status]
            \in [alive : BOOLEAN, replayed : sets, clusterId : ids,
                 role : {"LEADER", "FOLLOWER", "OBSERVER"}, status : {"HEALTHY", "DOWN"}]
      BY <3>1, <3>2 DEF role, status, ids, sets
    <3> QED
      BY <2>6, <3>3 DEF Frontends, role, status, ids, sets
  <2>8. row(f).role = "LEADER" <=> f = leader
    BY <2>3, <2>5
  <2>9. row(f).role \in {"LEADER", "FOLLOWER"} <=> f \in Electable
    BY <2>2, <2>3, <2>5 DEF Electable
  <2>10. row(f).status = "DOWN" <=> ~row(f).alive
    BY <2>5
  <2> QED
    BY <2>1, <2>5, <2>7, <2>8, <2>9, <2>10
<1> HIDE DEF row
<1> QED
  BY <1>1 DEF StatusFits, OneLeader, row

\* A list of backends or compute nodes read from the cluster as it is.
LEMMA DataNodesRead ==
    ASSUME ClusterType, NEW listed, listed \subseteq Nodes
    PROVE  LET list == [n \in listed |-> mapDataNode(n)]
           IN /\ list \in [listed -> DataNodes] /\ StatusFits(list)
              /\ \A n \in listed : list[n].alive = alive[n]
<1>1. ASSUME NEW n \in listed
      PROVE  /\ mapDataNode(n) \in DataNodes /\ mapDataNode(n).alive = alive[n]
             /\ mapDataNode(n).status = "DOWN" <=> ~alive[n]
  <2>1. alive[n] \in BOOLEAN
    BY DEF ClusterType
  <2> QED
    BY <2>1 DEF mapDataNode, dataNodeStatus, DataNodes
<1> QED
  BY <1>1 DEF StatusFits

\* The cluster starts with every node up and nothing read.
LEMMA TopologyStart == Init => TopologyInv
<1> SUFFICES ASSUME Init PROVE TopologyInv
  OBVIOUS
<1>1. journal \in [FEs -> 0..MaxJournal]
  BY TopologyFacts DEF Init
<1> QED
  BY <1>1 DEF Init, TopologyInv, ClusterType

\* What the cluster does leaves the lists alone, and it has not kept still.
LEMMA ClusterStep ==
    ASSUME TopologyInv, NodeChanges \/ Elect \/ JournalGrows \/ Replay
    PROVE  TopologyInv'
<1>1. ~steady' /\ UNCHANGED <<release, columns, policy, pc, fe, be, cn>>
  BY DEF NodeChanges, Elect, JournalGrows, Replay, reading
<1>2. ClusterType'
  <2> USE DEF TopologyInv, ClusterType
  <2>1. CASE NodeChanges
    BY <2>1 DEF NodeChanges
  <2>2. CASE Elect
    BY <2>2 DEF Elect
  <2>3. CASE JournalGrows
    <3>1. leader \in FEs /\ journal[leader] \in 0..MaxJournal /\ journal[leader] < MaxJournal
      BY <2>3, TopologyFacts DEF JournalGrows
    <3>2. journal' \in [FEs -> 0..MaxJournal]
      <4>1. journal' = [journal EXCEPT ![leader] = journal[leader] + 1]
        BY <2>3 DEF JournalGrows
      <4>2. journal[leader] + 1 \in 0..MaxJournal
        BY <3>1, TopologyFacts
      <4> QED
        BY <4>1, <4>2
    <3> QED
      BY <2>3, <3>2 DEF JournalGrows
  <2>4. CASE Replay
    <3>1. PICK f \in FEs : /\ leader # NoNode /\ journal[f] < journal[leader]
                           /\ journal' = [journal EXCEPT ![f] = @ + 1]
      BY <2>4 DEF Replay
    <3>2. leader \in FEs /\ journal[leader] \in 0..MaxJournal /\ journal[f] \in 0..MaxJournal
      BY <3>1, TopologyFacts
    <3>3. journal' \in [FEs -> 0..MaxJournal]
      <4>1. journal[f] + 1 \in 0..MaxJournal
        BY <3>1, <3>2, TopologyFacts
      <4> QED
        BY <3>1, <4>1
    <3> QED
      BY <2>4, <3>3 DEF Replay
  <2> QED
    BY <2>1, <2>2, <2>3, <2>4
<1> QED
  BY <1>1, <1>2 DEF TopologyInv, FeRead, BeRead, CnRead

\* A step of the cluster ends steady; a step of the collector reads what the cluster has.
LEMMA TopologyStep == TopologyInv /\ [Next]_vars => TopologyInv'
<1> SUFFICES ASSUME TopologyInv, [Next]_vars PROVE TopologyInv'
  OBVIOUS
<1>1. CASE NodeChanges \/ Elect \/ JournalGrows \/ Replay
  BY <1>1, ClusterStep
<1>2. CASE \/ SetAlertPolicy \/ ReadFrontends \/ ReadBackends \/ BackendsFail
           \/ ReadComputeNodes \/ resolveRunMode \/ Done \/ UNCHANGED vars
  <2>1. UNCHANGED <<alive, leader, journal, release, columns>> /\ policy' \in MaxLags
    BY <1>2 DEF SetAlertPolicy, ReadFrontends, ReadBackends, BackendsFail, ReadComputeNodes,
                resolveRunMode, Done, Forget, vars, cluster, TopologyInv
  <2>2. ClusterType /\ ClusterType'
    BY <2>1 DEF TopologyInv, ClusterType
  <2>3. /\ [f \in FEs |-> mapFrontend(FeRow(f))]' = [f \in FEs |-> mapFrontend(FeRow(f))]
        /\ \A listed : [n \in listed |-> mapDataNode(n)]' = [n \in listed |-> mapDataNode(n)]
    <3>1. \A f : FeRow(f)' = FeRow(f)
      BY <2>1 DEF FeRow
    <3>2. \A n : mapDataNode(n)' = mapDataNode(n)
      BY <2>1 DEF mapDataNode
    <3> QED
      BY <3>1, <3>2
  <2>4. CASE SetAlertPolicy \/ resolveRunMode \/ UNCHANGED vars
    <3>1. UNCHANGED <<fe, be, cn, steady>> /\ (pc' = pc \/ (pc = "runmode" /\ pc' = "evaluate"))
      BY <2>4 DEF SetAlertPolicy, resolveRunMode, vars, reading
    <3>2. FeRead => FeRead'
      BY <2>3, <3>1 DEF FeRead, StatusFits, OneLeader
    <3>3. BeRead => BeRead'
      BY <2>3, <3>1 DEF BeRead, StatusFits
    <3>4. CnRead => CnRead'
      BY <2>3, <3>1 DEF CnRead, StatusFits
    <3> QED
      BY <2>1, <2>2, <3>1, <3>2, <3>3, <3>4 DEF TopologyInv
  <2>5. CASE ReadFrontends
    <3>1. /\ fe' = [f \in FEs |-> mapFrontend(FeRow(f))] /\ pc' = "backends"
      BY <2>5 DEF ReadFrontends
    <3>2. FeRead'
      BY <2>2, <2>3, <3>1, FrontendsRead DEF FeRead, StatusFits, OneLeader
    <3> QED
      BY <2>1, <2>2, <3>1, <3>2 DEF TopologyInv
  <2>6. CASE ReadBackends
    <3>1. /\ be' = [n \in BEs |-> mapDataNode(n)] /\ pc = "backends" /\ pc' = "compute"
          /\ UNCHANGED <<fe, steady>>
      BY <2>6 DEF ReadBackends
    <3>2. FeRead'
      BY <2>3, <3>1 DEF TopologyInv, FeRead, StatusFits, OneLeader
    <3>3. BEs \subseteq Nodes
      BY TopologyFacts
    <3>4. BeRead'
      BY <2>2, <2>3, <3>1, <3>3, DataNodesRead DEF BeRead, StatusFits
    <3> QED
      BY <2>1, <2>2, <3>1, <3>2, <3>4 DEF TopologyInv
  <2>7. CASE ReadComputeNodes
    <3>1. /\ pc = "compute" /\ pc' = "runmode"
          /\ UNCHANGED <<fe, be, steady>>
      BY <2>7 DEF ReadComputeNodes
    <3>2. PICK listed \in {CNs, {}} : cn' = [n \in listed |-> mapDataNode(n)]
      BY <2>7 DEF ReadComputeNodes
    <3>3. listed \subseteq Nodes
      BY TopologyFacts
    <3>4. FeRead'
      BY <2>3, <3>1 DEF TopologyInv, FeRead, StatusFits, OneLeader
    <3>5. BeRead'
      BY <2>3, <3>1 DEF TopologyInv, BeRead, StatusFits
    <3>6. cn' \in [listed -> DataNodes] /\ StatusFits(cn')
      BY <2>2, <3>2, <3>3, DataNodesRead
    <3>7. DOMAIN cn' = listed /\ cn' = [n \in DOMAIN cn |-> mapDataNode(n)]'
      BY <2>3, <3>2
    <3>8. CnRead'
      BY <3>6, <3>7 DEF CnRead, StatusFits
    <3> QED
      BY <2>1, <2>2, <3>1, <3>4, <3>5, <3>8 DEF TopologyInv
  <2>8. CASE BackendsFail \/ Done
    BY <2>1, <2>2, <2>8 DEF BackendsFail, Done, Forget, TopologyInv
  <2> QED
    BY <1>2, <2>4, <2>5, <2>6, <2>7, <2>8
<1> QED
  BY <1>1, <1>2 DEF Next

\* The invariant of a collection.
LEMMA TopologyInvHolds == Spec => []TopologyInv
  BY TopologyStart, TopologyStep, PTL DEF Spec

-----------------------------------------------------------------------------
(* The summary and the alerts *)

Lists == /\ Collected
         /\ FeRead /\ BeRead /\ CnRead
         /\ policy \in Int

\* A collection that has ended has its three lists.
LEMMA ListFacts ==
    ASSUME TopologyInv, Collected
    PROVE  Lists
  BY TopologyFacts DEF TopologyInv, Lists, Collected

\* What the lists hold, node by node.
LEMMA ListTypes ==
    ASSUME Lists
    PROVE  /\ DOMAIN fe = FEs /\ DOMAIN be = BEs /\ DOMAIN cn \in {CNs, {}} /\ DOMAIN cn \subseteq CNs
           /\ \A f \in FEs : /\ fe[f].alive \in BOOLEAN
                             /\ fe[f].role \in {"LEADER", "FOLLOWER", "OBSERVER"}
                             /\ fe[f].status \in {"HEALTHY", "DOWN"}
           /\ \A n \in DOMAIN be : be[n].alive \in BOOLEAN
                                   /\ be[n].status \in {"HEALTHY", "DOWN", "DECOMMISSIONED"}
           /\ \A n \in DOMAIN cn : cn[n].alive \in BOOLEAN
                                   /\ cn[n].status \in {"HEALTHY", "DOWN", "DECOMMISSIONED"}
           /\ StatusFits(fe) /\ StatusFits(be) /\ StatusFits(cn)
           /\ policy \in Int
<1>1. \A f \in FEs : fe[f] \in Frontends
  BY DEF Lists, FeRead
<1>2. \A n \in DOMAIN be : be[n] \in DataNodes
  BY DEF Lists, BeRead
<1>3. \A n \in DOMAIN cn : cn[n] \in DataNodes
  BY DEF Lists, CnRead
<1>4. DOMAIN fe = FEs /\ DOMAIN be = BEs /\ DOMAIN cn \in {CNs, {}}
  BY DEF Lists, FeRead, BeRead, CnRead
<1> QED
  BY <1>1, <1>2, <1>3, <1>4 DEF Frontends, DataNodes, Lists, FeRead, BeRead, CnRead

-----------------------------------------------------------------------------
(* summarize and the alert rules *)

\* The alert rules, one by one.
LEMMA AlertIs ==
    ASSUME NEW a
    PROVE  a \in Alerts <=>
      \/ a = <<"cluster_no_leader", NoNode>> /\ LeaderHost(fe) = {}
      \/ a = <<"cluster_quorum_lost", NoNode>> /\ LeaderHost(fe) # {} /\ ~QuorumHealthy(fe)
      \/ a = <<"cluster_id_mismatch", NoNode>> /\ ClusterIDMismatch(fe)
      \/ a = <<"cluster_no_compute_capacity", NoNode>>
           /\ DOMAIN be \cup DOMAIN cn # {} /\ Up(be) \cup Up(cn) = {}
      \/ \E n \in (DOMAIN fe \ Up(fe)) \cup (DOMAIN be \ Up(be)) \cup (DOMAIN cn \ Up(cn)) :
           a = <<"cluster_node_down", n>>
      \/ \E f \in Replicas(fe) : /\ a = <<"fe_journal_lag", f>> /\ ~(policy <= 0)
                                 /\ \E lag \in JournalLag(fe, f) : lag > policy
<1>1. a \in nodeDownAlerts(fe, be, cn) <=>
         \E n \in (DOMAIN fe \ Up(fe)) \cup (DOMAIN be \ Up(be)) \cup (DOMAIN cn \ Up(cn)) :
           a = <<"cluster_node_down", n>>
  BY DEF nodeDownAlerts
<1>2. a \in journalLagAlerts(fe) <=>
         \E f \in Replicas(fe) : /\ a = <<"fe_journal_lag", f>> /\ ~(policy <= 0)
                                 /\ \E lag \in JournalLag(fe, f) : lag > policy
  BY DEF journalLagAlerts
<1> QED
  BY <1>1, <1>2 DEF Alerts, EvaluateAlerts

\* summarize's healthy against the alerts that matter, whatever the lists.
LEMMA HealthJudgedAlike ==
    ASSUME Lists
    PROVE  HealthAgreesWithAlerts
<1>1. ASSUME Healthy(fe, be, cn), NEW a \in Urgent PROVE FALSE
  <2>1. a \in Alerts /\ a[1] # "fe_journal_lag"
    BY <1>1 DEF Urgent
  <2>2. Up(fe) = DOMAIN fe /\ Up(be) = DOMAIN be /\ Up(cn) = DOMAIN cn
    BY <1>1 DEF Healthy
  <2> QED
    BY <1>1, <2>1, <2>2, AlertIs DEF Healthy
<1>2. ASSUME ~Healthy(fe, be, cn), DOMAIN be \cup DOMAIN cn # {} PROVE Urgent # {}
  <2>1. \A a : a \in Alerts /\ a[1] # "fe_journal_lag" => Urgent # {}
    BY DEF Urgent
  <2>2. Up(fe) \subseteq DOMAIN fe /\ Up(be) \subseteq DOMAIN be /\ Up(cn) \subseteq DOMAIN cn
    BY DEF Up
  <2>3. CASE LeaderHost(fe) = {}
    <3>1. <<"cluster_no_leader", NoNode>> \in Alerts
      BY <2>3, AlertIs
    <3> QED
      BY <2>1, <3>1
  <2>4. CASE LeaderHost(fe) # {} /\ ~QuorumHealthy(fe)
    <3>1. <<"cluster_quorum_lost", NoNode>> \in Alerts
      BY <2>4, AlertIs
    <3> QED
      BY <2>1, <3>1
  <2>5. CASE ClusterIDMismatch(fe)
    <3>1. <<"cluster_id_mismatch", NoNode>> \in Alerts
      BY <2>5, AlertIs
    <3> QED
      BY <2>1, <3>1
  <2>6. CASE ~(Up(fe) = DOMAIN fe /\ Up(be) = DOMAIN be /\ Up(cn) = DOMAIN cn)
    <3>1. PICK n \in (DOMAIN fe \ Up(fe)) \cup (DOMAIN be \ Up(be)) \cup (DOMAIN cn \ Up(cn)) : TRUE
      BY <2>2, <2>6
    <3>2. <<"cluster_node_down", n>> \in Alerts
      BY AlertIs
    <3> QED
      BY <2>1, <3>2
  <2> QED
    BY <1>2, <2>3, <2>4, <2>5, <2>6 DEF Healthy
<1> QED
  BY <1>1, <1>2 DEF HealthAgreesWithAlerts

\* A replica's lag is within the journal.
LEMMA LagFacts ==
    ASSUME Lists, NEW f \in FEs
    PROVE  /\ JournalLag(fe, f) \subseteq 0..MaxJournal
           /\ \A lag \in JournalLag(fe, f) : lag \in Int
<1>1. \A g \in FEs : fe[g].replayed \subseteq 0..MaxJournal
  <2>1. \A g \in FEs : fe[g] \in Frontends
    BY DEF Lists, FeRead
  <2> QED
    BY <2>1 DEF Frontends
<1>2. LiveLeaders(fe) \subseteq FEs
  BY ListTypes DEF LiveLeaders
<1>3. \A j, i \in 0..MaxJournal : LagBetween(j, i) \in 0..MaxJournal
  <2> SUFFICES ASSUME NEW j \in 0..MaxJournal, NEW i \in 0..MaxJournal
               PROVE  LagBetween(j, i) \in 0..MaxJournal
    OBVIOUS
  <2>1. MaxJournal \in Nat /\ j \in Int /\ i \in Int /\ 0 <= i /\ 0 <= j /\ j <= MaxJournal
    BY TopologyFacts
  <2>2. LagBetween(j, i) = IF j > i THEN j - i ELSE 0
    BY DEF LagBetween
  <2> QED
    BY <2>1, <2>2
<1>4. JournalLag(fe, f) \subseteq 0..MaxJournal
  <2>1. UNION {fe[l].replayed : l \in LiveLeaders(fe)} \subseteq 0..MaxJournal
        /\ fe[f].replayed \subseteq 0..MaxJournal
    BY <1>1, <1>2
  <2> DEFINE own == UNION {fe[l].replayed : l \in LiveLeaders(fe)}
             its == fe[f].replayed
  <2>2. JournalLag(fe, f) = {LagBetween(j, i) : j \in own, i \in its}
    BY DEF JournalLag
  <2>3. ASSUME NEW lag \in JournalLag(fe, f) PROVE lag \in 0..MaxJournal
    <3> HIDE DEF own, its
    <3>1. PICK j \in own, i \in its : lag = LagBetween(j, i)
      BY <2>2, <2>3
    <3>2. j \in 0..MaxJournal /\ i \in 0..MaxJournal
      BY <2>1, <3>1 DEF own, its
    <3> QED
      BY <1>3, <3>1, <3>2
  <2> QED
    BY <2>3
<1> QED
  BY <1>4, TopologyFacts

\* The largest lag of the summary against the lag alerts.
LEMMA LagJudgedAlike ==
    ASSUME Lists
    PROVE  LagAgreesWithAlerts
<1> DEFINE lags == UNION {JournalLag(fe, f) : f \in Replicas(fe)}
<1>1. Replicas(fe) \subseteq FEs
  BY ListTypes DEF Replicas
<1>2. lags \subseteq 0..MaxJournal
  BY <1>1, LagFacts
<1>3. IsFiniteSet(lags)
  <2>1. IsFiniteSet(0..MaxJournal)
    BY TopologyFacts, FS_Interval
  <2>2. lags \in SUBSET (0..MaxJournal)
    BY <1>2
  <2> HIDE DEF lags
  <2> QED
    BY <2>1, <2>2, FS_Subset
<1>4. \A lag \in lags : lag \in Int
  BY <1>2
<1>5. MaxJournalLag(fe) = IF lags = {} THEN {} ELSE {Max(lags)}
  BY DEF MaxJournalLag
<1>6. (\E a \in Alerts : a[1] = "fe_journal_lag")
        <=> (policy > 0 /\ \E lag \in lags : lag > policy)
  <2>1. policy \in Int
    BY DEF Lists
  <2>2. ASSUME NEW a \in Alerts, a[1] = "fe_journal_lag"
        PROVE  policy > 0 /\ \E lag \in lags : lag > policy
    BY <2>1, <2>2, AlertIs
  <2>3. ASSUME policy > 0, NEW lag \in lags, lag > policy
        PROVE  \E a \in Alerts : a[1] = "fe_journal_lag"
    <3>1. PICK f \in Replicas(fe) : lag \in JournalLag(fe, f)
      BY <2>3
    <3>2. <<"fe_journal_lag", f>> \in Alerts
      BY <2>1, <2>3, <3>1, AlertIs
    <3> QED
      BY <3>2
  <2> QED
    BY <2>2, <2>3
<1> HIDE DEF lags
<1>7. lags # {} => Max(lags) \in lags /\ \A lag \in lags : Max(lags) >= lag
  BY <1>3, <1>4, MaxIs
<1>8. (\E lag \in lags : lag > policy) <=> \E lag \in MaxJournalLag(fe) : lag > policy
  <2>1. policy \in Int
    BY DEF Lists
  <2>2. CASE lags = {}
    BY <1>5, <2>2
  <2>3. CASE lags # {}
    <3>1. Max(lags) \in Int /\ Max(lags) \in lags /\ \A lag \in lags : Max(lags) >= lag
      BY <1>4, <1>7, <2>3
    <3>2. (\E lag \in MaxJournalLag(fe) : lag > policy) <=> Max(lags) > policy
      BY <1>5, <2>3
    <3>3. \A lag \in lags : lag > policy => Max(lags) > policy
      BY <1>4, <2>1, <3>1
    <3> QED
      BY <3>1, <3>2, <3>3
  <2> QED
    BY <2>2, <2>3
<1> QED
  BY <1>6, <1>8 DEF LagAgreesWithAlerts

\* summarize and EvaluateAlerts judge the same lists alike (cluster_service.go:287 and 324,
\* cluster_alerts.go:63 and 163): for any nodes and thresholds, also on lists read at
\* different moments of a changing cluster.
THEOREM SummaryAndAlertsAgree == Spec => []SummaryAgreesWithAlerts
<1>1. TopologyInv => SummaryAgreesWithAlerts
  BY ListFacts, HealthJudgedAlike, LagJudgedAlike DEF SummaryAgreesWithAlerts
<1> QED
  BY <1>1, TopologyInvHolds, PTL

-----------------------------------------------------------------------------
(* A snapshot of a cluster that kept still *)

Still == Lists /\ steady /\ ClusterType

\* Of a cluster that kept still, the lists say what is.
LEMMA StillLists ==
    ASSUME Still
    PROVE  /\ \A f \in FEs : /\ fe[f].alive = alive[f] /\ fe[f].replayed = ReportedId(f)
                             /\ fe[f].clusterId = columns[f].clusterId
                             /\ fe[f].role = "LEADER" <=> f = leader
                             /\ fe[f].role \in {"LEADER", "FOLLOWER"} <=> f \in Electable
           /\ \A n \in BEs : be[n].alive = alive[n]
           /\ \A n \in DOMAIN cn : cn[n].alive = alive[n]
<1>1. /\ fe = [f \in FEs |-> mapFrontend(FeRow(f))] /\ be = [n \in BEs |-> mapDataNode(n)]
      /\ cn = [n \in DOMAIN cn |-> mapDataNode(n)]
  BY DEF Still, Lists, FeRead, BeRead, CnRead
<1>2. BEs \subseteq Nodes /\ DOMAIN cn \subseteq Nodes
  BY TopologyFacts, ListTypes DEF Still
<1> HIDE DEF Still
<1>3. ClusterType
  BY DEF Still
<1> QED
  BY <1>1, <1>2, <1>3, FrontendsRead, DataNodesRead

\* The quorum of a cluster that kept still, by counting its electable frontends.
LEMMA StillQuorum ==
    ASSUME Still, leader # NoNode, alive[leader]
    PROVE  ~QuorumHealthy(fe)
             <=> 2 * Cardinality({f \in Electable : alive[f]}) <= Cardinality(Electable)
<1>1. Voters(fe) = Electable /\ leader \in Electable
  BY StillLists, ListTypes, TopologyFacts DEF Voters, Still, ClusterType
<1>2. Voters(fe) \cap Up(fe) = {f \in Electable : alive[f]}
  BY <1>1, StillLists, ListTypes, TopologyFacts DEF Up, Still
<1> DEFINE total == Cardinality(Electable)
           up == Cardinality({f \in Electable : alive[f]})
<1>3. IsFiniteSet(Electable) /\ IsFiniteSet({f \in Electable : alive[f]})
  <2>1. Electable \in SUBSET FEs /\ {f \in Electable : alive[f]} \in SUBSET FEs
    BY TopologyFacts
  <2> QED
    BY <2>1, TopologyFacts, FS_Subset
<1>4. total \in Nat /\ up \in Nat /\ total # 0
  BY <1>1, <1>3, FS_CardinalityType, FS_EmptySet
<1>5. QuorumHealthy(fe) <=> total > 0 /\ up > total \div 2
  BY <1>1, <1>2 DEF QuorumHealthy
<1> HIDE DEF total, up
<1>6. up > total \div 2 <=> 2 * up > total
  BY <1>4
<1>7. ~QuorumHealthy(fe) <=> 2 * up <= total
  BY <1>4, <1>5, <1>6
<1> QED
  BY <1>7 DEF total, up

\* Cluster ids differ when two frontends report different ones; a blank id is none.
LEMMA StillMismatch ==
    ASSUME Still
    PROVE  ClusterIDMismatch(fe) <=> \E i, j \in {columns[f].clusterId : f \in FEs} \ {""} : i # j
<1> DEFINE all == {columns[f].clusterId : f \in FEs}
           ids == all \ {""}
<1>1. {fe[f].clusterId : f \in DOMAIN fe} = all
  <2>1. DOMAIN fe = FEs /\ \A f \in FEs : fe[f].clusterId = columns[f].clusterId
    BY StillLists, ListTypes DEF Still
  <2> QED
    BY <2>1
<1>2. IsFiniteSet(all)
  <2> DEFINE id == [f \in FEs |-> columns[f].clusterId]
  <2>1. id \in Surjection(FEs, all)
    BY DEF Surjection
  <2> HIDE DEF id, all
  <2> QED
    BY <2>1, TopologyFacts, FS_Surjection
<1>3. IsFiniteSet(ids)
  BY <1>2, FS_Difference
<1> HIDE DEF all
<1>4. Cardinality(ids) > 1 <=> \E x, y \in ids : x # y
  <2> HIDE DEF ids
  <2> QED
    BY <1>3, MoreThanOne
<1>5. ClusterIDMismatch(fe) <=> Cardinality(ids) > 1
  BY <1>1 DEF ClusterIDMismatch
<1> QED
  BY <1>4, <1>5 DEF all

\* A replica trails when it and the live leader both report their journal ids and its is
\* further behind than the threshold.
TrailsBy(f) == /\ f \in FEs \ {leader} /\ leader # NoNode /\ alive[leader]
             /\ policy > 0 /\ alive[f]
             /\ columns[leader].journal /\ columns[f].journal
             /\ journal[leader] - journal[f] > policy

\* The lag of a replica is that of the cluster that kept still.
LEMMA StillLag ==
    ASSUME Still, NEW f
    PROVE  (/\ f \in Replicas(fe) /\ ~(policy <= 0)
            /\ \E lag \in JournalLag(fe, f) : lag > policy)
           <=> TrailsBy(f)
<1>1. f \in Replicas(fe) <=> f \in FEs \ {leader} /\ alive[f]
  BY StillLists, ListTypes DEF Replicas, Still
<1>2. \A l : l \in LiveLeaders(fe) <=> l = leader /\ l \in FEs /\ alive[l]
  BY StillLists, ListTypes DEF LiveLeaders, Still
<1>3. leader \in FEs <=> leader # NoNode
  BY TopologyFacts DEF Still, ClusterType
<1>4. policy \in Int /\ \A g \in FEs : fe[g].replayed = ReportedId(g) /\ journal[g] \in Int
  BY StillLists, TopologyFacts DEF Still, Lists, ClusterType
<1>5. ASSUME f \in FEs, leader \in FEs, alive[leader], policy > 0
      PROVE  (\E lag \in JournalLag(fe, f) : lag > policy)
                <=> /\ columns[leader].journal /\ columns[f].journal
                    /\ journal[leader] - journal[f] > policy
  <2>1. UNION {fe[l].replayed : l \in LiveLeaders(fe)} = ReportedId(leader)
    BY <1>2, <1>4, <1>5
  <2>2. JournalLag(fe, f) = {LagBetween(j, i) : j \in ReportedId(leader), i \in ReportedId(f)}
    <3> DEFINE own == UNION {fe[l].replayed : l \in LiveLeaders(fe)}
               its == fe[f].replayed
    <3>1. JournalLag(fe, f) = {LagBetween(j, i) : j \in own, i \in its}
      BY DEF JournalLag
    <3>2. own = ReportedId(leader) /\ its = ReportedId(f)
      BY <1>4, <1>5, <2>1
    <3> HIDE DEF own, its
    <3> QED
      BY <3>1, <3>2
  <2>3. (\E lag \in JournalLag(fe, f) : lag > policy)
          <=> \E j \in ReportedId(leader), i \in ReportedId(f) : LagBetween(j, i) > policy
    BY <2>2
  <2>4. journal[leader] \in Int /\ journal[f] \in Int
    BY <1>4, <1>5
  <2>5. LagBetween(journal[leader], journal[f]) > policy <=> journal[leader] - journal[f] > policy
    <3> DEFINE j == journal[leader]
               i == journal[f]
    <3>1. LagBetween(j, i) = IF j > i THEN j - i ELSE 0
      BY DEF LagBetween
    <3>2. j \in Int /\ i \in Int /\ policy \in Int /\ policy > 0
      BY <1>4, <1>5, <2>4
    <3> HIDE DEF j, i
    <3>3. LagBetween(j, i) > policy <=> j - i > policy
      BY <3>1, <3>2
    <3> QED
      BY <3>3 DEF j, i
  <2> QED
    BY <2>3, <2>5 DEF ReportedId
<1>6. ASSUME ~(leader \in FEs /\ alive[leader]) PROVE JournalLag(fe, f) = {}
  BY <1>2, <1>6 DEF JournalLag
<1> QED
  BY <1>1, <1>3, <1>4, <1>5, <1>6 DEF TrailsBy

-----------------------------------------------------------------------------
(* A cluster that keeps still *)

\* Expected, alert by alert.
LEMMA ExpectedIs ==
    ASSUME NEW a
    PROVE  LET led == leader # NoNode /\ alive[leader]
               data == BEs \cup DOMAIN cn
           IN a \in Expected <=>
      \/ a = <<"cluster_no_leader", NoNode>> /\ ~led
      \/ a = <<"cluster_quorum_lost", NoNode>> /\ led
           /\ 2 * Cardinality({f \in Electable : alive[f]}) <= Cardinality(Electable)
      \/ a = <<"cluster_id_mismatch", NoNode>>
           /\ \E i, j \in {columns[f].clusterId : f \in FEs} \ {""} : i # j
      \/ a = <<"cluster_no_compute_capacity", NoNode>> /\ data # {} /\ \A n \in data : ~alive[n]
      \/ \E n \in FEs \cup data : ~alive[n] /\ a = <<"cluster_node_down", n>>
      \/ \E f : a = <<"fe_journal_lag", f>> /\ TrailsBy(f)
<1>1. \A P : P \in BOOLEAN => ((\E x \in {y \in {1} : P} : TRUE) <=> P)
  OBVIOUS
<1> QED
  BY DEF Expected, TrailsBy

\* EvaluateAlerts on a cluster that kept still.
LEMMA StillAlerts ==
    ASSUME Still
    PROVE  Alerts = Expected
<1> DEFINE led == leader # NoNode /\ alive[leader]
           data == BEs \cup DOMAIN cn
<1>1. LeaderHost(fe) # {} <=> led
  <2>1. \A l : l \in LiveLeaders(fe) <=> l = leader /\ l \in FEs /\ alive[l]
    BY StillLists, ListTypes DEF LiveLeaders, Still
  <2>2. leader \in FEs <=> leader # NoNode
    BY TopologyFacts DEF Still, ClusterType
  <2> QED
    BY <2>1, <2>2 DEF LeaderHost
<1>2. led => (~QuorumHealthy(fe)
                 <=> 2 * Cardinality({f \in Electable : alive[f]}) <= Cardinality(Electable))
  BY StillQuorum
<1>3. ClusterIDMismatch(fe) <=> \E i, j \in {columns[f].clusterId : f \in FEs} \ {""} : i # j
  BY StillMismatch
<1>4. /\ DOMAIN fe = FEs /\ Up(fe) = {f \in FEs : alive[f]}
      /\ DOMAIN be = BEs /\ Up(be) = {n \in BEs : alive[n]}
      /\ Up(cn) = {n \in DOMAIN cn : alive[n]}
  BY StillLists, ListTypes DEF Up, Still
<1>5. DOMAIN be \cup DOMAIN cn = data
      /\ (Up(be) \cup Up(cn) = {} <=> \A n \in data : ~alive[n])
  BY <1>4
<1>6. \A n : n \in (DOMAIN fe \ Up(fe)) \cup (DOMAIN be \ Up(be)) \cup (DOMAIN cn \ Up(cn))
               <=> n \in FEs \cup data /\ ~alive[n]
  BY <1>4
<1>7. \A f : (/\ f \in Replicas(fe) /\ ~(policy <= 0)
              /\ \E lag \in JournalLag(fe, f) : lag > policy)
           <=> TrailsBy(f)
  BY StillLag
<1>8. ASSUME NEW a PROVE a \in Alerts <=> a \in Expected
  <2>1. (\E f \in Replicas(fe) : /\ a = <<"fe_journal_lag", f>> /\ ~(policy <= 0)
                                 /\ \E lag \in JournalLag(fe, f) : lag > policy)
        <=> \E f : a = <<"fe_journal_lag", f>> /\ TrailsBy(f)
    BY <1>7
  <2>2. (\E n \in (DOMAIN fe \ Up(fe)) \cup (DOMAIN be \ Up(be)) \cup (DOMAIN cn \ Up(cn)) :
           a = <<"cluster_node_down", n>>)
        <=> \E n \in FEs \cup data : ~alive[n] /\ a = <<"cluster_node_down", n>>
    BY <1>6
  <2> QED
    BY <1>1, <1>2, <1>3, <1>5, <2>1, <2>2, AlertIs, ExpectedIs
<1> QED
  BY <1>8, Zenon DEF Alerts, EvaluateAlerts, Expected

\* When the cluster kept still while it was read, the alerts name the dead nodes, the
\* missing leader or majority, two cluster ids that differ and the replicas that trail, and
\* nothing else (cluster_service.go:70 excepted: a failed SHOW COMPUTE NODES hides those);
\* ids and journal ids that are not reported raise nothing (cluster_service.go:282, 399,
\* 410): for any nodes, reported columns, releases and thresholds.
THEOREM AlertsAreAccurate == Spec => []SteadySnapshotIsAccurate
<1>1. TopologyInv => SteadySnapshotIsAccurate
  BY ListFacts, StillAlerts DEF SteadySnapshotIsAccurate, TopologyInv, Still
<1> QED
  BY <1>1, TopologyInvHolds, PTL

-----------------------------------------------------------------------------
(* The page, the header and the sidebar *)

\* The nodes a list has down, and their number.
DownIn(list) == {n \in DOMAIN list : list[n].status = "DOWN"}

\* The nodes that are down are counted by what is left of the total.
LEMMA DownCounted ==
    ASSUME NEW list, IsFiniteSet(DOMAIN list), StatusFits(list)
    PROVE  /\ DownIn(list) = DOMAIN list \ Up(list)
           /\ IsFiniteSet(DownIn(list))
           /\ Cardinality(DOMAIN list) \in Nat /\ Cardinality(Up(list)) \in Nat
           /\ Cardinality(DOMAIN list) - Cardinality(Up(list)) = Cardinality(DownIn(list))
           /\ Cardinality(DOMAIN list) = 0 <=> DOMAIN list = {}
<1>1. DownIn(list) = DOMAIN list \ Up(list)
  BY DEF DownIn, Up, StatusFits
<1>2. Up(list) \in SUBSET DOMAIN list /\ DownIn(list) \in SUBSET DOMAIN list
  BY DEF Up, DownIn
<1>3. IsFiniteSet(Up(list)) /\ IsFiniteSet(DownIn(list))
  BY <1>2, FS_Subset
<1>4. DownIn(list) \cap Up(list) = {} /\ DownIn(list) \cup Up(list) = DOMAIN list
  BY <1>1, <1>2
<1>5. /\ Cardinality(DownIn(list)) \in Nat /\ Cardinality(Up(list)) \in Nat
      /\ Cardinality(DOMAIN list) = Cardinality(DownIn(list)) + Cardinality(Up(list))
  BY <1>3, <1>4, DisjointUnion
<1>6. Cardinality(DOMAIN list) \in Nat /\ (Cardinality(DOMAIN list) = 0 <=> DOMAIN list = {})
  BY FS_CardinalityType, FS_EmptySet
<1> QED
  BY <1>1, <1>3, <1>5, <1>6

\* There are finitely many nodes to count.
LEMMA ListsAreFinite ==
    ASSUME Lists
    PROVE  IsFiniteSet(DOMAIN fe) /\ IsFiniteSet(DOMAIN be) /\ IsFiniteSet(DOMAIN cn)
  BY ListTypes, TopologyFacts, FS_EmptySet

Red == DownIn(fe) \cup DownIn(be) \cup DownIn(cn)

\* TotalDown, a sum over the three layers, counts the nodes that are down.
LEMMA TotalDownIs ==
    ASSUME Lists
    PROVE  /\ TotalDown(summarize(fe, be, cn)) = Cardinality(Red)
           /\ Cardinality(Red) \in Nat
           /\ Cardinality(Red) = 0 <=> Red = {}
<1>1. /\ Cardinality(DOMAIN fe) - Cardinality(Up(fe)) = Cardinality(DownIn(fe))
      /\ Cardinality(DOMAIN be) - Cardinality(Up(be)) = Cardinality(DownIn(be))
      /\ Cardinality(DOMAIN cn) - Cardinality(Up(cn)) = Cardinality(DownIn(cn))
      /\ IsFiniteSet(DownIn(fe)) /\ IsFiniteSet(DownIn(be)) /\ IsFiniteSet(DownIn(cn))
  BY ListTypes, ListsAreFinite, DownCounted
<1>2. TotalDown(summarize(fe, be, cn))
        = Cardinality(DownIn(fe)) + Cardinality(DownIn(be)) + Cardinality(DownIn(cn))
  BY <1>1 DEF TotalDown, Down, summarize
<1>3. DownIn(fe) \cap DownIn(be) = {} /\ (DownIn(fe) \cup DownIn(be)) \cap DownIn(cn) = {}
  <2>1. DownIn(fe) \subseteq FEs /\ DownIn(be) \subseteq BEs /\ DownIn(cn) \subseteq CNs
    BY ListTypes DEF DownIn
  <2> QED
    BY <2>1, TopologyFacts
<1> DEFINE both == DownIn(fe) \cup DownIn(be)
<1>4. IsFiniteSet(both) /\ Cardinality(both) = Cardinality(DownIn(fe)) + Cardinality(DownIn(be))
  BY <1>1, <1>3, DisjointUnion
<1>5. both \cap DownIn(cn) = {} /\ Red = both \cup DownIn(cn)
  BY <1>3 DEF Red
<1> HIDE DEF both
<1>6. IsFiniteSet(Red) /\ Cardinality(Red) = Cardinality(both) + Cardinality(DownIn(cn))
  BY <1>1, <1>4, <1>5, DisjointUnion
<1>7. Cardinality(Red) \in Nat /\ (Cardinality(Red) = 0 <=> Red = {})
  BY <1>6, FS_CardinalityType, FS_EmptySet
<1> QED
  BY <1>2, <1>4, <1>6, <1>7

Page(mode) == TopologyPage(Topology(fe, be, cn, mode))

\* The sections of the page: those of the layers that have nodes, at least.
LEMMA SectionsAre ==
    ASSUME Lists, NEW mode
    PROVE  LET sections == Page(mode).sections
           IN /\ DOMAIN sections \subseteq Layers /\ "frontends" \in DOMAIN sections
              /\ sections["frontends"] = NodeSection(fe)
              /\ "backends" \in DOMAIN sections => sections["backends"] = NodeSection(be)
              /\ "compute" \in DOMAIN sections => sections["compute"] = NodeSection(cn)
              /\ "backends" \in DOMAIN sections
                   <=> Cardinality(DOMAIN be) > 0 \/ mode # "shared_data"
              /\ "compute" \in DOMAIN sections
                   <=> Cardinality(DOMAIN cn) > 0 \/ mode = "shared_data"
              /\ DOMAIN be # {} => "backends" \in DOMAIN sections
              /\ DOMAIN cn # {} => "compute" \in DOMAIN sections
<1> DEFINE t == Topology(fe, be, cn, mode)
           S == {"frontends"}
                  \cup {x \in {"backends"} : ShowsBackends(Cardinality(DOMAIN be), mode)}
                  \cup {x \in {"compute"} : ShowsCompute(Cardinality(DOMAIN cn), mode)}
<1>1. t.frontends = fe /\ t.backends = be /\ t.computeNodes = cn /\ t.runMode = mode
  BY DEF Topology
<1>2. Page(mode).sections = Sections(t)
  BY DEF Page, TopologyPage
<1> HIDE DEF t
<1>3. Sections(t) = [layer \in S |-> NodeSection(CASE layer = "frontends" -> fe
                                                  [] layer = "backends" -> be
                                                  [] layer = "compute" -> cn)]
  BY <1>1 DEF Sections
<1>4. /\ DOMAIN Sections(t) = S
      /\ \A l \in S : Sections(t)[l] = NodeSection(CASE l = "frontends" -> fe
                                                     [] l = "backends" -> be
                                                     [] l = "compute" -> cn)
  BY <1>3
<1>5. /\ S \subseteq Layers /\ "frontends" \in S
      /\ "backends" \in S <=> Cardinality(DOMAIN be) > 0 \/ mode # "shared_data"
      /\ "compute" \in S <=> Cardinality(DOMAIN cn) > 0 \/ mode = "shared_data"
  BY DEF ShowsBackends, ShowsCompute, Layers
<1>6. (DOMAIN be # {} => Cardinality(DOMAIN be) > 0) /\ (DOMAIN cn # {} => Cardinality(DOMAIN cn) > 0)
  BY ListTypes, ListsAreFinite, DownCounted
<1> HIDE DEF S
<1>7. /\ Sections(t)["frontends"] = NodeSection(fe)
      /\ "backends" \in S => Sections(t)["backends"] = NodeSection(be)
      /\ "compute" \in S => Sections(t)["compute"] = NodeSection(cn)
  BY <1>4, <1>5
<1> QED
  BY <1>2, <1>4, <1>5, <1>6, <1>7

\* A layer's section of the page.
LEMMA SectionIs ==
    ASSUME NEW nodes
    PROVE  /\ DOMAIN NodeSection(nodes).cards = DOMAIN nodes
           /\ \A n \in DOMAIN nodes : NodeSection(nodes).cards[n] = NodeCard(nodes, n)
           /\ NodeSection(nodes).alive = Cardinality(Up(nodes))
           /\ NodeSection(nodes).total = Cardinality(DOMAIN nodes)
  BY DEF NodeSection

-----------------------------------------------------------------------------
(* The topology page, the header pill and the sidebar *)

\* The card of a node that is in some list that was read.
HasCard(page, n, card) == \E l \in DOMAIN page.sections :
                             /\ n \in DOMAIN page.sections[l].cards
                             /\ page.sections[l].cards[n] = card

\* Every node of the lists has its card, in whichever run mode.
LEMMA CardOf ==
    ASSUME Lists, NEW mode
    PROVE  /\ \A n \in DOMAIN fe : HasCard(Page(mode), n, NodeCard(fe, n))
           /\ \A n \in DOMAIN be : HasCard(Page(mode), n, NodeCard(be, n))
           /\ \A n \in DOMAIN cn : HasCard(Page(mode), n, NodeCard(cn, n))
<1> DEFINE sections == Page(mode).sections
<1>1. /\ "frontends" \in DOMAIN sections /\ sections["frontends"] = NodeSection(fe)
      /\ "backends" \in DOMAIN sections => sections["backends"] = NodeSection(be)
      /\ "compute" \in DOMAIN sections => sections["compute"] = NodeSection(cn)
      /\ DOMAIN be # {} => "backends" \in DOMAIN sections
      /\ DOMAIN cn # {} => "compute" \in DOMAIN sections
  BY SectionsAre
<1>2. ASSUME NEW n \in DOMAIN fe PROVE HasCard(Page(mode), n, NodeCard(fe, n))
  BY <1>1, SectionIs DEF HasCard
<1>3. ASSUME NEW n \in DOMAIN be PROVE HasCard(Page(mode), n, NodeCard(be, n))
  BY <1>1, SectionIs DEF HasCard
<1>4. ASSUME NEW n \in DOMAIN cn PROVE HasCard(Page(mode), n, NodeCard(cn, n))
  BY <1>1, SectionIs DEF HasCard
<1> QED
  BY <1>2, <1>3, <1>4

\* What a node's card shows.
LEMMA CardSays ==
    ASSUME NEW list, NEW n \in DOMAIN list,
           list[n].status \in {"HEALTHY", "DOWN", "DECOMMISSIONED"}
    PROVE  /\ NodeCard(list, n).alarming <=> n \in DownIn(list)
           /\ n \in DownIn(list) => NodeCard(list, n).badge = "down"
           /\ NodeCard(list, n).lag = JournalLagBadge(list, n)
  BY DEF NodeCard, NodeStatusBadge, DownIn

\* The nodes whose cards are red are those that were down when they were read.
LEMMA RedCards ==
    ASSUME Lists, NEW mode
    PROVE  UNION {{n \in DOMAIN Page(mode).sections[l].cards :
                     Page(mode).sections[l].cards[n].alarming} : l \in DOMAIN Page(mode).sections}
             = Red
<1> DEFINE sections == Page(mode).sections
           cardsIn(l) == {n \in DOMAIN sections[l].cards : sections[l].cards[n].alarming}
<1>1. ASSUME NEW list, \A n \in DOMAIN list : list[n].status \in {"HEALTHY", "DOWN", "DECOMMISSIONED"}
      PROVE  {n \in DOMAIN NodeSection(list).cards : NodeSection(list).cards[n].alarming}
               = DownIn(list)
  BY <1>1, SectionIs, CardSays DEF DownIn
<1>2. /\ \A n \in DOMAIN fe : fe[n].status \in {"HEALTHY", "DOWN", "DECOMMISSIONED"}
      /\ \A n \in DOMAIN be : be[n].status \in {"HEALTHY", "DOWN", "DECOMMISSIONED"}
      /\ \A n \in DOMAIN cn : cn[n].status \in {"HEALTHY", "DOWN", "DECOMMISSIONED"}
  BY ListTypes
<1>3. /\ DOMAIN sections \subseteq {"frontends", "backends", "compute"}
      /\ "frontends" \in DOMAIN sections /\ sections["frontends"] = NodeSection(fe)
      /\ "backends" \in DOMAIN sections => sections["backends"] = NodeSection(be)
      /\ "compute" \in DOMAIN sections => sections["compute"] = NodeSection(cn)
      /\ "backends" \notin DOMAIN sections => DownIn(be) = {}
      /\ "compute" \notin DOMAIN sections => DownIn(cn) = {}
  BY SectionsAre DEF Layers, DownIn
<1>4. /\ cardsIn("frontends") = DownIn(fe)
      /\ "backends" \in DOMAIN sections => cardsIn("backends") = DownIn(be)
      /\ "compute" \in DOMAIN sections => cardsIn("compute") = DownIn(cn)
  BY <1>1, <1>2, <1>3
<1> HIDE DEF cardsIn, sections
<1>5. UNION {cardsIn(l) : l \in DOMAIN sections} = Red
  BY <1>3, <1>4 DEF Red
<1> QED
  BY <1>5 DEF cardsIn, sections

\* The fields of the summary.
LEMMA SummaryFields ==
    LET s == summarize(fe, be, cn)
    IN /\ s.quorumHealthy = QuorumHealthy(fe) /\ s.clusterIdMismatch = ClusterIDMismatch(fe)
       /\ s.leaderHost = LeaderHost(fe) /\ s.healthy = Healthy(fe, be, cn)
       /\ s.electableTotal = Cardinality(Voters(fe))
       /\ s.backends.total = Cardinality(DOMAIN be) /\ s.compute.total = Cardinality(DOMAIN cn)
       /\ s.frontends = [alive |-> Cardinality(Up(fe)), total |-> Cardinality(DOMAIN fe)]
       /\ s.backends = [alive |-> Cardinality(Up(be)), total |-> Cardinality(DOMAIN be)]
       /\ s.compute = [alive |-> Cardinality(Up(cn)), total |-> Cardinality(DOMAIN cn)]
  BY DEF summarize

\* The fields of the page.
LEMMA PageFields ==
    ASSUME NEW mode
    PROVE  LET t == Topology(fe, be, cn, mode)
               s == summarize(fe, be, cn)
           IN /\ t.summary = s /\ t.runMode = mode
              /\ "quorumLost" \in Page(mode).notices <=> ~s.quorumHealthy /\ s.electableTotal > 0
              /\ "clusterIdMismatch" \in Page(mode).notices <=> s.clusterIdMismatch
              /\ Page(mode).notices \subseteq {"quorumLost", "clusterIdMismatch"}
              /\ Page(mode).summary.cluster = IF s.healthy THEN "good" ELSE "bad"
              /\ Page(mode).summary.feLeader = IF s.leaderHost # {} /\ s.quorumHealthy
                                               THEN "neutral" ELSE "bad"
              /\ Page(mode).summary.nodesAlive = IF TotalDown(s) = 0 THEN "good" ELSE "bad"
<1> DEFINE s == summarize(fe, be, cn)
           t == Topology(fe, be, cn, mode)
<1>1. t.summary = s /\ t.runMode = mode
  BY DEF Topology
<1> HIDE DEF s, t
<1>2. Page(mode).notices = Notices(s) /\ Page(mode).summary = SummaryCards(s)
  BY <1>1 DEF Page, TopologyPage, t
<1>3. /\ "quorumLost" \in Notices(s) <=> ~s.quorumHealthy /\ s.electableTotal > 0
      /\ "clusterIdMismatch" \in Notices(s) <=> s.clusterIdMismatch
      /\ Notices(s) \subseteq {"quorumLost", "clusterIdMismatch"}
  BY DEF Notices
<1>4. /\ SummaryCards(s).cluster = IF s.healthy THEN "good" ELSE "bad"
      /\ SummaryCards(s).feLeader = IF s.leaderHost # {} /\ s.quorumHealthy THEN "neutral" ELSE "bad"
      /\ SummaryCards(s).nodesAlive = IF TotalDown(s) = 0 THEN "good" ELSE "bad"
  BY DEF SummaryCards
<1> QED
  BY <1>1, <1>2, <1>3, <1>4 DEF s, t

\* A leader is a voter, and a majority lives where every frontend does.
LEMMA VotersCounted ==
    ASSUME Lists
    PROVE  /\ LeaderHost(fe) # {} => Cardinality(Voters(fe)) > 0
           /\ LeaderHost(fe) # {} /\ Up(fe) = DOMAIN fe => QuorumHealthy(fe)
<1>1. Voters(fe) \in SUBSET DOMAIN fe /\ LeaderHost(fe) \subseteq Voters(fe)
  BY DEF Voters, LeaderHost, LiveLeaders
<1>2. Cardinality(Voters(fe)) \in Nat /\ (Cardinality(Voters(fe)) = 0 <=> Voters(fe) = {})
  BY <1>1, ListsAreFinite, FS_Subset, FS_CardinalityType, FS_EmptySet
<1>3. Up(fe) = DOMAIN fe => Voters(fe) \cap Up(fe) = Voters(fe)
  BY <1>1
<1>4. LeaderHost(fe) # {} => Cardinality(Voters(fe)) > 0
  BY <1>1, <1>2
<1>5. ASSUME LeaderHost(fe) # {}, Up(fe) = DOMAIN fe PROVE QuorumHealthy(fe)
  <2> DEFINE total == Cardinality(Voters(fe))
  <2>1. total \in Nat /\ total > 0
    BY <1>2, <1>4, <1>5
  <2>2. QuorumHealthy(fe) <=> total > 0 /\ total > total \div 2
    BY <1>3, <1>5 DEF QuorumHealthy
  <2> HIDE DEF total
  <2>3. total > total \div 2
    BY <2>1
  <2> QED
    BY <2>1, <2>2, <2>3
<1> QED
  BY <1>4, <1>5

\* A replica whose lag is an alert wears the badge.
LEMMA LagIsBadged ==
    ASSUME Lists, NEW f \in Replicas(fe), ~(policy <= 0),
           NEW lag \in JournalLag(fe, f), lag > policy
    PROVE  f \in DOMAIN fe /\ NodeCard(fe, f).lag = "behind"
<1>1. f \in FEs /\ f \in DOMAIN fe /\ fe[f].role # "LEADER"
  BY ListTypes DEF Replicas
<1>2. policy \in Int /\ lag \in Int
  BY <1>1, LagFacts DEF Lists
<1>3. lag > 0
  BY <1>2
<1> QED
  BY <1>1, <1>3 DEF NodeCard, JournalLagBadge

\* Every alert is on the page, rule by rule.
LEMMA VisibleAlert ==
    ASSUME Lists, NEW mode, NEW a \in Alerts
    PROVE  Visible(a, Page(mode))
<1> DEFINE page == Page(mode)
           s == summarize(fe, be, cn)
<1>1. CASE a = <<"cluster_no_leader", NoNode>> /\ LeaderHost(fe) = {}
  <2>1. page.summary.feLeader = "bad"
    BY <1>1, PageFields, SummaryFields
  <2> QED
    BY <1>1, <2>1 DEF Visible
<1>2. CASE a = <<"cluster_quorum_lost", NoNode>> /\ LeaderHost(fe) # {} /\ ~QuorumHealthy(fe)
  <2>1. "quorumLost" \in page.notices
    BY <1>2, VotersCounted, PageFields, SummaryFields
  <2> QED
    BY <1>2, <2>1 DEF Visible
<1>3. CASE a = <<"cluster_id_mismatch", NoNode>> /\ ClusterIDMismatch(fe)
  <2>1. "clusterIdMismatch" \in page.notices
    BY <1>3, PageFields, SummaryFields
  <2> QED
    BY <1>3, <2>1 DEF Visible
<1>4. CASE a = <<"cluster_no_compute_capacity", NoNode>>
             /\ DOMAIN be \cup DOMAIN cn # {} /\ Up(be) \cup Up(cn) = {}
  <2>1. DownIn(be) = DOMAIN be \ Up(be) /\ DownIn(cn) = DOMAIN cn \ Up(cn)
    BY ListTypes, ListsAreFinite, DownCounted
  <2>2. Red # {}
    BY <1>4, <2>1 DEF Red
  <2>3. page.summary.nodesAlive = "bad"
    BY <2>2, TotalDownIs, PageFields
  <2> QED
    BY <1>4, <2>3 DEF Visible
<1>5. CASE \E n \in (DOMAIN fe \ Up(fe)) \cup (DOMAIN be \ Up(be)) \cup (DOMAIN cn \ Up(cn)) :
             a = <<"cluster_node_down", n>>
  <2>1. /\ DownIn(fe) = DOMAIN fe \ Up(fe) /\ DownIn(be) = DOMAIN be \ Up(be)
        /\ DownIn(cn) = DOMAIN cn \ Up(cn)
    BY ListTypes, ListsAreFinite, DownCounted
  <2>2. PICK n \in DownIn(fe) \cup DownIn(be) \cup DownIn(cn) : a = <<"cluster_node_down", n>>
    BY <1>5, <2>1
  <2>3. \E card : HasCard(page, n, card) /\ card.alarming /\ card.badge = "down"
    <3>1. CASE n \in DownIn(fe)
      BY <3>1, CardOf, CardSays, ListTypes DEF DownIn
    <3>2. CASE n \in DownIn(be)
      BY <3>2, CardOf, CardSays, ListTypes DEF DownIn
    <3>3. CASE n \in DownIn(cn)
      BY <3>3, CardOf, CardSays, ListTypes DEF DownIn
    <3> QED
      BY <2>2, <3>1, <3>2, <3>3
  <2>4. \E l \in DOMAIN page.sections :
            /\ n \in DOMAIN page.sections[l].cards
            /\ page.sections[l].cards[n].alarming /\ page.sections[l].cards[n].badge = "down"
    BY <2>3 DEF HasCard
  <2> QED
    BY <2>2, <2>4 DEF Visible
<1>6. CASE \E f \in Replicas(fe) : /\ a = <<"fe_journal_lag", f>> /\ ~(policy <= 0)
                                   /\ \E lag \in JournalLag(fe, f) : lag > policy
  <2>1. PICK f \in DOMAIN fe : a = <<"fe_journal_lag", f>> /\ NodeCard(fe, f).lag = "behind"
    BY <1>6, LagIsBadged
  <2>2. HasCard(page, f, NodeCard(fe, f))
    BY CardOf
  <2>3. \E l \in DOMAIN page.sections :
            f \in DOMAIN page.sections[l].cards /\ page.sections[l].cards[f].lag = "behind"
    BY <2>1, <2>2 DEF HasCard
  <2> QED
    BY <2>1, <2>3 DEF Visible
<1> QED
  BY <1>1, <1>2, <1>3, <1>4, <1>5, <1>6, AlertIs

\* The page raises nothing that is no alert.
LEMMA NoFalseAlarm ==
    ASSUME Lists, NEW mode
    PROVE  /\ Page(mode).notices # {} => Urgent # {}
           /\ \A n \in Red : <<"cluster_node_down", n>> \in Alerts
<1>1. \A a \in Alerts : a[1] # "fe_journal_lag" => Urgent # {}
  BY DEF Urgent
<1>2. ASSUME "quorumLost" \in Page(mode).notices PROVE Urgent # {}
  <2>1. ~QuorumHealthy(fe)
    BY <1>2, PageFields, SummaryFields
  <2>2. \/ <<"cluster_no_leader", NoNode>> \in Alerts
        \/ <<"cluster_quorum_lost", NoNode>> \in Alerts
    BY <2>1, AlertIs
  <2> QED
    BY <1>1, <2>2
<1>3. ASSUME "clusterIdMismatch" \in Page(mode).notices PROVE Urgent # {}
  <2>1. <<"cluster_id_mismatch", NoNode>> \in Alerts
    BY <1>3, PageFields, SummaryFields, AlertIs
  <2> QED
    BY <1>1, <2>1
<1>4. ASSUME NEW n \in Red PROVE <<"cluster_node_down", n>> \in Alerts
  <2>1. n \in (DOMAIN fe \ Up(fe)) \cup (DOMAIN be \ Up(be)) \cup (DOMAIN cn \ Up(cn))
    BY ListTypes, ListsAreFinite, DownCounted DEF Red
  <2> QED
    BY <2>1, AlertIs
<1> QED
  BY <1>2, <1>3, <1>4, PageFields

\* EveryAlertIsOnThePage of any lists.
LEMMA PageShowsAlerts ==
    ASSUME Lists
    PROVE  EveryAlertIsOnThePage
<1> SUFFICES ASSUME NEW mode \in RunModes
             PROVE  LET page == Page(mode)
                    IN /\ \A a \in Alerts : Visible(a, page)
                       /\ page.notices # {} => Urgent # {}
                       /\ \A l \in DOMAIN page.sections : \A n \in DOMAIN page.sections[l].cards :
                            page.sections[l].cards[n].alarming
                              => <<"cluster_node_down", n>> \in Alerts
  BY DEF EveryAlertIsOnThePage, Page
<1>1. \A l \in DOMAIN Page(mode).sections : \A n \in DOMAIN Page(mode).sections[l].cards :
         Page(mode).sections[l].cards[n].alarming => n \in Red
  BY RedCards
<1> QED
  BY <1>1, VisibleAlert, NoFalseAlarm

\* Every alert evaluated on a topology is on the page drawn from it (cluster_alerts.go:63,
\* TopologyView.tsx:65), and the page shows no node as down, no lost majority and no
\* mismatch that is not an alert: for any nodes, thresholds and run mode.
THEOREM AlertsAreOnThePage == Spec => []EveryAlertIsOnThePage
<1>1. TopologyInv => EveryAlertIsOnThePage
  BY ListFacts, PageShowsAlerts DEF EveryAlertIsOnThePage
<1> QED
  BY <1>1, TopologyInvHolds, PTL

-----------------------------------------------------------------------------

\* The tone and label of the header pill.
LEMMA PillIs ==
    LET s == summarize(fe, be, cn)
        pill == resolveTone(s)
    IN /\ pill.tone = "healthy" <=> s.healthy
       /\ pill.label = "nodesDown" => pill.count = TotalDown(s)
       /\ pill.label = "noBackendsRegistered"
            => ~s.healthy /\ s.leaderHost # {} /\ ~(TotalDown(s) > 0)
<1> DEFINE s == summarize(fe, be, cn)
<1> HIDE DEF s
<1>1. /\ resolveTone(s).tone = "healthy" <=> s.healthy
      /\ resolveTone(s).label = "nodesDown" => resolveTone(s).count = TotalDown(s)
      /\ resolveTone(s).label = "noBackendsRegistered"
            => ~s.healthy /\ s.leaderHost # {} /\ ~(TotalDown(s) > 0)
  BY DEF resolveTone
<1> QED
  BY <1>1 DEF s

\* The sidebar counts the layers of the page.
LEMMA SidebarIs ==
    ASSUME Lists, NEW mode
    PROVE  LET bar == Sidebar(Topology(fe, be, cn, mode))
               sections == Page(mode).sections
           IN /\ DOMAIN bar = DOMAIN sections
              /\ \A l \in DOMAIN sections : /\ bar[l].alive = sections[l].alive
                                            /\ bar[l].total = sections[l].total
<1> DEFINE t == Topology(fe, be, cn, mode)
           sections == Page(mode).sections
           S == {"frontends"}
                  \cup {x \in {"backends"} : t.summary.backends.total > 0 \/ t.runMode # "shared_data"}
                  \cup {x \in {"compute"} : t.summary.compute.total > 0 \/ t.runMode = "shared_data"}
<1>1. Sidebar(t) = [layer \in S |-> t.summary[layer]]
  BY DEF Sidebar
<1>2. t.summary = summarize(fe, be, cn) /\ t.runMode = mode
  BY PageFields
<1>3. S = DOMAIN sections
  <2>1. /\ DOMAIN sections \subseteq {"frontends", "backends", "compute"}
        /\ "frontends" \in DOMAIN sections
        /\ "backends" \in DOMAIN sections <=> Cardinality(DOMAIN be) > 0 \/ mode # "shared_data"
        /\ "compute" \in DOMAIN sections <=> Cardinality(DOMAIN cn) > 0 \/ mode = "shared_data"
    BY SectionsAre DEF Layers
  <2>2. /\ t.summary.backends.total = Cardinality(DOMAIN be)
        /\ t.summary.compute.total = Cardinality(DOMAIN cn)
    BY <1>2, SummaryFields
  <2> HIDE DEF t, sections
  <2> QED
    BY <1>2, <2>1, <2>2
<1>4. /\ t.summary["frontends"] = [alive |-> Cardinality(Up(fe)), total |-> Cardinality(DOMAIN fe)]
      /\ t.summary["backends"] = [alive |-> Cardinality(Up(be)), total |-> Cardinality(DOMAIN be)]
      /\ t.summary["compute"] = [alive |-> Cardinality(Up(cn)), total |-> Cardinality(DOMAIN cn)]
  BY <1>2, SummaryFields
<1>5. /\ sections["frontends"].alive = Cardinality(Up(fe))
      /\ sections["frontends"].total = Cardinality(DOMAIN fe)
  BY SectionsAre, SectionIs
<1>6. "backends" \in DOMAIN sections => /\ sections["backends"].alive = Cardinality(Up(be))
                                        /\ sections["backends"].total = Cardinality(DOMAIN be)
  BY SectionsAre, SectionIs
<1>7. "compute" \in DOMAIN sections => /\ sections["compute"].alive = Cardinality(Up(cn))
                                       /\ sections["compute"].total = Cardinality(DOMAIN cn)
  BY SectionsAre, SectionIs
<1>8. DOMAIN sections \subseteq {"frontends", "backends", "compute"}
  BY SectionsAre DEF Layers
<1> HIDE DEF S, t, sections
<1>9. DOMAIN Sidebar(t) = DOMAIN sections /\ \A l \in DOMAIN sections : Sidebar(t)[l] = t.summary[l]
  BY <1>1, <1>3
<1>10. ASSUME NEW l \in DOMAIN sections
       PROVE  Sidebar(t)[l].alive = sections[l].alive /\ Sidebar(t)[l].total = sections[l].total
  BY <1>4, <1>5, <1>6, <1>7, <1>8, <1>9
<1> QED
  BY <1>9, <1>10 DEF t, sections

\* ScreensAgree of any lists.
LEMMA ScreensJudgeAlike ==
    ASSUME Lists
    PROVE  ScreensAgree
<1> SUFFICES ASSUME NEW mode \in RunModes
             PROVE  LET t == Topology(fe, be, cn, mode)
                        page == Page(mode)
                        pill == resolveTone(t.summary)
                        red == UNION {{n \in DOMAIN page.sections[l].cards :
                                         page.sections[l].cards[n].alarming} : l \in DOMAIN page.sections}
                    IN /\ (pill.tone = "healthy") = (page.summary.cluster = "good")
                       /\ pill.tone = "healthy" => page.notices = {} /\ red = {}
                       /\ (page.summary.nodesAlive = "good") = (red = {})
                       /\ pill.label = "nodesDown" => pill.count = Cardinality(red)
                       /\ pill.label = "noBackendsRegistered" =>
                            \/ t.summary.backends.total + t.summary.compute.total = 0
                            \/ t.summary.clusterIdMismatch
                       /\ DOMAIN Sidebar(t) = DOMAIN page.sections
                       /\ \A l \in DOMAIN page.sections :
                            /\ Sidebar(t)[l].alive = page.sections[l].alive
                            /\ Sidebar(t)[l].total = page.sections[l].total
  BY DEF ScreensAgree, Page
<1> DEFINE s == summarize(fe, be, cn)
           t == Topology(fe, be, cn, mode)
           page == Page(mode)
           pill == resolveTone(s)
           red == UNION {{n \in DOMAIN page.sections[l].cards :
                            page.sections[l].cards[n].alarming} : l \in DOMAIN page.sections}
<1>1. t.summary = s /\ red = Red
  BY PageFields, RedCards
<1>2. pill.tone = "healthy" <=> s.healthy
  BY PillIs
<1>3. page.summary.cluster = IF s.healthy THEN "good" ELSE "bad"
  BY PageFields
<1>4. s.healthy => page.notices = {} /\ Red = {}
  <2>1. s.healthy => /\ QuorumHealthy(fe) /\ ~ClusterIDMismatch(fe)
                     /\ Up(fe) = DOMAIN fe /\ Up(be) = DOMAIN be /\ Up(cn) = DOMAIN cn
    BY SummaryFields DEF Healthy
  <2>2. /\ DownIn(fe) = DOMAIN fe \ Up(fe) /\ DownIn(be) = DOMAIN be \ Up(be)
        /\ DownIn(cn) = DOMAIN cn \ Up(cn)
    BY ListTypes, ListsAreFinite, DownCounted
  <2>3. s.healthy => Red = {}
    BY <2>1, <2>2 DEF Red
  <2>4. s.healthy => page.notices = {}
    BY <2>1, PageFields, SummaryFields
  <2> QED
    BY <2>3, <2>4
<1>5. page.summary.nodesAlive = "good" <=> Red = {}
  BY PageFields, TotalDownIs
<1>6. pill.label = "nodesDown" => pill.count = Cardinality(Red)
  BY PillIs, TotalDownIs
<1>7. ASSUME pill.label = "noBackendsRegistered"
      PROVE  s.backends.total + s.compute.total = 0 \/ s.clusterIdMismatch
  <2>1. ~Healthy(fe, be, cn) /\ LeaderHost(fe) # {} /\ ~(TotalDown(s) > 0)
    BY <1>7, PillIs, SummaryFields
  <2>2. Red = {}
    BY <2>1, TotalDownIs
  <2>3. Up(fe) = DOMAIN fe /\ Up(be) = DOMAIN be /\ Up(cn) = DOMAIN cn
    <3>1. DownIn(fe) = {} /\ DownIn(be) = {} /\ DownIn(cn) = {}
      BY <2>2 DEF Red
    <3>2. /\ DownIn(fe) = DOMAIN fe \ Up(fe) /\ DownIn(be) = DOMAIN be \ Up(be)
          /\ DownIn(cn) = DOMAIN cn \ Up(cn)
      BY ListTypes, ListsAreFinite, DownCounted
    <3>3. Up(fe) \subseteq DOMAIN fe /\ Up(be) \subseteq DOMAIN be /\ Up(cn) \subseteq DOMAIN cn
      BY DEF Up
    <3> QED
      BY <3>1, <3>2, <3>3
  <2>4. ClusterIDMismatch(fe) \/ DOMAIN be \cup DOMAIN cn = {}
    BY <2>1, <2>3, VotersCounted DEF Healthy
  <2>5. DOMAIN be \cup DOMAIN cn = {} => s.backends.total = 0 /\ s.compute.total = 0
    BY SummaryFields, FS_EmptySet
  <2> QED
    BY <2>4, <2>5, SummaryFields
<1>8. DOMAIN Sidebar(t) = DOMAIN page.sections
      /\ \A l \in DOMAIN page.sections : /\ Sidebar(t)[l].alive = page.sections[l].alive
                                          /\ Sidebar(t)[l].total = page.sections[l].total
  BY SidebarIs
<1> HIDE DEF s, t, page, pill, red
<1>9. /\ (pill.tone = "healthy") = (page.summary.cluster = "good")
      /\ pill.tone = "healthy" => page.notices = {} /\ red = {}
      /\ (page.summary.nodesAlive = "good") = (red = {})
  BY <1>1, <1>2, <1>3, <1>4, <1>5
<1>10. pill = resolveTone(t.summary)
  BY <1>1 DEF pill
<1> QED
  BY <1>1, <1>6, <1>7, <1>8, <1>9, <1>10 DEF t, page, pill, red

\* The pill, the cards and the sidebar agree (ClusterStatusPill.tsx:58, SummaryCards.tsx:32,
\* Sidebar.tsx:84), for any nodes and run mode.
THEOREM ScreensTellTheSame == Spec => []ScreensAgree
<1>1. TopologyInv => ScreensAgree
  BY ListFacts, ScreensJudgeAlike DEF ScreensAgree
<1> QED
  BY <1>1, TopologyInvHolds, PTL

-----------------------------------------------------------------------------
(* RoutineLoad: the sweep *)

\* What has been read are the jobs of the databases in read, as they are.
Holds(done) == /\ DOMAIN rows = {j \in DOMAIN jobs : j[1] \in done}
               /\ \A j \in DOMAIN rows : rows[j] = jobs[j]

Split == /\ databases = todo \cup swept \cup failed
         /\ todo \cap (swept \cup failed) = {}
         /\ swept \cap failed = {}

Clean == todo = {} /\ swept = {} /\ failed = {} /\ rows = NoneRead

CollectionInv ==
    /\ databases \subseteq Databases
    /\ \A j \in DOMAIN jobs : j[1] \in databases
    /\ loadsPc \in {"idle", "show", "sweep", "evaluate", "failed"}
    /\ loadsPc \in {"idle", "show"} => Clean
    /\ loadsPc = "sweep" /\ loadsSteady => Split /\ Holds(swept)
    /\ ReportedOrWarned

\* Nothing is being collected at first.
LEMMA CollectionStart == LoadsInit => CollectionInv
  BY DEF LoadsInit, CollectionInv, Clean, ReportedOrWarned, LoadsCollected, Jobs

\* Before the first sweep nothing has been read.
LEMMA NothingReadYet == rows = NoneRead => Holds({})
  BY DEF Holds, NoneRead

\* While the cluster keeps still, the databases found stay the databases.
LEMMA SweepStep ==
    ASSUME CollectionInv, NEW d \in Databases, SweepDatabase(d) \/ SweepFails(d)
    PROVE  CollectionInv'
<1>1. loadsPc = "sweep" /\ loadsPc' = "sweep" /\ d \in todo /\ todo' = todo \ {d}
      /\ UNCHANGED <<jobs, databases, loadsSteady>>
  BY DEF SweepDatabase, SweepFails, loadsCluster, unaffected
<1>2. CASE SweepDatabase(d) /\ loadsSteady
  <2>1. /\ swept' = swept \cup {d} /\ failed' = failed
        /\ rows' = [j \in DOMAIN rows \cup JobsOf(d) |->
                      IF j \in JobsOf(d) THEN jobs[j] ELSE rows[j]]
    BY <1>2 DEF SweepDatabase
  <2>2. Split /\ Holds(swept)
    BY <1>1, <1>2 DEF CollectionInv
  <2>3. Split'
    BY <1>1, <2>1, <2>2 DEF Split
  <2>4. DOMAIN rows' = {j \in DOMAIN jobs : j[1] \in swept'}
    BY <2>1, <2>2 DEF Holds, JobsOf
  <2>5. \A j \in DOMAIN rows' : rows'[j] = jobs'[j]
    BY <1>1, <2>1, <2>2 DEF Holds, JobsOf
  <2> QED
    BY <1>1, <2>3, <2>4, <2>5 DEF CollectionInv, Holds, ReportedOrWarned, LoadsCollected
<1>3. CASE SweepFails(d) /\ loadsSteady
  <2>1. failed' = failed \cup {d} /\ UNCHANGED <<swept, rows>>
    BY <1>3 DEF SweepFails
  <2>2. Split /\ Holds(swept)
    BY <1>1, <1>3 DEF CollectionInv
  <2>3. Split'
    BY <1>1, <2>1, <2>2 DEF Split
  <2>4. Holds(swept)'
    BY <1>1, <2>1, <2>2 DEF Holds
  <2> QED
    BY <1>1, <2>3, <2>4 DEF CollectionInv, ReportedOrWarned, LoadsCollected
<1>4. CASE ~loadsSteady
  BY <1>1, <1>4 DEF CollectionInv, ReportedOrWarned, LoadsCollected
<1> QED
  BY <1>2, <1>3, <1>4

\* One case for each action of the collection.
LEMMA CollectionStep == CollectionInv /\ [LoadsNext]_loadsVars => CollectionInv'
<1> SUFFICES ASSUME CollectionInv, [LoadsNext]_loadsVars PROVE CollectionInv'
  OBVIOUS
<1>1. CASE JobChanges \/ DatabaseChanges
  <2>1. ~loadsSteady' /\ UNCHANGED <<loadsPc, todo, swept, failed, rows>> /\ databases' \subseteq Databases
    BY <1>1 DEF JobChanges, DatabaseChanges, collection, CollectionInv
  <2>2. \A j \in DOMAIN jobs' : j[1] \in databases'
    <3>1. \A j \in DOMAIN jobs : j[1] \in databases
      BY DEF CollectionInv
    <3>2. ASSUME NEW d \in databases, NEW n \in Names, NEW row \in Rows,
                 jobs' = [j \in DOMAIN jobs \cup {<<d, n>>} |-> IF j = <<d, n>> THEN row ELSE jobs[j]],
                 databases' = databases
          PROVE  \A j \in DOMAIN jobs' : j[1] \in databases'
      BY <3>1, <3>2
    <3>3. CASE JobChanges
      BY <3>1, <3>2, <3>3 DEF JobChanges, Restrict
    <3>4. CASE DatabaseChanges
      BY <3>1, <3>4 DEF DatabaseChanges, Restrict, JobsOf
    <3> QED
      BY <1>1, <3>3, <3>4
  <2> QED
    BY <2>1, <2>2 DEF CollectionInv, Clean, ReportedOrWarned, LoadsCollected
<1>2. CASE ContextEnds \/ SetPolicy \/ UNCHANGED loadsVars
  <2>1. UNCHANGED <<jobs, databases, loadsPc, todo, swept, failed, rows, loadsSteady>>
    BY <1>2 DEF ContextEnds, SetPolicy, loadsVars, loadsCluster, unaffected, collection
  <2> QED
    BY <2>1 DEF CollectionInv, Clean, Split, Holds, ReportedOrWarned, LoadsCollected
<1>3. CASE ReadInfoSchema
  <2>1. /\ loadsPc' = "evaluate" /\ UNCHANGED <<jobs, databases, failed>>
        /\ rows' = jobs
    BY <1>3 DEF ReadInfoSchema, loadsCluster, unaffected
  <2>2. failed = {}
    BY <1>3 DEF ReadInfoSchema, CollectionInv, Clean
  <2>3. ReportedOrWarned'
    BY <2>1, <2>2 DEF ReportedOrWarned
  <2> QED
    BY <2>1, <2>3 DEF CollectionInv
<1>4. CASE InfoSchemaFails
  BY <1>4 DEF InfoSchemaFails, CollectionInv, Clean, ReportedOrWarned, LoadsCollected, unaffected,
     loadsCluster
<1>5. CASE ShowDatabases
  <2>1. /\ loadsPc' = "sweep" /\ todo' = databases /\ UNCHANGED <<jobs, databases, swept, failed, rows>>
    BY <1>5, RoutineLoadAssumption DEF ShowDatabases, CollectionInv, loadsCluster, unaffected
  <2>2. swept = {} /\ failed = {} /\ rows = NoneRead
    BY <1>5 DEF ShowDatabases, CollectionInv, Clean
  <2>3. Split'
    BY <2>1, <2>2 DEF Split
  <2>4. Holds(swept)'
    BY <2>1, <2>2, NothingReadYet DEF Holds
  <2> QED
    BY <2>1, <2>3, <2>4 DEF CollectionInv, ReportedOrWarned, LoadsCollected
<1>6. CASE ShowDatabasesFails
  BY <1>6 DEF ShowDatabasesFails, CollectionInv, ReportedOrWarned, LoadsCollected, unaffected,
     loadsCluster
<1>7. ASSUME NEW d \in Databases, SweepDatabase(d) \/ SweepFails(d) PROVE CollectionInv'
  BY <1>7, SweepStep
<1>8. CASE SweepEnd
  <2>1. /\ loadsPc = "sweep" /\ todo = {} /\ loadsPc' \in {"failed", "evaluate"}
        /\ UNCHANGED <<jobs, databases, failed, rows, loadsSteady>>
    BY <1>8 DEF SweepEnd, loadsCluster, unaffected
  <2>2. loadsSteady => swept = databases \ failed /\ Holds(swept)
    BY <2>1 DEF CollectionInv, Split
  <2>3. ReportedOrWarned'
    BY <2>1, <2>2 DEF ReportedOrWarned, Holds, CollectionInv
  <2> QED
    BY <2>1, <2>3 DEF CollectionInv
<1>9. CASE LoadsDone
  BY <1>9 DEF LoadsDone, CollectionInv, Clean, ReportedOrWarned, LoadsCollected, unaffected,
     loadsCluster
<1> QED
  BY <1>1, <1>2, <1>3, <1>4, <1>5, <1>6, <1>7, <1>8, <1>9 DEF LoadsNext

\* A database that fails becomes a warning and nothing else is missing
\* (routineload_repository.go:76-78), for any databases, jobs and columns, whichever
\* SHOW fails and whatever changes meanwhile.
THEOREM NoJobIsLost == LoadsSpec => []ReportedOrWarned
<1>1. LoadsInit => CollectionInv
  BY CollectionStart
<1>2. CollectionInv /\ [LoadsNext]_loadsVars => CollectionInv'
  BY CollectionStep
<1>3. CollectionInv => ReportedOrWarned
  BY DEF CollectionInv
<1> QED
  BY <1>1, <1>2, <1>3, PTL DEF LoadsSpec

-----------------------------------------------------------------------------
(* The columns and the alerts *)

\* One case for each action of the collection.
LEMMA LoadsTypeStep == LoadsTypeOK /\ [LoadsNext]_loadsVars => LoadsTypeOK'
<1> SUFFICES ASSUME LoadsTypeOK, [LoadsNext]_loadsVars PROVE LoadsTypeOK'
  OBVIOUS
<1> USE DEF LoadsTypeOK, unaffected, loadsCluster, collection
<1>1. CASE JobChanges
  <2>1. CASE \E j \in DOMAIN jobs : jobs' = Restrict(jobs, DOMAIN jobs \ {j})
    BY <1>1, <2>1 DEF JobChanges, Restrict
  <2>2. ASSUME NEW d \in databases, NEW n \in Names, NEW row \in Rows,
               jobs' = [j \in DOMAIN jobs \cup {<<d, n>>} |-> IF j = <<d, n>> THEN row ELSE jobs[j]]
        PROVE  LoadsTypeOK'
    <3>1. DOMAIN jobs' \subseteq databases \X Names /\ \A j \in DOMAIN jobs' : jobs'[j] \in Rows
      BY <2>2
    <3> QED
      BY <1>1, <3>1 DEF JobChanges
  <2>3. \/ \E d \in databases, n \in Names, row \in Rows :
             jobs' = [j \in DOMAIN jobs \cup {<<d, n>>} |-> IF j = <<d, n>> THEN row ELSE jobs[j]]
        \/ \E j \in DOMAIN jobs : jobs' = Restrict(jobs, DOMAIN jobs \ {j})
    BY <1>1 DEF JobChanges
  <2> HIDE DEF LoadsTypeOK
  <2> QED
    BY <2>1, <2>2, <2>3
<1>2. CASE DatabaseChanges
  <2>1. CASE \E d \in Databases : databases' = databases \cup {d} /\ UNCHANGED jobs
    <3>1. databases \subseteq databases' /\ databases' \subseteq Databases /\ jobs' = jobs
      BY <2>1
    <3>2. DOMAIN jobs' \subseteq databases' \X Names
      BY <3>1
    <3> QED
      BY <1>2, <3>1, <3>2 DEF DatabaseChanges
  <2>2. ASSUME NEW d \in databases, databases' = databases \ {d},
               jobs' = Restrict(jobs, DOMAIN jobs \ JobsOf(d))
        PROVE  LoadsTypeOK'
    <3>1. DOMAIN jobs' = DOMAIN jobs \ JobsOf(d) /\ \A j \in DOMAIN jobs' : jobs'[j] = jobs[j]
      BY <2>2 DEF Restrict
    <3>2. DOMAIN jobs' \subseteq databases' \X Names
      BY <2>2, <3>1 DEF JobsOf
    <3> QED
      BY <1>2, <2>2, <3>1, <3>2 DEF DatabaseChanges
  <2> QED
    BY <1>2, <2>1, <2>2 DEF DatabaseChanges
<1>3. CASE ContextEnds \/ SetPolicy
  BY <1>3 DEF ContextEnds, SetPolicy
<1>4. CASE ReadInfoSchema
  <2>1. DOMAIN rows' \subseteq Jobs /\ \A j \in DOMAIN rows' : rows'[j] \in Rows
    BY <1>4 DEF ReadInfoSchema, Jobs
  <2> QED
    BY <1>4, <2>1 DEF ReadInfoSchema
<1>5. CASE InfoSchemaFails \/ ShowDatabasesFails \/ SweepEnd
  BY <1>5 DEF InfoSchemaFails, ShowDatabasesFails, SweepEnd
<1>6. CASE ShowDatabases
  BY <1>6 DEF ShowDatabases
<1>7. ASSUME NEW d \in Databases, SweepDatabase(d) PROVE LoadsTypeOK'
  <2>1. DOMAIN rows' = DOMAIN rows \cup JobsOf(d)
        /\ \A j \in DOMAIN rows' : rows'[j] = IF j \in JobsOf(d) THEN jobs[j] ELSE rows[j]
    BY <1>7 DEF SweepDatabase
  <2>2. DOMAIN rows' \subseteq Jobs /\ \A j \in DOMAIN rows' : rows'[j] \in Rows
    BY <2>1 DEF JobsOf, Jobs
  <2> QED
    BY <1>7, <2>2 DEF SweepDatabase
<1>8. ASSUME NEW d \in Databases, SweepFails(d) PROVE LoadsTypeOK'
  BY <1>8 DEF SweepFails
<1>9. CASE LoadsDone
  BY <1>9 DEF LoadsDone, NoneRead
<1>10. CASE UNCHANGED loadsVars
  BY <1>10 DEF loadsVars
<1> QED
  BY <1>1, <1>2, <1>3, <1>4, <1>5, <1>6, <1>7, <1>8, <1>9, <1>10 DEF LoadsNext

\* Every variable of the collection keeps its type, and nothing of a collection
\* outlives it (routineload_repository.go:56-115).
THEOREM LoadsTyped == LoadsSpec => []LoadsTypeOK
<1>1. LoadsInit => LoadsTypeOK
  <2> SUFFICES ASSUME LoadsInit PROVE LoadsTypeOK
    OBVIOUS
  <2>1. PICK existing \in SUBSET Jobs : jobs \in [existing -> Rows]
    BY DEF LoadsInit
  <2>2. DOMAIN jobs \subseteq Databases \X Names /\ \A j \in DOMAIN jobs : jobs[j] \in Rows
    BY <2>1 DEF Jobs
  <2> QED
    BY <2>2 DEF LoadsInit, LoadsTypeOK, NoneRead
<1> QED
  BY <1>1, LoadsTypeStep, PTL DEF LoadsSpec

-----------------------------------------------------------------------------
(* The lag, and the four rules *)

\* What RoutineLoadAssumption says of a row.
LEMMA RowFacts ==
    ASSUME NEW row \in Rows
    PROVE  /\ RatioOne \in Nat \ {0} /\ Marker \notin Int
           /\ row.state \in States
           /\ IsFiniteSet(row.statistics)
           /\ \A s \in row.statistics : s.total \in Nat /\ s.error \in 0..s.total
           /\ IsOffsetMap(row.progress) /\ IsOffsetMap(row.latest)
  BY RoutineLoadAssumption

Known(row) == {p \in DOMAIN row.latest \cap DOMAIN row.progress :
                  row.latest[p] # Marker /\ row.progress[p] # Marker}

\* The lag that is reported is what the partitions known on both sides trail by.
LEMMA LagIsTrail ==
    ASSUME NEW row \in Rows
    PROVE  /\ Trails(row) \in Int
           /\ computeOffsetLag(row) = IF Known(row) = {} THEN {} ELSE {Trails(row)}
           /\ Known(row) = {} => Trails(row) = 0
<1> DEFINE progress == parseOffsetMap(row.progress)
           latest == parseOffsetMap(row.latest)
           known == Known(row)
           behind == {p \in known : latest[p] > progress[p]}
           trail == [p \in known |-> Behind(row, p)]
           lag == [p \in behind |-> latest[p] - progress[p]]
<1>1. /\ IsFiniteSet(DOMAIN row.progress) /\ IsFiniteSet(DOMAIN row.latest)
      /\ \A p \in DOMAIN row.progress : row.progress[p] \in Int \cup {Marker}
      /\ \A p \in DOMAIN row.latest : row.latest[p] \in Int \cup {Marker}
  BY RowFacts DEF IsOffsetMap
<1>2. DOMAIN progress \cap DOMAIN latest = known
  BY DEF parseOffsetMap, Known
<1>3. \A p \in known : /\ progress[p] = row.progress[p] /\ latest[p] = row.latest[p]
                       /\ row.progress[p] \in Int /\ row.latest[p] \in Int
  BY <1>1 DEF parseOffsetMap, Known
<1>4. IsFiniteSet(known)
  <2>1. known \in SUBSET DOMAIN row.latest
    BY DEF Known
  <2> QED
    BY <1>1, <2>1, FS_Subset
<1>5. behind \in SUBSET known
  OBVIOUS
<1>6. \A p \in known : trail[p] = IF p \in behind THEN lag[p] ELSE 0
  BY <1>3 DEF Behind
<1>7. \A p \in known : trail[p] \in Int
  BY <1>3 DEF Behind
<1>8. Trails(row) = SumFunctionOnSet(trail, known)
  BY DEF Trails, SumFunction, Known
<1>9. computeOffsetLag(row) = IF known = {} THEN {} ELSE {SumFunctionOnSet(lag, behind)}
  BY <1>2 DEF computeOffsetLag, SumFunction
<1>10. known = {} => SumFunctionOnSet(trail, known) = 0
  BY SumSome, FS_EmptySet
<1> HIDE DEF trail, lag, known, behind
<1>11. SumFunctionOnSet(trail, known) = SumFunctionOnSet(lag, behind)
  BY <1>4, <1>5, <1>6, <1>7, SumOnSupport
<1>12. SumFunctionOnSet(trail, known) \in Int
  BY <1>4, <1>7, SumType
<1> QED
  BY <1>8, <1>9, <1>10, <1>11, <1>12 DEF known

\* A ratio over a positive threshold needs rows, and errors among them.
LEMMA RatioNeedsRows ==
    ASSUME NEW row \in Rows, NEW ratio \in Int, ratio > 0, NEW s \in row.statistics,
           s.error * RatioOne > ratio * s.total
    PROVE  s.total > 0 /\ s.error > 0
<1>1. s.total \in Nat /\ s.error \in 0..s.total /\ RatioOne \in Nat
  BY RowFacts
<1>2. s.total = 0 => s.error * RatioOne = 0 /\ ratio * s.total = 0
  <2>1. s.total = 0 => s.error = 0
    BY <1>1
  <2> QED
    BY <1>1, <2>1
<1>3. s.error = 0 => s.error * RatioOne = 0
  BY <1>1
<1>4. ratio * s.total >= 0
  BY <1>1
<1> QED
  BY <1>1, <1>2, <1>3, <1>4

\* Each rule of EvaluateLoadAlerts against the columns.
LEMMA RulesJudgeColumns ==
    ASSUME LoadsTypeOK, NEW j \in DOMAIN rows, NEW rule \in Rules
    PROVE  <<rule, j>> \in EvaluateLoadAlerts(rows) <=> Reported(rule, rows[j])
<1> DEFINE row == rows[j]
<1>1. row \in Rows /\ loadPolicy.ratio \in Int /\ loadPolicy.maxLag \in Int
  BY RoutineLoadAssumption DEF LoadsTypeOK
<1>2. CASE rule = "routine_load_paused"
  BY <1>2 DEF EvaluateLoadAlerts, InState, Reported
<1>3. CASE rule = "routine_load_cancelled"
  BY <1>3 DEF EvaluateLoadAlerts, InState, Reported
<1>4. CASE rule = "routine_load_error_ratio"
  <2>1. <<rule, j>> \in EvaluateLoadAlerts(rows) <=> ErrorRatioFires(row)
    BY <1>4 DEF EvaluateLoadAlerts
  <2>2. Reported(rule, row) <=>
            loadPolicy.ratio > 0 /\ \E s \in row.statistics :
               s.total >= loadPolicy.minTotal /\ s.error * RatioOne > loadPolicy.ratio * s.total
    BY <1>4 DEF Reported
  <2>3. loadPolicy.ratio > 0 => \A s \in row.statistics :
            s.error * RatioOne > loadPolicy.ratio * s.total => s.total > 0
    BY <1>1, RatioNeedsRows
  <2> QED
    BY <2>1, <2>2, <2>3 DEF ErrorRatioFires
<1>5. CASE rule = "routine_load_offset_lag"
  <2>1. <<rule, j>> \in EvaluateLoadAlerts(rows) <=> OffsetLagFires(row)
    BY <1>5 DEF EvaluateLoadAlerts
  <2>2. Reported(rule, row) <=> loadPolicy.maxLag > 0 /\ Trails(row) > loadPolicy.maxLag
    BY <1>5 DEF Reported
  <2>3. OffsetLagFires(row) <=> loadPolicy.maxLag > 0 /\ Trails(row) > loadPolicy.maxLag
    BY <1>1, LagIsTrail DEF OffsetLagFires
  <2> QED
    BY <2>1, <2>2, <2>3
<1> QED
  BY <1>2, <1>3, <1>4, <1>5 DEF Rules

\* A rule reports a job exactly when its columns, as StarRocks shows them, cross the
\* rule's threshold (routineload_alerts.go:22-33): for any columns, and any thresholds
\* SetPolicy may set meanwhile.
THEOREM AlertsFollowColumns == LoadsSpec => []AlertsMatchColumns
<1>1. LoadsTypeOK => AlertsMatchColumns
  BY RulesJudgeColumns DEF AlertsMatchColumns
<1> QED
  BY <1>1, LoadsTyped, PTL

-----------------------------------------------------------------------------
(* The routine load page *)

JobsAreFinite == IsFiniteSet(DOMAIN rows)

\* Finitely many jobs have been read.
LEMMA ReadIsFinite == LoadsTypeOK => JobsAreFinite
<1> SUFFICES ASSUME LoadsTypeOK PROVE JobsAreFinite
  OBVIOUS
<1>1. IsFiniteSet(Jobs)
  BY RoutineLoadAssumption, FS_Product DEF Jobs
<1>2. DOMAIN rows \in SUBSET Jobs
  BY DEF LoadsTypeOK
<1> QED
  BY <1>1, <1>2, FS_Subset DEF JobsAreFinite

\* Error rows are counted when some job has some.
LEMMA ErrorRowsCounted ==
    ASSUME LoadsTypeOK
    PROVE  /\ ErrorRows(rows) \in Nat
           /\ ErrorRows(rows) > 0
                <=> \E j \in DOMAIN rows : \E s \in rows[j].statistics : s.error > 0
<1> DEFINE errors(j) == [s \in rows[j].statistics |-> s.error]
           perJob == [j \in DOMAIN rows |-> SumFunction(errors(j))]
<1>1. IsFiniteSet(DOMAIN rows) /\ \A j \in DOMAIN rows : rows[j] \in Rows
  BY ReadIsFinite DEF LoadsTypeOK, JobsAreFinite
<1>2. ASSUME NEW j \in DOMAIN rows
      PROVE  /\ perJob[j] \in Nat
             /\ perJob[j] > 0 <=> \E s \in rows[j].statistics : s.error > 0
  <2> DEFINE S == rows[j].statistics
             f == errors(j)
  <2>1. IsFiniteSet(S) /\ \A s \in S : f[s] = s.error /\ f[s] \in Nat
    BY <1>1, RowFacts
  <2>2. perJob[j] = SumFunctionOnSet(f, S)
    BY DEF SumFunction
  <2> HIDE DEF S, f
  <2>3. /\ SumFunctionOnSet(f, S) \in Nat
        /\ SumFunctionOnSet(f, S) > 0 <=> \E s \in S : f[s] > 0
    BY <2>1, SumPositive
  <2> QED
    BY <2>1, <2>2, <2>3 DEF S
<1>3. ErrorRows(rows) = SumFunctionOnSet(perJob, DOMAIN rows)
  BY DEF ErrorRows, SumFunction
<1> HIDE DEF perJob
<1>4. /\ SumFunctionOnSet(perJob, DOMAIN rows) \in Nat
      /\ SumFunctionOnSet(perJob, DOMAIN rows) > 0 <=> \E j \in DOMAIN rows : perJob[j] > 0
  BY <1>1, <1>2, SumPositive
<1> QED
  BY <1>2, <1>3, <1>4

\* The jobs in a state, counted.
LEMMA StateCounts ==
    ASSUME LoadsTypeOK, NEW s
    PROVE  /\ IsFiniteSet(InState(rows, s))
           /\ Cardinality(InState(rows, s)) \in Nat
           /\ Cardinality(InState(rows, s)) = 0 <=> InState(rows, s) = {}
<1>1. InState(rows, s) \in SUBSET DOMAIN rows
  BY DEF InState
<1> QED
  BY <1>1, ReadIsFinite, FS_Subset, FS_CardinalityType, FS_EmptySet DEF JobsAreFinite

SummaryIs(counts) ==
    /\ counts.total = Cardinality(DOMAIN rows)
    /\ counts.running = Cardinality(InState(rows, "RUNNING"))
    /\ counts.paused = Cardinality(InState(rows, "PAUSED"))
    /\ counts.cancelled = Cardinality(InState(rows, "CANCELLED"))
    /\ counts.unhealthy = Cardinality(InState(rows, "PAUSED")) + Cardinality(InState(rows, "CANCELLED"))
    /\ counts.totalErrorRows = ErrorRows(rows)

\* The fields of the page.
LEMMA PageIs ==
    LET page == RoutineLoadPage(Snapshot)
    IN /\ page.notices = failed
       /\ DOMAIN page.table = DOMAIN rows
       /\ \A j \in DOMAIN rows : page.table[j] = JobRow(rows[j])
       /\ page.summary = SummaryRow(Snapshot.summary)
       /\ SummaryIs(Snapshot.summary)
  BY DEF RoutineLoadPage, Snapshot, SummaryIs, summarizeRoutineLoads

\* The cards above the table tell whether a job is paused or cancelled, or has error rows.
LEMMA CardsTell ==
    ASSUME LoadsTypeOK
    PROVE  LET cards == SummaryRow(Snapshot.summary)
           IN /\ cards.paused = IF InState(rows, "PAUSED") # {} THEN "bad" ELSE "good"
              /\ cards.cancelled = IF InState(rows, "CANCELLED") # {} THEN "bad" ELSE "good"
              /\ cards.errorRows = IF \E j \in DOMAIN rows : \E s \in rows[j].statistics : s.error > 0
                                   THEN "neutral" ELSE "good"
              /\ cards.running = "good" => InState(rows, "RUNNING") = DOMAIN rows
              /\ DOMAIN cards = {"running", "paused", "cancelled", "errorRows"}
<1>1. SummaryIs(Snapshot.summary)
  BY PageIs
<1>2. InState(rows, "RUNNING") \in SUBSET DOMAIN rows /\ IsFiniteSet(DOMAIN rows)
  BY ReadIsFinite DEF InState, JobsAreFinite
<1>3. Cardinality(InState(rows, "RUNNING")) = Cardinality(DOMAIN rows)
         => InState(rows, "RUNNING") = DOMAIN rows
  BY <1>2, FS_Subset
<1>4. Cardinality(InState(rows, "PAUSED")) > 0 <=> InState(rows, "PAUSED") # {}
  BY StateCounts
<1>5. Cardinality(InState(rows, "CANCELLED")) > 0 <=> InState(rows, "CANCELLED") # {}
  BY StateCounts
<1> QED
  BY <1>1, <1>3, <1>4, <1>5, ErrorRowsCounted DEF SummaryRow, SummaryIs

\* Above a threshold of at least the page's, a job has a row in the page's strongest colour.
LEMMA RatioIsColoured ==
    ASSUME NEW row \in Rows, loadPolicy \in Policies, ErrorRatioFires(row)
    PROVE  /\ \E s \in row.statistics : s.error > 0
           /\ ErrorCell(row) # "plain"
           /\ loadPolicy.ratio >= Highlight => ErrorCell(row) = "destructive"
<1>1. loadPolicy.ratio \in Int /\ loadPolicy.ratio > 0 /\ Highlight \in Nat
  BY RoutineLoadAssumption, HighlightAssumption DEF ErrorRatioFires
<1>2. PICK s \in row.statistics : s.total > 0 /\ s.error * RatioOne > loadPolicy.ratio * s.total
  BY DEF ErrorRatioFires
<1>3. s.error > 0 /\ s.total \in Nat /\ s.error \in Nat /\ RatioOne \in Nat
  BY <1>1, <1>2, RatioNeedsRows, RowFacts
<1>4. loadPolicy.ratio >= Highlight => s.error * RatioOne > Highlight * s.total
  <2> SUFFICES ASSUME loadPolicy.ratio >= Highlight PROVE s.error * RatioOne > Highlight * s.total
    OBVIOUS
  <2>1. loadPolicy.ratio * s.total >= Highlight * s.total
    BY <1>1, <1>3
  <2>2. s.error * RatioOne \in Int /\ loadPolicy.ratio * s.total \in Int /\ Highlight * s.total \in Int
    BY <1>1, <1>3
  <2> QED
    BY <1>2, <2>1, <2>2
<1> QED
  BY <1>2, <1>3, <1>4 DEF ErrorCell

AlertsOf(rule) == {j \in DOMAIN rows : <<rule, j>> \in EvaluateLoadAlerts(rows)}

\* The alerts come from the four rules and the jobs that were read.
LEMMA AlertsAre ==
    /\ \A a \in EvaluateLoadAlerts(rows) :
          /\ a = <<a[1], a[2]>> /\ a[1] \in Rules /\ a[2] \in DOMAIN rows
          /\ a[1] = "routine_load_paused" => rows[a[2]].state = "PAUSED"
          /\ a[1] = "routine_load_cancelled" => rows[a[2]].state = "CANCELLED"
          /\ a[1] = "routine_load_error_ratio" => ErrorRatioFires(rows[a[2]])
          /\ a[1] = "routine_load_offset_lag" => OffsetLagFires(rows[a[2]])
    /\ AlertsOf("routine_load_paused") = InState(rows, "PAUSED")
    /\ AlertsOf("routine_load_cancelled") = InState(rows, "CANCELLED")
  BY DEF EvaluateLoadAlerts, InState, AlertsOf, Rules

\* Every alert is on the page, rule by rule.
LEMMA AlertIsVisible ==
    ASSUME LoadsTypeOK, NEW a \in EvaluateLoadAlerts(rows)
    PROVE  LoadAlertVisible(a, RoutineLoadPage(Snapshot))
<1> DEFINE page == RoutineLoadPage(Snapshot)
           row == rows[a[2]]
<1>1. a[1] \in Rules /\ a[2] \in DOMAIN rows
  BY AlertsAre
<1>2. page.table[a[2]] = JobRow(row) /\ page.summary = SummaryRow(Snapshot.summary)
  BY <1>1, PageIs
<1>3. row \in Rows /\ loadPolicy \in Policies
  BY <1>1 DEF LoadsTypeOK
<1>8. row.reason \in BOOLEAN
  BY <1>3, HighlightAssumption
<1> HIDE DEF page
<1>4. CASE a[1] = "routine_load_paused"
  <2>1. row.state = "PAUSED" /\ a[2] \in InState(rows, "PAUSED")
    BY <1>1, <1>4, AlertsAre DEF InState
  <2>2. page.summary.paused = "bad"
    BY <1>2, <2>1, CardsTell
  <2>3. /\ JobRow(row).badge = "warning"
        /\ row.reason => JobRow(row).detail
    BY <2>1 DEF JobRow, JobStateBadge
  <2> QED
    BY <1>2, <1>4, <2>2, <2>3 DEF LoadAlertVisible, page
<1>5. CASE a[1] = "routine_load_cancelled"
  <2>1. row.state = "CANCELLED" /\ a[2] \in InState(rows, "CANCELLED")
    BY <1>1, <1>5, AlertsAre DEF InState
  <2>2. page.summary.cancelled = "bad"
    BY <1>2, <2>1, CardsTell
  <2>3. /\ JobRow(row).badge = "destructive" /\ JobRow(row).tinted
        /\ row.reason => JobRow(row).detail
    BY <2>1 DEF JobRow, JobStateBadge
  <2> QED
    BY <1>2, <1>5, <2>2, <2>3 DEF LoadAlertVisible, page
<1>6. CASE a[1] = "routine_load_error_ratio"
  <2>1. ErrorRatioFires(row)
    BY <1>6, AlertsAre
  <2>2. /\ \E s \in row.statistics : s.error > 0
        /\ ErrorCell(row) # "plain"
        /\ loadPolicy.ratio >= Highlight => ErrorCell(row) = "destructive"
    BY <1>3, <2>1, RatioIsColoured
  <2>3. page.summary.errorRows # "good"
    BY <1>1, <1>2, <2>2, CardsTell
  <2>4. JobRow(row).errors = ErrorCell(row)
    BY DEF JobRow
  <2> QED
    BY <1>2, <1>6, <2>2, <2>3, <2>4 DEF LoadAlertVisible, page
<1>7. CASE a[1] = "routine_load_offset_lag"
  <2>1. OffsetLagFires(row) /\ JobRow(row).lag = computeOffsetLag(row)
    BY <1>7, AlertsAre DEF JobRow
  <2> QED
    BY <1>2, <1>7, <2>1 DEF LoadAlertVisible, OffsetLagFires, page
<1> QED
  BY <1>1, <1>4, <1>5, <1>6, <1>7 DEF Rules

\* Cards that are all good come with no alert but lag.
LEMMA GoodCards ==
    ASSUME LoadsTypeOK, LET page == RoutineLoadPage(Snapshot)
                        IN \A card \in DOMAIN page.summary : page.summary[card] = "good"
    PROVE  /\ {a[1] : a \in EvaluateLoadAlerts(rows)} \subseteq {"routine_load_offset_lag"}
           /\ InState(rows, "RUNNING") = DOMAIN rows
<1> DEFINE cards == SummaryRow(Snapshot.summary)
<1>1. \A card \in DOMAIN cards : cards[card] = "good"
  BY PageIs
<1>2. /\ cards.running = "good" /\ cards.paused = "good" /\ cards.cancelled = "good"
      /\ cards.errorRows = "good"
  BY <1>1, CardsTell
<1>3. /\ InState(rows, "PAUSED") = {} /\ InState(rows, "CANCELLED") = {}
      /\ InState(rows, "RUNNING") = DOMAIN rows
      /\ \A j \in DOMAIN rows : \A s \in rows[j].statistics : ~ s.error > 0
  BY <1>2, CardsTell
<1>4. ASSUME NEW a \in EvaluateLoadAlerts(rows), a[1] # "routine_load_offset_lag" PROVE FALSE
  <2>1. a[1] \in Rules /\ a[2] \in DOMAIN rows
    BY AlertsAre
  <2>2. CASE a[1] = "routine_load_paused" \/ a[1] = "routine_load_cancelled"
    BY <1>3, <2>1, <2>2, AlertsAre DEF InState
  <2>3. CASE a[1] = "routine_load_error_ratio"
    <3>1. ErrorRatioFires(rows[a[2]]) /\ rows[a[2]] \in Rows /\ loadPolicy \in Policies
      BY <2>1, <2>3, AlertsAre DEF LoadsTypeOK
    <3>2. \E s \in rows[a[2]].statistics : s.error > 0
      BY <3>1, RatioIsColoured
    <3> QED
      BY <1>3, <2>1, <3>2
  <2> QED
    BY <1>4, <2>1, <2>2, <2>3 DEF Rules
<1> QED
  BY <1>3, <1>4

\* The unhealthy card counts the jobs that are paused or cancelled.
LEMMA UnhealthyCounted ==
    ASSUME LoadsTypeOK
    PROVE  Cardinality(AlertsOf("routine_load_paused") \cup AlertsOf("routine_load_cancelled"))
             = Snapshot.summary.unhealthy
<1>1. InState(rows, "PAUSED") \cap InState(rows, "CANCELLED") = {}
  BY DEF InState
<1>2. Cardinality(InState(rows, "PAUSED") \cup InState(rows, "CANCELLED"))
        = Cardinality(InState(rows, "PAUSED")) + Cardinality(InState(rows, "CANCELLED"))
  BY <1>1, StateCounts, DisjointUnion
<1> QED
  BY <1>2, AlertsAre, PageIs DEF SummaryIs

\* A row is a job, and a job without a row is in a database the notices name.
LEMMA EveryJobShows ==
    ASSUME ReportedOrWarned, LoadsCollected, loadsSteady
    PROVE  LET page == RoutineLoadPage(Snapshot)
           IN /\ DOMAIN page.table \subseteq DOMAIN jobs
              /\ \A j \in DOMAIN jobs \ DOMAIN page.table : j[1] \in page.notices
<1>1. DOMAIN rows = {j \in DOMAIN jobs : j[1] \notin failed}
  BY DEF ReportedOrWarned
<1> QED
  BY <1>1, PageIs

\* Every alert evaluated on a snapshot is seen on the page drawn from it
\* (routineload_alerts.go:56, JobsTable.tsx:18), a page whose cards are all good comes with
\* no alert but lag, and a job of a cluster that kept still that has no row is in a database
\* the notices name (routineload_repository.go:76-78): for any jobs, none included, columns
\* and thresholds, and any highlight of the page.
THEOREM LoadAlertsAreSeen == LoadsSpec => []LoadAlertsAreOnThePage
<1>1. LoadsTypeOK /\ ReportedOrWarned => LoadAlertsAreOnThePage
  <2> SUFFICES ASSUME LoadsTypeOK, ReportedOrWarned, LoadsCollected
               PROVE  LoadAlertsAreOnThePage
    BY DEF LoadAlertsAreOnThePage
  <2>1. {j \in DOMAIN rows : \/ <<"routine_load_paused", j>> \in EvaluateLoadAlerts(rows)
                             \/ <<"routine_load_cancelled", j>> \in EvaluateLoadAlerts(rows)}
          = AlertsOf("routine_load_paused") \cup AlertsOf("routine_load_cancelled")
    BY DEF AlertsOf
  <2> QED
    BY <2>1, AlertIsVisible, GoodCards, UnhealthyCounted, EveryJobShows
       DEF LoadAlertsAreOnThePage
<1> QED
  BY <1>1, LoadsTyped, NoJobIsLost, PTL

-----------------------------------------------------------------------------
(* AlertPipeline *)

\* What EvaluationIsExact needs to be inductive.  One alert is under way, and only while
\* alerts are dispatched.  No source is counted twice, and without one that answered
\* there is no alert.  What is owed still holds and can still be read; of the sources
\* called so far it is among the alerts, and after the last one all of it is.
PollerInv ==
    /\ PollerTypeOK
    /\ sending # Nothing => pollerPc = "dispatch"
    /\ oks < next /\ (oks = 0 => alerts = {})
    /\ alerts \subseteq ever /\ ({sending} \ {Nothing}) \subseteq ever
    /\ pollerPc = "collect" => holding \subseteq ever
    /\ owed \subseteq holding \cap ReportedBy(readable)
    /\ ctxDone => owed = {}
    /\ pollerPc = "collect" =>
          \A i \in 1..(next - 1) : owed \cap KeysOf[Collectors[i]] \subseteq alerts
    /\ pollerPc = "dispatch" => owed \subseteq alerts
    /\ pollerPc \in {"wait", "settings", "stopped"} => owed = {}

\* What PipelineAssumption says, in the sets the module is built from.
LEMMA CollectorFacts ==
    /\ Len(Collectors) \in Nat
    /\ \A i \in 1..Len(Collectors) : Collectors[i] \in Sources /\ KeysOf[Collectors[i]] \subseteq Keys
    /\ \A k \in Keys : \E i \in 1..Len(Collectors) : k \in KeysOf[Collectors[i]]
    /\ \A c, d \in Sources : c # d => KeysOf[c] \cap KeysOf[d] = {}
    /\ Nothing \notin Keys /\ Cooldown \in Nat
<1>1. Len(Collectors) \in Nat /\ \A i \in 1..Len(Collectors) : Collectors[i] \in Sources
  BY PipelineAssumption
<1>2. \A c \in Sources : KeysOf[c] \subseteq Keys /\ \E i \in 1..Len(Collectors) : c = Collectors[i]
  BY DEF Sources, Keys
<1>3. \A k \in Keys : \E c \in Sources : k \in KeysOf[c]
  BY DEF Keys
<1> QED
  BY <1>1, <1>2, <1>3, PipelineAssumption

\* Nothing is owed and nothing is under way at first.
LEMMA PollerStart == PollerInit => PollerInv
<1> SUFFICES ASSUME PollerInit PROVE PollerInv
  OBVIOUS
<1>1. age \in [Keys -> 0..Cooldown]
  BY CollectorFacts DEF PollerInit
<1>2. next \in 1..(Len(Collectors) + 1) /\ oks \in 0..Len(Collectors) /\ oks < next
  BY CollectorFacts DEF PollerInit
<1> QED
  BY <1>1, <1>2 DEF PollerInit, PollerInv, PollerTypeOK

\* The collector that is called reports what is owed of its source.
LEMMA CollectStep == ASSUME PollerInv, Collect PROVE PollerInv'
<1> DEFINE c == Collectors[next]
           ok == c \in readable /\ ~ctxDone
<1>1. /\ pollerPc = "collect" /\ next \in 1..Len(Collectors) /\ oks \in Nat /\ oks < next
      /\ next' = next + 1
      /\ oks' = IF ok THEN oks + 1 ELSE oks
      /\ alerts' = IF ok THEN alerts \cup (holding \cap KeysOf[c]) ELSE alerts
      /\ UNCHANGED <<environment, pollerPc, history, sending, age, timerFired>>
  BY CollectorFacts DEF Collect, PollerInv, PollerTypeOK
<1>2. c \in Sources /\ KeysOf[c] \subseteq Keys
  BY <1>1, CollectorFacts
<1>3. alerts \subseteq alerts' /\ alerts' \subseteq ever /\ alerts' \subseteq Keys
  BY <1>1, <1>2 DEF PollerInv, PollerTypeOK
<1>4. next' \in 1..(Len(Collectors) + 1) /\ oks' \in 0..Len(Collectors) /\ oks' < next'
  BY <1>1, CollectorFacts
<1>5. sending = Nothing
  BY <1>1 DEF PollerInv
<1>6. oks' = 0 => alerts' = {}
  BY <1>1 DEF PollerInv
<1>7. owed \cap KeysOf[c] \subseteq alerts'
  <2> SUFFICES ASSUME NEW k \in owed, k \in KeysOf[c] PROVE k \in alerts'
    OBVIOUS
  <2>1. PICK d \in readable : k \in KeysOf[d]
    BY DEF PollerInv, ReportedBy
  <2>2. d = c
    BY <1>2, <2>1, CollectorFacts DEF PollerInv, PollerTypeOK
  <2> QED
    BY <1>1, <2>1, <2>2 DEF PollerInv
<1>8. ASSUME NEW i \in 1..(next' - 1) PROVE owed' \cap KeysOf[Collectors[i]] \subseteq alerts'
  <2>1. CASE i = next
    BY <1>1, <1>7, <2>1 DEF history
  <2>2. CASE i # next
    <3>1. i \in 1..(next - 1)
      BY <1>1, <2>2
    <3> QED
      BY <1>1, <1>3, <3>1 DEF PollerInv, history
  <2> QED
    BY <2>1, <2>2
<1>9. /\ holding' = holding /\ readable' = readable /\ ctxDone' = ctxDone
      /\ pollerPc = "collect" /\ pollerPc' = "collect"
      /\ ever' = ever /\ owed' = owed /\ sending' = sending
      /\ hookUp' = hookUp /\ enabled' = enabled /\ age' = age /\ timerFired' = timerFired
  BY <1>1 DEF environment, history
<1>10. PollerTypeOK'
  BY <1>3, <1>4, <1>9 DEF PollerInv, PollerTypeOK
<1> HIDE DEF c, ok
<1> QED
  BY <1>3, <1>4, <1>5, <1>6, <1>8, <1>9, <1>10 DEF PollerInv

\* After the last collector, what is owed has been collected.
LEMMA CombinedStep == ASSUME PollerInv, Combined PROVE PollerInv'
<1>1. /\ pollerPc = "collect" /\ next > Len(Collectors) /\ next \in Nat
      /\ pollerPc' = IF oks = 0 THEN "wait" ELSE "dispatch"
      /\ UNCHANGED <<environment, next, oks, alerts, history, sending, age, timerFired>>
  BY CollectorFacts DEF Combined, PollerInv, PollerTypeOK
<1>2. owed \subseteq alerts
  <2> SUFFICES ASSUME NEW k \in owed PROVE k \in alerts
    OBVIOUS
  <2>1. PICK i \in 1..Len(Collectors) : k \in KeysOf[Collectors[i]]
    BY CollectorFacts DEF PollerInv, PollerTypeOK
  <2>2. i \in 1..(next - 1)
    BY <1>1, CollectorFacts
  <2> QED
    BY <1>1, <2>1, <2>2 DEF PollerInv
<1>3. oks = 0 => owed = {}
  BY <1>2 DEF PollerInv
<1> QED
  BY <1>1, <1>2, <1>3 DEF PollerInv, PollerTypeOK, environment, history

\* One case for each action of the poller and of its environment.
LEMMA PollerStep == PollerInv /\ [PollerNext]_pollerVars => PollerInv'
<1> SUFFICES ASSUME PollerInv, [PollerNext]_pollerVars PROVE PollerInv'
  OBVIOUS
<1> USE DEF PollerInv, PollerTypeOK, poller, environment, history
<1>1. CASE ConditionChanges
  <2>1. /\ holding' \subseteq Keys /\ holding' \subseteq ever' /\ ever \subseteq ever' /\ ever' \subseteq Keys
        /\ owed' \subseteq owed /\ owed' \subseteq holding'
    BY <1>1 DEF ConditionChanges
  <2> QED
    BY <1>1, <2>1 DEF ConditionChanges
<1>2. CASE ReadabilityChanges
  <2>1. /\ readable' \subseteq Sources
        /\ owed' \subseteq owed /\ owed' \subseteq ReportedBy(readable')
    BY <1>2 DEF ReadabilityChanges
  <2> QED
    BY <1>2, <2>1 DEF ReadabilityChanges
<1>3. CASE WebhookChanges \/ OperatorToggles
  <2>1. hookUp' \in BOOLEAN /\ enabled' \in BOOLEAN
    BY <1>3 DEF WebhookChanges, OperatorToggles
  <2>2. UNCHANGED <<holding, readable, ctxDone, poller, history, age, timerFired>>
    BY <1>3 DEF WebhookChanges, OperatorToggles
  <2> QED
    BY <2>1, <2>2
<1>13. CASE Cancel
  <2>1. ctxDone' = TRUE /\ owed' = {}
    BY <1>13 DEF Cancel
  <2> QED
    BY <1>13, <2>1 DEF Cancel
<1>4. CASE Tick
  <2>1. age' \in [Keys -> 0..Cooldown]
    BY <1>4, CollectorFacts DEF Tick
  <2> QED
    BY <1>4, <2>1 DEF Tick
<1>5. CASE ReadSettings
  <2>1. /\ next' = 1 /\ oks' = 0 /\ alerts' = {} /\ sending' = Nothing /\ ever' = holding
        /\ owed' \subseteq holding \cap ReportedBy(readable) /\ (~enabled \/ ctxDone => owed' = {})
        /\ pollerPc' = IF enabled THEN "collect" ELSE "wait"
    BY <1>5 DEF ReadSettings
  <2>2. next' \in 1..(Len(Collectors) + 1) /\ oks' \in 0..Len(Collectors) /\ oks' < next'
    BY <2>1, CollectorFacts
  <2>3. \A i : i \notin 1..(next' - 1)
    BY <2>1
  <2> QED
    BY <1>5, <2>1, <2>2, <2>3 DEF ReadSettings
<1>6. CASE Collect
  BY <1>6, CollectStep
<1>7. CASE Combined
  BY <1>7, CombinedStep
<1>8. ASSUME NEW k \in Keys, DispatchSuppressed(k) PROVE PollerInv'
  BY <1>8 DEF DispatchSuppressed
<1>9. ASSUME NEW k \in Keys, DispatchFires(k) PROVE PollerInv'
  <2>1. age' \in [Keys -> 0..Cooldown]
    BY <1>9, CollectorFacts DEF DispatchFires
  <2> QED
    BY <1>9, <2>1 DEF DispatchFires
<1>10. ASSUME NEW k \in Keys, Delivered(k) \/ DeliveryFailed(k) PROVE PollerInv'
  BY <1>10 DEF Delivered, DeliveryFailed
<1>11. CASE Evaluated \/ TimerFires \/ NextIteration \/ Stop
  BY <1>11 DEF Evaluated, TimerFires, NextIteration, Stop
<1>12. CASE UNCHANGED pollerVars
  BY <1>12 DEF pollerVars
<1> QED
  BY <1>1, <1>2, <1>3, <1>4, <1>5, <1>6, <1>7, <1>8, <1>9, <1>10, <1>11, <1>12, <1>13
     DEF PollerNext, Environment, Run, Evaluate

\* Every evaluation hands over what it owes and nothing that held at no moment of it
\* (poller.go:69-81, collect.go:23-36): for any sources, keys and cooldown, whatever the
\* cluster, the sources, the webhook and the operator do meanwhile.
THEOREM EvaluationsAreExact == PollerSpec => []EvaluationIsExact
<1>1. PollerInv => EvaluationIsExact
  BY DEF PollerInv, EvaluationIsExact
<1> QED
  BY <1>1, PollerStart, PollerStep, PTL DEF PollerSpec

-----------------------------------------------------------------------------
(* Storage: the detail of a table *)

\* The request between its steps.
DetailInv ==
    /\ storagePc # "idle" => tablets = NoTable /\ read = << >> /\ "tablets" \notin warnings
    /\ "tablets" \in warnings => read = << >>
    /\ tablets \in {NoTable, summary}
    /\ storagePc \in {"partitions", "tablets"} \/ answer = "ok" => summary # NoTable
    /\ answer = "not_found" => summary = NoTable
    /\ tableSteady =>
         /\ storagePc \in {"sizes", "partitions", "tablets"} \/ answer \in {"ok", "not_found"}
              => summary = tables[asked]
         /\ storagePc \in {"partitions", "tablets"} \/ answer = "ok" => sized \in {NoTable, summary}
         /\ storagePc \in {"tables", "sizes", "partitions"} => partitions = NoTable /\ warnings = {}
         /\ storagePc = "tablets" \/ answer = "ok"
              => partitions = IF "partitions" \in warnings THEN NoTable ELSE summary
         /\ answer = "ok" => tablets = IF "tablets" \in warnings THEN NoTable ELSE summary

StorageInv == StorageTypeOK /\ DetailInv

\* No rows leave the levels as they were.
LEMMA NoRowsNoLevels == applyTabletLoads(<< >>) = NoLevels
<1>1. Len(<< >>) = 0
  OBVIOUS
<1>2. PICK after : FoldsTo(after, << >>, Len(<< >>)) /\ applyTabletLoads(<< >>) = after[Len(<< >>)]
  BY <1>1, FoldIs
<1>3. after = [i \in 0..0 |-> IF i = 0 THEN NoLevels ELSE applyTablet(after[i - 1], << >>[i])]
  BY <1>1, <1>2 DEF FoldsTo
<1> QED
  BY <1>1, <1>2, <1>3

\* A table may have no tablets.
LEMMA NoRowsAreBounded == << >> \in BoundedSeq(TabletRows, MaxTablets)
<1>1. 0 \in 0..MaxTablets /\ << >> \in [1..0 -> TabletRows]
  BY StorageAssumption
<1> QED
  BY <1>1 DEF BoundedSeq, SeqOf

\* No request has been made at first.
LEMMA StorageInvInit == StorageInit => StorageInv
<1> SUFFICES ASSUME StorageInit PROVE StorageInv
  OBVIOUS
<1>1. StorageTypeOK
  <2>1. 0 \in 0..MaxIds
    BY StorageAssumption
  <2>2. levels = applyTabletLoads(read)
    BY NoRowsNoLevels DEF StorageInit
  <2>3. read \in BoundedSeq(TabletRows, MaxTablets)
    BY NoRowsAreBounded DEF StorageInit
  <2>4. tables \in [TableNames -> Ids] /\ {summary, sized, partitions, tablets} \subseteq Ids
    BY DEF StorageInit, Ids
  <2> QED
    BY <2>1, <2>2, <2>3, <2>4 DEF StorageInit, StorageTypeOK
<1>2. DetailInv
  BY DEF StorageInit, DetailInv
<1> QED
  BY <1>1, <1>2 DEF StorageInv

\* One case for each step of a request and of the catalog.
LEMMA StorageInvNext == StorageInv /\ [StorageNext]_storageVars => StorageInv'
<1> SUFFICES ASSUME StorageInv, [StorageNext]_storageVars PROVE StorageInv'
  OBVIOUS
<1> USE DEF StorageInv
<1>1. CASE UNCHANGED storageVars
  BY <1>1 DEF StorageTypeOK, DetailInv, storageVars, catalog, detail
<1>2. CASE CreateTable
  <2>1. created \in 0..MaxIds /\ created + 1 \in 0..MaxIds /\ created \in Ids
    BY <1>2, StorageAssumption DEF CreateTable, StorageTypeOK, Ids
  <2>2. tables' \in [TableNames -> Ids]
    BY <1>2, <2>1 DEF CreateTable, StorageTypeOK
  <2>3. StorageTypeOK'
    BY <1>2, <2>1, <2>2 DEF CreateTable, StorageTypeOK, detail
  <2>4. DetailInv'
    BY <1>2 DEF CreateTable, DetailInv, detail
  <2> QED
    BY <2>3, <2>4
<1>3. CASE DropTable
  <2>1. tables' \in [TableNames -> Ids]
    BY <1>3 DEF DropTable, StorageTypeOK, Ids
  <2>2. StorageTypeOK'
    BY <1>3, <2>1 DEF DropTable, StorageTypeOK, detail
  <2>3. DetailInv'
    BY <1>3 DEF DropTable, DetailInv, detail
  <2> QED
    BY <2>2, <2>3
<1>4. CASE Statistic
  BY <1>4 DEF Statistic, StorageTypeOK, DetailInv, catalog, detail
<1>5. ASSUME NEW n \in TableNames, TableDetail(n) PROVE StorageInv'
  <2>1. /\ asked' = n /\ answer' = "none" /\ storagePc' = "tables"
        /\ summary' = NoTable /\ sized' = NoTable /\ partitions' = NoTable /\ tablets' = NoTable
        /\ levels' = NoLevels /\ read' = << >> /\ warnings' = {} /\ UNCHANGED catalog
    BY <1>5 DEF TableDetail
  <2>2. levels' = applyTabletLoads(read') /\ read' \in BoundedSeq(TabletRows, MaxTablets)
    BY <2>1, NoRowsNoLevels, NoRowsAreBounded
  <2>3. NoTable \in Ids
    BY DEF Ids
  <2>4. StorageTypeOK'
    BY <2>1, <2>2, <2>3 DEF StorageTypeOK, catalog
  <2>5. DetailInv'
    BY <2>1 DEF DetailInv
  <2> QED
    BY <2>4, <2>5
<1>6. CASE ReadTables
  <2>1. tables[asked] \in Ids
    BY DEF StorageTypeOK
  <2>2. StorageTypeOK'
    BY <1>6, <2>1 DEF ReadTables, StorageTypeOK, catalog
  <2>3. DetailInv'
    BY <1>6 DEF ReadTables, DetailInv, StorageTypeOK, catalog
  <2> QED
    BY <2>2, <2>3
<1>7. CASE ReadTablesFails
  <2>1. StorageTypeOK'
    BY <1>7 DEF ReadTablesFails, Respond, StorageTypeOK, catalog, detail
  <2>2. DetailInv'
    BY <1>7 DEF ReadTablesFails, Respond, DetailInv, StorageTypeOK, catalog, detail
  <2> QED
    BY <2>1, <2>2
<1>8. CASE ReadSizes
  <2>1. tables[asked] \in Ids /\ NoTable \in Ids
    BY DEF StorageTypeOK, Ids
  <2>2. CASE summary = NoTable
    BY <1>8, <2>1, <2>2 DEF ReadSizes, Respond, StorageTypeOK, DetailInv, catalog
  <2>3. CASE summary # NoTable
    BY <1>8, <2>1, <2>3 DEF ReadSizes, Respond, StorageTypeOK, DetailInv, catalog
  <2> QED
    BY <2>2, <2>3
<1>9. CASE ReadPartitions
  <2>1. tables[asked] \in Ids
    BY DEF StorageTypeOK
  <2>2. StorageTypeOK'
    BY <1>9, <2>1 DEF ReadPartitions, StorageTypeOK, catalog
  <2>3. DetailInv'
    BY <1>9 DEF ReadPartitions, DetailInv, StorageTypeOK, catalog
  <2> QED
    BY <2>2, <2>3
<1>10. CASE PartitionsFail
  <2>1. StorageTypeOK'
    BY <1>10 DEF PartitionsFail, StorageTypeOK, catalog
  <2>2. DetailInv'
    BY <1>10 DEF PartitionsFail, DetailInv, StorageTypeOK, catalog
  <2> QED
    BY <2>1, <2>2
<1>11. CASE ReadTablets
  <2>1. read' \in BoundedSeq(TabletRows, MaxTablets)
    <3>1. CASE tablets' = NoTable
      BY <1>11, <3>1, NoRowsAreBounded DEF ReadTablets, TabletsOf
    <3>2. CASE tablets' # NoTable
      BY <1>11, <3>2 DEF ReadTablets, TabletsOf
    <3> QED
      BY <3>1, <3>2
  <2>2. tablets' \in {NoTable, summary} /\ NoTable \in Ids /\ summary \in Ids
    BY <1>11 DEF ReadTablets, StorageTypeOK, Ids
  <2>3. StorageTypeOK'
    BY <1>11, <2>1, <2>2 DEF ReadTablets, Respond, StorageTypeOK, catalog
  <2>4. DetailInv'
    BY <1>11, <2>2 DEF ReadTablets, Respond, DetailInv, StorageTypeOK, catalog
  <2> QED
    BY <2>3, <2>4
<1>12. CASE TabletsFail
  <2>1. StorageTypeOK'
    BY <1>12 DEF TabletsFail, Respond, StorageTypeOK, catalog
  <2>2. DetailInv'
    BY <1>12 DEF TabletsFail, Respond, DetailInv, StorageTypeOK, catalog
  <2> QED
    BY <2>1, <2>2
<1> QED
  BY <1>1, <1>2, <1>3, <1>4, <1>5, <1>6, <1>7, <1>8, <1>9, <1>10, <1>11, <1>12
     DEF StorageNext, Request

\* The invariant of a request.
LEMMA StorageInvHolds == StorageSpec => []StorageInv
<1> QED
  BY StorageInvInit, StorageInvNext, PTL DEF StorageSpec

\* Every variable of a request has its type, a request is answered once, at its end, and
\* the levels are those of the rows that were read (storage_service.go:157-208).
THEOREM StorageTyped == StorageSpec => []StorageTypeOK
<1>1. StorageInv => StorageTypeOK
  BY DEF StorageInv
<1> QED
  BY <1>1, StorageInvHolds, PTL

\* Every part of an answer is the asked table's, or it is missing and a warning says so,
\* when no table was created or dropped meanwhile (storage_service.go:157-202): for any
\* names, tables and tablets, and whichever of the four statements fails.
THEOREM DetailIsOfTheAskedTable == StorageSpec => []SteadyDetailIsTheTable
<1>1. StorageInv => SteadyDetailIsTheTable
  BY DEF StorageInv, DetailInv, SteadyDetailIsTheTable
<1> QED
  BY <1>1, StorageInvHolds, PTL

\* The tablets are those of the very table the list gave, and a table that exists
\* throughout is found (storage_service.go:194-200), whatever is dropped and created
\* meanwhile, under the same name or another.
THEOREM TabletsAreOfTheListedTable == StorageSpec => []TabletsOfTheListedTable
<1>1. StorageInv => TabletsOfTheListedTable
  BY DEF StorageInv, DetailInv, TabletsOfTheListedTable
<1> QED
  BY <1>1, StorageInvHolds, PTL

\* The rows that be_tablets may return are rows.
LEMMA ReadIsRows ==
    ASSUME StorageTypeOK
    PROVE  \E n \in Nat : IsRows(read, n)
<1>1. PICK n \in 0..MaxTablets : read \in [1..n -> TabletRows]
  BY DEF StorageTypeOK, BoundedSeq, SeqOf
<1>2. n \in Nat
  BY StorageAssumption
<1>3. ASSUME NEW row \in TabletRows PROVE IsRow(row)
  <2>1. /\ row.be \in Int /\ row.ok \in BOOLEAN
        /\ row.rows \in Nat \cup {Nil} /\ row.bytes \in Nat \cup {Nil} /\ row.rowsets \in Nat \cup {Nil}
    BY StorageAssumption
  <2>2. \A v \in Nat \cup {Nil} : OrZero(v) \in Nat
    BY DEF OrZero
  <2>3. OrZero(row.rows) \in Nat /\ OrZero(row.bytes) \in Nat /\ OrZero(row.rowsets) \in Nat
    BY <2>1, <2>2
  <2> QED
    BY <2>1, <2>3 DEF IsRow
<1>4. DOMAIN read = 1..n /\ Len(read) = n
  BY <1>1, <1>2
<1>5. IsRows(read, n)
  BY <1>1, <1>2, <1>3, <1>4 DEF IsRows
<1> QED
  BY <1>2, <1>5

\* The levels agree with the rows they were folded from and with each other, and
\* computeSkew agrees with a definition by counting (storage_service.go:221-334): for
\* any tablets in any order, whatever columns they lack.
THEOREM LevelsAreSound == StorageSpec => []LevelsAndSkewAgree
<1>1. ASSUME StorageInv PROVE LevelsAndSkewAgree
  <2>1. PICK n \in Nat : IsRows(read, n)
    BY <1>1, ReadIsRows DEF StorageInv
  <2>2. LevelsOf(applyTabletLoads(read), read) /\ SoundSkew(applyTabletLoads(read))
    BY <2>1, LevelsAgree
  <2>3. levels = applyTabletLoads(read)
    BY <1>1 DEF StorageInv, StorageTypeOK
  <2> QED
    BY <2>2, <2>3 DEF LevelsAndSkewAgree
<1> QED
  BY <1>1, StorageInvHolds, PTL

-----------------------------------------------------------------------------
(* The statistic *)

\* What Statistic keeps: the databases' counters, and their sums.
IsStatistic(s) ==
    /\ DOMAIN s.databases \subseteq StatisticDatabases
    /\ \A d \in DOMAIN s.databases, f \in Fields : s.databases[d][f] \in Nat
    /\ s.totals = [f \in Fields |-> Sum(s.databases, f)]

\* A total is positive when some database's counter is.
LEMMA TotalIsPositive ==
    ASSUME NEW s, IsStatistic(s), NEW f \in Fields
    PROVE  /\ Sum(s.databases, f) \in Nat
           /\ Sum(s.databases, f) > 0 <=> \E d \in DOMAIN s.databases : s.databases[d][f] > 0
<1> DEFINE D == DOMAIN s.databases
           g == [d \in D |-> s.databases[d][f]]
<1>1. IsFiniteSet(D)
  BY StorageAssumption, FS_Subset DEF IsStatistic
<1>2. \A d \in D : g[d] \in Nat /\ g[d] = s.databases[d][f]
  BY DEF IsStatistic
<1>3. Sum(s.databases, f) = SumFunctionOnSet(g, D)
  BY DEF Sum, SumFunction
<1> HIDE DEF g, D
<1>4. /\ SumFunctionOnSet(g, D) \in Nat
      /\ SumFunctionOnSet(g, D) > 0 <=> \E d \in D : g[d] > 0
  BY <1>1, <1>2, SumPositive
<1> QED
  BY <1>2, <1>3, <1>4 DEF D

\* fold leaves out the row that StarRocks appends, and no other.
LEMMA StatisticIsFolded ==
    ASSUME NEW counters \in [StatisticDatabases -> Counters]
    PROVE  IsStatistic(fold(ProcRows(counters)))
<1> DEFINE given == ProcRows(counters)
           s == fold(given)
<1>1. DOMAIN given = StatisticDatabases \cup {"Total"}
  BY DEF ProcRows
<1>2. \A d \in StatisticDatabases : given[d] = counters[d]
  BY StorageAssumption DEF ProcRows
<1> HIDE DEF given
<1>3. /\ s.databases = [d \in DOMAIN given \ {"Total"} |-> given[d]]
      /\ s.totals = [f \in Fields |-> Sum(s.databases, f)]
  BY DEF fold
<1>4. DOMAIN s.databases = StatisticDatabases
  BY <1>1, <1>3, StorageAssumption
<1>5. ASSUME NEW d \in StatisticDatabases, NEW f \in Fields
      PROVE  s.databases[d][f] \in Nat
  <2>1. s.databases[d] = counters[d] /\ counters[d] \in Counters
    BY <1>1, <1>2, <1>3, StorageAssumption
  <2> QED
    BY <2>1, StorageAssumption
<1> HIDE DEF s
<1>6. IsStatistic(s)
  BY <1>3, <1>4, <1>5 DEF IsStatistic
<1> QED
  BY <1>6 DEF s, given

\* Before the first statistic there are no counters.
LEMMA NothingIsStatistic == IsStatistic(fold([r \in {} |-> 0]))
<1> DEFINE s == fold([r \in {} |-> 0])
<1>1. /\ DOMAIN s.databases = {}
      /\ s.totals = [f \in Fields |-> Sum(s.databases, f)]
  BY DEF fold
<1> HIDE DEF s
<1>2. IsStatistic(s)
  BY <1>1 DEF IsStatistic
<1> QED
  BY <1>2 DEF s

\* The card above the table against the table's cells.
LEMMA CardAgreesWithTable ==
    ASSUME NEW s, IsStatistic(s)
    PROVE  StatisticSummary(s.totals).tone = "good"
             <=> \A d \in DOMAIN s.databases, f \in Fields :
                    DatabaseHealthTable(s.databases)[d][f] = "plain"
<1> DEFINE D == DOMAIN s.databases
           T == DatabaseHealthTable(s.databases)
           total(f) == Sum(s.databases, f)
           faults == {"unhealthy", "inconsistent", "errorState"}
<1>1. faults \subseteq Fields
  BY DEF Fields, Health
<1>2. \A f \in faults : /\ s.totals[f] = total(f) /\ total(f) \in Nat
                        /\ total(f) > 0 <=> \E d \in D : s.databases[d][f] > 0
  <2>1. \A f \in Fields : s.totals[f] = total(f)
    BY DEF IsStatistic
  <2> QED
    BY <1>1, <2>1, TotalIsPositive
<1>3. NeedsAttention(s.totals) > 0 <=> \E f \in faults : \E d \in D : s.databases[d][f] > 0
  <2> HIDE DEF total, D
  <2>1. NeedsAttention(s.totals) = total("unhealthy") + total("inconsistent") + total("errorState")
    BY <1>2 DEF NeedsAttention
  <2>2. total("unhealthy") \in Nat /\ total("inconsistent") \in Nat /\ total("errorState") \in Nat
    BY <1>2
  <2>3. NeedsAttention(s.totals) > 0 <=> \E f \in faults : total(f) > 0
    BY <2>1, <2>2
  <2> QED
    BY <1>2, <2>3
<1>4. StatisticSummary(s.totals).tone = "good" <=> ~(NeedsAttention(s.totals) > 0)
  BY DEF StatisticSummary
<1>5. \A d \in D, f \in Fields : T[d][f] = NumCell(f, s.databases[d][f])
  BY DEF DatabaseHealthTable
<1>6. \A d \in D, f \in Fields :
         T[d][f] = "plain" <=> ~(s.databases[d][f] > 0 /\ f \in faults)
  <2>1. \A d \in D, f \in Fields :
           NumCell(f, s.databases[d][f]) = "plain" <=> ~(s.databases[d][f] > 0 /\ f \in faults)
    BY DEF NumCell
  <2> QED
    BY <1>5, <2>1
<1> HIDE DEF T, total, faults
<1> QED
  BY <1>1, <1>3, <1>4, <1>6 DEF T

\* The totals on screen are the databases' own sums, and the card above the table is
\* green exactly when no cell of the table is red (storage_service.go:57-90,
\* StorageView.tsx:121): for any databases and counters.
THEOREM CountersAreSound == StorageSpec => []CountersOnScreen
<1>1. StorageInit => IsStatistic(statistic)
  BY NothingIsStatistic DEF StorageInit
<1>2. IsStatistic(statistic) /\ [StorageNext]_storageVars => IsStatistic(statistic)'
  <2> SUFFICES ASSUME IsStatistic(statistic), [StorageNext]_storageVars
               PROVE  IsStatistic(statistic')
    OBVIOUS
  <2>1. CASE Statistic
    BY <2>1, StatisticIsFolded DEF Statistic
  <2>2. CASE statistic' = statistic
    BY <2>2
  <2>3. Statistic \/ statistic' = statistic
    BY DEF StorageNext, storageVars, CreateTable, DropTable, TableDetail, Request, ReadTables,
           ReadTablesFails, ReadSizes, ReadPartitions, PartitionsFail, ReadTablets, TabletsFail
  <2> QED
    BY <2>1, <2>2, <2>3
<1>3. ASSUME IsStatistic(statistic) PROVE CountersOnScreen
  <2> DEFINE table == DatabaseHealthTable(statistic.databases)
             card == StatisticSummary(statistic.totals)
  <2>1. DOMAIN table = DOMAIN statistic.databases
    BY DEF DatabaseHealthTable
  <2>2. DOMAIN table \subseteq StatisticDatabases
    BY <1>3, <2>1 DEF IsStatistic
  <2>3. \A f \in Fields : statistic.totals[f] = Sum(statistic.databases, f)
    BY <1>3 DEF IsStatistic
  <2>4. card.tone = "good" <=> \A d \in DOMAIN statistic.databases, f \in Fields : table[d][f] = "plain"
    BY <1>3, CardAgreesWithTable
  <2> HIDE DEF table, card
  <2>5. card.tone = "good" <=> \A d \in DOMAIN table, f \in Fields : table[d][f] = "plain"
    BY <2>1, <2>4
  <2> QED
    BY <2>2, <2>3, <2>5 DEF CountersOnScreen, table, card
<1> QED
  BY <1>1, <1>2, <1>3, PTL DEF StorageSpec

-----------------------------------------------------------------------------
(* The panel of a table *)

\* The card of a measured list: it is red exactly when a ratio it shows is over
\* the threshold.
LEMMA CardIsSound ==
    ASSUME NEW list, NEW card, card = SkewCard(measureSkew(list))
    PROVE  /\ card.tone = "skewed" <=> Over(card.ratios)
           /\ card.tone = "even" => card.ratios # {}
           /\ Len(list) < 2 => card.tone = "unmeasured"
<1> DEFINE ratio(c) == IF Len(list) < 2 THEN {} ELSE ratioToMedian(Column(list, c))
           m == measureSkew(list)
<1>1. /\ m.rowsRatio = ratio("rows") /\ m.bytesRatio = ratio("bytes")
      /\ m.skewed <=> (Over(ratio("rows")) \/ Over(ratio("bytes")))
  BY DEF measureSkew
<1>2. Len(list) < 2 => ratio("rows") = {} /\ ratio("bytes") = {}
  OBVIOUS
<1> HIDE DEF ratio, m
<1>3. /\ card.tone = IF ratio("rows") = {} /\ ratio("bytes") = {} THEN "unmeasured"
                     ELSE IF m.skewed THEN "skewed" ELSE "even"
      /\ card.ratios = ratio("rows") \cup ratio("bytes")
  BY <1>1 DEF SkewCard, m
<1>4. Over(card.ratios) <=> (Over(ratio("rows")) \/ Over(ratio("bytes")))
  BY <1>3 DEF Over
<1>5. ratio("rows") = {} /\ ratio("bytes") = {} => ~Over(card.ratios)
  BY <1>3 DEF Over
<1> QED
  BY <1>1, <1>2, <1>3, <1>4, <1>5

\* No bar is longer than a full one, and a backend with rows makes one full.
LEMMA BarsAreSound ==
    ASSUME NEW loads, IsFiniteSet(DOMAIN loads), \A b \in DOMAIN loads : loads[b].rows \in Int,
           NEW bars, bars = BackendDistribution(loads)
    PROVE  /\ DOMAIN bars = DOMAIN loads
           /\ \A b \in DOMAIN bars : bars[b][1] <= bars[b][2]
           /\ (\E b \in DOMAIN loads : loads[b].rows > 0)
                => \E b \in DOMAIN bars : bars[b][1] = bars[b][2]
<1> DEFINE D == DOMAIN loads
           f == [b \in D |-> loads[b].rows]
           S == {f[b] : b \in D} \cup {1}
           full == Max(S)
<1>1. {f[b] : b \in D} = {loads[b].rows : b \in D}
  OBVIOUS
<1>2. bars = [b \in D |-> <<loads[b].rows, full>>]
  BY <1>1 DEF BackendDistribution
<1>3. \A b \in D : f[b] = loads[b].rows /\ f[b] \in Int /\ f[b] \in S
  OBVIOUS
<1>4. IsFiniteSet(S)
  <2>1. IsFiniteSet({f[b] : b \in D})
    <3> HIDE DEF f, D
    <3> QED
      BY ImageIsFinite DEF D
  <2> QED
    BY <2>1, FS_AddElement
<1>5. 1 \in S /\ \A y \in S : y \in Int /\ (y = 1 \/ \E b \in D : y = f[b])
  BY <1>3
<1> HIDE DEF f, S
<1>6. full \in S /\ \A y \in S : full >= y
  BY <1>4, <1>5, MaxIs
<1> HIDE DEF full
<1>7. /\ DOMAIN bars = D
      /\ \A b \in D : bars[b][1] = f[b] /\ bars[b][2] = full /\ f[b] <= full
  BY <1>2, <1>3, <1>5, <1>6
<1>8. ASSUME NEW b \in D, f[b] > 0 PROVE \E a \in D : f[a] = full
  <2>1. CASE full = 1
    <3>1. f[b] = full
      BY <1>3, <1>7, <1>8, <2>1
    <3> QED
      BY <3>1
  <2>2. CASE full # 1
    BY <1>5, <1>6, <2>2
  <2> QED
    BY <2>1, <2>2
<1> QED
  BY <1>3, <1>7, <1>8

\* A tablet with rows gives its backend rows.
LEMMA RowsOfABackend ==
    ASSUME NEW reported, NEW n, IsRows(reported, n), NEW l, LevelsAre(l, reported, n),
           NEW i \in 1..n, OrZero(reported[i].rows) > 0
    PROVE  \E b \in DOMAIN l.loads : l.loads[b].rows > 0
<1> DEFINE b == reported[i].be
           M == Mine(reported, b, n)
           f == [j \in M |-> OrZero(reported[j].rows)]
<1>1. n \in Nat /\ \A j \in 1..n : OrZero(reported[j].rows) \in Nat
  BY DEF IsRows, IsRow
<1>2. IsFiniteSet(M) /\ i \in M /\ M \subseteq 1..n
  <2>1. IsFiniteSet(1..n)
    BY <1>1, IntervalIsFinite
  <2>2. M \subseteq 1..n /\ i \in M
    BY DEF Mine
  <2> QED
    BY <2>1, <2>2, FS_Subset
<1>3. b \in DOMAIN l.loads
  BY DEF LevelsAre, LoadsAre
<1>4. l.loads[b].rows = Of(reported, b, n, "rows")
  <2>1. l.loads[b] = LoadAfter(reported, b, n)
    BY <1>3 DEF LevelsAre, LoadsAre
  <2> QED
    BY <2>1 DEF LoadAfter
<1>5. Of(reported, b, n, "rows") = SumFunctionOnSet(f, M)
  <2>1. \A j \in M : reported[j]["rows"] = reported[j].rows
    OBVIOUS
  <2> QED
    BY DEF Of, SumFunction
<1>6. \A j \in M : f[j] \in Nat /\ f[j] = OrZero(reported[j].rows)
  BY <1>1, <1>2
<1> HIDE DEF f, M
<1>7. SumFunctionOnSet(f, M) > 0
  <2>1. \E j \in M : f[j] > 0
    BY <1>2, <1>6
  <2> QED
    BY <1>2, <1>6, <2>1, SumPositive
<1> HIDE DEF b
<1> QED
  BY <1>3, <1>4, <1>5, <1>7

\* The panel of an answer, conjunct by conjunct.
LEMMA PanelIsSound ==
    ASSUME StorageInv, answer = "ok", storagePc = "idle"
    PROVE  DetailOnScreen
<1> DEFINE panel == TableDetailPanel
           skew == computeSkew(levels)
<1>1. PICK n \in Nat : IsRows(read, n)
  BY ReadIsRows DEF StorageInv
<1>2. DOMAIN read = 1..n /\ Len(read) = n
  BY <1>1 DEF IsRows
<1>3. LevelsAre(levels, read, n)
  BY <1>1, LevelsOfRows DEF StorageInv, StorageTypeOK
<1>4. /\ IsMembers(levels.tablets, n)
      /\ IsFiniteSet(DOMAIN levels.loads) /\ DOMAIN levels.loads = {read[i].be : i \in 1..n}
      /\ \A b \in DOMAIN levels.loads : b \in Int
      /\ \A b \in DOMAIN levels.loads : levels.loads[b].rows \in Int /\ levels.loads[b].bytes \in Int
  BY <1>1, <1>3, MeasuredLists
<1>5. IsMembers(BackendLoads(levels), Cardinality(DOMAIN levels.loads))
  BY <1>4, BackendLoadsAre
<1>6. /\ DOMAIN panel.skew = {"acrossTablets", "acrossBackends"}
      /\ panel.skew["acrossTablets"] = SkewCard(measureSkew(levels.tablets))
      /\ panel.skew["acrossBackends"] = SkewCard(measureSkew(BackendLoads(levels)))
      /\ panel.notices = warnings /\ panel.alarming = (levels.abnormal > 0)
      /\ panel.bars = BackendDistribution(levels.loads)
      /\ panel.partitions = (partitions # NoTable)
  BY DEF TableDetailPanel, computeSkew
<1> HIDE DEF panel
<1>7. "tablets" \in warnings => Len(levels.tablets) < 2 /\ Len(BackendLoads(levels)) < 2
  <2> SUFFICES ASSUME "tablets" \in warnings
               PROVE  Len(levels.tablets) < 2 /\ Len(BackendLoads(levels)) < 2
    OBVIOUS
  <2>1. n = 0
    BY <1>2 DEF StorageInv, DetailInv
  <2>2. DOMAIN levels.loads = {}
    BY <1>4, <2>1
  <2>3. Cardinality({}) = 0
    BY FS_EmptySet
  <2>4. Len(levels.tablets) = n
    BY <1>4 DEF IsMembers
  <2>5. Len(BackendLoads(levels)) = Cardinality(DOMAIN levels.loads)
    BY <1>5 DEF IsMembers
  <2> QED
    BY <2>1, <2>2, <2>3, <2>4, <2>5
<1>8. ASSUME NEW level \in DOMAIN panel.skew
      PROVE  /\ panel.skew[level].tone = "skewed" <=> Over(panel.skew[level].ratios)
             /\ panel.skew[level].tone = "even" => panel.skew[level].ratios # {}
             /\ "tablets" \in panel.notices => panel.skew[level].tone = "unmeasured"
  <2>1. CASE level = "acrossTablets"
    BY <1>6, <1>7, <2>1, CardIsSound
  <2>2. CASE level = "acrossBackends"
    BY <1>6, <1>7, <2>2, CardIsSound
  <2> QED
    BY <1>6, <2>1, <2>2
<1>9. /\ \A b \in DOMAIN panel.bars : panel.bars[b][1] <= panel.bars[b][2]
      /\ (\E b \in DOMAIN levels.loads : levels.loads[b].rows > 0)
           => \E b \in DOMAIN panel.bars : panel.bars[b][1] = panel.bars[b][2]
  <2> DEFINE loads == levels.loads
             bars == panel.bars
  <2>1. IsFiniteSet(DOMAIN loads)
    BY <1>4
  <2>2. \A b \in DOMAIN loads : loads[b].rows \in Int
    BY <1>4
  <2>3. bars = BackendDistribution(loads)
    BY <1>6
  <2> HIDE DEF loads, bars
  <2>4. /\ \A b \in DOMAIN bars : bars[b][1] <= bars[b][2]
        /\ (\E b \in DOMAIN loads : loads[b].rows > 0)
             => \E b \in DOMAIN bars : bars[b][1] = bars[b][2]
    BY <2>1, <2>2, <2>3, BarsAreSound
  <2> QED
    BY <2>4 DEF loads, bars
<1>10. (\E i \in DOMAIN read : OrZero(read[i].rows) > 0)
         => \E b \in DOMAIN panel.bars : panel.bars[b][1] = panel.bars[b][2]
  BY <1>1, <1>2, <1>3, <1>9, RowsOfABackend
<1>11. panel.alarming <=> \E i \in DOMAIN read : ~read[i].ok
  <2> DEFINE B == {i \in 1..n : ~read[i].ok}
  <2>1. levels.abnormal = Cardinality(B)
    BY <1>3 DEF LevelsAre
  <2>2. IsFiniteSet(B)
    <3>1. IsFiniteSet(1..n)
      BY IntervalIsFinite
    <3>2. B \subseteq 1..n
      OBVIOUS
    <3> QED
      BY <3>1, <3>2, FS_Subset
  <2>3. B # {} <=> \E i \in DOMAIN read : ~read[i].ok
    BY <1>2
  <2> HIDE DEF B
  <2>4. Cardinality(B) > 0 <=> B # {}
    BY <2>2, FS_CardinalityType, FS_EmptySet
  <2> QED
    BY <1>6, <2>1, <2>3, <2>4
<1>12. tableSteady => (panel.partitions \/ "partitions" \in panel.notices)
  BY <1>6 DEF StorageInv, DetailInv
<1> QED
  BY <1>8, <1>9, <1>10, <1>11, <1>12 DEF DetailOnScreen, panel

\* The panel of an answer tells what was measured and what is missing, and its bars fit
\* (StorageView.tsx:273, SkewBar.tsx:42): for any table and tablets, and whichever
\* statement failed.
THEOREM PanelTellsTheDetail == StorageSpec => []DetailOnScreen
<1>1. StorageInv => DetailOnScreen
  BY PanelIsSound DEF DetailOnScreen
<1> QED
  BY <1>1, StorageInvHolds, PTL
=============================================================================
