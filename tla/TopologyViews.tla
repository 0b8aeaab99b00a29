---------------------------- MODULE TopologyViews ----------------------------
(***************************************************************************)
(* What the console shows of a topology: TopologyView.tsx with its cards   *)
(* (SummaryCards, NodeCard), the verdict in the header (ClusterStatusPill) *)
(* and the counters of the sidebar.  Each of them judges the same answer   *)
(* of GET /cluster/topology again, from other fields of it; the operators  *)
(* below keep what each one shows and drop how it is drawn.                *)
(*                                                                         *)
(* The answer is the one ClusterTopology collects: its node lists, the     *)
(* summary computed from them, and any run mode resolveRunMode may report. *)
(***************************************************************************)
EXTENDS ClusterTopology

CONSTANT RunModes     \* what resolveRunMode may report

ASSUME RunModesAssumption == {"shared_nothing", "shared_data"} \subseteq RunModes

-----------------------------------------------------------------------------
(* GET /cluster/topology *)

summarize(fes, bes, cns) ==
    [frontends |-> [alive |-> Cardinality(Up(fes)), total |-> Cardinality(DOMAIN fes)],
     backends  |-> [alive |-> Cardinality(Up(bes)), total |-> Cardinality(DOMAIN bes)],
     compute   |-> [alive |-> Cardinality(Up(cns)), total |-> Cardinality(DOMAIN cns)],
     electableTotal |-> Cardinality(Voters(fes)),
     quorumHealthy |-> QuorumHealthy(fes),
     clusterIdMismatch |-> ClusterIDMismatch(fes),
     leaderHost |-> LeaderHost(fes),
     healthy |-> Healthy(fes, bes, cns)]

Topology(fes, bes, cns, mode) ==
    [frontends |-> fes, backends |-> bes, computeNodes |-> cns,
     summary |-> summarize(fes, bes, cns), runMode |-> mode]

Layers == {"frontends", "backends", "compute"}
Down(count) == count.total - count.alive
TotalDown(s) == Down(s.frontends) + Down(s.backends) + Down(s.compute)

-----------------------------------------------------------------------------
(* The topology page *)

\* JournalLagBadge: how far a replica is behind, when the answer says.
JournalLagBadge(nodes, n) ==
    IF n \in FEs /\ nodes[n].role # "LEADER" /\ JournalLag(nodes, n) # {}
    THEN IF \E lag \in JournalLag(nodes, n) : lag > 0 THEN "behind" ELSE "caughtUp"
    ELSE "none"

NodeStatusBadge(node) ==
    CASE node.status = "HEALTHY" -> "alive"
      [] node.status = "DECOMMISSIONED" -> "draining"
      [] OTHER -> "down"

NodeCard(nodes, n) == [badge |-> NodeStatusBadge(nodes[n]),
                       alarming |-> nodes[n].status = "DOWN",
                       lag |-> JournalLagBadge(nodes, n)]

NodeSection(nodes) == [cards |-> [n \in DOMAIN nodes |-> NodeCard(nodes, n)],
                       alive |-> Cardinality(Up(nodes)), total |-> Cardinality(DOMAIN nodes)]

\* Mutant: in shared-data mode the backends are never shown.
ShowsBackendsByMode(count, mode) == mode # "shared_data"

ShowsBackends(count, mode) == count > 0 \/ mode # "shared_data"
ShowsCompute(count, mode) == count > 0 \/ mode = "shared_data"

Sections(t) ==
    [layer \in {"frontends"}
        \cup {x \in {"backends"} : ShowsBackends(Cardinality(DOMAIN t.backends), t.runMode)}
        \cup {x \in {"compute"} : ShowsCompute(Cardinality(DOMAIN t.computeNodes), t.runMode)}
     |-> NodeSection(CASE layer = "frontends" -> t.frontends
                       [] layer = "backends" -> t.backends
                       [] layer = "compute" -> t.computeNodes)]

\* The notices above the cards: what liveness alone does not show.
Notices(s) == {x \in {"quorumLost"} : ~s.quorumHealthy /\ s.electableTotal > 0}
              \cup {x \in {"clusterIdMismatch"} : s.clusterIdMismatch}

SummaryCards(s) ==
    [cluster |-> IF s.healthy THEN "good" ELSE "bad",
     feLeader |-> IF s.leaderHost # {} /\ s.quorumHealthy THEN "neutral" ELSE "bad",
     nodesAlive |-> IF TotalDown(s) = 0 THEN "good" ELSE "bad"]

TopologyPage(t) == [notices |-> Notices(t.summary), summary |-> SummaryCards(t.summary),
                    sections |-> Sections(t)]

-----------------------------------------------------------------------------
(* Header and sidebar *)

\* resolveTone for a summary at hand (Console has the other cases).
resolveTone(s) ==
    IF s.healthy THEN [tone |-> "healthy", label |-> "clusterHealthy"]
    ELSE IF s.leaderHost = {} THEN [tone |-> "degraded", label |-> "noFeLeader"]
    ELSE IF TotalDown(s) > 0
         THEN [tone |-> "degraded", label |-> "nodesDown", count |-> TotalDown(s)]
    ELSE [tone |-> "unknown", label |-> "noBackendsRegistered"]

Sidebar(t) ==
    [layer \in {"frontends"}
        \cup {x \in {"backends"} : t.summary.backends.total > 0 \/ t.runMode # "shared_data"}
        \cup {x \in {"compute"} : t.summary.compute.total > 0 \/ t.runMode = "shared_data"}
     |-> t.summary[layer]]

-----------------------------------------------------------------------------
(* Properties *)

\* What is on screen for an alert: the sign an operator who was paged looks for.
Visible(alert, page) ==
    LET Card(sign(_)) == \E l \in DOMAIN page.sections :
            /\ alert[2] \in DOMAIN page.sections[l].cards
            /\ sign(page.sections[l].cards[alert[2]])
    IN CASE alert[1] = "cluster_node_down" -> Card(LAMBDA c : c.alarming /\ c.badge = "down")
         [] alert[1] = "fe_journal_lag" -> Card(LAMBDA c : c.lag = "behind")
         [] alert[1] = "cluster_no_leader" -> page.summary.feLeader = "bad"
         [] alert[1] = "cluster_quorum_lost" -> "quorumLost" \in page.notices
         [] alert[1] = "cluster_id_mismatch" -> "clusterIdMismatch" \in page.notices
         [] OTHER -> page.summary.nodesAlive = "bad"

\* Every alert the backend evaluates on a topology (cluster_alerts.go:63) can be
\* seen on the page drawn from that topology, whatever the run mode hides
\* (TopologyView.tsx:65), and the page shows no node as down, no lost majority
\* and no mismatch that is not an alert.
EveryAlertIsOnThePage ==
    Collected => \A mode \in RunModes :
        LET page == TopologyPage(Topology(fe, be, cn, mode))
        IN /\ \A a \in Alerts : Visible(a, page)
           /\ page.notices # {} => Urgent # {}
           /\ \A l \in DOMAIN page.sections : \A n \in DOMAIN page.sections[l].cards :
                page.sections[l].cards[n].alarming => <<"cluster_node_down", n>> \in Alerts

\* The three places that judge the same summary agree (ClusterStatusPill.tsx:58,
\* SummaryCards.tsx:32, Sidebar.tsx:84): the pill is green exactly when the
\* cluster card is, it counts the nodes whose cards are red, the sidebar counts
\* the sections of the page, and "no backends registered" is said of a cluster
\* without data nodes or of one whose frontends disagree on the cluster id.
ScreensAgree ==
    Collected => \A mode \in RunModes :
        LET t == Topology(fe, be, cn, mode)
            page == TopologyPage(t)
            pill == resolveTone(t.summary)
            red == UNION {{n \in DOMAIN page.sections[l].cards :
                             page.sections[l].cards[n].alarming} : l \in DOMAIN page.sections}
        IN /\ (pill.tone = "healthy") = (page.summary.cluster = "good")
           /\ pill.tone = "healthy" => page.notices = {} /\ red = {}
           /\ (page.summary.nodesAlive = "good") = (red = {})
           /\ pill.label = "nodesDown" => pill.count = Cardinality(red)
           /\ pill.label = "noBackendsRegistered" =>
                t.summary.backends.total + t.summary.compute.total = 0 \/ t.summary.clusterIdMismatch
           /\ DOMAIN Sidebar(t) = DOMAIN page.sections
           /\ \A l \in DOMAIN page.sections :
                /\ Sidebar(t)[l].alive = page.sections[l].alive
                /\ Sidebar(t)[l].total = page.sections[l].total
=============================================================================
