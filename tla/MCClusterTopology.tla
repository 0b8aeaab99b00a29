------------------------- MODULE MCClusterTopology -------------------------
(* ClusterTopology and its views on two voting frontends, an observer, a    *)
(* backend that is being decommissioned and a compute node.                 *)
EXTENDS TopologyViews, TLC

CONSTANTS fe1, fe2, obs, be1, cn1

MCFEs == {fe1, fe2, obs}
MCObservers == {obs}
MCBEs == {be1}
MCCNs == {cn1}
MCDraining == {be1}
MCClusterIDs == {"own", "other"}

\* What the frontends report: everything, the observer the id of another cluster; or
\* nothing of one of the voters, leader or replica.
Row(reported, id) == [journal |-> reported, clusterId |-> id]
MCColumns ==
    {[f \in MCFEs |-> Row(TRUE, IF f = obs THEN "other" ELSE "own")]}
    \cup {[f \in MCFEs |-> IF f = mute THEN Row(FALSE, "") ELSE Row(TRUE, "own")] :
             mute \in {fe1, fe2}}
MCReleases == {"ismaster"}
MCMaxLags == {0, 1}
Voting == Permutations({fe1, fe2})   \* symmetry: the voting frontends are alike
MCRunModes == {"shared_nothing", "shared_data"}
=============================================================================
