-------------------------- MODULE MCAlertPipeline --------------------------
(* AlertPipeline with the cluster and the routine-load collector.          *)
EXTENDS AlertPipeline

CONSTANTS cluster, loads, nodeDown, jobPaused

MCCollectors == <<cluster, loads>>
MCKeysOf == [c \in {cluster, loads} |-> IF c = cluster THEN {nodeDown} ELSE {jobPaused}]
=============================================================================
