--------------------------- MODULE MCAlertManager ---------------------------
(* AlertManager on a small instance: one poller, one test handler.         *)
EXTENDS AlertManager, TLC

CONSTANTS poller, tester, leader, lag, hookA, hookB

MCDispatchers == {poller}
MCTesters     == {tester}
MCKeys        == {leader, lag}
MCWebhooks    == {hookA, hookB}
MCCooldowns   == {0, 2}
MCSymmetry    == Permutations({hookA, hookB}) \cup Permutations({leader, lag})
=============================================================================
