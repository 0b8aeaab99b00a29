--------------------------- MODULE MCAlertDialog ---------------------------
(* AlertsPanel with its dialog: a webhook and the poll interval are what     *)
(* operators change.                                                         *)
EXTENDS AlertsPanel

CONSTANTS hook, hook2

MCHttpURLs == {hook, hook2}
MCFieldValues == [f \in Fields |->
    CASE f = "enabled" -> BOOLEAN
      [] f \in {"pollInterval", "cooldown"} -> {NotADuration} \cup 0..60
      [] f = "webhookUrl" -> {"", hook, hook2}
      [] f = "webhookFormat" -> {"generic", "slack", "xml"}
      [] OTHER -> -1..60]

MCdefaults == [enabled |-> TRUE, pollInterval |-> 30, cooldown |-> 10,
               webhookUrl |-> hook, webhookFormat |-> "generic",
               errorRowsRatio |-> 3, errorRowsMinTotal |-> 10,
               maxOffsetLag |-> 0, maxJournalLag |-> 0]

\* A value the server refuses.
MCTyped == [f \in FormFields |-> IF f = "pollInterval" THEN {NotADuration} ELSE {}]
MCURLs == {hook2}
MCOtherPatches == {[NoOverride EXCEPT !["webhookUrl"] = ""]}
MCOneSave == {1}
MCTwoTests == {1, 2}

\* The dialog and the history share the refresh after a test of the dialog only: each
\* is explored with the other at rest.
DialogAtRest == DialogInit
PanelAtRest == /\ onPage /\ fired = 0 /\ owed = 0
               /\ history.data = NoHistory /\ ~history.failed /\ list = Listing
               /\ test = [t \in Tests |-> NoTest] /\ outcome = "none"

Apart == (DialogAtRest \/ PanelAtRest)'
=============================================================================
