-------------------------- MODULE MCAlertSettings --------------------------
(* AlertSettings on a small instance: two concurrent PUT handlers.         *)
EXTENDS AlertSettings, TLC

CONSTANTS w1, w2, hook

MCWriters == {w1, w2}
MCHttpURLs == {hook}
MCFieldValues == [f \in Fields |->
    CASE f = "enabled" -> BOOLEAN
      [] f \in {"pollInterval", "cooldown"} -> {NotADuration} \cup 0..60
      [] f = "webhookUrl" -> {"", hook}
      [] f = "webhookFormat" -> {"generic", "slack", "xml"}
      [] OTHER -> -1..60]

\* The environment: a webhook, and a poll interval below what Validate allows.
MCdefaults == [enabled |-> TRUE, pollInterval |-> 2, cooldown |-> 10,
               webhookUrl |-> hook, webhookFormat |-> "generic",
               errorRowsRatio |-> 1, errorRowsMinTotal |-> 10,
               maxOffsetLag |-> 0, maxJournalLag |-> 0]

Set(o, f, v) == [o EXCEPT ![f] = v]

MCPatches == {NoOverride,
              Set(NoOverride, "cooldown", 0),
              Set(Set(NoOverride, "webhookUrl", ""), "webhookFormat", "slack"),
              Set(NoOverride, "webhookFormat", "xml"),
              Set(NoOverride, "cooldown", NotADuration)}

MCEdits == {Corrupt, Absent,
            [pollInterval |-> 1, enabled |-> FALSE],
            [maxJournalLag |-> 7]}

MCSymmetry == Permutations(MCWriters)
=============================================================================
