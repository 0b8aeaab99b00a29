------------------------- MODULE MCAlertConfigApply -------------------------
(* AlertConfigApply on small instances.                                    *)
EXTENDS AlertConfigApply, TLC

CONSTANTS w1, w2, hook, hook2

MCWriters == {w1, w2}
MCHttpURLs == {hook, hook2}
MCFieldValues == [f \in Fields |->
    CASE f = "enabled" -> BOOLEAN
      [] f \in {"pollInterval", "cooldown"} -> {NotADuration} \cup 0..60
      [] f = "webhookUrl" -> {"", hook, hook2}
      [] f = "webhookFormat" -> {"generic", "slack", "xml"}
      [] OTHER -> -1..60]

MCdefaults == [enabled |-> TRUE, pollInterval |-> 30, cooldown |-> 10,
               webhookUrl |-> hook, webhookFormat |-> "generic",
               errorRowsRatio |-> 1, errorRowsMinTotal |-> 10,
               maxOffsetLag |-> 0, maxJournalLag |-> 0]

Set(o, f, v) == [o EXCEPT ![f] = v]

MCPatches == {NoOverride,
              Set(Set(NoOverride, "webhookUrl", ""), "cooldown", 0),
              Set(Set(NoOverride, "maxJournalLag", 7), "errorRowsRatio", 2),
              Set(NoOverride, "maxOffsetLag", -1)}

\* Two saves that touch different components.
MCTwoPatches == {Set(Set(NoOverride, "webhookUrl", ""), "cooldown", 0),
                 Set(Set(NoOverride, "maxJournalLag", 7), "errorRowsRatio", 2)}

MCNoReaders == {}
MCSymmetry == Permutations(MCWriters)
=============================================================================
