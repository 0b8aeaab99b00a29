--------------------------- MODULE AlertOverrides ---------------------------
(***************************************************************************)
(* The layered alert configuration as data: the Override of                *)
(* backend/internal/alert/settings.go, its validation, its JSON document   *)
(* and the effective configuration, and what applyAlertConfig of           *)
(* cmd/server/main.go needs of it.  No state: AlertSettings and            *)
(* AlertConfigApply are the machines that use these operators.             *)
(*                                                                         *)
(* A duration string stands for its length in seconds, or is NotADuration  *)
(* when time.ParseDuration rejects it; a ratio is counted in parts of      *)
(* RatioOne; a URL is "" or a value that is or is not in HttpURLs.         *)
(***************************************************************************)
EXTENDS Integers

CONSTANTS Nil,              \* a nil pointer: the field is not overridden
          NotADuration,     \* a string that is no duration
          HttpURLs,         \* webhook URLs with an http(s) scheme and a host
          RatioOne,         \* the ratio 1.0
          FieldValues,      \* the values each field is given
          defaults          \* the environment configuration (Settings.defaults)

Fields == {"enabled", "pollInterval", "cooldown", "webhookUrl", "webhookFormat",
           "errorRowsRatio", "errorRowsMinTotal", "maxOffsetLag", "maxJournalLag"}

Formats == {"generic", "slack"}

MinPollInterval == 5

IsOverride(o) == /\ o = [f \in Fields |-> o[f]]
                 /\ \A f \in Fields : o[f] \in FieldValues[f] \cup {Nil}

NoOverride == [f \in Fields |-> Nil]

\* The environment was read by config.Load, which checks the webhook format but
\* none of the bounds that Validate puts on an override (config.go:128-148).
ASSUME OverridesAssumption ==
    /\ \A f \in Fields : Nil \notin FieldValues[f] /\ defaults[f] \in FieldValues[f]
    /\ defaults["webhookFormat"] \in Formats
    /\ NotADuration \notin Int
    /\ "" \notin HttpURLs

isEmpty(o) == \A f \in Fields : o[f] = Nil

Validate(o) ==
    /\ o["pollInterval"] # Nil => /\ o["pollInterval"] # NotADuration
                                  /\ o["pollInterval"] >= MinPollInterval
    /\ o["cooldown"] # Nil => /\ o["cooldown"] # NotADuration
                              /\ o["cooldown"] >= 0
    /\ o["webhookUrl"] \notin {Nil, ""} => o["webhookUrl"] \in HttpURLs
    /\ o["webhookFormat"] # Nil => o["webhookFormat"] \in Formats
    /\ o["errorRowsRatio"] # Nil => /\ o["errorRowsRatio"] >= 0
                                    /\ o["errorRowsRatio"] <= RatioOne
    /\ \A f \in {"errorRowsMinTotal", "maxOffsetLag", "maxJournalLag"} :
          o[f] # Nil => o[f] >= 0

\* Update's merge: what the patch sets replaces what base has.
Merge(base, patch) == [f \in Fields |-> IF patch[f] # Nil THEN patch[f] ELSE base[f]]

\* The JSON document of an override: pointers that are nil are omitted
\* (omitempty), a pointer to "", 0 or false is written.
Encode(o) == [f \in {g \in Fields : o[g] # Nil} |-> o[f]]
Decode(doc) == [f \in Fields |-> IF f \in DOMAIN doc THEN doc[f] ELSE Nil]

\* Effective(); mustDuration falls back to the default on a string that is no
\* duration.
Effective(o) ==
    [f \in Fields |->
       IF o[f] = Nil \/ (f \in {"pollInterval", "cooldown"} /\ o[f] = NotADuration)
       THEN defaults[f] ELSE o[f]]

\* Overridden(): the names of the fields that are set, to whatever value.
Overridden(o) == {f \in Fields : o[f] # Nil}

\* NewWebhookNotifier's error: it wants a URL and a known format.
WebhookError(c) == c["webhookUrl"] = "" \/ c["webhookFormat"] \notin Formats

\* applyAlertConfig builds a notifier only when there is a URL, so it fails only
\* on the format.
ApplyFails(c) == c["webhookUrl"] # "" /\ WebhookError(c)
=============================================================================
