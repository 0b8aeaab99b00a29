-------------------------- MODULE AlertConfigApply --------------------------
(***************************************************************************)
(* PUT and GET /api/v1/alerts/config (backend/internal/api/alertconfig.go) *)
(* together with applyAlertConfig of cmd/server/main.go: a PUT updates the *)
(* settings, reads the effective configuration back and pushes it into     *)
(* four live components, each behind a lock of its own, and nothing orders *)
(* the pushes of two handlers.                                             *)
(*                                                                         *)
(* Settings.Update is one step here; AlertSettings shows its steps and     *)
(* that they amount to this one.                                           *)
(***************************************************************************)
EXTENDS AlertOverrides

CONSTANTS Writers,       \* PUT handlers that may run at the same time
          Readers,       \* handlers that serve a GET
          Patches        \* patches the requests carry

ASSUME ApplyAssumption == \A p \in Patches : IsOverride(p)

VARIABLES editable,      \* AlertConfigHandler.editable (ALERT_CONFIG_UI)
          override,      \* Settings.override
          live,          \* what the running components were last given
          pc,            \* where each handler is
          conf,          \* the configuration the handler is applying or showing
          view,          \* the body of the handler's last 200 response
          fresh,         \* history variable: overrides in force since the PUTs
                         \*   that now apply theirs found nobody applying
          alone          \* history variable: no other PUT overlaps this one

vars == <<editable, override, live, pc, conf, view, fresh, alone>>

Handlers == Writers \cup Readers

-----------------------------------------------------------------------------
(* Data *)

\* What applyAlertConfig gives each component of a configuration.
WebhookOf(c) == IF c["webhookUrl"] = "" THEN <<>> ELSE <<c["webhookUrl"], c["webhookFormat"]>>
LoadPolicyOf(c) == <<c["errorRowsRatio"], c["errorRowsMinTotal"], c["maxOffsetLag"]>>

Components(c) == [cooldown |-> c["cooldown"],
                  webhook |-> WebhookOf(c),
                  loadPolicy |-> LoadPolicyOf(c),
                  clusterPolicy |-> c["maxJournalLag"]]

\* The response hides the URL behind a hint.
Shown(c) == [f \in Fields |-> IF f = "webhookUrl" THEN c[f] # "" ELSE c[f]]

NoView == [config |-> Shown(defaults), overridden |-> {}]

InFlight == {w \in Writers : pc[w] # "idle"}

\* The PUTs that have updated the settings and not told every component yet.
Unapplied == {w \in Writers : pc[w] \in {"effective", "cooldown", "webhook",
                                         "loadPolicy", "clusterPolicy"}}

-----------------------------------------------------------------------------
(* Actions *)

\* main.go: LoadSettings, then applyAlertConfig, before the server listens.
Init == /\ editable \in BOOLEAN
        /\ override = NoOverride
        /\ live = Components(Effective(override))
        /\ pc = [h \in Handlers |-> "idle"]
        /\ conf = [h \in Handlers |-> defaults]
        /\ view = [h \in Handlers |-> NoView]
        /\ fresh = {override}
        /\ alone = [w \in Writers |-> FALSE]

\* PUT with the UI disabled (403), an invalid patch (400) or a persist error
\* (500): nothing changes.
PutRefused(w, p) ==
    /\ pc[w] = "idle"
    /\ ~editable \/ ~Validate(p)
    /\ UNCHANGED vars

PutPersistFailed(w, p) ==
    /\ pc[w] = "idle"
    /\ editable /\ Validate(p)
    /\ UNCHANGED vars

\* PUT: settings.Update(patch, reset) succeeds.
PutUpdate(w, p, r) ==
    /\ pc[w] = "idle"
    /\ editable /\ Validate(p)
    /\ override' = Merge(IF r THEN NoOverride ELSE override, p)
    /\ fresh' = {override'} \cup (IF Unapplied = {} THEN {} ELSE fresh)
    /\ pc' = [pc EXCEPT ![w] = "effective"]
    /\ alone' = [v \in Writers |-> v = w /\ InFlight = {}]
    /\ UNCHANGED <<editable, live, conf, view>>

\* Mutant: a handler that finds another PUT under way leaves applying to it.
PutEffectiveCoalesced(w) ==
    /\ pc[w] = "effective"
    /\ conf' = [conf EXCEPT ![w] = Effective(override)]
    /\ pc' = [pc EXCEPT ![w] = IF InFlight = {w} THEN "cooldown" ELSE "view"]
    /\ UNCHANGED <<editable, override, live, view, fresh, alone>>

\* The argument of apply: settings.Effective(), after Update's lock is gone.
PutEffective(w) ==
    /\ pc[w] = "effective"
    /\ conf' = [conf EXCEPT ![w] = Effective(override)]
    /\ pc' = [pc EXCEPT ![w] = "cooldown"]
    /\ UNCHANGED <<editable, override, live, view, fresh, alone>>

\* One component is given its part of the handler's configuration.
Apply(w, component, next) ==
    /\ live' = [live EXCEPT ![component] = Components(conf[w])[component]]
    /\ pc' = [pc EXCEPT ![w] = next]
    /\ UNCHANGED <<editable, override, conf, view, fresh, alone>>

ApplyCooldown(w) == pc[w] = "cooldown" /\ Apply(w, "cooldown", "webhook")

\* SetWebhook(nil), or NewWebhookNotifier and SetWebhook.  AlertSettings shows
\* that NewWebhookNotifier has no reason to fail (EffectiveApplies).
ApplyWebhook(w) ==
    /\ pc[w] = "webhook"
    /\ ~ApplyFails(conf[w])
    /\ Apply(w, "webhook", "loadPolicy")

ApplyLoadPolicy(w) == pc[w] = "loadPolicy" /\ Apply(w, "loadPolicy", "clusterPolicy")

\* Mutant: the cluster rules are not told.
ApplyClusterPolicyDropped(w) ==
    /\ pc[w] = "clusterPolicy"
    /\ pc' = [pc EXCEPT ![w] = "view"]
    /\ UNCHANGED <<editable, override, live, conf, view, fresh, alone>>

ApplyClusterPolicy(w) == pc[w] = "clusterPolicy" /\ Apply(w, "clusterPolicy", "view")

\* view(), first read: Effective() under the settings' read lock.
Get(r) ==
    /\ pc[r] = "idle"
    /\ pc' = [pc EXCEPT ![r] = "view"]
    /\ UNCHANGED <<editable, override, live, conf, view, fresh, alone>>

ViewEffective(h) ==
    /\ pc[h] = "view"
    /\ conf' = [conf EXCEPT ![h] = Effective(override)]
    /\ pc' = [pc EXCEPT ![h] = "overridden"]
    /\ UNCHANGED <<editable, override, live, view, fresh, alone>>

\* view(), second read: Overridden() under a read lock of its own; respond.
ViewOverridden(h) ==
    /\ pc[h] = "overridden"
    /\ view' = [view EXCEPT ![h] = [config |-> Shown(conf[h]),
                                    overridden |-> Overridden(override)]]
    /\ conf' = [conf EXCEPT ![h] = defaults]
    /\ pc' = [pc EXCEPT ![h] = "idle"]
    /\ UNCHANGED <<editable, override, live, fresh, alone>>

Put(w) == \/ PutEffective(w) \/ ApplyCooldown(w) \/ ApplyWebhook(w) \/ ApplyLoadPolicy(w)
          \/ ApplyClusterPolicy(w)

View(h) == ViewEffective(h) \/ ViewOverridden(h)

Next == \/ \E w \in Writers, p \in Patches : PutRefused(w, p) \/ PutPersistFailed(w, p)
        \/ \E w \in Writers, p \in Patches, r \in BOOLEAN : PutUpdate(w, p, r)
        \/ \E w \in Writers : Put(w)
        \/ \E r \in Readers : Get(r)
        \/ \E h \in Handlers : View(h)

Spec == Init /\ [][Next]_vars

-----------------------------------------------------------------------------
(* Properties *)

\* Every variable has its type, the override is valid, and what is applied is a
\* whole configuration.
TypeOK ==
    /\ editable \in BOOLEAN
    /\ IsOverride(override) /\ Validate(override)
    /\ \A h \in Handlers : \A f \in Fields : conf[h][f] \in FieldValues[f]
    /\ DOMAIN live = {"cooldown", "webhook", "loadPolicy", "clusterPolicy"}
    /\ pc \in [Handlers -> {"idle", "effective", "cooldown", "webhook", "loadPolicy",
                            "clusterPolicy", "view", "overridden"}]
    /\ override \in fresh

\* "applyAlertConfig pushes the effective result into the live components, at
\* boot and again after every PUT" (main.go:82-83): when no PUT is under way,
\* the components run on the effective configuration.
LiveIsEffective == InFlight = {} => live = Components(Effective(override))

\* The same for a PUT that no other one overlaps, whatever earlier overlapping PUTs
\* left behind: once it has applied, everything is in force (alertconfig.go:116-132),
\* so saving again repairs a mixed configuration, and its response names as
\* overridden every field whose value is not the environment's (alertconfig.go:67-85).
UncontendedPutIsLive ==
    \A w \in Writers : (alone[w] /\ pc[w] \in {"view", "overridden"})
                          => live = Components(Effective(override))

PutViewConsistent ==
    \A w \in Writers : (alone[w] /\ pc[w] = "idle") =>
       \A f \in Fields : view[w].config[f] # Shown(defaults)[f] => f \in view[w].overridden

UncontendedPutTakesEffect == UncontendedPutIsLive /\ PutViewConsistent

\* However PUTs overlap (alertconfig.go:126, main.go:99-117), a mixture of their
\* settings is the worst they leave behind: once all of them have applied, every
\* component runs on settings that one of them saved, so nothing older than the first
\* of them is still live, and what they agree on is in force.
OverlapLeavesNothingOlder ==
    Unapplied = {} =>
       \A component \in DOMAIN live :
          \E o \in fresh : live[component] = Components(Effective(o))[component]
=============================================================================
