--------------------------- MODULE AlertPipeline ---------------------------
(***************************************************************************)
(* The evaluation loop: Poller.Run (backend/internal/alert/poller.go), the *)
(* collectors joined by Combine (collect.go), and what Manager.Dispatch    *)
(* does with their alerts (manager.go), against an environment in which    *)
(* conditions come and go, StarRocks and the webhook fail and recover, the *)
(* operator enables and disables alerting, and the process is told to stop.*)
(*                                                                         *)
(* Time is an age per key, cut off at the cooldown, so that behaviours are *)
(* infinite; AlertManager has the clock and the locking.                   *)
(***************************************************************************)
EXTENDS Naturals, Sequences

CONSTANTS Collectors,     \* the sequence given to Combine
          KeysOf,         \* the alert keys each collector can report
          Cooldown,       \* Manager.cooldown, in ticks
          Nothing         \* no alert is being delivered

Sources == {Collectors[i] : i \in 1..Len(Collectors)}
Keys == UNION {KeysOf[c] : c \in Sources}

ASSUME PipelineAssumption ==
    /\ Collectors \in Seq(Sources)
    /\ Cooldown \in Nat
    /\ \A c, d \in Sources : c # d => KeysOf[c] \cap KeysOf[d] = {}
    /\ Nothing \notin Keys

VARIABLES holding,      \* alert conditions that are true of the cluster
          readable,     \* collectors whose queries currently work
          hookUp,       \* the webhook endpoint answers 2xx
          enabled,      \* Effective().Enabled
          ctxDone,      \* the process was told to stop
          pollerPc,     \* where Run is
          next,         \* Combine: index of the collector to call
          oks,          \* Combine: collectors that answered
          alerts,       \* alerts collected and not dispatched yet
          ever,         \* history variable: conditions that held at some moment
                        \*   since the settings were last read
          owed,         \* history variable: conditions that have held ever since,
                        \*   with their source readable, and are not dispatched yet
          sending,      \* the alert whose webhook delivery is under way
          age,          \* ticks since each key fired, cut off at Cooldown
          timerFired    \* the wait's timer has fired

environment == <<holding, readable, hookUp, enabled, ctxDone>>
pollerVars == <<environment, pollerPc, next, oks, alerts, ever, owed, sending, age, timerFired>>

PollerInit ==
    /\ holding \in SUBSET Keys
    /\ readable \in SUBSET Sources
    /\ hookUp \in BOOLEAN
    /\ enabled \in BOOLEAN
    /\ ctxDone = FALSE
    /\ pollerPc = "settings"
    /\ next = 1
    /\ oks = 0
    /\ alerts = {}
    /\ ever = {}
    /\ owed = {}
    /\ sending = Nothing
    /\ age = [k \in Keys |-> Cooldown]
    /\ timerFired = FALSE

\* The conditions a collector reports when it can read.
ReportedBy(sources) == UNION {KeysOf[c] : c \in sources}

-----------------------------------------------------------------------------
(* The environment *)

history == <<ever, owed>>
poller == <<pollerPc, next, oks, alerts, sending>>

\* A condition appears or goes.
ConditionChanges ==
    /\ \E k \in Keys : holding' \in {holding \cup {k}, holding \ {k}}
    /\ ever' = ever \cup holding'
    /\ owed' = owed \cap holding'
    /\ UNCHANGED <<readable, hookUp, enabled, ctxDone, poller, age, timerFired>>

\* The queries of a source begin to fail, or work again.
ReadabilityChanges ==
    /\ \E c \in Sources : readable' \in {readable \cup {c}, readable \ {c}}
    /\ owed' = owed \cap ReportedBy(readable')
    /\ UNCHANGED <<holding, hookUp, enabled, ctxDone, ever, poller, age, timerFired>>

WebhookChanges == /\ hookUp' = ~hookUp
                  /\ UNCHANGED <<holding, readable, enabled, ctxDone, poller, history, age, timerFired>>

OperatorToggles == /\ enabled' = ~enabled
                   /\ UNCHANGED <<holding, readable, hookUp, ctxDone, poller, history, age, timerFired>>

Cancel == /\ ~ctxDone
          /\ ctxDone' = TRUE
          /\ owed' = {}
          /\ UNCHANGED <<holding, readable, hookUp, enabled, ever, poller, age, timerFired>>

\* Time passes: every key gets older.
Tick == /\ age' = [k \in Keys |-> IF age[k] < Cooldown THEN age[k] + 1 ELSE Cooldown]
        /\ UNCHANGED <<environment, poller, history, timerFired>>

-----------------------------------------------------------------------------
(* The poller *)

\* The head of the loop: settings are read once for the whole iteration.
ReadSettings ==
    /\ pollerPc = "settings"
    /\ pollerPc' = IF enabled THEN "collect" ELSE "wait"
    /\ next' = 1
    /\ oks' = 0
    /\ alerts' = {}
    /\ ever' = holding
    /\ owed' = IF enabled /\ ~ctxDone THEN holding \cap ReportedBy(readable) ELSE {}
    /\ timerFired' = FALSE
    /\ UNCHANGED <<environment, sending, age>>

\* Mutant: Combine gives up at the first failing source.
CollectStopAtError ==
    /\ pollerPc = "collect"
    /\ next <= Len(Collectors)
    /\ LET c == Collectors[next]
           ok == c \in readable /\ ~ctxDone
       IN /\ oks' = IF ok THEN oks + 1 ELSE oks
          /\ alerts' = IF ok THEN alerts \cup (holding \cap KeysOf[c]) ELSE alerts
          /\ next' = IF ok THEN next + 1 ELSE Len(Collectors) + 1
    /\ UNCHANGED <<environment, pollerPc, history, sending, age, timerFired>>

\* Combine calls one collector; a failure (or a cancelled context) adds an
\* error, and the next one is called all the same.
Collect ==
    /\ pollerPc = "collect"
    /\ next <= Len(Collectors)
    /\ LET c == Collectors[next]
           ok == c \in readable /\ ~ctxDone
       IN /\ oks' = IF ok THEN oks + 1 ELSE oks
          /\ alerts' = IF ok THEN alerts \cup (holding \cap KeysOf[c]) ELSE alerts
    /\ next' = next + 1
    /\ UNCHANGED <<environment, pollerPc, history, sending, age, timerFired>>

\* Mutant: one failing source is enough for Combine to return an error.
CombinedAnyError ==
    /\ pollerPc = "collect"
    /\ next > Len(Collectors)
    /\ pollerPc' = IF oks < Len(Collectors) THEN "wait" ELSE "dispatch"
    /\ UNCHANGED <<environment, next, oks, alerts, history, sending, age, timerFired>>

\* Combine returns: an error when no source answered (evaluate then returns
\* without dispatching), the alerts of those that did otherwise.
Combined ==
    /\ pollerPc = "collect"
    /\ next > Len(Collectors)
    /\ pollerPc' = IF oks = 0 THEN "wait" ELSE "dispatch"
    /\ UNCHANGED <<environment, next, oks, alerts, history, sending, age, timerFired>>

\* Manager.Dispatch of the next alert: suppressed by the cooldown...
DispatchSuppressed(k) ==
    /\ pollerPc = "dispatch"
    /\ sending = Nothing
    /\ k \in alerts
    /\ age[k] < Cooldown
    /\ alerts' = alerts \ {k}
    /\ owed' = owed \ {k}
    /\ UNCHANGED <<environment, pollerPc, next, oks, ever, sending, age, timerFired>>

\* ... or recorded as fired, logged, and handed to the webhook.
DispatchFires(k) ==
    /\ pollerPc = "dispatch"
    /\ sending = Nothing
    /\ k \in alerts
    /\ age[k] = Cooldown
    /\ alerts' = alerts \ {k}
    /\ age' = [age EXCEPT ![k] = 0]
    /\ sending' = k
    /\ owed' = owed \ {k}
    /\ UNCHANGED <<environment, pollerPc, next, oks, ever, timerFired>>

\* The webhook's Send returns: its error, if any, is only logged.  A cancelled
\* context makes it fail.
Delivered(k) ==
    /\ sending = k
    /\ hookUp /\ ~ctxDone
    /\ sending' = Nothing
    /\ UNCHANGED <<environment, pollerPc, next, oks, alerts, history, age, timerFired>>

DeliveryFailed(k) ==
    /\ sending = k
    /\ ~hookUp \/ ctxDone
    /\ sending' = Nothing
    /\ UNCHANGED <<environment, pollerPc, next, oks, alerts, history, age, timerFired>>

Evaluated ==
    /\ pollerPc = "dispatch"
    /\ alerts = {}
    /\ sending = Nothing
    /\ pollerPc' = "wait"
    /\ UNCHANGED <<environment, next, oks, alerts, history, sending, age, timerFired>>

\* The timer of the wait fires...
TimerFires ==
    /\ pollerPc = "wait"
    /\ ~timerFired
    /\ timerFired' = TRUE
    /\ UNCHANGED <<environment, poller, history, age>>

\* ... and the select takes it,
NextIteration ==
    /\ pollerPc = "wait"
    /\ timerFired
    /\ pollerPc' = "settings"
    /\ UNCHANGED <<environment, next, oks, alerts, history, sending, age, timerFired>>

\* or the cancelled context, at random when both are ready.
Stop ==
    /\ pollerPc = "wait"
    /\ ctxDone
    /\ pollerPc' = "stopped"
    /\ UNCHANGED <<environment, next, oks, alerts, history, sending, age, timerFired>>

Environment == \/ ConditionChanges \/ ReadabilityChanges \/ WebhookChanges
               \/ OperatorToggles \/ Cancel \/ Tick

Evaluate == \/ ReadSettings \/ Collect \/ Combined \/ Evaluated
            \/ \E k \in Keys : \/ DispatchSuppressed(k) \/ DispatchFires(k)
                               \/ Delivered(k) \/ DeliveryFailed(k)

Run == Evaluate \/ TimerFires \/ NextIteration

PollerNext == Environment \/ Run \/ Stop

PollerSpec == PollerInit /\ [][PollerNext]_pollerVars

\* The poller's goroutine runs, its queries, Sends and timers end, and time passes.
FairPollerSpec == PollerSpec /\ WF_pollerVars(Run) /\ WF_pollerVars(Tick)

-----------------------------------------------------------------------------
(* Properties *)

\* Every variable has its type; ages stay within the cooldown.
PollerTypeOK ==
    /\ holding \subseteq Keys
    /\ readable \subseteq Sources
    /\ hookUp \in BOOLEAN /\ enabled \in BOOLEAN /\ ctxDone \in BOOLEAN
    /\ pollerPc \in {"settings", "collect", "dispatch", "wait", "stopped"}
    /\ next \in 1..(Len(Collectors) + 1)
    /\ oks \in 0..Len(Collectors)
    /\ alerts \subseteq Keys
    /\ ever \subseteq Keys
    /\ owed \subseteq Keys
    /\ sending \in Keys \cup {Nothing}
    /\ age \in [Keys -> 0..Cooldown]
    /\ timerFired \in BOOLEAN

\* An evaluation is exact while the cluster, the sources, the settings and the webhook
\* change under it (poller.go:69-81, collect.go:23-36).  It hands over no alert whose
\* condition has held at no moment since the settings were read: nothing of an earlier
\* iteration is left over and a source that fails reports nothing.  And once it is over,
\* every condition that has held all that time, with its own source readable all that
\* time and nobody stopping the process, was handed to the manager, whatever failed
\* around it: the other sources (collect.go:10-12), or the delivery of earlier alerts.
EvaluationIsExact ==
    /\ alerts \cup ({sending} \ {Nothing}) \subseteq ever
    /\ pollerPc \in {"wait", "settings", "stopped"} => owed = {}

\* "A failing source does not suppress the others" (collect.go:10-12) and a
\* failed delivery is not the end of an alert: a condition that keeps holding,
\* with alerting enabled and its own source and the webhook working from some
\* time on, is delivered again and again, whatever the other sources do.
Working(k) == /\ enabled /\ hookUp /\ ~ctxDone /\ k \in holding
              /\ \E c \in readable : k \in KeysOf[c]

PersistentConditionDelivered ==
    \A k \in Keys : <>[]Working(k) => []<><<Delivered(k)>>_pollerVars
=============================================================================
