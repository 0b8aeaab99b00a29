----------------------------- MODULE AlertProofs -----------------------------
(***************************************************************************)
(* The alert Manager and the page that shows what it keeps.                *)
(*                                                                         *)
(* AlertManager: for every number of dispatchers, testers, keys, webhooks  *)
(* and alerts and every history capacity.                                  *)
(*                                                                         *)
(* AlertsPanel: the settings dialog and the alert history, for any fields' *)
(* values, operators, saves, alerts and tests.  A save that is attached    *)
(* belongs to the dialog that is open, and a patch without a URL leaves    *)
(* the server's alone.  A test alert is listed because a history that      *)
(* lacks it is marked invalid until an answer with it has come, and an     *)
(* answer that was on its way is thrown away.                              *)
(***************************************************************************)
EXTENDS AlertManager, AlertsPanel, TLAPS

-----------------------------------------------------------------------------
(* AlertManager: type correctness *)

\* remember (manager.go:136) returns a history within the capacity, with the
\* alert in front and the rest moved back by one.
LEMMA RememberFacts ==
    ASSUME recent \in Seq(Alerts), Len(recent) <= RecentCapacity,
           NEW a \in Alerts
    PROVE  /\ remember(a) \in Seq(Alerts)
           /\ Len(remember(a)) <= RecentCapacity
           /\ Len(remember(a)) >= 1
           /\ Len(remember(a)) = IF Len(recent) < RecentCapacity THEN Len(recent) + 1
                                                                ELSE RecentCapacity
           /\ remember(a)[1] = a
           /\ \A i \in 2..Len(remember(a)) : /\ i - 1 \in 1..Len(recent)
                                             /\ remember(a)[i] = recent[i - 1]
<1> DEFINE n == IF Len(recent) < RecentCapacity THEN Len(recent) + 1 ELSE RecentCapacity
<1>1. /\ n \in Nat /\ n >= 1 /\ n <= RecentCapacity /\ n <= Len(recent) + 1
  BY ManagerAssumption
<1>2. \A i \in 1..n : (IF i = 1 THEN a ELSE recent[i - 1]) \in Alerts
  BY <1>1
<1>3. remember(a) \in [1..n -> Alerts]
  BY <1>2 DEF remember
<1>4. remember(a) \in Seq(Alerts) /\ Len(remember(a)) = n
  BY <1>1, <1>3
<1>5. \A i \in 1..n : remember(a)[i] = IF i = 1 THEN a ELSE recent[i - 1]
  BY DEF remember
<1> QED
  BY <1>1, <1>4, <1>5

\* channels (manager.go:68) is a sequence of notifiers.
LEMMA ChannelsType ==
    ASSUME webhook \in Webhooks \cup {NoWebhook}
    PROVE  channels \in Seq(Notifiers)
<1>1. CASE webhook = NoWebhook
  BY <1>1 DEF channels, Notifiers
<1>2. CASE webhook # NoWebhook
  <2>1. Log \in Notifiers /\ webhook \in Notifiers
    BY <1>2 DEF Notifiers
  <2> QED
    BY <1>2, <2>1 DEF channels
<1> QED
  BY <1>1, <1>2

\* Every action keeps the types, and the history stays within its capacity
\* (manager.go:136-141), for every capacity and any set of goroutines.
THEOREM TypeCorrect == Spec => []TypeOK
<1>1. Init => TypeOK
  BY ManagerAssumption DEF Init, TypeOK, Alerts
<1>2. TypeOK /\ [Next]_vars => TypeOK'
  <2> SUFFICES ASSUME TypeOK, [Next]_vars PROVE TypeOK'
    OBVIOUS
  <2> USE DEF manager, locals
  <2>1. CASE Tick
    BY <2>1 DEF TypeOK, Tick
  <2>2. ASSUME NEW g \in Dispatchers, NEW k \in Keys, DispatchSuppressed(g, k)
        PROVE TypeOK'
    BY <2>2 DEF TypeOK, DispatchSuppressed, vars
  <2>3. ASSUME NEW g \in Dispatchers, NEW k \in Keys, DispatchCheck(g, k)
        PROVE TypeOK'
    BY <2>3 DEF TypeOK, DispatchCheck, Alerts, Goroutines
  <2>4. ASSUME NEW g \in Dispatchers, DispatchRecord(g)
        PROVE TypeOK'
    <3> DEFINE a == [key |-> alert[g].key, firedAt |-> clock, seq |-> accepted + 1]
    <3>1. g \in Goroutines /\ a \in Alerts
      BY DEF TypeOK, Alerts, Goroutines
    <3>2. recent' \in Seq(Alerts) /\ Len(recent') <= RecentCapacity
      BY <2>4, <3>1, RememberFacts DEF TypeOK, DispatchRecord
    <3>3. lastFired' \in [Keys -> SUBSET Nat]
      BY <2>4 DEF TypeOK, DispatchRecord
    <3>4. notifiers' \in [Goroutines -> Seq(Notifiers)]
      BY <2>4, ChannelsType DEF TypeOK, DispatchRecord
    <3>5. alert' \in [Goroutines -> Alerts]
      BY <2>4, <3>1 DEF TypeOK, DispatchRecord
    <3>6. results' \in [Goroutines -> Seq({"ok", "err"})]
      <4>1. results' = [results EXCEPT ![g] = << >>]
        BY <2>4 DEF DispatchRecord
      <4>2. << >> \in Seq({"ok", "err"})
        OBVIOUS
      <4> QED
        BY <4>1, <4>2 DEF TypeOK
    <3>7. pc' \in [Goroutines -> {"idle", "record", "stamped", "deliver"}]
      BY <2>4 DEF TypeOK, DispatchRecord
    <3>8. /\ accepted' = accepted + 1 /\ mu' = Free
          /\ UNCHANGED <<clock, cooldown, webhook, switchedAt>>
      BY <2>4 DEF DispatchRecord
    <3> HIDE DEF a
    <3> QED
      BY <3>2, <3>3, <3>4, <3>5, <3>6, <3>7, <3>8 DEF TypeOK
  <2>5. ASSUME NEW g \in Testers, TestStamp(g)
        PROVE TypeOK'
    BY <2>5 DEF TypeOK, TestStamp, Alerts, Goroutines
  <2>6. ASSUME NEW g \in Testers, TestRecord(g)
        PROVE TypeOK'
    <3> DEFINE a == [alert[g] EXCEPT !.seq = accepted + 1]
    <3>0. g \in Goroutines /\ alert[g] \in Alerts /\ accepted + 1 \in Nat
      BY DEF TypeOK, Goroutines
    <3>1. g \in Goroutines /\ a \in Alerts
      BY <3>0 DEF Alerts
    <3>2. recent' \in Seq(Alerts) /\ Len(recent') <= RecentCapacity
      BY <2>6, <3>1, RememberFacts DEF TypeOK, TestRecord
    <3>4. notifiers' \in [Goroutines -> Seq(Notifiers)]
      BY <2>6, ChannelsType DEF TypeOK, TestRecord
    <3> QED
      BY <2>6, <3>1, <3>2, <3>4 DEF TypeOK, TestRecord
  <2>7. ASSUME NEW g \in Goroutines, Send(g)
        PROVE TypeOK'
    <3>1. PICK r \in {"ok", "err"} : results' = [results EXCEPT ![g] = Append(@, r)]
      BY <2>7 DEF Send, Outcomes
    <3>2. results' \in [Goroutines -> Seq({"ok", "err"})]
      BY <3>1 DEF TypeOK
    <3> QED
      BY <2>7, <3>2 DEF TypeOK, Send
  <2>8. ASSUME NEW g \in Goroutines, Return(g)
        PROVE TypeOK'
    BY <2>8 DEF TypeOK, Return
  <2>9. ASSUME NEW w \in Webhooks \cup {NoWebhook}, SetWebhook(w)
        PROVE TypeOK'
    BY <2>9 DEF TypeOK, SetWebhook
  <2>10. ASSUME NEW c \in Cooldowns, SetCooldown(c)
        PROVE TypeOK'
    BY <2>10, ManagerAssumption DEF TypeOK, SetCooldown
  <2>11. CASE UNCHANGED vars
    BY <2>11 DEF TypeOK, vars
  <2> QED
    BY <2>1, <2>2, <2>3, <2>4, <2>5, <2>6, <2>7, <2>8, <2>9, <2>10, <2>11
       DEF Next, Dispatch, Test
<1> QED
  BY <1>1, <1>2, PTL DEF Spec

-----------------------------------------------------------------------------
(* The cooldown *)

\* mu protects the cooldown test: what a Dispatch tested stays true until it
\* records the alert (manager.go:82-91).
LEMMA CheckStillValidStep ==
    TypeOK /\ CheckStillValid /\ [Next]_vars => CheckStillValid'
<1> SUFFICES ASSUME TypeOK, CheckStillValid, [Next]_vars PROVE CheckStillValid'
  OBVIOUS
<1> USE DEF manager, locals
<1>1. CASE Tick
  BY <1>1 DEF TypeOK, CheckStillValid, InCooldown, Tick
<1>2. ASSUME NEW g \in Dispatchers, NEW k \in Keys, DispatchSuppressed(g, k)
      PROVE CheckStillValid'
  BY <1>2 DEF CheckStillValid, InCooldown, DispatchSuppressed, vars
<1>3. ASSUME NEW g \in Dispatchers, NEW k \in Keys, DispatchCheck(g, k)
      PROVE CheckStillValid'
  <2>1. \A h \in Goroutines : pc[h] # "record"
    BY <1>3, ManagerAssumption DEF CheckStillValid, DispatchCheck
  <2>2. /\ mu' = g
        /\ alert'[g].key = k
        /\ ~InCooldown(k)
        /\ UNCHANGED <<clock, cooldown, lastFired>>
        /\ \A h \in Goroutines : pc'[h] = "record" => h = g
    BY <1>3, <2>1 DEF TypeOK, DispatchCheck, Goroutines
  <2> QED
    BY <2>2 DEF CheckStillValid, InCooldown
<1>4. ASSUME NEW g \in Dispatchers, DispatchRecord(g)
      PROVE CheckStillValid'
  <2>1. \A h \in Goroutines : pc[h] = "record" => h = g
    BY <1>4 DEF CheckStillValid, DispatchRecord, Goroutines
  <2>2. \A h \in Goroutines : pc'[h] # "record"
    BY <1>4, <2>1 DEF TypeOK, DispatchRecord
  <2> QED
    BY <2>2 DEF CheckStillValid
<1>5. ASSUME NEW g \in Testers, TestStamp(g)
      PROVE CheckStillValid'
  BY <1>5 DEF TypeOK, CheckStillValid, InCooldown, TestStamp
<1>6. ASSUME NEW g \in Testers, TestRecord(g)
      PROVE CheckStillValid'
  BY <1>6 DEF TypeOK, CheckStillValid, InCooldown, TestRecord
<1>7. ASSUME NEW g \in Goroutines, Send(g)
      PROVE CheckStillValid'
  BY <1>7 DEF CheckStillValid, InCooldown, Send
<1>8. ASSUME NEW g \in Goroutines, Return(g)
      PROVE CheckStillValid'
  BY <1>8 DEF TypeOK, CheckStillValid, InCooldown, Return
<1>9. ASSUME NEW w \in Webhooks \cup {NoWebhook}, SetWebhook(w)
      PROVE CheckStillValid'
  BY <1>9 DEF CheckStillValid, InCooldown, SetWebhook
<1>10. ASSUME NEW c \in Cooldowns, SetCooldown(c)
      PROVE CheckStillValid'
  BY <1>10, ManagerAssumption DEF CheckStillValid, SetCooldown
<1>11. CASE UNCHANGED vars
  BY <1>11 DEF CheckStillValid, InCooldown, vars
<1> QED
  BY <1>1, <1>2, <1>3, <1>4, <1>5, <1>6, <1>7, <1>8, <1>9, <1>10, <1>11
     DEF Next, Dispatch, Test

\* A goroutine between the cooldown test and the record of Dispatch holds mu
\* and its test is still valid (manager.go:82-91), in every reachable state.
THEOREM CheckAlwaysValid == Spec => []CheckStillValid
<1>1. Init => CheckStillValid
  BY DEF Init, CheckStillValid
<1> QED
  BY <1>1, CheckStillValidStep, TypeCorrect, PTL DEF Spec

\* Dispatch (manager.go:81-95) never fires a key twice within the cooldown in
\* force at the second firing: for any number of dispatchers and testers,
\* whatever SetCooldown and the clock do in between.
THEOREM CooldownHolds == Spec => CooldownRespected
<1>1. TypeOK /\ CheckStillValid /\ [Next]_vars => [RefireStep]_vars
  <2> SUFFICES ASSUME TypeOK, CheckStillValid, Next,
                      NEW k \in Keys, lastFired'[k] # lastFired[k],
                      NEW last \in lastFired[k], NEW t \in lastFired'[k]
               PROVE  t - last >= cooldown
    BY DEF RefireStep
  <2>1. PICK g \in Dispatchers : DispatchRecord(g)
    BY DEF Next, Dispatch, Test, Tick, DispatchSuppressed, DispatchCheck, TestStamp,
           TestRecord, Send, Return, SetWebhook, SetCooldown, vars, manager
  <2>2. alert[g].key = k /\ t = clock
    BY <2>1 DEF TypeOK, DispatchRecord
  <2>3. ~(clock - last < cooldown)
    BY <2>1, <2>2 DEF CheckStillValid, InCooldown, DispatchRecord, Goroutines
  <2> QED
    BY <2>2, <2>3 DEF TypeOK
<1> QED
  BY <1>1, TypeCorrect, CheckAlwaysValid, PTL DEF Spec, CooldownRespected

-----------------------------------------------------------------------------
(* Delivery *)

\* What SwitchTakesEffect needs to be inductive: the switch lies in the past
\* and every alert on its way was accepted.
SwitchInv == /\ SwitchTakesEffect
             /\ switchedAt <= accepted
             /\ \A g \in Goroutines : pc[g] = "deliver" => alert[g].seq <= accepted

\* Every alert accepted after SetWebhook returned goes to the channels it
\* installed (manager.go:54-58, 90, 112).
THEOREM SwitchAlwaysTakesEffect == Spec => []SwitchTakesEffect
<1>1. Init => SwitchInv
  BY DEF Init, SwitchInv, SwitchTakesEffect
<1>2. TypeOK /\ SwitchInv /\ [Next]_vars => SwitchInv'
  <2> SUFFICES ASSUME TypeOK, SwitchInv, [Next]_vars PROVE SwitchInv'
    OBVIOUS
  <2> USE DEF TypeOK, SwitchInv, SwitchTakesEffect, manager, locals
  <2>1. CASE Tick
    BY <2>1 DEF Tick, channels
  <2>2. ASSUME NEW g \in Dispatchers, NEW k \in Keys,
               DispatchSuppressed(g, k) \/ DispatchCheck(g, k)
        PROVE SwitchInv'
    <3>1. CASE DispatchSuppressed(g, k)
      BY <3>1 DEF DispatchSuppressed, vars, channels
    <3>2. CASE DispatchCheck(g, k)
      <4>1. /\ pc' = [pc EXCEPT ![g] = "record"]
            /\ \A h \in Goroutines \ {g} : alert'[h] = alert[h]
        BY <3>2 DEF DispatchCheck
      <4>2. \A h \in Goroutines : pc'[h] = "deliver" => h # g /\ pc[h] = "deliver"
        BY <4>1 DEF Goroutines
      <4> QED
        BY <3>2, <4>1, <4>2 DEF DispatchCheck, channels
    <3> QED
      BY <2>2, <3>1, <3>2
  <2>3. ASSUME NEW g \in Dispatchers, DispatchRecord(g)
        PROVE SwitchInv'
    <3>1. channels' = channels /\ accepted' = accepted + 1 /\ switchedAt' = switchedAt
      BY <2>3 DEF DispatchRecord, channels
    <3>2. g \in Goroutines /\ alert[g] \in Alerts
      BY DEF Goroutines
    <3>3. alert' = [alert EXCEPT ![g] = [key |-> alert[g].key, firedAt |-> clock, seq |-> accepted + 1]]
      BY <2>3 DEF DispatchRecord
    <3>4. alert'[g].seq = accepted + 1
      BY <3>2, <3>3 DEF Alerts
    <3>5. notifiers'[g] = channels
      BY <2>3, <3>2 DEF DispatchRecord
    <3>6. \A h \in Goroutines \ {g} : /\ pc'[h] = pc[h]
                                     /\ alert'[h] = alert[h]
                                     /\ notifiers'[h] = notifiers[h]
      BY <2>3, <3>3 DEF DispatchRecord
    <3>7. SwitchTakesEffect'
      BY <3>1, <3>2, <3>5, <3>6
    <3>8. \A h \in Goroutines : pc'[h] = "deliver" => alert'[h].seq <= accepted'
      <4> SUFFICES ASSUME NEW h \in Goroutines, pc'[h] = "deliver"
                   PROVE  alert'[h].seq <= accepted'
        OBVIOUS
      <4>1. CASE h = g
        BY <4>1, <3>1, <3>4
      <4>2. CASE h # g
        <5>1. alert[h].seq \in Nat /\ alert[h].seq <= accepted
          BY <4>2, <3>6 DEF Alerts
        <5> QED
          BY <4>2, <5>1, <3>1, <3>6
      <4> QED
        BY <4>1, <4>2
    <3> QED
      BY <3>1, <3>7, <3>8
  <2>4. ASSUME NEW g \in Testers, TestStamp(g)
        PROVE SwitchInv'
    BY <2>4 DEF TestStamp, Goroutines, channels
  <2>5. ASSUME NEW g \in Testers, TestRecord(g)
        PROVE SwitchInv'
    <3>1. channels' = channels /\ accepted' = accepted + 1 /\ switchedAt' = switchedAt
      BY <2>5 DEF TestRecord, channels
    <3>2. g \in Goroutines /\ alert[g] \in Alerts
      BY DEF Goroutines
    <3>3. alert' = [alert EXCEPT ![g] = [alert[g] EXCEPT !.seq = accepted + 1]]
      BY <2>5 DEF TestRecord
    <3>4. alert'[g].seq = accepted + 1
      BY <3>2, <3>3 DEF Alerts
    <3>5. notifiers'[g] = channels
      BY <2>5, <3>2 DEF TestRecord
    <3>6. \A h \in Goroutines \ {g} : /\ pc'[h] = pc[h]
                                     /\ alert'[h] = alert[h]
                                     /\ notifiers'[h] = notifiers[h]
      BY <2>5, <3>3 DEF TestRecord
    <3>7. SwitchTakesEffect'
      BY <3>1, <3>2, <3>5, <3>6
    <3>8. \A h \in Goroutines : pc'[h] = "deliver" => alert'[h].seq <= accepted'
      <4> SUFFICES ASSUME NEW h \in Goroutines, pc'[h] = "deliver"
                   PROVE  alert'[h].seq <= accepted'
        OBVIOUS
      <4>1. CASE h = g
        BY <4>1, <3>1, <3>4
      <4>2. CASE h # g
        <5>1. alert[h].seq \in Nat /\ alert[h].seq <= accepted
          BY <4>2, <3>6 DEF Alerts
        <5> QED
          BY <4>2, <5>1, <3>1, <3>6
      <4> QED
        BY <4>1, <4>2
    <3> QED
      BY <3>1, <3>7, <3>8
  <2>6. ASSUME NEW g \in Goroutines, Send(g) \/ Return(g)
        PROVE SwitchInv'
    BY <2>6 DEF Send, Return, channels
  <2>7. ASSUME NEW w \in Webhooks \cup {NoWebhook}, SetWebhook(w)
        PROVE SwitchInv'
    BY <2>7 DEF SetWebhook, Alerts, channels
  <2>8. ASSUME NEW c \in Cooldowns, SetCooldown(c)
        PROVE SwitchInv'
    BY <2>8 DEF SetCooldown, channels
  <2>9. CASE UNCHANGED vars
    BY <2>9 DEF vars, channels
  <2> QED
    BY <2>1, <2>2, <2>3, <2>4, <2>5, <2>6, <2>7, <2>8, <2>9 DEF Next, Dispatch, Test
<1>3. SwitchInv => SwitchTakesEffect
  BY DEF SwitchInv
<1> QED
  BY <1>1, <1>2, <1>3, TypeCorrect, PTL DEF Spec

-----------------------------------------------------------------------------
(* The history *)

\* Between its stamp and its record a Test carries the key of the test alert.
StampInv == \A g \in Goroutines : pc[g] = "stamped" => alert[g].key = TestKey

\* Test builds its alert before it takes mu, and keeps it (manager.go:101-111).
LEMMA StampInvariant == Spec => []StampInv
<1>1. Init => StampInv
  BY DEF Init, StampInv
<1>2. TypeOK /\ StampInv /\ [Next]_vars => StampInv'
  <2> SUFFICES ASSUME TypeOK, StampInv, [Next]_vars PROVE StampInv'
    OBVIOUS
  <2> USE DEF TypeOK, StampInv, manager, locals
  <2>1. CASE Tick \/ UNCHANGED vars
    BY <2>1 DEF Tick, vars
  <2>2. ASSUME NEW g \in Dispatchers, Dispatch(g)
        PROVE StampInv'
    <3>1. ASSUME NEW k \in Keys, DispatchSuppressed(g, k) PROVE StampInv'
      BY <3>1 DEF DispatchSuppressed, vars
    <3>2. ASSUME NEW k \in Keys, DispatchCheck(g, k) PROVE StampInv'
      BY <3>2 DEF DispatchCheck
    <3>3. CASE DispatchRecord(g)
      BY <3>3 DEF DispatchRecord
    <3> QED
      BY <2>2, <3>1, <3>2, <3>3 DEF Dispatch
  <2>3. ASSUME NEW g \in Testers, Test(g)
        PROVE StampInv'
    <3>1. CASE TestStamp(g)
      BY <3>1 DEF TestStamp, Goroutines
    <3>2. CASE TestRecord(g)
      BY <3>2 DEF TestRecord
    <3> QED
      BY <2>3, <3>1, <3>2 DEF Test
  <2>4. ASSUME NEW g \in Goroutines, Send(g) \/ Return(g)
        PROVE StampInv'
    BY <2>4 DEF Send, Return
  <2>5. ASSUME NEW w \in Webhooks \cup {NoWebhook}, SetWebhook(w)
        PROVE StampInv'
    BY <2>5 DEF SetWebhook
  <2>6. ASSUME NEW c \in Cooldowns, SetCooldown(c)
        PROVE StampInv'
    BY <2>6 DEF SetCooldown
  <2> QED
    BY <2>1, <2>2, <2>3, <2>4, <2>5, <2>6 DEF Next
<1> QED
  BY <1>1, <1>2, TypeCorrect, PTL DEF Spec

\* What a record of alert a does to the history and to lastFired: the alert of
\* a Dispatch is stamped now and moves its key's lastFired, that of a Test
\* leaves lastFired alone.
Recorded(a) ==
    /\ recent' = remember(a)
    /\ a.seq = accepted + 1
    /\ accepted' = accepted + 1
    /\ clock' = clock
    /\ \/ /\ a.key \in Keys
          /\ a.firedAt = clock
          /\ lastFired' = [lastFired EXCEPT ![a.key] = {a.firedAt}]
       \/ a.key = TestKey /\ lastFired' = lastFired

\* Every step either leaves the history alone or records one alert.
LEMMA HistoryStep ==
    ASSUME TypeOK, CheckStillValid, StampInv, [Next]_vars
    PROVE  \/ UNCHANGED <<recent, lastFired, accepted>> /\ clock' >= clock /\ clock' \in Nat
           \/ \E a \in Alerts : Recorded(a)
<1>1. ASSUME NEW g \in Dispatchers, DispatchRecord(g)
      PROVE  \E a \in Alerts : Recorded(a)
  <2> DEFINE a == [key |-> alert[g].key, firedAt |-> clock, seq |-> accepted + 1]
  <2>1. alert[g] \in Alerts /\ alert[g].key \in Keys
    BY <1>1 DEF TypeOK, CheckStillValid, DispatchRecord, Goroutines
  <2>2. a \in Alerts /\ a.key \in Keys /\ a.firedAt = clock /\ a.seq = accepted + 1
    BY <2>1 DEF TypeOK, Alerts
  <2>3. Recorded(a)
    BY <1>1, <2>2 DEF DispatchRecord, Recorded
  <2> QED
    BY <2>2, <2>3
<1>2. ASSUME NEW g \in Testers, TestRecord(g)
      PROVE  \E a \in Alerts : Recorded(a)
  <2> DEFINE a == [alert[g] EXCEPT !.seq = accepted + 1]
  <2>1. alert[g] \in Alerts /\ alert[g].key = TestKey /\ accepted + 1 \in Nat
    BY <1>2 DEF TypeOK, StampInv, TestRecord, Goroutines
  <2>2. a \in Alerts /\ a.key = TestKey /\ a.seq = accepted + 1
    BY <2>1 DEF Alerts
  <2>3. Recorded(a)
    BY <1>2, <2>2 DEF TestRecord, Recorded
  <2> QED
    BY <2>2, <2>3
<1>3. CASE UNCHANGED vars
  BY <1>3 DEF vars, TypeOK
<1>4. CASE Next
  <2>1. CASE Tick
    BY <2>1 DEF Tick, TypeOK, manager
  <2>2. CASE \/ \E g \in Dispatchers : \E k \in Keys : DispatchSuppressed(g, k) \/ DispatchCheck(g, k)
             \/ \E g \in Testers : TestStamp(g)
             \/ \E g \in Goroutines : Send(g) \/ Return(g)
             \/ \E w \in Webhooks \cup {NoWebhook} : SetWebhook(w)
             \/ \E c \in Cooldowns : SetCooldown(c)
    BY <2>2 DEF TypeOK, DispatchSuppressed, DispatchCheck, TestStamp, Send, Return,
                SetWebhook, SetCooldown, manager, vars
  <2> QED
    BY <1>1, <1>2, <1>4, <2>1, <2>2 DEF Next, Dispatch, Test
<1> QED
  BY <1>3, <1>4

\* The history holds the last accepted alerts, without gaps, the last accepted
\* first (remember, manager.go:136), for every capacity.
THEOREM HistoryAlwaysInOrder == Spec => []HistoryInOrderOfAcceptance
<1>1. Init => HistoryInOrderOfAcceptance
  BY DEF Init, HistoryInOrderOfAcceptance
<1>2. TypeOK /\ CheckStillValid /\ StampInv /\ HistoryInOrderOfAcceptance /\ [Next]_vars
         => HistoryInOrderOfAcceptance'
  <2> SUFFICES ASSUME TypeOK, CheckStillValid, StampInv, HistoryInOrderOfAcceptance, [Next]_vars
               PROVE  HistoryInOrderOfAcceptance'
    OBVIOUS
  <2>1. CASE UNCHANGED <<recent, lastFired, accepted>>
    BY <2>1 DEF HistoryInOrderOfAcceptance
  <2>2. ASSUME NEW a \in Alerts, Recorded(a)
        PROVE  HistoryInOrderOfAcceptance'
    <3>0. recent \in Seq(Alerts) /\ Len(recent) <= RecentCapacity
      BY DEF TypeOK
    <3>1. /\ recent'[1].seq = accepted + 1
          /\ \A i \in 2..Len(recent') : i - 1 \in 1..Len(recent) /\ recent'[i] = recent[i - 1]
          /\ Len(recent') \in Nat
      <4>1. recent' = remember(a) /\ a.seq = accepted + 1
        BY <2>2 DEF Recorded
      <4>2. /\ remember(a) \in Seq(Alerts)
            /\ remember(a)[1] = a
            /\ \A i \in 2..Len(remember(a)) : /\ i - 1 \in 1..Len(recent)
                                              /\ remember(a)[i] = recent[i - 1]
        BY <3>0, RememberFacts
      <4> QED
        BY <4>1, <4>2
    <3>2. \A i \in 2..Len(recent') : recent'[i].seq = accepted + 1 - (i - 1)
      BY <3>1 DEF HistoryInOrderOfAcceptance
    <3>3. accepted' = accepted + 1 /\ accepted \in Nat
      BY <2>2 DEF Recorded, TypeOK
    <3> SUFFICES ASSUME NEW i \in 1..Len(recent')
                 PROVE  recent'[i].seq = accepted' + 1 - i
      BY DEF HistoryInOrderOfAcceptance
    <3>4. CASE i = 1
      BY <3>1, <3>3, <3>4
    <3>5. CASE i # 1
      BY <3>1, <3>2, <3>3, <3>5
    <3> QED
      BY <3>4, <3>5
  <2> QED
    BY <2>1, <2>2, HistoryStep
<1> QED
  BY <1>1, <1>2, TypeCorrect, CheckAlwaysValid, StampInvariant, PTL DEF Spec

\* What RecordOutlivesDelivery needs to be inductive: no goroutine's alert is later
\* than the last accepted one, or than now.
DeliveryInv == /\ RecordOutlivesDelivery
               /\ \A g \in Goroutines : alert[g].seq <= accepted /\ alert[g].firedAt <= clock

\* What the record of an alert does to the goroutines: g's alert becomes a, and
\* nobody else's changes.
RecordedBy(g, a) == /\ Recorded(a)
                    /\ alert' = [alert EXCEPT ![g] = a]
                    /\ a.firedAt <= clock

\* The other alerts move back by one, and a dispatched one's key is fired again or
\* left alone.
LEMMA RecordKeepsTheOthers ==
    ASSUME TypeOK, DeliveryInv, NEW g \in Goroutines, NEW a \in Alerts, RecordedBy(g, a)
    PROVE  DeliveryInv'
<1>1. /\ recent \in Seq(Alerts) /\ Len(recent) \in Nat /\ Len(recent) <= RecentCapacity
      /\ accepted \in Nat /\ clock \in Nat /\ RecentCapacity \in Nat
      /\ clock' = clock /\ accepted' = accepted + 1 /\ a.seq = accepted + 1
      /\ a.firedAt <= clock /\ a.firedAt \in Nat
  BY ManagerAssumption DEF TypeOK, RecordedBy, Recorded, Alerts
<1>2. /\ Len(recent') = IF Len(recent) < RecentCapacity THEN Len(recent) + 1 ELSE RecentCapacity
      /\ Len(recent') >= 1
      /\ recent'[1] = a
      /\ \A i \in 2..Len(recent') : recent'[i] = recent[i - 1]
  <2>1. recent' = remember(a)
    BY DEF RecordedBy, Recorded
  <2> QED
    BY <1>1, <2>1, RememberFacts
<1>3. /\ alert'[g] = a
      /\ \A h \in Goroutines \ {g} : alert'[h] = alert[h]
      /\ \A h \in Goroutines : alert[h].seq \in Nat /\ alert[h].firedAt \in Nat
  BY DEF RecordedBy, TypeOK, Alerts
<1>4. ASSUME NEW k \in Keys, NEW t \in lastFired[k], NEW n \in Nat, t >= n, n <= clock
      PROVE  \E u \in lastFired'[k] : u >= n
  BY <1>1, <1>4 DEF RecordedBy, Recorded, TypeOK
<1>5. ASSUME NEW h \in Goroutines PROVE alert'[h].seq <= accepted' /\ alert'[h].firedAt <= clock'
  BY <1>1, <1>3 DEF DeliveryInv
<1>6. ASSUME NEW h \in Goroutines, alert'[h].seq > 0
      PROVE  /\ LET i == accepted' + 1 - alert'[h].seq
                IN  i <= RecentCapacity => i \in 1..Len(recent') /\ recent'[i] = alert'[h]
             /\ alert'[h].key \in Keys
                   => \E t \in lastFired'[alert'[h].key] : t >= alert'[h].firedAt
  <2>1. CASE h = g
    <3>1. accepted' + 1 - alert'[h].seq = 1
      BY <1>1, <1>3, <2>1
    <3>2. a.key \in Keys => a.firedAt \in lastFired'[a.key]
      BY ManagerAssumption DEF RecordedBy, Recorded, TypeOK
    <3> QED
      BY <1>1, <1>2, <1>3, <2>1, <3>1, <3>2
  <2>2. CASE h # g
    <3>1. alert'[h] = alert[h] /\ alert[h].seq > 0 /\ alert[h].seq <= accepted
      BY <1>3, <1>6, <2>2 DEF DeliveryInv
    <3> DEFINE i == accepted + 1 - alert[h].seq
    <3>2. i \in Nat /\ i >= 1 /\ accepted' + 1 - alert'[h].seq = i + 1
      <4>1. /\ alert[h].seq \in Nat /\ alert[h].seq <= accepted /\ accepted \in Nat
            /\ accepted' = accepted + 1 /\ alert'[h].seq = alert[h].seq
        BY <1>1, <1>3, <3>1
      <4> QED
        BY <4>1
    <3>3. i <= RecentCapacity => i \in 1..Len(recent) /\ recent[i] = alert[h]
      BY <3>1 DEF DeliveryInv, RecordOutlivesDelivery
    <3> HIDE DEF i
    <3>4. i + 1 <= RecentCapacity => i + 1 \in 2..Len(recent')
      BY <1>1, <1>2, <3>2, <3>3
    <3>5. i + 1 <= RecentCapacity => recent'[i + 1] = alert[h]
      <4> HAVE i + 1 <= RecentCapacity
      <4>1. recent'[i + 1] = recent[(i + 1) - 1] /\ (i + 1) - 1 = i /\ i <= RecentCapacity
        BY <1>1, <1>2, <3>2, <3>4
      <4> QED
        BY <3>3, <4>1
    <3>6. alert[h].key \in Keys => \E t \in lastFired'[alert[h].key] : t >= alert[h].firedAt
      <4> HAVE alert[h].key \in Keys
      <4>1. PICK t \in lastFired[alert[h].key] : t >= alert[h].firedAt
        BY <3>1 DEF DeliveryInv, RecordOutlivesDelivery
      <4> QED
        BY <1>3, <1>4, <4>1 DEF DeliveryInv
    <3> QED
      BY <1>1, <1>2, <3>1, <3>2, <3>4, <3>5, <3>6
  <2> QED
    BY <2>1, <2>2
<1> QED
  BY <1>1, <1>5, <1>6 DEF DeliveryInv, RecordOutlivesDelivery

\* An accepted alert stays in the history until RecentCapacity newer ones were
\* accepted, and its key stays fired, whatever the channels answer
\* (manager.go:77-95, 107-125, 143), for any goroutines, channels and capacity.
THEOREM RecordAlwaysOutlivesDelivery == Spec => []RecordOutlivesDelivery
<1>1. Init => DeliveryInv
  BY DEF Init, DeliveryInv, RecordOutlivesDelivery
<1>2. TypeOK /\ CheckStillValid /\ StampInv /\ DeliveryInv /\ [Next]_vars => DeliveryInv'
  <2> SUFFICES ASSUME TypeOK, CheckStillValid, StampInv, DeliveryInv, [Next]_vars PROVE DeliveryInv'
    OBVIOUS
  <2> USE DEF manager, locals
  <2>1. ASSUME UNCHANGED <<recent, lastFired, alert, accepted>>, clock' >= clock, clock' \in Nat
        PROVE  DeliveryInv'
    <3>1. \A g \in Goroutines : alert[g].firedAt \in Nat /\ clock \in Nat
      BY DEF TypeOK, Alerts
    <3> QED
      BY <2>1, <3>1 DEF DeliveryInv, RecordOutlivesDelivery
  <2>2. ASSUME NEW g \in Goroutines, NEW k, UNCHANGED <<recent, lastFired, accepted, clock>>,
               alert' = [alert EXCEPT ![g] = [key |-> k, firedAt |-> clock, seq |-> 0]]
        PROVE  DeliveryInv'
    <3>1. /\ alert'[g].seq = 0 /\ alert'[g].firedAt = clock
          /\ \A h \in Goroutines \ {g} : alert'[h] = alert[h]
          /\ clock \in Nat /\ accepted \in Nat
      BY <2>2 DEF TypeOK
    <3>2. ASSUME NEW h \in Goroutines
          PROVE  /\ alert'[h].seq <= accepted' /\ alert'[h].firedAt <= clock'
                 /\ alert'[h].seq > 0 => h # g
      BY <2>2, <3>1 DEF DeliveryInv
    <3> QED
      BY <2>2, <3>1, <3>2 DEF DeliveryInv, RecordOutlivesDelivery
  <2>3. ASSUME NEW g \in Dispatchers, DispatchRecord(g) PROVE DeliveryInv'
    <3> DEFINE a == [key |-> alert[g].key, firedAt |-> clock, seq |-> accepted + 1]
    <3>1. g \in Goroutines /\ alert[g].key \in Keys
      BY <2>3 DEF CheckStillValid, DispatchRecord, Goroutines
    <3>2. a \in Alerts /\ a.key \in Keys /\ a.firedAt = clock /\ a.seq = accepted + 1 /\ clock \in Nat
      BY <3>1 DEF TypeOK, Alerts
    <3>3. RecordedBy(g, a)
      BY <2>3, <3>2 DEF DispatchRecord, RecordedBy, Recorded
    <3> QED
      BY <3>1, <3>2, <3>3, RecordKeepsTheOthers
  <2>4. ASSUME NEW g \in Testers, TestRecord(g) PROVE DeliveryInv'
    <3> DEFINE a == [alert[g] EXCEPT !.seq = accepted + 1]
    <3>1. g \in Goroutines /\ alert[g] \in Alerts /\ alert[g].key = TestKey /\ accepted + 1 \in Nat
      BY <2>4 DEF TypeOK, StampInv, TestRecord, Goroutines
    <3>2. /\ a \in Alerts /\ a.key = TestKey /\ a.seq = accepted + 1
          /\ a.firedAt = alert[g].firedAt /\ alert[g].firedAt <= clock
      BY <3>1 DEF Alerts, DeliveryInv
    <3>3. RecordedBy(g, a)
      BY <2>4, <3>2 DEF TestRecord, RecordedBy, Recorded
    <3> QED
      BY <3>1, <3>2, <3>3, RecordKeepsTheOthers
  <2>5. ASSUME NEW g \in Dispatchers, NEW k \in Keys, DispatchCheck(g, k) PROVE DeliveryInv'
    BY <2>2, <2>5 DEF DispatchCheck, Goroutines
  <2>6. ASSUME NEW g \in Testers, TestStamp(g) PROVE DeliveryInv'
    BY <2>2, <2>6 DEF TestStamp, Goroutines
  <2>7. CASE \/ Tick \/ UNCHANGED vars
             \/ \E g \in Dispatchers, k \in Keys : DispatchSuppressed(g, k)
             \/ \E g \in Goroutines : Send(g) \/ Return(g)
             \/ \E w \in Webhooks \cup {NoWebhook} : SetWebhook(w)
             \/ \E c \in Cooldowns : SetCooldown(c)
    BY <2>1, <2>7 DEF TypeOK, Tick, DispatchSuppressed, Send, Return, SetWebhook, SetCooldown, vars
  <2> QED
    BY <2>3, <2>4, <2>5, <2>6, <2>7 DEF Next, Dispatch, Test
<1>3. DeliveryInv => RecordOutlivesDelivery
  BY DEF DeliveryInv
<1> QED
  BY <1>1, <1>2, <1>3, TypeCorrect, CheckAlwaysValid, StampInvariant, PTL DEF Spec

\* What DispatchedNewestFirst needs to be inductive: no dispatched alert of
\* the history is stamped in the future.
OrderInv == /\ DispatchedNewestFirst
            /\ \A i \in 1..Len(recent) : recent[i].key # TestKey => recent[i].firedAt <= clock

\* The dispatched alerts of the history are newest first (manager.go:87-89,
\* 136), for every capacity and any number of dispatchers.
THEOREM DispatchedAlwaysNewestFirst == Spec => []DispatchedNewestFirst
<1>1. Init => OrderInv
  BY DEF Init, OrderInv, DispatchedNewestFirst
<1>2. TypeOK /\ CheckStillValid /\ StampInv /\ OrderInv /\ [Next]_vars => OrderInv'
  <2> SUFFICES ASSUME TypeOK, CheckStillValid, StampInv, OrderInv, [Next]_vars
               PROVE  OrderInv'
    OBVIOUS
  <2>0. /\ recent \in Seq(Alerts) /\ Len(recent) <= RecentCapacity /\ Len(recent) \in Nat
        /\ \A i \in 1..Len(recent) : recent[i].firedAt \in Nat
        /\ clock \in Nat
    <3>1. recent \in Seq(Alerts) /\ Len(recent) <= RecentCapacity /\ clock \in Nat
      BY DEF TypeOK
    <3>2. Len(recent) \in Nat /\ \A i \in 1..Len(recent) : recent[i] \in Alerts
      BY <3>1
    <3> QED
      BY <3>1, <3>2 DEF Alerts
  <2>1. CASE UNCHANGED <<recent, lastFired, accepted>> /\ clock' >= clock /\ clock' \in Nat
    <3>1. recent' = recent
      BY <2>1
    <3>2. \A i \in 1..Len(recent) : recent[i].key # TestKey => recent[i].firedAt <= clock'
      <4> SUFFICES ASSUME NEW i \in 1..Len(recent), recent[i].key # TestKey
                   PROVE  recent[i].firedAt <= clock'
        OBVIOUS
      <4>1. recent[i].firedAt <= clock /\ recent[i].firedAt \in Nat
        BY <2>0 DEF OrderInv
      <4> QED
        BY <2>0, <2>1, <4>1
    <3>3. DispatchedNewestFirst'
      BY <3>1 DEF OrderInv, DispatchedNewestFirst
    <3> QED
      BY <3>1, <3>2, <3>3 DEF OrderInv
  <2>2. ASSUME NEW a \in Alerts, Recorded(a)
        PROVE  OrderInv'
    <3>1. /\ recent' = remember(a)
          /\ clock' = clock
          /\ a.key # TestKey => a.firedAt = clock
      BY <2>2 DEF Recorded
    <3>2. /\ Len(recent') \in Nat
          /\ recent'[1] = a
          /\ \A i \in 2..Len(recent') : i - 1 \in 1..Len(recent) /\ recent'[i] = recent[i - 1]
      <4>1. /\ remember(a) \in Seq(Alerts)
            /\ remember(a)[1] = a
            /\ \A i \in 2..Len(remember(a)) : /\ i - 1 \in 1..Len(recent)
                                              /\ remember(a)[i] = recent[i - 1]
        BY <2>0, RememberFacts
      <4>2. Len(remember(a)) \in Nat
        BY <4>1
      <4>3. recent' = remember(a)
        BY <3>1
      <4> QED
        BY <4>1, <4>2, <4>3
    <3>3. \A i \in 1..Len(recent') : recent'[i].key # TestKey => recent'[i].firedAt <= clock
      <4> SUFFICES ASSUME NEW i \in 1..Len(recent'), recent'[i].key # TestKey
                   PROVE  recent'[i].firedAt <= clock
        OBVIOUS
      <4>1. CASE i = 1
        BY <4>1, <2>0, <3>1, <3>2
      <4>2. CASE i # 1
        BY <4>2, <3>2 DEF OrderInv
      <4> QED
        BY <4>1, <4>2
    <3>4. DispatchedNewestFirst'
      <4> SUFFICES ASSUME NEW i \in 1..Len(recent'), NEW j \in 1..Len(recent'), i < j,
                          recent'[i].key # TestKey, recent'[j].key # TestKey
                   PROVE  recent'[i].firedAt >= recent'[j].firedAt
        BY DEF DispatchedNewestFirst
      <4>1. j # 1 /\ j - 1 \in 1..Len(recent) /\ recent'[j] = recent[j - 1]
        BY <3>2
      <4>2. CASE i = 1
        BY <4>1, <4>2, <2>0, <3>1, <3>2 DEF OrderInv
      <4>3. CASE i # 1
        <5>1. i - 1 \in 1..Len(recent) /\ recent'[i] = recent[i - 1] /\ i - 1 < j - 1
          BY <4>3, <3>2
        <5> QED
          BY <4>1, <5>1 DEF OrderInv, DispatchedNewestFirst
      <4> QED
        BY <4>2, <4>3
    <3> QED
      BY <3>1, <3>3, <3>4 DEF OrderInv
  <2> QED
    BY <2>1, <2>2, HistoryStep
<1>3. OrderInv => DispatchedNewestFirst
  BY DEF OrderInv
<1> QED
  BY <1>1, <1>2, <1>3, TypeCorrect, CheckAlwaysValid, StampInvariant, PTL DEF Spec

\* A history that is not full has kept all it had.
LEMMA NothingForgotten ==
    ASSUME recent \in Seq(Alerts), Len(recent) <= RecentCapacity, NEW a \in Alerts,
           Len(remember(a)) < RecentCapacity
    PROVE  \A i \in 1..Len(recent) : /\ i + 1 \in 2..Len(remember(a))
                                    /\ remember(a)[i + 1] = recent[i]
<1> DEFINE n == IF Len(recent) < RecentCapacity THEN Len(recent) + 1 ELSE RecentCapacity
<1>1. n \in Nat /\ DOMAIN remember(a) = 1..n
  BY ManagerAssumption DEF remember
<1>2. remember(a) \in Seq(Alerts)
  BY RememberFacts
<1>3. Len(remember(a)) = n
  BY <1>1, <1>2
<1>4. n = Len(recent) + 1
  BY <1>3
<1>5. \A i \in 1..n : remember(a)[i] = IF i = 1 THEN a ELSE recent[i - 1]
  BY DEF remember
<1> QED
  BY <1>3, <1>4, <1>5

\* For each key, its first entry in the history is its last firing, and as long as
\* nothing was dropped a key that fired has an entry (manager.go:88, 136), for any
\* number of goroutines and keys and every capacity.
THEOREM HistoryAlwaysTracksFirings == Spec => []HistoryTracksFirings
<1>1. Init => HistoryTracksFirings
  BY DEF Init, HistoryTracksFirings
<1>2. TypeOK /\ CheckStillValid /\ StampInv /\ HistoryTracksFirings /\ [Next]_vars
         => HistoryTracksFirings'
  <2> SUFFICES ASSUME TypeOK, CheckStillValid, StampInv, HistoryTracksFirings, [Next]_vars
               PROVE  HistoryTracksFirings'
    OBVIOUS
  <2>1. CASE UNCHANGED <<recent, lastFired, accepted>>
    BY <2>1 DEF HistoryTracksFirings
  <2>2. ASSUME NEW a \in Alerts, Recorded(a)
        PROVE  HistoryTracksFirings'
    <3>1. recent \in Seq(Alerts) /\ Len(recent) <= RecentCapacity /\ Len(recent) \in Nat
          /\ lastFired \in [Keys -> SUBSET Nat]
      BY DEF TypeOK
    <3>2. /\ Len(recent') \in Nat /\ Len(recent') >= 1 /\ recent'[1] = a
          /\ \A i \in 2..Len(recent') : i - 1 \in 1..Len(recent) /\ recent'[i] = recent[i - 1]
      <4>1. recent' = remember(a)
        BY <2>2 DEF Recorded
      <4>2. /\ remember(a) \in Seq(Alerts) /\ Len(remember(a)) >= 1 /\ remember(a)[1] = a
            /\ \A i \in 2..Len(remember(a)) : /\ i - 1 \in 1..Len(recent)
                                              /\ remember(a)[i] = recent[i - 1]
        BY <3>1, RememberFacts
      <4>3. Len(remember(a)) \in Nat
        BY <4>2
      <4> QED
        BY <4>1, <4>2, <4>3, Zenon
    <3>3. Len(recent') < RecentCapacity
             => \A i \in 1..Len(recent) : i + 1 \in 2..Len(recent') /\ recent'[i + 1] = recent[i]
      BY <2>2, <3>1, NothingForgotten DEF Recorded
    <3>4. \A k \in Keys : lastFired'[k] = IF k = a.key THEN {a.firedAt} ELSE lastFired[k]
      BY <2>2, <3>1, ManagerAssumption DEF Recorded
    <3> SUFFICES ASSUME NEW k \in Keys
                 PROVE  /\ \A i \in 1..Len(recent') :
                             (/\ recent'[i].key = k
                              /\ \A j \in 1..Len(recent') : recent'[j].key = k => i <= j)
                                => lastFired'[k] = {recent'[i].firedAt}
                        /\ (lastFired'[k] # {} /\ Len(recent') < RecentCapacity)
                              => \E i \in 1..Len(recent') : recent'[i].key = k
      BY DEF HistoryTracksFirings
    <3>5. CASE k = a.key
      <4>1. 1 \in 1..Len(recent') /\ recent'[1].key = k
        BY <3>2, <3>5
      <4>2. ASSUME NEW i \in 1..Len(recent'), recent'[i].key = k,
                   \A j \in 1..Len(recent') : recent'[j].key = k => i <= j
            PROVE  lastFired'[k] = {recent'[i].firedAt}
        <5>1. i = 1
          BY <3>2, <4>1, <4>2
        <5> QED
          BY <3>2, <3>4, <3>5, <5>1
      <4>3. \E i \in 1..Len(recent') : recent'[i].key = k
        BY <4>1
      <4> QED
        BY <4>2, <4>3
    <3>6. CASE k # a.key
      <4>1. lastFired'[k] = lastFired[k]
        BY <3>4, <3>6
      <4>2. ASSUME NEW i \in 1..Len(recent'), recent'[i].key = k,
                   \A j \in 1..Len(recent') : recent'[j].key = k => i <= j
            PROVE  lastFired'[k] = {recent'[i].firedAt}
        <5>1. i \in 2..Len(recent')
          BY <3>2, <3>6, <4>2
        <5>2. i - 1 \in 1..Len(recent) /\ recent'[i] = recent[i - 1]
          BY <3>2, <5>1
        <5>3. ASSUME NEW j \in 1..Len(recent), recent[j].key = k PROVE i - 1 <= j
          <6>1. CASE j + 1 > Len(recent')
            BY <3>1, <3>2, <5>1, <6>1
          <6>2. CASE j + 1 <= Len(recent')
            <7>1. j + 1 \in 2..Len(recent') /\ (j + 1) - 1 = j
              BY <3>1, <3>2, <6>2
            <7>2. recent'[j + 1] = recent[j]
              BY <3>2, <7>1
            <7>3. i <= j + 1
              BY <4>2, <5>3, <7>1, <7>2
            <7> QED
              BY <3>1, <3>2, <7>3
          <6> QED
            BY <3>1, <3>2, <6>1, <6>2
        <5>4. lastFired[k] = {recent[i - 1].firedAt}
          BY <4>2, <5>2, <5>3 DEF HistoryTracksFirings
        <5> QED
          BY <4>1, <5>2, <5>4
      <4>3. ASSUME lastFired'[k] # {}, Len(recent') < RecentCapacity
            PROVE  \E i \in 1..Len(recent') : recent'[i].key = k
        <5>1. Len(recent) < RecentCapacity
          BY <3>1, <3>2, <3>3, <4>3, ManagerAssumption
        <5>2. PICK i \in 1..Len(recent) : recent[i].key = k
          BY <4>1, <4>3, <5>1 DEF HistoryTracksFirings
        <5>3. i + 1 \in 2..Len(recent') /\ recent'[i + 1].key = k
          BY <3>3, <4>3, <5>2
        <5> QED
          BY <5>3
      <4> QED
        BY <4>2, <4>3
    <3> QED
      BY <3>5, <3>6
  <2> QED
    BY <2>1, <2>2, HistoryStep
<1> QED
  BY <1>1, <1>2, TypeCorrect, CheckAlwaysValid, StampInvariant, PTL DEF Spec

-----------------------------------------------------------------------------
(* AlertsPanel: the dialog *)

\* A save as a record.
SaveFields == {"stage", "attached", "patch", "reset", "thenTest", "reply"}
IsSave(x) == x = [f \in SaveFields |-> x[f]]

\* A dialog that is closed has no form, and no save whose answer could fill it.
DialogInv == /\ put = [s \in Saves |-> put[s]] /\ \A s \in Saves : IsSave(put[s])
             /\ ~open => form = NoForm /\ \A s \in Saves : put[s].attached = FALSE

LEMMA FreeIsSave ==
    IsSave(NoSave) /\ NoSave.stage = "free" /\ NoSave.attached = FALSE
  BY DEF NoSave, IsSave, SaveFields

LEMMA DetachedFacts ==
    ASSUME DialogInv
    PROVE  /\ Detached = [s \in Saves |-> Detached[s]]
           /\ \A s \in Saves : /\ IsSave(Detached[s]) /\ Detached[s].attached = FALSE
                               /\ Detached[s].stage = put[s].stage
                               /\ Detached[s].patch = put[s].patch
<1>1. \A s \in Saves : Detached[s] = [put[s] EXCEPT !.attached = FALSE]
  BY DEF Detached
<1>2. Detached = [s \in Saves |-> Detached[s]]
  BY DEF Detached
<1>3. ASSUME NEW s \in Saves
      PROVE  /\ IsSave(Detached[s]) /\ Detached[s].attached = FALSE
             /\ Detached[s].stage = put[s].stage /\ Detached[s].patch = put[s].patch
  <2>1. IsSave(put[s]) /\ Detached[s] = [put[s] EXCEPT !.attached = FALSE]
    BY <1>1 DEF DialogInv
  <2> QED
    BY <2>1 DEF IsSave, SaveFields
<1> QED
  BY <1>2, <1>3

LEMMA DialogStart == DialogInit => DialogInv
  BY FreeIsSave DEF DialogInit, DialogInv

\* What a step does to the saves: nothing but detach them all, or change one.
SavesKept == \A s \in Saves : put'[s].stage = put[s].stage
OneSave(s, x) == put' = [put EXCEPT ![s] = x]

LEMMA OneSaveFacts ==
    ASSUME DialogInv, NEW s \in Saves, NEW x, IsSave(x), OneSave(s, x)
    PROVE  /\ put' = [t \in Saves |-> put'[t]] /\ \A t \in Saves : IsSave(put'[t])
           /\ put'[s] = x /\ \A t \in Saves \ {s} : put'[t] = put[t]
  BY DEF DialogInv, OneSave

\* The dialog is opened or closed.
LEMMA OpenCloseStep ==
    ASSUME DialogInv, OpenDialog \/ CloseDialog
    PROVE  DialogInv' /\ WebhookStep /\ SentStep /\ TypedStep
<1>1. put' = Detached /\ (open' = FALSE => form' = NoForm) /\ (form = NoForm \/ form' = NoForm)
  BY DEF OpenDialog, CloseDialog, DialogInv
<1>2. DialogInv'
  <2>1. put' = [s \in Saves |-> put'[s]] /\ \A s \in Saves : IsSave(put'[s]) /\ put'[s].attached = FALSE
    BY <1>1, DetachedFacts
  <2>2. ~open' => open' = FALSE
    BY DEF OpenDialog, CloseDialog
  <2> QED
    BY <1>1, <2>1, <2>2 DEF DialogInv, IsSave
<1>3. SavesKept
  BY <1>1, DetachedFacts DEF SavesKept
<1> QED
  BY <1>1, <1>2, <1>3 DEF SavesKept, WebhookStep, SentStep, TypedStep

\* Saves stay as they are, and so does the form or it is edited.
LEMMA QuietStep ==
    ASSUME DialogInv, UNCHANGED <<open, put>>,
           \/ form' = form
           \/ Editing /\ UNCHANGED <<override, cache, get, testing>>
    PROVE  DialogInv' /\ WebhookStep /\ SentStep /\ TypedStep
<1>1. DialogInv'
  BY DEF DialogInv, Editing, IsSave
<1> QED
  BY <1>1 DEF WebhookStep, SentStep, TypedStep

\* A save is sent: without a URL, unless one was typed or is to go.
LEMMA MutateStep ==
    ASSUME DialogInv, open, NEW patch, NEW reset, NEW thenTest, Mutate(patch, reset, thenTest),
           reset \/ patch = toPatch(form)
    PROVE  DialogInv' /\ WebhookStep /\ SentStep /\ TypedStep
<1> DEFINE x == [stage |-> "sent", attached |-> TRUE, patch |-> patch, reset |-> reset,
                 thenTest |-> thenTest, reply |-> NoView]
<1>1. PICK s \in Saves : put[s] = NoSave /\ OneSave(s, x)
  BY DEF Mutate, OneSave
<1>2. UNCHANGED <<override, cache, get, open, form, testing>>
  BY DEF Mutate
<1>3. IsSave(x) /\ x.stage = "sent" /\ x.patch = patch /\ x.reset = reset
  BY DEF IsSave, SaveFields
<1> HIDE DEF x
<1>4. /\ put' = [t \in Saves |-> put'[t]] /\ \A t \in Saves : IsSave(put'[t])
      /\ put'[s] = x /\ \A t \in Saves \ {s} : put'[t] = put[t]
  BY <1>1, <1>3, OneSaveFacts
<1>5. DialogInv'
  BY <1>2, <1>4 DEF DialogInv, IsSave
<1>6. WebhookStep
  BY <1>2 DEF WebhookStep
<1>7. SentStep
  <2>1. form.webhookUrl = "" /\ ~form.clearWebhook => toPatch(form)["webhookUrl"] = Nil
    BY DEF toPatch, Fields
  <2> QED
    BY <1>2, <1>3, <1>4, <2>1 DEF SentStep
<1> QED
  BY <1>2, <1>5, <1>6, <1>7 DEF TypedStep

\* A patch without a URL leaves the one in force alone.
LEMMA MergeKeepsTheURL ==
    ASSUME NEW base, NEW p, p["webhookUrl"] = Nil
    PROVE  Effective(Merge(base, p))["webhookUrl"] = Effective(base)["webhookUrl"]
  BY DEF Effective, Merge, Fields

\* One save moves on, to x.
LEMMA SaveStep ==
    ASSUME DialogInv, NEW s \in Saves, NEW x, IsSave(x), OneSave(s, x),
           x.stage # "sent" \/ put[s].stage = "sent",
           x.attached # FALSE => x.attached = put[s].attached,
           open' = open,
           \/ form' = form
           \/ put[s].attached /\ put[s].stage = "ok" /\ x.stage = "free",
           \/ override' = override
           \/ override' = Merge(override, put[s].patch)
           \/ put[s].reset
           \/ put[s].stage \notin {"sent", "orphan"}
    PROVE  DialogInv' /\ WebhookStep /\ SentStep /\ TypedStep
<1>1. /\ put' = [t \in Saves |-> put'[t]] /\ \A t \in Saves : IsSave(put'[t])
      /\ put'[s] = x /\ \A t \in Saves \ {s} : put'[t] = put[t]
  BY OneSaveFacts
<1>2. DialogInv'
  <2>1. ~open => form' = NoForm /\ \A t \in Saves : put'[t].attached = FALSE
    BY <1>1 DEF DialogInv
  <2> QED
    BY <1>1, <2>1 DEF DialogInv, IsSave
<1>3. WebhookStep
  <2> SUFFICES ASSUME NEW t \in Saves, put[t].stage \in {"sent", "orphan"},
                      put'[t].stage # put[t].stage,
                      ~put[t].reset, put[t].patch["webhookUrl"] = Nil
               PROVE  Effective(override')["webhookUrl"] = Effective(override)["webhookUrl"]
    BY DEF WebhookStep
  <2>1. t = s
    BY <1>1
  <2> QED
    BY <2>1, MergeKeepsTheURL
<1>4. SentStep
  BY <1>1 DEF SentStep
<1>5. TypedStep
  BY <1>1 DEF TypedStep
<1> QED
  BY <1>2, <1>3, <1>4, <1>5

LEMMA DialogStepFacts ==
    DialogInv /\ [DialogNext]_dialogVars => DialogInv' /\ WebhookStep /\ SentStep /\ TypedStep
<1> SUFFICES ASSUME DialogInv, [DialogNext]_dialogVars PROVE DialogInv' /\ WebhookStep /\ SentStep /\ TypedStep
  OBVIOUS
<1>1. CASE \/ OtherPut \/ Fetch \/ FetchServe \/ FetchDone \/ FetchFails \/ TestDone
           \/ EditURL \/ ToggleClear \/ (\E f \in FormFields : Edit(f)) \/ UNCHANGED dialogVars
  <2>1. /\ UNCHANGED <<open, put>>
        /\ form' = form \/ (Editing /\ UNCHANGED <<override, cache, get, testing>>)
    BY <1>1 DEF OtherPut, Fetch, FetchServe, FetchDone, FetchFails, TestDone, EditURL, ToggleClear,
                Edit, dialogVars
  <2> QED
    BY <2>1, QuietStep
<1>2. CASE OpenDialog \/ CloseDialog
  BY <1>2, OpenCloseStep
<1>3. CASE Save
  <2>1. open /\ \E thenTest \in BOOLEAN : Mutate(toPatch(form), FALSE, thenTest)
    BY <1>3 DEF Save, Editing
  <2> QED
    BY <2>1, MutateStep
<1>4. CASE ResetToEnv
  <2>1. open /\ Mutate(NoOverride, TRUE, FALSE)
    BY <1>4 DEF ResetToEnv
  <2> QED
    BY <2>1, MutateStep
<1>5. ASSUME NEW s \in Saves,
             PutServe(s) \/ PutDone(s) \/ PutRefused(s) \/ PutTimeout(s) \/ OrphanServe(s)
      PROVE  DialogInv' /\ WebhookStep /\ SentStep /\ TypedStep
  <2>1. IsSave(put[s])
    BY DEF DialogInv
  <2>2. CASE PutServe(s) /\ Validate(put[s].patch)
    <3> DEFINE x == [put[s] EXCEPT !.stage = "ok", !.reply = ViewOf(override')]
    <3>1. IsSave(x) /\ x.stage = "ok" /\ x.attached = put[s].attached
      <4>1. \A q, r : IsSave(q) => LET y == [q EXCEPT !.stage = "ok", !.reply = r]
                                  IN  IsSave(y) /\ y.stage = "ok" /\ y.attached = q.attached
        BY DEF IsSave, SaveFields
      <4> QED
        BY <2>1, <4>1, Zenon
    <3>2. OneSave(s, x)
      BY <2>2 DEF PutServe, OneSave
    <3>3. open' = open /\ form' = form
          /\ (override' = Merge(override, put[s].patch) \/ put[s].reset)
      BY <2>2 DEF PutServe
    <3> HIDE DEF x
    <3> QED
      BY <3>1, <3>2, <3>3, SaveStep
  <2>3. CASE PutServe(s) /\ ~Validate(put[s].patch)
    <3> DEFINE x == [put[s] EXCEPT !.stage = "refused"]
    <3>1. IsSave(x) /\ x.stage = "refused" /\ x.attached = put[s].attached
      BY <2>1 DEF IsSave, SaveFields
    <3>2. OneSave(s, x) /\ UNCHANGED <<open, form, override>>
      BY <2>3 DEF PutServe, OneSave
    <3> HIDE DEF x
    <3> QED
      BY <3>1, <3>2, SaveStep
  <2>4. CASE PutDone(s) \/ PutRefused(s)
    <3>1. OneSave(s, NoSave) /\ UNCHANGED <<open, override>>
          /\ (form' = form \/ (put[s].attached /\ put[s].stage = "ok"))
      BY <2>4 DEF PutDone, PutRefused, OneSave
    <3> QED
      BY <3>1, FreeIsSave, SaveStep
  <2>5. CASE PutTimeout(s)
    <3> DEFINE x == IF put[s].stage = "sent"
                    THEN [put[s] EXCEPT !.stage = "orphan", !.attached = FALSE] ELSE NoSave
    <3>1. IsSave(x) /\ x.stage # "sent" /\ x.attached = FALSE
      BY <2>1, FreeIsSave DEF IsSave, SaveFields
    <3>2. OneSave(s, x) /\ UNCHANGED <<open, form, override>>
      BY <2>5 DEF PutTimeout, OneSave
    <3> HIDE DEF x
    <3> QED
      BY <3>1, <3>2, SaveStep
  <2>6. CASE OrphanServe(s)
    <3>1. OneSave(s, NoSave) /\ UNCHANGED <<open, form>>
          /\ (override' = override \/ override' = Merge(override, put[s].patch) \/ put[s].reset)
      BY <2>6 DEF OrphanServe, OneSave
    <3> QED
      BY <3>1, FreeIsSave, SaveStep
  <2> QED
    BY <1>5, <2>2, <2>3, <2>4, <2>5, <2>6
<1> QED
  BY <1>1, <1>2, <1>3, <1>4, <1>5 DEF DialogNext

-----------------------------------------------------------------------------
(* The history *)

Stages == {"none", "sent", "served"}

PanelTypes == /\ onPage \in BOOLEAN
              /\ fired \in Nat /\ owed \in 0 .. fired
              /\ history \in [data : Nat \cup {NoHistory}, invalid : BOOLEAN, failed : BOOLEAN]
              /\ list \in [stage : Stages, brings : Nat \cup {NoHistory}]

\* The answer on its way has all that is owed; a history that is not invalid has it
\* too; and one that is on screen and at rest is not invalid.
PanelInv == /\ PanelTypes
            /\ ~onPage => list.stage = "none"
            /\ list.stage = "served" => list.brings # NoHistory /\ list.brings >= owed
            /\ history.data # NoHistory /\ ~history.invalid => history.data >= owed
            /\ onPage /\ list.stage = "none" /\ ~history.failed
                  => history.data # NoHistory /\ ~history.invalid

LEMMA PanelStart == PanelInit => PanelInv
<1> USE DEF Stages
<1> SUFFICES ASSUME PanelInit PROVE PanelInv
  OBVIOUS
<1>1. /\ onPage = TRUE /\ fired = 0 /\ owed = 0
      /\ history = [data |-> NoHistory, invalid |-> FALSE, failed |-> FALSE]
      /\ list = [stage |-> "sent", brings |-> NoHistory]
  BY DEF PanelInit, Listing
<1>2. PanelTypes
  BY <1>1 DEF PanelTypes
<1> QED
  BY <1>1, <1>2 DEF PanelInv

\* The history is refreshed, and the alerts so far are owed unless a first fetch is
\* under way.
LEMMA RefreshStep ==
    ASSUME PanelInv, Invalidate, UNCHANGED <<onPage, fired>>,
           owed' = IF history.data = NoHistory THEN owed ELSE fired
    PROVE  PanelInv'
<1> USE DEF Stages
<1>1. /\ history' \in [data : Nat \cup {NoHistory}, invalid : BOOLEAN, failed : BOOLEAN]
      /\ history'.data = history.data /\ history'.invalid /\ history'.failed = history.failed
  BY DEF Invalidate, PanelInv, PanelTypes
<1>2. owed' \in 0 .. fired
  BY DEF PanelInv, PanelTypes
<1>3. Listing \in [stage : Stages, brings : Nat \cup {NoHistory}] /\ Listing.stage = "sent"
  BY DEF Listing
<1>4. CASE onPage /\ (history.data # NoHistory \/ list.stage = "none")
  <2>1. list' = Listing
    BY <1>4 DEF Invalidate
  <2> QED
    BY <1>1, <1>2, <1>3, <1>4, <2>1 DEF PanelInv, PanelTypes
<1>5. CASE ~onPage
  <2>1. list' = list
    BY <1>5 DEF Invalidate
  <2> QED
    BY <1>1, <1>2, <1>5, <2>1 DEF PanelInv, PanelTypes
<1>6. CASE onPage /\ history.data = NoHistory /\ list.stage # "none"
  <2>1. list' = list /\ owed' = owed
    BY <1>6 DEF Invalidate
  <2> QED
    BY <1>1, <1>2, <1>6, <2>1 DEF PanelInv, PanelTypes
<1> QED
  BY <1>4, <1>5, <1>6

LEMMA PanelKeepsItsInvariant == PanelInv /\ [PageNext]_<<dialogVars, panelVars>> => PanelInv'
<1> USE DEF Stages
<1> SUFFICES ASSUME PanelInv, [PageNext]_<<dialogVars, panelVars>> PROVE PanelInv'
  OBVIOUS
<1>0. PanelTypes
  BY DEF PanelInv
<1>1. CASE Enter
  <2>1. /\ onPage' = TRUE /\ UNCHANGED <<fired, history, owed>>
        /\ \/ list' = Listing
           \/ list' = NoListing /\ history.data # NoHistory /\ ~history.invalid
    BY <1>1 DEF Enter
  <2> QED
    BY <2>1 DEF PanelInv, PanelTypes, Listing, NoListing
<1>2. CASE LeavePage
  BY <1>2 DEF LeavePage, PanelInv, PanelTypes, NoListing
<1>3. CASE PollHistory
  BY <1>3 DEF PollHistory, PanelInv, PanelTypes, Listing
<1>4. CASE ListServe
  <2>1. /\ list' = [stage |-> "served", brings |-> fired]
        /\ UNCHANGED <<onPage, fired, history, owed>> /\ list.stage = "sent"
    BY <1>4 DEF ListServe
  <2>2. fired \in Nat /\ fired >= owed /\ fired # NoHistory
    BY PanelAssumption DEF PanelInv, PanelTypes
  <2> QED
    BY <2>1, <2>2 DEF PanelInv, PanelTypes
<1>5. CASE ListDone
  BY <1>5 DEF ListDone, PanelInv, PanelTypes, NoListing
<1>6. CASE ListFails
  <2>1. /\ history' \in [data : Nat \cup {NoHistory}, invalid : BOOLEAN, failed : BOOLEAN]
        /\ history'.data = history.data /\ history'.invalid = history.invalid /\ history'.failed
    BY <1>0, <1>6 DEF ListFails, PanelTypes
  <2> QED
    BY <1>6, <2>1 DEF ListFails, PanelInv, PanelTypes, NoListing
<1>7. CASE OthersFire \/ FireTest \/ \E t \in Tests : TestServe(t) \/ TestFails(t)
  <2>1. UNCHANGED <<onPage, history, list, owed>> /\ (fired' = fired \/ fired' = fired + 1)
    BY <1>7 DEF OthersFire, FireTest, TestServe, TestFails
  <2> QED
    BY <2>1 DEF PanelInv, PanelTypes
<1>8. ASSUME NEW t \in Tests, TestAnswered(t) PROVE PanelInv'
  BY <1>8, RefreshStep DEF TestAnswered
<1>9. CASE DialogStep
  <2>1. CASE UNCHANGED panelVars
    BY <2>1 DEF panelVars, PanelInv, PanelTypes
  <2>2. CASE ~UNCHANGED panelVars
    BY <1>9, <2>2, RefreshStep DEF DialogStep
  <2> QED
    BY <2>1, <2>2
<1>10. CASE UNCHANGED <<dialogVars, panelVars>>
  BY <1>10 DEF panelVars, PanelInv, PanelTypes
<1> QED
  BY <1>1, <1>2, <1>3, <1>4, <1>5, <1>6, <1>7, <1>8, <1>9, <1>10 DEF PageNext, PanelStep

\* Once a test has been answered, a history on screen and at rest has it, however
\* often the panel was left and entered and whatever was on its way
\* (useAlerts.ts:74), for any number of alerts and tests.
THEOREM TestsAreListed == PageSpec => []TestIsListed
<1>1. PageInit => PanelInv
  BY PanelStart DEF PageInit
<1>2. PanelInv /\ [PageNext]_<<dialogVars, panelVars>> => PanelInv'
  BY PanelKeepsItsInvariant
<1>3. PanelInv => TestIsListed
  BY DEF PanelInv, PanelTypes, TestIsListed
<1> QED
  BY <1>1, <1>2, <1>3, PTL DEF PageSpec

-----------------------------------------------------------------------------
(* The dialog on the page *)

LEMMA PageStepsAreDialogSteps ==
    [PageNext]_<<dialogVars, panelVars>> => [DialogNext]_dialogVars
  BY DEF PageNext, DialogStep

\* "Leave the field empty to keep it" (locales/en.json:191): a save that neither typed
\* nor removed the webhook leaves it as it is on the server, whatever the other
\* operators save and whenever the server gets to it.
THEOREM WebhookStaysUntouched == PageSpec => WebhookUntouched
<1>1. PageInit => DialogInv
  BY DialogStart DEF PageInit
<1>2. DialogInv /\ [PageNext]_<<dialogVars, panelVars>> => DialogInv' /\ [WebhookStep /\ SentStep]_dialogVars
  BY PageStepsAreDialogSteps, DialogStepFacts
<1> QED
  BY <1>1, <1>2, PTL DEF PageSpec, WebhookUntouched

\* The form changes when it is edited, opened or closed and when the answer of its
\* own save comes, never by a background fetch or by an answer for an earlier
\* dialog (AlertSettingsDialog.tsx:105-113).
THEOREM WhatIsTypedSurvives == PageSpec => TypedSurvives
<1>1. PageInit => DialogInv
  BY DialogStart DEF PageInit
<1>2. DialogInv /\ [PageNext]_<<dialogVars, panelVars>> => DialogInv' /\ [TypedStep]_dialogVars
  BY PageStepsAreDialogSteps, DialogStepFacts
<1> QED
  BY <1>1, <1>2, PTL DEF PageSpec, TypedSurvives
=============================================================================
