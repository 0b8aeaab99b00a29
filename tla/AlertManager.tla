---------------------------- MODULE AlertManager ----------------------------
(***************************************************************************)
(* The alert Manager (backend/internal/alert/manager.go): cooldown per     *)
(* alert key, the bounded in-memory history, the replaceable webhook and   *)
(* the delivery loop that runs outside the mutex.                          *)
(*                                                                         *)
(* Dispatchers are the goroutines that call Dispatch (the poller), Testers *)
(* the HTTP handlers of POST /alerts/test, and SetWebhook / SetCooldown    *)
(* come from the settings handlers.  Every step between two acquisitions   *)
(* of mu, and every Send, is an action of its own.                         *)
(***************************************************************************)
EXTENDS Naturals, Sequences

CONSTANTS Dispatchers,     \* goroutines that call Dispatch
          Testers,         \* goroutines that call Test
          Keys,            \* keys of the real alerts
          Webhooks,        \* webhook notifiers that may be installed
          Log,             \* the permanent log notifier
          NoWebhook,       \* the nil webhook
          Free,            \* nobody holds mu
          TestKey,         \* the key of the synthetic test alert
          Cooldowns,       \* windows SetCooldown is called with
          RecentCapacity,  \* recentCapacity of manager.go (100)
          MaxClock,        \* bound: last instant of the clock
          MaxAlerts        \* bound: alerts accepted in one behaviour

Goroutines == Dispatchers \cup Testers

ASSUME ManagerAssumption ==
    /\ RecentCapacity \in Nat \ {0}
    /\ MaxClock \in Nat
    /\ MaxAlerts \in Nat
    /\ Cooldowns \subseteq Nat
    /\ Cooldowns # {}
    /\ TestKey \notin Keys
    /\ Free \notin Goroutines
    /\ Log \notin Webhooks
    /\ NoWebhook \notin Webhooks
    /\ Dispatchers \cap Testers = {}

VARIABLES clock,         \* what m.now() returns
          mu,            \* the goroutine inside the critical section, or Free
          cooldown,      \* Manager.cooldown
          webhook,       \* Manager.webhook
          lastFired,     \* Manager.lastFired: set of instants per key, at most one
          recent,        \* Manager.recent
          pc,            \* where each goroutine is
          alert,         \* the goroutine's local alert
          notifiers,     \* the goroutine's local snapshot of the channels
          results,       \* outcome of each Send so far, in order
          accepted,      \* history variable: alerts remembered so far
          switchedAt     \* history variable: accepted when SetWebhook last ran

vars == <<clock, mu, cooldown, webhook, lastFired, recent,
          pc, alert, notifiers, results, accepted, switchedAt>>

manager == <<cooldown, webhook, lastFired, recent>>
locals  == <<pc, alert, notifiers, results>>

-----------------------------------------------------------------------------
(* Data *)

Alerts == [key: Keys \cup {TestKey}, firedAt: Nat, seq: Nat]

Notifiers == Webhooks \cup {Log}

\* channels(): the permanent notifiers, then the webhook when there is one.
channels == IF webhook = NoWebhook THEN <<Log>> ELSE <<Log, webhook>>

\* Mutants of remember: the newest is dropped when the history is full; the
\* alert goes to the wrong end.
rememberDropNewest(a) == IF Len(recent) < RecentCapacity THEN <<a>> \o recent ELSE recent
rememberAppend(a) == IF Len(recent) < RecentCapacity THEN Append(recent, a)
                     ELSE Append(Tail(recent), a)

\* remember(): prepend, then cut to the capacity.
remember(a) == [i \in 1..(IF Len(recent) < RecentCapacity
                          THEN Len(recent) + 1 ELSE RecentCapacity) |->
                  IF i = 1 THEN a ELSE recent[i - 1]]

\* The outcomes a notifier's Send can have: the log notifier never fails, a
\* webhook fails on a transport error, its timeout or a status that is not 2xx.
Outcomes(n) == IF n = Log THEN {"ok"} ELSE {"ok", "err"}

\* The key fired, and less than the cooldown ago.
InCooldown(k) == \E last \in lastFired[k] : clock - last < cooldown

-----------------------------------------------------------------------------
(* Actions *)

\* NewManager, and the Register(log notifier) that main.go makes before any
\* goroutine runs (its channel is the head of channels).
Init == /\ clock = 0
        /\ mu = Free
        /\ cooldown \in Cooldowns
        /\ webhook = NoWebhook
        /\ lastFired = [k \in Keys |-> {}]
        /\ recent = << >>
        /\ pc = [g \in Goroutines |-> "idle"]
        /\ alert = [g \in Goroutines |-> [key |-> TestKey, firedAt |-> 0, seq |-> 0]]
        /\ notifiers = [g \in Goroutines |-> << >>]
        /\ results = [g \in Goroutines |-> << >>]
        /\ accepted = 0
        /\ switchedAt = 0

Tick == /\ clock < MaxClock
        /\ clock' = clock + 1
        /\ UNCHANGED <<mu, manager, locals, accepted, switchedAt>>

\* Dispatch, first half: lock, then the cooldown test.  Suppressed: unlock and
\* return false, nothing has changed.
DispatchSuppressed(g, k) ==
    /\ pc[g] = "idle"
    /\ mu = Free
    /\ InCooldown(k)
    /\ UNCHANGED vars

\* Mutant: mu is released between the test and the record.
DispatchCheckUnlocked(g, k) ==
    /\ pc[g] = "idle"
    /\ mu = Free
    /\ accepted < MaxAlerts
    /\ ~InCooldown(k)
    /\ pc' = [pc EXCEPT ![g] = "record"]
    /\ alert' = [alert EXCEPT ![g] = [key |-> k, firedAt |-> clock, seq |-> 0]]
    /\ UNCHANGED <<clock, mu, manager, notifiers, results, accepted, switchedAt>>

\* Not suppressed: mu stays held until the alert is recorded.
DispatchCheck(g, k) ==
    /\ pc[g] = "idle"
    /\ mu = Free
    /\ accepted < MaxAlerts
    /\ ~InCooldown(k)
    /\ mu' = g
    /\ pc' = [pc EXCEPT ![g] = "record"]
    /\ alert' = [alert EXCEPT ![g] = [key |-> k, firedAt |-> clock, seq |-> 0]]
    /\ UNCHANGED <<clock, manager, notifiers, results, accepted, switchedAt>>

\* Dispatch, second half of the critical section: the clock is read again for
\* FiredAt, then lastFired, remember, channels, unlock.
DispatchRecord(g) ==
    /\ pc[g] = "record"
    /\ LET a == [key |-> alert[g].key, firedAt |-> clock, seq |-> accepted + 1]
       IN /\ alert' = [alert EXCEPT ![g] = a]
          /\ lastFired' = [lastFired EXCEPT ![a.key] = {clock}]
          /\ recent' = remember(a)
    /\ notifiers' = [notifiers EXCEPT ![g] = channels]
    /\ results' = [results EXCEPT ![g] = << >>]
    /\ accepted' = accepted + 1
    /\ mu' = Free
    /\ pc' = [pc EXCEPT ![g] = "deliver"]
    /\ UNCHANGED <<clock, cooldown, webhook, switchedAt>>

\* Test, before the lock: the synthetic alert takes its FiredAt here.
TestStamp(g) ==
    /\ pc[g] = "idle"
    /\ accepted < MaxAlerts
    /\ alert' = [alert EXCEPT ![g] = [key |-> TestKey, firedAt |-> clock, seq |-> 0]]
    /\ pc' = [pc EXCEPT ![g] = "stamped"]
    /\ UNCHANGED <<clock, mu, manager, notifiers, results, accepted, switchedAt>>

\* Mutant: the channel list of an earlier test is reused.
TestRecordCached(g) ==
    /\ pc[g] = "stamped"
    /\ mu = Free
    /\ LET a == [alert[g] EXCEPT !.seq = accepted + 1]
       IN /\ alert' = [alert EXCEPT ![g] = a]
          /\ recent' = remember(a)
    /\ notifiers' = [notifiers EXCEPT ![g] = IF @ = << >> THEN channels ELSE @]
    /\ results' = [results EXCEPT ![g] = << >>]
    /\ accepted' = accepted + 1
    /\ pc' = [pc EXCEPT ![g] = "deliver"]
    /\ UNCHANGED <<clock, mu, cooldown, webhook, lastFired, switchedAt>>

\* Test, inside the lock: remember and channels; lastFired is not touched.
TestRecord(g) ==
    /\ pc[g] = "stamped"
    /\ mu = Free
    /\ LET a == [alert[g] EXCEPT !.seq = accepted + 1]
       IN /\ alert' = [alert EXCEPT ![g] = a]
          /\ recent' = remember(a)
    /\ notifiers' = [notifiers EXCEPT ![g] = channels]
    /\ results' = [results EXCEPT ![g] = << >>]
    /\ accepted' = accepted + 1
    /\ pc' = [pc EXCEPT ![g] = "deliver"]
    /\ UNCHANGED <<clock, mu, cooldown, webhook, lastFired, switchedAt>>

\* Mutant: an alert that a channel did not take is made to fire again.
SendUndoes(g) ==
    /\ pc[g] = "deliver"
    /\ Len(results[g]) < Len(notifiers[g])
    /\ \E r \in Outcomes(notifiers[g][Len(results[g]) + 1]) :
          /\ results' = [results EXCEPT ![g] = Append(@, r)]
          /\ lastFired' = [k \in Keys |-> IF r = "err" /\ k = alert[g].key THEN {} ELSE lastFired[k]]
    /\ UNCHANGED <<clock, mu, cooldown, webhook, recent, pc, alert, notifiers, accepted, switchedAt>>

\* One iteration of deliver(), or of the loop in Test: an error is kept (Test)
\* or logged (deliver) and the loop goes on.
Send(g) ==
    /\ pc[g] = "deliver"
    /\ Len(results[g]) < Len(notifiers[g])
    /\ \E r \in Outcomes(notifiers[g][Len(results[g]) + 1]) :
          results' = [results EXCEPT ![g] = Append(@, r)]
    /\ UNCHANGED <<clock, mu, manager, pc, alert, notifiers, accepted, switchedAt>>

\* The loop is over: Dispatch or Test returns.
Return(g) ==
    /\ pc[g] = "deliver"
    /\ Len(results[g]) = Len(notifiers[g])
    /\ pc' = [pc EXCEPT ![g] = "idle"]
    /\ UNCHANGED <<clock, mu, manager, alert, notifiers, results, accepted, switchedAt>>

SetWebhook(w) ==
    /\ mu = Free
    /\ webhook' = w
    /\ switchedAt' = accepted
    /\ UNCHANGED <<clock, mu, cooldown, lastFired, recent, locals, accepted>>

SetCooldown(c) ==
    /\ mu = Free
    /\ cooldown' = c
    /\ UNCHANGED <<clock, mu, webhook, lastFired, recent, locals, accepted, switchedAt>>

Dispatch(g) == \/ \E k \in Keys : DispatchSuppressed(g, k) \/ DispatchCheck(g, k)
               \/ DispatchRecord(g)

Test(g) == TestStamp(g) \/ TestRecord(g)

Next == \/ Tick
        \/ \E g \in Dispatchers : Dispatch(g)
        \/ \E g \in Testers : Test(g)
        \/ \E g \in Goroutines : Send(g) \/ Return(g)
        \/ \E w \in Webhooks \cup {NoWebhook} : SetWebhook(w)
        \/ \E c \in Cooldowns : SetCooldown(c)

Spec == Init /\ [][Next]_vars

-----------------------------------------------------------------------------
(* Properties *)

\* Every variable has its type; the history never exceeds its capacity
\* (remember, manager.go:136).
TypeOK ==
    /\ clock \in Nat
    /\ mu \in Goroutines \cup {Free}
    /\ cooldown \in Nat
    /\ webhook \in Webhooks \cup {NoWebhook}
    /\ lastFired \in [Keys -> SUBSET Nat]
    /\ recent \in Seq(Alerts)
    /\ Len(recent) <= RecentCapacity
    /\ pc \in [Goroutines -> {"idle", "record", "stamped", "deliver"}]
    /\ alert \in [Goroutines -> Alerts]
    /\ notifiers \in [Goroutines -> Seq(Notifiers)]
    /\ results \in [Goroutines -> Seq({"ok", "err"})]
    /\ accepted \in Nat
    /\ switchedAt \in Nat

\* Dispatch (manager.go:81): a key fires again only when the cooldown in force
\* has passed since it last fired, even when SetCooldown changes the window or
\* the clock moves while a Dispatch is between its test and its record.
RefireStep == \A k \in Keys : lastFired'[k] # lastFired[k] =>
                 \A last \in lastFired[k] : \A t \in lastFired'[k] : t - last >= cooldown

CooldownRespected == [][RefireStep]_vars

\* Dispatch (manager.go:82-91): a goroutine that passed the cooldown test and
\* has not recorded its alert yet holds mu, and what it tested is still true,
\* whatever the clock, the settings handlers and the other goroutines did.
CheckStillValid ==
    \A g \in Goroutines : pc[g] = "record" =>
       /\ mu = g
       /\ alert[g].key \in Keys
       /\ ~InCooldown(alert[g].key)

\* remember (manager.go:136) against lastFired (manager.go:88): the first
\* entry of a key in the history is its last firing, and until the history is
\* full every key that fired has an entry.
HistoryTracksFirings ==
    \A k \in Keys :
       LET entries == {i \in 1..Len(recent) : recent[i].key = k}
       IN /\ \A i \in entries : (\A j \in entries : i <= j)
                                   => lastFired[k] = {recent[i].firedAt}
          /\ (lastFired[k] # {} /\ Len(recent) < RecentCapacity) => entries # {}

\* The history is in order of acceptance, the last accepted alert first, and
\* only the oldest are dropped (remember, manager.go:136).
HistoryInOrderOfAcceptance ==
    \A i \in 1..Len(recent) : recent[i].seq = accepted + 1 - i

\* Among the alerts that came through Dispatch, whose FiredAt is taken under
\* the lock, the history is newest first (manager.go:29, 87-89, 126).  Those of
\* Test are left out: they take their FiredAt before the lock (manager.go:107),
\* and one that then waits for it ends up in front of newer ones.
DispatchedNewestFirst ==
    \A i, j \in 1..Len(recent) :
       (i < j /\ recent[i].key # TestKey /\ recent[j].key # TestKey)
          => recent[i].firedAt >= recent[j].firedAt

\* "Notifier failures are logged, never propagated" (manager.go:79): whatever the
\* channels answer, and whatever the other goroutines record meanwhile, an alert that
\* Dispatch or Test accepted is in the history, at the place its acceptance gave it,
\* until RecentCapacity newer ones have pushed it out; and its key counts as fired
\* since, so that a channel that fails neither hides an alert nor makes it fire again
\* at the next tick.  An alert has a seq from its record to its goroutine's next one.
RecordOutlivesDelivery ==
    \A g \in Goroutines : alert[g].seq > 0 =>
       /\ LET i == accepted + 1 - alert[g].seq
          IN  i <= RecentCapacity => i \in 1..Len(recent) /\ recent[i] = alert[g]
       /\ alert[g].key \in Keys => \E t \in lastFired[alert[g].key] : t >= alert[g].firedAt

\* SetWebhook (manager.go:54) takes effect for every alert accepted after it:
\* only an alert accepted before the switch can still be on its way to the
\* replaced or removed webhook.
SwitchTakesEffect ==
    \A g \in Goroutines :
       (pc[g] = "deliver" /\ alert[g].seq > switchedAt) => notifiers[g] = channels
=============================================================================
