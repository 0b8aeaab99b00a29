------------------------ MODULE AlertConfigApplyProofs ------------------------
(***************************************************************************)
(* What a PUT of the alert configuration leaves behind, for any handlers,  *)
(* patches and field values.  However PUTs overlap, each reads the         *)
(* settings after its own update, so what it gives the components is no    *)
(* older than the first of them.  As long as no PUT began since a PUT that *)
(* found no handler busy, nobody else touches the components, and what     *)
(* that PUT has applied so far is what is in effect.                       *)
(***************************************************************************)
EXTENDS AlertConfigApply, TLAPS

Places == {"idle", "effective", "cooldown", "webhook", "loadPolicy", "clusterPolicy",
           "view", "overridden"}

ComponentNames == {"cooldown", "webhook", "loadPolicy", "clusterPolicy"}

\* Handlers that apply a configuration, and those that show or have shown one.
Applying == {"cooldown", "webhook", "loadPolicy", "clusterPolicy"}
Showing == {"idle", "view", "overridden"}

Shapes == /\ pc \in [Handlers -> Places]
          /\ live = [c \in ComponentNames |-> live[c]]
          /\ conf = [h \in Handlers |-> conf[h]] /\ view = [h \in Handlers |-> view[h]]
          /\ alone \in [Writers -> BOOLEAN]

\* A configuration is a function of the components' names.
LEMMA ComponentsOf ==
    ASSUME NEW c PROVE /\ Components(c) = [n \in ComponentNames |-> Components(c)[n]]
                       /\ DOMAIN Components(c) = ComponentNames
  BY DEF Components, ComponentNames

LEMMA ShapesStart == Init => Shapes
<1> SUFFICES ASSUME Init PROVE Shapes
  OBVIOUS
<1>1. /\ live = Components(Effective(override))
      /\ pc = [h \in Handlers |-> "idle"] /\ alone = [w \in Writers |-> FALSE]
      /\ conf = [h \in Handlers |-> defaults] /\ view = [h \in Handlers |-> NoView]
  BY DEF Init
<1> QED
  BY <1>1, ComponentsOf DEF Shapes, Places

-----------------------------------------------------------------------------
(* PUTs that overlap *)

FreshConf(c) == \E o \in fresh : c = Effective(o)
Fresh(n) == \E o \in fresh : live[n] = Components(Effective(o))[n]

\* What a handler still has to apply is fresh, and so is what it has applied; when
\* nobody has anything left to apply, everything is.
FreshInv ==
    /\ Shapes
    /\ override \in fresh
    /\ \A w \in Writers :
          /\ pc[w] \in Applying => FreshConf(conf[w])
          /\ pc[w] \in Applying \ {"cooldown"} => Fresh("cooldown")
          /\ pc[w] \in {"loadPolicy", "clusterPolicy"} => Fresh("webhook")
          /\ pc[w] = "clusterPolicy" => Fresh("loadPolicy")
    /\ Unapplied = {} => \A n \in ComponentNames : Fresh(n)

LEMMA FreshStart == Init => FreshInv
<1> SUFFICES ASSUME Init PROVE FreshInv
  OBVIOUS
<1>1. /\ fresh = {override} /\ live = Components(Effective(override))
      /\ \A w \in Writers : pc[w] = "idle"
  BY DEF Init, Handlers
<1> QED
  BY <1>1, ShapesStart DEF FreshInv, Fresh, Applying

\* Handlers that have something to apply have no other places than these.
LEMMA UnappliedPlaces == Unapplied = {w \in Writers : pc[w] \in Applying \cup {"effective"}}
  BY DEF Unapplied, Applying

\* A step that applies nothing: nothing that is fresh gets lost, and a configuration
\* that is to be applied has just been read.
LEMMA QuietFreshStep ==
    ASSUME FreshInv, Shapes', live' = live, fresh' = fresh, override' = override,
           \A w \in Writers :
              \/ pc'[w] = pc[w] /\ conf'[w] = conf[w]
              \/ pc'[w] = "cooldown" /\ pc[w] = "effective" /\ conf'[w] = Effective(override)
              \/ pc'[w] \in Showing /\ pc[w] \in Showing
    PROVE  FreshInv'
<1> USE DEF Applying, Showing
<1>1. ASSUME NEW w \in Writers
      PROVE  /\ pc'[w] \in Applying => FreshConf(conf[w])'
             /\ pc'[w] \in Applying \ {"cooldown"} => pc[w] = pc'[w]
             /\ w \in Unapplied => w \in Unapplied'
  BY <1>1, UnappliedPlaces DEF FreshInv, FreshConf, Unapplied
<1>2. \A n : Fresh(n) => Fresh(n)'
  BY DEF Fresh
<1>3. Unapplied' = {} => Unapplied = {}
  BY <1>1 DEF Unapplied
<1> QED
  BY <1>1, <1>2, <1>3 DEF FreshInv

\* One component is given its part of a fresh configuration; after the last one, all
\* of them are fresh.
LEMMA ApplyFreshStep ==
    ASSUME FreshInv, NEW w \in Writers, NEW c \in ComponentNames, NEW n \in Places,
           Apply(w, c, n),
           <<pc[w], c, n>> \in {<<"cooldown", "cooldown", "webhook">>,
                                <<"webhook", "webhook", "loadPolicy">>,
                                <<"loadPolicy", "loadPolicy", "clusterPolicy">>,
                                <<"clusterPolicy", "clusterPolicy", "view">>}
    PROVE  FreshInv'
<1> USE DEF Applying
<1>1. /\ live' = [live EXCEPT ![c] = Components(conf[w])[c]]
      /\ pc' = [pc EXCEPT ![w] = n]
      /\ UNCHANGED <<override, conf, view, fresh, alone>>
  BY DEF Apply
<1>2. PICK o \in fresh : conf[w] = Effective(o)
  BY DEF FreshInv, FreshConf
<1>3. Shapes'
  BY <1>1 DEF FreshInv, Shapes, Handlers
<1>4. /\ pc'[w] = n /\ \A v \in Writers \ {w} : pc'[v] = pc[v]
      /\ live'[c] = Components(conf[w])[c]
      /\ \A d \in ComponentNames \ {c} : live'[d] = live[d]
  BY <1>1 DEF FreshInv, Shapes, Handlers
<1>5. Fresh(c)' /\ \A d \in ComponentNames \ {c} : Fresh(d) => Fresh(d)'
  BY <1>1, <1>2, <1>4 DEF Fresh
<1>6. ASSUME NEW v \in Writers
      PROVE  /\ pc'[v] \in Applying => FreshConf(conf[v])'
             /\ pc'[v] \in Applying \ {"cooldown"} => Fresh("cooldown")'
             /\ pc'[v] \in {"loadPolicy", "clusterPolicy"} => Fresh("webhook")'
             /\ pc'[v] = "clusterPolicy" => Fresh("loadPolicy")'
  <2>1. FreshConf(conf[v]) => FreshConf(conf[v])'
    BY <1>1 DEF FreshConf
  <2>2. pc'[v] \in Applying => pc[v] \in Applying
    BY <1>4
  <2> QED
    BY <1>4, <1>5, <2>1, <2>2 DEF FreshInv, ComponentNames
<1>7. Unapplied' = {} => \A d \in ComponentNames : Fresh(d)'
  <2> HAVE Unapplied' = {}
  <2>1. pc[w] = "clusterPolicy" /\ c = "clusterPolicy"
    BY <1>4 DEF Unapplied
  <2> QED
    BY <1>5, <2>1 DEF FreshInv, ComponentNames
<1> QED
  BY <1>1, <1>3, <1>6, <1>7 DEF FreshInv

LEMMA FreshStep == FreshInv /\ [Next]_vars => FreshInv'
<1> USE DEF Applying, Showing
<1> SUFFICES ASSUME FreshInv, [Next]_vars PROVE FreshInv'
  OBVIOUS
<1>0. Shapes
  BY DEF FreshInv
<1>1. ASSUME NEW w \in Writers, NEW p \in Patches, NEW r \in BOOLEAN, PutUpdate(w, p, r)
      PROVE  FreshInv'
  <2>1. /\ fresh' = {override'} \cup (IF Unapplied = {} THEN {} ELSE fresh)
        /\ pc' = [pc EXCEPT ![w] = "effective"]
        /\ UNCHANGED <<live, conf, view>> /\ alone' = [v \in Writers |-> v = w /\ InFlight = {}]
    BY <1>1 DEF PutUpdate
  <2>2. Shapes'
    BY <1>0, <2>1 DEF Shapes, Places
  <2>3. pc'[w] = "effective" /\ \A v \in Writers \ {w} : pc'[v] = pc[v]
    BY <1>0, <2>1 DEF Shapes, Handlers
  <2>4. ASSUME NEW v \in Writers, pc'[v] \in Applying
        PROVE  pc[v] = pc'[v] /\ fresh \subseteq fresh'
    <3>1. v # w /\ pc[v] = pc'[v]
      BY <2>3, <2>4
    <3>2. v \in Unapplied
      BY <2>4, <3>1 DEF Unapplied
    <3> QED
      BY <2>1, <3>1, <3>2
  <2>5. ASSUME NEW v \in Writers
        PROVE  /\ pc'[v] \in Applying => FreshConf(conf[v])'
               /\ pc'[v] \in Applying \ {"cooldown"} => Fresh("cooldown")'
               /\ pc'[v] \in {"loadPolicy", "clusterPolicy"} => Fresh("webhook")'
               /\ pc'[v] = "clusterPolicy" => Fresh("loadPolicy")'
    <3>1. fresh \subseteq fresh' => (\A c : FreshConf(c) => \E o \in fresh' : c = Effective(o))
                                    /\ \A n : Fresh(n) => Fresh(n)'
      BY <2>1 DEF FreshConf, Fresh
    <3> QED
      BY <2>1, <2>4, <3>1 DEF FreshInv, FreshConf
  <2>6. w \in Unapplied'
    BY <2>3 DEF Unapplied
  <2> QED
    BY <2>1, <2>2, <2>5, <2>6 DEF FreshInv
<1>2. ASSUME NEW w \in Writers, PutEffective(w) PROVE FreshInv'
  <2>1. /\ conf' = [conf EXCEPT ![w] = Effective(override)] /\ pc' = [pc EXCEPT ![w] = "cooldown"]
        /\ UNCHANGED <<override, live, view, fresh, alone>> /\ pc[w] = "effective"
    BY <1>2 DEF PutEffective
  <2>2. Shapes'
    BY <1>0, <2>1 DEF Shapes, Places
  <2>3. \A v \in Writers : \/ pc'[v] = pc[v] /\ conf'[v] = conf[v]
                           \/ /\ pc'[v] = "cooldown" /\ pc[v] = "effective"
                              /\ conf'[v] = Effective(override)
    BY <1>0, <2>1 DEF Shapes, Handlers
  <2> QED
    BY <2>1, <2>2, <2>3, QuietFreshStep
<1>3. ASSUME NEW w \in Writers, ApplyCooldown(w) PROVE FreshInv'
  BY <1>3, ApplyFreshStep DEF ApplyCooldown, ComponentNames, Places
<1>4. ASSUME NEW w \in Writers, ApplyWebhook(w) PROVE FreshInv'
  BY <1>4, ApplyFreshStep DEF ApplyWebhook, ComponentNames, Places
<1>5. ASSUME NEW w \in Writers, ApplyLoadPolicy(w) PROVE FreshInv'
  BY <1>5, ApplyFreshStep DEF ApplyLoadPolicy, ComponentNames, Places
<1>6. ASSUME NEW w \in Writers, ApplyClusterPolicy(w) PROVE FreshInv'
  BY <1>6, ApplyFreshStep DEF ApplyClusterPolicy, ComponentNames, Places
<1>7. ASSUME NEW h \in Handlers, View(h) \/ Get(h) PROVE FreshInv'
  <2>1. /\ UNCHANGED <<override, live, fresh, alone>> /\ pc[h] \in Showing
        /\ \E n \in Showing : pc' = [pc EXCEPT ![h] = n]
        /\ \E c : conf' = [conf EXCEPT ![h] = c]
        /\ \E v : view' = [view EXCEPT ![h] = v]
    <3>1. CASE Get(h)
      <4>1. conf' = [conf EXCEPT ![h] = conf[h]] /\ view' = [view EXCEPT ![h] = view[h]]
        BY <1>0, <3>1 DEF Get, Shapes
      <4> QED
        BY <3>1, <4>1 DEF Get
    <3>2. CASE ViewEffective(h)
      <4>1. view' = [view EXCEPT ![h] = view[h]]
        BY <1>0, <3>2 DEF ViewEffective, Shapes
      <4> QED
        BY <3>2, <4>1 DEF ViewEffective
    <3>3. CASE ViewOverridden(h)
      BY <3>3 DEF ViewOverridden
    <3> QED
      BY <1>7, <3>1, <3>2, <3>3 DEF View
  <2>2. Shapes'
    BY <1>0, <2>1 DEF Shapes, Places
  <2>3. \A v \in Writers : \/ pc'[v] = pc[v] /\ conf'[v] = conf[v]
                           \/ pc'[v] \in Showing /\ pc[v] \in Showing
    BY <1>0, <2>1 DEF Shapes, Handlers
  <2> HIDE DEF Applying, Showing
  <2> QED
    BY <2>1, <2>2, <2>3, QuietFreshStep
<1>8. CASE UNCHANGED vars
  <2>1. Shapes'
    BY <1>0, <1>8 DEF vars, Shapes
  <2> QED
    BY <1>8, <2>1, QuietFreshStep DEF vars
<1> QED
  BY <1>1, <1>2, <1>3, <1>4, <1>5, <1>6, <1>7, <1>8
     DEF Next, Put, View, PutRefused, PutPersistFailed, Handlers

\* However PUTs overlap, once all of them have applied nothing older than the first of
\* them is live (alertconfig.go:126, main.go:99-117), for any number of handlers and
\* any patches.
THEOREM NothingOlderIsLeft == Spec => []OverlapLeavesNothingOlder
<1>1. FreshInv => OverlapLeavesNothingOlder
  BY DEF FreshInv, Shapes, Fresh, OverlapLeavesNothingOlder
<1> QED
  BY <1>1, FreshStart, FreshStep, PTL DEF Spec

-----------------------------------------------------------------------------
(* A PUT that nobody overlaps *)

\* What the response says of an override.
ViewOf(o) == [config |-> Shown(Effective(o)), overridden |-> Overridden(o)]

InForce(c) == live[c] = Components(Effective(override))[c]

\* Nobody else applies anything; what w applies is in effect, and so is what it has
\* applied so far and what it shows.
Alone(w) ==
    /\ \A v \in Writers \ {w} : pc[v] \in Showing
    /\ pc[w] \in Applying \cup {"overridden"} => conf[w] = Effective(override)
    /\ pc[w] \notin {"effective", "cooldown"} => InForce("cooldown")
    /\ pc[w] \notin {"effective", "cooldown", "webhook"} => InForce("webhook")
    /\ pc[w] \in Showing \cup {"clusterPolicy"} => InForce("loadPolicy")
    /\ pc[w] \in Showing => InForce("clusterPolicy")
    /\ pc[w] = "idle" => view[w] = ViewOf(override)

AloneInv == /\ Shapes
            /\ \A w \in Writers : alone[w] => Alone(w)

LEMMA AloneStart == Init => AloneInv
  BY ShapesStart DEF Init, AloneInv

\* A step of a handler that shows: it moves on, with an effective configuration.
LEMMA ShowStep ==
    ASSUME AloneInv, NEW h \in Handlers, NEW c, NEW n, NEW v,
           pc[h] \in Showing, n \in Showing,
           UNCHANGED <<override, live, alone>>,
           pc' = [pc EXCEPT ![h] = n], conf' = [conf EXCEPT ![h] = c],
           view' = [view EXCEPT ![h] = v],
           n = "overridden" => c = Effective(override),
           n = "idle" /\ (pc[h] = "overridden" => conf[h] = Effective(override)) => v = ViewOf(override)
    PROVE  AloneInv'
<1> USE DEF Showing, Applying
<1>1. Shapes'
  BY DEF AloneInv, Shapes, Places
<1>2. ASSUME NEW w \in Writers, alone'[w] PROVE Alone(w)'
  <2>1. Alone(w)
    BY <1>2 DEF AloneInv
  <2>2. w \in Handlers /\ \A x : InForce(x) => InForce(x)'
    BY DEF Handlers, InForce
  <2>3. (\A x \in Writers \ {w} : pc[x] \in Showing)'
    BY <2>1 DEF Alone, AloneInv, Shapes, Handlers
  <2>4. CASE w = h
    <3>1. pc'[w] = n /\ conf'[w] = c /\ view'[w] = v
      BY <2>2, <2>4 DEF AloneInv, Shapes
    <3>2. InForce("cooldown") /\ InForce("webhook") /\ InForce("loadPolicy") /\ InForce("clusterPolicy")
      BY <2>1, <2>4 DEF Alone
    <3>3. n = "idle" => v = ViewOf(override)
      BY <2>1, <2>4 DEF Alone
    <3>4. ViewOf(override)' = ViewOf(override) /\ Effective(override') = Effective(override)
      OBVIOUS
    <3> QED
      BY <2>2, <2>3, <3>1, <3>2, <3>3, <3>4 DEF Alone
  <2>5. CASE w # h
    <3>1. pc'[w] = pc[w] /\ conf'[w] = conf[w] /\ view'[w] = view[w]
      BY <2>2, <2>5 DEF AloneInv, Shapes
    <3>2. ViewOf(override)' = ViewOf(override) /\ Effective(override') = Effective(override)
      OBVIOUS
    <3> QED
      BY <2>1, <2>2, <2>3, <3>1, <3>2 DEF Alone
  <2> QED
    BY <2>4, <2>5
<1> QED
  BY <1>1, <1>2 DEF AloneInv

\* One component is given its part: whoever is alone does it.
LEMMA ApplyAloneStep ==
    ASSUME AloneInv, NEW w \in Writers, NEW c \in ComponentNames, NEW n \in Places,
           Apply(w, c, n),
           <<pc[w], c, n>> \in {<<"cooldown", "cooldown", "webhook">>,
                                <<"webhook", "webhook", "loadPolicy">>,
                                <<"loadPolicy", "loadPolicy", "clusterPolicy">>,
                                <<"clusterPolicy", "clusterPolicy", "view">>}
    PROVE  AloneInv'
<1> USE DEF Showing, Applying
<1>1. /\ live' = [live EXCEPT ![c] = Components(conf[w])[c]]
      /\ pc' = [pc EXCEPT ![w] = n]
      /\ UNCHANGED <<override, conf, view, alone>>
  BY DEF Apply
<1>2. Shapes'
  BY <1>1 DEF AloneInv, Shapes, Handlers
<1>3. /\ pc'[w] = n /\ \A v \in Writers \ {w} : pc'[v] = pc[v]
      /\ live'[c] = Components(conf[w])[c]
      /\ \A d \in ComponentNames \ {c} : live'[d] = live[d]
  BY <1>1 DEF AloneInv, Shapes, Handlers
<1>4. ASSUME NEW v \in Writers, alone'[v] PROVE Alone(v)'
  <2>1. Alone(v)
    BY <1>1, <1>4 DEF AloneInv
  <2>2. v = w
    BY <2>1 DEF Alone
  <2>3. conf[w] = Effective(override) /\ conf'[w] = conf[w]
    BY <1>1, <2>1, <2>2 DEF Alone
  <2>4. /\ InForce(c)'
        /\ \A d \in ComponentNames \ {c} : InForce(d) => InForce(d)'
    BY <1>1, <1>3, <2>3 DEF InForce
  <2> QED
    BY <1>1, <1>3, <2>1, <2>2, <2>3, <2>4 DEF Alone, ComponentNames
<1> QED
  BY <1>2, <1>4 DEF AloneInv

LEMMA AloneStep == AloneInv /\ [Next]_vars => AloneInv'
<1> USE DEF Showing, Applying
<1> SUFFICES ASSUME AloneInv, [Next]_vars PROVE AloneInv'
  OBVIOUS
<1>0. Shapes
  BY DEF AloneInv
<1>1. ASSUME NEW w \in Writers, NEW p \in Patches, NEW r \in BOOLEAN, PutUpdate(w, p, r)
      PROVE  AloneInv'
  <2>1. /\ pc' = [pc EXCEPT ![w] = "effective"] /\ UNCHANGED <<live, conf, view>>
        /\ alone' = [v \in Writers |-> v = w /\ InFlight = {}]
    BY <1>1 DEF PutUpdate
  <2>2. Shapes'
    BY <1>0, <2>1 DEF Shapes, Places
  <2>3. ASSUME NEW v \in Writers, alone'[v] PROVE Alone(v)'
    <3>1. v = w /\ \A x \in Writers : pc[x] = "idle"
      BY <2>1, <2>3 DEF InFlight
    <3>2. pc'[w] = "effective" /\ \A x \in Writers \ {w} : pc'[x] = "idle"
      BY <1>0, <2>1, <3>1 DEF Shapes, Handlers
    <3> QED
      BY <3>1, <3>2 DEF Alone
  <2> QED
    BY <2>2, <2>3 DEF AloneInv
<1>2. ASSUME NEW w \in Writers, PutEffective(w) PROVE AloneInv'
  <2>1. /\ conf' = [conf EXCEPT ![w] = Effective(override)] /\ pc' = [pc EXCEPT ![w] = "cooldown"]
        /\ UNCHANGED <<override, live, view, alone>> /\ pc[w] = "effective"
    BY <1>2 DEF PutEffective
  <2>2. Shapes'
    BY <1>0, <2>1 DEF Shapes, Places
  <2>3. ASSUME NEW v \in Writers, alone'[v] PROVE Alone(v)'
    <3>1. v = w /\ \A x \in Writers \ {w} : pc[x] \in Showing
      BY <2>1, <2>3 DEF AloneInv, Alone
    <3>2. /\ pc'[w] = "cooldown" /\ conf'[w] = Effective(override')
          /\ \A x \in Writers \ {w} : pc'[x] = pc[x]
      BY <1>0, <2>1 DEF Shapes, Handlers
    <3> QED
      BY <3>1, <3>2 DEF Alone
  <2> QED
    BY <2>2, <2>3 DEF AloneInv
<1>3. ASSUME NEW w \in Writers, ApplyCooldown(w) PROVE AloneInv'
  BY <1>3, ApplyAloneStep DEF ApplyCooldown, ComponentNames, Places
<1>4. ASSUME NEW w \in Writers, ApplyWebhook(w) PROVE AloneInv'
  BY <1>4, ApplyAloneStep DEF ApplyWebhook, ComponentNames, Places
<1>5. ASSUME NEW w \in Writers, ApplyLoadPolicy(w) PROVE AloneInv'
  BY <1>5, ApplyAloneStep DEF ApplyLoadPolicy, ComponentNames, Places
<1>6. ASSUME NEW w \in Writers, ApplyClusterPolicy(w) PROVE AloneInv'
  BY <1>6, ApplyAloneStep DEF ApplyClusterPolicy, ComponentNames, Places
<1>7. ASSUME NEW h \in Handlers, Get(h) PROVE AloneInv'
  <2>1. /\ pc[h] \in Showing /\ "view" \in Showing /\ "view" # "overridden" /\ "view" # "idle"
        /\ UNCHANGED <<override, live, alone>> /\ pc' = [pc EXCEPT ![h] = "view"]
        /\ conf' = [conf EXCEPT ![h] = conf[h]] /\ view' = [view EXCEPT ![h] = view[h]]
    BY <1>0, <1>7 DEF Get, Shapes
  <2> HIDE DEF Showing, Applying
  <2> QED
    BY <2>1, ShowStep
<1>8. ASSUME NEW h \in Handlers, ViewEffective(h) PROVE AloneInv'
  <2>1. /\ pc[h] \in Showing /\ "overridden" \in Showing /\ "overridden" # "idle"
        /\ UNCHANGED <<override, live, alone>> /\ pc' = [pc EXCEPT ![h] = "overridden"]
        /\ conf' = [conf EXCEPT ![h] = Effective(override)]
        /\ view' = [view EXCEPT ![h] = view[h]]
    BY <1>0, <1>8 DEF ViewEffective, Shapes
  <2> HIDE DEF Showing, Applying
  <2> QED
    BY <2>1, ShowStep
<1>9. ASSUME NEW h \in Handlers, ViewOverridden(h) PROVE AloneInv'
  <2> DEFINE v == [config |-> Shown(conf[h]), overridden |-> Overridden(override)]
  <2>1. conf[h] = Effective(override) => v = ViewOf(override)
    BY DEF ViewOf
  <2> HIDE DEF v
  <2>2. /\ pc[h] = "overridden" /\ pc[h] \in Showing /\ "idle" \in Showing
        /\ "idle" # "overridden" /\ UNCHANGED <<override, live, alone>>
        /\ pc' = [pc EXCEPT ![h] = "idle"] /\ conf' = [conf EXCEPT ![h] = defaults]
        /\ view' = [view EXCEPT ![h] = v]
    BY <1>9 DEF ViewOverridden, v
  <2> HIDE DEF Showing, Applying
  <2> QED
    BY <2>1, <2>2, ShowStep
<1>10. CASE UNCHANGED vars
  BY <1>10 DEF vars, AloneInv, Shapes, Alone, InForce
<1> QED
  BY <1>1, <1>2, <1>3, <1>4, <1>5, <1>6, <1>7, <1>8, <1>9, <1>10
     DEF Next, Put, View, PutRefused, PutPersistFailed, Handlers

\* A response that shows an override names what differs from the environment.
LEMMA ViewNamesOverrides ==
    ASSUME NEW o, NEW f \in Fields, ViewOf(o).config[f] # Shown(defaults)[f]
    PROVE  f \in ViewOf(o).overridden
<1>1. ViewOf(o).config = Shown(Effective(o)) /\ ViewOf(o).overridden = Overridden(o)
  BY DEF ViewOf
<1>2. Effective(o)[f] # defaults[f]
  BY <1>1 DEF Shown, Effective
<1> QED
  BY <1>1, <1>2 DEF Effective, Overridden

\* A PUT that no other one overlapped is in force when it has been applied, whatever
\* earlier ones left behind, and its response is consistent (alertconfig.go:67-85,
\* 116-132), for any number of handlers and any patches.
THEOREM UncontendedAlwaysTakesEffect == Spec => []UncontendedPutTakesEffect
<1>1. AloneInv => UncontendedPutTakesEffect
  <2> SUFFICES ASSUME AloneInv PROVE UncontendedPutTakesEffect
    OBVIOUS
  <2>1. ASSUME NEW w \in Writers, alone[w], pc[w] \in {"view", "overridden"}
        PROVE  live = Components(Effective(override))
    <3>1. \A c \in ComponentNames : live[c] = Components(Effective(override))[c]
      BY <2>1 DEF AloneInv, Alone, InForce, ComponentNames, Showing
    <3> QED
      BY <3>1, ComponentsOf DEF AloneInv, Shapes
  <2>2. ASSUME NEW w \in Writers, alone[w], pc[w] = "idle", NEW f \in Fields,
               view[w].config[f] # Shown(defaults)[f]
        PROVE  f \in view[w].overridden
    <3>1. view[w] = ViewOf(override)
      BY <2>2 DEF AloneInv, Alone
    <3> QED
      BY <2>2, <3>1, ViewNamesOverrides
  <2> QED
    BY <2>1, <2>2 DEF UncontendedPutTakesEffect, UncontendedPutIsLive, PutViewConsistent
<1> QED
  BY <1>1, AloneStart, AloneStep, PTL DEF Spec
=============================================================================
