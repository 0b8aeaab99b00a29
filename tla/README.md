# StarLens in TLA+

StarLens is a read-only observability console for StarRocks: a Go server
(`src/backend`, gin + database/sql) that reads SHOW statements and
information_schema, evaluates alert rules in the background and runs worksheet
statements, and a React client (`src/frontend`, TanStack Query + zustand) that
polls it.  Nothing but the alert overrides is stored by the server, so what is
hard about it is concurrency, partial failure, what is read at different moments,
and a browser that goes on showing what was true a while ago.  This directory
models that, checks it with TLC, and proves with TLAPS what matters most of it
for any number of callers, keys, nodes, databases, jobs, tablets and tabs.

    tlc -workers 2 -config AlertManager.cfg MCAlertManager   # one run
    tlapm AlertProofs.tla                                    # one proof module

`PROJECT.json` lists the components, runs, mutants, hazards and theorems, and
maps every definition to the lines it models.

## 1. Inventory

| Component | State | Operations | Talks to | What is hard |
|---|---|---|---|---|
| Alert manager `internal/alert/manager.go` | `lastFired`, `recent`, `webhook`, `cooldown`, all under `mu` | Dispatch, Test, SetWebhook, SetCooldown, Recent, Register | poller, alert endpoints, notifiers | deliveries outside the lock, settings changed in between, one channel failing, a bounded history |
| Poller and collectors `poller.go`, `collect.go` | its place in the loop | Run, evaluate, Combine | settings, collectors, manager | failing sources, failed deliveries, cancellation during a wait |
| Settings store `settings.go` | `override` under an RWMutex; the override file and its `.tmp` | Update/persist, LoadSettings, Effective, Overridden | configuration endpoint, poller, file system | crash between file operations, failed operations, hand edits, lost updates |
| Configuration endpoint `api/alertconfig.go`, `applyAlertConfig` in `cmd/server/main.go` | none of its own; pushes into manager and the two policies | GET, PUT /alerts/config | settings, manager, services | four components set one by one by several handlers |
| Query execution `query_service.go`, `query_repository.go`, `db.go` | connection pool, the session database of each connection | Execute, databases | StarRocks, worksheet | USE on a pooled connection, failure at every statement, the pool's limit |
| Cluster topology `cluster_service.go`, `cluster_alerts.go`, `cluster_repository.go` | `ClusterAlertPolicy` | Topology, EvaluateAlerts, SetAlertPolicy | StarRocks, poller, pages | four statements at four moments; summary and rules judge separately |
| Routine load `routineload_service.go`, `routineload_alerts.go`, `routineload_repository.go` | `RoutineLoadAlertPolicy` | List, EvaluateAlerts, SetAlertPolicy | StarRocks, poller, pages | a sweep whose databases fail one by one; lag arithmetic |
| Storage explorer `storage_service.go`, `api/storage.go` | none | Statistic, Tables, TableDetail | StarRocks, pages | a table dropped and created between two statements, partial answers, the fold and median |
| Process `cmd/server/main.go` | goroutines, signal context, `serveErr` | boot, serve, drain, exit | all | signal and listener error at once, drain time-out |
| Topology page, header pill, sidebar counters `features/topology`, `ClusterStatusPill.tsx`, `Sidebar.tsx` | none | pure views of one answer | cluster topology | three screens judge the same answer, each with rules of its own |
| Routine load page `RoutineLoadView.tsx`, `JobsTable.tsx` | none | pure views | routine load | thresholds and counters of its own |
| Storage page `StorageView.tsx`, `useStorage.ts` | the selection | select, refresh | storage explorer, cache | answers per database and table, late and cached |
| Console shell `App.tsx`, `Header.tsx`, `queryClient.ts`, `use*.ts` | route, query cache, automatic refresh | navigate, poll, refresh, retry, collect | every GET | polls that fail over data on screen; disabled queries that are pending |
| Alert history panel `AlertsPanel.tsx`, `useAlerts.ts` | the cached history, tests under way | poll, test, leave, enter | manager | a test answered while an older answer is on its way |
| Alert settings dialog `AlertSettingsDialog.tsx`, `useAlerts.ts` | form, cached view, mutations | open, edit, save, reset, test, close | configuration endpoint, panel | late fetches and saves, other operators, an untouched write-only URL |
| SQL worksheet `SqlWorksheet.tsx`, `useAppStore.ts`, `useQueryRunner.ts`, `api.ts` | the store and its localStorage copy, one mutation | edit, run, reload, leave, return | query execution | answers out of order, client and server time-outs, two tabs |
| Configuration loading, database helpers, HTTP layer, formatting, UI kit | none | | | not modelled (section 7) |

What makes each one correct: a key fires at most once per cooldown and an
accepted alert stays recorded whatever its channels answer (manager); an evaluation
hands over what held throughout it and nothing that never did, and a lasting
condition is delivered again and again (poller); what is acknowledged
survives a crash and no patch is lost (settings); the live components run on
the effective configuration, or at worst on a mixture of what overlapping saves
asked for (endpoint); a statement runs in the database it
names and its connection goes back clean (query); summary and alerts agree, and
are exact on a cluster that keeps still (topology); no job goes missing silently
(routine load); parts of two tables are never mixed and levels add up (storage);
a clean exit cuts nothing off and errors reach the exit code (process); every
alert has its sign on the page, and header, cards and sidebar do not contradict
each other (pages); what is on screen is about what is selected, stays there
while it is fetched again, and catches up (shell); a test that was answered is
listed (panel); what is shown is the last run and what is typed survives
(worksheet, dialog).

## 2. Modules and the code

`MC*` modules only name the constants of the small instances.  Operators named
as mutants in comments are not part of any behaviour: each stands for a
plausible bug in the definition after it, and breaks the property it is listed
with in `PROJECT.json`.  Modules that a proof module extends together name their
state machines apart (PollerSpec, LoadsSpec, StorageSpec, DialogSpec, and Spec of
AlertManager and of ClusterTopology); their actions have the code's names.

The server:

* **AlertManager**: one goroutine per caller, `pc` its place in Dispatch or
  Test.  `mu` is explicit.  DispatchCheck and DispatchRecord are the two halves
  of the critical section, because the code reads the clock in both
  (manager.go:83, 87); each `Send` is a step.  Recent copies the history in one
  critical section and changes nothing; Register runs at boot and is in Init.
  `m.now().UTC()` strips the monotonic reading, so a wall clock that steps back
  is possible in the program; the model's clock only advances.
* **AlertPipeline**: Poller.Run, evaluate and Combine with the manager reduced
  to an age per key, so that behaviours are infinite and liveness can be asked.
  Conditions, sources and the settings may change between any two steps of an
  evaluation.  Two history variables follow the environment, not the poller:
  `ever`, what has held at some moment since the settings were read, and `owed`,
  what has held and been readable ever since and has not been handed over.
* **AlertOverrides**: no state; Override, Validate, Merge, Effective, the JSON
  document and the view.  Used by the next three and by the dialog.
* **AlertSettings**: Update and persist with each file operation (mkdir, write,
  rename, remove) a step that can fail, a crash anywhere, LoadSettings, and an
  operator who edits the file.  Rename is atomic and writes are not synced
  (neither does the code): a crash here is one of the process, not of the host.
* **DurableOverride**: the abstract specification, an override saved as a whole.
  AlertSettings implements it with `stored <- Load(file)`.
* **AlertConfigApply**: GET and PUT handlers; Settings.Update is one step (what
  AlertSettings justifies), the four pushes of applyAlertConfig one step each.
  The answer 500 of an apply that failed is left out: the only failure is
  NewWebhookNotifier's, and what Validate accepts gives it no reason to fail
  (EffectiveApplies, part of Recoverable).
* **QueryExecution**: pool, session database per connection, USE, statement,
  rows, restore, poison, close.  database/sql and StarRocks are external.
* **ClusterTopology**: the four reads as four steps against a cluster with
  deaths, elections and replication, the compute-node read also failing; the
  alert rules are operators on what was read.  The release that marks the leader
  by IsMaster is the one checked; the Role path is the other disjunct of
  `frontendRole`.  `columns` says which frontends report a replayed journal id, and
  which cluster id or none: without the leader's journal id nobody has a lag, without
  a replica's it has none, and a blank cluster id is not counted
  (cluster_service.go:282, 399, 410).  What a release reports does not change during
  a behaviour.  A live leader whose Host column is blank (LeaderHost is then "") is
  not modelled.
* **RoutineLoad**: information_schema or the sweep, database by database, over jobs
  that are created, changed and dropped in databases that are too; a database may
  have no job, and a job that is dropped with its database is gone.  Offsets are
  parsed by the code as float64 and cut to int64, which is exact up to 2^53; the
  model takes them as the integers they are.
* **TabletLoads**, **Storage**: the fold of the tablet rows (a recursive function
  over their number), the sort, the median and the skew as operators, with
  reference definitions by sums and by counting (LevelsOf, SoundSkew); Statistic and
  the statements of TableDetail as steps.
* **ServerLifecycle**: run() and the goroutines it starts.  Handlers are
  anonymous.  The poller is not waited for before the pool is closed.  The
  listener may fail before it accepts, also after Shutdown was called, and while it
  accepts as long as it was not.

The browser:

* **TopologyViews** (extends ClusterTopology), **RoutineLoadViews** (RoutineLoad)
  and **StorageViews** (Storage): `summarize*` of the services and, as operators
  on the same answer, what the pages show: status of a node, sections, notices,
  cards, badges, skew bars, the verdict of the pill.  They are stated over
  the server's own models, so that a property compares the rule that fires an
  alert with the code that draws the page from the same rows.
* **Console**: routes, selection, the query cache (data, error, fetching per key),
  polls, focus, refresh and retry, cancellation when nothing shows a query,
  garbage collection, and a server that is healthy, degraded, without its cluster
  or unreachable.  An answer tells the state of the server at the moment it
  arrives (the moment at which the statements ran is earlier; nothing compares
  it with the cluster before the cluster has settled).  What a page shows is `OnPage`, `Browser`, `Panel`,
  `StaleNotice` and `Pill`, each in the order in which the code tests its cases.
* **Worksheet**: tabs, store and its copy in localStorage, executions with
  client and server time-outs, over QueryExecution's outcome of a statement.
* **BrowserTab**: the composition of Console and Worksheet in one tab: following a
  link mounts or leaves the worksheet, the switch of automatic refresh is a field
  of the persisted store, and a reload loads both.
* **AlertDialog**: form, cache, saves of one tab against a server that others
  change; a save may be answered late, or served after the client gave up.
* **AlertsPanel** (extends AlertDialog): the history with its poll, tests, leaving
  and entering the page, and the refresh that a test of either part causes.

TanStack Query is external.  It is modelled from how the hooks use it: a query is
fetched when it is shown and missing or stale; invalidating restarts a fetch unless
it is the first; callbacks given to `mutate` do not run after their component has
gone or `reset()` was called, those given to `useMutation` do.

## 3. Runs

| Run | What it shows | Bounds |
|---|---|---|
| AlertManager | cooldown, history, order, the record outlives failing deliveries, webhook switch | one poller, one tester, two keys, two hooks, history of 2, 3 instants, 3 alerts: the history overflows once, the cooldown passes once, a send can straddle a switch |
| AlertPipeline | an evaluation hands over what held throughout and nothing that never did; a lasting condition is delivered again and again | two collectors with a key each, cooldown of one tick |
| AlertSettings | a boot after any crash, no lost update, refinement of DurableOverride | two writers, five patches (one bad format, one bad duration), one hand edit of four kinds |
| AlertConfigApply | an uncontended PUT is live and its view consistent; what overlapping PUTs leave is theirs and nothing older | two writers that also read, four patches |
| AlertConfigOverlap | **violated**: two overlapping PUTs leave a mixed or stale live configuration | two writers, two patches, no readers |
| QueryExecution | database of each statement, exact truncation, an answer | two requests, one connection (the pool at its limit), row cap 2 and up to 3 rows, read-only policy |
| ClusterTopology | summary and alerts agree; a steady read is exact; every alert is on the page; page, pill and sidebar agree | two voters, an observer, a backend that drains, a compute node, journal up to 2, thresholds 0 and 1, both run modes; everything reported with the observer of another cluster, or one voter (leader or replica) without journal and cluster id: majorities exist and are lost at an even count |
| RoutineLoad | reported or warned; rules on columns; every alert, job and unread database is on the page | two user databases and a system one, each with its job or without, four kinds of row (ahead, behind, marker, missing statistics), three policies |
| Storage | steady detail, tablets of the listed table, levels and skew, counters and detail on screen | two names, three ids (each name can be replaced), every sequence of up to three of five rows: odd and even medians, zero medians, missing columns |
| AlertDialog | a test is listed, an untouched webhook, typed text | one save, two tests and a fetch under way, another operator, three alerts |
| ServerLifecycle | clean exit, listener error, end after a signal | two requests |
| BrowserTab | selection and skeletons, header and page, no flash back, the last run, the query kept, catching up | two databases with a table of the same name, routes topology, storage and worksheet, two executions, client 1 and server 2 ticks (the real 15 s and 60 s) |

MaxClock, MaxAlerts, MaxEdits, MaxJournal, MaxIds, MaxTablets, MaxRuns, MaxFired and
ResultRows are bounds of the models only.  Larger instances repeat these
situations: guards look at one key, one connection, one node or one pair of
concurrent actors at a time, and where it matters the theorems of section 4 hold
for every instance.

Two runs have an ACTION_CONSTRAINT, `Apart`.  In BrowserTab the worksheet's
executions and the pages' queries do not read each other's state (BrowserTabProofs
shows that every step of the tab is one of each part or leaves it alone), so each is
explored with the other at rest: a step is taken if in its target the shell is on
the topology or the worksheet with its first answer still to come, or the worksheet
has not been used.  In AlertDialog the dialog and the history share the refresh
after a test only, and are treated the same way (`DialogAtRest`, `PanelAtRest`).
Without it the products are too large for five minutes.  The loads page has the same
shape in Console as the topology page (one query, the same rules) and is not
among the routes of the instance.

Symmetry is used in AlertManager, AlertSettings, AlertConfigApply,
AlertConfigOverlap, ClusterTopology and Storage, which ask no liveness, over sets
that no constant tells apart.  CHECK_DEADLOCK FALSE is said of ServerLifecycle
only: the process exits.

### Fairness

* AlertPipeline: weak fairness of the loop's own steps (a goroutine runs, a
  webhook has a time-out, a timer fires) and of time.
* QueryExecution: weak fairness of a request's steps; operations on a connection
  end by their context, except the restore, which has none
  (query_repository.go:91) and relies on the network or StarRocks ending it.
  Strong fairness of Acquire: database/sql gives a freed connection to a waiting
  request picked at random.  That the request's budget ends it is not used.
* ServerLifecycle: run's steps and the return of ListenAndServe after Shutdown;
  no handler is assumed to end, so the ten seconds of the drain matter.
* BrowserTab (`ConsoleFairness`): a request ends, by its answer or its 15 s, and
  the interval of the shell's query fires while automatic refresh is on.  CatchesUp
  is asked of behaviours in which reloads stop: a tab that is loaded again and
  again need not get as far as an answer.

No liveness property is asked of a specification without fairness.

## 4. Proofs

The eight `*Proofs` modules prove what follows for every value of the constants
that satisfies the named assumptions of the modules (all of them evaluated by TLC in
the runs).  `PROJECT.json` lists each theorem with the property of a run it states.
Every invariant and action property that a passing run checks is stated by a theorem.
The inductive invariants behind them are no properties of the runs, which would
check them on small instances only; TLAPS proves them for all.

### The alert manager (AlertProofs)

From ManagerAssumption (the capacity is positive, the sets are disjoint,
cooldowns are naturals):

* **TypeCorrect**: TypeOK, the capacity of the history included.  RememberFacts
  (what `remember` returns) and ChannelsType carry it; TypeOK is inductive.
* **CheckAlwaysValid**: between the cooldown test and the record, the goroutine
  holds `mu` and its key is still out of its cooldown.  This is the strengthening
  the next theorem needs: neither TypeOK nor the guard says that time, another
  dispatcher or SetCooldown did not invalidate the test.  SetCooldown needs the
  lock, time only makes the elapsed time longer.
* **CooldownHolds**: `[][RefireStep]_vars` follows from TypeOK and CheckStillValid.
* **RecordAlwaysOutlivesDelivery** from DeliveryInv: an alert is not later than the
  last accepted one, nor than now.  The step that matters is another caller's record
  while this one delivers (RecordKeepsTheOthers): it moves every recorded alert one
  place back and leaves or renews its key's firing.  That every channel is tried is
  the shape of the loop (manager.go:143-150) and no property here.
* **SwitchAlwaysTakesEffect** from SwitchInv (sequence numbers never exceed
  the accepted count, so what is accepted before a switch stays before it).
* **HistoryAlwaysInOrder** from StampInv and HistoryStep: every step leaves the
  history alone or records one alert in front.
* **DispatchedAlwaysNewestFirst** from OrderInv: additionally, no dispatched
  alert is stamped after the clock.
* **HistoryAlwaysTracksFirings**: HistoryTracksFirings is inductive together with
  the two above; NothingForgotten says that a history that is not full has kept
  all it had.

### The settings store (AlertSettingsProofs)

From OverridesAssumption and SettingsAssumption, by the invariant SettingsInv: values
in force are valid, the writer inside Update holds the lock and has merged its
patch into the override that is still in force, and what it has done so far is
on disk.  EncodeDecode and LoadFacts say what persist and LoadSettings do to a valid
override.

* **AlwaysRecoverable** and **UpdatesAreKept** follow from SettingsInv.
* **SettingsAreDurable**: the refinement.  A rename or remove of a writer maps to
  the abstract Save, the update of memory to Publish, a crash and a boot to their
  own, everything else stutters.  The abstract register knows no hand edit: one ends
  `inSync`, and DurableOverride promises nothing of a step unless `inSync` holds
  before and after it, that is, until a boot or a save brings file and memory
  together again.

### The configuration endpoint (AlertConfigApplyProofs)

From OverridesAssumption and ApplyAssumption, for any handlers and patches:

* **NothingOlderIsLeft** from FreshInv.  The history variable `fresh` has the overrides
  in force since the PUTs that apply now found nobody applying.  A PUT that is under
  way has read its configuration from one of them, and a component it has passed runs
  on one of them, though perhaps by a later push of another PUT; so when the last one
  has applied, every component has been passed by some PUT of the overlap.
* **UncontendedAlwaysTakesEffect** from AloneInv.  The history variable alone says that
  no PUT began since one that found no other under way.  While it holds, nobody
  else applies, what the PUT applies is in effect, and so is each component it
  has passed: the four pushes establish one conjunct each, whatever earlier PUTs
  left in them.

### Query execution (QueryExecutionProofs)

From QueryAssumption (the markers are no connection or database, the cap is positive):

* **ConnectionsAreOwned**: TypeOK and EveryConnOwned.  The invariant PoolInv adds
  that a request holds a connection exactly between Acquire and Close, that the
  pool holds no broken one (otherwise Retire could leave a broken connection that
  is not open), and that nothing was read before the statement ran.
* **StatementsRunWhereAsked** and **PoolStaysClean**, for `ReadOnly /\ Spec`.
  RunsWhereAsked is not inductive: SessionInv says for each place in Execute
  which database the held connection is on, so that the USE finds it on the
  DSN's database and the restore leaves it there, or broken.  That another request
  cannot interfere is PoolInv.  Without ReadOnly the statements are false (a USE
  of the user's own on an unscoped request), so the hypothesis is necessary.
* **TruncationAlwaysExact** from ReadInv, without ReadOnly.

### The process (ServerLifecycleProofs)

For any number of requests under way:

* **ServeErrorAlwaysSurfaces** and **CleanExitAlwaysDrains**, from LifecycleInv: an error
  of the listener is in the channel until run receives it (ServerInv), an error
  is returned with its cause (ErrInv), and no request is under way, nor accepted,
  after the drain (DrainInv).
* **FailureAlwaysHasItsCause**: TypeOK and FailureHasItsCause; StarRocks being
  unreachable is never a cause.

### The monitoring reads and their pages (MonitoringProofs)

**Poller**, from PipelineAssumption, for any list of collectors:

* **EvaluationsAreExact** from PollerInv: while sources are asked, an owed condition's
  source is still to come or its alert has been collected, and then some source has
  answered; when they have been asked, it is among the alerts that are left.  That
  combines what Combine does about a source that fails with what the environment did
  to the other sources in the meantime.

**Cluster topology**, from TopologyAssumption, for any finite sets of nodes:

* TopologyInv says of each of the three lists that has been read, by where the
  request is, that it has its type, that its statuses fit (a node is DOWN exactly
  when it is not alive), that at most one frontend leads, and that it is what the
  cluster would answer now as long as nothing has changed since the first read.
  SummaryAgreesWithAlerts is false of arbitrary lists: two leaders would give the
  summary and the rules two journals to compare with.
* **SummaryAndAlertsAgree** is a lemma about the lists (`Lists`): a cluster
  that the summary calls healthy raises no urgent alert and one with data nodes that
  it does not call healthy raises some (HealthJudgedAlike), and the largest lag exceeds a
  threshold exactly when some frontend's does (LagJudgedAlike).
* **AlertsAreAccurate**: a list of a cluster that kept still is the cluster
  (`Still`), and rule by rule what fires is what Expected says of it, for any columns:
  what a frontend does not report raises nothing (ReportedId, TrailsBy).
* **AlertsAreOnThePage** and **ScreensTellTheSame** are again about the lists.  Each
  node has its card, in the section of its kind, which is shown in either run mode
  when it has nodes (SectionsAre, CardOf); a card is red exactly when its node is
  down (CardSays);
  and the number of down nodes of the summary is the number of red cards, because the
  kinds are disjoint (TotalDownIs, RedCards).

**Routine load**, from RoutineLoadAssumption, for any databases, jobs and rows:

* **NoJobIsLost**: CollectionInv splits the databases of a sweep into those still
  to read, those read and those warned of, and says that what was read are the
  jobs of those that were read.
* **LoadsTyped**: LoadsTypeOK is inductive; the next two follow from it.
* **AlertsFollowColumns**: computeOffsetLag is the amount by which the progress
  trails (LagIsTrail), a sum of the positive differences over partitions whose
  offsets are both numbers, unless there is none; and the ratio rule, which
  divides, fires where the property multiplies (RatioNeedsRows).
* **LoadAlertsAreSeen**: a positive number of error rows on the cards comes from some
  job's (ErrorRowsCounted), the counters by state are those of the rows (StateCounts),
  and a job that the page lacks while nothing changed is in a database that the notices
  name (EveryJobShows).

**Storage**, from StorageAssumption, for any names, ids and rows:

* **StorageTyped**, **DetailIsOfTheAskedTable** and **TabletsAreOfTheListedTable** from
  StorageInv: which of the four statements has run decides which parts of the answer
  are there, and while the table keeps still each is the table's own.  That the
  statement after a missing table is never reached is what keeps `summary` from
  being no table.
* **LevelsAreSound**: every detail's levels are the fold of its rows
  (StorageTypeOK), to which LevelsAgree below applies.
* **CountersAreSound**: what Statistic keeps are databases with natural counters and
  their sums (IsStatistic); a sum of naturals is positive exactly when one is.
* **PanelTellsTheDetail**: a red skew card has a ratio over the threshold and a green
  one has a ratio, a bar is at most full and the largest one is (BarsAreSound).

### Sums, medians and the fold (TabletLoadsProofs)

The library's induction theorems cannot be applied here (they take an operator), so what
is computed from data is proved by a smallest counterexample instead:
SmallestSubset (a set of subsets of a finite set has a smallest one) is induction
over finite sets, LeastOf is induction over the naturals, both from the library's
well-foundedness of strict inclusion.  From them:

* SumFunction of the community modules, which is a fold, adds up: the function it
  is defined by exists (AddsUpExists) and is determined by its equation (AddsUpAgree), a sum does
  not depend on the element taken out first (SumRemove), has its type, ignores zeros
  and is positive when a summand is; a maximum is one of the numbers and bounds them.
* `ascending` exists and is an order of the values (OrderExists), so that as many
  values are at most the median as at least it (MediansOfList), and the skew is
  judged as the definition by counting judges it (SkewIsSound).
* applyTabletLoads, a recursive function, exists and follows its equation (FoldExists).
  LevelsAre says of the levels after k rows what LevelsOf says of all: each backend's
  load is the sum over its rows, the loads add up to the rows, and the tablets are
  the rows in order.  LevelsGrow shows that a row keeps it.
* **LevelsAgree** concludes, for any sequence of rows of any length.

### The browser (BrowserTabProofs, AlertProofs)

For any databases, tables, tabs, executions, saves, operators, alerts and tests:

* **ConsoleInvariant**: ConsoleInv.  The data under a key are about that key (Right;
  the keys differ, KeysDiffer), only what is shown is fetched and what is shown and
  unknown is being fetched (Tidy), and the row that was clicked is the table
  selected in the database selected (Picked).
* **SelectionIsShown**, **SkeletonsEnd**, **HeaderAgrees** are its consequences;
  **NothingFlashesBack** holds of each step from it.
* **TabsShowTheLastRun**, of the worksheet in any number of tabs, from
  WorksheetInv: an execution belongs to one tab, a worksheet follows the last one
  started in it, and whatever settles changes the results only of the worksheet
  that waits for it.
* **TabShowsTheLastRun** and the theorems above hold of the composed tab because
  each of its steps is a step or a stutter of the part (TabStepsAreSteps).
* **TheQueryIsKept** from StoreInv: the storage and the memory of a tab that is
  alone agree and hold the text last typed.
* **TestsAreListed** from PanelInv: an answer that is on its way has all that is
  owed, a history that is not marked invalid has it too, and one that is on
  screen and at rest is not invalid.
* **WebhookStaysUntouched** and **WhatIsTypedSurvives** from DialogInv: a closed
  dialog has no form, and no save whose answer could fill it.

### What the proofs assume

The assumptions are types, disjoint sets and these, which the code justifies:

* PipelineAssumption: two collectors share no key.  A key starts with the name of its
  rule, and each rule belongs to one service (cluster_alerts.go:72,
  routineload_alerts.go:57).
* TopologyAssumption: finitely many nodes, each of one kind; a host that runs a
  frontend and a backend is two nodes (its rows come from two statements).  Which
  columns the frontends report is arbitrary.
* RoutineLoadAssumption: the error rows of a statistic are counted among its rows
  ("in [0, 1]", model/routineload.go:31); a marker is no number.  Where it
  is needed is a statistic without rows: it has no errors then, and the guard of
  ErrorRatio against a division by zero hides none.  Nothing is assumed of which jobs
  exist, or that any does.
* StorageAssumption: no database's id reads "Total" (ids are numbers,
  storage_service.go:57-60), counters are naturals, a missing column is no number.
* MaxIds, MaxJournal and MaxTablets bound the models and are any naturals in the theorems.

### What stays with TLC

Liveness: PersistentConditionDelivered, QueryAnswered, SignalEndsTheProcess and
CatchesUp, because fairness and ENABLED are out of the prover's reach.  The
disagreement of AlertConfigOverlap is a counterexample and needs no proof.

## 5. Plan

Done: all modules, runs and proofs above.  What a later version would take up, in order:

1. A specification of what a query of the console promises (its answer is about its key
   and no older than the one shown), and Console shown to implement it.
2. Two tabs that share the store, which is where ReloadKeepsTheQuery fails by the
   design of the store (section 6).
3. The Role release of the topology in the instance (the theorems cover both), and the
   loads page among the routes of BrowserTab, when more than five minutes are
   acceptable.

## 6. What the code does and its comments say otherwise

Checked (AlertConfigOverlap): main.go:82-83 says the effective configuration is
pushed "into the live components ... after every PUT".  Each PUT reads it after its
update and pushes it without a lock over the four pushes, so the PUT that read
first may push last, and components keep an older or mixed configuration until
the next save (UncontendedPutTakesEffect: that repairs it) or restart.

Noticed while modelling, without a run of their own:

* alertconfig.go:67-85: a view reads the settings twice, so the answer of a GET or of
  an overlapped PUT may list as overridden what was so at another moment than the
  values it shows.  UncontendedPutTakesEffect speaks of a PUT that is alone.
* manager.go:107: Test stamps its alert before it takes the lock, so the history
  is "newest first" (29, 126) only for dispatched alerts and in order of acceptance.
* settings.go:255-256 "leaves no residue": a failed write or rename leaves the
  `.tmp` (270-279), which no boot reads.
* settings.go:127-136, 216: after a corrupt file at boot the next PUT merges into
  an empty override and overwrites the file, which an editor may have wanted back.
* cluster_service.go:68-72: a failed SHOW COMPUTE NODES counts as none, so
  `Healthy` (model/cluster.go:128) can be true with dead compute nodes; nothing else is hidden
  by it (SummaryAgreesWithAlerts).
* cluster_service.go:298-313 sums the tablets of dead nodes too, against "live" in
  model/cluster.go:126.
* storage_service.go:324-326 rounds the median of an even number down in int64; the
  ratio of model/storage.go:86-90 is then larger than max over median.
* api/storage.go:38-39 against model/storage.go:22-23: NeedsAttention leaves
  cloning out.
* storage_service.go:169 matches table names case-insensitively.
* query_repository.go:28-29 "never leak a USE": with ReadOnly = FALSE a USE
  statement of an unscoped request stays on its pooled connection.  RunsWhereAsked
  is therefore checked under the read-only policy.
* api.ts:81 gives up after 15 s while QUERY_TIMEOUT defaults to a minute
  (.env.example:65-66), and en.json:219 names STARROCKS_QUERY_TIMEOUT.
* AlertSettingsDialog sends the whole form: with negative environment thresholds
  (.env.example:50) an untouched form is refused by Validate.
* useAppStore.ts:14 "a reload never loses a query": two tabs write the whole store,
  the last writer wins; ReloadKeepsTheQuery is checked for one tab.

Seen from the browser:

* ClusterStatusPill.tsx:86 says `noBackendsRegistered` also for a summary whose only
  fault is a cluster id mismatch.
* Header.tsx:26: an error that is no outage of StarRocks leaves the pill as it is, so
  it can stay green over a StarLens server that no longer answers; only the page
  says so.  HeaderAgreesWithPage therefore speaks of outages of the cluster.
* AlertsPanel.tsx shows "No alerts fired yet — quiet is good." (en.json:180) also
  while the history is loading or could not be loaded.
* StorageView shows "This database has no tables yet." (en.json:289) also when the
  request for the tables failed; it has no notice of stale data, and errors of tables
  and details are not shown.
* useTopology.ts:28 and TopologyView.tsx:23 attribute the data that stay on screen to
  placeholderData; it is the cache entry itself that is kept.  NoFlashBack holds.
* A tab that never had data falls back from the error to the skeleton, and the pill
  from "unreachable" to "checking", with every poll of a cluster that is down:
  the state ErrorState's isRetrying stands for is never on screen.  CatchesUp
  says of an outage only that it is said again and again.
* useAlerts.ts:74 "refresh it right away": a first fetch that is under way goes on,
  and its older answer is shown until the next poll; TestIsListed leaves that out.

## 7. Not modelled

* Configuration loading (`backend/config`), row scanning and column lookup
  (`db.go` helpers), routing, CORS and error bodies, the lexical clean-up of
  statements: stateless conversions.  Their outcomes are constants or
  nondeterministic choices of the models.
* Formatting of numbers, times and cells, the language switch, the results table
  with its profile, the bars of capacity (UsageBar.tsx), page placeholders, the UI
  kit (`components/ui`), translations and build files: presentation of one value,
  without state that another part reads.
* Capacities, versions, tablet totals and the order of lists in the topology;
  partition columns and sorting in the storage explorer; the body of a webhook.
* `lastFired` is never pruned; it grows by a key per node or job that ever fired,
  which a bounded model cannot judge.  A second signal during the drain is ignored
  by the program, and by ServerLifecycle.
