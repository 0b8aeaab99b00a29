------------------------------ MODULE Worksheet ------------------------------
(***************************************************************************)
(* The SQL worksheet in the browser tabs of one operator:                  *)
(* features/worksheet/SqlWorksheet.tsx, the store of store/useAppStore.ts  *)
(* with its copy in localStorage, the mutation of hooks/useQueryRunner.ts  *)
(* and the client of lib/api.ts, against the fate a request has on the     *)
(* server (QueryExecution has its steps).                                  *)
(*                                                                         *)
(* The data is reduced to what matters: a statement is a model value, and  *)
(* of the other settings the store keeps one stands for all (autoRefresh). *)
(* TanStack Query and axios are external: a component follows the last     *)
(* mutation it started, and no earlier one; a client that leaves closes    *)
(* the connection, which ends the context of the handler.                  *)
(***************************************************************************)
EXTENDS Naturals, Sequences

CONSTANTS Tabs,            \* browser tabs
          Statements,      \* texts of the editor that can be run
          Blank,           \* a text that is empty when trimmed
          FirstStatement,  \* 'SHOW DATABASES;'
          Databases,       \* what the picker offers
          NoDb,            \* the connection's own database (null in the store)
          ClientTimeout,   \* the 15 s of axios, in units of waiting
          QueryTimeout,    \* QUERY_TIMEOUT, in the same units
          NotTyped,        \* no text typed since the page was loaded
          MaxRuns          \* bound: executions started

ASSUME WorksheetAssumption ==
    /\ FirstStatement \in Statements
    /\ Blank \notin Statements
    /\ NoDb \notin Databases
    /\ NotTyped \notin Statements \cup {Blank}
    /\ ClientTimeout \in Nat \ {0}
    /\ QueryTimeout \in Nat \ {0}
    /\ MaxRuns \in Nat

VARIABLES storage,   \* 'starlens.ui' in localStorage, shared by the tabs
          memory,    \* the store in each tab
          mounted,   \* the tab is on the worksheet's route
          rendered,  \* isPending, as the run of the last render sees it
          observed,  \* the execution the mounted worksheet follows, 0 for none
          shown,     \* what its results area shows
          run,       \* the executions, in the order they were started
          pressed,   \* history variable: the last execution started since the
                     \* worksheet was mounted, 0 for none
          typed      \* history variable: the text last typed in each tab since
                     \* its page was loaded

vars == <<storage, memory, mounted, rendered, observed, shown, run, pressed, typed>>

page == <<mounted, rendered, observed, shown, pressed>>

Runs == 1 .. Len(run)

State == [sql : Statements \cup {Blank}, database : Databases \cup {NoDb}, autoRefresh : BOOLEAN]

Init == /\ storage = [sql |-> FirstStatement, database |-> NoDb, autoRefresh |-> TRUE]
        /\ memory = [t \in Tabs |-> storage]
        /\ mounted = [t \in Tabs |-> FALSE]
        /\ rendered = [t \in Tabs |-> FALSE]
        /\ observed = [t \in Tabs |-> 0]
        /\ shown = [t \in Tabs |-> "prompt"]
        /\ run = <<>>
        /\ pressed = [t \in Tabs |-> 0]
        /\ typed = [t \in Tabs |-> NotTyped]

-----------------------------------------------------------------------------
(* The store *)

\* Mutant: a set that is not written.
SetInMemory(t, state) == /\ memory' = [memory EXCEPT ![t] = state]
                         /\ UNCHANGED storage

\* Every set() of the store writes all of the tab's state; no other tab hears of it.
Set(t, state) == /\ memory' = [memory EXCEPT ![t] = state]
                 /\ storage' = state

TypeSql(t) ==
    /\ mounted[t]
    /\ \E s \in Statements \cup {Blank} :
         /\ Set(t, [memory[t] EXCEPT !.sql = s])
         /\ typed' = [typed EXCEPT ![t] = s]
    /\ UNCHANGED <<page, run>>

PickDatabase(t) ==
    /\ mounted[t]
    /\ \E d \in Databases \cup {NoDb} : Set(t, [memory[t] EXCEPT !.database = d])
    /\ UNCHANGED <<page, run, typed>>

ToggleAutoRefresh(t) ==
    /\ Set(t, [memory[t] EXCEPT !.autoRefresh = ~@])
    /\ UNCHANGED <<page, run, typed>>

-----------------------------------------------------------------------------
(* The worksheet *)

\* A worksheet follows no execution when it is mounted.
Fresh(t) == /\ rendered' = [rendered EXCEPT ![t] = FALSE]
            /\ observed' = [observed EXCEPT ![t] = 0]
            /\ shown' = [shown EXCEPT ![t] = "prompt"]
            /\ pressed' = [pressed EXCEPT ![t] = 0]

Enter(t) == /\ ~mounted[t]
            /\ mounted' = [mounted EXCEPT ![t] = TRUE]
            /\ Fresh(t)
            /\ UNCHANGED <<storage, memory, run, typed>>

\* Another route: the execution under way goes on, unobserved.
Leave(t) == /\ mounted[t]
            /\ mounted' = [mounted EXCEPT ![t] = FALSE]
            /\ Fresh(t)
            /\ UNCHANGED <<storage, memory, run, typed>>

\* The page is loaded again: the state comes from the storage and the requests
\* under way are given up.
Reload(t) ==
    /\ memory' = [memory EXCEPT ![t] = storage]
    /\ run' = [r \in Runs |-> IF run[r].tab = t /\ run[r].client = "waiting"
                              THEN [run[r] EXCEPT !.client = "gone"] ELSE run[r]]
    /\ Fresh(t)
    /\ typed' = [typed EXCEPT ![t] = NotTyped]
    /\ UNCHANGED <<storage, mounted>>

\* run(): by the button or by Ctrl+Enter, which goes through runRef.  The text
\* and the database are the store's; isPending is that of the last render, so
\* that a second press may come before it.
Press(t) ==
    /\ mounted[t]
    /\ memory[t].sql # Blank
    /\ ~rendered[t]
    /\ Len(run) < MaxRuns
    /\ run' = Append(run, [tab |-> t, client |-> "waiting", server |-> "sent", age |-> 0])
    /\ observed' = [observed EXCEPT ![t] = Len(run) + 1]
    /\ pressed' = [pressed EXCEPT ![t] = Len(run) + 1]
    /\ shown' = [shown EXCEPT ![t] = "running"]
    /\ UNCHANGED <<storage, memory, mounted, rendered, typed>>

\* The worksheet is rendered with its mutation, and the effect updates runRef.
Render(t) ==
    /\ mounted[t]
    /\ rendered' = [rendered EXCEPT ![t] = shown[t] = "running"]
    /\ UNCHANGED <<storage, memory, mounted, observed, shown, run, pressed, typed>>

-----------------------------------------------------------------------------
(* The requests *)

\* Mutant: whatever settles is shown.
SettleInTheTab(r, outcome) ==
    LET t == run[r].tab
    IN  /\ run' = [run EXCEPT ![r].client = outcome]
        /\ shown' = IF mounted[t] THEN [shown EXCEPT ![t] = outcome] ELSE shown
        /\ UNCHANGED <<storage, memory, mounted, rendered, observed, pressed, typed>>

\* The client has an outcome, which the worksheet shows if it follows this execution.
Settle(r, outcome) ==
    LET t == run[r].tab
    IN  /\ run' = [run EXCEPT ![r].client = outcome]
        /\ shown' = IF observed[t] = r THEN [shown EXCEPT ![t] = outcome] ELSE shown
        /\ UNCHANGED <<storage, memory, mounted, rendered, observed, pressed, typed>>

Reply(r) == /\ run[r].client = "waiting"
            /\ run[r].server \in {"ok", "error"}
            /\ Settle(r, run[r].server)

ConnectionFails(r) == /\ run[r].client = "waiting"
                      /\ Settle(r, "error")

ClientTimesOut(r) == /\ run[r].client = "waiting"
                     /\ run[r].age = ClientTimeout
                     /\ Settle(r, "timeout")

OnServer(r, fate) == /\ run' = [run EXCEPT ![r].server = fate]
                     /\ UNCHANGED <<storage, memory, page, typed>>

Arrive(r) == /\ run[r].server = "sent"
             /\ OnServer(r, "executing")

Finish(r) == /\ run[r].server = "executing"
             /\ \E fate \in {"ok", "error"} : OnServer(r, fate)

\* The context of an execution ends with the connection and with the budget.
ContextEnded(r) == run[r].client # "waiting" \/ run[r].age = QueryTimeout

\* Which ends the execution: an error, for a client that is still there.
Abort(r) == /\ run[r].server = "executing"
            /\ ContextEnded(r)
            /\ OnServer(r, IF run[r].client = "waiting" THEN "error" ELSE "stopped")

\* Time passes for a request, never beyond a timeout that is due.
Wait(r) ==
    /\ run[r].client = "waiting" \/ run[r].server = "executing"
    /\ run[r].client = "waiting" => run[r].age < ClientTimeout
    /\ run[r].server = "executing" => run[r].age < QueryTimeout
    /\ run' = [run EXCEPT ![r].age = @ + 1]
    /\ UNCHANGED <<storage, memory, page, typed>>

Next == \/ \E t \in Tabs : \/ TypeSql(t) \/ PickDatabase(t) \/ ToggleAutoRefresh(t)
                           \/ Enter(t) \/ Leave(t) \/ Reload(t) \/ Press(t) \/ Render(t)
        \/ \E r \in Runs : \/ Reply(r) \/ ConnectionFails(r) \/ ClientTimesOut(r)
                           \/ Arrive(r) \/ Finish(r) \/ Abort(r) \/ Wait(r)

Spec == Init /\ [][Next]_vars

-----------------------------------------------------------------------------
(* Properties *)

\* Every variable has its type; a worksheet that is not mounted shows nothing.
TypeOK ==
    /\ storage \in State
    /\ memory \in [Tabs -> State]
    /\ mounted \in [Tabs -> BOOLEAN]
    /\ rendered \in [Tabs -> BOOLEAN]
    /\ observed \in [Tabs -> 0 .. MaxRuns]
    /\ shown \in [Tabs -> {"prompt", "running", "ok", "error", "timeout"}]
    /\ \A r \in Runs :
         run[r] \in [tab : Tabs, client : {"waiting", "ok", "error", "timeout", "gone"},
                     server : {"sent", "executing", "ok", "error", "stopped"}, age : Nat]
    /\ typed \in [Tabs -> Statements \cup {Blank, NotTyped}]
    /\ \A t \in Tabs : ~mounted[t] => shown[t] = "prompt"

\* What the results area shows is what has become of the last execution started
\* there: a slower, earlier one that settles late, also one from before the
\* worksheet was left, never takes its place (SqlWorksheet.tsx:45-57, 150-175).
ShownIsTheLastRun ==
    \A t \in Tabs :
      IF pressed[t] = 0 THEN shown[t] = "prompt"
      ELSE shown[t] = LET c == run[pressed[t]].client IN IF c = "waiting" THEN "running" ELSE c

\* "persisted so a reload never loses a query" (store/useAppStore.ts:14): after
\* a reload the editor has what was last typed in it.
ReloadKeepsTheQuery ==
    [][\A t \in Tabs : (Reload(t) /\ typed[t] # NotTyped) => memory'[t].sql = typed[t]]_vars
=============================================================================
