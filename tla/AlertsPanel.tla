----------------------------- MODULE AlertsPanel -----------------------------
(***************************************************************************)
(* The alert history on the routine-load page                              *)
(* (frontend/src/features/loads/components/AlertsPanel.tsx) with its test  *)
(* button and the settings dialog it contains (AlertDialog), the query and *)
(* the mutation behind it (frontend/src/hooks/useAlerts.ts), and the       *)
(* history the server keeps (AlertManager).                                *)
(*                                                                         *)
(* A history is a number here: the alerts recorded so far, newest first,   *)
(* are those up to it.  The query is polled whatever autoRefresh says.     *)
(* TanStack Query is external, as in Console: invalidateQueries starts a   *)
(* query that is on screen afresh, but a first fetch that is under way goes*)
(* on; one that is not on screen is fetched when it is shown again.  The   *)
(* callbacks given to mutate do not run when the panel has gone, the ones  *)
(* given to useMutation do.                                                *)
(***************************************************************************)
EXTENDS AlertDialog

CONSTANTS NoHistory,   \* the query has no data
          Tests,       \* bound: tests of this tab that are under way at a time
          MaxFired     \* bound: alerts the server records

ASSUME PanelAssumption == /\ MaxFired \in Nat
                          /\ NoHistory \notin Nat
                          /\ IsFiniteSet(Tests)

VARIABLES onPage,    \* the panel is on screen
          fired,     \* alerts in the server's history
          history,   \* the cached query: [data, invalid, failed]
          list,      \* its GET: the stage, and what it brings
          test,      \* the tests under way
          outcome,   \* testOutcome
          owed       \* history variable: alerts that must be listed

panelVars == <<onPage, fired, history, list, test, outcome, owed>>

-----------------------------------------------------------------------------
(* The query *)

NoListing == [stage |-> "none", brings |-> NoHistory]
Listing == [stage |-> "sent", brings |-> NoHistory]

NoTest == [stage |-> "free", attached |-> FALSE]

\* testAlert.isPending
pending == \E t \in Tests : test[t].attached

\* invalidateQueries of ["alerts"]
Invalidate ==
    /\ history' = [history EXCEPT !.invalid = TRUE]
    /\ list' = IF onPage /\ (history.data # NoHistory \/ list.stage = "none") THEN Listing ELSE list

PanelInit == /\ onPage = TRUE
             /\ fired = 0
             /\ history = [data |-> NoHistory, invalid |-> FALSE, failed |-> FALSE]
             /\ list = Listing
             /\ test = [t \in Tests |-> NoTest]
             /\ outcome = "none"
             /\ owed = 0

\* The page is opened: what is missing, invalid or stale is fetched.
Enter == /\ ~onPage
         /\ onPage' = TRUE
         /\ list' \in {Listing}
                      \cup {x \in {NoListing} : history.data # NoHistory /\ ~history.invalid}
         /\ UNCHANGED <<fired, history, test, outcome, owed>>

\* It is left, with the dialog closed: the GET is cancelled, the panel's state is gone.
LeavePage == /\ onPage /\ ~open
             /\ onPage' = FALSE
             /\ list' = NoListing
             /\ outcome' = "none"
             /\ test' = [t \in Tests |-> [test[t] EXCEPT !.attached = FALSE]]
             /\ UNCHANGED <<fired, history, owed>>

\* The interval of 15 s, or the window regains focus.
PollHistory == /\ onPage
               /\ list = NoListing
               /\ list' = Listing
               /\ UNCHANGED <<onPage, fired, history, test, outcome, owed>>

\* Manager.Recent
ListServe == /\ list.stage = "sent"
             /\ list' = [stage |-> "served", brings |-> fired]
             /\ UNCHANGED <<onPage, fired, history, test, outcome, owed>>

ListDone == /\ list.stage = "served"
            /\ history' = [data |-> list.brings, invalid |-> FALSE, failed |-> FALSE]
            /\ list' = NoListing
            /\ UNCHANGED <<onPage, fired, test, outcome, owed>>

ListFails == /\ list.stage # "none"
             /\ history' = [history EXCEPT !.failed = TRUE]
             /\ list' = NoListing
             /\ UNCHANGED <<onPage, fired, test, outcome, owed>>

-----------------------------------------------------------------------------
(* The alerts *)

\* The poller, other tabs, or a test this tab has given up.
OthersFire == /\ fired < MaxFired
              /\ fired' = fired + 1
              /\ UNCHANGED <<onPage, history, list, test, outcome, owed>>

\* The button; it is disabled while a test is pending.
FireTest == /\ onPage
            /\ ~pending
            /\ \E t \in Tests : /\ test[t] = NoTest
                                /\ test' = [test EXCEPT ![t] = [stage |-> "sent", attached |-> TRUE]]
            /\ outcome' = "none"
            /\ UNCHANGED <<onPage, fired, history, list, owed>>

\* The server records the test and tries every channel.
TestServe(t) == /\ test[t].stage = "sent"
                /\ fired < MaxFired
                /\ fired' = fired + 1
                /\ \E results \in {"deliveredAll", "deliveryFailed"} :
                      test' = [test EXCEPT ![t].stage = results]
                /\ UNCHANGED <<onPage, history, list, outcome, owed>>

\* Mutant: the history is refreshed by a callback given to mutate.
TestAnsweredIfThere(t) ==
    /\ test[t].stage \in {"deliveredAll", "deliveryFailed"}
    /\ IF test[t].attached THEN Invalidate ELSE UNCHANGED <<history, list>>
    /\ outcome' = IF test[t].attached THEN test[t].stage ELSE outcome
    /\ test' = [test EXCEPT ![t] = NoTest]
    /\ owed' = IF history.data = NoHistory THEN owed ELSE fired
    /\ UNCHANGED <<onPage, fired>>

\* The answer: the history is refreshed in any case, the outcome is shown if the
\* panel is still there.
TestAnswered(t) ==
    /\ test[t].stage \in {"deliveredAll", "deliveryFailed"}
    /\ Invalidate
    /\ outcome' = IF test[t].attached THEN test[t].stage ELSE outcome
    /\ test' = [test EXCEPT ![t] = NoTest]
    /\ owed' = IF history.data = NoHistory THEN owed ELSE fired
    /\ UNCHANGED <<onPage, fired>>

\* No answer within 15 s, or an error.
TestFails(t) == /\ test[t].stage # "free"
                /\ outcome' = IF test[t].attached THEN "apiUnreachable" ELSE outcome
                /\ test' = [test EXCEPT ![t] = NoTest]
                /\ UNCHANGED <<onPage, fired, history, list, owed>>

PanelStep == \/ Enter \/ LeavePage \/ PollHistory \/ ListServe \/ ListDone \/ ListFails
             \/ OthersFire \/ FireTest
             \/ \E t \in Tests : TestServe(t) \/ TestAnswered(t) \/ TestFails(t)

\* A test of the dialog refreshes the history as well.
DialogStep == /\ DialogNext
              /\ \/ UNCHANGED panelVars
                 \/ /\ testing /\ ~testing'
                    /\ Invalidate
                    /\ owed' = IF history.data = NoHistory THEN owed ELSE fired
                    /\ UNCHANGED <<onPage, fired, test, outcome>>

PageNext == \/ PanelStep /\ UNCHANGED dialogVars
            \/ DialogStep

PageInit == DialogInit /\ PanelInit

PageSpec == PageInit /\ [][PageNext]_<<dialogVars, panelVars>>

-----------------------------------------------------------------------------
(* Properties *)

\* "The test alert lands in the history; refresh it right away" (useAlerts.ts:74):
\* once a test has been answered, a history on screen that is not being fetched
\* and did not fail has the test and all that fired before it, also when an older
\* answer was on its way, and when the panel was left and is shown again.  (Not
\* while the first fetch is under way: an answer that was on its way then stays
\* until the next poll.)
TestIsListed ==
    (onPage /\ list.stage = "none" /\ ~history.failed) =>
       history.data # NoHistory /\ history.data >= owed
=============================================================================
