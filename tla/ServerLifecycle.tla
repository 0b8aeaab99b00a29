--------------------------- MODULE ServerLifecycle ---------------------------
(***************************************************************************)
(* The process: run() of backend/cmd/server/main.go from its boot to its   *)
(* exit, with the goroutine of ListenAndServe, the poller's, the handlers  *)
(* of the requests and the signal.  The deferred calls of run (stop, then  *)
(* the close of the pool) are steps, as the other goroutines still run     *)
(* between them; the exit of the process ends whatever is left.            *)
(*                                                                         *)
(* net/http is external: Shutdown closes the listener, which makes         *)
(* ListenAndServe return ErrServerClosed, also when it is called late, and *)
(* waits for the requests under way until its context ends.                *)
(***************************************************************************)
EXTENDS Naturals

CONSTANT Requests      \* requests that may be under way at the same time

VARIABLES pc,            \* where run is
          environment,   \* what the environment variables are: a configuration
                         \* that loads and applies, or not
          reachable,     \* StarRocks answers
          db,            \* the connection pool
          poller,        \* the goroutine of Poller.Run
          server,        \* the goroutine of ListenAndServe
          stopping,      \* Shutdown was called
          serveErr,      \* what is in the channel (capacity 1)
          ctxDone,       \* the signal context has ended
          request,       \* each request
          err,           \* what run returns: the cause, or "nil"
          listenFailed   \* history variable: ListenAndServe returned an error

vars == <<pc, environment, reachable, db, poller, server, stopping, serveErr, ctxDone,
          request, err, listenFailed>>

others == <<environment, reachable, request, listenFailed>>

-----------------------------------------------------------------------------
(* Boot *)

Init == /\ pc = "config"
        /\ environment \in {"good", "bad", "not applicable"}
        /\ reachable \in BOOLEAN
        /\ db = "none"
        /\ poller = "none"
        /\ server = "none"
        /\ stopping = FALSE
        /\ serveErr = {}
        /\ ctxDone = FALSE
        /\ request = [r \in Requests |-> "none"]
        /\ err = "nil"
        /\ listenFailed = FALSE

\* run returns: what it returns is fixed, its deferred calls come next.
ReturnErr(cause) == /\ err' = cause
                    /\ pc' = "deferred"

\* config.Load, and the pool: sql.Open dials nothing.
LoadConfig ==
    /\ pc = "config"
    /\ IF environment = "bad"
       THEN err' = "config" /\ pc' = "exit" /\ UNCHANGED db    \* nothing is deferred yet
       ELSE pc' = "ping" /\ db' = "open" /\ UNCHANGED err
    /\ UNCHANGED <<poller, server, stopping, serveErr, ctxDone, others>>

\* The ping: its error is a warning.  The signal context is made after it.
Ping ==
    /\ pc = "ping"
    /\ pc' = "apply"
    /\ UNCHANGED <<db, poller, server, stopping, serveErr, ctxDone, err, others>>

\* LoadSettings (its error is a warning) and applyAlertConfig; then the poller
\* and the server are started.
Apply ==
    /\ pc = "apply"
    /\ IF environment = "not applicable"
       THEN ReturnErr("apply") /\ UNCHANGED <<poller, server>>
       ELSE /\ pc' = "select"
            /\ poller' = "waiting"
            /\ server' = "starting"
            /\ UNCHANGED err
    /\ UNCHANGED <<db, stopping, serveErr, ctxDone, others>>

\* The end of the process: no goroutine goes on.
EndGoroutines ==
    /\ pc' = "exited"
    /\ poller' = IF poller \in {"waiting", "working"} THEN "killed" ELSE poller
    /\ server' = "done"
    /\ request' = [r \in Requests |-> IF request[r] = "active" THEN "cut" ELSE request[r]]

\* A signal before its handler is there, or after stop() took it away, kills
\* the process...
Killed ==
    /\ pc \in {"config", "ping", "close", "exit"}
    /\ EndGoroutines
    /\ err' = "killed"
    /\ UNCHANGED <<environment, reachable, db, stopping, serveErr, ctxDone, listenFailed>>

\* ... and ends the context in between.  A second one changes nothing.
Signal ==
    /\ pc \in {"apply", "select", "drain", "await", "deferred"}
    /\ ctxDone' = TRUE
    /\ UNCHANGED <<pc, db, poller, server, stopping, serveErr, err, others>>

-----------------------------------------------------------------------------
(* The goroutines *)

Listen ==
    /\ server = "starting"
    /\ ~stopping
    /\ server' = "accepting"
    /\ UNCHANGED <<pc, db, poller, stopping, serveErr, ctxDone, err, others>>

\* The port is taken, which may come out after Shutdown has been called, or Accept
\* fails, which counts as ErrServerClosed from then on.
ListenFails ==
    /\ server \in {"starting", "accepting"}
    /\ server = "accepting" => ~stopping
    /\ server' = "done"
    /\ serveErr' = {"listen"}
    /\ listenFailed' = TRUE
    /\ UNCHANGED <<pc, environment, reachable, db, poller, stopping, ctxDone, request, err>>

\* Mutant: nothing is sent when the server was closed.
ServerClosedSilent ==
    /\ server \in {"starting", "accepting"}
    /\ stopping
    /\ server' = "done"
    /\ UNCHANGED <<pc, db, poller, stopping, serveErr, ctxDone, err, others>>

\* ErrServerClosed is no error.
ServerClosed ==
    /\ server \in {"starting", "accepting"}
    /\ stopping
    /\ server' = "done"
    /\ serveErr' = {"nil"}
    /\ UNCHANGED <<pc, db, poller, stopping, ctxDone, err, others>>

Accept(r) ==
    /\ server = "accepting"
    /\ ~stopping
    /\ request[r] = "none"
    /\ request' = [request EXCEPT ![r] = "active"]
    /\ UNCHANGED <<pc, environment, reachable, db, poller, server, stopping, serveErr, ctxDone,
                   err, listenFailed>>

\* A handler answers; without StarRocks, or with a closed pool, by an error.
Answer(r) ==
    /\ request[r] = "active"
    /\ request' = [request EXCEPT ![r] = "none"]
    /\ UNCHANGED <<pc, environment, reachable, db, poller, server, stopping, serveErr, ctxDone,
                   err, listenFailed>>

PollerWorks ==
    /\ poller = "waiting"
    /\ poller' = "working"
    /\ UNCHANGED <<pc, db, server, stopping, serveErr, ctxDone, err, others>>

PollerWaits ==
    /\ poller = "working"
    /\ poller' = "waiting"
    /\ UNCHANGED <<pc, db, server, stopping, serveErr, ctxDone, err, others>>

PollerStops ==
    /\ poller = "waiting"
    /\ ctxDone
    /\ poller' = "stopped"
    /\ UNCHANGED <<pc, db, server, stopping, serveErr, ctxDone, err, others>>

ReachabilityChanges ==
    /\ reachable' = ~reachable
    /\ UNCHANGED <<pc, environment, db, poller, server, stopping, serveErr, ctxDone, request,
                   err, listenFailed>>

-----------------------------------------------------------------------------
(* Shutdown *)

\* The select of run: the server's error, or the signal; at random when both
\* are ready.
SelectServeErr ==
    /\ pc = "select"
    /\ \E e \in serveErr : ReturnErr(e)
    /\ serveErr' = {}
    /\ UNCHANGED <<db, poller, server, stopping, ctxDone, others>>

SelectSignal ==
    /\ pc = "select"
    /\ ctxDone
    /\ stopping' = TRUE
    /\ pc' = "drain"
    /\ UNCHANGED <<db, poller, server, serveErr, ctxDone, err, others>>

\* Mutant: Shutdown does not wait for the requests (Close).
DrainedAtOnce ==
    /\ pc = "drain"
    /\ pc' = "await"
    /\ UNCHANGED <<db, poller, server, stopping, serveErr, ctxDone, err, others>>

\* Shutdown returns nil when no request is under way,
Drained ==
    /\ pc = "drain"
    /\ \A r \in Requests : request[r] # "active"
    /\ pc' = "await"
    /\ UNCHANGED <<db, poller, server, stopping, serveErr, ctxDone, err, others>>

\* or an error when shutdownTimeout (10s) has passed.
DrainTimesOut ==
    /\ pc = "drain"
    /\ \E r \in Requests : request[r] = "active"
    /\ ReturnErr("timeout")
    /\ UNCHANGED <<db, poller, server, stopping, serveErr, ctxDone, others>>

\* Mutant: the server's last word is not waited for.
AwaitNothing ==
    /\ pc = "await"
    /\ ReturnErr("nil")
    /\ UNCHANGED <<db, poller, server, stopping, serveErr, ctxDone, others>>

\* return <-serveErr
Await ==
    /\ pc = "await"
    /\ \E e \in serveErr : ReturnErr(e)
    /\ serveErr' = {}
    /\ UNCHANGED <<db, poller, server, stopping, ctxDone, others>>

\* The deferred calls: stop() ends the context,
DeferredStop ==
    /\ pc = "deferred"
    /\ ctxDone' = TRUE
    /\ pc' = "close"
    /\ UNCHANGED <<db, poller, server, stopping, serveErr, err, others>>

\* db.Close(), when the pool was made,
DeferredClose ==
    /\ pc = "close"
    /\ db' = IF db = "open" THEN "closed" ELSE db
    /\ pc' = "exit"
    /\ UNCHANGED <<poller, server, stopping, serveErr, ctxDone, err, others>>

\* and main returns, or exits with 1.
Exit ==
    /\ pc = "exit"
    /\ EndGoroutines
    /\ UNCHANGED <<environment, reachable, db, stopping, serveErr, ctxDone, err, listenFailed>>

Run == \/ LoadConfig \/ Ping \/ Apply \/ SelectServeErr \/ SelectSignal \/ Drained
       \/ DrainTimesOut \/ Await \/ DeferredStop \/ DeferredClose \/ Exit

Serve == Listen \/ ListenFails \/ ServerClosed

Poll == PollerWorks \/ PollerWaits \/ PollerStops

Next == \/ pc # "exited" /\ \/ Run \/ Serve \/ Poll \/ Killed \/ Signal
                            \/ ReachabilityChanges
                            \/ \E r \in Requests : Accept(r) \/ Answer(r)

Spec == Init /\ [][Next]_vars

\* The main goroutine runs, and ListenAndServe returns once the server is
\* closed; no handler is assumed to end.
FairSpec == Spec /\ WF_vars(Run) /\ WF_vars(ServerClosed)

-----------------------------------------------------------------------------
(* Properties *)

\* Every variable has its type, and there is a pool before there is a goroutine
\* that uses it.
TypeOK ==
    /\ pc \in {"config", "ping", "apply", "select", "drain", "await", "deferred", "close",
               "exit", "exited"}
    /\ db \in {"none", "open", "closed"}
    /\ poller \in {"none", "waiting", "working", "stopped", "killed"}
    /\ server \in {"none", "starting", "accepting", "done"}
    /\ serveErr \subseteq {"nil", "listen"} /\ serveErr # {"nil", "listen"}
    /\ request \in [Requests -> {"none", "active", "cut"}]
    /\ err \in {"nil", "config", "apply", "listen", "timeout", "killed"}
    /\ poller # "none" => db # "none"

\* "draining connections" (main.go:177): an exit without an error cuts no
\* request off, and the pool is not closed under a handler that is still to
\* answer, whatever the order of the signal, the server's error and the requests.
CleanExitDrains ==
    (err = "nil" /\ (db = "closed" \/ pc = "exited"))
       => \A r \in Requests : request[r] = "none"

\* The error of ListenAndServe is never lost, also when the signal comes at the
\* same time and the select takes the other branch (main.go:162-186): the exit
\* code tells.
ServeErrorSurfaces == (pc = "exited" /\ listenFailed) => err \in {"listen", "timeout", "killed"}

\* "Reachability is reported, not required: an observability dashboard has to
\* boot while the cluster it watches is down" (main.go:51-52): the process ends
\* with an error only for a configuration that does not load or apply, an error
\* of the server or of the drain, or because it was killed.
FailureHasItsCause ==
    CASE err = "config" -> environment = "bad"
      [] err = "apply" -> environment = "not applicable"
      [] err = "listen" -> listenFailed
      [] err = "timeout" -> stopping
      [] OTHER -> err \in {"nil", "killed"}

\* The process exits after a signal, also when handlers never end
\* (main.go:173-186).
SignalEndsTheProcess == ctxDone ~> pc = "exited"
=============================================================================
