------------------------ MODULE ServerLifecycleProofs ------------------------
(***************************************************************************)
(* What holds of the process from boot to exit, for any number of requests *)
(* under way, whenever signals and errors of the listener come.            *)
(***************************************************************************)
EXTENDS ServerLifecycle, TLAPS

\* The rest of the types.
EnvType ==
    /\ environment \in {"good", "bad", "not applicable"}
    /\ reachable \in BOOLEAN /\ stopping \in BOOLEAN
    /\ ctxDone \in BOOLEAN /\ listenFailed \in BOOLEAN

Booting == pc \in {"config", "ping", "apply"}
Leaving == pc \in {"deferred", "close", "exit", "exited"}

\* The server's goroutine sends one word on the channel, when it ends: before
\* that the channel is empty, and after it run either has still to receive the
\* word, or has returned.  The pool is there before the goroutines.
ServerInv ==
    /\ Booting => server = "none" /\ ~stopping /\ ~listenFailed /\ serveErr = {}
    /\ pc \notin {"config", "exit", "exited"} => db # "none"
    /\ pc = "select" => ~stopping
    /\ pc \in {"drain", "await"} => stopping
    /\ server \in {"starting", "accepting"} => serveErr = {} /\ ~listenFailed
    /\ "nil" \in serveErr => stopping
    /\ "listen" \in serveErr => listenFailed
    /\ (Leaving /\ server \in {"starting", "accepting"}) => err = "timeout"
    /\ (listenFailed /\ pc \in {"select", "drain", "await"}) => serveErr = {"listen"}
    /\ (listenFailed /\ Leaving) => err \in {"listen", "timeout", "killed"}

\* An error is set by the branch that returns it, with its cause at hand.
ErrInv == /\ err # "nil" => Leaving
          /\ err = "config" => environment = "bad"
          /\ err = "apply" => environment = "not applicable"
          /\ err = "listen" => listenFailed
          /\ err = "timeout" => stopping

\* After the drain no request is under way, and none is accepted any more.
DrainInv ==
    /\ db = "closed" => pc \in {"exit", "exited"}
    /\ (\E r \in Requests : request[r] = "cut") => pc = "exited"
    /\ pc = "await" => \A r \in Requests : request[r] = "none"
    /\ (Leaving /\ err = "nil") => stopping /\ \A r \in Requests : request[r] = "none"

LifecycleInv == TypeOK /\ EnvType /\ ServerInv /\ ErrInv /\ DrainInv

\* The process starts in the invariant, whatever its environment.
LEMMA LifecycleInit == Init => LifecycleInv
  BY DEF Init, LifecycleInv, EnvType, TypeOK, ServerInv, ErrInv, DrainInv, Booting, Leaving

\* Every step of run, of the goroutines and of the signal keeps the three parts
\* together: the listener's error is in the channel until run returns it.
LEMMA LifecycleStep == LifecycleInv /\ [Next]_vars => LifecycleInv'
<1> SUFFICES ASSUME TypeOK, EnvType, ServerInv, ErrInv, DrainInv, [Next]_vars
             PROVE  LifecycleInv'
  BY DEF LifecycleInv
<1> USE DEF Booting, Leaving, others
<1>1. CASE LoadConfig
  <2> USE <1>1 DEF LoadConfig
  <2>1. TypeOK'
    BY DEF TypeOK, ServerInv
  <2>2. EnvType'
    BY Zenon DEF EnvType
  <2>3. ServerInv'
    BY DEF TypeOK, ServerInv, ErrInv
  <2>4. ErrInv'
    BY DEF TypeOK, ServerInv, ErrInv
  <2>5. DrainInv'
    BY DEF TypeOK, ServerInv, ErrInv, DrainInv
  <2> QED
    BY <2>1, <2>2, <2>3, <2>4, <2>5 DEF LifecycleInv
<1>2. CASE Ping
  <2> USE <1>2 DEF Ping
  <2>1. TypeOK'
    BY DEF TypeOK, ServerInv
  <2>2. EnvType'
    BY Zenon DEF EnvType
  <2>3. ServerInv'
    BY DEF TypeOK, ServerInv, ErrInv
  <2>4. ErrInv'
    BY DEF TypeOK, ServerInv, ErrInv
  <2>5. DrainInv'
    BY DEF TypeOK, ServerInv, ErrInv, DrainInv
  <2> QED
    BY <2>1, <2>2, <2>3, <2>4, <2>5 DEF LifecycleInv
<1>3. CASE Apply
  <2> USE <1>3 DEF Apply, ReturnErr
  <2>1. TypeOK'
    BY DEF TypeOK, ServerInv
  <2>2. EnvType'
    BY Zenon DEF EnvType
  <2>3. ServerInv'
    BY DEF TypeOK, ServerInv, ErrInv
  <2>4. ErrInv'
    BY DEF TypeOK, ServerInv, ErrInv
  <2>5. DrainInv'
    BY DEF TypeOK, ServerInv, ErrInv, DrainInv
  <2> QED
    BY <2>1, <2>2, <2>3, <2>4, <2>5 DEF LifecycleInv
<1>4. CASE SelectServeErr
  <2> USE <1>4 DEF SelectServeErr, ReturnErr
  <2>1. TypeOK'
    BY DEF TypeOK, ServerInv
  <2>2. EnvType'
    BY Zenon DEF EnvType
  <2>3. ServerInv'
    BY DEF TypeOK, ServerInv, ErrInv
  <2>4. ErrInv'
    BY DEF TypeOK, ServerInv, ErrInv
  <2>5. DrainInv'
    BY DEF TypeOK, ServerInv, ErrInv, DrainInv
  <2> QED
    BY <2>1, <2>2, <2>3, <2>4, <2>5 DEF LifecycleInv
<1>5. CASE SelectSignal
  <2> USE <1>5 DEF SelectSignal
  <2>1. TypeOK'
    BY DEF TypeOK, ServerInv
  <2>2. EnvType'
    BY Zenon DEF EnvType
  <2>3. ServerInv'
    BY DEF TypeOK, ServerInv, ErrInv
  <2>4. ErrInv'
    BY DEF TypeOK, ServerInv, ErrInv
  <2>5. DrainInv'
    BY DEF TypeOK, ServerInv, ErrInv, DrainInv
  <2> QED
    BY <2>1, <2>2, <2>3, <2>4, <2>5 DEF LifecycleInv
<1>6. CASE Drained
  <2> USE <1>6 DEF Drained
  <2>1. TypeOK'
    BY DEF TypeOK, ServerInv
  <2>2. EnvType'
    BY Zenon DEF EnvType
  <2>3. ServerInv'
    BY DEF TypeOK, ServerInv, ErrInv
  <2>4. ErrInv'
    BY DEF TypeOK, ServerInv, ErrInv
  <2>5. DrainInv'
    BY DEF TypeOK, ServerInv, ErrInv, DrainInv
  <2> QED
    BY <2>1, <2>2, <2>3, <2>4, <2>5 DEF LifecycleInv
<1>7. CASE DrainTimesOut
  <2> USE <1>7 DEF DrainTimesOut, ReturnErr
  <2>1. TypeOK'
    BY DEF TypeOK, ServerInv
  <2>2. EnvType'
    BY Zenon DEF EnvType
  <2>3. ServerInv'
    BY DEF TypeOK, ServerInv, ErrInv
  <2>4. ErrInv'
    BY DEF TypeOK, ServerInv, ErrInv
  <2>5. DrainInv'
    BY DEF TypeOK, ServerInv, ErrInv, DrainInv
  <2> QED
    BY <2>1, <2>2, <2>3, <2>4, <2>5 DEF LifecycleInv
<1>8. CASE Await
  <2> USE <1>8 DEF Await, ReturnErr
  <2>1. TypeOK'
    BY DEF TypeOK, ServerInv
  <2>2. EnvType'
    BY Zenon DEF EnvType
  <2>3. ServerInv'
    BY DEF TypeOK, ServerInv, ErrInv
  <2>4. ErrInv'
    BY DEF TypeOK, ServerInv, ErrInv
  <2>5. DrainInv'
    BY DEF TypeOK, ServerInv, ErrInv, DrainInv
  <2> QED
    BY <2>1, <2>2, <2>3, <2>4, <2>5 DEF LifecycleInv
<1>9. CASE DeferredStop
  <2> USE <1>9 DEF DeferredStop
  <2>1. TypeOK'
    BY DEF TypeOK, ServerInv
  <2>2. EnvType'
    BY Zenon DEF EnvType
  <2>3. ServerInv'
    BY DEF TypeOK, ServerInv, ErrInv
  <2>4. ErrInv'
    BY DEF TypeOK, ServerInv, ErrInv
  <2>5. DrainInv'
    BY DEF TypeOK, ServerInv, ErrInv, DrainInv
  <2> QED
    BY <2>1, <2>2, <2>3, <2>4, <2>5 DEF LifecycleInv
<1>10. CASE DeferredClose
  <2> USE <1>10 DEF DeferredClose
  <2>1. TypeOK'
    BY DEF TypeOK, ServerInv
  <2>2. EnvType'
    BY Zenon DEF EnvType
  <2>3. ServerInv'
    BY DEF TypeOK, ServerInv, ErrInv
  <2>4. ErrInv'
    BY DEF TypeOK, ServerInv, ErrInv
  <2>5. DrainInv'
    BY DEF TypeOK, ServerInv, ErrInv, DrainInv
  <2> QED
    BY <2>1, <2>2, <2>3, <2>4, <2>5 DEF LifecycleInv
<1>11. CASE pc # "exited" /\ Exit
  <2> USE <1>11 DEF Exit, EndGoroutines
  <2>1. TypeOK'
    BY DEF TypeOK, ServerInv
  <2>2. EnvType'
    BY Zenon DEF EnvType
  <2>3. ServerInv'
    BY DEF TypeOK, ServerInv, ErrInv
  <2>4. ErrInv'
    BY DEF TypeOK, ServerInv, ErrInv
  <2>5. DrainInv'
    BY DEF TypeOK, ServerInv, ErrInv, DrainInv
  <2> QED
    BY <2>1, <2>2, <2>3, <2>4, <2>5 DEF LifecycleInv
<1>12. CASE pc # "exited" /\ Listen
  <2> USE <1>12 DEF Listen
  <2>1. TypeOK'
    BY DEF TypeOK, ServerInv
  <2>2. EnvType'
    BY Zenon DEF EnvType
  <2>3. ServerInv'
    BY DEF TypeOK, ServerInv, ErrInv
  <2>4. ErrInv'
    BY DEF TypeOK, ServerInv, ErrInv
  <2>5. DrainInv'
    BY DEF TypeOK, ServerInv, ErrInv, DrainInv
  <2> QED
    BY <2>1, <2>2, <2>3, <2>4, <2>5 DEF LifecycleInv
<1>13. CASE pc # "exited" /\ ListenFails
  <2> USE <1>13 DEF ListenFails
  <2>1. TypeOK'
    BY DEF TypeOK, ServerInv
  <2>2. EnvType'
    BY Zenon DEF EnvType
  <2>3. ServerInv'
    BY DEF TypeOK, ServerInv, ErrInv
  <2>4. ErrInv'
    BY DEF TypeOK, ServerInv, ErrInv
  <2>5. DrainInv'
    BY DEF TypeOK, ServerInv, ErrInv, DrainInv
  <2> QED
    BY <2>1, <2>2, <2>3, <2>4, <2>5 DEF LifecycleInv
<1>14. CASE pc # "exited" /\ ServerClosed
  <2> USE <1>14 DEF ServerClosed
  <2>1. TypeOK'
    BY DEF TypeOK, ServerInv
  <2>2. EnvType'
    BY Zenon DEF EnvType
  <2>3. ServerInv'
    BY DEF TypeOK, ServerInv, ErrInv
  <2>4. ErrInv'
    BY DEF TypeOK, ServerInv, ErrInv
  <2>5. DrainInv'
    BY DEF TypeOK, ServerInv, ErrInv, DrainInv
  <2> QED
    BY <2>1, <2>2, <2>3, <2>4, <2>5 DEF LifecycleInv
<1>15. CASE PollerWorks \/ PollerWaits \/ PollerStops
  <2>1. UNCHANGED <<pc, environment, reachable, db, server, stopping, serveErr, ctxDone, request,
                    err, listenFailed>>
    BY <1>15 DEF PollerWorks, PollerWaits, PollerStops
  <2>2. poller # "none" /\ poller' \in {"waiting", "working", "stopped"}
    BY <1>15 DEF PollerWorks, PollerWaits, PollerStops
  <2>3. TypeOK'
    BY <2>1, <2>2 DEF TypeOK
  <2>4. EnvType'
    BY <2>1, Zenon DEF EnvType
  <2>5. ServerInv'
    BY <2>1 DEF ServerInv
  <2>6. ErrInv' /\ DrainInv'
    BY <2>1 DEF ErrInv, DrainInv
  <2> QED
    BY <2>3, <2>4, <2>5, <2>6 DEF LifecycleInv
<1>16. CASE Killed
  <2> USE <1>16 DEF Killed, EndGoroutines
  <2>1. TypeOK'
    BY DEF TypeOK, ServerInv
  <2>2. EnvType'
    BY Zenon DEF EnvType
  <2>3. ServerInv'
    BY DEF TypeOK, ServerInv, ErrInv
  <2>4. ErrInv'
    BY DEF TypeOK, ServerInv, ErrInv
  <2>5. DrainInv'
    BY DEF TypeOK, ServerInv, ErrInv, DrainInv
  <2> QED
    BY <2>1, <2>2, <2>3, <2>4, <2>5 DEF LifecycleInv
<1>17. CASE Signal
  <2> USE <1>17 DEF Signal
  <2>1. TypeOK'
    BY DEF TypeOK
  <2>2. EnvType'
    BY Zenon DEF EnvType
  <2>3. ServerInv'
    BY DEF TypeOK, ServerInv, ErrInv
  <2>4. ErrInv'
    BY DEF TypeOK, ServerInv, ErrInv
  <2>5. DrainInv'
    BY DEF TypeOK, ServerInv, ErrInv, DrainInv
  <2> QED
    BY <2>1, <2>2, <2>3, <2>4, <2>5 DEF LifecycleInv
<1>18. CASE ReachabilityChanges
  <2> USE <1>18 DEF ReachabilityChanges
  <2>1. TypeOK'
    BY DEF TypeOK
  <2>2. EnvType'
    BY Zenon DEF EnvType
  <2>3. ServerInv'
    BY DEF TypeOK, ServerInv, ErrInv
  <2>4. ErrInv'
    BY DEF TypeOK, ServerInv, ErrInv
  <2>5. DrainInv'
    BY DEF TypeOK, ServerInv, ErrInv, DrainInv
  <2> QED
    BY <2>1, <2>2, <2>3, <2>4, <2>5 DEF LifecycleInv
<1>19. ASSUME pc # "exited", NEW r \in Requests, Accept(r) PROVE LifecycleInv'
  <2> USE <1>19 DEF Accept
  <2>1. TypeOK'
    BY DEF TypeOK
  <2>2. EnvType'
    BY Zenon DEF EnvType
  <2>3. ServerInv'
    BY DEF TypeOK, ServerInv, ErrInv
  <2>4. ErrInv'
    BY DEF TypeOK, ServerInv, ErrInv
  <2>5. DrainInv'
    BY DEF TypeOK, ServerInv, ErrInv, DrainInv
  <2> QED
    BY <2>1, <2>2, <2>3, <2>4, <2>5 DEF LifecycleInv
<1>20. ASSUME pc # "exited", NEW r \in Requests, Answer(r) PROVE LifecycleInv'
  <2> USE <1>20 DEF Answer
  <2>1. TypeOK'
    BY DEF TypeOK
  <2>2. EnvType'
    BY Zenon DEF EnvType
  <2>3. ServerInv'
    BY DEF TypeOK, ServerInv, ErrInv
  <2>4. ErrInv'
    BY DEF TypeOK, ServerInv, ErrInv
  <2>5. DrainInv'
    BY DEF TypeOK, ServerInv, ErrInv, DrainInv
  <2> QED
    BY <2>1, <2>2, <2>3, <2>4, <2>5 DEF LifecycleInv
<1>21. CASE UNCHANGED vars
  <2> USE <1>21 DEF vars
  <2>1. TypeOK'
    BY DEF TypeOK
  <2>2. EnvType'
    BY Zenon DEF EnvType
  <2>3. ServerInv'
    BY DEF TypeOK, ServerInv, ErrInv
  <2>4. ErrInv'
    BY DEF TypeOK, ServerInv, ErrInv
  <2>5. DrainInv'
    BY DEF TypeOK, ServerInv, ErrInv, DrainInv
  <2> QED
    BY <2>1, <2>2, <2>3, <2>4, <2>5 DEF LifecycleInv
<1> QED
  BY <1>1, <1>2, <1>3, <1>4, <1>5, <1>6, <1>7, <1>8, <1>9, <1>10, <1>11, <1>12,
     <1>13, <1>14, <1>15, <1>16, <1>17, <1>18, <1>19, <1>20, <1>21 DEF Next, Run, Serve, Poll

\* The three parts hold in every reachable state.
LEMMA LifecycleInvariant == Spec => []LifecycleInv
  BY LifecycleInit, LifecycleStep, PTL DEF Spec

\* The types, and the causes of an exit with an error (main.go:51-52): the
\* state of StarRocks is none.
THEOREM FailureAlwaysHasItsCause == Spec => [](TypeOK /\ FailureHasItsCause)
<1>1. LifecycleInv => TypeOK /\ FailureHasItsCause
  BY DEF LifecycleInv, TypeOK, ErrInv, FailureHasItsCause
<1> QED
  BY <1>1, LifecycleInvariant, PTL

\* The listener's error reaches the exit code, whichever branch the select
\* takes (main.go:162-186).
THEOREM ServeErrorAlwaysSurfaces == Spec => []ServeErrorSurfaces
<1>1. LifecycleInv => ServeErrorSurfaces
  BY DEF LifecycleInv, ServerInv, Leaving, ServeErrorSurfaces
<1> QED
  BY <1>1, LifecycleInvariant, PTL

\* An exit without an error has drained every request, and the pool is not
\* closed under any (main.go:177-186).
THEOREM CleanExitAlwaysDrains == Spec => []CleanExitDrains
<1>1. LifecycleInv => CleanExitDrains
  BY DEF LifecycleInv, DrainInv, Leaving, CleanExitDrains
<1> QED
  BY <1>1, LifecycleInvariant, PTL
==============================================================================
