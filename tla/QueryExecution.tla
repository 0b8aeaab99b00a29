--------------------------- MODULE QueryExecution ---------------------------
(***************************************************************************)
(* A worksheet statement from POST /query to the connection pool and back: *)
(* QueryService.Execute (backend/internal/service/query_service.go) and    *)
(* QueryRepository.Execute (backend/internal/repository/query_repository.  *)
(* go).  A scoped request changes its connection's session with USE, so    *)
(* the session database of every pooled connection is state.               *)
(*                                                                         *)
(* database/sql, the MySQL driver and StarRocks are external: a connection *)
(* is opened on the DSN's database, a USE the server rejects leaves the    *)
(* session alone, and an operation whose context ends may break its        *)
(* connection, which the pool then discards.                               *)
(***************************************************************************)
EXTENDS Integers

CONSTANTS Requests,        \* handlers of POST /query
          Conns,           \* connections the pool may have open (MaxOpenConns)
          Databases,       \* databases a request may name
          NoDb,            \* no database ("" in the code)
          DefaultDb,       \* QueryRepository.defaultDatabase
          NoConn,          \* the handler holds no connection
          ReadOnly,        \* QueryPolicy.ReadOnly
          PolicyMaxRows,   \* QueryPolicy.MaxRows
          AskedRows,       \* values of the request's maxRows
          ResultRows       \* bound: rows a statement may return

ASSUME QueryAssumption ==
    /\ NoConn \notin Conns
    /\ NoDb \notin Databases
    /\ DefaultDb \in Databases \cup {NoDb}
    /\ ReadOnly \in BOOLEAN
    /\ PolicyMaxRows \in Nat \ {0}
    /\ AskedRows \subseteq Int
    /\ ResultRows \in Nat

VARIABLES open,        \* connections the pool has open
          idle,        \* those that are in the pool
          session,     \* the session database of each connection
          broken,      \* connections the driver will not use again
          pc,          \* where each request is
          req,         \* its statement, database and effective row cap
          conn,        \* its connection
          ctx,         \* its context: live, expired (QUERY_TIMEOUT) or cancelled
          available,   \* rows the server has for it
          got,         \* rows collected
          truncated,   \* QueryResultSet.Truncated
          err,         \* the error so far
          ranIn        \* history variable: database the statement ran in

pool == <<open, idle, session, broken>>
request == <<pc, req, conn, ctx, available, got, truncated, err, ranIn>>
vars == <<pool, request>>

-----------------------------------------------------------------------------
(* Data *)

Kinds == {"blank", "read", "use", "write"}

\* The read-only gate: the first keyword is one of readOnlyKeywords.
Allowed(kind) == ReadOnly => kind = "read"

\* The row cap: the policy's, unless the request asks for less.
Clamp(n) == IF n <= 0 \/ n > PolicyMaxRows THEN PolicyMaxRows ELSE n

scoped(r) == req[r].db # NoDb /\ req[r].db # DefaultDb

Wanted(r) == IF req[r].db = NoDb THEN DefaultDb ELSE req[r].db

\* What the request is answered: classifyExecError puts the deadline before
\* what the server said, and blames StarRocks for the rest.
Outcome(r) == CASE err[r] = "none" -> "ok"
                [] err[r] # "none" /\ ctx[r] = "expired" -> "timeout"
                [] err[r] = "sql" /\ ctx[r] # "expired" -> "failed"
                [] OTHER -> "unavailable"

NoRequest == [kind |-> "blank", target |-> NoDb, db |-> NoDb, maxRows |-> 0]

-----------------------------------------------------------------------------
(* Actions *)

Init == /\ open = {}
        /\ idle = {}
        /\ session = [c \in Conns |-> DefaultDb]
        /\ broken = {}
        /\ pc = [r \in Requests |-> "idle"]
        /\ req = [r \in Requests |-> NoRequest]
        /\ conn = [r \in Requests |-> NoConn]
        /\ ctx = [r \in Requests |-> "live"]
        /\ available = [r \in Requests |-> 0]
        /\ got = [r \in Requests |-> 0]
        /\ truncated = [r \in Requests |-> FALSE]
        /\ err = [r \in Requests |-> "none"]
        /\ ranIn = [r \in Requests |-> NoDb]

\* An empty or blocked statement is answered without a connection.
Refuse(r, kind) ==
    /\ pc[r] = "idle"
    /\ kind = "blank" \/ ~Allowed(kind)
    /\ UNCHANGED vars

\* QueryService.Execute accepts the statement; target is what a USE statement
\* names.
Submit(r, kind, target, db, asked) ==
    /\ pc[r] = "idle"
    /\ kind # "blank" /\ Allowed(kind)
    /\ req' = [req EXCEPT ![r] = [kind |-> kind, target |-> target, db |-> db,
                                  maxRows |-> Clamp(asked)]]
    /\ pc' = [pc EXCEPT ![r] = "acquire"]
    /\ UNCHANGED <<pool, conn, ctx, available, got, truncated, err, ranIn>>

\* The timeout elapses, or the client goes away, at any time.
ContextEnds(r, how) ==
    /\ pc[r] # "idle"
    /\ ctx[r] = "live"
    /\ ctx' = [ctx EXCEPT ![r] = how]
    /\ UNCHANGED <<pool, pc, req, conn, available, got, truncated, err, ranIn>>

\* db.Conn(ctx): an idle connection, or a new one while the limit allows it.
Acquire(r) ==
    /\ pc[r] = "acquire"
    /\ \E c \in idle \cup (Conns \ open) :
          /\ open' = open \cup {c}
          /\ idle' = idle \ {c}
          /\ session' = IF c \in open THEN session ELSE [session EXCEPT ![c] = DefaultDb]
          /\ conn' = [conn EXCEPT ![r] = c]
    /\ pc' = [pc EXCEPT ![r] = IF scoped(r) THEN "use" ELSE "query"]
    /\ UNCHANGED <<broken, req, ctx, available, got, truncated, err, ranIn>>

\* The handler answers and is gone.
Answer(r) ==
    /\ pc' = [pc EXCEPT ![r] = "idle"]
    /\ req' = [req EXCEPT ![r] = NoRequest]
    /\ conn' = [conn EXCEPT ![r] = NoConn]
    /\ ctx' = [ctx EXCEPT ![r] = "live"]
    /\ available' = [available EXCEPT ![r] = 0]
    /\ got' = [got EXCEPT ![r] = 0]
    /\ truncated' = [truncated EXCEPT ![r] = FALSE]
    /\ err' = [err EXCEPT ![r] = "none"]
    /\ ranIn' = [ranIn EXCEPT ![r] = NoDb]

\* No connection came free before the context ended, or a new one could not be
\* opened.
AcquireFails(r) ==
    /\ pc[r] = "acquire"
    /\ ctx[r] # "live" \/ Conns \ open # {}
    /\ Answer(r)
    /\ UNCHANGED pool

\* The ways an operation on r's connection fails: the server says no, or the
\* context or the network ends it, which may break the connection.
Failure(r, next) ==
    /\ \/ UNCHANGED broken /\ err' = [err EXCEPT ![r] = "sql"]
       \/ /\ broken' \in {broken, broken \cup {conn[r]}}
          /\ err' = [err EXCEPT ![r] = "net"]
    /\ pc' = [pc EXCEPT ![r] = next]

\* USE database; an error returns before the restore is deferred.
Use(r) ==
    /\ pc[r] = "use"
    /\ conn[r] \notin broken
    /\ session' = [session EXCEPT ![conn[r]] = req[r].db]
    /\ pc' = [pc EXCEPT ![r] = "query"]
    /\ UNCHANGED <<open, idle, broken, req, conn, ctx, available, got, truncated,
                   err, ranIn>>

UseFails(r) ==
    /\ pc[r] = "use"
    /\ Failure(r, "close")
    /\ UNCHANGED <<open, idle, session, req, conn, ctx, available, got, truncated, ranIn>>

\* The deferred calls run after the statement: rows.Close, the restore of a
\* scoped request, conn.Close.
Deferred(r) == IF scoped(r) THEN "restore" ELSE "close"

\* conn.QueryContext: the statement runs in the session's database; a USE
\* statement changes it.
Query(r) ==
    /\ pc[r] = "query"
    /\ conn[r] \notin broken
    /\ ranIn' = [ranIn EXCEPT ![r] = session[conn[r]]]
    /\ session' = IF req[r].kind = "use"
                  THEN [session EXCEPT ![conn[r]] = req[r].target] ELSE session
    /\ \E n \in 0..ResultRows : available' = [available EXCEPT ![r] = n]
    /\ pc' = [pc EXCEPT ![r] = "read"]
    /\ UNCHANGED <<open, idle, broken, req, conn, ctx, got, truncated, err>>

QueryFails(r) ==
    /\ pc[r] = "query"
    /\ Failure(r, Deferred(r))
    /\ UNCHANGED <<open, idle, session, req, conn, ctx, available, got, truncated, ranIn>>

\* collectResultSet: rows.Next and Scan while the cap allows it.
ReadRow(r) ==
    /\ pc[r] = "read"
    /\ got[r] < req[r].maxRows
    /\ available[r] > 0
    /\ got' = [got EXCEPT ![r] = @ + 1]
    /\ available' = [available EXCEPT ![r] = @ - 1]
    /\ UNCHANGED <<pool, pc, req, conn, ctx, truncated, err, ranIn>>

\* Mutant: a result that reaches the cap counts as truncated.
ReadEndAtCap(r) ==
    /\ pc[r] = "read"
    /\ got[r] = req[r].maxRows \/ available[r] = 0
    /\ truncated' = [truncated EXCEPT ![r] = got[r] = req[r].maxRows]
    /\ pc' = [pc EXCEPT ![r] = Deferred(r)]
    /\ UNCHANGED <<pool, req, conn, ctx, available, got, err, ranIn>>

\* The loop ends; at the cap, one more Next tells whether rows are left.
ReadEnd(r) ==
    /\ pc[r] = "read"
    /\ got[r] = req[r].maxRows \/ available[r] = 0
    /\ truncated' = [truncated EXCEPT ![r] = got[r] = req[r].maxRows /\ available[r] > 0]
    /\ pc' = [pc EXCEPT ![r] = Deferred(r)]
    /\ UNCHANGED <<pool, req, conn, ctx, available, got, err, ranIn>>

\* A Scan or rows.Err error: what was collected is thrown away.
ReadFails(r) ==
    /\ pc[r] = "read"
    /\ Failure(r, Deferred(r))
    /\ UNCHANGED <<open, idle, session, req, conn, ctx, available, got, truncated, ranIn>>

\* Mutant: a restore that fails leaves the connection as it is.
RestoreNoPoison(r) ==
    /\ pc[r] = "restore"
    /\ \/ /\ DefaultDb # NoDb /\ conn[r] \notin broken
          /\ session' = [session EXCEPT ![conn[r]] = DefaultDb]
       \/ UNCHANGED session
    /\ pc' = [pc EXCEPT ![r] = "close"]
    /\ UNCHANGED <<open, idle, broken, req, conn, ctx, available, got, truncated,
                   err, ranIn>>

\* restoreDatabase: USE the default database, or poison the connection when
\* there is none or the USE fails.
Restore(r) ==
    /\ pc[r] = "restore"
    /\ \/ /\ DefaultDb # NoDb /\ conn[r] \notin broken
          /\ session' = [session EXCEPT ![conn[r]] = DefaultDb]
          /\ UNCHANGED broken
       \/ /\ broken' = broken \cup {conn[r]}
          /\ UNCHANGED session
    /\ pc' = [pc EXCEPT ![r] = "close"]
    /\ UNCHANGED <<open, idle, req, conn, ctx, available, got, truncated, err, ranIn>>

\* Mutant: the connection is forgotten when the request failed.
CloseLeaks(r) ==
    /\ pc[r] = "close"
    /\ idle' = IF err[r] # "none" THEN idle ELSE idle \cup {conn[r]}
    /\ UNCHANGED <<open, broken>>
    /\ Answer(r)
    /\ UNCHANGED session

\* conn.Close: back to the pool, or discarded when broken; then the answer.
Close(r) ==
    /\ pc[r] = "close"
    /\ IF conn[r] \in broken
       THEN /\ open' = open \ {conn[r]}
            /\ broken' = broken \ {conn[r]}
            /\ UNCHANGED idle
       ELSE /\ idle' = idle \cup {conn[r]}
            /\ UNCHANGED <<open, broken>>
    /\ Answer(r)
    /\ UNCHANGED session

\* The pool retires idle connections (ConnMaxLifetime, ConnMaxIdleTime).
Retire(c) ==
    /\ c \in idle
    /\ open' = open \ {c}
    /\ idle' = idle \ {c}
    /\ UNCHANGED <<session, broken, request>>

Step(r) == \/ Acquire(r) \/ AcquireFails(r) \/ Use(r) \/ UseFails(r) \/ Query(r)
           \/ QueryFails(r) \/ ReadRow(r) \/ ReadEnd(r) \/ ReadFails(r) \/ Restore(r)
           \/ Close(r)

Next == \/ \E r \in Requests :
              \/ \E kind \in Kinds : Refuse(r, kind)
              \/ \E kind \in Kinds, db \in Databases \cup {NoDb}, asked \in AskedRows :
                    \E target \in IF kind = "use" THEN Databases ELSE {NoDb} :
                       Submit(r, kind, target, db, asked)
              \/ \E how \in {"expired", "cancelled"} : ContextEnds(r, how)
              \/ Step(r)
        \/ \E c \in Conns : Retire(c)

Spec == Init /\ [][Next]_vars

\* Every operation on a connection ends, at the latest with its context; the
\* restore has no deadline and ends because StarRocks answers or the network
\* reports a failure.  A connection that comes free is given to one of the
\* requests that wait for it, picked at random, so none is passed over forever.
FairSpec == /\ Spec
            /\ \A r \in Requests : /\ WF_vars(Step(r))
                                   /\ SF_vars(Acquire(r))

-----------------------------------------------------------------------------
(* Properties *)

\* Every variable has its type, and no more rows are kept than the cap.
TypeOK ==
    /\ open \subseteq Conns /\ idle \subseteq open /\ broken \subseteq open
    /\ session \in [Conns -> Databases \cup {NoDb}]
    /\ pc \in [Requests -> {"idle", "acquire", "use", "query", "read", "restore", "close"}]
    /\ \A r \in Requests : req[r].db \in Databases \cup {NoDb}
    /\ conn \in [Requests -> Conns \cup {NoConn}]
    /\ ctx \in [Requests -> {"live", "expired", "cancelled"}]
    /\ \A r \in Requests : got[r] \in 0..req[r].maxRows
    /\ ranIn \in [Requests -> Databases \cup {NoDb}]

\* conn (query_repository.go:61-65): the connections that are open and not in
\* the pool are exactly those of the requests under way, one each, so none is
\* shared between two requests and none is lost to the pool.
EveryConnOwned ==
    /\ \A r, s \in Requests : (conn[r] # NoConn /\ conn[r] = conn[s]) => r = s
    /\ open \ idle = {conn[r] : r \in Requests} \ {NoConn}

\* "so pooled connections never leak a USE from one request into the next"
\* (query_repository.go:28-29): a statement runs in the database its request
\* names, or in the DSN's when it names none.
RunsWhereAsked ==
    \A r \in Requests : pc[r] = "read" => ranIn[r] = Wanted(r)

\* A connection in the pool is on the DSN's database (query_repository.go:57-59).
PoolIsClean == \A c \in idle : session[c] = DefaultDb /\ c \notin broken

\* collectResultSet and the cap (query_service.go:91-94, query_repository.go:
\* 121-145): a result has at most the capped number of rows, and is marked
\* truncated exactly when the server had more.
TruncationIsExact ==
    \A r \in Requests :
       (pc[r] = "close" /\ Outcome(r) = "ok") =>
          /\ got[r] <= PolicyMaxRows
          /\ truncated[r] <=> available[r] > 0
          /\ truncated[r] => got[r] = req[r].maxRows

\* Every accepted request is answered, and with EveryConnOwned its connection
\* is back in the pool or closed (query_repository.go:65).
QueryAnswered == \A r \in Requests : pc[r] # "idle" ~> pc[r] = "idle"
=============================================================================
