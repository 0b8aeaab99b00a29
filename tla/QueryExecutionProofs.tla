------------------------ MODULE QueryExecutionProofs ------------------------
(***************************************************************************)
(* What holds of the execution of worksheet statements for any number of   *)
(* requests, connections and databases, and any row cap.                   *)
(***************************************************************************)
EXTENDS QueryExecution, TLAPS

-----------------------------------------------------------------------------
(* Types and the ownership of connections *)

\* The parts of the type that TypeOK leaves to the reader.
FullType ==
    /\ TypeOK
    /\ req \in [Requests -> [kind : Kinds, target : Databases \cup {NoDb},
                             db : Databases \cup {NoDb}, maxRows : 0..PolicyMaxRows]]
    /\ available \in [Requests -> Nat]
    /\ got \in [Requests -> Nat]
    /\ truncated \in [Requests -> BOOLEAN]
    /\ err \in [Requests -> {"none", "sql", "net"}]

\* A request holds a connection exactly while it is between Acquire and Close,
\* and what it holds is open and not in the pool.
Holds ==
    \A r \in Requests :
       IF pc[r] \in {"idle", "acquire"} THEN conn[r] = NoConn ELSE conn[r] \in open \ idle

\* Before its statement runs, a request has no rows and no error.
Fresh ==
    \A r \in Requests : pc[r] \in {"idle", "acquire", "use", "query"} =>
       got[r] = 0 /\ ~truncated[r] /\ err[r] = "none"

PoolInv == FullType /\ Holds /\ EveryConnOwned /\ idle \cap broken = {} /\ Fresh

\* Clamp keeps the cap within the policy's (query_service.go:91-94).
LEMMA ClampType == \A n \in AskedRows : Clamp(n) \in 0..PolicyMaxRows
  BY QueryAssumption DEF Clamp

\* A request that answers gives up its connection and forgets its statement.
LEMMA AnswerType ==
    ASSUME PoolInv, NEW r \in Requests, Answer(r),
           UNCHANGED session, open' \subseteq Conns, idle' \subseteq open',
           broken' \subseteq open'
    PROVE  FullType'
<1>1. NoRequest \in [kind : Kinds, target : Databases \cup {NoDb},
                     db : Databases \cup {NoDb}, maxRows : 0..PolicyMaxRows]
  BY QueryAssumption DEF NoRequest, Kinds
<1>2. req' \in [Requests -> [kind : Kinds, target : Databases \cup {NoDb},
                             db : Databases \cup {NoDb}, maxRows : 0..PolicyMaxRows]]
  BY <1>1 DEF PoolInv, FullType, Answer
<1>3. \A s \in Requests : got'[s] \in 0..req'[s].maxRows
  BY QueryAssumption DEF PoolInv, FullType, TypeOK, Answer, NoRequest
<1>4. \A s \in Requests : req'[s].db \in Databases \cup {NoDb}
  BY <1>2
<1> QED
  BY <1>2, <1>3, <1>4 DEF PoolInv, FullType, TypeOK, Answer

\* An operation that fails may break the request's connection, and no other
\* (query_repository.go:71, 77, 81).
LEMMA FailureStep ==
    ASSUME PoolInv, NEW r \in Requests, pc[r] \in {"use", "query", "read"},
           NEW next \in {"restore", "close"}, Failure(r, next),
           UNCHANGED <<open, idle, session, req, conn, ctx, available, got, truncated, ranIn>>
    PROVE  PoolInv'
<1>1. conn[r] \in open \ idle
  BY DEF PoolInv, Holds
<1>2. broken' \subseteq broken \cup {conn[r]}
  BY DEF Failure
<1>3. err' \in [Requests -> {"none", "sql", "net"}]
      /\ \A s \in Requests \ {r} : err'[s] = err[s]
  BY DEF Failure, PoolInv, FullType
<1>4. /\ pc' = [pc EXCEPT ![r] = next]
      /\ pc' \in [Requests -> {"idle", "acquire", "use", "query", "read", "restore", "close"}]
  BY DEF Failure, PoolInv, FullType, TypeOK
<1>5. FullType'
  BY <1>1, <1>2, <1>3, <1>4 DEF PoolInv, FullType, TypeOK
<1>6. Holds'
  BY <1>1, <1>4 DEF PoolInv, Holds, FullType, TypeOK
<1>7. EveryConnOwned' /\ (idle \cap broken = {})'
  BY <1>1, <1>2 DEF PoolInv, EveryConnOwned
<1>8. Fresh'
  BY <1>3, <1>4 DEF PoolInv, Fresh, FullType, TypeOK
<1> QED
  BY <1>5, <1>6, <1>7, <1>8 DEF PoolInv

\* No step leaves the types, loses a connection or shares one: the acquired
\* connection comes from the pool or is new, and only Close gives it back
\* (query_repository.go:61-65).
LEMMA PoolStep == PoolInv /\ [Next]_vars => PoolInv'
<1> SUFFICES ASSUME PoolInv, [Next]_vars PROVE PoolInv'
  OBVIOUS
<1> USE QueryAssumption DEF PoolInv, FullType, TypeOK, Holds, EveryConnOwned, Fresh, pool
<1>1. ASSUME NEW r \in Requests, NEW kind \in Kinds, Refuse(r, kind) PROVE PoolInv'
  BY <1>1 DEF Refuse, vars, request
<1>2. ASSUME NEW r \in Requests, NEW kind \in Kinds, NEW db \in Databases \cup {NoDb},
             NEW asked \in AskedRows, NEW target \in Databases \cup {NoDb},
             Submit(r, kind, target, db, asked)
      PROVE PoolInv'
  <2>1. Clamp(asked) \in 0..PolicyMaxRows
    BY ClampType
  <2>2. req' \in [Requests -> [kind : Kinds, target : Databases \cup {NoDb},
                               db : Databases \cup {NoDb}, maxRows : 0..PolicyMaxRows]]
    BY <1>2, <2>1 DEF Submit
  <2> QED
    BY <1>2, <2>1, <2>2 DEF Submit
<1>3. ASSUME NEW r \in Requests, NEW how \in {"expired", "cancelled"}, ContextEnds(r, how)
      PROVE PoolInv'
  BY <1>3 DEF ContextEnds
<1>4. ASSUME NEW r \in Requests, Acquire(r) PROVE PoolInv'
  BY <1>4 DEF Acquire
<1>5. ASSUME NEW r \in Requests, AcquireFails(r) PROVE PoolInv'
  <2>1. FullType'
    BY <1>5, AnswerType DEF AcquireFails
  <2> QED
    BY <1>5, <2>1 DEF AcquireFails, Answer
<1>6. ASSUME NEW r \in Requests, Use(r) PROVE PoolInv'
  BY <1>6 DEF Use
<1>7. ASSUME NEW r \in Requests, UseFails(r) PROVE PoolInv'
  BY <1>7, FailureStep DEF UseFails, Deferred
<1>8. ASSUME NEW r \in Requests, Query(r) PROVE PoolInv'
  BY <1>8 DEF Query
<1>9. ASSUME NEW r \in Requests, QueryFails(r) PROVE PoolInv'
  BY <1>9, FailureStep DEF QueryFails, Deferred
<1>10. ASSUME NEW r \in Requests, ReadRow(r) PROVE PoolInv'
  BY <1>10 DEF ReadRow
<1>11. ASSUME NEW r \in Requests, ReadEnd(r) PROVE PoolInv'
  BY <1>11 DEF ReadEnd, Deferred
<1>12. ASSUME NEW r \in Requests, ReadFails(r) PROVE PoolInv'
  BY <1>12, FailureStep DEF ReadFails, Deferred
<1>13. ASSUME NEW r \in Requests, Restore(r) PROVE PoolInv'
  <2>1. conn[r] \in open \ idle /\ conn[r] \in Conns
    BY <1>13 DEF Restore
  <2>2. broken' \subseteq broken \cup {conn[r]}
    BY <1>13 DEF Restore
  <2>3. session' \in [Conns -> Databases \cup {NoDb}]
    BY <1>13, <2>1 DEF Restore
  <2>4. FullType'
    BY <1>13, <2>1, <2>2, <2>3 DEF Restore
  <2>5. Holds' /\ EveryConnOwned' /\ (idle \cap broken = {})' /\ Fresh'
    BY <1>13, <2>1, <2>2 DEF Restore
  <2> QED
    BY <2>4, <2>5
<1>14. ASSUME NEW r \in Requests, Close(r) PROVE PoolInv'
  <2>1. conn[r] \in open \ idle
    BY <1>14 DEF Close
  <2>2. open' \subseteq Conns /\ idle' \subseteq open' /\ broken' \subseteq open'
    BY <1>14, <2>1 DEF Close
  <2>3. FullType'
    BY <1>14, <2>2, AnswerType DEF Close
  <2>4. Holds'
    BY <1>14 DEF Close, Answer
  <2>5. EveryConnOwned'
    BY <1>14 DEF Close, Answer
  <2>6. (idle \cap broken = {})' /\ Fresh'
    BY <1>14 DEF Close, Answer
  <2> QED
    BY <2>3, <2>4, <2>5, <2>6
<1>15. ASSUME NEW c \in Conns, Retire(c) PROVE PoolInv'
  <2>1. c \notin broken /\ \A r \in Requests : conn[r] # c
    BY <1>15 DEF Retire
  <2>2. open' \ idle' = open \ idle
    BY <1>15 DEF Retire
  <2> QED
    BY <1>15, <2>1, <2>2 DEF Retire, request
<1>16. CASE UNCHANGED vars
  BY <1>16 DEF vars, request
<1> HIDE QueryAssumption DEF PoolInv, FullType, TypeOK, Holds, EveryConnOwned, Fresh, pool
<1> QED
  BY <1>1, <1>2, <1>3, <1>4, <1>5, <1>6, <1>7, <1>8, <1>9, <1>10, <1>11, <1>12, <1>13,
     <1>14, <1>15, <1>16 DEF Next, Step

\* The pool invariant holds of every behaviour.
LEMMA PoolInvariant == Spec => []PoolInv
<1>1. Init => PoolInv
  <2> SUFFICES ASSUME Init PROVE PoolInv
    OBVIOUS
  <2>1. NoRequest \in [kind : Kinds, target : Databases \cup {NoDb},
                       db : Databases \cup {NoDb}, maxRows : 0..PolicyMaxRows]
    BY QueryAssumption DEF NoRequest, Kinds
  <2>2. FullType
    BY <2>1, QueryAssumption DEF Init, FullType, TypeOK, NoRequest
  <2> QED
    BY <2>2 DEF Init, PoolInv, Holds, EveryConnOwned, Fresh
<1> QED
  BY <1>1, PoolStep, PTL DEF Spec

\* Every request holds a connection of its own, and none is lost, whatever
\* fails and whenever contexts end (query_repository.go:61-65).
THEOREM ConnectionsAreOwned == Spec => [](TypeOK /\ EveryConnOwned)
<1>1. PoolInv => TypeOK /\ EveryConnOwned
  BY DEF PoolInv, FullType
<1> QED
  BY <1>1, PoolInvariant, PTL

-----------------------------------------------------------------------------
(* The session database *)

\* Where the session of a connection is while a request works on it: on the
\* DSN's database before the USE, on the wanted one until the restore, and on
\* the DSN's again, or broken, when it goes back.  Only with the read-only
\* policy: a USE statement of the user's own moves an unscoped session.
SessionInv ==
    /\ ReadOnly
    /\ PoolIsClean
    /\ \A r \in Requests :
          /\ pc[r] \notin {"idle", "acquire"} => req[r].kind = "read"
          /\ pc[r] = "acquire" => req[r].kind = "read"
          /\ pc[r] = "use" => scoped(r) /\ session[conn[r]] = DefaultDb
          /\ pc[r] \in {"query", "read"} => session[conn[r]] = Wanted(r)
          /\ pc[r] = "read" => ranIn[r] = Wanted(r)
          /\ pc[r] = "restore" => scoped(r)
          /\ pc[r] = "close" => session[conn[r]] = DefaultDb \/ conn[r] \in broken

\* An operation on r's connection cannot change what another request finds on
\* its own.
LEMMA SessionStep == PoolInv /\ SessionInv /\ [Next]_vars => SessionInv'
<1> SUFFICES ASSUME PoolInv, SessionInv, [Next]_vars PROVE SessionInv'
  OBVIOUS
<1> USE QueryAssumption
    DEF PoolInv, FullType, TypeOK, Holds, EveryConnOwned, SessionInv, PoolIsClean,
        scoped, Wanted, pool
<1>1. ASSUME NEW r \in Requests, NEW kind \in Kinds, Refuse(r, kind) PROVE SessionInv'
  BY <1>1 DEF Refuse, vars, request
<1>2. ASSUME NEW r \in Requests, NEW kind \in Kinds, NEW db \in Databases \cup {NoDb},
             NEW asked \in AskedRows, NEW target \in Databases \cup {NoDb},
             Submit(r, kind, target, db, asked)
      PROVE SessionInv'
  BY <1>2 DEF Submit, Allowed
<1>3. ASSUME NEW r \in Requests, NEW how \in {"expired", "cancelled"}, ContextEnds(r, how)
      PROVE SessionInv'
  BY <1>3 DEF ContextEnds
<1>4. ASSUME NEW r \in Requests, Acquire(r) PROVE SessionInv'
  BY <1>4 DEF Acquire
<1>5. ASSUME NEW r \in Requests, AcquireFails(r) PROVE SessionInv'
  BY <1>5 DEF AcquireFails, Answer
<1>6. ASSUME NEW r \in Requests, Use(r) PROVE SessionInv'
  BY <1>6 DEF Use
<1>7. ASSUME NEW r \in Requests, UseFails(r) PROVE SessionInv'
  BY <1>7 DEF UseFails, Failure
<1>8. ASSUME NEW r \in Requests, Query(r) PROVE SessionInv'
  BY <1>8 DEF Query
<1>9. ASSUME NEW r \in Requests, QueryFails(r) PROVE SessionInv'
  BY <1>9 DEF QueryFails, Failure, Deferred
<1>10. ASSUME NEW r \in Requests, ReadRow(r) PROVE SessionInv'
  BY <1>10 DEF ReadRow
<1>11. ASSUME NEW r \in Requests, ReadEnd(r) PROVE SessionInv'
  BY <1>11 DEF ReadEnd, Deferred
<1>12. ASSUME NEW r \in Requests, ReadFails(r) PROVE SessionInv'
  BY <1>12 DEF ReadFails, Failure, Deferred
<1>13. ASSUME NEW r \in Requests, Restore(r) PROVE SessionInv'
  BY <1>13 DEF Restore
<1>14. ASSUME NEW r \in Requests, Close(r) PROVE SessionInv'
  BY <1>14 DEF Close, Answer
<1>15. ASSUME NEW c \in Conns, Retire(c) PROVE SessionInv'
  BY <1>15 DEF Retire, request
<1>16. CASE UNCHANGED vars
  BY <1>16 DEF vars, request
<1> HIDE QueryAssumption DEF PoolInv, FullType, TypeOK, Holds, EveryConnOwned, SessionInv,
                             PoolIsClean, scoped, Wanted, pool
<1> QED
  BY <1>1, <1>2, <1>3, <1>4, <1>5, <1>6, <1>7, <1>8, <1>9, <1>10, <1>11, <1>12, <1>13,
     <1>14, <1>15, <1>16 DEF Next, Step

\* Under the read-only policy, the session invariant holds of every behaviour.
LEMMA SessionInvariant == ReadOnly /\ Spec => []SessionInv
<1>1. ReadOnly /\ Init => SessionInv
  BY DEF Init, SessionInv, PoolIsClean
<1> QED
  BY <1>1, SessionStep, PoolInvariant, PTL DEF Spec

\* "pooled connections never leak a USE from one request into the next"
\* (query_repository.go:28-29): under the read-only policy, for any number of
\* requests and connections, whatever fails, every statement runs in the
\* database its request names.
THEOREM StatementsRunWhereAsked == ReadOnly /\ Spec => []RunsWhereAsked
<1>1. SessionInv => RunsWhereAsked
  BY DEF SessionInv, RunsWhereAsked
<1> QED
  BY <1>1, SessionInvariant, PTL

\* A connection in the pool is on the DSN's database and not broken
\* (query_repository.go:57-59, 83-104).
THEOREM PoolStaysClean == ReadOnly /\ Spec => []PoolIsClean
<1>1. SessionInv => PoolIsClean
  BY DEF SessionInv
<1> QED
  BY <1>1, SessionInvariant, PTL

-----------------------------------------------------------------------------
(* The row cap *)

\* Once the rows are read, what is marked is what was seen: rows are left only
\* behind a full result.
ReadInv ==
    \A r \in Requests :
       (pc[r] \in {"restore", "close"} /\ err[r] = "none") =>
          /\ truncated[r] <=> available[r] > 0
          /\ truncated[r] => got[r] = req[r].maxRows

\* Only the end of the reading decides about the mark; what comes after it
\* leaves the result alone.
LEMMA ReadStep == PoolInv /\ ReadInv /\ [Next]_vars => ReadInv'
<1> SUFFICES ASSUME PoolInv, ReadInv, [Next]_vars PROVE ReadInv'
  OBVIOUS
<1> USE DEF PoolInv, FullType, TypeOK, Fresh, ReadInv, pool
<1>1. ASSUME NEW r \in Requests, NEW kind \in Kinds, Refuse(r, kind) PROVE ReadInv'
  BY <1>1 DEF Refuse, vars, request
<1>2. ASSUME NEW r \in Requests, NEW kind \in Kinds, NEW db \in Databases \cup {NoDb},
             NEW asked \in AskedRows, NEW target \in Databases \cup {NoDb},
             Submit(r, kind, target, db, asked)
      PROVE ReadInv'
  BY <1>2 DEF Submit
<1>3. ASSUME NEW r \in Requests, NEW how \in {"expired", "cancelled"}, ContextEnds(r, how)
      PROVE ReadInv'
  BY <1>3 DEF ContextEnds
<1>4. ASSUME NEW r \in Requests, Acquire(r) \/ Use(r) \/ Query(r) \/ ReadRow(r)
      PROVE ReadInv'
  BY <1>4 DEF Acquire, Use, Query, ReadRow
<1>5. ASSUME NEW r \in Requests, AcquireFails(r) \/ Close(r) PROVE ReadInv'
  BY <1>5 DEF AcquireFails, Close, Answer
<1>6. ASSUME NEW r \in Requests, UseFails(r) \/ QueryFails(r) \/ ReadFails(r) PROVE ReadInv'
  BY <1>6 DEF UseFails, QueryFails, ReadFails, Failure, Deferred
<1>7. ASSUME NEW r \in Requests, ReadEnd(r) PROVE ReadInv'
  <2>1. available[r] \in Nat /\ (got[r] = req[r].maxRows \/ available[r] = 0)
    BY <1>7 DEF ReadEnd
  <2>2. truncated'[r] <=> (got[r] = req[r].maxRows /\ available[r] > 0)
    BY <1>7, Zenon DEF ReadEnd
  <2>3. \A s \in Requests \ {r} : truncated'[s] = truncated[s] /\ pc'[s] = pc[s]
    BY <1>7, Zenon DEF ReadEnd
  <2>4. UNCHANGED <<err, available, got, req>>
    BY <1>7 DEF ReadEnd
  <2>5. /\ truncated'[r] <=> available[r] > 0
        /\ truncated'[r] => got[r] = req[r].maxRows
    BY <2>1, <2>2
  <2> QED
    BY <2>3, <2>4, <2>5
<1>8. ASSUME NEW r \in Requests, Restore(r) PROVE ReadInv'
  BY <1>8 DEF Restore
<1>9. ASSUME NEW c \in Conns, Retire(c) PROVE ReadInv'
  BY <1>9 DEF Retire, request
<1>10. CASE UNCHANGED vars
  BY <1>10 DEF vars, request
<1> HIDE DEF PoolInv, FullType, TypeOK, Fresh, ReadInv, pool
<1> QED
  BY <1>1, <1>2, <1>3, <1>4, <1>5, <1>6, <1>7, <1>8, <1>9, <1>10 DEF Next, Step

\* A successful result holds at most the policy's rows, and is marked as
\* truncated exactly when the server had more (query_service.go:91-94,
\* query_repository.go:121-145), for every cap and every result.
THEOREM TruncationAlwaysExact == Spec => []TruncationIsExact
<1>1. Init => ReadInv
  BY DEF Init, ReadInv
<1>2. PoolInv /\ ReadInv => TruncationIsExact
  <2> SUFFICES ASSUME PoolInv, ReadInv, NEW r \in Requests, pc[r] = "close", Outcome(r) = "ok"
               PROVE  /\ got[r] <= PolicyMaxRows
                      /\ truncated[r] <=> available[r] > 0
                      /\ truncated[r] => got[r] = req[r].maxRows
    BY DEF TruncationIsExact
  <2>1. err[r] = "none"
    BY DEF Outcome, PoolInv, FullType
  <2>2. req[r].maxRows \in 0..PolicyMaxRows
    BY DEF PoolInv, FullType
  <2>3. got[r] \in 0..req[r].maxRows
    BY DEF PoolInv, FullType, TypeOK
  <2>4. got[r] <= PolicyMaxRows
    BY <2>2, <2>3, QueryAssumption
  <2> QED
    BY <2>1, <2>4 DEF ReadInv
<1> QED
  BY <1>1, <1>2, ReadStep, PoolInvariant, PTL DEF Spec
=============================================================================
