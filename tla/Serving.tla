------------------------------- MODULE Serving -------------------------------
(***************************************************************************)
(* What the requests of one process share: the threads every handler runs  *)
(* on (all of them are plain `def`), the connections of the engine's       *)
(* QueuePool (src/database.py) and the lock on an `events` row.            *)
(*                                                                         *)
(* A request asks for a thread three times: to ask the auth-service who    *)
(* calls, to run its handler, and, once the handler has returned, to       *)
(* serialize what it returned.  Its session takes a connection with the    *)
(* first statement of a transaction and gives it back when the transaction *)
(* ends; a handler that reads after its last commit (db.refresh, an        *)
(* expired attribute) returns with a connection in its hands, and get_db   *)
(* closes the session only when the answer is out.                         *)
(*                                                                         *)
(* The line for threads is first come, first served; which of the waiting  *)
(* requests gets a connection or the lock is not.  What a request computes *)
(* is left out: only what it holds and waits for is kept.  The database    *)
(* may restart (MaxRestarts bounds how often), which kills every           *)
(* connection; the pool does not test a connection before it hands it out. *)
(***************************************************************************)
EXTENDS Naturals, Sequences, FiniteSets

CONSTANTS
    Requests,       \* as many as may be in the process at once
    NoRequest,
    Threads,        \* threads of the pool that runs the handlers
    PoolSize,       \* connections the engine keeps
    MaxOverflow,    \* connections it opens beyond those
    Routes,         \* the routes that are called
    MaxRestarts     \* bound: restarts of the database

ASSUME RequestsFinite  == IsFiniteSet(Requests) /\ NoRequest \notin Requests
ASSUME ThreadsNat      == Threads \in Nat \ {0}
ASSUME ConnectionsNat  == PoolSize \in Nat \ {0} /\ MaxOverflow \in Nat
ASSUME MaxRestartsNat  == MaxRestarts \in Nat
ASSUME RoutesKnown     == Routes \subseteq {"register", "checkin", "cancel", "update", "delete",
                                            "read", "probe", "health"}

VARIABLES
    todo,       \* todo[r]: the steps left to request r, <<>> when there is no r
    line,       \* the requests that wait for a thread, in order
    running,    \* the requests on a thread
    conn,       \* conn[r]: the connection of r's session
    pooled,     \* idle connections of the pool that work
    stale,      \* idle connections of the pool that the database has dropped
    lock,       \* the request that holds the lock on the events row
    restarts,   \* how often the database has restarted
    failed      \* requests a dropped connection has failed since it last did

vars == <<todo, line, running, conn, pooled, stale, lock, restarts, failed>>

MaxConnections == PoolSize + MaxOverflow

-----------------------------------------------------------------------------
(* What each route asks for, one sequence per way through its handler.  A  *)
(* commit is also the rollback of an INSERT that lost to a duplicate.      *)

Steps == {"authenticate", "connect", "lock", "commit", "release",
          "return", "serialize", "answer"}

Authenticated(handler) == <<"authenticate">> \o handler \o <<"return", "serialize">>

\* A registration that forgets its COMMIT.
RegisterPathsUncommitted == {<<"connect">>, <<"connect", "lock">>}

\* POST /register, registrations.py 102-308: an earlier row, or the lock, the
\* INSERT and the refresh (or the re-read of the duplicate).
RegisterPaths == {<<"connect">>, <<"connect", "lock", "commit", "connect">>}

\* POST /checkin, checkins.py 145-401: no statement before the attestation gate,
\* a refusal after the event row was read, a duplicate, and the three
\* transactions of a success, whose answer reads the expired checkin row.
CheckinPaths == {<<>>, <<"connect">>, <<"connect", "commit", "connect">>,
                 <<"connect", "commit", "connect", "commit", "connect", "commit", "connect">>}

\* DELETE /registrations/{user}, registrations.py 349-373: the answer reads the
\* id of the row that the commit expired.
CancelPaths == {<<"connect", "commit", "connect">>}

\* PATCH /events/{id}, events.py 329-384: the UPDATE waits for the row's lock.
UpdatePaths == {<<"connect", "lock", "commit", "connect">>}

\* DELETE /events/{id}, events.py 388-412: nothing is read after the commit.
DeletePaths == {<<"connect", "lock", "commit">>}

\* GET /events and the other reads: the transaction is open when they return.
ReadPaths == {<<"connect">>}

\* GET /db-health, main.py 132-151: no caller, a connection for one statement,
\* and no response model to serialize by.
ProbePaths == {<<"connect", "release", "answer">>}

\* GET /health, main.py 122-129: no caller, no statement, but a thread.
HealthPaths == {<<"answer">>}

Paths(route) ==
    CASE route = "register" -> {Authenticated(h) : h \in RegisterPaths}
      [] route = "checkin"  -> {Authenticated(h) : h \in CheckinPaths}
      [] route = "cancel"   -> {Authenticated(h) : h \in CancelPaths}
      [] route = "update"   -> {Authenticated(h) : h \in UpdatePaths}
      [] route = "delete"   -> {Authenticated(h) : h \in DeletePaths}
      [] route = "read"     -> {Authenticated(h) : h \in ReadPaths}
      [] route = "probe"    -> ProbePaths
      [] route = "health"   -> HealthPaths

-----------------------------------------------------------------------------

Busy    == {r \in Requests : todo[r] # <<>>}
Holders == {r \in Requests : conn[r] # "none"}

\* r has a thread and `step` is what it does next.
At(r, step) == r \in running /\ Head(todo[r]) = step

\* QueuePool hands out an idle connection or opens one below its limit.
ConnectionFree ==
    \/ pooled + stale > 0
    \/ Cardinality(Holders) < MaxConnections

LockFree(r) == lock \in {NoRequest, r}

Unlocked(r) == IF lock = r THEN NoRequest ELSE lock

-----------------------------------------------------------------------------

Init ==
    /\ todo = [r \in Requests |-> <<>>]
    /\ line = <<>>
    /\ running = {}
    /\ conn = [r \in Requests |-> "none"]
    /\ pooled = 0
    /\ stale = 0
    /\ lock = NoRequest
    /\ restarts = 0
    /\ failed = 0

\* Connections come back to the pool, which keeps PoolSize of them; the first
\* request to find its own dropped makes the pool renew every idle one
\* (SQLAlchemy invalidates the pool on a disconnect).
GiveBack(r, found) ==
    /\ conn' = [conn EXCEPT ![r] = "none"]
    /\ lock' = Unlocked(r)
    /\ LET idle == IF conn[r] # "none" /\ pooled + stale < PoolSize THEN 1 ELSE 0
       IN IF found
          THEN pooled' = pooled + stale + idle /\ stale' = 0
          ELSE pooled' = pooled + idle /\ UNCHANGED stale

\* A get_db without its `finally`.
CloseSessionNever(r) == UNCHANGED <<conn, lock, pooled, stale>>

\* The session ends: its rollback finds out whether the connection is dropped.
CloseSession(r) == GiveBack(r, conn[r] = "dropped")

\* The answer is out (or the error is): the request leaves the process.
Leave(r) ==
    /\ todo' = [todo EXCEPT ![r] = <<>>]
    /\ running' = running \ {r}
    /\ UNCHANGED line

\* r does its next step on the thread it has.
Proceed(r) ==
    /\ todo' = [todo EXCEPT ![r] = Tail(@)]
    /\ UNCHANGED <<line, running>>

\* r gives its thread up and stands in line for the next one.
StandInLine(r) ==
    /\ todo' = [todo EXCEPT ![r] = Tail(@)]
    /\ running' = running \ {r}
    /\ line' = Append(line, r)

-----------------------------------------------------------------------------

Arrive(r, route) ==
    /\ todo[r] = <<>>
    /\ \E path \in Paths(route) : todo' = [todo EXCEPT ![r] = path]
    /\ line' = Append(line, r)
    /\ UNCHANGED <<running, conn, pooled, stale, lock, restarts, failed>>

\* A thread is free: the first in line gets it.
TakeThread ==
    /\ line # <<>>
    /\ Cardinality(running) < Threads
    /\ running' = running \cup {Head(line)}
    /\ line' = Tail(line)
    /\ UNCHANGED <<todo, conn, pooled, stale, lock, restarts, failed>>

\* require_bearer_actor, auth.py 195-261: the auth-service knows the caller; the
\* dependency returns and the handler asks for a thread of its own.
Authenticate(r) ==
    /\ At(r, "authenticate")
    /\ StandInLine(r)
    /\ UNCHANGED <<conn, pooled, stale, lock, restarts, failed>>

\* The first statement of a transaction, on an idle connection that works or on
\* a new one.
Connect(r) ==
    /\ At(r, "connect")
    /\ \/ pooled > 0 /\ pooled' = pooled - 1
       \/ pooled + stale = 0 /\ Cardinality(Holders) < MaxConnections /\ UNCHANGED pooled
    /\ conn' = [conn EXCEPT ![r] = "works"]
    /\ Proceed(r)
    /\ UNCHANGED <<stale, lock, restarts, failed>>

\* The pool puts the dropped connection back as it is.
ConnectStaleKept(r) ==
    /\ At(r, "connect")
    /\ stale > 0
    /\ failed' = failed + 1
    /\ Leave(r)
    /\ UNCHANGED <<conn, pooled, stale, lock, restarts>>

\* The idle connection the pool hands out was dropped by a restart: the
\* statement raises, the request is answered 500, the pool renews the others.
ConnectStale(r) ==
    /\ At(r, "connect")
    /\ stale > 0
    /\ pooled' = pooled + stale
    /\ stale' = 0
    /\ failed' = failed + 1
    /\ Leave(r)
    /\ UNCHANGED <<conn, lock, restarts>>

\* pool_timeout: 30 s without a connection, TimeoutError, 500 (503 of /db-health).
PoolTimeout(r) ==
    /\ At(r, "connect")
    /\ ~ConnectionFree
    /\ Leave(r)
    /\ UNCHANGED <<conn, pooled, stale, lock, restarts, failed>>

\* SELECT ... FOR UPDATE on the events row, or the UPDATE of PATCH and DELETE.
LockRow(r) ==
    /\ At(r, "lock")
    /\ conn[r] = "works"
    /\ LockFree(r)
    /\ lock' = r
    /\ Proceed(r)
    /\ UNCHANGED <<conn, pooled, stale, restarts, failed>>

\* innodb_lock_wait_timeout: the statement raises and the session is closed.
LockTimeout(r) ==
    /\ At(r, "lock")
    /\ conn[r] = "works"
    /\ ~LockFree(r)
    /\ CloseSession(r)
    /\ Leave(r)
    /\ UNCHANGED <<restarts, failed>>

\* COMMIT (or the end of /db-health's `with`): the lock and the connection go back.
EndTransaction(r) ==
    /\ At(r, "commit") \/ At(r, "release")
    /\ conn[r] = "works"
    /\ GiveBack(r, FALSE)
    /\ Proceed(r)
    /\ UNCHANGED <<restarts, failed>>

\* A statement on a connection that a restart has dropped: 500.
FindDropped(r) ==
    /\ r \in running
    /\ Head(todo[r]) \in {"lock", "commit", "release"}
    /\ conn[r] = "dropped"
    /\ CloseSession(r)
    /\ failed' = failed + 1
    /\ Leave(r)
    /\ UNCHANGED restarts

\* HTTPException: the caller is refused (auth.py 218-259, or the auth-service did
\* not answer within 5 s), or the handler refuses the request.  The session is
\* closed before the error is answered, and an error is not serialized; where
\* its connection is dropped the close raises too.
Refuse(r) ==
    /\ r \in running
    /\ Head(todo[r]) \in {"authenticate", "connect", "lock", "commit", "return"}
    /\ CloseSession(r)
    /\ failed' = failed + (IF conn[r] = "dropped" THEN 1 ELSE 0)
    /\ Leave(r)
    /\ UNCHANGED restarts

\* The handler returns: its thread is free, its session is not closed.
Return(r) ==
    /\ At(r, "return")
    /\ StandInLine(r)
    /\ UNCHANGED <<conn, pooled, stale, lock, restarts, failed>>

\* The answer is serialized and sent; then get_db closes the session.
Serialize(r) ==
    /\ At(r, "serialize")
    /\ CloseSession(r)
    /\ Leave(r)
    /\ UNCHANGED <<restarts, failed>>

\* An answer without a response model.
Answer(r) ==
    /\ At(r, "answer")
    /\ Leave(r)
    /\ UNCHANGED <<conn, pooled, stale, lock, restarts, failed>>

\* The database restarts: its locks are gone and every connection is dropped.
Restart ==
    /\ restarts < MaxRestarts
    /\ restarts' = restarts + 1
    /\ failed' = 0
    /\ conn' = [r \in Requests |-> IF r \in Holders THEN "dropped" ELSE "none"]
    /\ stale' = stale + pooled
    /\ pooled' = 0
    /\ lock' = NoRequest
    /\ UNCHANGED <<todo, line, running>>

-----------------------------------------------------------------------------

\* What request r does of itself, on the thread it has.
Work(r) ==
    \/ Authenticate(r) \/ LockRow(r) \/ EndTransaction(r) \/ FindDropped(r)
    \/ Return(r) \/ Serialize(r) \/ Answer(r) \/ LockTimeout(r)
    \/ Connect(r) \/ ConnectStale(r) \/ PoolTimeout(r)

Next ==
    \/ \E r \in Requests :
          \/ \E route \in Routes : Arrive(r, route)
          \/ Work(r)
          \/ Refuse(r)
    \/ TakeThread
    \/ Restart

Spec == Init /\ [][Next]_vars

-----------------------------------------------------------------------------
(* Correctness *)

\* What each variable holds; who waits is in line once, and a request is in
\* line or on a thread, never both (anyio's limiter).
TypeOK ==
    /\ todo \in [Requests -> Seq(Steps)]
    /\ line \in Seq(Requests)
    /\ running \subseteq Requests
    /\ conn \in [Requests -> {"none", "works", "dropped"}]
    /\ pooled \in Nat /\ stale \in Nat
    /\ lock \in Requests \cup {NoRequest}
    /\ restarts \in 0..MaxRestarts
    /\ failed \in Nat

\* The engine never has more connections than pool_size + max_overflow, keeps at
\* most pool_size of them idle, and whoever has left the process has given its
\* connection back, on every way out of a handler (database.py 88-109).
NoConnectionLost ==
    /\ pooled + stale <= PoolSize
    /\ pooled + stale + Cardinality(Holders) <= MaxConnections
    /\ Holders \subseteq Busy

\* Whoever has the lock on the events row has a thread and a connection that
\* works, so it needs nothing that one of the requests waiting for the lock has:
\* no handler waits for a thread or for a connection with the lock in its hands
\* (registrations.py 249-292, events.py 380-383, 410-411).
LockHolderRuns ==
    lock # NoRequest => lock \in running /\ conn[lock] = "works"

\* The pool, the line and the lock fit together, whatever fails.
PoolIsSound == TypeOK /\ NoConnectionLost /\ LockHolderRuns

\* No request can go on before one of them gives up waiting (pool_timeout).
WaitsInVain(r) ==
    \/ At(r, "connect") /\ ~ConnectionFree
    \/ At(r, "lock") /\ ~LockFree(r)

Standstill ==
    /\ Busy # {}
    /\ line = <<>> \/ Cardinality(running) >= Threads
    /\ \A r \in running : WaitsInVain(r)

\* The one way the service stands still: every thread is held by a handler that
\* waits for a connection and every connection by a request that has returned
\* and stands in line for a thread to serialize its answer on, which takes as
\* many requests as there are threads and connections together.  With fewer,
\* or without the detour of an answer through the line, nothing ever waits for
\* pool_timeout in vain (database.py 91-93; registrations.py 307, checkins.py 397).
StandstillIsStarvation ==
    Standstill =>
        /\ Cardinality(running) = Threads
        /\ \A r \in running : At(r, "connect")
        /\ Cardinality({r \in Holders : Head(todo[r]) = "serialize"}) = MaxConnections
        /\ Cardinality(Busy) >= Threads + MaxConnections

\* A restart of the database fails at most one request per connection there was:
\* the pool does not test its connections, but it renews the idle ones as soon
\* as one is found dropped (database.py 88-95).
FailuresBounded == failed <= MaxConnections

=============================================================================
