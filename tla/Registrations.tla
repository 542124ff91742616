--------------------------- MODULE Registrations ---------------------------
(***************************************************************************)
(* The RSVP desk of one event: POST /events/{id}/register and              *)
(* DELETE /events/{id}/registrations/{user} (src/routers/registrations.py) *)
(* run by a pool of worker threads against the tables `events` and         *)
(* `event_registrations`, while the organizer edits the event              *)
(* (PATCH and DELETE /events/{id}, src/routers/events.py).                 *)
(*                                                                         *)
(* A worker's step is one SQL statement (an INSERT or UPDATE together with *)
(* the COMMIT that follows it at once).  What a SELECT returns depends on  *)
(* the isolation level.  The engine is created without one, so MySQL's     *)
(* REPEATABLE READ applies (SnapshotReads = TRUE): a plain SELECT returns  *)
(* the rows as they were at the transaction's first SELECT.  Under READ    *)
(* COMMITTED (SnapshotReads = FALSE) it returns the rows of the moment.    *)
(* At either level FOR UPDATE, INSERT, UPDATE and the unique keys act on   *)
(* the rows of the moment.                                                 *)
(***************************************************************************)
EXTENDS Naturals, FiniteSets, FiniteSetsExt

CONSTANTS
    Users,          \* attendees, by attendee_user_id
    Eligible,       \* the users that the event's visibility lets register
    Workers,        \* request threads, each with its own session
    Keys,           \* Idempotency-Key values
    BlankKey,       \* the empty Idempotency-Key: stored, never looked up
    NoKey,          \* no Idempotency-Key header: SQL NULL
    NoUser,         \* an answer that returns no row
    NoWorker,       \* the events row is not locked
    Unlimited,      \* max_capacity IS NULL
    Capacity,       \* max_capacity when the event is created
    CapacityEdits,  \* the capacities a PATCH may set
    StatusEdits,    \* the statuses a PATCH or DELETE may set
    SnapshotReads   \* TRUE for REPEATABLE READ, FALSE for READ COMMITTED

EventStatus == {"draft", "published", "active", "completed", "cancelled"}

\* Every capacity the event can have.
Capacities == {Capacity} \cup CapacityEdits

ASSUME WorkersAssumption == NoWorker \notin Workers /\ IsFiniteSet(Workers)
ASSUME UsersAssumption   == /\ NoUser \notin Users
                            /\ IsFiniteSet(Users)
                            /\ Eligible \subseteq Users
ASSUME KeysAssumption    == NoKey \notin Keys
ASSUME EventAssumption   == /\ Unlimited \notin Nat
                            /\ Capacities \subseteq (Nat \ {0}) \cup {Unlimited}
                            /\ StatusEdits \subseteq EventStatus
ASSUME ReadsAssumption   == SnapshotReads \in BOOLEAN

VARIABLES
    event,   \* the events row: [status, capacity]
    regs,    \* event_registrations: the row of each attendee
    lock,    \* the worker whose transaction holds the events row's X lock
    pc,      \* where each worker is in its handler
    job,     \* the request it serves: [user, key]
    seen,    \* max_capacity of the Event object in its identity map
    view,    \* its transaction's read view of regs
    target,  \* the status and waitlist_position it will insert
    reply    \* the answer that the last step sent, if it sent one: [to, code, row]

vars == <<event, regs, lock, pc, job, seen, view, target, reply>>

-----------------------------------------------------------------------------
(* Rows *)

\* (event_id, attendee_user_id) is unique: a table is a function of the
\* attendee.  "absent" stands for no row, position 0 for SQL NULL.
RowStatus == {"absent", "registered", "waitlisted", "cancelled", "attended", "no_show"}

Row == [status : RowStatus, position : Nat, key : Keys \cup {NoKey}]

NoRow == [status |-> "absent", position |-> 0, key |-> NoKey]

EmptyTable == [u \in Users |-> NoRow]

HasRow(rows, u) == rows[u].status # "absent"

\* The rows that the capacity check counts.
Active(rows) == {u \in Users : rows[u].status \in {"registered", "attended"}}

Waiting(rows) == {u \in Users : rows[u].status = "waitlisted"}

\* MAX(waitlist_position) over the waitlisted rows, or 0.
LastPosition(rows) == Max({0} \cup {rows[u].position : u \in Waiting(rows)})

\* The holders of an idempotency key: (event_id, idempotency_key) is unique.
HoldersOf(rows, k) == {u \in Users : HasRow(rows, u) /\ rows[u].key = k}

-----------------------------------------------------------------------------
(* Sessions *)

IsOpen(e) == e.status \in {"published", "active"}

\* The read view that a transaction's first SELECT opens.
OpenView == IF SnapshotReads THEN regs ELSE EmptyTable

\* The registrations that a later plain SELECT of w's transaction returns.
Read(w) == IF SnapshotReads THEN view[w] ELSE regs

Idle == "idle"
NoJob == [user |-> NoUser, key |-> NoKey]
NoTarget == [status |-> "absent", position |-> 0]
NoReply  == [to |-> NoWorker, code |-> "none", row |-> NoUser]

\* The worker moves on within its handler, and sends nothing.
Goto(w, label) ==
    /\ pc' = [pc EXCEPT ![w] = label]
    /\ reply' = NoReply

FinishInOpenSession(w, code, row) ==
    /\ pc'     = [pc EXCEPT ![w] = Idle]
    /\ reply'  = [to |-> w, code |-> code, row |-> row]
    /\ job'    = [job EXCEPT ![w] = NoJob]
    /\ seen'   = [seen EXCEPT ![w] = Unlimited]
    /\ view'   = [view EXCEPT ![w] = EmptyTable]
    /\ target' = [target EXCEPT ![w] = NoTarget]
    /\ UNCHANGED lock

\* The handler returns or raises; get_db closes the session, which ends the
\* transaction and releases its lock.
Finish(w, code, row) ==
    /\ pc'     = [pc EXCEPT ![w] = Idle]
    /\ reply'  = [to |-> w, code |-> code, row |-> row]
    /\ job'    = [job EXCEPT ![w] = NoJob]
    /\ seen'   = [seen EXCEPT ![w] = Unlimited]
    /\ view'   = [view EXCEPT ![w] = EmptyTable]
    /\ target' = [target EXCEPT ![w] = NoTarget]
    /\ lock'   = IF lock = w THEN NoWorker ELSE lock

\* A request arrives and its handler SELECTs the event.
Receive(w, u, k) ==
    /\ pc[w] = Idle
    /\ job'    = [job EXCEPT ![w] = [user |-> u, key |-> k]]
    /\ seen'   = [seen EXCEPT ![w] = event.capacity]
    /\ view'   = [view EXCEPT ![w] = OpenView]

\* The gates refuse a request at once: 409 event_not_open, or 403/404.
Refuse(w, code) ==
    /\ pc[w] = Idle
    /\ Finish(w, code, NoUser)
    /\ UNCHANGED <<event, regs>>

-----------------------------------------------------------------------------
(* POST /events/{id}/register *)

RefuseClosed(w) == ~ IsOpen(event) /\ Refuse(w, "event_not_open")

RefuseIneligible(w, u) ==
    /\ IsOpen(event)
    /\ u \notin Eligible
    /\ Refuse(w, "not_eligible")

\* A request that passes the gates goes on to look its key up, if it has one.
StartRegister(w, u, k) ==
    /\ IsOpen(event)
    /\ u \in Eligible
    /\ Receive(w, u, k)
    /\ Goto(w, IF k \in {NoKey, BlankKey} THEN "lock" ELSE "replay")
    /\ UNCHANGED <<event, regs, lock, target>>

\* The row that holds the key is the answer, whoever its attendee is.
ReplayFound(w) ==
    /\ pc[w] = "replay"
    /\ \E u \in HoldersOf(Read(w), job[w].key) : Finish(w, "ok", u)
    /\ UNCHANGED <<event, regs>>

ReplayMissed(w) ==
    /\ pc[w] = "replay"
    /\ HoldersOf(Read(w), job[w].key) = {}
    /\ Goto(w, "lock")
    /\ UNCHANGED <<event, regs, lock, job, seen, view, target>>

\* SELECT ... FROM events ... FOR UPDATE.  The Event object is already in the
\* identity map, so locked_event keeps the capacity that it was first read with.
CanLockAnyway(w) == TRUE
CanLock(w) == lock = NoWorker
LockEvent(w) ==
    /\ pc[w] = "lock"
    /\ CanLock(w)
    /\ lock' = w
    /\ Goto(w, IF seen[w] = Unlimited THEN "insert" ELSE "count")
    /\ target' = [target EXCEPT ![w] = [status |-> "registered", position |-> 0]]
    /\ UNCHANGED <<event, regs, job, seen, view>>

\* active_count >= locked_event.max_capacity
IsFullOffByOne(w) == Cardinality(Active(Read(w))) > seen[w]
IsFull(w) == Cardinality(Active(Read(w))) >= seen[w]

CountActive(w) ==
    /\ pc[w] = "count"
    /\ Goto(w, IF IsFull(w) THEN "position" ELSE "insert")
    /\ UNCHANGED <<event, regs, lock, job, seen, view, target>>

NextPosition(w) == LastPosition(Read(w)) + 1

TakePosition(w) ==
    /\ pc[w] = "position"
    /\ target' = [target EXCEPT ![w] = [status |-> "waitlisted", position |-> NextPosition(w)]]
    /\ Goto(w, "insert")
    /\ UNCHANGED <<event, regs, lock, job, seen, view>>

CollidesWithLiveRow(w) == regs[job[w].user].status \notin {"absent", "cancelled"}

\* The two unique keys of the table; NULL collides with nothing.
Collides(w) == \/ HasRow(regs, job[w].user)
               \/ job[w].key # NoKey /\ HoldersOf(regs, job[w].key) # {}

\* INSERT and COMMIT, which releases the lock.
InsertRow(w) ==
    /\ pc[w] = "insert"
    /\ ~ Collides(w)
    /\ regs' = [regs EXCEPT ![job[w].user] =
                  [status   |-> target[w].status,
                   position |-> target[w].position,
                   key      |-> job[w].key]]
    /\ lock' = NoWorker
    /\ Goto(w, "refresh")
    /\ UNCHANGED <<event, job, seen, view, target>>

\* IntegrityError, and ROLLBACK, which releases the lock.
InsertFails(w) ==
    /\ pc[w] = "insert"
    /\ Collides(w)
    /\ lock' = NoWorker
    /\ Goto(w, "reread")
    /\ UNCHANGED <<event, regs, job, seen, view, target>>

\* The SELECT after the ROLLBACK opens a new read view: the attendee's row if
\* there is one, else 409 duplicate_registration.
RereadAssumesFound(w) == TRUE
RereadFinds(w) == HasRow(regs, job[w].user)

Reread(w) ==
    /\ pc[w] = "reread"
    /\ IF RereadFinds(w) THEN Finish(w, "ok", job[w].user)
                         ELSE Finish(w, "duplicate_registration", NoUser)
    /\ UNCHANGED <<event, regs>>

\* db.refresh and the return of the new row.
Refresh(w) ==
    /\ pc[w] = "refresh"
    /\ Finish(w, "ok", job[w].user)
    /\ UNCHANGED <<event, regs>>

-----------------------------------------------------------------------------
(* DELETE /events/{id}/registrations/{user} *)

\* It takes the event in any status, and no lock on it.
StartCancel(w, u) ==
    /\ Receive(w, u, NoKey)
    /\ Goto(w, "find")
    /\ UNCHANGED <<event, regs, lock, target>>

FindMissed(w) ==
    /\ pc[w] = "find"
    /\ ~ HasRow(Read(w), job[w].user)
    /\ Finish(w, "not_found", NoUser)
    /\ UNCHANGED <<event, regs>>

\* The UPDATE is written only if the status that was read is not "cancelled".
FindFound(w) ==
    /\ pc[w] = "find"
    /\ HasRow(Read(w), job[w].user)
    /\ IF Read(w)[job[w].user].status = "cancelled"
       THEN Finish(w, "ok", job[w].user)
       ELSE /\ Goto(w, "cancel")
            /\ UNCHANGED <<lock, job, seen, view, target>>
    /\ UNCHANGED <<event, regs>>

CancelledMisspelt == "canceled"
CancelledStatus == "cancelled"

\* UPDATE of the status alone, and COMMIT.
Cancel(w) ==
    /\ pc[w] = "cancel"
    /\ regs' = [regs EXCEPT ![job[w].user].status = CancelledStatus]
    /\ Finish(w, "ok", job[w].user)
    /\ UNCHANGED event

-----------------------------------------------------------------------------
(* The rest of the world *)

\* The request dies where it stands: a lost connection, a lock wait timeout,
\* the process killed.  The database rolls its transaction back.
Fail(w) ==
    /\ pc[w] # Idle
    /\ Finish(w, "error", NoUser)
    /\ UNCHANGED <<event, regs>>

\* An UPDATE of the events row waits for its lock.
PatchCapacity(c) ==
    /\ lock = NoWorker
    /\ event' = [event EXCEPT !.capacity = c]
    /\ reply' = NoReply
    /\ UNCHANGED <<regs, lock, pc, job, seen, view, target>>

PatchStatus(s) ==
    /\ lock = NoWorker
    /\ event' = [event EXCEPT !.status = s]
    /\ reply' = NoReply
    /\ UNCHANGED <<regs, lock, pc, job, seen, view, target>>

-----------------------------------------------------------------------------

Init ==
    /\ event  = [status |-> "published", capacity |-> Capacity]
    /\ regs   = EmptyTable
    /\ lock   = NoWorker
    /\ pc     = [w \in Workers |-> Idle]
    /\ job    = [w \in Workers |-> NoJob]
    /\ seen   = [w \in Workers |-> Unlimited]
    /\ view   = [w \in Workers |-> EmptyTable]
    /\ target = [w \in Workers |-> NoTarget]
    /\ reply  = NoReply

\* A new request, which nothing obliges a client to send.
Arrive(w) ==
    \/ RefuseClosed(w)
    \/ \E u \in Users : RefuseIneligible(w, u)
    \/ \E u \in Users, k \in Keys \cup {NoKey} : StartRegister(w, u, k)
    \/ \E u \in Users : StartCancel(w, u)

\* The handler's own progress, but for the wait for the lock.
Proceed(w) ==
    \/ ReplayFound(w)
    \/ ReplayMissed(w)
    \/ CountActive(w)
    \/ TakePosition(w)
    \/ InsertRow(w)
    \/ InsertFails(w)
    \/ Reread(w)
    \/ Refresh(w)
    \/ FindMissed(w)
    \/ FindFound(w)
    \/ Cancel(w)

Organizer ==
    \/ \E c \in CapacityEdits : PatchCapacity(c)
    \/ \E s \in StatusEdits : PatchStatus(s)

Next ==
    \/ \E w \in Workers : Arrive(w)
    \/ \E w \in Workers : Proceed(w)
    \/ \E w \in Workers : LockEvent(w)
    \/ \E w \in Workers : Fail(w)
    \/ Organizer

Spec == Init /\ [][Next]_vars

\* A thread that can go on goes on, and InnoDB serves the waiters of a lock in
\* turn, so a waiter that is passed over again and again is served in the end.
\* Nothing obliges a client to send, an organizer to edit, or a request to die.
Fairness ==
    \A w \in Workers : WF_vars(Proceed(w)) /\ SF_vars(LockEvent(w))

FairSpec == Spec /\ Fairness

-----------------------------------------------------------------------------
(* Correctness *)

Codes == {"none", "ok", "event_not_open", "not_eligible", "not_found",
          "duplicate_registration", "error"}

Labels == {Idle, "replay", "lock", "count", "position", "insert", "reread",
           "refresh", "find", "cancel"}

Job    == [user : Users \cup {NoUser}, key : Keys \cup {NoKey}]
Target == [status : RowStatus, position : Nat]

\* Every variable has its type.
TypeOK ==
    /\ event  \in [status : EventStatus, capacity : Capacities]
    /\ regs   \in [Users -> Row]
    /\ lock   \in Workers \cup {NoWorker}
    /\ pc     \in [Workers -> Labels]
    /\ job    \in [Workers -> Job]
    /\ seen   \in [Workers -> Capacities \cup {Unlimited}]
    /\ view   \in [Workers -> [Users -> Row]]
    /\ target \in [Workers -> Target]
    /\ reply  \in [to : Workers \cup {NoWorker}, code : Codes, row : Users \cup {NoUser}]

\* The event is never over its capacity: at most max_capacity rows are
\* registered or attended (registrations.py 223-233).  The lock gives this to
\* requests that read committed rows; see OverbookingBounded for the others.
CapacityRespected ==
    event.capacity # Unlimited => Cardinality(Active(regs)) <= event.capacity

\* However stale the count that a request took, an event is overbooked by less
\* than one row per worker over some capacity that it may have had: each worker
\* can carry one decision made before the event was full (registrations.py
\* 249-292).
OverbookingBounded ==
    Unlimited \notin Capacities =>
        \E c \in Capacities : Cardinality(Active(regs)) <= c + Cardinality(Workers) - 1

\* A request that is answered with a row is answered with one that is in the
\* table: its attendee's own, or the one that its key is on, never another's; and
\* an empty key finds nobody's.  A 409 duplicate_registration is about the key,
\* never about the attendee: a client that sends its own lost request again is not
\* refused (registrations.py 211-221 and 293-306).  Whoever loses the race for a key
\* to another attendee gets the 409, and not the row that the comment at 208-210
\* promises.
AnswersWithItsRow ==
    [][\A w \in Workers : reply'.to = w =>
         /\ reply'.code = "ok" =>
             LET u == reply'.row IN
                /\ HasRow(regs, u)
                /\ u # job[w].user =>
                      job[w].key \notin {NoKey, BlankKey} /\ regs[u].key = job[w].key
         /\ reply'.code = "duplicate_registration" =>
             HoldersOf(regs, job[w].key) \ {job[w].user} # {}]_vars

\* A request that nobody disturbed, whose read view is still the table when it
\* inserts, registers nobody beyond the capacity that it read: overbooking takes
\* a commit between a request's first SELECT and its INSERT.
UndisturbedRequestRespectsCapacity ==
    [][\A w \in Workers :
         /\ pc[w] = "insert" /\ regs' # regs
         /\ pc'[w] # pc[w]
         /\ view[w] = regs
         /\ seen[w] # Unlimited
         /\ Cardinality(Active(regs)) <= seen[w]
         => Cardinality(Active(regs')) <= seen[w]]_vars

\* A registration that was cancelled is never active or waiting again: neither a
\* request that was under way when it was cancelled nor a retry brings it back
\* (registrations.py 345-373 and 293-306).
CancelledForGood ==
    [][\A u \in Users : regs[u].status = "cancelled" => regs'[u].status = "cancelled"]_vars

\* Every request is answered in the end, so no worker waits for ever for the
\* lock of an event: whoever holds it commits, rolls back or dies.
RequestsAnswered ==
    \A w \in Workers : pc[w] # Idle ~> pc[w] = Idle

-----------------------------------------------------------------------------
(* What the desk promises, when it reads committed rows and nobody edits the  *)
(* event: each registration is admitted, queued or withdrawn in one step.     *)

Desk == INSTANCE RsvpDesk WITH
            seats <- [u \in Users |-> [status   |-> regs[u].status,
                                       position |-> regs[u].position]]

\* Registrations implements the atomic desk (registrations.py 223-292).
ImplementsDesk == Desk!Spec
=============================================================================
