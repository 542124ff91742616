------------------------------- MODULE Events -------------------------------
(***************************************************************************)
(* The organizers' side of the table events (src/routers/events.py):       *)
(* POST with an Idempotency-Key, PATCH, and DELETE, which cancels.         *)
(*                                                                         *)
(* A worker's step is one SQL statement, with the COMMIT that follows it.  *)
(* PATCH and DELETE load the row in one statement and write it in another; *)
(* the write is an UPDATE of the columns whose value differs from the one  *)
(* loaded, as SQLAlchemy flushes a changed object.                         *)
(***************************************************************************)
EXTENDS Naturals, FiniteSets, Sequences

CONSTANTS
    Tenants,    \* school ids, and the personal namespaces user:<id>
    Keys,       \* the Idempotency-Keys that pass _validate_idem_key
    NoKey,      \* none, or the empty one
    NoTime,     \* a start or end time that is NULL
    Drafts,     \* the bodies that POST may carry: [start, end, status]
    Patches,    \* the bodies that PATCH may carry: values for some of those columns
    Workers,    \* request threads, each with its own session
    NoWorker,   \* no answer is sent
    MaxEvents   \* bound: how many events may be created

Columns  == {"start", "end", "status"}
Statuses == {"draft", "published", "active", "completed", "cancelled"}

\* end_time > start_time, when both are there.
WindowIsSound(e) == e.start # NoTime /\ e.end # NoTime => e.start < e.end

Times == Nat \cup {NoTime}

Event == [start : Times, end : Times, status : Statuses]

EventsAssumption ==
    /\ NoKey \notin Keys /\ NoTime \notin Nat /\ NoWorker \notin Workers
    /\ Drafts \subseteq {d \in Event : WindowIsSound(d)}
    /\ \A p \in Patches :
         /\ DOMAIN p \subseteq Columns
         /\ \A c \in DOMAIN p : p[c] \in IF c = "status" THEN Statuses ELSE Times
    /\ MaxEvents \in Nat

VARIABLES
    rows,      \* the events, in the order of their ids: [tenant, key, event]
    pc,        \* where each worker is in its handler
    request,   \* what it serves
    view,      \* how many of the rows the read view of its POST holds
    loaded,    \* the columns of the event that it loaded
    target,    \* the id of the event it is about
    reply      \* the answer that the last step sent, if it sent one

vars == <<rows, pc, request, view, loaded, target, reply>>

-----------------------------------------------------------------------------
(* Sessions *)

Idle == "idle"
NoId == 0

NoRequest == [op |-> "none"]
NoReply   == [to |-> NoWorker, code |-> "none", event |-> NoId]
Unset     == [start |-> NoTime, end |-> NoTime, status |-> "draft"]

Ids == DOMAIN rows

\* The events that a SELECT by tenant and key returns, of the first n.
WithKey(n, r) == {i \in 1..n : rows[i].tenant = r.tenant /\ rows[i].key = r.key}

First(S) == CHOOSE i \in S : \A j \in S : i <= j

Goto(w, label) ==
    /\ pc' = [pc EXCEPT ![w] = label]
    /\ reply' = NoReply

Finish(w, code, id) ==
    /\ pc'      = [pc EXCEPT ![w] = Idle]
    /\ request' = [request EXCEPT ![w] = NoRequest]
    /\ view'    = [view EXCEPT ![w] = 0]
    /\ loaded'  = [loaded EXCEPT ![w] = Unset]
    /\ target'  = [target EXCEPT ![w] = NoId]
    /\ reply'   = [to |-> w, code |-> code, event |-> id]

Receive(w, r, label) ==
    /\ pc[w] = Idle
    /\ request' = [request EXCEPT ![w] = r]
    /\ Goto(w, label)
    /\ UNCHANGED <<rows, loaded, target>>

-----------------------------------------------------------------------------
(* POST /events/ *)

Creating == {w \in Workers : pc[w] \in {"lookup", "insert"}}

\* The bound: a request that can add an event has room for it.
HasRoom(r) ==
    \/ Len(rows) + Cardinality(Creating) < MaxEvents
    \/ r.key # NoKey /\ WithKey(Len(rows), r) # {}
    \/ r.key # NoKey /\ \E v \in Creating : request[v].tenant = r.tenant /\ request[v].key = r.key

\* The first SELECT opens the transaction's read view: that of the group, for a
\* group_only event, or else that of the key.  Without a key nothing is looked up.
StartCreate(w, t, k, d) ==
    LET r == [op |-> "create", tenant |-> t, key |-> k, draft |-> d]
    IN  /\ HasRoom(r)
        /\ Receive(w, r, IF k = NoKey THEN "insert" ELSE "lookup")
        /\ view' = [view EXCEPT ![w] = Len(rows)]

Replay(w) ==
    /\ pc[w] = "lookup"
    /\ WithKey(view[w], request[w]) # {}
    /\ Finish(w, "created", First(WithKey(view[w], request[w])))
    /\ UNCHANGED rows

LookupMisses(w) ==
    /\ pc[w] = "lookup"
    /\ WithKey(view[w], request[w]) = {}
    /\ Goto(w, "insert")
    /\ UNCHANGED <<rows, request, view, loaded, target>>

CollidesInView(w) == request[w].key # NoKey /\ WithKey(view[w], request[w]) # {}

\* The unique key (school_id, idempotency_key), in which NULLs are distinct.
Collides(w) == request[w].key # NoKey /\ WithKey(Len(rows), request[w]) # {}

InsertEvent(w) ==
    /\ pc[w] = "insert"
    /\ ~ Collides(w)
    /\ rows' = Append(rows, [tenant |-> request[w].tenant, key |-> request[w].key,
                             event  |-> request[w].draft])
    /\ target' = [target EXCEPT ![w] = Len(rows) + 1]
    /\ Goto(w, "refresh")
    /\ UNCHANGED <<request, view, loaded>>

\* IntegrityError, and db.rollback(): the next SELECT opens a new view.
NextView(w) == [view EXCEPT ![w] = Len(rows)]
AfterRollback == "reread"

InsertFails(w) ==
    /\ pc[w] = "insert"
    /\ Collides(w)
    /\ view' = NextView(w)
    /\ Goto(w, AfterRollback)
    /\ UNCHANGED <<rows, request, loaded, target>>

\* The row that won is returned; were there none, the IntegrityError is raised.
Reread(w) ==
    /\ pc[w] = "reread"
    /\ LET found == WithKey(view[w], request[w])
       IN  IF found # {} THEN Finish(w, "created", First(found))
                         ELSE Finish(w, "conflict", NoId)
    /\ UNCHANGED rows

-----------------------------------------------------------------------------
(* PATCH and DELETE /events/{event_id} *)

StartPatch(w, t, i, p) ==
    /\ Receive(w, [op |-> "patch", tenant |-> t, id |-> i, patch |-> p], "load")
    /\ UNCHANGED view

\* A DELETE sets the status, and no more.
Cancellation == [status |-> "cancelled"]

StartDelete(w, t, i) ==
    /\ Receive(w, [op |-> "delete", tenant |-> t, id |-> i, patch |-> Cancellation], "load")
    /\ UNCHANGED view

\* Another tenant's event is not found.
LoadMisses(w) ==
    /\ pc[w] = "load"
    /\ rows[request[w].id].tenant # request[w].tenant
    /\ Finish(w, "not_found", NoId)
    /\ UNCHANGED rows

LoadFinds(w) ==
    /\ pc[w] = "load"
    /\ rows[request[w].id].tenant = request[w].tenant
    /\ loaded' = [loaded EXCEPT ![w] = rows[request[w].id].event]
    /\ target' = [target EXCEPT ![w] = request[w].id]
    /\ Goto(w, "write")
    /\ UNCHANGED <<rows, request, view>>

Named(w) == DOMAIN request[w].patch

\* The event as loaded, with the values that the request names.
Merged(w) == [c \in Columns |-> IF c \in Named(w) THEN request[w].patch[c] ELSE loaded[w][c]]

MayWriteUnmerged(w) ==
    {"start", "end"} \subseteq Named(w) => WindowIsSound(request[w].patch)
MayWrite(w) == request[w].op = "delete" \/ WindowIsSound(Merged(w))

RefuseWindow(w) ==
    /\ pc[w] = "write"
    /\ ~ MayWrite(w)
    /\ Finish(w, "bad_window", NoId)
    /\ UNCHANGED rows

\* An UPDATE that set every column would write back what was loaded.
WrittenWhole(w) == Columns
Written(w) == {c \in Named(w) : request[w].patch[c] # loaded[w][c]}

WriteEvent(w) ==
    /\ pc[w] = "write"
    /\ MayWrite(w)
    /\ rows' = [rows EXCEPT ![target[w]].event =
                  [c \in Columns |-> IF c \in Written(w) THEN Merged(w)[c] ELSE @[c]]]
    /\ loaded' = [loaded EXCEPT ![w] = Unset]
    /\ Goto(w, "refresh")
    /\ UNCHANGED <<request, view, target>>

-----------------------------------------------------------------------------

\* The answer is sent; a POST and a PATCH read the row again for it.
Respond(w) ==
    /\ pc[w] = "refresh"
    /\ Finish(w, IF request[w].op = "create" THEN "created" ELSE "ok", target[w])
    /\ UNCHANGED rows

\* The request dies where it stands; what it has committed stays.
Fail(w) ==
    /\ pc[w] # Idle
    /\ Finish(w, "error", NoId)
    /\ UNCHANGED rows

Init ==
    /\ rows    = <<>>
    /\ pc      = [w \in Workers |-> Idle]
    /\ request = [w \in Workers |-> NoRequest]
    /\ view    = [w \in Workers |-> 0]
    /\ loaded  = [w \in Workers |-> Unset]
    /\ target  = [w \in Workers |-> NoId]
    /\ reply   = NoReply

Arrive(w) ==
    \E t \in Tenants :
        \/ \E k \in Keys \cup {NoKey}, d \in Drafts : StartCreate(w, t, k, d)
        \/ \E i \in Ids, p \in Patches : StartPatch(w, t, i, p)
        \/ \E i \in Ids : StartDelete(w, t, i)

Proceed(w) ==
    \/ Replay(w) \/ LookupMisses(w)
    \/ InsertEvent(w) \/ InsertFails(w) \/ Reread(w)
    \/ LoadMisses(w) \/ LoadFinds(w)
    \/ RefuseWindow(w) \/ WriteEvent(w)
    \/ Respond(w)

Next == \E w \in Workers : Arrive(w) \/ Proceed(w) \/ Fail(w)

Spec == Init /\ [][Next]_vars

-----------------------------------------------------------------------------
(* Correctness *)

\* Every variable has its type; ids are positions in the table.
TypeOK ==
    /\ rows \in Seq([tenant : Tenants, key : Keys \cup {NoKey}, event : Event])
    /\ Len(rows) <= MaxEvents
    /\ \A w \in Workers :
         /\ pc[w] \in {Idle, "lookup", "insert", "reread", "load", "write", "refresh"}
         /\ request[w].op \in {"none", "create", "patch", "delete"}
         /\ view[w] \in 0..Len(rows) /\ target[w] \in 0..Len(rows)
         /\ loaded[w] \in Event
    /\ reply.to \in Workers \cup {NoWorker}
    /\ reply.code \in {"none", "created", "ok", "not_found", "bad_window", "conflict", "error"}
    /\ reply.event \in 0..Len(rows)

\* Whoever posts with a key, alone or against a concurrent retry, is answered with
\* the one event that its tenant has under that key, and never with a conflict: the
\* loser of the race finds the winner's event (events.py 137-151, 187-199).
KeyNamesOneEvent ==
    [][\A w \in Workers : reply'.to = w =>
         /\ reply'.code # "conflict"
         /\ reply'.code = "created" /\ request[w].key # NoKey =>
              WithKey(Len(rows), request[w]) = {reply'.event}]_vars

\* A cancelled event is opened again only by a PATCH that asks for a status, never
\* by one of other columns that loaded the event before it was cancelled
\* (events.py 380-382, 410-411).
ReopenedOnlyOnRequest ==
    [][\A i \in Ids : rows[i].event.status = "cancelled"
                         /\ rows'[i].event.status # "cancelled" =>
         \E w \in Workers : /\ target[w] = i /\ request[w].op = "patch"
                            /\ "status" \in Named(w)]_vars

\* A PATCH that writes to the times it loaded leaves end_time > start_time, whichever
\* of the two it names (events.py 374-378).
UnracedPatchKeepsWindow ==
    [][\A w \in Workers :
         LET row == rows[target[w]].event
         IN  pc[w] = "write" /\ pc'[w] = "refresh" /\ request[w].op = "patch"
             /\ row.start = loaded[w].start /\ row.end = loaded[w].end =>
                 WindowIsSound(rows'[target[w]].event)]_vars

=============================================================================
