---------------------------- MODULE Invitations ----------------------------
(***************************************************************************)
(* The guest list of one event: POST /events/{id}/invitations, which sends *)
(* a batch of invitations in one transaction, and                          *)
(* POST /events/{id}/invitations/{id}/respond                              *)
(* (src/routers/event_invitations.py), over the table event_invitations.   *)
(*                                                                         *)
(* A worker's step is one SQL statement.  A row is in the table from its   *)
(* INSERT on, but until its transaction commits only that transaction sees *)
(* it, and an INSERT of another row with the same key waits for it.        *)
(***************************************************************************)
EXTENDS Naturals, FiniteSets, Sequences, SequencesExt

CONSTANTS
    Invitees,    \* users, by invitee_user_id
    Workers,     \* request threads, each with its own session
    NoWorker,    \* no transaction holds the row: it is committed
    Batches,     \* the lists of invitees that a request may carry
    Isolations   \* the isolation levels that the database may run at

ASSUME InvitationsAssumption ==
    /\ NoWorker \notin Workers /\ IsFiniteSet(Workers)
    /\ Batches \subseteq Seq(Invitees) \ {<<>>}
    /\ Isolations \subseteq {"repeatable_read", "read_committed"}

VARIABLES
    rows,     \* the row of each invitee: its status, and the transaction that holds it
    pc,       \* where each worker is in its handler
    batch,    \* the list that its request carries
    todo,     \* what is left of it
    sent,     \* how many rows it has inserted
    already,  \* how many it has found
    view,     \* the invitees in its transaction's read view
    level,    \* its transaction's isolation level
    reply     \* the answer that the last step sent, if it sent one

session == <<pc, batch, todo, sent, already, view, level>>
vars    == <<rows, session, reply>>

-----------------------------------------------------------------------------
(* Rows and sessions *)

Answers == {"accepted", "declined"}

\* (event_id, invitee_user_id) is unique; "absent" stands for no row.
NoRow == [status |-> "absent", held |-> NoWorker]

InTable(i) == rows[i].status # "absent"

Committed == {i \in Invitees : InTable(i) /\ rows[i].held = NoWorker}

Inserted(w) == {i \in Invitees : InTable(i) /\ rows[i].held = w}

\* What a SELECT in w's transaction returns: its own rows, and those of its read
\* view, or under READ COMMITTED those of the moment.
DirtySees(w, i) == InTable(i)
Sees(w, i) ==
    \/ i \in Inserted(w)
    \/ i \in (IF level[w] = "repeatable_read" THEN view[w] ELSE Committed)

Idle == "idle"
NoReply == [to |-> NoWorker, code |-> "none"]

Goto(w, label) ==
    /\ pc' = [pc EXCEPT ![w] = label]
    /\ reply' = NoReply

Finish(w, code) ==
    /\ pc'      = [pc EXCEPT ![w] = Idle]
    /\ batch'   = [batch EXCEPT ![w] = <<>>]
    /\ todo'    = [todo EXCEPT ![w] = <<>>]
    /\ sent'    = [sent EXCEPT ![w] = 0]
    /\ already' = [already EXCEPT ![w] = 0]
    /\ view'    = [view EXCEPT ![w] = {}]
    /\ level'   = [level EXCEPT ![w] = "none"]
    /\ reply'   = [to |-> w, code |-> code]

\* The rows that w's transaction holds are committed, or are gone.
Release(w) == rows' = [i \in Invitees |->
    IF i \in Inserted(w) THEN [rows[i] EXCEPT !.held = NoWorker] ELSE rows[i]]
Rollback(w) == rows' = [i \in Invitees |-> IF i \in Inserted(w) THEN NoRow ELSE rows[i]]

\* The invitee that w's loop is at.
Item(w) == Head(todo[w])

\* The loop goes on to the next invitee, or ends.
Advance(w) ==
    /\ todo' = [todo EXCEPT ![w] = Tail(@)]
    /\ Goto(w, IF Len(todo[w]) = 1 THEN "commit" ELSE "lookup")

-----------------------------------------------------------------------------
(* POST /events/{id}/invitations *)

\* 404 or 403: the actor is neither the event's owner nor an admin of its school.
TurnAway(w) ==
    /\ pc[w] = Idle
    /\ Finish(w, "refused")
    /\ UNCHANGED rows

\* The SELECT of the event opens the transaction's read view.
StartBatch(w, b, l) ==
    /\ pc[w] = Idle
    /\ batch' = [batch EXCEPT ![w] = b]
    /\ todo'  = [todo EXCEPT ![w] = b]
    /\ view'  = [view EXCEPT ![w] = Committed]
    /\ level' = [level EXCEPT ![w] = l]
    /\ Goto(w, "lookup")
    /\ UNCHANGED <<rows, sent, already>>

CountAsFound(w) ==
    /\ already' = [already EXCEPT ![w] = @ + 1]
    /\ Advance(w)
    /\ UNCHANGED <<rows, batch, sent, view, level>>

LookupFinds(w) ==
    /\ pc[w] = "lookup"
    /\ Sees(w, Item(w))
    /\ CountAsFound(w)

LookupMisses(w) ==
    /\ pc[w] = "lookup"
    /\ ~ Sees(w, Item(w))
    /\ Goto(w, "insert")
    /\ UNCHANGED <<rows, batch, todo, sent, already, view, level>>

CollidesWithUnanswered(i) == rows[i].status = "sent" /\ rows[i].held = NoWorker

\* The unique key of the table.
Collides(i) == InTable(i) /\ rows[i].held = NoWorker

\* The status that a new invitation starts with.
NewStatusPending == "pending"
NewStatus == "sent"

\* SAVEPOINT, INSERT, RELEASE SAVEPOINT.
InsertRow(w) ==
    /\ pc[w] = "insert"
    /\ ~ Collides(Item(w))
    /\ rows[Item(w)].held = NoWorker
    /\ rows' = [rows EXCEPT ![Item(w)] = [status |-> NewStatus, held |-> w]]
    /\ sent' = [sent EXCEPT ![w] = @ + 1]
    /\ Advance(w)
    /\ UNCHANGED <<batch, already, view, level>>

UndoAll(w) == Rollback(w)

\* ROLLBACK TO SAVEPOINT undoes the INSERT that failed, and no other.
UndoInsert(w) == UNCHANGED rows

AfterCollisionRetry == "lookup"
AfterCollision == "reselect"

\* IntegrityError.
InsertFails(w) ==
    /\ pc[w] = "insert"
    /\ Collides(Item(w))
    /\ UndoInsert(w)
    /\ Goto(w, AfterCollision)
    /\ UNCHANGED <<batch, todo, sent, already, view, level>>

\* The INSERT waits for another transaction's row until the lock wait times out
\* or the wait is found to be part of a deadlock; either error is raised, and the
\* session's end rolls the transaction back.
GiveUp(w) ==
    /\ pc[w] = "insert"
    /\ rows[Item(w)].held \notin {NoWorker, w}
    /\ Rollback(w)
    /\ Finish(w, "gave_up")

ReselectFinds(w) ==
    /\ pc[w] = "reselect"
    /\ Sees(w, Item(w))
    /\ CountAsFound(w)

\* raise: the handler ends with the IntegrityError, and the batch is rolled back.
ReselectMisses(w) ==
    /\ pc[w] = "reselect"
    /\ ~ Sees(w, Item(w))
    /\ Rollback(w)
    /\ Finish(w, "collision")

Commit(w) ==
    /\ pc[w] = "commit"
    /\ Release(w)
    /\ Goto(w, "refresh")
    /\ UNCHANGED <<batch, todo, sent, already, view, level>>

\* The rows are refreshed, and the answer counts those sent and those found.
Respond201(w) ==
    /\ pc[w] = "refresh"
    /\ Finish(w, "ok")
    /\ UNCHANGED rows

\* The request dies where it stands; the database rolls its transaction back.
Fail(w) ==
    /\ pc[w] # Idle
    /\ Rollback(w)
    /\ Finish(w, "error")

-----------------------------------------------------------------------------
(* POST /events/{id}/invitations/{id}/respond *)

\* The invitee answers, or changes its mind: an UPDATE by primary key.
Answer(i, decision) ==
    /\ i \in Committed
    /\ rows' = [rows EXCEPT ![i].status = decision]
    /\ reply' = NoReply
    /\ UNCHANGED session

-----------------------------------------------------------------------------

Init ==
    /\ rows    = [i \in Invitees |-> NoRow]
    /\ pc      = [w \in Workers |-> Idle]
    /\ batch   = [w \in Workers |-> <<>>]
    /\ todo    = [w \in Workers |-> <<>>]
    /\ sent    = [w \in Workers |-> 0]
    /\ already = [w \in Workers |-> 0]
    /\ view    = [w \in Workers |-> {}]
    /\ level   = [w \in Workers |-> "none"]
    /\ reply   = NoReply

Arrive(w) ==
    \/ TurnAway(w)
    \/ \E b \in Batches, l \in Isolations : StartBatch(w, b, l)

Proceed(w) ==
    \/ LookupFinds(w) \/ LookupMisses(w)
    \/ InsertRow(w) \/ InsertFails(w) \/ GiveUp(w)
    \/ ReselectFinds(w) \/ ReselectMisses(w)
    \/ Commit(w) \/ Respond201(w)

Next ==
    \/ \E w \in Workers : Arrive(w)
    \/ \E w \in Workers : Proceed(w)
    \/ \E w \in Workers : Fail(w)
    \/ \E i \in Invitees, d \in Answers : Answer(i, d)

Spec == Init /\ [][Next]_vars

\* A thread that can go on goes on; a wait for a row ends in a time-out at last.
FairSpec == Spec /\ \A w \in Workers : WF_vars(Proceed(w))

-----------------------------------------------------------------------------
(* Correctness *)

Labels == {Idle, "lookup", "insert", "reselect", "commit", "refresh"}

Codes == {"none", "refused", "ok", "gave_up", "collision", "error"}

\* Every variable has its type.
TypeOK ==
    /\ rows    \in [Invitees -> [status : {"absent", "sent"} \cup Answers,
                                 held   : Workers \cup {NoWorker}]]
    /\ pc      \in [Workers -> Labels]
    /\ batch   \in [Workers -> Batches \cup {<<>>}]
    /\ todo    \in [Workers -> Seq(Invitees)]
    /\ sent    \in [Workers -> Nat]
    /\ already \in [Workers -> Nat]
    /\ view    \in [Workers -> SUBSET Invitees]
    /\ level   \in [Workers -> Isolations \cup {"none"}]
    /\ reply   \in [to : Workers \cup {NoWorker}, code : Codes]

\* The counts that a batch reports are those of the rows that it commits, one for
\* each entry of the list, though other batches collide with it on the way
\* (event_invitations.py 133-144: they "would then drift away from what the DB
\* actually held").
CountsMatchTheTable ==
    [][\A w \in Workers :
         pc[w] = "commit" /\ pc'[w] = "refresh" =>
             /\ sent[w] = Cardinality(Inserted(w))
             /\ sent[w] + already[w] = Len(batch[w])]_vars

\* Whoever is on a list that is answered has an invitation that stays: none that
\* was counted as found belonged to a batch that was rolled back since
\* (event_invitations.py 116-122).
AnsweredListIsInvited ==
    [][\A w \in Workers :
         reply'.to = w /\ reply'.code = "ok" => ToSet(batch[w]) \subseteq Committed]_vars

\* A batch is answered with what became of it, in its counts and in the table.
AnswersAreTrue == CountsMatchTheTable /\ AnsweredListIsInvited

\* No batch waits for ever for another's rows, not even two that carry the same
\* invitees in opposite orders.
BatchesAnswered == \A w \in Workers : pc[w] # Idle ~> pc[w] = Idle

\* A collision with a concurrent batch is accounted as already_existed, and the
\* rest of the batch stays alive (event_invitations.py 187-190).
NoBatchLostToACollision == [][reply'.code # "collision"]_vars

-----------------------------------------------------------------------------

Book == INSTANCE GuestList WITH
            GuestLists <- {ToSet(b) : b \in Batches},
            status <- [i \in Invitees |-> IF i \in Committed THEN rows[i].status ELSE "absent"]

\* What others see of the table is a guest list that grows by whole batches and
\* loses nobody (event_invitations.py 178-207).
ImplementsGuestList == Book!Spec
=============================================================================
