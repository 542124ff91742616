------------------------------ MODULE Checkins ------------------------------
(***************************************************************************)
(* The door of one event: POST /events/{id}/checkin                        *)
(* (src/routers/checkins.py) with the QR tokens that                       *)
(* src/services/qr_token_service.py mints, verifies and consumes.          *)
(*                                                                         *)
(* A worker's step is one SQL statement together with the COMMIT that      *)
(* follows it at once, and isolation is as in Registrations: with          *)
(* SnapshotReads a plain SELECT returns the rows as they were at the       *)
(* transaction's first SELECT.  A check-in runs up to four transactions:   *)
(* the checks with the INSERT, the UPDATE of the registration, and the     *)
(* UPDATE of the token, each of which a dying request may never reach.     *)
(***************************************************************************)
EXTENDS Naturals, FiniteSets

CONSTANTS
    Users,            \* attendees
    Workers,          \* request threads
    Tokens,           \* the raw QR tokens that will ever be minted
    SingleUse,        \* those minted with single_use
    Holder,           \* the attendee that a token is bound to, or NoUser
    NoUser,
    NoWorker,
    NoToken,          \* the request presents no token, or one that was never minted
    EventMethod,      \* events.checkin_method
    DeclaredMethods,  \* the checkin_method of a request, or NoMethod
    NoMethod,
    AllowNfc,         \* events.allow_nfc_checkin
    RsvpStatuses,     \* the statuses in which registrations may come to the door
    MaxFailures,      \* bound on the requests that die
    SnapshotReads     \* TRUE for REPEATABLE READ, FALSE for READ COMMITTED

Methods == {"manual", "qr", "geo", "qr_geo", "nfc"}

ASSUME DoorAssumption ==
    /\ NoUser \notin Users /\ NoWorker \notin Workers /\ NoToken \notin Tokens
    /\ "absent" \notin Tokens \cup {NoToken}
    /\ NoMethod \notin Methods \cup {"none"}
    /\ IsFiniteSet(Users) /\ IsFiniteSet(Workers)
    /\ SingleUse \subseteq Tokens
    /\ Holder \in [Tokens -> Users \cup {NoUser}]
    /\ EventMethod \in (Methods \ {"nfc"}) \cup {"none"}
    /\ DeclaredMethods \subseteq Methods \cup {NoMethod}
    /\ AllowNfc \in BOOLEAN /\ SnapshotReads \in BOOLEAN
    /\ RsvpStatuses \subseteq {"absent", "registered", "waitlisted", "cancelled"}
    /\ MaxFailures \in Nat

VARIABLES
    event,     \* the events row; the door reads event.status
    regs,      \* event_registrations: the door reads and writes regs[u].status
    checkins,  \* event_checkins: the token of each attendee's row, or Absent
    used,      \* qr_tokens: used_by_user_id of each token; NoUser: used_at IS NULL
    minted,    \* the tokens that have a row in qr_tokens
    expired,   \* the tokens whose expiry time has passed
    pc,        \* where each worker is in its handler
    job,       \* the check-in that it serves: [user, token, method]
    view,      \* what its transaction's read view holds for it: [status, usedBy]
    reply,     \* the answer that the last step sent, if it sent one
    failures   \* how many requests have died

tables == <<event, regs, checkins, used, minted, expired>>
vars   == <<event, regs, checkins, used, minted, expired, pc, job, view, reply, failures>>

-----------------------------------------------------------------------------
(* Rows, tokens and sessions *)

Absent == "absent"

\* (event_id, attendee_user_id) is unique: a table is a function of the attendee.
CheckedIn(u) == checkins[u] # Absent

\* The attendees that were let in on a token.
AdmittedOn(t) == {u \in Users : checkins[u] = t}

IsOpen(e) == e.status \in {"published", "active"}

Closed == [status |-> "closed", usedBy |-> NoUser]

\* What a check-in of u with t reads of the tables: the status of the one's
\* registration, and the redeemer of the other.
Now(u, t) == [status |-> regs[u].status,
              usedBy |-> IF t \in Tokens THEN used[t] ELSE NoUser]

\* The part of the read view that a transaction's first SELECT opens.
OpenView(u, t) == IF SnapshotReads THEN Now(u, t) ELSE Closed

\* What a SELECT in w's transaction returns, which opens the view if it is closed.
Read(w) == IF view[w] = Closed THEN Now(job[w].user, job[w].token) ELSE view[w]

Idle == "idle"
NoJob == [user |-> NoUser, token |-> NoToken, method |-> NoMethod]
NoReply == [to |-> NoWorker, code |-> "none"]

NeedsQr(m)  == m \in {"qr", "qr_geo"}
NeedsGeo(m) == m \in {"geo", "qr_geo"}

Goto(w, label) ==
    /\ pc' = [pc EXCEPT ![w] = label]
    /\ reply' = NoReply

\* The handler returns or raises, and its session is closed.
Finish(w, code) ==
    /\ pc'    = [pc EXCEPT ![w] = Idle]
    /\ job'   = [job EXCEPT ![w] = NoJob]
    /\ view'  = [view EXCEPT ![w] = Closed]
    /\ reply' = [to |-> w, code |-> code]

-----------------------------------------------------------------------------
(* POST /events/{id}/checkin: the gates *)

Refuse(w, code) ==
    /\ pc[w] = Idle
    /\ Finish(w, code)
    /\ UNCHANGED <<tables, failures>>

\* The rate limit, the attestation, the IP country and the velocity check turn a
\* request away before anything is written.
TurnAway(w) == Refuse(w, "turned_away")

RefuseInactive(w) == ~ IsOpen(event) /\ Refuse(w, "event_not_active")

\* declared_method or event.checkin_method
MethodOf(declared) == IF declared = NoMethod THEN EventMethod ELSE declared

RefuseMethod(w, declared) ==
    /\ IsOpen(event)
    /\ \/ MethodOf(declared) = "none" /\ Refuse(w, "checkin_disabled")
       \/ MethodOf(declared) = "nfc" /\ ~ AllowNfc /\ Refuse(w, "nfc_disabled")

\* The step of the flow that follows the QR check.
AfterQr(m) == IF NeedsGeo(m) THEN "locate" ELSE "lookup"

StartCheckin(w, u, t, declared) ==
    LET m   == MethodOf(declared)
        tok == IF NeedsQr(m) THEN t ELSE NoToken IN
    /\ pc[w] = Idle
    /\ IsOpen(event)
    /\ m # "none" /\ (m = "nfc" => AllowNfc)
    /\ job'  = [job EXCEPT ![w] = [user |-> u, token |-> tok, method |-> m]]
    /\ view' = [view EXCEPT ![w] = OpenView(u, tok)]
    /\ Goto(w, IF NeedsQr(m) THEN "peek" ELSE AfterQr(m))
    /\ UNCHANGED <<tables, failures>>

-----------------------------------------------------------------------------
(* The QR token: peek *)

BoundToOther(t, u) == t \in minted /\ Holder[t] \notin {NoUser, u}

\* verify_token with consume=False: the signature, the expiry time in the token,
\* and the row's used_at.
TokenGood(w, t) ==
    /\ t \in minted
    /\ t \notin expired
    /\ t \in SingleUse => Read(w).usedBy = NoUser

PeekFails(w) ==
    /\ pc[w] = "peek"
    /\ LET t == job[w].token IN
          \/ BoundToOther(t, job[w].user) /\ Finish(w, "attendee_mismatch")
          \/ /\ ~ BoundToOther(t, job[w].user)
             /\ ~ TokenGood(w, t)
             /\ Finish(w, "invalid_token")
    /\ UNCHANGED <<tables, failures>>

PeekPasses(w) ==
    /\ pc[w] = "peek"
    /\ ~ BoundToOther(job[w].token, job[w].user)
    /\ TokenGood(w, job[w].token)
    /\ Goto(w, AfterQr(job[w].method))
    /\ UNCHANGED <<tables, job, view, failures>>

-----------------------------------------------------------------------------
(* The geofence, the registration and the INSERT *)

\* The coordinates are the client's: either outcome is possible.
LocateFails(w) ==
    /\ pc[w] = "locate"
    /\ Finish(w, "geofence_failed")
    /\ UNCHANGED <<tables, failures>>

LocatePasses(w) ==
    /\ pc[w] = "locate"
    /\ Goto(w, "lookup")
    /\ UNCHANGED <<tables, job, view, failures>>

RefusesOnlyAbsent(status) == status = "absent"
RefusesOnlyCancelled(status) == status = "cancelled"
RefusesStatus(status) == status \in {"absent", "cancelled"}

LookupFails(w) ==
    /\ pc[w] = "lookup"
    /\ RefusesStatus(Read(w).status)
    /\ Finish(w, "registration_required")
    /\ UNCHANGED <<tables, failures>>

LookupPasses(w) ==
    /\ pc[w] = "lookup"
    /\ ~ RefusesStatus(Read(w).status)
    /\ Goto(w, "insert")
    /\ UNCHANGED <<tables, job, view, failures>>

\* INSERT and COMMIT, which closes the read view.
InsertCheckin(w) ==
    /\ pc[w] = "insert"
    /\ ~ CheckedIn(job[w].user)
    /\ checkins' = [checkins EXCEPT ![job[w].user] = job[w].token]
    /\ view' = [view EXCEPT ![w] = Closed]
    /\ Goto(w, "reload")
    /\ UNCHANGED <<event, regs, used, minted, expired, job, failures>>

\* IntegrityError: ROLLBACK, and the answer is the row that is there.
InsertFails(w) ==
    /\ pc[w] = "insert"
    /\ CheckedIn(job[w].user)
    /\ Finish(w, "duplicate")
    /\ UNCHANGED <<tables, failures>>

-----------------------------------------------------------------------------
(* After the INSERT *)

AfterReloadIfRegistered(status) == IF status = "registered" THEN "mark" ELSE "redeem"
AfterReload(status) == IF status = "cancelled" THEN "redeem" ELSE "mark"

\* db.refresh(checkin) opens a read view, in which registration.status is loaded.
\* Unless it is cancelled the registration is marked next.
Reload(w) ==
    /\ pc[w] = "reload"
    /\ view' = [view EXCEPT ![w] = OpenView(job[w].user, job[w].token)]
    /\ Goto(w, AfterReload(regs[job[w].user].status))
    /\ UNCHANGED <<tables, job, failures>>

AttendedMisspelt == "checked_in"
AttendedStatus == "attended"

\* UPDATE of the registration's status alone, and COMMIT.  The token's row is
\* read in the next transaction: its SELECT opens the view at "redeem".
MarkAttended(w) ==
    /\ pc[w] = "mark"
    /\ regs' = [regs EXCEPT ![job[w].user].status = AttendedStatus]
    /\ view' = [view EXCEPT ![w] = Closed]
    /\ Goto(w, "redeem")
    /\ UNCHANGED <<event, checkins, used, minted, expired, job, failures>>

\* consume_token returns early for a request without a token, a token that is
\* not single-use, and one that is used.  The row is reloaded: in the view of the
\* refresh if that transaction is still open (the registration was cancelled),
\* else in a new one.
NothingToBurnEver(w) == TRUE
NothingToBurn(w) ==
    \/ job[w].token \notin SingleUse
    \/ Read(w).usedBy # NoUser

RedeemNothing(w) ==
    /\ pc[w] = "redeem"
    /\ NothingToBurn(w)
    /\ Finish(w, "success")
    /\ UNCHANGED <<tables, failures>>

RedeemToken(w) ==
    /\ pc[w] = "redeem"
    /\ ~ NothingToBurn(w)
    /\ Goto(w, "burn")
    /\ UNCHANGED <<tables, job, view, failures>>

\* UPDATE of used_at and used_by_user_id by primary key, and COMMIT: whoever is
\* last stays on the row.
BurnToken(w) ==
    /\ pc[w] = "burn"
    /\ used' = [used EXCEPT ![job[w].token] = job[w].user]
    /\ Finish(w, "success")
    /\ UNCHANGED <<event, regs, checkins, minted, expired, failures>>

-----------------------------------------------------------------------------
(* The rest of the world *)

\* POST /events/{id}/qr-tokens, by an admin of the event's school.
MintToken(t) ==
    /\ t \notin minted
    /\ minted' = minted \cup {t}
    /\ reply' = NoReply
    /\ UNCHANGED <<event, regs, checkins, used, expired, pc, job, view, failures>>

\* The clock passes a token's expiry time.
ExpireToken(t) ==
    /\ t \in minted \ expired
    /\ expired' = expired \cup {t}
    /\ reply' = NoReply
    /\ UNCHANGED <<event, regs, checkins, used, minted, pc, job, view, failures>>

\* The request dies where it stands, and the database rolls back the transaction
\* that it was in: what it committed before stays.
Fail(w) ==
    /\ pc[w] # Idle
    /\ failures < MaxFailures
    /\ failures' = failures + 1
    /\ Finish(w, "error")
    /\ UNCHANGED tables

-----------------------------------------------------------------------------

\* A new request, which nothing obliges a client to send.
Arrive(w) ==
    \/ TurnAway(w)
    \/ RefuseInactive(w)
    \/ \E m \in DeclaredMethods : RefuseMethod(w, m)
    \/ \E u \in Users, t \in minted \cup {NoToken}, m \in DeclaredMethods :
          StartCheckin(w, u, t, m)

\* The handler's own progress.
Proceed(w) ==
    \/ PeekFails(w) \/ PeekPasses(w)
    \/ LocateFails(w) \/ LocatePasses(w)
    \/ LookupFails(w) \/ LookupPasses(w)
    \/ InsertCheckin(w) \/ InsertFails(w)
    \/ Reload(w)
    \/ MarkAttended(w)
    \/ RedeemNothing(w) \/ RedeemToken(w)
    \/ BurnToken(w)

Next ==
    \/ \E w \in Workers : Arrive(w)
    \/ \E w \in Workers : Proceed(w)
    \/ \E w \in Workers : Fail(w)
    \/ \E t \in Tokens : MintToken(t)
    \/ \E t \in Tokens : ExpireToken(t)

\* The door's own state, over any registrations.
InitDoor ==
    /\ checkins = [u \in Users |-> Absent]
    /\ used     = [t \in Tokens |-> NoUser]
    /\ minted   = {}
    /\ expired  = {}
    /\ pc       = [w \in Workers |-> Idle]
    /\ job      = [w \in Workers |-> NoJob]
    /\ view     = [w \in Workers |-> Closed]
    /\ reply    = NoReply
    /\ failures = 0

\* The door by itself: the registrations change only through check-ins, and the
\* event does not change.
Init ==
    /\ InitDoor
    /\ event \in [status : {"published", "completed"}]
    /\ regs  \in [Users -> [status : RsvpStatuses]]

Spec == Init /\ [][Next]_vars

-----------------------------------------------------------------------------
(* Correctness *)

Labels == {Idle, "peek", "locate", "lookup", "insert", "reload", "mark", "redeem", "burn"}

RowStatus == {"absent", "registered", "waitlisted", "cancelled", "attended", "no_show"}

Codes == {"none", "turned_away", "event_not_active", "checkin_disabled", "nfc_disabled",
          "attendee_mismatch", "invalid_token", "geofence_failed",
          "registration_required", "duplicate", "success", "error"}

\* Every variable of the door has its type.
TypeOK ==
    /\ \A u \in Users : regs[u].status \in RowStatus
    /\ checkins \in [Users -> Tokens \cup {NoToken, Absent}]
    /\ used     \in [Tokens -> Users \cup {NoUser}]
    /\ minted   \subseteq Tokens
    /\ expired  \subseteq minted
    /\ pc       \in [Workers -> Labels]
    /\ job      \in [Workers -> [user   : Users \cup {NoUser},
                                 token  : Tokens \cup {NoToken},
                                 method : Methods \cup {NoMethod}]]
    /\ view     \in [Workers -> [status : RowStatus \cup {"closed"},
                                 usedBy : Users \cup {NoUser}]]
    /\ reply    \in [to : Workers \cup {NoWorker}, code : Codes]
    /\ failures \in 0 .. MaxFailures

\* However the requests overlap, a single-use token lets in at most one attendee
\* per worker, and one more per request that died: a worker burns the token that
\* it admits on before it serves anybody else (qr_token_service.py 283-304).
SharingBounded ==
    \A t \in SingleUse : Cardinality(AdmittedOn(t)) <= Cardinality(Workers) + failures

\* Once a single-use token is used it lets nobody in: a second fan that tries to
\* use it after the first fan succeeded is rejected (qr_token_service.py 248-249,
\* tests/test_qr_and_checkin.py 303-305).
UsedTokenAdmitsNobody ==
    [][\A u \in Users :
         ~ CheckedIn(u) /\ checkins'[u] \in SingleUse => used[checkins'[u]] = NoUser]_vars

\* The registration of u is marked or cancelled, or is about to be marked; the token
\* that let u in needs no burning, is burned, or is about to be.
Marked(u) ==
    \/ regs[u].status \in {"attended", "cancelled"}
    \/ \E w \in Workers : job[w].user = u /\ pc[w] \in {"reload", "mark"}
Redeemed(u) ==
    \/ checkins[u] \notin SingleUse
    \/ used[checkins[u]] # NoUser
    \/ \E w \in Workers : job[w].user = u /\ pc[w] \in {"reload", "mark", "redeem", "burn"}

\* The attendees that are in, with something left undone that nobody is about to do.
Stranded == {u \in Users : CheckedIn(u) /\ ~ (Marked(u) /\ Redeemed(u))}

\* The three commits of a check-in leave one attendee at most half done per request
\* that died between them: whoever else was let in is marked, or has cancelled, and
\* its single-use token is burned, by the very request that let it in, since no later
\* request takes up what was left out (checkins.py 364-393).
StrandedByFailures == Cardinality(Stranded) <= failures

-----------------------------------------------------------------------------
(* What the door promises. *)

Gate == INSTANCE Turnstile WITH
            entry  <- checkins,
            status <- [u \in Users |-> regs[u].status],
            burned <- used

\* The door implements the turnstile (checkins.py 338-393).
ImplementsTurnstile == Gate!Spec
=============================================================================
