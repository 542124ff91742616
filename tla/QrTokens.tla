------------------------------ MODULE QrTokens ------------------------------
(***************************************************************************)
(* QR tokens: mint_token, verify_token, peek_token and consume_token of    *)
(* src/services/qr_token_service.py under a clock, with POST               *)
(* /events/{id}/qr-tokens, which mints, and the two ways to redeem: verify *)
(* and consume at once, or peek, admit, and consume afterwards as          *)
(* src/routers/checkins.py does.                                           *)
(*                                                                         *)
(* A raw token is a record of its segments.  Its signature is the payload  *)
(* that was signed: HMAC is taken to be perfect, and so is SHA-256, so     *)
(* that token_hash is the raw token itself.  A string without these        *)
(* segments is answered invalid_format and left out.  The integers of one  *)
(* have more than one spelling, of which mint writes the plain one.        *)
(* The clock counts ticks, TicksPerSecond to a second.                     *)
(***************************************************************************)
EXTENDS Naturals, Sequences, FiniteSets

CONSTANTS
    Nonces,           \* one for each token that will ever be minted
    Tables, Events,   \* the discriminator, and the ids it disambiguates
    Attendees, NoAttendee,
    Workers, NoWorker,
    Orders,           \* what the admins ask for: [table, event, single, attendee]
    Ttl,              \* the lifetime they ask for, in seconds
    TicksPerSecond,
    Horizon,          \* bound: the last tick
    MaxFailures,      \* bound on the COMMITs that fail
    SnapshotReads     \* TRUE for REPEATABLE READ, FALSE for READ COMMITTED

TokenAssumption ==
    /\ IsFiniteSet(Nonces) /\ IsFiniteSet(Workers) /\ NoWorker \notin Workers
    /\ NoAttendee \notin Attendees
    /\ Orders \subseteq [table : Tables, event : Events, single : BOOLEAN,
                         attendee : Attendees \cup {NoAttendee}]
    /\ Ttl \in Nat \ {0} /\ TicksPerSecond \in Nat \ {0}
    /\ Horizon \in Nat /\ MaxFailures \in Nat /\ SnapshotReads \in BOOLEAN

VARIABLES
    clock,     \* ticks since the start
    rows,      \* qr_tokens: the row of each nonce, or NoRow
    pc, job,   \* job[w]: the request, as Job says
    view,      \* view[w]: the read view of the transaction it verifies in
    reply,     \* what the last step answered, if it answered
    failures   \* how many COMMITs have failed

vars == <<clock, rows, pc, job, view, reply, failures>>

-----------------------------------------------------------------------------
(* Tokens, rows and time *)

Idle   == "idle"
NoRow  == [token_hash |-> "none"]
NoJob  == [door |-> "none"]
Closed == <<>>
Nothing == [to |-> NoWorker, code |-> "none", job |-> NoJob]

Second(tick) == tick \div TicksPerSecond

\* A DATETIME column without fractions rounds half a second up.
Rounded(tick) == (2 * tick + TicksPerSecond) \div (2 * TicksPerSecond)

Payload(raw) == <<raw.table, raw.event, raw.nonce, raw.expires, raw.attendee>>

\* NoAttendee stands for the five segments of an event-scoped token.
RawToken(n, order, expires) ==
    [table |-> order.table, event |-> order.event, nonce |-> n, expires |-> expires,
     attendee |-> order.attendee, spelling |-> "plain",
     signature |-> <<order.table, order.event, n, expires, order.attendee>>]

Minted == {n \in Nonces : rows[n] # NoRow}
Issued == {rows[n].token_hash : n \in Minted}

\* Copies of a token in which one segment is not what was issued.
Altered(raw) ==
    {[raw EXCEPT !.table = t] : t \in Tables} \cup
    {[raw EXCEPT !.event = e] : e \in Events} \cup
    {[raw EXCEPT !.expires = @ + 1]} \cup
    {[raw EXCEPT !.attendee = u] : u \in Attendees \cup {NoAttendee}} \cup
    {[raw EXCEPT !.spelling = "padded"], [raw EXCEPT !.signature = <<>>]}

Presentable == UNION {Altered(raw) : raw \in Issued}

Doors == [raw : Presentable, table : Tables, event : Events, attendee : Attendees,
          consume : BOOLEAN]

\* A request at door d; history: when it was checked, and whether its token was
\* spent by then.
Job(d) == [door |-> d, asked |-> clock,
           late |-> \E n \in Minted : rows[n].token_hash = d.raw /\ rows[n].used]

Goto(w, label) ==
    /\ pc' = [pc EXCEPT ![w] = label]
    /\ reply' = Nothing

\* The handler answers j, and its session is closed.
Finish(w, j, code) ==
    /\ pc'    = [pc EXCEPT ![w] = Idle]
    /\ job'   = [job EXCEPT ![w] = NoJob]
    /\ view'  = [view EXCEPT ![w] = Closed]
    /\ reply' = [to |-> w, code |-> code, job |-> j]

-----------------------------------------------------------------------------
(* Minting *)

\* The expiry in the token is cut to a second; the one in the row, which the admin
\* is told, is rounded to one.
Mint(n, order) ==
    LET expires == clock + Ttl * TicksPerSecond IN
    /\ rows[n] = NoRow
    /\ rows' = [rows EXCEPT ![n] =
                   [token_hash |-> RawToken(n, order, Second(expires)),
                    event_table |-> order.table, event_id |-> order.event,
                    expires_at |-> Rounded(expires), single_use |-> order.single,
                    used |-> FALSE, used_by |-> NoAttendee]]
    /\ reply' = Nothing
    /\ UNCHANGED <<clock, pc, job, view, failures>>

-----------------------------------------------------------------------------
(* Verifying *)

\* A token is good until its second, and no longer.
LapsedEarly(raw, tick) == raw.expires <= Second(tick)

Lapsed(raw, tick) == raw.expires < Second(tick)

\* What can be wrong with the token itself.
Wrong(d, code) ==
    \/ code = "event_mismatch"     /\ (d.raw.event # d.event \/ d.raw.table # d.table)
    \/ code = "signature_mismatch" /\ d.raw.signature # Payload(d.raw)
    \/ code = "attendee_mismatch"  /\ d.raw.attendee \notin {NoAttendee, d.attendee}
    \/ code = "expired"            /\ Lapsed(d.raw, clock)

\* The order in which it is looked at.
ChecksAttendeeFirst == <<"attendee_mismatch", "event_mismatch", "signature_mismatch", "expired">>

Checks == <<"event_mismatch", "signature_mismatch", "attendee_mismatch", "expired">>

Refuse(w, d) ==
    /\ pc[w] = Idle
    /\ \E i \in DOMAIN Checks :
          /\ Wrong(d, Checks[i])
          /\ \A j \in DOMAIN Checks : j < i => ~ Wrong(d, Checks[j])
          /\ Finish(w, Job(d), Checks[i])
    /\ UNCHANGED <<clock, rows, failures>>

\* The token is good by itself.  The caller's transaction has its read view.
Present(w, d) ==
    /\ pc[w] = Idle
    /\ \A i \in DOMAIN Checks : ~ Wrong(d, Checks[i])
    /\ job'  = [job EXCEPT ![w] = Job(d)]
    /\ view' = [view EXCEPT ![w] = rows]
    /\ Goto(w, "lookup")
    /\ UNCHANGED <<clock, rows, failures>>

Rows(w) == IF SnapshotReads THEN view[w] ELSE rows

\* SELECT by token_hash.
Matches(w) == {n \in Nonces : Rows(w)[n] # NoRow /\ Rows(w)[n].token_hash = job[w].door.raw}

LookupFindsNone(w) ==
    /\ pc[w] = "lookup"
    /\ Matches(w) = {}
    /\ Finish(w, job[w], "not_found")
    /\ UNCHANGED <<clock, rows, failures>>

LookupFindsUsed(w) ==
    /\ pc[w] = "lookup"
    /\ \E n \in Matches(w) : Rows(w)[n].single_use /\ Rows(w)[n].used
    /\ Finish(w, job[w], "already_used")
    /\ UNCHANGED <<clock, rows, failures>>

\* verify_token goes on to consume_token, which returns at once unless the token
\* is for a single use.
LookupFinds(w) ==
    /\ pc[w] = "lookup"
    /\ job[w].door.consume
    /\ \E n \in Matches(w) :
          \/ /\ Rows(w)[n].single_use /\ ~ Rows(w)[n].used
             /\ Goto(w, "consume")
             /\ UNCHANGED <<job, view>>
          \/ /\ ~ Rows(w)[n].single_use
             /\ Finish(w, job[w], "ok")
    /\ UNCHANGED <<clock, rows, failures>>

\* peek_token: the caller keeps the row.
PeekFinds(w) ==
    /\ pc[w] = "lookup"
    /\ ~ job[w].door.consume
    /\ \E n \in Matches(w) : ~ (Rows(w)[n].single_use /\ Rows(w)[n].used)
    /\ pc' = [pc EXCEPT ![w] = "peeked"]
    /\ reply' = [to |-> w, code |-> "ok", job |-> job[w]]
    /\ UNCHANGED <<clock, rows, job, view, failures>>

\* The geofence refuses, or the attendee has been admitted before.
Abandon(w) ==
    /\ pc[w] = "peeked"
    /\ Finish(w, job[w], "not_admitted")
    /\ UNCHANGED <<clock, rows, failures>>

\* The caller has committed, so that consume_token reads the row again.
Admit(w) ==
    /\ pc[w] = "peeked"
    /\ Goto(w, "reread")
    /\ UNCHANGED <<clock, rows, job, view, failures>>

Row(w) == CHOOSE n \in Nonces : rows[n] # NoRow /\ rows[n].token_hash = job[w].door.raw

\* Every token is consumed.
RereadUnasked(w) ==
    /\ pc[w] = "reread"
    /\ Goto(w, "consume")
    /\ UNCHANGED <<clock, rows, job, view, failures>>

\* consume_token returns at once unless the token is unspent and for a single use.
Reread(w) ==
    /\ pc[w] = "reread"
    /\ \/ /\ rows[Row(w)].single_use /\ ~ rows[Row(w)].used
          /\ Goto(w, "consume")
          /\ UNCHANGED <<job, view>>
       \/ /\ ~ rows[Row(w)].single_use \/ rows[Row(w)].used
          /\ Finish(w, job[w], "consumed")
    /\ UNCHANGED <<clock, rows, failures>>

Answer(w) == IF job[w].door.consume THEN "ok" ELSE "consumed"

\* The session is closed before its COMMIT.
ConsumeUncommitted(w) ==
    /\ pc[w] = "consume"
    /\ Finish(w, job[w], Answer(w))
    /\ UNCHANGED <<clock, rows, failures>>

\* UPDATE of used_at and used_by_user_id, whatever they are by now, and COMMIT.
Consume(w) ==
    /\ pc[w] = "consume"
    /\ rows' = [rows EXCEPT ![Row(w)].used = TRUE, ![Row(w)].used_by = job[w].door.attendee]
    /\ Finish(w, job[w], Answer(w))
    /\ UNCHANGED <<clock, failures>>

\* The UPDATE or its COMMIT fails; the session is rolled back.
ConsumeFails(w) ==
    /\ pc[w] = "consume"
    /\ failures < MaxFailures
    /\ failures' = failures + 1
    /\ Finish(w, job[w], "error")
    /\ UNCHANGED <<clock, rows>>

Tick ==
    /\ clock < Horizon
    /\ clock' = clock + 1
    /\ reply' = Nothing
    /\ UNCHANGED <<rows, pc, job, view, failures>>

-----------------------------------------------------------------------------

Init ==
    /\ clock = 0
    /\ rows  = [n \in Nonces |-> NoRow]
    /\ pc    = [w \in Workers |-> Idle]
    /\ job   = [w \in Workers |-> NoJob]
    /\ view  = [w \in Workers |-> Closed]
    /\ reply = Nothing
    /\ failures = 0

Next ==
    \/ \E n \in Nonces, order \in Orders : Mint(n, order)
    \/ \E w \in Workers :
          \/ \E d \in Doors : Refuse(w, d) \/ Present(w, d)
          \/ LookupFindsNone(w) \/ LookupFindsUsed(w) \/ LookupFinds(w)
          \/ PeekFinds(w) \/ Abandon(w) \/ Admit(w)
          \/ Reread(w) \/ Consume(w) \/ ConsumeFails(w)
    \/ Tick

Spec == Init /\ [][Next]_vars

-----------------------------------------------------------------------------
(* Correctness *)

TypeOK ==
    /\ clock \in 0..Horizon
    /\ \A n \in Minted :
          /\ rows[n].token_hash \in Presentable
          /\ rows[n].event_table \in Tables /\ rows[n].event_id \in Events
          /\ rows[n].used => rows[n].single_use
          /\ rows[n].used_by # NoAttendee => rows[n].used
    /\ pc \in [Workers -> {Idle, "lookup", "peeked", "reread", "consume"}]
    /\ \A w \in Workers : pc[w] = Idle <=> job[w] = NoJob
    /\ \A w \in Workers : pc[w] = Idle <=> view[w] = Closed
    /\ failures \in 0..MaxFailures

\* The row whose token j presents at the door of the row's own event, by an
\* attendee that it is for.
Rightly(j, n) ==
    /\ rows[n].token_hash = j.door.raw
    /\ rows[n].event_table = j.door.table /\ rows[n].event_id = j.door.event
    /\ j.door.raw.attendee \in {NoAttendee, j.door.attendee}

\* The expiry that the admin is told is the one at the door: until then nobody
\* with the token is told that it has expired, and a second later nobody is let in
\* on it, although the one is rounded by the database and the other is cut by the
\* service (qr_token_service.py 100-101, 123, 238).
ExpiryIsAsAnnounced ==
    [][\A n \in Minted :
         reply'.to # NoWorker /\ Rightly(reply'.job, n) =>
            /\ reply'.code = "expired" =>
                  reply'.job.asked >= rows[n].expires_at * TicksPerSecond
            /\ reply'.code = "ok" =>
                  reply'.job.asked < (rows[n].expires_at + 1) * TicksPerSecond]_vars

\* Whatever is presented wherever, "ok" means that this very token was issued, for
\* this event of this table and for whoever presents it.  And "attendee_mismatch" is
\* an anti-sharing signal (checkins.py 293-297): it is only given for a token that was
\* issued for this event to somebody else, and never for one of another event or one
\* that was never issued (qr_token_service.py 216-246).
AnswersAreGenuine ==
    [][/\ reply'.code = "ok" => \E n \in Minted : Rightly(reply'.job, n)
       /\ reply'.code = "attendee_mismatch" =>
            \E n \in Minted :
               /\ Payload(rows[n].token_hash) = Payload(reply'.job.door.raw)
               /\ rows[n].event_table = reply'.job.door.table
               /\ rows[n].event_id = reply'.job.door.event]_vars

\* A single-use token is spent by the answer "ok" of verify_token, and once it is
\* spent no request that begins later is answered "ok" or becomes its redeemer; only
\* requests that were under way can (qr_token_service.py 248-253, 296-304).
SpentForGood ==
    [][\A n \in Minted :
         /\ reply'.code = "ok" /\ Rightly(reply'.job, n) /\ rows[n].single_use =>
               /\ ~ reply'.job.late
               /\ reply'.job.door.consume => rows'[n].used
         /\ rows[n].used =>
               /\ rows'[n].used
               /\ rows'[n].used_by # rows[n].used_by => ~ reply'.job.late]_vars

=============================================================================
