------------------------------- MODULE Travel -------------------------------
(***************************************************************************)
(* One attendee at several events: the velocity check of                   *)
(* POST /events/{id}/checkin (src/services/geo_verification.py, called by  *)
(* src/routers/checkins.py) and the INSERT that follows it, with the       *)
(* requests of that attendee in other threads and the organizers' PATCHes  *)
(* of venues between them.                                                 *)
(*                                                                         *)
(* The application's clock counts ticks, TicksPerSecond to a second;       *)
(* checkin_at is the clock of the database at the INSERT, cut to seconds.  *)
(* Isolation is as in Checkins.  The gates that do not depend on where the *)
(* attendee was are left out: they only make a request end earlier.        *)
(***************************************************************************)
EXTENDS Geography, FiniteSets

CONSTANTS
    Events, NoEvent,
    Workers, NoWorker,
    FirstVenue,       \* the longitude of each event at first, or NoCoord
    VenueEdits,       \* what organizers change it to
    MaxSpeed,         \* VELOCITY_MAX_MPH, in metres per tick
    Window,           \* VELOCITY_WINDOW_SECONDS, in ticks
    TicksPerSecond,
    Horizon,          \* bound: the last tick
    SnapshotReads     \* TRUE for REPEATABLE READ, FALSE for READ COMMITTED

TravelAssumption ==
    /\ CircumferenceIsEven
    /\ IsFiniteSet(Events) /\ NoEvent \notin Events
    /\ IsFiniteSet(Workers) /\ NoWorker \notin Workers
    /\ FirstVenue \in [Events -> Longitudes \cup {NoCoord}]
    /\ VenueEdits \subseteq Longitudes \cup {NoCoord}
    /\ MaxSpeed \in Nat \ {0} /\ Window \in Nat /\ TicksPerSecond \in Nat \ {0}
    /\ Horizon \in Nat /\ SnapshotReads \in BOOLEAN

VARIABLES
    clock,     \* ticks since the start
    venue,     \* venue[e]: the longitude of event e, NoCoord without both coordinates
    stamp,     \* stamp[e]: checkin_at of the attendee's row, in seconds, or Never
    pc, job,   \* job[w]: the event of the request
    view,      \* view[w]: its transaction's read view of venue and stamp
    now,       \* now[w]: the clock that its velocity check has read
    reply,     \* what the last step answered, if it answered
    entered,   \* history: of each check-in, the tick of its row, the venue, and
               \* whether it was checked against the one before it
    moved,     \* history: the events whose venue has changed
    overtaken  \* history: the requests whose read view lacks a check-in

tables  == <<venue, stamp>>
session == <<pc, job, view, now>>
history == <<entered, moved, overtaken>>
vars    == <<clock, tables, session, reply, history>>

-----------------------------------------------------------------------------

Never  == -1
Idle   == "idle"
Closed == [venue |-> <<>>, stamp |-> <<>>]

NoReply == [to |-> NoWorker, code |-> "none", event |-> NoEvent]
NoEntry == [tick |-> Never, place |-> NoCoord, checked |-> FALSE]

Current == [venue |-> venue, stamp |-> stamp]

Rows(w) == IF SnapshotReads THEN view[w] ELSE Current

Seconds(tick) == tick \div TicksPerSecond

\* checkin_at of a row in ticks: the beginning of its second.
Since(second) == second * TicksPerSecond

Goto(w, label) ==
    /\ pc' = [pc EXCEPT ![w] = label]
    /\ reply' = NoReply

\* The session is closed.
Finish(w, code) ==
    /\ pc'    = [pc EXCEPT ![w] = Idle]
    /\ job'   = [job EXCEPT ![w] = NoEvent]
    /\ view'  = [view EXCEPT ![w] = Closed]
    /\ now'   = [now EXCEPT ![w] = Never]
    /\ reply' = [to |-> w, code |-> code, event |-> job[w]]

-----------------------------------------------------------------------------

\* SELECT of the event: the transaction's read view opens.
Start(w, e) ==
    /\ pc[w] = Idle
    /\ job'  = [job EXCEPT ![w] = e]
    /\ view' = [view EXCEPT ![w] = Current]
    /\ overtaken' = overtaken \ {w}
    /\ Goto(w, "clock")
    /\ UNCHANGED <<clock, tables, now, entered, moved>>

\* An event without a venue is not checked.
SkipUnlocated(w) ==
    /\ pc[w] = "clock"
    /\ view[w].venue[job[w]] = NoCoord
    /\ Goto(w, "insert")
    /\ UNCHANGED <<clock, tables, job, view, now, history>>

\* now = datetime.now(utc)
ReadClock(w) ==
    /\ pc[w] = "clock"
    /\ view[w].venue[job[w]] # NoCoord
    /\ now' = [now EXCEPT ![w] = clock]
    /\ Goto(w, "prior")
    /\ UNCHANGED <<clock, tables, job, view, history>>

\* The rows within the window at other events, and those of them that ORDER BY
\* checkin_at DESC may put first.
Recent(w) == {e \in Events \ {job[w]} :
                 /\ Rows(w).stamp[e] # Never
                 /\ Since(Rows(w).stamp[e]) >= now[w] - Window}

\* ORDER BY checkin_at without DESC.
PriorsOldest(w) == {e \in Recent(w) : \A f \in Recent(w) : Rows(w).stamp[f] >= Rows(w).stamp[e]}

Priors(w) == {e \in Recent(w) : \A f \in Recent(w) : Rows(w).stamp[f] <= Rows(w).stamp[e]}

\* The application's clock cut to seconds as well.
ImplausibleRounded(w, e) ==
    LET elapsed == Since(Seconds(now[w])) - Since(Rows(w).stamp[e]) IN
    /\ Rows(w).venue[e] # NoCoord
    /\ elapsed > 0
    /\ TooFast(Distance(Rows(w).venue[e], view[w].venue[job[w]]), elapsed, MaxSpeed)

\* The event object is the one first read; the prior's venue is read now.  No time
\* between the two, or less, passes.
Implausible(w, e) ==
    LET elapsed == now[w] - Since(Rows(w).stamp[e]) IN
    /\ Rows(w).venue[e] # NoCoord
    /\ elapsed > 0
    /\ TooFast(Distance(Rows(w).venue[e], view[w].venue[job[w]]), elapsed, MaxSpeed)

VelocityPasses(w) ==
    /\ pc[w] = "prior"
    /\ Priors(w) = {} \/ \E e \in Priors(w) : ~ Implausible(w, e)
    /\ Goto(w, "insert")
    /\ UNCHANGED <<clock, tables, job, view, now, history>>

VelocityRefuses(w) ==
    /\ pc[w] = "prior"
    /\ \E e \in Priors(w) : Implausible(w, e)
    /\ Finish(w, "velocity_implausible")
    /\ UNCHANGED <<clock, tables, history>>

\* The entry of w is one the check can vouch for: at a venue that stands where it
\* stood, in view of all the entries there are, and after their seconds began.
Vouched(w) ==
    /\ view[w].venue[job[w]] # NoCoord
    /\ moved = {}
    /\ w \notin overtaken
    /\ \A e \in Events : stamp[e] # Never => now[w] > Since(stamp[e])

\* INSERT and COMMIT; server_default=func.now() is the database's clock.
InsertCheckin(w) ==
    /\ pc[w] = "insert"
    /\ stamp[job[w]] = Never
    /\ stamp' = [stamp EXCEPT ![job[w]] = Seconds(clock)]
    /\ entered' = [entered EXCEPT ![job[w]] =
                      [tick |-> clock, place |-> view[w].venue[job[w]],
                       checked |-> Vouched(w)]]
    /\ overtaken' = Workers \ {w}
    /\ Finish(w, "success")
    /\ UNCHANGED <<clock, venue, moved>>

\* The attendee has a row at this event.
InsertFails(w) ==
    /\ pc[w] = "insert"
    /\ stamp[job[w]] # Never
    /\ Finish(w, "duplicate")
    /\ UNCHANGED <<clock, tables, history>>

\* PATCH of the coordinates.
MoveVenue(e, place) ==
    /\ venue[e] # place
    /\ venue' = [venue EXCEPT ![e] = place]
    /\ moved' = moved \cup {e}
    /\ reply' = NoReply
    /\ UNCHANGED <<clock, stamp, session, entered, overtaken>>

Tick ==
    /\ clock < Horizon
    /\ clock' = clock + 1
    /\ reply' = NoReply
    /\ UNCHANGED <<tables, session, history>>

-----------------------------------------------------------------------------

Init ==
    /\ clock = 0
    /\ venue = FirstVenue
    /\ stamp = [e \in Events |-> Never]
    /\ pc    = [w \in Workers |-> Idle]
    /\ job   = [w \in Workers |-> NoEvent]
    /\ view  = [w \in Workers |-> Closed]
    /\ now   = [w \in Workers |-> Never]
    /\ reply = NoReply
    /\ entered = [e \in Events |-> NoEntry]
    /\ moved = {}
    /\ overtaken = {}

Next ==
    \/ \E w \in Workers :
          \/ \E e \in Events : Start(w, e)
          \/ SkipUnlocated(w) \/ ReadClock(w)
          \/ VelocityPasses(w) \/ VelocityRefuses(w)
          \/ InsertCheckin(w) \/ InsertFails(w)
    \/ \E e \in Events, place \in VenueEdits : MoveVenue(e, place)
    \/ Tick

Spec == Init /\ [][Next]_vars

-----------------------------------------------------------------------------
(* Correctness *)

TypeOK ==
    /\ clock \in 0..Horizon
    /\ venue \in [Events -> Longitudes \cup {NoCoord}]
    /\ stamp \in [Events -> {Never} \cup 0..Seconds(Horizon)]
    /\ pc \in [Workers -> {Idle, "clock", "prior", "insert"}]
    /\ job \in [Workers -> Events \cup {NoEvent}]
    /\ \A w \in Workers : pc[w] = Idle <=> view[w] = Closed
    /\ now \in [Workers -> {Never} \cup 0..clock]
    /\ moved \subseteq Events /\ overtaken \subseteq Workers

Entered == {e \in Events : entered[e] # NoEntry}

Gap(e, f) == Abs(entered[e].tick - entered[f].tick)

\* Two entries within the window, of which the second that checkin_at lost may be
\* a part.
WithinWindow(e, f) == Gap(e, f) + TicksPerSecond <= Window

\* e and f are too far apart for the time between them and `slack` ticks more.
Apart(e, f, slack) ==
    /\ entered[e].place # NoCoord /\ entered[f].place # NoCoord
    /\ TooFast(Distance(entered[e].place, entered[f].place), Gap(e, f) + slack, MaxSpeed)

\* The check compares with the most recent entry only, to the second; as long as
\* no entry escapes it, that is enough for all pairs of entries in the window,
\* however many others lie between them: nobody is ahead of a journey at full
\* speed by more than what checkin_at lost of a second at each stop (geo_verification.py 121-160).
JourneyIsPlausible ==
    (\A e \in Entered : entered[e].checked) =>
        \A e, f \in Entered :
            WithinWindow(e, f) =>
                ~ Apart(e, f, (TicksPerSecond - 1) * (Cardinality(Entered) - 1))

\* Nobody comes at a permitted speed from p, at the time of entry e, to the event
\* of w as its request found it.
TooFar(w, e, p) ==
    /\ p # NoCoord
    /\ TooFast(Distance(p, view[w].venue[job[w]]), now[w] - entered[e].tick, MaxSpeed)

\* Whoever travels at a speed that is allowed is not refused: some earlier entry
\* was too far away for the time that has really passed since; or would have been,
\* were it where its venue is now that an organizer has moved it
\* (geo_verification.py 120-159, checkins.py 232-243).
RefusalIsDue ==
    \A w \in Workers :
        reply'.to = w /\ reply'.code = "velocity_implausible" =>
            \E e \in Entered \ {job[w]} :
                \/ TooFar(w, e, entered[e].place)
                \/ e \in moved /\ TooFar(w, e, Rows(w).venue[e])

TravellersAreNotRefused == [][RefusalIsDue]_vars
=============================================================================
