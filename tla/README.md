# A TLA+ verification of the check-in service

The repository is a FastAPI service over MySQL in which organizers publish
events and invite people, attendees register (RSVP) and are let in at the door
with QR tokens. This directory holds TLA+ models of the parts with state, TLC
configurations that check them on small instances, and TLAPS proofs, for
instances of any size: every safety property of a passing run is also a theorem,
about the registration desk, the door, the two together, the threads and connections
that they run on, invitations, events, venues, the rate limiter, tokens, the access
rules, the velocity check and the retention job. Paths below are relative to the repository
(`src/routers/...`); the definitions of each module are mapped to their lines in
`PROJECT.json`.

## 1. The system

| Component | State | Operations | Correct when |
|---|---|---|---|
| Registration desk, `src/routers/registrations.py` | `events.status`, `events.max_capacity`; the rows of `event_registrations` (status, waitlist_position, idempotency_key); the InnoDB lock on the events row | POST register, DELETE registration; PATCH/DELETE of the event race with them | no more active rows than the capacity; one row per attendee and key; distinct places in the line; a retry gets its row; a cancelled row stays cancelled; every request is answered |
| Check-in door, `src/routers/checkins.py` | `event_checkins`, registration status, token use | POST checkin: gates, token peek, geofence, registration lookup, INSERT, UPDATE of the registration, burning of the token, each with a commit of its own | one entry per attendee; entry only on a registration and a token of one's own; whoever is let in is marked and the token burned; a used token lets nobody in |
| QR tokens, `src/services/qr_token_service.py` | `qr_tokens.used_at`, `used_by_user_id`, expiry | mint, verify (with and without consume), consume | single use, binding to an attendee, expiry |
| Rate limiter, `_rate_limit` in `src/routers/checkins.py` | two dictionaries of deques in the memory of the process | prune, test, charge, under a `threading.Lock`, with a clock read before it | the limits per attendee and per address; a refusal costs nothing; Retry-After is right |
| Invitations, `src/routers/event_invitations.py` | `event_invitations` | batch POST with a SAVEPOINT per row, respond, lists | a batch is all or nothing, its counts are those of the rows; an answer survives a second invitation; a collision costs only its row |
| Events, `src/routers/events.py` | `events` | POST with Idempotency-Key, PATCH, DELETE (cancels), lists | a key names one event; a PATCH writes what it was asked to write; the event ends after it starts |
| Access rules, `src/auth.py`, `src/routers/eligible_groups.py` and the gates of all routers | groups, rosters and cohorts of another service (read only); tenants and visibility of events | tenant resolution, ownership, group binding, discovery, visibility gates | the gates of different endpoints agree with each other |
| Geo and velocity, `src/services/geofence_service.py`, `geo_verification.py`, and the venue rules of `src/schemas/event.py` | coordinates and radius of the event, `checkin_at`; the cap on radii that the process read at its start | geofence, velocity check, POST and PATCH of a venue | the geofence is the disc that its radius says; a journey stays below the speed limit, and nobody below it is refused |
| Retention job, `src/jobs/geofence_retention.py` | the location hashes of `event_checkins` | one bulk UPDATE by a process of its own | no hash outlives its window by more than the schedule; nothing else is taken |
| Service, `src/main.py`, `src/database.py` | the threads that run handlers, the connection pool, the sessions, the isolation level | `get_db`, authentication, serialization, startup | who holds the lock of an event can run; every connection comes back; a restart of the database fails few requests; the components above still hold when they share rows |
| Hashing, CSRF | none | | not modelled, see section 8 |

The components interact through MySQL rows: the desk and the door write the
status of the same registrations, the organizer edits the event that both read,
the invitations are read by the desk's `invite_only` gate, the job scrubs the
door's rows; and through what a process has of each resource: all handlers run
in one pool of threads, on one pool of connections. There are no messages
between them. The hard behaviours are therefore interleavings of SQL statements
of different sessions, what a session's read view and identity map still hold,
which transaction a dying request was in, retries of clients, clocks of
different resolution, and who waits for what. `PROJECT.json` lists these hazards
with the lines where they bite.

### Isolation

`src/database.py:98` creates the engine without an isolation level, so MySQL's
default applies: REPEATABLE READ. Its rules matter to nearly every property and
are part of the models:

* the first plain SELECT of a transaction opens a read view, and the later ones
  return the rows of that view, plus the transaction's own;
* `SELECT ... FOR UPDATE`, INSERT, UPDATE and unique keys act on the rows of the
  moment; COMMIT and ROLLBACK end the view;
* SQLAlchemy keeps one object per row and session, so that the FOR UPDATE of
  `registrations.py:249`, which lacks `populate_existing`, locks the row but
  leaves the Event object, hence `max_capacity`, as first read.

`SnapshotReads` (or `Isolations`) selects between this and READ COMMITTED. The
tests of the repository run on SQLite, where neither is visible.

## 2. Modules

| Module | Models | Composed with |
|---|---|---|
| `Registrations` | desk, statement by statement | instantiates `RsvpDesk` |
| `RsvpDesk` | abstract: admit, queue, withdraw, each in one step | |
| `Checkins` | door and tokens | instantiates `Turnstile` |
| `Turnstile` | abstract: let in, mark, burn | |
| `CheckinService` | desk and door over the same `event` and `regs` | instantiates `Registrations` and `Checkins` |
| `Invitations` | batches with savepoints, answers | instantiates `GuestList` |
| `GuestList` | abstract: whole lists are added, nobody is removed | |
| `Events` | POST, PATCH and DELETE of events | |
| `RateLimiter` | the two sliding windows | |
| `QrTokens` | a token's segments, signature, expiry and row, by verify and by peek and consume | |
| `Access` | tenants, roles, groups, visibility | |
| `Geography` | the pure rules about places: distance, geofence, speed, what the schemas accept | |
| `Venues` | an event's venue through POST, PATCH and restarts under other caps, and the geofence | extends `Geography` |
| `Travel` | one attendee's check-ins at several events, and the velocity check | extends `Geography` |
| `Retention` | the job's UPDATE row by row, among check-ins | |
| `Serving` | threads, connections and the lock of an events row | |
| `Organizers` | what organizers do: invitations, events and venues | extends `Invitations`, instantiates `Events` and `Venues` |
| `Scans` | what a scan meets first: limiter and tokens | extends `RateLimiter`, instantiates `QrTokens` |
| `Attendees` | what becomes of attendees: access, velocity and retention | extends `Retention`, instantiates `Access` and `Travel` (twice, as `Journey` and `Detour`) |
| `MCRegistrations`, `MCCheckins`, `MCCheckinService`, `MCInvitations`, `MCAccess`, `MCServing`, `MCOrganizers`, `MCScans`, `MCAttendees` | the small sets and symmetries of TLC | extend the module they are named after |
| `RegistrationsProofs`, `CheckinsProofs`, `CheckinServiceProofs`, `ServingProofs`, `OrganizersProofs`, `ScansProofs`, `AttendeesProofs`, `TravelProofs` | theorems (section 5) | extend the module they are named after; `AttendeesProofs` instantiates `TravelProofs` for each of its two journeys |

`Organizers`, `Scans` and `Attendees` put components together that share no
state. A behaviour of all of them is then a behaviour of each, and a property of
one cannot depend on another; so TLC explores one after the other, the one that
`part` names, with the rest in an initial state, and not their product.
Components that do share state are composed step by step, as in
`CheckinService`.

How state and actions correspond to the code, in all but `RateLimiter`,
`Access`, `Venues` and `Serving`: a *worker* is a request thread with its session. `pc[w]` names the
statement that it executes next, `job[w]` (or `request`, `batch`) holds the
request's inputs, `view[w]` its read view, and `reply` what the last step
answered, if it answered. A step is one SQL statement, together with a COMMIT
or ROLLBACK that follows it with no other statement in between; Python between
two statements touches only the session and belongs to the step before or after
it. `Finish` is the end of a handler: `get_db` closes the session, which rolls
back what is uncommitted and releases locks. `Fail` is the death of a request
anywhere in its handler. A unique key on (event, user) makes a table a function
of the user; `"absent"` stands for no row.

* **`Registrations`.** `StartRegister` is the SELECT of the event with the
  gates, `ReplayFound/ReplayMissed` the lookup of the key, `LockEvent` the FOR
  UPDATE, `CountActive` and `TakePosition` the two aggregates, `InsertRow` and
  `InsertFails` the INSERT with its COMMIT or ROLLBACK, `Reread` the SELECT
  after the collision. `StartCancel`, `FindFound/FindMissed`, `Cancel` are the
  DELETE. `PatchCapacity` and `PatchStatus` are the organizer; an UPDATE of the
  events row waits for its lock. `seen` is the identity map's `max_capacity`.
* **`Checkins`.** The gates are `TurnAway`, `RefuseInactive` and
  `RefuseMethod`; the flow is `PeekPasses`, `LocatePasses`, `LookupPasses`,
  `InsertCheckin` (first commit), `Reload`, `MarkAttended` (second),
  `RedeemToken`, `BurnToken` (third), with the refusals beside them. After a
  commit the view is closed, and the next SELECT opens another.
* **`CheckinService`** interleaves whole steps of the two.
* **`Invitations`.** `held` is the transaction that a row belongs to until it
  commits. An INSERT that meets another transaction's row waits: no step but
  `GiveUp`, the time-out or deadlock error, is possible for it until the row is
  committed or gone.
* **`Events`.** PATCH loads the row in one statement (`LoadFinds`), and writes
  in another (`WriteEvent`) only the columns whose value differs from the one
  loaded, which is how SQLAlchemy flushes a changed object.
* **`RateLimiter`.** `ReadClock` is `time.monotonic()` before the lock; each of
  `RefuseAttendee`, `RefuseAddress` and `Grant` is everything under the lock.
  `granted` and `newest` are history that no step reads.
* **`Access`** and **`Venues`.** Requests are atomic: the modules are about whether
  the gates of different routers agree, and what a sequence of accepted requests
  leaves behind. Races of PATCHes are in `Events`.
* **`QrTokens`.** A raw token is a record of its segments, and its signature the
  payload that was signed. `Refuse` is what `verify_token` finds in the token
  itself, in the order of the code; `Present` opens the session of the others,
  `LookupFinds...` is the SELECT by hash; `PeekFinds`, `Admit` and `Reread` are the
  door's way to `Consume`, with the INSERT of the check-in between. An attendee's
  copy may have any one segment altered. `ConsumeFails` is a COMMIT that fails.
* **`Travel`.** `Start` is the SELECT of the event, `ReadClock` the `now` of the
  velocity check, `VelocityPasses/VelocityRefuses` its SELECT of the latest other
  check-in with the verdict, `InsertCheckin` the INSERT, whose `checkin_at` is the
  database's clock in whole seconds. `entered`, `moved` and `overtaken` are history.
* **`Retention`.** `Visit` is the UPDATE at one row; `Commit` and `Die` end the
  transaction. The UPDATE has no index on `checkin_at`, so under REPEATABLE READ it
  locks the end of the table before it commits, where an INSERT then waits
  (`Blocked`) until it times out.
* **`Serving`.** `todo[r]` is what request r still asks for. It is in `line` or on
  a thread (`running`) for its authentication, for its handler and, since FastAPI
  serializes the answers of `def` routes in the thread pool, once more for its
  answer, while `get_db` keeps the session open. `conn[r]` is its connection. Every
  route is one or several paths through `connect`, `lock` and `commit`.

A definition whose name is that of its neighbour with a qualification, such as
`IsFullOffByOne` above `IsFull` or `UndoAll` above `UndoInsert`, is a wrong variant
of it. No specification uses it; it is kept to confirm that a property notices
when it takes the place of the right one (`PROJECT.json`, "mutants").

## 3. Runs

| Run | Instance | Question and answer |
|---|---|---|
| `desk_committed` | 4 users, one of them not eligible, 2 workers, capacity 1, reads of committed rows, the event is cancelled and published again, any request may die | Does the lock do what the comment at `registrations.py:223` says? Yes: `CapacityRespected`, and `ImplementsDesk`, the atomic desk, in whose line no two have one place; and under fairness every request is answered |
| `desk_snapshot` | 3 users, 2 workers, requests with one key, with the empty key and with none, capacity 1, REPEATABLE READ, event not edited | What is left when the counts are stale? Overbooking stays below one row per worker (`OverbookingBounded`) and needs an overlapping commit (`UndisturbedRequestRespectsCapacity`); an answer names the right row, an empty key finds nobody's, and a 409 is only said to who has another holder of its key against it (`AnswersWithItsRow`); cancellation is for good |
| `desk_overbooked` | 2 users, 2 workers, REPEATABLE READ | Violation of `CapacityRespected`: finding 1 |
| `door` | 3 users, 2 workers, a single-use token for anybody and a reusable bound one, REPEATABLE READ, one request dies | No more attendees are left half checked in than requests died (`StrandedByFailures`); an overlap is the only way to share a token (`SharingBounded`); and `ImplementsTurnstile` |
| `door_shared` | 2 users, 2 workers | Violation of `UsedTokenAdmitsNobody`: finding 2 |
| `service` | 3 users, a desk worker, a door worker, capacity 1 edited to 2, the event completed, one door request dies | Attendance stays backed by a check-in and a registration although cancellations take no lock; a cancelled row comes back only through a check-in that read its status before |
| `serving` | 4 requests on any routes, 2 threads, 1 connection and 1 of overflow, one restart of the database | Connections, line and lock fit together (`PoolIsSound`: in particular who holds the lock has a thread and a connection); the service stands still, until `pool_timeout`, in one way only, with as many requests as threads and connections together (`StandstillIsStarvation`); a restart fails at most one request per connection |
| `organizers`, part *lists* | 2 invitees, 2 workers, the lists <<1,2>>, <<2,1>>, <<1,1>>, either isolation level | What a batch is told is true of the rows (`AnswersAreTrue`), batches that wait for each other end, and others see whole lists and answers that stay (`ImplementsGuestList`) |
| part *board* | 2 tenants with one key, 2 workers, one event, three patches and DELETE | A key names one event however its requests race; a stale PATCH reopens nothing; a PATCH whose times nobody else changed keeps end after start |
| part *halls* | a circle of 40 km, coordinates and radii at and beyond every bound, five caps | No radius is wider than a cap that was in force; the geofence lets in exactly those within the radius, also across the antimeridian |
| `invitations_collision` | as *lists*, REPEATABLE READ | Violation of `NoBatchLostToACollision`: finding 3 |
| `scans`, part *limiter* | windows of 1 s, ticks of half a second, limits 2 and 1, 2 threads, one attendee with and without an address | At most a grant per thread beyond the limit in real time; the answers to requests that were not overtaken are exact: grants keep the limit, refusals are due, are free and say how long |
| part *tokens* | one token, for anybody, bound, or reusable, lifetime 1 s, with all its altered copies, 2 workers, 2 events in 2 tables, REPEATABLE READ, a failing COMMIT | The expiry at the door is the one announced; `ok` and `attendee_mismatch` are only said of tokens that were issued so; a spent token stays spent for every later request |
| `attendees`, part *gates* | a school admin, a coach whose user_id has no digits, a team lead without a school, two fans; 2 schools, one group, one event, any PATCHes and roster changes | What the picker offers may be authored, except the cohort of a lead whose user_id has no digits, which never may (`ListedGroupsAreAuthorable`); what the feed shows may be joined, authors reach the invitations of their events |
| parts *journey*, *detour* | *journey*: an attendee with 2 overlapping requests and three venues along a line. *detour*: one request at a time, and two venues that may be moved, taken off the map and put back | Comparing with the latest check-in alone keeps the whole journey plausible as far as no check missed an entry (`JourneyIsPlausible`); whoever is refused was too far from an earlier entry, or is from the place that the venue of an earlier entry was moved to (`TravellersAreNotRefused`) |
| part *hashes* | settings of -1, 0, 1 day and a malformed one, a job due every other day for ten days, 3 check-ins, 2 runs that die | `HashesDoNotOutstay` and `AttendanceIsKept` |
| `access_cohort` | as *gates* | Violation of `GroupEventsAreForTheGroup`: finding 4 |

Each property of a passing run has a mutation of the mapped code that the same
run then refutes.

### Why the bounds are enough

* *Two workers.* Every race here is between a pair of requests: a request's
  stale read, and the commit of another that makes it stale. A third session
  adds another stale reader, and the proofs cover any number of them.
* *Three users with capacity 1*: one seat, one attendee who overbooks it or waits,
  and a second who waits (distinct places need two in the line); a fourth who is
  not eligible in `desk_committed`. `CapacityEdits = {2}` in `service` raises
  the capacity while requests still compare with the old one; what such edits do to
  overbooking is left to the theorem `OverbookingIsBounded`, since in `desk_snapshot`
  nobody edits the event.
* *One key and the empty key*, in `desk_snapshot`, are enough for two attendees to
  share each; the other runs of the desk send no key.
* *`MaxFailures = 1`* at the door: each commit can be the last one of a request.
  The desk, the invitations and the events have no such bound.
* *`MaxEvents = 1`* in *board*: the races are over one key or one row; the
  second tenant tells whether it sees or collides with the first. Both then never
  create an event, so that what a key in two tenants means rests on the theorem
  `AKeyNamesOneEvent`; with two events the run does not end in minutes. In *gates*
  no gate relates two events.
* *`Horizon = 5`* ticks in `scans` is two and a half windows, or lifetimes of the
  token: entries expire, are overtaken and expire again. The limits, 5 and 60 in
  the code, are 2 and 1: the code treats both alike, and 2 lets a deque be partly
  pruned. One nonce is enough for tokens: no step
  compares two of them, and the proofs cover any number.
* *Ticks of half a second* in `scans` and `attendees`: clocks that are cut or
  rounded to a second differ from it. In *journey* the venues are two
  ticks apart at full speed, so that with `Window = 6` and `Horizon = 4` all three are
  reached in one window by requests that each saw the entries before, which is where
  `JourneyIsPlausible` says something of the first and the last; *detour*, with
  `Window = 3`, lets an entry also leave the window.
* *Four requests* in `serving` are threads and connections together, the least for
  a standstill; deployed there are 40 and 15, which the proofs cover.
  `MaxRestarts = 1`: `failed` counts from the last restart on.
* *Ten days* in *hashes* are five runs with a retention of one day, or of the
  default, two days here and 90 in the code; two deaths in a row, three check-ins:
  one before a cutoff, one after it, one during the UPDATE.

The bounds on numbers, `MaxFailures`, `MaxEvents`, `MaxRestarts`, `MaxDeaths`,
`MaxCheckins` and `Horizon`, are guards of `Fail`/`ConsumeFails`,
`HasRoom`/`AddEvent`, `Restart`, `Die`, `Arrive` and `Tick`/`NextDay`. `Symmetry` is
used only with safety properties, over sets of constants that the specification
and its properties treat alike. The `VIEW`s leave out `reply`, which no step and no
invariant of those runs reads but for its type; the action properties that read it
read only the value that a step gives it, and TLC evaluates them on every step
that it generates, also on those that lead to a known view. `attendees` turns the
deadlock check off, since the days of *hashes* end at its horizon; no other run
does: a service can always be sent another request.

## 4. Fairness

`FairSpec` is used where a run checks liveness. A handler that can execute its
next statement does so: weak fairness of `Proceed(w)`, since the threads of the
pool are scheduled by the operating system and every statement returns. The lock
of the events row is released and taken again by others, so a waiter is not
continuously able to take it; InnoDB grants it to waiters in turn, which is
strong fairness of `LockEvent(w)`. In `Invitations` weak fairness of `Proceed`
includes `GiveUp`: `innodb_lock_wait_timeout` ends every wait. Nothing is
assumed of clients, organizers, or failures: none has to happen. `Serving` says of
waiting what is a safety property, which standstills there are; that they end with
`pool_timeout` is the step `PoolTimeout`.

## 5. Proofs

Each module of proofs holds for every value of its module's constants under the
assumptions that TLC evaluates in the runs: `WorkersAssumption`, `UsersAssumption`,
`KeysAssumption`, `EventAssumption` and `ReadsAssumption` for the desk,
`DoorAssumption` for the door, both and `ServiceAssumption` for the two together,
`RequestsFinite`, `ThreadsNat`, `ConnectionsNat`, `MaxRestartsNat` and `RoutesKnown`
for threads and connections, `InvitationsAssumption` and `OrganizersAssumption` for
organizers, `LimiterAssumption` and `TokensAssumption` for scans and
`AttendeesAssumption` for attendees. `TravelProofs`, which is instantiated twice, and
the theorems about the job alone have `TravelAssumption` and `RetentionAssumption`,
conjuncts of `AttendeesAssumption`, as hypotheses. The assumptions say that sets are
finite, sentinels are no values, limits and capacities are positive, and that inputs
are what the schemas let through. Every theorem covers both isolation levels unless the
table says otherwise.

`AllSpec` and `EachSpec` are the specifications of the parts side by side, of which
a step is a step of one part and none of the others (`BehavioursOfEach` and its
like): what is proved of a part alone then holds of its composite (`JobInCompany`
says so of the two theorems about the job).

| Module | Theorem | States | Assumes besides |
|---|---|---|---|
| `RegistrationsProofs` | `TypeCorrect` | `Spec => []TypeOK` | |
| | `OverbookingIsBounded` | `Spec => []OverbookingBounded` | there is a worker |
| | `CapacityIsRespected` | `Spec => []CapacityRespected` | READ COMMITTED, capacity not edited |
| | `DeskImplementsRsvpDesk` | `Spec => ImplementsDesk` | READ COMMITTED, capacity not edited |
| | `CancellationIsForGood` | `Spec => CancelledForGood` | |
| | `AnswersAreRight` | `Spec => AnswersWithItsRow` | |
| | `OverbookingTakesACommit` | `Spec => UndisturbedRequestRespectsCapacity` | |
| `CheckinsProofs` | `DoorTypeCorrect` | `Spec => []TypeOK` | |
| | `StrandedAreFew` | `Spec => []StrandedByFailures` | |
| | `SharingIsBounded` | `Spec => []SharingBounded` | |
| | `DoorImplementsTurnstile` | `Spec => ImplementsTurnstile` | |
| `CheckinServiceProofs` | `AttendanceHasCheckin` | `Spec => []AttendanceIsBacked` | |
| | `CancelledReturnsOnlyAtTheDoor` | `Spec => CancelledReturnsOnlyAsAttended` | |
| `ServingProofs` | `PoolStaysSound` | `Spec => []PoolIsSound` | |
| | `FailuresAreBounded` | `Spec => []FailuresBounded` | |
| | `OnlyStarvationStandsStill` | `Spec => []StandstillIsStarvation` | |
| `OrganizersProofs` | `ListTypeCorrect` | `Spec => []TypeOK` | |
| | `BatchesAreToldTheTruth` | `Spec => AnswersAreTrue` | |
| | `ListImplementsGuestList` | `Spec => ImplementsGuestList` | |
| | `OrganizersTypeCorrect` | `AllSpec => []AllTypeOK` | |
| | `AKeyNamesOneEvent` | `AllSpec => KeyNamesOneEvent` | |
| | `NoStalePatchReopens` | `AllSpec => ReopenedOnlyOnRequest` | |
| | `PatchKeepsWindow` | `AllSpec => UnracedPatchKeepsWindow` | |
| | `NoFenceBeyondItsCap` | `AllSpec => []RadiusWithinACap` | |
| | `FenceIsNearness` | `AllSpec => VerdictIsNearness` | |
| `ScansProofs` | `LimiterTypeCorrect` | `Spec => []TypeOK` | |
| | `StalledGrantsAreBounded` | `Spec => []StalledGrantsBounded` | |
| | `OrderlyAnswersAreExact` | `Spec => OrderlyAnswerIsExact` | |
| | `ScansTypeCorrect` | `AllSpec => []AllTypeOK` | |
| | `ExpiryIsTheOneAnnounced` | `AllSpec => ExpiryIsAsAnnounced` | |
| | `OnlyIssuedTokensPass` | `AllSpec => AnswersAreGenuine` | |
| | `SpentTokensStaySpent` | `AllSpec => SpentForGood` | |
| `AttendeesProofs` | `HashesAreScrubbedInTime` | `Spec => []HashesDoNotOutstay` | |
| | `OnlyOldHashesGo` | `Spec => AttendanceIsKept` | |
| | `AttendeesTypeCorrect` | `EachSpec => []EachTypeOK` | |
| | `PickerIsRight` | `EachSpec => []ListedGroupsAreAuthorable` | |
| | `FeedIsRight` | `EachSpec => []DiscoveredIsJoinable` | |
| | `AuthorsReachTheirLists` | `EachSpec => []AuthorCanInvite` | |
| | `JourneysStayPlausible` | `EachSpec => []JourneyIsPlausible` | |
| | `TravellersAreWelcome` | `EachSpec => TravellersAreNotRefused` | |
| `TravelProofs` | `JourneyIsInvariant` | `Spec => []JourneyInv` | |
| | `JourneyIsTyped` | `Spec => []TypeOK` | |
| | `JourneysArePlausible` | `Spec => []JourneyIsPlausible` | |
| | `TravellersAreWelcome` | `Spec => TravellersAreNotRefused` | |

The bounds of the models (`MaxFailures`, `MaxEvents`, `MaxRestarts`, `MaxDeaths`,
`MaxCheckins`, `Horizon`) are constants too: what is proved holds for any of them.

### The desk

*Overbooking.* `OverbookingBounded` alone is not inductive: an INSERT adds a row
whatever the count is. A worker that has decided to register carries a row that
is not there yet. `BookingInv` therefore counts both: for some capacity c of the
event, active rows + workers that have decided <= c - 1 + workers
(`RoomForDeciders`). An INSERT moves one from the second term to the first. Under
REPEATABLE READ a worker counts in a view that may be stale, so it must be taken
for decided (`HasDecided`) from the moment it opens a view with room in it, long
before it counts. With this definition a step that makes a worker a decider
happens only while fewer than c rows are active, when the inequality holds
however many workers have decided. `SeenIsACapacity` ties the remembered
capacity to one the event had, `TargetsAreNew` excludes that a request inserts
an attended row.

*Capacity under READ COMMITTED.* `CapacityInv` says that a worker between the
FOR UPDATE and its COMMIT holds the lock (`LockHeld`), that all compare with the
same capacity (`OneCapacity`), and that a worker about to insert a registered
row still has room (`DecisionStands`): the count was of committed rows, and
nobody else can have inserted since. Cancellations take no lock, and only make
more room.

*The atomic desk.* Every step maps to a step of `RsvpDesk` or changes nothing that
it shows. The step to justify is the INSERT, which must be an admission with room,
as `CapacityInv` says, or a place behind everybody who waits. `LineInv` adds the
latter (`Stands`): the place was read under the lock, which the worker still has.
`LastPositionIsLast` says what the maximum that it read means; that no two have one
place follows.

*Answers.* `Knows` says what a request has established at each statement: rows
never go, and keep their keys (`StillIn`), so that what a view shows is in the
table; whoever collided has a row, or another holder has its key, and finds the
one or is told of the other. The same invariant says that a request about to
insert had room in its view, which is `OverbookingTakesACommit`.

*Cancellation.* The only steps that write a row are `InsertRow`, which a row of
any status blocks, and `Cancel`.

### The door

*Knowledge* is what a worker knows of the tables at each statement: past its INSERT
its attendee is in on its token (`Admitted`), a token that it saw used is used
(`Viewed`), and past the peek the token is its own or anybody's (`Genuine`).
Who is left half checked in (`Stranded`) changes in one step only, the death of a
request, and then by its own attendee at most (`OnlyFailuresStrand`): the three commits
of a check-in hand the unfinished work from one to the next, and `Marked` and
`Redeemed` name the worker that has it. So there are no more than failures
(`StrandedAreFew`).

*Sharing.* Like overbooking, the bound on how many attendees one single-use token
lets in is not inductive. Until it is burned each of them has a worker that is
about to burn it, or one that died (`Admitting`); when it is burned, no further
worker passes the peek, so that from then on those in and those that may still come
in (`MayAdmit`: past the peek, or peeking in a view where the token is unused)
together do not grow. The burning leads from the first bound to the second, since a
worker of one set is not in the other.

*Turnstile.* `Standing` says that what a worker read of the registration still holds
but for its being marked. Then the INSERT lets in somebody who is registered, the
UPDATE marks somebody who is in, and `BurnToken` burns a token that let somebody in
or is burned already: a step of the turnstile or none.

*Desk and door.* Here the status that a check-in read may change under it, so
`Standing` is no longer true. What is left is that a row is never taken away:
`DoorKnows` says that a check-in past its lookup has a row, `DeskDecides` that the
desk never makes one attended, and `Backed` is inductive over the steps of both.

### Threads and connections

`Served` describes a request by what is left of its way (`WellFormed`): every lock
is followed by a commit, every way ends in an answer. `Placed` says that a request
is in line or on a thread and never both, `InHand` what it can have in its hands
where it is: the lock only between its statement and its commit, a connection in
line only behind the handler's return. From this `PoolIsSound` and the one
standstill follow: who has neither to wait for a thread nor for a connection can
go on, so each thread is held by one that waits for a connection, and each
connection by one in line. *Failures* are counted with those to come: what failed
since the restart, the dropped connections that are out, and one for the stale
connections in the pool, since finding one of them out throws all of them away,
together never exceed the connections (`Counted`).

### Invitations and events

`AnswersAreTrue` needs to know at the COMMIT what became of each entry of the list.
`Counted` says it of the loop: what is not left to do is in the table, in a row of
the batch's own or a committed one, and was counted as inserted or as found; `Kept`
that a row which a transaction holds is as it was inserted, so that no answer to an
invitation comes before its commit. What others see (`Shown`) then changes in two
steps only, a COMMIT, which is `Invite` of the whole list, and an answer.

`KeysDiffer` says that a tenant's events have different keys, and `Engaged` that a
POST whose INSERT collided sees the event that won, since the ROLLBACK ended its
view, and that an edit is of an event that is there. `WithKey`, what a SELECT by key
finds, then has exactly one element, which is the event that is answered. That a
PATCH writes no column it was not asked to change needs no more of the rows than
that a write is to the row that was loaded.

The types of the events say that they stay within `MaxEvents`, which is not a matter
of types: a POST starts when there is room, and others start before it adds its event.
`RoomLeft` counts the events, the POSTs without a key that will add one, and the
different keys for which some POST will (`Wanted`); together they fit, since of all
who want one key only one can have it.

### Venues

`HallSound` says that every cap ever in force is between the two bounds of the code,
whatever the environment says (`CapsAreSane`), and that a radius in the row is at most
one of them, or the 100 that a POST without a radius writes. A PATCH or a restart can
only add caps, so this is kept, and the property follows. `FenceIsNearness` compares
two descriptions of the disc: the code's, the shorter way round from a difference of
longitudes, and that some way of at most the radius, east or west, leads from one to
the other up to whole turns, a statement about remainders.

### The rate limiter

The limiter's promise is about grants, its state about deques that every request
prunes by a clock of its own, which may be behind. The invariant ties the two: each
deque is the tail of its key's grants in the order they were given, and every grant
that the latest reading under the lock, or a later one, finds within the window is
in it (`TailOf`, with `newest`). Pruning for an overtaken reading keeps it since it
takes even less. `Owned` says that every grant was some thread's, which read the
clock for its next request after it. Then a window of real time that ends now sees
what the deque holds, at most the limit, and grants whose reading is older than the
window: of these each thread has at most one (`GrantsOfNow`). Windows that ended
earlier see no further grants (`PastIsFrozen`), which makes the bound inductive.
For a reading that nobody overtook the pruned deque is all that it finds, hence
`OrderlyAnswersAreExact`; `Division` gives the quotient in Retry-After.

### Tokens

A row of `qr_tokens` is minted once, with the token in its hash, and later only spent
(`RowsInv`, `Grows`). `SpentForGood` speaks of the moment when a request began, which
no step of the code remembers; in the model the job records whether its token was spent
then (`late`). A worker's view is of rows as they were, and shows all that was spent
when it was opened (`ViewInv`): so a late request is refused by its SELECT, and nobody
who has found a row is late (`HolderInv`). At most one row has a given token
(`TokensDiffer`), so that it is the row of the token that was presented. That an answer
is genuine comes from the signature: whoever carries a payload and its signature
carries one that was issued (`SignedIsIssued`), and past `Checks` it is at its own door
(`AtItsOwnDoor`). For the expiry, the timestamp in the token is cut to a second where
the column is rounded, and the door's clock is cut again; the column is the second of
the token or the next (`SecondIs`, `OneExpiry`), so that what is said to have lapsed
has lapsed for the admin, and what passes lapsed for the admin less than a second ago
(`LapsesTogether`).

### Access

`PickerIsRight` and `FeedIsRight` need no invariant: the gates of two endpoints, which
the code writes twice and differently, agree whatever the tables hold
(`PickerAndGateAgree`, `FeedAndGateAgree`); of the picker this includes that the one
group that it offers in vain, the cohort of a lead whose user_id has no digits, is
always refused. For the lists of invitations this is not
so: the gate compares the tenant of the event with those of the caller, and an event
under another tenant would be out of its author's reach. `GateInv` says that every
event is `Authored`, under a tenant of its author or as a group's event under the
group's school; POST resolves the tenant so, and a PATCH does not write it.

### Velocity

The code compares an entry with the latest other one only. That this is enough for
every pair rests on `DistanceIsAMetric`: two entries are no further apart than the hops
between them together. `Paced` bounds the distance of any two entries in a window by
the time between them at full speed, with one lost part of a second for every other
entry, since `checkin_at` is cut to a second. For the step that adds an entry the
invariant also says what its check has established (`Seen`, `Passed`): unless it was
overtaken by another INSERT, the rows it saw are all there are, and from one of the
latest of them it may have come. That there is a latest follows from the library's
theorem that the strict subsets of a finite set are well-founded (`GreatestExists`).
`TravellersAreWelcome` goes the other way: the prior that a check refuses over is a
row, a row is an entry (`RowIsEntry`) at the place of its venue, unless that very venue
was moved since, and then the refusal is measured from where it is now;
and the time measured from the beginning of its second is no less than the time gone
by.

### Retention

`HashesDoNotOutstay` says nothing of a run under way, nor of the next
one. The invariant looks ahead instead: every hash is within its window, but for the
runs that died, on the day of the next scrub (`Timely`, `Deadline`). A run that
starts does not move that day, since it starts when it is due (`OnSchedule`); one
that dies moves it by a period, as `missed` grows by one; one that commits moves it
by a period too and takes `missed` back to 0, which is right because the rows that
it left are not older than its cutoff (`Visited`), and that cutoff is still the
one of the day. A check-in during the UPDATE may be visited or not: it is of today.
The same `Visited` says that the rows it changed are older than the cutoff, which
is all that `OnlyOldHashesGo` needs.

### Only model-checked

Liveness under fairness is out of the prover's reach: `RequestsAnswered` and
`BatchesAnswered`, and that a standstill ends, rest on the runs. So do the four
violations of section 6, which are behaviours and not theorems.

## 6. Findings

1. **Overbooking in spite of the lock** (`desk_overbooked`). Under REPEATABLE
   READ the count after the FOR UPDATE (`registrations.py:259`) reads the view
   that the SELECT at line 128 opened. Two requests that both start before
   either inserts both find a free seat. The comment at 229-233 says that the
   live count is queried inside the lock. The same staleness gives two waitlisted
   attendees one position.
2. **A single-use token shared** (`door_shared`). `used_at` is tested at the
   peek and set after two commits, without a condition. A second attendee who
   peeked before the first burned the token is let in after it.
3. **A batch lost to a collision** (`invitations_collision`). The SELECT after
   the failed INSERT (`event_invitations.py:191`) reads the old view and does
   not find the row, so the IntegrityError is raised and the whole batch rolled
   back, where the comment says it stays alive.
4. **Any cohort opens every cohort's events** (`access_cohort`). The query at
   `registrations.py:193` does not name the team lead that the event is bound to.

Met while modelling, without a run of their own:

* One Idempotency-Key for two attendees: the comment at `registrations.py:208-210` says
  that the key returns the original row even if it was for a different attendee. It does
  when the row is found before the lock; of two that overlap the loser collides, is
  looked up by attendee and not by key (295-302), and gets 409
  `duplicate_registration`. `AnswersWithItsRow` says to whom. The empty key is stored and
  collides like any other, but is never looked up (211), so that a second
  attendee who sends it gets the 409 without any overlap.
* A lead whose user_id has no digits is offered its cohort as number 0
  (`eligible_groups.py:117`) and refused with 403 `not_group_owner` (`auth.py:471`),
  against `eligible_groups.py:4`. `ListedGroupsAreAuthorable` says that nothing else is
  offered in vain.
* A client that posts its successful single-use check-in again gets
  `invalid_token` and not the `duplicate` of `checkins.py:4-5`: the token is
  verified first, and was burned.
* Two PATCHes that each change one of start and end can leave the event ending
  when it starts, against `events.py:374` (`UnracedPatchKeepsWindow` states what
  holds without the race). A naive datetime in the row against an aware one in the
  payload raises TypeError there, and a PATCH of `status` to null fails at COMMIT:
  both end as 500.
* PATCH and DELETE look an event up under one tenant (`events.py:347-361`), so
  that the author of a cohort event who has a school, or of a school's group event
  who has none, gets 404 for its own event, against `events.py:337-339`.
* A latitude without a longitude is accepted by POST, and either without the other
  by PATCH, against `schemas/event.py:82`: the validator does not run on an omitted
  field, and `EventUpdate` has none. Nobody passes the geofence of such an event.
* Two overlapping check-ins of an attendee escape the velocity check, which reads
  before either inserts (`checkins.py:207-243`, 362): `JourneyIsPlausible` is about
  entries that no check missed. And a check-in at an event without coordinates hides the
  earlier ones (`geo_verification.py:130-138`), against lines 7-10.
* For a token bound to somebody else `verify_token` answers ATTENDEE_MISMATCH
  (`qr_token_service.py:230-236`), where lines 81-84 say EVENT_MISMATCH.
* A check-in that read the registration before a cancellation writes attended over
  it.

## 7. Plan

Done: all modules of section 2, each with theorems for every safety property that a
run checks of it. Left, in this order:

1. In `Access`, the caller with a service token, and what a PATCH of visibility does to
   who is registered already.
2. The router of the tokens (`src/routers/qr_tokens.py`), that is who may mint one for
   which event: the gates of `Access` in front of `QrTokens`.
3. The door of `CheckinService` with the tokens of `QrTokens`, whose expiry the two
   modules now model apart, and the limiter before it.

## 8. Not modelled

* The earth is its equator: longitudes and radii are whole metres, and distance is
  the shorter way round. Rounding of floating-point haversines is left out.
* `ip_country_check`, which never refuses because events have no country, and the
  attestation stub keep no state: they are among the refusals of `TurnAway`. The
  hashing of coordinates and addresses is abstracted to whether a row has hashes.
* HMAC and SHA-256 are perfect: no token is forged with another payload's signature.
* What the auth service does to validate a bearer token; its failure and delay are
  in `Serving`. The caller with a service token, who has neither user nor school.
* CSRF cookies, logging, response shapes, field bounds that no property tells apart:
  stateless. What the schemas guarantee is in the constants' assumptions.
* The optional `shared.middleware`, which is not in the repository.
* The schedule of the retention job, which the repository leaves open, is an
  assumption (`Period`); so is a database clock in UTC.
* Memory growth of the limiter's dictionaries (a deque for each attendee, event and
  address that ever appears), which no bounded instance shows.
* GET routes, which change nothing but take threads and connections (`Serving`).

## Running

    tlc -workers 2 -config RegistrationsSnapshot.cfg MCRegistrations.tla
    tlapm RegistrationsProofs.tla

and likewise for the other runs (`PROJECT.json` names the module of each
configuration) and the other modules of proofs. The longest runs and proofs take
two to three minutes each.
