------------------------------- MODULE Venues -------------------------------
(***************************************************************************)
(* The venue of one event through its life: POST and PATCH with what the   *)
(* schemas accept (src/schemas/event.py, src/routers/events.py), restarts  *)
(* of the process with another GEOFENCE_MAX_RADIUS_METERS, and the         *)
(* geofence of the door (src/services/geofence_service.py) on whatever the *)
(* row holds by then.  Each step is a request of its own: PATCH races are  *)
(* in Events.                                                              *)
(***************************************************************************)
EXTENDS Geography, FiniteSets

CONSTANTS
    Payloads,       \* the venue part of what organizers send
    Submissions,    \* where attendees say they are
    RawCaps,        \* the values of GEOFENCE_MAX_RADIUS_METERS
    NoVenue

VenuesAssumption ==
    /\ CircumferenceIsEven
    /\ \A p \in Payloads : DOMAIN p = {"lat", "lon", "radius"}
    /\ \A at \in Submissions : /\ DOMAIN at = {"lat", "lon"}
                              /\ at.lon \in {NoCoord} \cup Longitudes
    /\ RawCaps \subseteq Int /\ RawCaps # {}

VARIABLES
    venue,     \* latitude, longitude and geofence_radius_m of the events row
    cap,       \* _GEOFENCE_MAX of the running process
    caps,      \* history: the caps that have been in force
    verdict    \* the door's last: where the attendee was, and the answer

vars == <<venue, cap, caps, verdict>>

NoVerdict == [at |-> NoVenue, answer |-> "none"]

Init ==
    /\ venue = NoVenue
    /\ cap \in {CapOf(raw) : raw \in RawCaps}
    /\ caps = {cap}
    /\ verdict = NoVerdict

\* POST /events
Create(p) ==
    /\ venue = NoVenue
    /\ CreateAccepted(p, cap)
    /\ venue' = Created(p)
    /\ verdict' = NoVerdict
    /\ UNCHANGED <<cap, caps>>

\* PATCH /events/{id}: only what the payload sets is written.
Update(p) ==
    /\ venue # NoVenue
    /\ UpdateAccepted(p, cap)
    /\ venue' = Merged(venue, p)
    /\ verdict' = NoVerdict
    /\ UNCHANGED <<cap, caps>>

\* The geofence of POST /checkin.
Locate(at) ==
    /\ venue # NoVenue
    /\ verdict' = [at |-> at, answer |-> VerifyDistance(at, venue)]
    /\ UNCHANGED <<venue, cap, caps>>

\* The process is started again, with another environment or the same.
Restart(raw) ==
    /\ cap' = CapOf(raw)
    /\ caps' = caps \cup {cap'}
    /\ verdict' = NoVerdict
    /\ UNCHANGED venue

Next ==
    \/ \E p \in Payloads : Create(p) \/ Update(p)
    \/ \E at \in Submissions : Locate(at)
    \/ \E raw \in RawCaps : Restart(raw)

Spec == Init /\ [][Next]_vars

-----------------------------------------------------------------------------
(* Correctness *)

\* The row holds coordinates on the earth and a radius, or NULLs.
TypeOK ==
    /\ \/ venue = NoVenue
       \/ /\ venue.lat \in {NoCoord} \cup Longitudes
          /\ venue.lon \in {NoCoord} \cup Longitudes
          /\ venue.radius \in {NoCoord} \cup Nat
    /\ caps \subseteq Nat /\ cap \in caps

\* The geofence is never wider than the widest cap under which the row was
\* written, or than the 100 m that a missing radius means: a cap that is lowered
\* to less leaves both (schemas/event.py 19-30, 51, 92; geofence_service.py 109).
RadiusWithinACap ==
    venue # NoVenue => \E c \in caps \cup {DefaultRadius} : EffectiveRadius(venue) <= c

\* The geofence lets in exactly those within the radius of a venue that has both
\* coordinates, also across the antimeridian; a venue with one coordinate lets in
\* nobody (geofence_service.py 28-44, 97-123).
Near(p, q, radius) ==
    \E d \in -radius..radius : (p + d - q) % Circumference = 0

VerdictIsNearness ==
    [][verdict'.answer # "none" =>
         (verdict'.answer = "passed" <=>
            /\ Located(verdict'.at) /\ Located(venue)
            /\ Near(verdict'.at.lon, venue.lon, EffectiveRadius(venue)))]_vars

=============================================================================
