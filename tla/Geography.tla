----------------------------- MODULE Geography -----------------------------
(***************************************************************************)
(* The pure rules about places: src/services/geofence_service.py, the      *)
(* speed of src/services/geo_verification.py, and what src/schemas/event.py*)
(* lets into the venue columns.  The earth is its equator: a place is a    *)
(* longitude in metres, on a circle of Circumference of them; a latitude   *)
(* is there or is not.  Lengths and radii are whole metres.                *)
(***************************************************************************)
EXTENDS Integers

CONSTANTS
    Circumference,   \* of the earth
    NoCoord,         \* NULL, of a radius too
    Omitted          \* a field that a payload leaves out

CircumferenceIsEven == Circumference \in Nat \ {0} /\ Circumference % 2 = 0

MaxGeofenceRadius     == 5000      \* _MAX_GEOFENCE_RADIUS_M
DefaultRadius         == 100       \* what a missing radius means
SmallestRadius        == 10
DefaultCap            == 500

\* -180 and 180 degrees, the same meridian.
Antimeridian == Circumference \div 2
Longitudes   == -Antimeridian .. Antimeridian

Abs(n) == IF n < 0 THEN -n ELSE n

\* The difference of the coordinates, as on a flat map.
DistanceOnAMap(p, q) == Abs(p - q)

\* haversine_distance_m on the equator: the shorter way round.
Distance(p, q) ==
    IF Abs(p - q) <= Antimeridian THEN Abs(p - q) ELSE Circumference - Abs(p - q)

-----------------------------------------------------------------------------
(* A venue: events.latitude, events.longitude, events.geofence_radius_m *)

\* Both coordinates are there: the test of verify_distance and velocity_check.
Located(v) == v.lat # NoCoord /\ v.lon # NoCoord

\* radius_m or 100: NULL and 0 are no radius.
EffectiveRadius(v) == IF v.radius \in {NoCoord, 0} THEN DefaultRadius ELSE v.radius

UsableRadius(r) == r > 0 /\ r <= MaxGeofenceRadius

\* verify_distance: what it answers, its refusals in the order of the code.
VerifyDistance(at, v) ==
    IF ~ Located(at) THEN "missing_submitted_coords"
    ELSE IF ~ Located(v) THEN "missing_event_coords"
    ELSE IF at.lon \notin Longitudes THEN "submitted_coords_out_of_range"
    ELSE IF ~ UsableRadius(EffectiveRadius(v)) THEN "invalid_radius"
    ELSE IF Distance(at.lon, v.lon) <= EffectiveRadius(v) THEN "passed"
    ELSE "out_of_range"

-----------------------------------------------------------------------------
(* What the schemas accept *)

\* _geofence_max_radius, read when the process starts: the environment's value
\* where it is sane.
CapOf(raw) == IF raw < SmallestRadius \/ raw > MaxGeofenceRadius THEN DefaultCap ELSE raw

RadiusAcceptedAnyCap(r, cap) == r \in {Omitted, NoCoord} \cup (Nat \ 0..(SmallestRadius - 1))

\* The Field bounds of a radius that is given; a default is not validated.
RadiusAccepted(r, cap) == r \in {Omitted, NoCoord} \/ r \in SmallestRadius..cap

CoordinateAccepted(c) == c \in {Omitted, NoCoord} \/ c \in Longitudes

Or(given, default) == IF given = Omitted THEN default ELSE given

\* EventCreate.lon_requires_lat: a field validator, which Pydantic runs on a
\* longitude that is given and not on the default of one that is omitted.
TogetherOnCreate(p) ==
    p.lon # Omitted => (p.lon = NoCoord <=> Or(p.lat, NoCoord) = NoCoord)

CreateAccepted(p, cap) ==
    /\ CoordinateAccepted(p.lat) /\ CoordinateAccepted(p.lon)
    /\ RadiusAccepted(p.radius, cap)
    /\ TogetherOnCreate(p)

\* EventUpdate has bounds, and no validator across fields.
UpdateAccepted(p, cap) ==
    /\ CoordinateAccepted(p.lat) /\ CoordinateAccepted(p.lon)
    /\ RadiusAccepted(p.radius, cap)

Created(p) == [lat    |-> Or(p.lat, NoCoord),
               lon    |-> Or(p.lon, NoCoord),
               radius |-> Or(p.radius, DefaultRadius)]

Merged(v, p) == [lat    |-> Or(p.lat, v.lat),
                 lon    |-> Or(p.lon, v.lon),
                 radius |-> Or(p.radius, v.radius)]

-----------------------------------------------------------------------------
(* Travel *)

\* speed_mph > max_mph, without the division: `metres` in `time` is too fast.
TooFast(metres, time, maxSpeed) == metres > maxSpeed * time
=============================================================================
