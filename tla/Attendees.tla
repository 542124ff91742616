----------------------------- MODULE Attendees ------------------------------
(***************************************************************************)
(* What becomes of attendees: whom the gates of events let in (Access),    *)
(* where an attendee can be next (Travel, once as a journey past venues    *)
(* that stand, and once with organizers that change them), and how long    *)
(* its location is kept (Retention, whose names this module has).  These   *)
(* share no state, so that a behaviour of all of them is one of each; here *)
(* one of them, the one that `part` names, is at work, with the others at  *)
(* rest.                                                                   *)
(***************************************************************************)
EXTENDS Retention

CONSTANTS
    Users, Role, School, Number, NoDigits, Schools, NoSchool,    \* of Access
    Groups, GroupSchool, GroupLeads, Fans, CohortLeads, MaxEvents,
    Circumference, NoCoord, Omitted,                             \* of Geography
    NoEvent, NoWorker, MaxSpeed, TicksPerSecond, SnapshotReads,  \* of both journeys
    JourneyEvents, JourneyVenues, JourneyWindow, JourneyHorizon, \* of the first
    DetourWorkers, DetourEvents, DetourVenues, DetourEdits,      \* of the second
    DetourWindow, DetourHorizon

VARIABLES
    part,
    events, invited, accepted, joined, active, roster, cohort,
    clock, venue, stamp, at, trip, view, now, reply, entered, moved, overtaken

gateVars   == <<events, invited, accepted, joined, active, roster, cohort>>
travelVars == <<clock, venue, stamp, at, trip, view, now, reply, entered, moved, overtaken>>
allVars    == <<part, gateVars, travelVars, vars>>

Gates == INSTANCE Access

Journey == INSTANCE Travel WITH
            Events <- JourneyEvents, FirstVenue <- JourneyVenues, VenueEdits <- {},
            Window <- JourneyWindow, Horizon <- JourneyHorizon, pc <- at, job <- trip

Detour == INSTANCE Travel WITH
            Workers <- DetourWorkers,
            Events <- DetourEvents, FirstVenue <- DetourVenues, VenueEdits <- DetourEdits,
            Window <- DetourWindow, Horizon <- DetourHorizon, pc <- at, job <- trip

ASSUME AttendeesAssumption ==
    /\ Gates!AccessAssumption /\ RetentionAssumption
    /\ Journey!TravelAssumption /\ Detour!TravelAssumption

-----------------------------------------------------------------------------

\* A part at rest is in an initial state, the job under the setting's default.
EachInit ==
    /\ part \in {"gates", "journey", "detour", "hashes"}
    /\ Gates!Init /\ Init
    /\ IF part = "detour" THEN Detour!Init ELSE Journey!Init
    /\ part # "hashes" => setting = Malformed

EachNext ==
    /\ UNCHANGED part
    /\ \/ part = "gates" /\ Gates!Next /\ UNCHANGED <<travelVars, vars>>
       \/ part = "journey" /\ Journey!Next /\ UNCHANGED <<gateVars, vars>>
       \/ part = "detour" /\ Detour!Next /\ UNCHANGED <<gateVars, vars>>
       \/ part = "hashes" /\ Next /\ UNCHANGED <<gateVars, travelVars>>

EachSpec == EachInit /\ [][EachNext]_allVars

-----------------------------------------------------------------------------
(* The properties of the parts, which their modules explain; those of the job *)
(* are HashesDoNotOutstay and AttendanceIsKept of Retention.                  *)

\* Every variable has its type.
EachTypeOK ==
    /\ Gates!TypeOK /\ TypeOK
    /\ IF part = "detour" THEN Detour!TypeOK ELSE Journey!TypeOK

\* The picker offers what may be authored, but for the cohort of a lead whose user_id
\* has no digits (eligible_groups.py 42-117, auth.py 421-471).
ListedGroupsAreAuthorable == Gates!ListedGroupsAreAuthorable

\* The feed shows what may be joined (events.py 250-268, registrations.py 124-154).
DiscoveredIsJoinable == Gates!DiscoveredIsJoinable

\* An author reaches the invitations of its event (event_invitations.py 70-99).
AuthorCanInvite == Gates!AuthorCanInvite

\* The check against the last check-in alone keeps all those in the window plausible
\* (geo_verification.py 121-160).
JourneyIsPlausible == part = "journey" => Journey!JourneyIsPlausible

\* Whoever travels at a speed that is allowed is not refused, unless an earlier entry is
\* taken to have been where the venue has been moved since (geo_verification.py 120-159).
TravellersAreNotRefused ==
    [][/\ part = "journey" => Journey!RefusalIsDue
       /\ part = "detour" => Detour!RefusalIsDue]_allVars
=============================================================================
