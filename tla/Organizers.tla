----------------------------- MODULE Organizers -----------------------------
(***************************************************************************)
(* What organizers do: invitations (Invitations, whose names this module   *)
(* has), the fields of an event (Events), and its venue (Venues).  The     *)
(* three share no state, so that a behaviour of all of them is one of      *)
(* each; here one of them, the one that `part` names, is at work, with the *)
(* others at rest.                                                         *)
(***************************************************************************)
EXTENDS Invitations, Integers

CONSTANTS
    Tenants, Keys, NoKey, NoTime, Drafts, Patches, MaxEvents,   \* of Events
    Circumference, NoCoord, Omitted,                            \* of Geography
    Payloads, Submissions, RawCaps, NoVenue                     \* of Venues

VARIABLES
    part,
    events, doing, request, eventView, loaded, target, answer,
    venue, cap, caps, verdict

boardVars == <<events, doing, request, eventView, loaded, target, answer>>
hallVars  == <<venue, cap, caps, verdict>>
allVars   == <<part, vars, boardVars, hallVars>>

Board == INSTANCE Events WITH
            rows <- events, pc <- doing, view <- eventView, reply <- answer

Halls == INSTANCE Venues

ASSUME OrganizersAssumption == Board!EventsAssumption /\ Halls!VenuesAssumption

-----------------------------------------------------------------------------

\* A part at rest is in an initial state, the venues under the default cap.
AllInit ==
    /\ part \in {"lists", "board", "halls"}
    /\ Init /\ Board!Init /\ Halls!Init
    /\ part # "halls" => cap = Halls!DefaultCap

AllNext ==
    /\ UNCHANGED part
    /\ \/ part = "lists" /\ Next /\ UNCHANGED <<boardVars, hallVars>>
       \/ part = "board" /\ Board!Next /\ UNCHANGED <<vars, hallVars>>
       \/ part = "halls" /\ Halls!Next /\ UNCHANGED <<vars, boardVars>>

AllSpec == AllInit /\ [][AllNext]_allVars

\* As in Invitations, whose batches wait for each other.
AllFairSpec == AllSpec /\ \A w \in Workers : WF_vars(Proceed(w))

-----------------------------------------------------------------------------
(* The properties of the parts, which their modules explain; those of the     *)
(* invitations are AnswersAreTrue, ImplementsGuestList and BatchesAnswered.   *)

\* Every variable has its type.
AllTypeOK == TypeOK /\ Board!TypeOK /\ Halls!TypeOK

\* A key names one event (events.py 137-151, 187-198).
KeyNamesOneEvent == Board!KeyNamesOneEvent

\* A cancelled event is opened again only on request (events.py 380-382, 410-411).
ReopenedOnlyOnRequest == Board!ReopenedOnlyOnRequest

\* A PATCH whose times nobody else changed keeps end after start (events.py 374-378).
UnracedPatchKeepsWindow == Board!UnracedPatchKeepsWindow

\* No geofence is wider than a cap that was in force (schemas/event.py 19-30).
RadiusWithinACap == Halls!RadiusWithinACap

\* The geofence lets in those who are near (geofence_service.py 28-44, 97-123).
VerdictIsNearness == Halls!VerdictIsNearness
=============================================================================
