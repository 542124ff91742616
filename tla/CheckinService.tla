--------------------------- MODULE CheckinService ---------------------------
(***************************************************************************)
(* The service around one event: the RSVP desk (Registrations) and the     *)
(* door (Checkins) at work on the same `events` and `event_registrations`  *)
(* rows (src/main.py mounts both routers on one pool of threads).  The     *)
(* desk takes a lock on the events row; the door takes none, and writes    *)
(* the status of registrations that the desk counts and cancels.           *)
(***************************************************************************)
EXTENDS Naturals, FiniteSets

CONSTANTS
    Users, Eligible, NoUser, NoWorker, SnapshotReads,
    DeskWorkers, Keys, BlankKey, NoKey,
    Unlimited, Capacity, CapacityEdits, StatusEdits,
    DoorWorkers, Tokens, SingleUse, Holder, NoToken,
    EventMethod, DeclaredMethods, NoMethod, AllowNfc, MaxFailures

\* No token reads as "no check-in".
ASSUME ServiceAssumption == "absent" \notin Tokens \cup {NoToken}

VARIABLES
    event, regs,                                                 \* shared rows
    lock, deskPc, deskJob, seen, deskView, target, deskReply,    \* the desk
    checkins, used, minted, expired,                             \* the door
    doorPc, doorJob, doorView, doorReply, failures

deskVars == <<lock, deskPc, deskJob, seen, deskView, target>>
doorVars == <<checkins, used, minted, expired, doorPc, doorJob, doorView, failures>>
vars     == <<event, regs, deskVars, deskReply, doorVars, doorReply>>

Desk == INSTANCE Registrations WITH
            Workers <- DeskWorkers, pc <- deskPc, job <- deskJob, view <- deskView,
            reply <- deskReply

Door == INSTANCE Checkins WITH
            Workers <- DoorWorkers, pc <- doorPc, job <- doorJob, view <- doorView,
            reply <- doorReply, RsvpStatuses <- {"absent"}

-----------------------------------------------------------------------------

Init == Desk!Init /\ Door!InitDoor

\* What the door keeps to itself, a step of the desk leaves alone.
DoorWaits == UNCHANGED doorVars /\ doorReply' = Door!NoReply

\* What the desk keeps to itself, a step of the door leaves alone.
DeskWaits == UNCHANGED deskVars /\ deskReply' = Desk!NoReply

Next ==
    \/ Desk!Next /\ DoorWaits
    \/ Door!Next /\ DeskWaits

Spec == Init /\ [][Next]_vars

-----------------------------------------------------------------------------
(* Correctness *)

\* Nobody is attended without a check-in, and nobody is checked in without a
\* registration, whatever the desk does meanwhile (checkins.py 326-386).
AttendanceIsBacked ==
    \A u \in Users :
        /\ regs[u].status = "attended" => Door!CheckedIn(u)
        /\ Door!CheckedIn(u) => Desk!HasRow(regs, u)

\* A cancelled registration comes back only as attended, and only through a
\* check-in that had let its attendee in and read its status before the
\* cancellation: POST /register never revives it (registrations.py 293-306, 371,
\* checkins.py 384-386).
CancelledReturnsOnlyAsAttended ==
    [][\A u \in Users :
         regs[u].status = "cancelled" /\ regs'[u].status # "cancelled" =>
             /\ regs'[u].status = "attended"
             /\ \E w \in DoorWorkers :
                   doorPc[w] = "mark" /\ doorJob[w].user = u /\ doorPc'[w] = "redeem"]_vars

=============================================================================
