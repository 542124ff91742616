---------------------------- MODULE MCAttendees -----------------------------
(***************************************************************************)
(* Attendees on small sets: the gates, a journey past three venues, a      *)
(* detour between two which organizers move, take off the map and put      *)
(* back, and retention, each explored with the others at rest.             *)
(***************************************************************************)
EXTENDS Attendees, TLC

CONSTANTS
    admin, coach, lead, fan, stranger,      \* people, of two schools and of none
    s1, s2, g1,
    west, hall, east

\* An admin, a coach and a fan of one school, a team lead of none who leads a group
\* of that school, and a fan of another.  The coach's user_id has no digits.
TheUsers       == {admin, coach, lead, fan, stranger}
TheRole        == [u \in TheUsers |-> CASE u = admin -> "school_admin" [] u = coach -> "coach"
                                         [] u = lead -> "creator" [] OTHER -> "fan"]
TheSchool      == [u \in TheUsers |-> CASE u = lead -> NoSchool [] u = stranger -> s2
                                         [] OTHER -> s1]
TheNumber      == [u \in TheUsers |-> CASE u = admin -> 1 [] u = coach -> NoDigits [] u = lead -> 3
                                         [] u = fan -> 4 [] OTHER -> 5]
TheGroupSchool == g1 :> s1
TheGroupLeads  == g1 :> {lead, coach}

\* Three events along a line of the map.
ThreeEvents == {west, hall, east}
ThreeVenues == west :> 0 @@ hall :> 2 @@ east :> 4

\* Two events, either of which may lose its coordinates, or have these or others.
TwoEvents == {west, east}
TwoVenues == west :> 0 @@ east :> 3
Elsewhere == {NoCoord, 0, 6}

\* Retention for so many days, for none, or wrongly set.
SomeSettings == {-1, 0, 1, Malformed}

\* Without the last answer.
WithoutReply == <<part, gateVars, clock, venue, stamp, at, trip, view, now, entered, moved,
                  overtaken, vars>>

Symmetry == Permutations(Workers)
=============================================================================
