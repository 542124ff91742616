---------------------------- MODULE MCOrganizers ----------------------------
(***************************************************************************)
(* Organizers on small sets: invitations, events and venues, each explored *)
(* with the other two at rest.                                             *)
(***************************************************************************)
EXTENDS Organizers

CONSTANTS
    i1, i2,          \* invitees
    t1, t2, k1       \* tenants, an Idempotency-Key

\* Lists that name the same invitees in opposite orders, and one that names an
\* invitee twice.
TheInvitees == {i1, i2}
TheBatches  == {<<i1, i2>>, <<i2, i1>>, <<i1, i1>>}

\* A draft without an end; patches that move its start, set its end at the same
\* hour, or open the event; two tenants that use one key.
TheDrafts  == {[start |-> 1, end |-> NoTime, status |-> "draft"]}
ThePatches == {[start |-> 2], [end |-> 2], [status |-> "active"]}

\* Places on both sides of the antimeridian and at the edge of the radii, and the
\* values of the cap at, inside and outside its bounds.
ThePayloads    == [lat    : {Omitted, NoCoord, 0},
                   lon    : {Omitted, NoCoord, -19990, 0, 20000},
                   radius : {Omitted, NoCoord, 9, 10, 501, 5001}]
TheSubmissions == [lat : {NoCoord, 0}, lon : {NoCoord, -20000, -19499, 0, 10, 100, 101}]
TheRawCaps     == {9, 50, 500, 5000, 6000}
=============================================================================
