--------------------------- MODULE MCInvitations ----------------------------
(* Invitations on small sets, for TLC: lists that name the same invitees in  *)
(* opposite orders, and one that names an invitee twice.                     *)
EXTENDS Invitations

CONSTANTS i1, i2

MCInvitees == {i1, i2}
MCBatches  == {<<i1, i2>>, <<i2, i1>>, <<i1, i1>>}
=============================================================================
