-------------------------- MODULE MCCheckinService --------------------------
(* CheckinService on small sets, for TLC: an event without QR tokens.        *)
EXTENDS CheckinService, TLC

NoHolders == [t \in {} |-> NoUser]

\* The users, and the workers of each kind, are interchangeable.
Symmetry == Permutations(Users) \cup Permutations(DeskWorkers) \cup Permutations(DoorWorkers)

\* No step depends on the last replies: two states that differ only in them have
\* the same future.
WithoutReplies == <<event, regs, deskVars, doorVars>>
=============================================================================
