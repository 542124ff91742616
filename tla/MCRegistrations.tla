--------------------------- MODULE MCRegistrations --------------------------
(* Registrations on small sets, for TLC.                                     *)
EXTENDS Registrations, TLC

\* Users that are eligible alike, and workers, are interchangeable.
Symmetry == Permutations(Eligible) \cup Permutations(Workers)

\* No step depends on the last reply: two states that differ only in it have the
\* same future.
WithoutReply == <<event, regs, lock, pc, job, seen, view, target>>
=============================================================================
