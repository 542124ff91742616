----------------------------- MODULE MCCheckins -----------------------------
(* Checkins on small sets, for TLC: a single-use token that anybody may use, *)
(* and a reusable one that is bound to an attendee.                          *)
EXTENDS Checkins, TLC

CONSTANTS u1, anyone, bound

MCTokens    == {anyone, bound}
MCSingleUse == {anyone}
MCHolder    == [t \in MCTokens |-> IF t = bound THEN u1 ELSE NoUser]

\* Workers are interchangeable, and so are the users that no token is bound to.
Symmetry == Permutations(Workers) \cup Permutations(Users \ {u1})

\* No step depends on the last reply: two states that differ only in it have the
\* same future.
WithoutReply ==
    <<event, regs, checkins, used, minted, expired, pc, job, view, failures>>
=============================================================================
