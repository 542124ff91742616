----------------------------- MODULE Turnstile ------------------------------
(***************************************************************************)
(* What the door promises of one check-in, with no threads or              *)
(* transactions: an attendee is let in once, and only on a registration    *)
(* and a token of its own; its registration is marked, and the token       *)
(* burned, only after that.                                                *)
(***************************************************************************)
CONSTANTS Users, Tokens, SingleUse, Holder, NoUser, NoToken

VARIABLES
    entry,   \* the token that let each user in, or "absent"
    status,  \* the status of each user's registration, or "absent"
    burned   \* the user that used up each token, or NoUser

state == <<entry, status, burned>>

IsInside(u) == entry[u] # "absent"

Init ==
    /\ entry  = [u \in Users |-> "absent"]
    /\ burned = [t \in Tokens |-> NoUser]
    /\ status \in [Users -> {"absent", "registered", "waitlisted", "cancelled"}]

LetIn(u, t) ==
    /\ ~ IsInside(u)
    /\ status[u] \in {"registered", "waitlisted"}
    /\ t # NoToken => Holder[t] \in {NoUser, u}
    /\ entry' = [entry EXCEPT ![u] = t]
    /\ UNCHANGED <<status, burned>>

Mark(u) ==
    /\ IsInside(u)
    /\ status' = [status EXCEPT ![u] = "attended"]
    /\ UNCHANGED <<entry, burned>>

\* Those let in on one token before it was burned each leave their name on it.
Burn(u, t) ==
    /\ t \in SingleUse
    /\ entry[u] = t
    /\ status[u] = "attended"
    /\ burned' = [burned EXCEPT ![t] = u]
    /\ UNCHANGED <<entry, status>>

Next ==
    \E u \in Users :
        \/ Mark(u)
        \/ \E t \in Tokens \cup {NoToken} : LetIn(u, t)
        \/ \E t \in Tokens : Burn(u, t)

Spec == Init /\ [][Next]_state
=============================================================================
