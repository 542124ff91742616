----------------------------- MODULE GuestList ------------------------------
(***************************************************************************)
(* What a guest list promises, with no transactions: the users on a list   *)
(* are added to it together, those that it has already are left as they    *)
(* are, and they answer as often as they like.  Nobody is taken off it.    *)
(***************************************************************************)
CONSTANTS Invitees, GuestLists

VARIABLE status  \* of each user's invitation, or "absent"

Init == status = [i \in Invitees |-> "absent"]

Invite(guests) ==
    status' = [i \in Invitees |->
                 IF i \in guests /\ status[i] = "absent" THEN "sent" ELSE status[i]]

Answer(i, decision) ==
    /\ status[i] # "absent"
    /\ status' = [status EXCEPT ![i] = decision]

Next ==
    \/ \E guests \in GuestLists : Invite(guests)
    \/ \E i \in Invitees, d \in {"accepted", "declined"} : Answer(i, d)

Spec == Init /\ [][Next]_status
=============================================================================
