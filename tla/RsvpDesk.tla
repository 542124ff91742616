------------------------------ MODULE RsvpDesk ------------------------------
(***************************************************************************)
(* What registration promises, with no threads, transactions or locks: an  *)
(* attendee is admitted while there is a seat, or joins the end of the     *)
(* waiting line, and may withdraw.  Nobody who has withdrawn comes back,   *)
(* and nobody in the line is promoted when a seat falls free: the service  *)
(* has no operation that does either.                                      *)
(***************************************************************************)
EXTENDS Naturals, FiniteSets

CONSTANTS Users, Eligible, Capacity, Unlimited

VARIABLE seats  \* what the desk holds on each user: [status, position]

Nobody == [status |-> "absent", position |-> 0]

Seated  == {u \in Users : seats[u].status \in {"registered", "attended"}}
Waiting == {u \in Users : seats[u].status = "waitlisted"}

Init == seats = [u \in Users |-> Nobody]

\* A new attendee takes a free seat.
Admit(u) ==
    /\ seats[u] = Nobody
    /\ Capacity = Unlimited \/ Cardinality(Seated) < Capacity
    /\ seats' = [seats EXCEPT ![u] = [status |-> "registered", position |-> 0]]

\* A new attendee joins the line behind everybody who waits in it.
Enqueue(u) ==
    /\ seats[u] = Nobody
    /\ Capacity # Unlimited
    /\ \A v \in Waiting : seats[v].position < seats'[u].position
    /\ seats' = [seats EXCEPT ![u] = [status   |-> "waitlisted",
                                      position |-> seats'[u].position]]

\* An attendee withdraws; the place that it had in the line stays on its row.
Withdraw(u) ==
    /\ seats[u] # Nobody
    /\ seats' = [seats EXCEPT ![u].status = "cancelled"]

Next ==
    \/ \E u \in Eligible : Admit(u) \/ Enqueue(u)
    \/ \E u \in Users : Withdraw(u)

Spec == Init /\ [][Next]_seats
=============================================================================
