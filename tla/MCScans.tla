------------------------------ MODULE MCScans -------------------------------
(***************************************************************************)
(* Scans on small sets: the limiter and the tokens, each explored with the *)
(* other at rest.                                                          *)
(***************************************************************************)
EXTENDS Scans, TLC

CONSTANTS
    a1, ip1, th1, th2,                      \* an attendee, an address, two threads
    ann, bob, n1, w1, w2

\* One attendee, with and without an address, and two threads.
TheAttendees == {a1}
TheAddresses == {ip1}
TheThreads   == {th1, th2}

\* A token of every kind, minted once, at the doors of two events that have one id in
\* two tables.
TheTables == {"events", "greek_rush_events"}
TheOrders ==
    {[table |-> "events", event |-> 1, single |-> TRUE, attendee |-> NoAttendee],
     [table |-> "events", event |-> 1, single |-> TRUE, attendee |-> ann],
     [table |-> "greek_rush_events", event |-> 1, single |-> FALSE, attendee |-> NoAttendee]}

\* Without the last answers.
WithoutReply == <<part, clock, attendee, address, request, granted, newest,
                  qrClock, rows, pc, job, view, failures>>

Symmetry == Permutations(TheThreads) \cup Permutations(Workers)
=============================================================================
