---------------------------- MODULE RateLimiter -----------------------------
(***************************************************************************)
(* The sliding-window limiter in front of the door, _rate_limit in         *)
(* src/routers/checkins.py: in the memory of one process, a deque of times *)
(* for each (attendee, event), and one for each client address.            *)
(*                                                                         *)
(* A thread reads the clock first and takes the lock afterwards, so that   *)
(* it may work under the lock with a time that others have overtaken.      *)
(* Time is counted in ticks, Resolution of them to the second.             *)
(***************************************************************************)
EXTENDS Naturals, FiniteSets, Sequences, SequencesExt

CONSTANTS
    Attendees,        \* the keys of _RL_ATTENDEE_EVENT: an attendee at an event
    Addresses,        \* the keys of _RL_IP
    NoAddress,        \* the request has none: the second window is skipped
    Threads,
    NoThread,         \* no answer is given
    Resolution,       \* ticks in a second
    AttendeeWindow,   \* _RL_ATTENDEE_EVENT_WINDOW_S
    AttendeeMax,      \* _RL_ATTENDEE_EVENT_MAX
    AddressWindow,    \* _RL_IP_WINDOW_S
    AddressMax,       \* _RL_IP_MAX
    Horizon           \* bound: the tick at which the clock stops

ASSUME LimiterAssumption ==
    /\ NoAddress \notin Addresses /\ NoThread \notin Threads
    /\ IsFiniteSet(Threads) /\ Horizon \in Nat
    /\ {Resolution, AttendeeWindow, AttendeeMax, AddressWindow, AddressMax} \subseteq Nat \ {0}

VARIABLES
    clock,      \* time.monotonic()
    attendee,   \* _RL_ATTENDEE_EVENT
    address,    \* _RL_IP
    request,    \* what each thread serves: the attendee, the address, and its reading
    reply,      \* the answer that the last step gave, if it gave one
    granted,    \* history: the requests let through since the process started
    newest      \* history: the latest reading that has been under the lock

vars == <<clock, attendee, address, request, reply, granted, newest>>

-----------------------------------------------------------------------------

Idle    == [by |-> "nobody"]
NoReply == [to |-> NoThread, code |-> "none", retry |-> 0]

Ticks(seconds) == seconds * Resolution

\* How many entries at the head of a deque are older than the cutoff.
Expired(dq, now, window) ==
    CHOOSE k \in 0..Len(dq) :
        /\ \A j \in 1..k : dq[j] + Ticks(window) < now
        /\ k < Len(dq) => dq[k + 1] + Ticks(window) >= now

Prune(dq, now, window) == SubSeq(dq, Expired(dq, now, window) + 1, Len(dq))

FullOffByOne(dq, max) == Len(dq) > max
Full(dq, max) == Len(dq) >= max

\* The seconds until the entry at the head leaves the window, rounded down, and one.
RetryAfter(dq, now, window) == (Ticks(window) + dq[1] - now) \div Resolution + 1

AttendeeDeque(t) == Prune(attendee[request[t].by], request[t].now, AttendeeWindow)
AddressDeque(t)  == Prune(address[request[t].from], request[t].now, AddressWindow)

-----------------------------------------------------------------------------

\* The clock is read; the lock is taken later.
ReadClock(t, a, ip) ==
    /\ request[t] = Idle
    /\ request' = [request EXCEPT ![t] = [by |-> a, from |-> ip, now |-> clock]]
    /\ reply' = NoReply
    /\ UNCHANGED <<clock, attendee, address, granted, newest>>

\* What a thread does from the moment it takes the lock until it releases it is one
\* step: one of RefuseAttendee, RefuseAddress and Grant, which all end so.
Decide(t, code, retry) ==
    /\ newest'  = IF request[t].now > newest THEN request[t].now ELSE newest
    /\ request' = [request EXCEPT ![t] = Idle]
    /\ reply'   = [to |-> t, code |-> code, retry |-> retry]
    /\ UNCHANGED clock

RefuseAttendee(t) ==
    /\ request[t] # Idle
    /\ Full(AttendeeDeque(t), AttendeeMax)
    /\ attendee' = [attendee EXCEPT ![request[t].by] = AttendeeDeque(t)]
    /\ Decide(t, "rate_limited_attendee",
              RetryAfter(AttendeeDeque(t), request[t].now, AttendeeWindow))
    /\ UNCHANGED <<address, granted>>

\* What a request refused for its address leaves in its attendee's deque.
AttendeeCharged(t) == Append(AttendeeDeque(t), request[t].now)
AttendeeSpared(t) == AttendeeDeque(t)

RefuseAddress(t) ==
    /\ request[t] # Idle
    /\ ~ Full(AttendeeDeque(t), AttendeeMax)
    /\ request[t].from # NoAddress
    /\ Full(AddressDeque(t), AddressMax)
    /\ attendee' = [attendee EXCEPT ![request[t].by] = AttendeeSpared(t)]
    /\ address'  = [address EXCEPT ![request[t].from] = AddressDeque(t)]
    /\ Decide(t, "rate_limited_ip",
              RetryAfter(AddressDeque(t), request[t].now, AddressWindow))
    /\ UNCHANGED granted

Grant(t) ==
    /\ request[t] # Idle
    /\ ~ Full(AttendeeDeque(t), AttendeeMax)
    /\ \/ request[t].from = NoAddress /\ UNCHANGED address
       \/ /\ request[t].from # NoAddress
          /\ ~ Full(AddressDeque(t), AddressMax)
          /\ address' = [address EXCEPT ![request[t].from] =
                           Append(AddressDeque(t), request[t].now)]
    /\ attendee' = [attendee EXCEPT ![request[t].by] = Append(AttendeeDeque(t), request[t].now)]
    /\ granted'  = Append(granted, [by |-> request[t].by, from |-> request[t].from,
                                    now |-> request[t].now, at |-> clock])
    /\ Decide(t, "granted", 0)

Tick ==
    /\ clock < Horizon
    /\ clock' = clock + 1
    /\ reply' = NoReply
    /\ UNCHANGED <<attendee, address, request, granted, newest>>

\* The process is replaced: its windows and its requests are gone.
Restart ==
    /\ attendee' = [a \in Attendees |-> <<>>]
    /\ address'  = [ip \in Addresses |-> <<>>]
    /\ request'  = [t \in Threads |-> Idle]
    /\ granted'  = <<>>
    /\ newest'   = 0
    /\ reply'    = NoReply
    /\ UNCHANGED clock

Init ==
    /\ clock    = 0
    /\ attendee = [a \in Attendees |-> <<>>]
    /\ address  = [ip \in Addresses |-> <<>>]
    /\ request  = [t \in Threads |-> Idle]
    /\ reply    = NoReply
    /\ granted  = <<>>
    /\ newest   = 0

Next ==
    \/ \E t \in Threads, a \in Attendees, ip \in Addresses \cup {NoAddress} : ReadClock(t, a, ip)
    \/ \E t \in Threads : RefuseAttendee(t) \/ RefuseAddress(t) \/ Grant(t)
    \/ Tick
    \/ Restart

Spec == Init /\ [][Next]_vars

-----------------------------------------------------------------------------
(* Correctness *)

\* Every variable has its type, and no deque grows beyond its limit.
TypeOK ==
    /\ clock \in 0..Horizon /\ newest \in 0..clock
    /\ \A a \in Attendees : attendee[a] \in Seq(0..clock) /\ Len(attendee[a]) <= AttendeeMax
    /\ \A ip \in Addresses : address[ip] \in Seq(0..clock) /\ Len(address[ip]) <= AddressMax
    /\ request \in [Threads -> {Idle} \cup [by : Attendees, from : Addresses \cup {NoAddress},
                                            now : 0..clock]]
    /\ reply.to \in Threads \cup {NoThread} /\ reply.retry \in Nat

\* Of the grants for which P holds, those whose time at lies in the window that ends
\* at tick e.
GrantsAt(P(_), e, window) ==
    {i \in DOMAIN granted : /\ P(granted[i])
                            /\ granted[i].at <= e /\ granted[i].at + Ticks(window) >= e}

\* However long threads stall between the clock and the lock, no window of real time
\* sees more grants than the limit and one for each thread (checkins.py 46-56).
StalledGrantsBounded ==
    \A e \in 0..clock :
        /\ \A a \in Attendees :
             LET IsOf(g) == g.by = a
             IN  Cardinality(GrantsAt(IsOf, e, AttendeeWindow)) <= AttendeeMax + Cardinality(Threads)
        /\ \A ip \in Addresses :
             LET IsFrom(g) == g.from = ip
             IN  Cardinality(GrantsAt(IsFrom, e, AddressWindow)) <= AddressMax + Cardinality(Threads)

\* The grants of S that are still in the window of a request that reads the clock at
\* now, and whether S was granted in the order of the readings.
Recent(S, now, window) == {i \in S : granted[i].now + Ticks(window) >= now}
InOrder(S) == \A i, j \in S : i < j => granted[i].now <= granted[j].now

\* A refusal is due: the window is full, and whoever waits for as long as Retry-After
\* says finds its first grant gone, but is not told to wait a second more than that.
RefusalIsDue(S, now, window, max, retry) ==
    LET full   == Recent(S, now, window)
        leaves == granted[CHOOSE i \in full : \A j \in full : i <= j].now + Ticks(window)
        told   == now + Ticks(retry)
    IN  Cardinality(full) >= max /\ leaves < told /\ told <= leaves + Ticks(1)

\* An answer to a request whose reading nobody has overtaken is exact, even after
\* grants that were overtaken.  It is granted only if less than 5 scans were in the 60
\* seconds before it, and less than 60 from its address; and refused only if the
\* window is full of grants, whatever was refused meanwhile, for as long as
\* Retry-After says, unless grants under its key overtook each other
\* (checkins.py 46-56, 91-110).
OrderlyAnswerIsExact ==
    [][\A t \in Threads : reply'.to = t /\ request[t].now >= newest =>
         LET r      == request[t]
             Mine   == {i \in DOMAIN granted : granted[i].by = r.by}
             Theirs == {i \in DOMAIN granted : granted[i].from = r.from}
         IN  /\ reply'.code = "granted" =>
                  /\ Cardinality(Recent(Mine, r.now, AttendeeWindow)) < AttendeeMax
                  /\ r.from # NoAddress =>
                       Cardinality(Recent(Theirs, r.now, AddressWindow)) < AddressMax
             /\ reply'.code = "rate_limited_attendee" /\ InOrder(Mine) =>
                  RefusalIsDue(Mine, r.now, AttendeeWindow, AttendeeMax, reply'.retry)
             /\ reply'.code = "rate_limited_ip" /\ InOrder(Theirs) =>
                  RefusalIsDue(Theirs, r.now, AddressWindow, AddressMax, reply'.retry)]_vars
=============================================================================
