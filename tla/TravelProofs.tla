---------------------------- MODULE TravelProofs -----------------------------
(***************************************************************************)
(* What the velocity check promises about one attendee's journey, for any  *)
(* circumference, venues, speed, window, clock and number of threads, and  *)
(* at either isolation level.                                              *)
(***************************************************************************)
EXTENDS Travel, FiniteSetTheorems, WellFoundedInduction, TLAPS

-----------------------------------------------------------------------------
(* Numbers *)

\* What the assumption says of each constant.
LEMMA ConstantTypes ==
    ASSUME TravelAssumption
    PROVE  /\ TicksPerSecond \in Nat \ {0} /\ MaxSpeed \in Nat
           /\ Window \in Nat /\ Horizon \in Nat
           /\ NoEvent \notin Events /\ NoWorker \notin Workers /\ IsFiniteSet(Events)
           /\ FirstVenue \in [Events -> Longitudes \cup {NoCoord}]
           /\ VenueEdits \subseteq Longitudes \cup {NoCoord}
           /\ Circumference \in Nat \ {0} /\ Circumference % 2 = 0
BY DEF TravelAssumption, CircumferenceIsEven

\* A second has begun when it is read, and is not over.
LEMMA SecondIs ==
    ASSUME TravelAssumption, NEW t \in Nat
    PROVE  /\ Seconds(t) \in Nat /\ Since(Seconds(t)) \in Nat
           /\ Since(Seconds(t)) <= t /\ t < Since(Seconds(t)) + TicksPerSecond
<1>1. PICK d \in Nat \ {0} : d = TicksPerSecond
  BY ConstantTypes
<1>2. t \div d \in Nat /\ (t \div d) * d <= t /\ t < (t \div d) * d + d
  OBVIOUS
<1>3. (t \div d) * d \in Nat
  BY <1>2
<1> QED BY <1>1, <1>2, <1>3 DEF Seconds, Since

\* Later seconds begin later.
LEMMA SinceGrows ==
    ASSUME TravelAssumption, NEW a \in Nat, NEW b \in Nat, a <= b
    PROVE  Since(a) \in Nat /\ Since(b) \in Nat /\ Since(a) <= Since(b)
<1>1. PICK d \in Nat \ {0} : d = TicksPerSecond
  BY ConstantTypes
<1>2. PICK k \in Nat : b = a + k
  <2>1. b - a \in Nat /\ b = a + (b - a)
    OBVIOUS
  <2> QED BY <2>1
<1>3. b * d = a * d + k * d /\ a * d \in Nat /\ k * d \in Nat
  BY <1>2
<1> QED BY <1>1, <1>3 DEF Since

\* Ticks in order are of seconds in order.
LEMMA SecondsGrow ==
    ASSUME TravelAssumption, NEW t \in Nat, NEW u \in Nat, t <= u
    PROVE  Seconds(t) <= Seconds(u)
<1>1. /\ Seconds(t) \in Nat /\ Seconds(u) \in Nat
      /\ Since(Seconds(t)) <= t /\ u < Since(Seconds(u)) + TicksPerSecond
  BY SecondIs
<1>2. TicksPerSecond \in Nat
  BY ConstantTypes
<1> SUFFICES ASSUME Seconds(u) + 1 <= Seconds(t)
             PROVE  FALSE
  BY <1>1
<1>3. Since(Seconds(u) + 1) <= Since(Seconds(t))
  BY <1>1, SinceGrows
<1>4. Since(Seconds(u) + 1) = Since(Seconds(u)) + TicksPerSecond
  BY <1>1, <1>2 DEF Since
<1>5. Since(Seconds(u)) \in Nat /\ Since(Seconds(t)) \in Nat
  BY SecondIs
<1> QED BY <1>1, <1>2, <1>3, <1>4, <1>5

\* What can be travelled grows with the time, and adds up.
LEMMA SpeedIsLinear ==
    ASSUME TravelAssumption, NEW a \in Nat, NEW b \in Nat
    PROVE  /\ MaxSpeed * a \in Nat /\ MaxSpeed * b \in Nat /\ MaxSpeed * (a + b) \in Nat
           /\ MaxSpeed * (a + b) = MaxSpeed * a + MaxSpeed * b
           /\ a <= b => MaxSpeed * a <= MaxSpeed * b
<1>1. PICK v \in Nat : v = MaxSpeed
  BY ConstantTypes
<1>2. v * a \in Nat /\ v * b \in Nat /\ v * (a + b) \in Nat /\ v * (a + b) = v * a + v * b
  OBVIOUS
<1>3. ASSUME a <= b PROVE v * a <= v * b
  <2>1. PICK k \in Nat : b = a + k
    <3>1. b - a \in Nat /\ b = a + (b - a)
      BY <1>3
    <3> QED BY <3>1
  <2>2. v * b = v * a + v * k /\ v * k \in Nat
    BY <2>1
  <2> QED BY <1>2, <2>2
<1> QED BY <1>1, <1>2, <1>3

-----------------------------------------------------------------------------
(* The earth *)

\* The antimeridian is half way round.
LEMMA HalfWay ==
    ASSUME TravelAssumption
    PROVE  Antimeridian \in Nat /\ Circumference = 2 * Antimeridian
<1>1. PICK c \in Nat \ {0} : c = Circumference /\ c % 2 = 0
  BY ConstantTypes
<1>2. c = 2 * (c \div 2) /\ c \div 2 \in Nat
  BY <1>1
<1> QED BY <1>1, <1>2 DEF Antimeridian

\* haversine_distance_m is a metric: it has no direction, nothing is far from itself,
\* and a detour is no shorter.
LEMMA DistanceIsAMetric ==
    ASSUME TravelAssumption, NEW p \in Longitudes, NEW q \in Longitudes, NEW r \in Longitudes
    PROVE  /\ Distance(p, q) \in Nat
           /\ Distance(p, q) = Distance(q, p)
           /\ Distance(p, p) = 0
           /\ Distance(p, r) <= Distance(p, q) + Distance(q, r)
<1>1. PICK h \in Nat : h = Antimeridian
  BY HalfWay
<1>2. p \in -h .. h /\ q \in -h .. h /\ r \in -h .. h /\ Circumference = 2 * h
  BY <1>1, HalfWay DEF Longitudes
<1> DEFINE D(x, y) == IF Abs(x - y) <= h THEN Abs(x - y) ELSE 2 * h - Abs(x - y)
<1>3. D(p, q) \in Nat /\ D(p, q) = D(q, p) /\ D(p, p) = 0
  BY <1>2 DEF Abs
<1>4. D(p, r) <= D(p, q) + D(q, r)
  BY <1>2 DEF Abs
<1> QED BY <1>1, <1>2, <1>3, <1>4 DEF Distance

-----------------------------------------------------------------------------
(* The inductive invariant *)

Places == Longitudes \cup {NoCoord}
Stamps == {Never} \cup 0..Seconds(Horizon)
Views  == [venue : [Events -> Places], stamp : [Events -> Stamps]]

\* Every request at work has a read view and an event, and the time that its check
\* has read.
WellTyped ==
    /\ TypeOK
    /\ entered \in [Events -> [tick : {Never} \cup 0..clock, place : Places, checked : BOOLEAN]]
    /\ view \in [Workers -> Views \cup {Closed}]
    /\ \A w \in Workers : pc[w] # Idle => view[w] \in Views /\ job[w] \in Events
    /\ \A w \in Workers : pc[w] = "prior" =>
          now[w] # Never /\ view[w].venue[job[w]] # NoCoord
    /\ \A w \in Workers : pc[w] = "insert" /\ view[w].venue[job[w]] # NoCoord => now[w] # Never

\* The row is of the second of the entry.
Stamped ==
    \A e \in Events :
        \/ stamp[e] = Never /\ entered[e] = NoEntry
        \/ /\ entered[e].tick # Never
           /\ stamp[e] = Seconds(entered[e].tick)

\* A venue that was not moved is where the entry was.
Standing ==
    \A e \in Events \ moved :
        /\ venue[e] = FirstVenue[e]
        /\ entered[e] # NoEntry => entered[e].place = FirstVenue[e]

\* A read view shows rows that are there, and all of them if nobody has overtaken it.
Seen(w) ==
    /\ \A e \in Events \ moved : view[w].venue[e] = FirstVenue[e]
    /\ \A e \in Events : view[w].stamp[e] # Never => stamp[e] = view[w].stamp[e]
    /\ w \notin overtaken => view[w].stamp = stamp

\* p is an entry elsewhere from which w may have come.
Reachable(w, p) ==
    LET elapsed == now[w] - Since(stamp[p]) IN
    FirstVenue[p] # NoCoord /\ elapsed > 0 =>
        ~ TooFast(Distance(FirstVenue[p], FirstVenue[job[w]]), elapsed, MaxSpeed)

\* The check has passed, and all that it has seen stands: one of the last entries
\* in the window is one from which w may have come.
Passed(w) ==
    pc[w] = "insert" /\ view[w].venue[job[w]] # NoCoord /\ moved = {} /\ w \notin overtaken =>
        \A e \in Events \ {job[w]} :
            stamp[e] # Never /\ Since(stamp[e]) >= now[w] - Window =>
                \E p \in Events \ {job[w]} :
                    stamp[p] # Never /\ stamp[p] >= stamp[e] /\ Reachable(w, p)

\* The beginning of the second of an entry, and what is lost of it at most.
Begun(e) == Since(Seconds(entered[e].tick))
Lost     == TicksPerSecond - 1

\* The journey from e to f, with so many stops between, is one at full speed or slower.
PacedBy(e, f, stops) ==
    Distance(entered[e].place, entered[f].place)
        <= MaxSpeed * (entered[f].tick - Begun(e) + Lost * stops)

\* No two entries in a window are further apart than a journey at full speed past
\* all the others.
Paced ==
    (\A e \in Entered : entered[e].checked) =>
        \A e, f \in Entered :
            /\ e # f
            /\ entered[e].tick <= entered[f].tick
            /\ entered[f].tick - Begun(e) <= Window
            => PacedBy(e, f, Cardinality(Entered) - 2)

VouchedAreLocated == \A e \in Entered : entered[e].checked => entered[e].place # NoCoord

JourneyInv ==
    /\ WellTyped
    /\ Stamped
    /\ Standing
    /\ \A w \in Workers : pc[w] # Idle => Seen(w) /\ Passed(w)
    /\ VouchedAreLocated
    /\ Paced

-----------------------------------------------------------------------------
(* Types *)

\* The codes of a stamp and of a clock.
LEMMA StampTypes ==
    ASSUME TravelAssumption
    PROVE  /\ Stamps \subseteq {Never} \cup Nat /\ Never \in Int /\ Never \notin Nat
           /\ \A t \in 0 .. Horizon : Seconds(t) \in Stamps
<1>1. Horizon \in Nat /\ Seconds(Horizon) \in Nat
  BY ConstantTypes, SecondIs
<1>2. ASSUME NEW t \in 0 .. Horizon PROVE Seconds(t) \in Stamps
  <2>1. t \in Nat /\ t <= Horizon /\ Horizon \in Nat
    BY <1>1
  <2>2. Seconds(t) \in Nat /\ Seconds(t) <= Seconds(Horizon)
    BY <2>1, SecondIs, SecondsGrow
  <2> QED BY <1>1, <2>2 DEF Stamps
<1> QED BY <1>1, <1>2 DEF Stamps, Never

LEMMA TypesAtFirst ==
    ASSUME TravelAssumption, Init
    PROVE  WellTyped
<1>1. /\ Horizon \in Nat /\ Never \in Stamps
      /\ FirstVenue \in [Events -> Places]
  BY ConstantTypes DEF Stamps, Places
<1>2. TypeOK
  <2>1. stamp \in [Events -> Stamps] /\ venue \in [Events -> Places]
    BY <1>1 DEF Init
  <2> QED BY <1>1, <2>1 DEF Init, TypeOK, Stamps, Places, Idle
<1>3. entered \in [Events -> [tick : {Never} \cup 0..clock, place : Places, checked : BOOLEAN]]
  BY DEF Init, NoEntry, Places
<1>4. \A w \in Workers : pc[w] = "idle"
  BY DEF Init, Idle
<1>5. view \in [Workers -> Views \cup {Closed}]
  BY DEF Init
<1> QED BY <1>2, <1>3, <1>4, <1>5 DEF WellTyped, Idle

\* A request at work is answered for, and its session is closed.
LEMMA FinishKeepsTypes ==
    ASSUME TravelAssumption, WellTyped, NEW w \in Workers, NEW code, Finish(w, code),
           UNCHANGED <<clock, venue, moved>>,
           stamp' \in [Events -> Stamps], overtaken' \subseteq Workers,
           entered' \in [Events -> [tick : {Never} \cup 0..clock, place : Places,
             checked : BOOLEAN]]
    PROVE  WellTyped'
<1>1. /\ pc'   = [pc EXCEPT ![w] = "idle"] /\ job' = [job EXCEPT ![w] = NoEvent]
      /\ view' = [view EXCEPT ![w] = Closed] /\ now' = [now EXCEPT ![w] = Never]
  BY DEF Finish, Idle
<1>2. TypeOK'
  <2>1. \A v \in Workers : pc'[v] = Idle <=> view'[v] = Closed
    BY <1>1 DEF WellTyped, TypeOK, Idle
  <2>2. now' \in [Workers -> {Never} \cup 0..clock]
          /\ pc' \in [Workers -> {Idle, "clock", "prior", "insert"}]
    BY <1>1 DEF WellTyped, TypeOK, Idle
  <2> QED BY <1>1, <2>1, <2>2 DEF WellTyped, TypeOK, Stamps
<1>5. view' \in [Workers -> Views \cup {Closed}]
  BY <1>1 DEF WellTyped
<1>3. \A v \in Workers : v # w => /\ pc'[v] = pc[v] /\ job'[v] = job[v]
                                  /\ view'[v] = view[v] /\ now'[v] = now[v]
  BY <1>1 DEF WellTyped, TypeOK
<1>4. pc'[w] = "idle"
  BY <1>1 DEF WellTyped, TypeOK
<1>6. \A v \in Workers : pc'[v] # Idle => view'[v] \in Views /\ job'[v] \in Events
  BY <1>3, <1>4 DEF WellTyped, Idle
<1>7. \A v \in Workers : pc'[v] \in {"prior", "insert"} =>
          v # w /\ pc'[v] = pc[v] /\ job'[v] = job[v] /\ view'[v] = view[v] /\ now'[v] = now[v]
  BY <1>3, <1>4
<1> QED BY <1>2, <1>5, <1>6, <1>7 DEF WellTyped

LEMMA StepsKeepTypes ==
    ASSUME TravelAssumption, WellTyped, [Next]_vars
    PROVE  WellTyped'
<1> USE DEF Goto
<1>1. ASSUME NEW w \in Workers, NEW e \in Events, Start(w, e) PROVE WellTyped'
  <2>1. /\ pc' = [pc EXCEPT ![w] = "clock"] /\ job' = [job EXCEPT ![w] = e]
        /\ view' = [view EXCEPT ![w] = Current] /\ overtaken' = overtaken \ {w}
        /\ UNCHANGED <<clock, venue, stamp, now, entered, moved>>
    BY <1>1 DEF Start, tables
  <2>2. Current \in Views
    BY DEF Current, Views, WellTyped, TypeOK, Places, Stamps
  <2>3. Current # Closed
    <3>1. DOMAIN Current.venue = Events
      BY <2>2 DEF Views
    <3>2. DOMAIN Closed.venue = {}
      BY DEF Closed
    <3> QED BY <3>1, <3>2
  <2>4. TypeOK'
    <3>1. \A v \in Workers : pc'[v] = Idle <=> view'[v] = Closed
      BY <2>1, <2>3 DEF WellTyped, TypeOK, Idle
    <3> QED BY <2>1, <3>1 DEF WellTyped, TypeOK, Idle
  <2>5. \A v \in Workers : v # w => /\ pc'[v] = pc[v] /\ job'[v] = job[v] /\ view'[v] = view[v]
    BY <2>1 DEF WellTyped, TypeOK
  <2>6. pc'[w] = "clock" /\ view'[w] \in Views /\ job'[w] \in Events
    BY <2>1, <2>2 DEF WellTyped, TypeOK
  <2> QED BY <2>1, <2>4, <2>5, <2>6 DEF WellTyped
<1>2. ASSUME NEW w \in Workers, NEW label \in {"prior", "insert"}, pc[w] # Idle,
             pc' = [pc EXCEPT ![w] = label], UNCHANGED <<clock, venue, stamp, job, view, history>>,
             now' \in [Workers -> {Never} \cup 0..clock],
             \A v \in Workers \ {w} : now'[v] = now[v],
             view[w].venue[job[w]] # NoCoord => now'[w] # Never,
             label = "prior" => view[w].venue[job[w]] # NoCoord
      PROVE  WellTyped'
  <2>1. TypeOK'
    <3>1. \A v \in Workers : pc'[v] = Idle <=> view'[v] = Closed
      BY <1>2 DEF WellTyped, TypeOK, Idle
    <3> QED BY <1>2, <3>1 DEF WellTyped, TypeOK, Idle, history
  <2>2. \A v \in Workers \ {w} : pc'[v] = pc[v] /\ now'[v] = now[v]
    BY <1>2 DEF WellTyped, TypeOK
  <2>3. pc'[w] = label
    BY <1>2 DEF WellTyped, TypeOK
  <2> QED BY <1>2, <2>1, <2>2, <2>3 DEF WellTyped, history
<1>3. ASSUME NEW w \in Workers, SkipUnlocated(w) PROVE WellTyped'
  BY <1>2, <1>3 DEF SkipUnlocated, tables, WellTyped, TypeOK, Idle
<1>4. ASSUME NEW w \in Workers, ReadClock(w) PROVE WellTyped'
  <2>1. clock \in Nat
    BY ConstantTypes DEF WellTyped, TypeOK
  <2>2. /\ now' \in [Workers -> {Never} \cup 0..clock] /\ now'[w] # Never
        /\ \A v \in Workers \ {w} : now'[v] = now[v]
    BY <1>4, <2>1 DEF ReadClock, WellTyped, TypeOK, Never
  <2> QED BY <1>2, <1>4, <2>2 DEF ReadClock, tables, Idle
<1>5. ASSUME NEW w \in Workers, VelocityPasses(w) PROVE WellTyped'
  BY <1>2, <1>5 DEF VelocityPasses, tables, WellTyped, TypeOK, Idle
<1>6. ASSUME NEW w \in Workers, VelocityRefuses(w) PROVE WellTyped'
  BY <1>6, FinishKeepsTypes DEF VelocityRefuses, tables, history, WellTyped, TypeOK, Stamps
<1>7. ASSUME NEW w \in Workers, InsertCheckin(w) PROVE WellTyped'
  <2>1. /\ stamp' = [stamp EXCEPT ![job[w]] = Seconds(clock)]
        /\ entered' = [entered EXCEPT ![job[w]] =
                          [tick |-> clock, place |-> view[w].venue[job[w]], checked |-> Vouched(w)]]
        /\ overtaken' \subseteq Workers /\ Finish(w, "success")
        /\ UNCHANGED <<clock, venue, moved>>
    BY <1>7 DEF InsertCheckin
  <2>2. clock \in 0..Horizon /\ clock \in 0..clock /\ Seconds(clock) \in Stamps
    BY StampTypes, ConstantTypes DEF WellTyped, TypeOK
  <2>3. stamp' \in [Events -> Stamps]
    BY <2>1, <2>2 DEF WellTyped, TypeOK, Stamps
  <2>4. view[w] \in Views /\ job[w] \in Events
    BY <1>7 DEF InsertCheckin, WellTyped, Idle
  <2>5. Vouched(w) \in BOOLEAN
    BY DEF Vouched
  <2>6. [tick |-> clock, place |-> view[w].venue[job[w]], checked |-> Vouched(w)]
          \in [tick : {Never} \cup 0..clock, place : Places, checked : BOOLEAN]
    BY <2>2, <2>4, <2>5 DEF Views
  <2>7. entered' \in [Events -> [tick : {Never} \cup 0..clock, place : Places, checked : BOOLEAN]]
    BY <2>1, <2>6 DEF WellTyped
  <2> QED BY <2>1, <2>3, <2>7, FinishKeepsTypes
<1>8. ASSUME NEW w \in Workers, InsertFails(w) PROVE WellTyped'
  BY <1>8, FinishKeepsTypes DEF InsertFails, tables, history, WellTyped, TypeOK, Stamps
<1>9. ASSUME NEW e \in Events, NEW place \in VenueEdits, MoveVenue(e, place) PROVE WellTyped'
  <2>1. place \in Places
    BY ConstantTypes DEF Places
  <2>2. TypeOK'
    BY <1>9, <2>1 DEF MoveVenue, session, WellTyped, TypeOK, Places
  <2> QED BY <1>9, <2>2 DEF MoveVenue, session, WellTyped
<1>10. CASE Tick
  <2>1. clock \in 0..Horizon /\ Horizon \in Nat /\ clock' = clock + 1 /\ clock' \in 0..Horizon
    BY <1>10, ConstantTypes DEF Tick, WellTyped, TypeOK
  <2>2. UNCHANGED <<venue, stamp, pc, job, view, now, entered, moved, overtaken>>
    BY <1>10 DEF Tick, tables, session, history
  <2>3. 0..clock \subseteq 0..clock'
    BY <2>1
  <2>4. TypeOK'
    BY <2>1, <2>2, <2>3 DEF WellTyped, TypeOK
  <2> QED BY <2>2, <2>3, <2>4 DEF WellTyped
<1>11. CASE UNCHANGED vars
  BY <1>11 DEF vars, tables, session, history, WellTyped, TypeOK
<1> QED BY <1>1, <1>3, <1>4, <1>5, <1>6, <1>7, <1>8, <1>9, <1>10, <1>11 DEF Next

-----------------------------------------------------------------------------
(* What requests see *)

\* A set of seconds up to the horizon has a last one.
LEMMA GreatestExists ==
    ASSUME NEW n \in Nat, NEW T \in SUBSET (0..n), T # {}
    PROVE  \E m \in T : \A x \in T : x <= m
<1> DEFINE Above(x) == {y \in T : x < y}
           F == {Above(x) : x \in T}
<1>1. IsFiniteSet(T)
  <2>1. T \in SUBSET Nat /\ \A x \in T : x <= n
    OBVIOUS
  <2> QED BY <2>1, FS_BoundedSetOfNaturals
<1>2. F \subseteq FiniteSubsetsOf(T)
  BY <1>1, FS_FiniteSubsetsOfFinite
<1>3. F # {}
  OBVIOUS
<1>4. \E A \in F : \A B \in F : <<B, A>> \notin StrictSubsetOrdering(T)
  <2> HIDE DEF F
  <2> QED BY <1>2, <1>3, FS_StrictSubsetOrderingWellFounded, WFMin
<1>5. PICK m \in T : \A y \in T : <<Above(y), Above(m)>> \notin StrictSubsetOrdering(T)
  BY <1>4
<1>6. ASSUME NEW x \in T, ~ (x <= m) PROVE FALSE
  <2>1. x \in Nat /\ m \in Nat /\ m < x
    BY <1>6
  <2>2. Above(x) \subseteq Above(m)
    <3> SUFFICES ASSUME NEW y \in T, x < y PROVE m < y
      OBVIOUS
    <3>1. y \in Nat
      OBVIOUS
    <3> QED BY <2>1, <3>1
  <2>3. x \in Above(m) /\ x \notin Above(x)
    BY <2>1
  <2>4. <<Above(x), Above(m)>> \in StrictSubsetOrdering(T)
    <3>1. /\ Above(x) \in SUBSET T /\ Above(m) \in SUBSET T
          /\ Above(x) \subseteq Above(m) /\ Above(x) # Above(m)
      BY <2>2, <2>3
    <3> HIDE DEF Above
    <3> QED BY <3>1 DEF StrictSubsetOrdering
  <2> QED BY <1>5, <2>4
<1> QED BY <1>6

\* Where there are recent check-ins, one of them comes first in the query.
LEMMA PriorExists ==
    ASSUME TravelAssumption, WellTyped, NEW w \in Workers, pc[w] = "prior", Recent(w) # {}
    PROVE  Priors(w) # {}
<1>1. /\ Rows(w).stamp \in [Events -> Stamps]
      /\ Stamps = {Never} \cup 0..Seconds(Horizon) /\ Seconds(Horizon) \in Nat
  BY ConstantTypes, SecondIs DEF Rows, Current, WellTyped, TypeOK, Views, Stamps, Idle
<1> DEFINE T == {Rows(w).stamp[e] : e \in Recent(w)}
<1>2. T \in SUBSET (0..Seconds(Horizon)) /\ T # {}
  BY <1>1 DEF Recent
<1>3. PICK m \in T : \A x \in T : x <= m
  <2> HIDE DEF T
  <2> QED BY <1>1, <1>2, GreatestExists
<1>4. PICK p \in Recent(w) : Rows(w).stamp[p] = m
  OBVIOUS
<1> QED BY <1>3, <1>4 DEF Priors

\* What a request does before its answer changes no table.
Quiet == UNCHANGED <<clock, venue, stamp, entered, moved>>

LEMMA QuietSteps ==
    ASSUME NEW w \in Workers,
           \/ \E e \in Events : Start(w, e)
           \/ SkipUnlocated(w) \/ ReadClock(w)
           \/ VelocityPasses(w) \/ VelocityRefuses(w) \/ InsertFails(w)
    PROVE  Quiet /\ overtaken' \in {overtaken, overtaken \ {w}}
BY DEF Start, SkipUnlocated, ReadClock, VelocityPasses, VelocityRefuses, InsertFails, Quiet,
       tables, history

\* An insertion: of one row, of the second it is, by whoever has no session then.
LEMMA InsertIs ==
    ASSUME TravelAssumption, WellTyped, NEW w \in Workers, InsertCheckin(w)
    PROVE  /\ pc[w] = "insert" /\ job[w] \in Events /\ view[w] \in Views
           /\ stamp[job[w]] = Never /\ stamp'[job[w]] = Seconds(clock)
           /\ entered'[job[w]] = [tick |-> clock, place |-> view[w].venue[job[w]],
                                  checked |-> Vouched(w)]
           /\ \A e \in Events \ {job[w]} : stamp'[e] = stamp[e] /\ entered'[e] = entered[e]
           /\ overtaken' = Workers \ {w} /\ UNCHANGED <<clock, venue, moved>>
           /\ clock \in Nat /\ clock \in 0..Horizon
BY ConstantTypes DEF InsertCheckin, WellTyped, TypeOK, Idle

LEMMA StepsKeepRows ==
    ASSUME TravelAssumption, WellTyped, Stamped, Standing, VouchedAreLocated,
           \A w \in Workers : pc[w] # Idle => Seen(w), [Next]_vars
    PROVE  Stamped' /\ Standing' /\ VouchedAreLocated'
<1>1. ASSUME Quiet PROVE Stamped' /\ Standing' /\ VouchedAreLocated'
  BY <1>1 DEF Quiet, Stamped, Standing, VouchedAreLocated, Entered
<1>2. ASSUME NEW w \in Workers, InsertCheckin(w) PROVE Stamped' /\ Standing' /\ VouchedAreLocated'
  <2>1. /\ pc[w] = "insert" /\ job[w] \in Events
        /\ stamp'[job[w]] = Seconds(clock)
        /\ entered'[job[w]] = [tick |-> clock, place |-> view[w].venue[job[w]],
                               checked |-> Vouched(w)]
        /\ \A e \in Events \ {job[w]} : stamp'[e] = stamp[e] /\ entered'[e] = entered[e]
        /\ UNCHANGED <<clock, venue, moved>>
        /\ clock \in Nat
    BY <1>2, InsertIs
  <2>2. Seen(w)
    BY <2>1 DEF Idle
  <2>3. Stamped'
    BY <2>1 DEF Stamped, Never
  <2>4. Standing'
    BY <2>1, <2>2 DEF Standing, Seen
  <2>5. VouchedAreLocated'
    BY <2>1 DEF VouchedAreLocated, Entered, Vouched
  <2> QED BY <2>3, <2>4, <2>5
<1>3. ASSUME NEW e \in Events, NEW place \in VenueEdits, MoveVenue(e, place)
      PROVE  Stamped' /\ Standing' /\ VouchedAreLocated'
  <2>1. /\ UNCHANGED <<stamp, entered>> /\ moved' = moved \cup {e}
        /\ \A f \in Events \ {e} : venue'[f] = venue[f]
    BY <1>3 DEF MoveVenue, WellTyped, TypeOK
  <2> QED BY <2>1 DEF Stamped, Standing, VouchedAreLocated, Entered
<1>4. CASE Tick
  BY <1>4 DEF Tick, tables, history, Stamped, Standing, VouchedAreLocated, Entered
<1>5. CASE UNCHANGED vars
  BY <1>5 DEF vars, tables, history, Stamped, Standing, VouchedAreLocated, Entered
<1> QED BY <1>1, <1>2, <1>3, <1>4, <1>5, QuietSteps DEF Next

\* The session of v goes on unseen.
Undisturbed(v) == pc'[v] = pc[v] /\ job'[v] = job[v] /\ view'[v] = view[v] /\ now'[v] = now[v]

LEMMA OthersAreUndisturbed ==
    ASSUME WellTyped, NEW w \in Workers, NEW v \in Workers \ {w},
           \/ \E e \in Events : Start(w, e)
           \/ SkipUnlocated(w) \/ ReadClock(w)
           \/ VelocityPasses(w) \/ VelocityRefuses(w) \/ InsertFails(w) \/ InsertCheckin(w)
    PROVE  Undisturbed(v)
<1> USE DEF WellTyped, TypeOK, Undisturbed
<1>1. CASE \E e \in Events : Start(w, e)
  BY <1>1 DEF Start, Goto
<1>2. CASE SkipUnlocated(w)
  BY <1>2 DEF SkipUnlocated, Goto, history
<1>3. CASE ReadClock(w)
  BY <1>3 DEF ReadClock, Goto, history
<1>4. CASE VelocityPasses(w)
  BY <1>4 DEF VelocityPasses, Goto, history
<1>5. CASE VelocityRefuses(w)
  BY <1>5 DEF VelocityRefuses, Finish, history
<1>6. CASE InsertFails(w)
  BY <1>6 DEF InsertFails, Finish, history
<1>7. CASE InsertCheckin(w)
  BY <1>7 DEF InsertCheckin, Finish
<1> QED BY <1>1, <1>2, <1>3, <1>4, <1>5, <1>6, <1>7

\* Only what was read from the tables is in a read view.
LEMMA StepsKeepViews ==
    ASSUME TravelAssumption, WellTyped, Standing,
           \A w \in Workers : pc[w] # Idle => Seen(w), [Next]_vars,
           NEW v \in Workers, pc'[v] # Idle
    PROVE  Seen(v)'
<1>1. ASSUME pc[v] # Idle, view'[v] = view[v], UNCHANGED <<stamp, moved>>,
             v \in overtaken => v \in overtaken'
      PROVE  Seen(v)'
  BY <1>1 DEF Seen
<1>2. ASSUME NEW w \in Workers \ {v},
             \/ \E e \in Events : Start(w, e)
             \/ SkipUnlocated(w) \/ ReadClock(w)
             \/ VelocityPasses(w) \/ VelocityRefuses(w) \/ InsertFails(w)
      PROVE  Seen(v)'
  <2>1. Undisturbed(v) /\ Quiet /\ overtaken' \in {overtaken, overtaken \ {w}}
    BY <1>2, OthersAreUndisturbed, QuietSteps
  <2> QED BY <1>1, <2>1 DEF Undisturbed, Quiet
<1>3. ASSUME NEW w \in Workers \ {v}, InsertCheckin(w) PROVE Seen(v)'
  <2>1. Undisturbed(v)
    BY <1>3, OthersAreUndisturbed
  <2>2. /\ stamp[job[w]] = Never /\ overtaken' = Workers \ {w} /\ UNCHANGED <<venue, moved>>
        /\ \A e \in Events \ {job[w]} : stamp'[e] = stamp[e]
    BY <1>3, InsertIs
  <2>3. Seen(v)
    BY <2>1 DEF Undisturbed
  <2> QED BY <2>1, <2>2, <2>3 DEF Seen, Undisturbed
<1>4. ASSUME NEW e \in Events, Start(v, e) PROVE Seen(v)'
  <2>1. view'[v] = Current /\ UNCHANGED <<venue, stamp, moved>>
    BY <1>4 DEF Start, tables, WellTyped
  <2> QED BY <2>1 DEF Seen, Standing, Current
<1>5. ASSUME SkipUnlocated(v) \/ ReadClock(v) \/ VelocityPasses(v) PROVE Seen(v)'
  BY <1>1, <1>5 DEF SkipUnlocated, ReadClock, VelocityPasses, tables, history, Idle
<1>6. ASSUME VelocityRefuses(v) \/ InsertFails(v) \/ InsertCheckin(v) PROVE FALSE
  BY <1>6 DEF VelocityRefuses, InsertFails, InsertCheckin, Finish, WellTyped, TypeOK
<1>7. ASSUME NEW e \in Events, NEW place \in VenueEdits, MoveVenue(e, place) PROVE Seen(v)'
  BY <1>7 DEF MoveVenue, session, Seen
<1>8. CASE Tick
  BY <1>1, <1>8 DEF Tick, tables, session, history
<1>9. CASE UNCHANGED vars
  BY <1>1, <1>9 DEF vars, tables, session, history
<1> QED BY <1>2, <1>3, <1>4, <1>5, <1>6, <1>7, <1>8, <1>9 DEF Next

\* A check that passes has found, of all the entries in the window, one of the last
\* that the attendee may come from.
LEMMA PassingIsReachable ==
    ASSUME TravelAssumption, WellTyped, Standing, NEW w \in Workers, Seen(w),
           VelocityPasses(w), moved = {}, w \notin overtaken,
           NEW e \in Events \ {job[w]}, stamp[e] # Never, Since(stamp[e]) >= now[w] - Window
    PROVE  \E p \in Events \ {job[w]} :
              stamp[p] # Never /\ stamp[p] >= stamp[e] /\ Reachable(w, p)
<1>1. pc[w] = "prior"
  BY DEF VelocityPasses
<1>2. /\ Rows(w).stamp = stamp /\ \A f \in Events : Rows(w).venue[f] = FirstVenue[f]
      /\ view[w].venue[job[w]] = FirstVenue[job[w]]
  BY <1>1 DEF Rows, Current, Seen, Standing, WellTyped, Idle
<1>3. e \in Recent(w)
  BY <1>2 DEF Recent
<1>4. PICK p \in Priors(w) : ~ Implausible(w, p)
  BY <1>1, <1>3, PriorExists DEF VelocityPasses
<1>5. /\ p \in Events \ {job[w]} /\ stamp[p] # Never /\ stamp[e] <= stamp[p]
  BY <1>2, <1>3, <1>4 DEF Priors, Recent
<1>6. stamp[p] >= stamp[e]
  <2>1. stamp[p] \in Int /\ stamp[e] \in Int
    BY <1>5, ConstantTypes, SecondIs DEF WellTyped, TypeOK, Never
  <2> QED BY <1>5, <2>1
<1>7. Reachable(w, p)
  BY <1>2, <1>4, <1>5 DEF Implausible, Reachable
<1> QED BY <1>5, <1>6, <1>7

LEMMA StepsKeepPasses ==
    ASSUME TravelAssumption, WellTyped, Standing,
           \A w \in Workers : pc[w] # Idle => Seen(w) /\ Passed(w), [Next]_vars,
           NEW v \in Workers
    PROVE  Passed(v)'
<1>1. ASSUME Undisturbed(v), UNCHANGED <<stamp, moved>>, v \in overtaken => v \in overtaken'
      PROVE  Passed(v)'
  <2> SUFFICES ASSUME pc[v] = "insert" PROVE Passed(v)'
    BY <1>1 DEF Passed, Undisturbed
  <2>1. Passed(v)
    BY DEF Idle
  <2> QED BY <1>1, <2>1 DEF Passed, Undisturbed, Reachable
<1>2. ASSUME NEW w \in Workers \ {v},
             \/ \E e \in Events : Start(w, e)
             \/ SkipUnlocated(w) \/ ReadClock(w)
             \/ VelocityPasses(w) \/ VelocityRefuses(w) \/ InsertFails(w)
      PROVE  Passed(v)'
  <2>1. Undisturbed(v) /\ Quiet /\ overtaken' \in {overtaken, overtaken \ {w}}
    BY <1>2, OthersAreUndisturbed, QuietSteps
  <2> QED BY <1>1, <2>1 DEF Quiet
<1>3. ASSUME NEW w \in Workers \ {v}, InsertCheckin(w) PROVE Passed(v)'
  BY <1>3, InsertIs DEF Passed
<1>4. ASSUME NEW e \in Events, Start(v, e) PROVE Passed(v)'
  BY <1>4 DEF Start, Goto, WellTyped, TypeOK, Passed
<1>5. ASSUME SkipUnlocated(v) PROVE Passed(v)'
  BY <1>5 DEF SkipUnlocated, Passed
<1>6. ASSUME ReadClock(v) PROVE Passed(v)'
  BY <1>6 DEF ReadClock, Goto, WellTyped, TypeOK, Passed
<1>7. ASSUME VelocityPasses(v) PROVE Passed(v)'
  <2>1. Seen(v) /\ UNCHANGED <<venue, stamp, job, view, now, moved, overtaken>>
    BY <1>7 DEF VelocityPasses, tables, history, Idle
  <2> SUFFICES ASSUME moved = {}, v \notin overtaken,
                      NEW e \in Events \ {job[v]}, stamp[e] # Never,
                      Since(stamp[e]) >= now[v] - Window
               PROVE  \E p \in Events \ {job[v]} :
                         stamp[p] # Never /\ stamp[p] >= stamp[e] /\ Reachable(v, p)
    BY <2>1 DEF Passed, Reachable
  <2> QED BY <1>7, <2>1, PassingIsReachable
<1>8. ASSUME VelocityRefuses(v) \/ InsertFails(v) \/ InsertCheckin(v) PROVE Passed(v)'
  BY <1>8 DEF VelocityRefuses, InsertFails, InsertCheckin, Finish, WellTyped, TypeOK, Passed, Idle
<1>9. ASSUME NEW e \in Events, NEW place \in VenueEdits, MoveVenue(e, place) PROVE Passed(v)'
  BY <1>9 DEF MoveVenue, Passed
<1>10. CASE Tick
  BY <1>1, <1>10 DEF Tick, tables, session, history, Undisturbed
<1>11. CASE UNCHANGED vars
  BY <1>1, <1>11 DEF vars, tables, session, history, Undisturbed
<1> QED BY <1>2, <1>3, <1>4, <1>5, <1>6, <1>7, <1>8, <1>9, <1>10, <1>11 DEF Next

-----------------------------------------------------------------------------
(* The journey *)

\* What an entry is.
LEMMA EntryIs ==
    ASSUME TravelAssumption, WellTyped, Stamped, NEW e \in Entered
    PROVE  /\ e \in Events /\ entered[e].tick \in Nat /\ entered[e].tick <= clock /\ clock \in Nat
           /\ entered[e].place \in Places
           /\ stamp[e] = Seconds(entered[e].tick) /\ stamp[e] # Never /\ stamp[e] \in Nat
           /\ Begun(e) = Since(stamp[e]) /\ Begun(e) \in Nat
           /\ Begun(e) <= entered[e].tick /\ entered[e].tick <= Begun(e) + Lost
           /\ Lost \in Nat
<1>1. e \in Events /\ entered[e] # NoEntry
  BY DEF Entered
<1>2. /\ entered[e] \in [tick : {Never} \cup 0..clock, place : Places, checked : BOOLEAN]
      /\ entered[e].tick # Never /\ stamp[e] = Seconds(entered[e].tick) /\ clock \in Nat
  BY <1>1, ConstantTypes DEF WellTyped, TypeOK, Stamped
<1>3. entered[e].tick \in Nat /\ entered[e].tick <= clock /\ entered[e].place \in Places
  BY <1>2
<1>4. /\ stamp[e] \in Nat /\ Since(stamp[e]) \in Nat /\ Since(stamp[e]) <= entered[e].tick
      /\ entered[e].tick < Since(stamp[e]) + TicksPerSecond
  BY <1>2, <1>3, SecondIs
<1>5. TicksPerSecond \in Nat \ {0}
  BY ConstantTypes
<1> QED BY <1>1, <1>2, <1>3, <1>4, <1>5 DEF Begun, Lost, Never

\* A row is an entry.
LEMMA RowIsEntry ==
    ASSUME TravelAssumption, WellTyped, Stamped, NEW e \in Events
    PROVE  e \in Entered <=> stamp[e] # Never
<1>1. ASSUME e \in Entered PROVE stamp[e] # Never
  BY <1>1, EntryIs
<1>2. ASSUME stamp[e] # Never PROVE e \in Entered
  <2>1. entered[e].tick # Never /\ NoEntry.tick = Never
    BY <1>2 DEF Stamped, NoEntry
  <2> QED BY <2>1 DEF Entered
<1> QED BY <1>1, <1>2

\* Two entries and more.
LEMMA EnteredIsFinite ==
    ASSUME TravelAssumption
    PROVE  /\ IsFiniteSet(Entered) /\ Cardinality(Entered) \in Nat
           /\ \A e \in Entered : Cardinality(Entered) - 1 \in Nat
           /\ \A e, f \in Entered : e # f => Cardinality(Entered) - 2 \in Nat
<1>1. IsFiniteSet(Entered) /\ Cardinality(Entered) \in Nat
  <2>1. Entered \subseteq Events /\ IsFiniteSet(Events)
    BY ConstantTypes DEF Entered
  <2> QED BY <2>1, FS_Subset, FS_CardinalityType
<1>2. ASSUME NEW e \in Entered
      PROVE  /\ IsFiniteSet(Entered \ {e}) /\ Cardinality(Entered \ {e}) \in Nat
             /\ Cardinality(Entered) = Cardinality(Entered \ {e}) + 1
  <2>1. IsFiniteSet(Entered \ {e}) /\ Cardinality(Entered \ {e}) = Cardinality(Entered) - 1
    BY <1>1, FS_RemoveElement
  <2>2. Cardinality(Entered \ {e}) \in Nat
    BY <2>1, FS_CardinalityType
  <2> QED BY <1>1, <2>1, <2>2
<1>3. ASSUME NEW e \in Entered PROVE Cardinality(Entered) - 1 \in Nat
  <2>1. PICK n \in Nat : Cardinality(Entered) = n + 1
    BY <1>2, <1>3
  <2>2. (n + 1) - 1 \in Nat
    OBVIOUS
  <2> QED BY <2>1, <2>2
<1>4. ASSUME NEW e \in Entered, NEW f \in Entered, e # f PROVE Cardinality(Entered) - 2 \in Nat
  <2>1. f \in Entered \ {e} /\ Entered \ {e} # {}
    BY <1>4
  <2>2. Cardinality(Entered \ {e}) # 0
    BY <1>2, <2>1, FS_EmptySet
  <2> QED BY <1>2, <2>2
<1> QED BY <1>1, <1>3, <1>4

\* One stop more.
LEMMA ThroughTheLastStop ==
    ASSUME TravelAssumption,
           NEW a \in Longitudes, NEW b \in Longitudes, NEW c \in Longitudes,
           NEW x \in Nat, NEW y \in Nat, NEW z \in Nat, NEW n \in Nat,
           Distance(a, b) <= MaxSpeed * (x + Lost * n),
           Distance(b, c) <= MaxSpeed * y,
           x + y <= z + Lost
    PROVE  Distance(a, c) <= MaxSpeed * (z + Lost * (n + 1))
<1>1. PICK l \in Nat : l = Lost
  BY ConstantTypes DEF Lost
<1>2. l * n \in Nat /\ l * (n + 1) = l * n + l /\ l * (n + 1) \in Nat
  OBVIOUS
<1>3. PICK before \in Nat, after \in Nat : before = x + l * n /\ after = z + l * (n + 1)
  BY <1>2
<1>4. before + y \in Nat /\ before + y <= after
  BY <1>1, <1>2, <1>3
<1>5. /\ MaxSpeed * (before + y) = MaxSpeed * before + MaxSpeed * y
      /\ MaxSpeed * before \in Nat /\ MaxSpeed * y \in Nat
  BY SpeedIsLinear
<1>6. MaxSpeed * (before + y) <= MaxSpeed * after /\ MaxSpeed * after \in Nat
  BY <1>4, SpeedIsLinear
<1>7. /\ Distance(a, c) <= Distance(a, b) + Distance(b, c)
      /\ Distance(a, c) \in Nat /\ Distance(a, b) \in Nat /\ Distance(b, c) \in Nat
  BY DistanceIsAMetric
<1>8. Distance(a, b) <= MaxSpeed * before /\ after = z + Lost * (n + 1)
  BY <1>1, <1>3
<1>9. Distance(b, c) <= MaxSpeed * y
  OBVIOUS
<1> QED BY <1>5, <1>6, <1>7, <1>8, <1>9

\* The most that is travelled grows with the stops too.
LEMMA MoreStops ==
    ASSUME TravelAssumption, NEW x \in Nat, NEW y \in Nat, x <= y, NEW n \in Nat, NEW d \in Nat,
           d <= MaxSpeed * (x + Lost * n)
    PROVE  d <= MaxSpeed * (y + Lost * (n + 1)) /\ d <= MaxSpeed * (y + Lost * n)
<1>1. PICK l \in Nat : l = Lost
  BY ConstantTypes DEF Lost
<1>2. l * n \in Nat /\ l * (n + 1) = l * n + l /\ l * (n + 1) \in Nat
  OBVIOUS
<1>3. PICK p \in Nat, q \in Nat, r \in Nat :
          p = x + l * n /\ q = y + l * (n + 1) /\ r = y + l * n
  BY <1>2
<1>4. p <= q /\ p <= r
  BY <1>2, <1>3
<1>5. /\ MaxSpeed * p <= MaxSpeed * q /\ MaxSpeed * p <= MaxSpeed * r
      /\ MaxSpeed * p \in Nat /\ MaxSpeed * q \in Nat /\ MaxSpeed * r \in Nat
  BY <1>4, SpeedIsLinear
<1>6. /\ d <= MaxSpeed * p /\ MaxSpeed * (y + Lost * (n + 1)) = MaxSpeed * q
      /\ MaxSpeed * (y + Lost * n) = MaxSpeed * r
  BY <1>1, <1>3
<1> QED BY <1>5, <1>6

\* The attendee has come from one of its last entries within the time since.
LEMMA ComesFromTheLast ==
    ASSUME TravelAssumption, JourneyInv, NEW w \in Workers, InsertCheckin(w), Vouched(w),
           \A e \in Entered : entered[e].checked,
           NEW e \in Entered, clock - Begun(e) <= Window
    PROVE  \E p \in Entered :
              /\ stamp[p] >= stamp[e]
              /\ Distance(entered[p].place, view[w].venue[job[w]]) <= MaxSpeed * (clock - Begun(p))
<1>1. /\ pc[w] = "insert" /\ job[w] \in Events /\ view[w] \in Views /\ stamp[job[w]] = Never
      /\ clock \in Nat
  BY InsertIs DEF JourneyInv
<1>2. /\ view[w].venue[job[w]] # NoCoord /\ moved = {} /\ w \notin overtaken
      /\ \A f \in Events : stamp[f] # Never => now[w] > Since(stamp[f])
  BY DEF Vouched
<1>3. now[w] \in Nat /\ now[w] <= clock
  BY <1>1, <1>2 DEF JourneyInv, WellTyped, TypeOK
<1>4. e \in Events \ {job[w]} /\ stamp[e] # Never /\ Begun(e) = Since(stamp[e]) /\ Begun(e) \in Nat
  BY <1>1, EntryIs DEF JourneyInv
<1>5. Since(stamp[e]) >= now[w] - Window
  <2>1. Window \in Nat
    BY ConstantTypes
  <2> QED BY <1>1, <1>3, <1>4, <2>1
<1>6. Seen(w) /\ Passed(w)
  BY <1>1 DEF JourneyInv, Idle
<1>7. PICK p \in Events \ {job[w]} : stamp[p] # Never /\ stamp[p] >= stamp[e] /\ Reachable(w, p)
  BY <1>1, <1>2, <1>4, <1>5, <1>6 DEF Passed
<1>8. p \in Entered
  BY <1>7, RowIsEntry DEF JourneyInv
<1>9. /\ Begun(p) = Since(stamp[p]) /\ Begun(p) \in Nat /\ now[w] > Begun(p)
      /\ entered[p].place \in Places /\ entered[p].place # NoCoord
  BY <1>2, <1>7, <1>8, EntryIs DEF JourneyInv, VouchedAreLocated
<1>10. FirstVenue[p] = entered[p].place /\ FirstVenue[job[w]] = view[w].venue[job[w]]
  BY <1>1, <1>2, <1>6, <1>8 DEF JourneyInv, Standing, Seen, Entered
<1>11. ~ (Distance(entered[p].place, view[w].venue[job[w]]) > MaxSpeed * (now[w] - Begun(p)))
  <2>1. now[w] - Begun(p) > 0
    BY <1>3, <1>9
  <2> QED BY <1>7, <1>9, <1>10, <2>1 DEF Reachable, TooFast
<1>12. Distance(entered[p].place, view[w].venue[job[w]]) \in Nat
  <2>1. entered[p].place \in Longitudes /\ view[w].venue[job[w]] \in Longitudes
    BY <1>1, <1>2, <1>9 DEF Places, Views
  <2> QED BY <2>1, DistanceIsAMetric
<1>13. /\ now[w] - Begun(p) \in Nat /\ clock - Begun(p) \in Nat
       /\ now[w] - Begun(p) <= clock - Begun(p)
  BY <1>1, <1>3, <1>9
<1>14. /\ MaxSpeed * (now[w] - Begun(p)) <= MaxSpeed * (clock - Begun(p))
       /\ MaxSpeed * (now[w] - Begun(p)) \in Nat /\ MaxSpeed * (clock - Begun(p)) \in Nat
  BY <1>13, SpeedIsLinear
<1> QED BY <1>7, <1>8, <1>11, <1>12, <1>14

\* The new entry is at full speed from each of the others in the window, past all
\* of those.
LEMMA InsertionIsPaced ==
    ASSUME TravelAssumption, JourneyInv, NEW w \in Workers, InsertCheckin(w), Vouched(w),
           \A e \in Entered : entered[e].checked,
           NEW e \in Entered, clock - Begun(e) <= Window
    PROVE  Distance(entered[e].place, view[w].venue[job[w]])
              <= MaxSpeed * (clock - Begun(e) + Lost * (Cardinality(Entered) - 1))
<1> DEFINE here == view[w].venue[job[w]]
<1>1. PICK p \in Entered :
          /\ stamp[p] >= stamp[e]
          /\ Distance(entered[p].place, here) <= MaxSpeed * (clock - Begun(p))
  BY ComesFromTheLast
<1>2. /\ entered[e].tick \in Nat /\ entered[e].tick <= clock /\ clock \in Nat
      /\ stamp[e] = Seconds(entered[e].tick) /\ stamp[e] \in Nat
      /\ Begun(e) = Since(stamp[e]) /\ Begun(e) \in Nat
      /\ Begun(e) <= entered[e].tick /\ entered[e].tick <= Begun(e) + Lost /\ Lost \in Nat
  BY EntryIs DEF JourneyInv
<1>3. /\ entered[p].tick \in Nat /\ entered[p].tick <= clock
      /\ stamp[p] = Seconds(entered[p].tick) /\ stamp[p] \in Nat
      /\ Begun(p) = Since(stamp[p]) /\ Begun(p) \in Nat
      /\ Begun(p) <= entered[p].tick /\ entered[p].tick <= Begun(p) + Lost
  BY EntryIs DEF JourneyInv
<1>4. here \in Longitudes /\ entered[e].place \in Longitudes /\ entered[p].place \in Longitudes
  <2>1. view[w] \in Views /\ job[w] \in Events /\ here # NoCoord
    BY InsertIs DEF JourneyInv, Vouched
  <2>2. entered[e].place # NoCoord /\ entered[p].place # NoCoord
    BY DEF JourneyInv, VouchedAreLocated
  <2>3. entered[e].place \in Places /\ entered[p].place \in Places
    BY EntryIs DEF JourneyInv
  <2> QED BY <2>1, <2>2, <2>3 DEF Places, Views
<1>5. Cardinality(Entered) - 1 \in Nat /\ Cardinality(Entered) \in Nat
  BY EnteredIsFinite
<1>6. clock - Begun(e) \in Nat /\ clock - Begun(p) \in Nat
  BY <1>2, <1>3
<1> HIDE DEF here
<1>7. CASE p = e
  <2>1. /\ Lost * (Cardinality(Entered) - 1) \in Nat
        /\ Distance(entered[e].place, here) \in Nat
    <3>1. PICK l \in Nat, n \in Nat : l = Lost /\ n = Cardinality(Entered) - 1
      BY <1>2, <1>5
    <3>2. l * n \in Nat
      OBVIOUS
    <3> QED BY <1>4, <3>1, <3>2, DistanceIsAMetric
  <2>2. PICK x \in Nat, y \in Nat :
            x = clock - Begun(e) /\ y = clock - Begun(e) + Lost * (Cardinality(Entered) - 1)
    BY <1>6, <2>1
  <2>3. x <= y
    BY <2>1, <2>2
  <2>4. MaxSpeed * x <= MaxSpeed * y /\ MaxSpeed * x \in Nat /\ MaxSpeed * y \in Nat
    BY <2>3, SpeedIsLinear
  <2>5. Distance(entered[e].place, here) <= MaxSpeed * x
    BY <1>1, <1>7, <2>2 DEF here
  <2>6. Distance(entered[e].place, here) <= MaxSpeed * y
    BY <2>1, <2>4, <2>5
  <2> QED BY <2>2, <2>6 DEF here
<1>8. CASE p # e
  <2>1. PICK n \in Nat : n = Cardinality(Entered) - 2 /\ n + 1 = Cardinality(Entered) - 1
    BY <1>5, <1>8, EnteredIsFinite
  <2>2. Window \in Nat /\ clock - Begun(e) <= Window
    BY ConstantTypes
  <2>3. Distance(entered[p].place, here) <= MaxSpeed * (clock - Begun(p))
    BY <1>1 DEF here
  <2>4. Paced /\ \A f \in Entered : entered[f].checked
    BY DEF JourneyInv
  <2>5. CASE entered[e].tick <= entered[p].tick
    <3>1. PICK x \in Nat : x = entered[p].tick - Begun(e) /\ x <= Window
      <4>1. entered[p].tick - Begun(e) \in Nat /\ entered[p].tick - Begun(e) <= Window
        BY <1>2, <1>3, <2>2, <2>5
      <4> QED BY <4>1
    <3>2. Distance(entered[e].place, entered[p].place) <= MaxSpeed * (x + Lost * n)
      BY <1>8, <2>1, <2>4, <2>5, <3>1 DEF Paced, PacedBy
    <3>3. x + (clock - Begun(p)) <= (clock - Begun(e)) + Lost
      BY <1>2, <1>3, <3>1
    <3>4. Distance(entered[e].place, here) <= MaxSpeed * ((clock - Begun(e)) + Lost * (n + 1))
      BY <1>4, <1>6, <2>3, <3>2, <3>3, ThroughTheLastStop
    <3> QED BY <2>1, <3>4 DEF here
  <2>6. CASE entered[p].tick < entered[e].tick
    <3>1. Begun(p) = Begun(e)
      <4>1. Seconds(entered[p].tick) <= Seconds(entered[e].tick)
        BY <1>2, <1>3, <2>6, SecondsGrow
      <4> QED BY <1>1, <1>2, <1>3, <4>1
    <3>2. PICK x \in Nat : x = entered[e].tick - Begun(p) /\ x <= Window /\ x <= Lost
      <4>1. /\ entered[e].tick - Begun(p) \in Nat
            /\ entered[e].tick - Begun(p) <= Window /\ entered[e].tick - Begun(p) <= Lost
        BY <1>2, <1>3, <2>2, <3>1
      <4> QED BY <4>1
    <3>3. Distance(entered[p].place, entered[e].place) <= MaxSpeed * (x + Lost * n)
      <4>1. entered[p].tick <= entered[e].tick
        BY <1>2, <1>3, <2>6
      <4> QED BY <1>8, <2>1, <2>4, <3>2, <4>1 DEF Paced, PacedBy
    <3>4. Distance(entered[e].place, entered[p].place) <= MaxSpeed * (x + Lost * n)
      BY <1>4, <3>3, DistanceIsAMetric
    <3>5. x + (clock - Begun(p)) <= (clock - Begun(e)) + Lost
      BY <1>2, <1>3, <3>1, <3>2
    <3>6. Distance(entered[e].place, here) <= MaxSpeed * ((clock - Begun(e)) + Lost * (n + 1))
      BY <1>4, <1>6, <2>3, <3>4, <3>5, ThroughTheLastStop
    <3> QED BY <2>1, <3>6 DEF here
  <2> QED BY <1>2, <1>3, <2>5, <2>6
<1> QED BY <1>7, <1>8

LEMMA StepsKeepPace ==
    ASSUME TravelAssumption, JourneyInv, [Next]_vars
    PROVE  Paced'
<1>1. ASSUME UNCHANGED entered PROVE Paced'
  BY <1>1 DEF JourneyInv, Paced, PacedBy, Begun, Entered
<1>2. ASSUME NEW w \in Workers, InsertCheckin(w) PROVE Paced'
  <2> SUFFICES ASSUME \A e \in Entered' : entered'[e].checked,
                      NEW e \in Entered', NEW f \in Entered', e # f,
                      entered'[e].tick <= entered'[f].tick,
                      entered'[f].tick - Begun(e)' <= Window
               PROVE  PacedBy(e, f, Cardinality(Entered) - 2)'
    BY DEF Paced
  <2> DEFINE here == view[w].venue[job[w]]
  <2>0. PICK j \in Events : j = job[w]
    BY <1>2, InsertIs DEF JourneyInv
  <2>1. /\ j = job[w] /\ j \in Events /\ view[w] \in Views /\ stamp[j] = Never
        /\ entered'[j] = [tick |-> clock, place |-> here, checked |-> Vouched(w)]
        /\ \A g \in Events \ {j} : entered'[g] = entered[g]
        /\ clock \in Nat
    BY <1>2, <2>0, InsertIs DEF JourneyInv
  <2>2. j \notin Entered /\ Entered' = Entered \cup {j}
    <3>1. j \notin Entered
      BY <2>1, RowIsEntry DEF JourneyInv
    <3>2. entered'[j].tick # NoEntry.tick
      BY <2>1 DEF NoEntry, Never
    <3> QED BY <2>1, <3>1, <3>2 DEF Entered
  <2>3. \A g \in Entered : entered'[g] = entered[g] /\ entered[g].checked /\ Begun(g)' = Begun(g)
    BY <2>1, <2>2 DEF Begun, Entered
  <2>4. Vouched(w)
    BY <2>1, <2>2
  <2>5. Cardinality(Entered') = Cardinality(Entered) + 1 /\ Cardinality(Entered) \in Nat
    BY <2>2, EnteredIsFinite, FS_AddElement
  <2>6. /\ entered'[j].tick = clock /\ entered'[j].place = here
        /\ Begun(j)' = Since(Seconds(clock))
    BY <2>1 DEF Begun
  <2>7. Cardinality(Entered') - 2 = Cardinality(Entered) - 1
    BY <2>5
  <2>8. CASE e \in Entered /\ f \in Entered
    <3>1. /\ entered[e].tick <= entered[f].tick /\ entered[f].tick - Begun(e) <= Window
          /\ entered'[e].place = entered[e].place /\ entered'[f].place = entered[f].place
          /\ entered'[f].tick = entered[f].tick /\ Begun(e)' = Begun(e)
      BY <2>3, <2>8
    <3>2. PacedBy(e, f, Cardinality(Entered) - 2)
      BY <2>3, <2>8, <3>1 DEF JourneyInv, Paced
    <3>3. PICK n \in Nat : n = Cardinality(Entered) - 2 /\ n + 1 = Cardinality(Entered) - 1
      BY <2>5, <2>8, EnteredIsFinite
    <3>4. entered[f].tick - Begun(e) \in Nat
      <4>1. /\ entered[e].tick \in Nat /\ entered[f].tick \in Nat
            /\ Begun(e) \in Nat /\ Begun(e) <= entered[e].tick
        BY <2>8, EntryIs DEF JourneyInv
      <4> QED BY <3>1, <4>1
    <3>5. Distance(entered[e].place, entered[f].place) \in Nat
      <4>1. entered[e].place \in Longitudes /\ entered[f].place \in Longitudes
        BY <2>3, <2>8, EntryIs DEF JourneyInv, VouchedAreLocated, Places
      <4> QED BY <4>1, DistanceIsAMetric
    <3>6. Distance(entered[e].place, entered[f].place)
            <= MaxSpeed * (entered[f].tick - Begun(e) + Lost * (n + 1))
      <4>1. Distance(entered[e].place, entered[f].place)
              <= MaxSpeed * (entered[f].tick - Begun(e) + Lost * n)
        BY <3>2, <3>3 DEF PacedBy
      <4>2. entered[f].tick - Begun(e) <= entered[f].tick - Begun(e)
        BY <3>4
      <4> QED BY <3>4, <3>5, <4>1, <4>2, MoreStops
    <3> QED BY <2>7, <3>1, <3>3, <3>6 DEF PacedBy
  <2>9. CASE e \in Entered /\ f = j
    <3>1. /\ clock - Begun(e) <= Window /\ entered'[e].place = entered[e].place
          /\ Begun(e)' = Begun(e)
      BY <2>3, <2>6, <2>9
    <3>2. Distance(entered[e].place, here)
            <= MaxSpeed * (clock - Begun(e) + Lost * (Cardinality(Entered) - 1))
      BY <1>2, <2>1, <2>3, <2>4, <2>9, <3>1, InsertionIsPaced
    <3> QED BY <2>6, <2>7, <2>9, <3>1, <3>2 DEF PacedBy
  <2>10. CASE e = j /\ f \in Entered
    <3>1. /\ entered[f].tick \in Nat /\ entered[f].tick <= clock
          /\ entered[f].place \in Places /\ Begun(f) = Since(Seconds(entered[f].tick))
      BY <2>10, EntryIs DEF JourneyInv
    <3>2. entered[f].tick = clock
      BY <2>1, <2>3, <2>6, <2>10, <3>1
    <3>3. Begun(j)' = Begun(f) /\ clock - Begun(f) <= Window
      BY <2>3, <2>6, <2>10, <3>1, <3>2
    <3>4. Distance(entered[f].place, here)
            <= MaxSpeed * (clock - Begun(f) + Lost * (Cardinality(Entered) - 1))
      BY <1>2, <2>3, <2>4, <2>10, <3>3, InsertionIsPaced
    <3>5. Distance(here, entered[f].place) = Distance(entered[f].place, here)
      <4>1. here \in Places /\ here # NoCoord /\ entered[f].place # NoCoord
        BY <2>1, <2>3, <2>4, <2>10 DEF Views, Vouched, JourneyInv, VouchedAreLocated
      <4> QED BY <3>1, <4>1, DistanceIsAMetric DEF Places
    <3>6. entered'[f].tick = clock /\ entered'[f].place = entered[f].place
      BY <2>3, <2>10, <3>2
    <3> QED BY <2>6, <2>7, <2>10, <3>3, <3>4, <3>5, <3>6 DEF PacedBy
  <2> QED BY <2>2, <2>8, <2>9, <2>10
<1>3. CASE \E e \in Events, place \in VenueEdits : MoveVenue(e, place)
  BY <1>1, <1>3 DEF MoveVenue
<1>4. CASE Tick
  BY <1>1, <1>4 DEF Tick, history
<1>5. CASE UNCHANGED vars
  BY <1>1, <1>5 DEF vars, history
<1> QED BY <1>1, <1>2, <1>3, <1>4, <1>5, QuietSteps DEF Next, Quiet

-----------------------------------------------------------------------------
(* Theorems *)

LEMMA JourneyAtFirst ==
    ASSUME TravelAssumption, Init
    PROVE  JourneyInv
<1>1. WellTyped
  BY TypesAtFirst
<1>2. /\ \A e \in Events : stamp[e] = Never /\ entered[e] = NoEntry
      /\ \A w \in Workers : pc[w] = Idle
      /\ venue = FirstVenue /\ Entered = {}
  BY DEF Init, Entered
<1>3. Stamped /\ Standing /\ VouchedAreLocated /\ Paced
  BY <1>2 DEF Stamped, Standing, VouchedAreLocated, Paced
<1> QED BY <1>1, <1>2, <1>3 DEF JourneyInv

LEMMA StepsKeepJourney ==
    ASSUME TravelAssumption, JourneyInv, [Next]_vars
    PROVE  JourneyInv'
<1>1. WellTyped'
  BY StepsKeepTypes DEF JourneyInv
<1>2. Stamped' /\ Standing' /\ VouchedAreLocated'
  BY StepsKeepRows DEF JourneyInv
<1>3. ASSUME NEW w \in Workers, pc'[w] # Idle PROVE Seen(w)' /\ Passed(w)'
  <2>1. Seen(w)'
    BY <1>3, StepsKeepViews DEF JourneyInv
  <2>2. Passed(w)'
    BY StepsKeepPasses DEF JourneyInv
  <2> QED BY <2>1, <2>2
<1>4. Paced'
  BY StepsKeepPace
<1> QED BY <1>1, <1>2, <1>3, <1>4 DEF JourneyInv

\* The inductive invariant holds (geo_verification.py 121-160, checkins.py 232-300).
THEOREM JourneyIsInvariant ==
    ASSUME TravelAssumption
    PROVE  Spec => []JourneyInv
<1>1. Init => JourneyInv
  BY JourneyAtFirst
<1>2. JourneyInv /\ [Next]_vars => JourneyInv'
  BY StepsKeepJourney
<1> QED BY <1>1, <1>2, PTL DEF Spec

\* Every variable of the journey has its type.
THEOREM JourneyIsTyped ==
    ASSUME TravelAssumption
    PROVE  Spec => []TypeOK
<1>1. JourneyInv => TypeOK
  BY DEF JourneyInv, WellTyped
<1> QED BY <1>1, JourneyIsInvariant, PTL

\* Two entries in the order of their ticks.
LEMMA InOrderIsPlausible ==
    ASSUME TravelAssumption, JourneyInv, \A e \in Entered : entered[e].checked,
           NEW e \in Entered, NEW f \in Entered, e # f,
           entered[e].tick <= entered[f].tick,
           entered[f].tick - entered[e].tick + TicksPerSecond <= Window
    PROVE  Distance(entered[e].place, entered[f].place)
              <= MaxSpeed * ((entered[f].tick - entered[e].tick)
                                + (TicksPerSecond - 1) * (Cardinality(Entered) - 1))
<1>1. /\ entered[e].tick \in Nat /\ entered[f].tick \in Nat
      /\ Begun(e) \in Nat /\ Begun(e) <= entered[e].tick
      /\ entered[e].tick <= Begun(e) + Lost /\ Lost \in Nat
      /\ entered[e].place \in Places /\ entered[f].place \in Places
  BY EntryIs DEF JourneyInv
<1>2. TicksPerSecond \in Nat \ {0} /\ Window \in Nat /\ Lost = TicksPerSecond - 1
  BY ConstantTypes DEF Lost
<1>3. entered[f].tick - Begun(e) <= Window
  BY <1>1, <1>2
<1>4. PICK n \in Nat : n = Cardinality(Entered) - 2 /\ n + 1 = Cardinality(Entered) - 1
  <2>1. Cardinality(Entered) - 2 \in Nat /\ Cardinality(Entered) \in Nat
    BY EnteredIsFinite
  <2> QED BY <2>1
<1>5. Distance(entered[e].place, entered[f].place)
         <= MaxSpeed * (entered[f].tick - Begun(e) + Lost * n)
  BY <1>3, <1>4 DEF JourneyInv, Paced, PacedBy
<1>6. entered[e].place \in Longitudes /\ entered[f].place \in Longitudes
  BY <1>1 DEF JourneyInv, VouchedAreLocated, Places
<1>7. PICK x \in Nat, y \in Nat :
          /\ x = entered[f].tick - Begun(e) /\ y = entered[f].tick - entered[e].tick
          /\ x + 0 <= y + Lost
  <2>1. /\ entered[f].tick - Begun(e) \in Nat /\ entered[f].tick - entered[e].tick \in Nat
        /\ entered[f].tick - Begun(e) + 0 <= entered[f].tick - entered[e].tick + Lost
    BY <1>1
  <2> QED BY <2>1
<1>8. Distance(entered[f].place, entered[f].place) <= MaxSpeed * 0
  <2>1. PICK v \in Nat : v = MaxSpeed
    BY ConstantTypes
  <2>2. v * 0 = 0
    OBVIOUS
  <2>3. Distance(entered[f].place, entered[f].place) = 0
    BY <1>6, DistanceIsAMetric
  <2> QED BY <2>1, <2>2, <2>3
<1>9. Distance(entered[e].place, entered[f].place) <= MaxSpeed * (y + Lost * (n + 1))
  BY <1>5, <1>6, <1>7, <1>8, ThroughTheLastStop
<1> QED BY <1>2, <1>4, <1>7, <1>9

LEMMA PlausibleFollows ==
    ASSUME TravelAssumption, JourneyInv
    PROVE  JourneyIsPlausible
<1> SUFFICES ASSUME \A e \in Entered : entered[e].checked,
                    NEW e \in Entered, NEW f \in Entered, WithinWindow(e, f)
             PROVE  ~ Apart(e, f, (TicksPerSecond - 1) * (Cardinality(Entered) - 1))
  BY DEF JourneyIsPlausible
<1> DEFINE slack == (TicksPerSecond - 1) * (Cardinality(Entered) - 1)
<1>1. /\ entered[e].tick \in Nat /\ entered[f].tick \in Nat
      /\ entered[e].place \in Longitudes /\ entered[f].place \in Longitudes
  BY EntryIs DEF JourneyInv, VouchedAreLocated, Places
<1>2. /\ Distance(entered[e].place, entered[f].place) \in Nat
      /\ Distance(entered[e].place, entered[f].place) = Distance(entered[f].place, entered[e].place)
  BY <1>1, DistanceIsAMetric
<1>3. slack \in Nat /\ Gap(e, f) \in Nat /\ MaxSpeed * (Gap(e, f) + slack) \in Nat
  <2>1. PICK l \in Nat, n \in Nat : l = TicksPerSecond - 1 /\ n = Cardinality(Entered) - 1
    BY EnteredIsFinite, ConstantTypes
  <2>2. l * n \in Nat
    OBVIOUS
  <2>3. Gap(e, f) \in Nat
    BY <1>1 DEF Gap, Abs
  <2>4. slack \in Nat
    BY <2>1, <2>2
  <2> HIDE DEF slack
  <2> QED BY <2>3, <2>4, SpeedIsLinear
<1>4. Distance(entered[e].place, entered[f].place) <= MaxSpeed * (Gap(e, f) + slack)
  <2>1. CASE e = f
    BY <1>1, <1>3, <2>1, DistanceIsAMetric
  <2>2. CASE e # f /\ entered[e].tick <= entered[f].tick
    <3>1. Gap(e, f) = entered[f].tick - entered[e].tick
      BY <1>1, <2>2 DEF Gap, Abs
    <3>2. entered[f].tick - entered[e].tick + TicksPerSecond <= Window
      BY <3>1 DEF WithinWindow
    <3> QED BY <2>2, <3>1, <3>2, InOrderIsPlausible
  <2>3. CASE e # f /\ entered[f].tick <= entered[e].tick
    <3>1. Gap(e, f) = entered[e].tick - entered[f].tick
      BY <1>1, <2>3 DEF Gap, Abs
    <3>2. entered[e].tick - entered[f].tick + TicksPerSecond <= Window
      BY <3>1 DEF WithinWindow
    <3> QED BY <1>2, <2>3, <3>1, <3>2, InOrderIsPlausible
  <2> QED BY <1>1, <2>1, <2>2, <2>3
<1> HIDE DEF slack
<1>5. ~ (Distance(entered[e].place, entered[f].place) > MaxSpeed * (Gap(e, f) + slack))
  BY <1>2, <1>3, <1>4
<1> QED BY <1>5 DEF Apart, TooFast, slack

\* The check against the last check-in alone, to the second, keeps any number of
\* check-ins in the window at the speed that is allowed, but for what checkin_at
\* lost of a second at each stop (geo_verification.py 121-160).
THEOREM JourneysArePlausible ==
    ASSUME TravelAssumption
    PROVE  Spec => []JourneyIsPlausible
<1>1. JourneyInv => JourneyIsPlausible
  BY PlausibleFollows
<1> QED BY <1>1, JourneyIsInvariant, PTL

LEMMA RefusalFollows ==
    ASSUME TravelAssumption, JourneyInv, NEW w \in Workers, VelocityRefuses(w)
    PROVE  RefusalIsDue
<1>1. pc[w] = "prior" /\ reply'.to = w
  BY DEF VelocityRefuses, Finish
<1>2. PICK e \in Priors(w) : Implausible(w, e)
  BY DEF VelocityRefuses
<1>3. /\ view[w] \in Views /\ job[w] \in Events /\ Seen(w)
      /\ now[w] \in Nat /\ view[w].venue[job[w]] # NoCoord
      /\ venue \in [Events -> Places]
  BY <1>1 DEF JourneyInv, WellTyped, TypeOK, Idle, Places
<1> DEFINE p == Rows(w).venue[e]
           q == view[w].venue[job[w]]
<1>4. /\ e \in Events \ {job[w]} /\ Rows(w).stamp[e] # Never /\ p # NoCoord
      /\ TooFast(Distance(p, q), now[w] - Since(Rows(w).stamp[e]), MaxSpeed)
  BY <1>2 DEF Priors, Recent, Implausible
<1>5. stamp[e] = Rows(w).stamp[e] /\ stamp[e] # Never
  BY <1>3, <1>4 DEF Rows, Current, Seen
<1>6. e \in Entered \ {job[w]}
  BY <1>4, <1>5, RowIsEntry DEF JourneyInv
<1>7. e \in moved \/ p = entered[e].place
  BY <1>3, <1>4, <1>6 DEF Rows, Current, Seen, JourneyInv, Standing, Entered
<1>8. TooFar(w, e, p)
  <2>1. /\ entered[e].tick \in Nat /\ Since(stamp[e]) \in Nat
        /\ Since(stamp[e]) <= entered[e].tick
    BY <1>6, EntryIs DEF JourneyInv
  <2>2. Distance(p, q) \in Nat
    <3>1. p \in Places /\ q \in Places
      BY <1>3, <1>4 DEF Rows, Current, Views
    <3>2. p \in Longitudes /\ q \in Longitudes
      BY <1>3, <1>4, <3>1 DEF Places
    <3> QED BY <3>2, DistanceIsAMetric
  <2>3. PICK v \in Nat, x \in Int, y \in Int :
            v = MaxSpeed /\ x = now[w] - entered[e].tick /\ y = now[w] - Since(stamp[e]) /\ x <= y
    <3>1. /\ now[w] - entered[e].tick \in Int /\ now[w] - Since(stamp[e]) \in Int
          /\ now[w] - entered[e].tick <= now[w] - Since(stamp[e]) /\ MaxSpeed \in Nat
      BY <1>3, <2>1, ConstantTypes
    <3> QED BY <3>1
  <2>4. v * x <= v * y /\ v * x \in Int /\ v * y \in Int
    <3>1. PICK k \in Nat : y = x + k
      <4>1. y - x \in Nat /\ y = x + (y - x)
        BY <2>3
      <4> QED BY <4>1
    <3>2. v * y = v * x + v * k /\ v * k \in Nat /\ v * x \in Int
      BY <3>1
    <3> QED BY <3>2
  <2>5. Distance(p, q) > v * y
    BY <1>4, <1>5, <2>3 DEF TooFast
  <2>6. Distance(p, q) > v * x
    BY <2>2, <2>4, <2>5
  <2> QED BY <1>4, <2>3, <2>6 DEF TooFar, TooFast
<1>9. \/ TooFar(w, e, entered[e].place)
      \/ e \in moved /\ TooFar(w, e, Rows(w).venue[e])
  BY <1>7, <1>8
<1>10. \A v \in Workers : reply'.to = v => v = w
  BY <1>1
<1> QED BY <1>6, <1>9, <1>10 DEF RefusalIsDue

\* Every step refuses only whom it may.
LEMMA StepsRefuseRightly ==
    ASSUME TravelAssumption, JourneyInv, [Next]_vars
    PROVE  [RefusalIsDue]_vars
<1>1. ASSUME reply'.code # "velocity_implausible" PROVE RefusalIsDue
  BY <1>1 DEF RefusalIsDue
<1>2. NoReply.code # "velocity_implausible"
  BY DEF NoReply
<1>3. ASSUME NEW w \in Workers,
             \/ \E e \in Events : Start(w, e)
             \/ SkipUnlocated(w) \/ ReadClock(w) \/ VelocityPasses(w)
      PROVE  RefusalIsDue
  BY <1>1, <1>2, <1>3 DEF Start, SkipUnlocated, ReadClock, VelocityPasses, Goto
<1>4. ASSUME NEW w \in Workers, VelocityRefuses(w) PROVE RefusalIsDue
  BY <1>4, RefusalFollows
<1>5. ASSUME NEW w \in Workers, InsertCheckin(w) \/ InsertFails(w) PROVE RefusalIsDue
  BY <1>1, <1>5 DEF InsertCheckin, InsertFails, Finish
<1>6. CASE Tick \/ \E e \in Events, place \in VenueEdits : MoveVenue(e, place)
  BY <1>1, <1>2, <1>6 DEF Tick, MoveVenue
<1>7. CASE UNCHANGED vars
  BY <1>7
<1> QED BY <1>3, <1>4, <1>5, <1>6, <1>7 DEF Next

\* Whoever travels at a speed that is allowed is not refused, whatever the requests do
\* meanwhile, unless an organizer moved the venue of an earlier entry, and it is that
\* venue that is too far (geo_verification.py 120-159, checkins.py 232-243).
THEOREM TravellersAreWelcome ==
    ASSUME TravelAssumption
    PROVE  Spec => TravellersAreNotRefused
<1>1. JourneyInv /\ [Next]_vars => [RefusalIsDue]_vars
  BY StepsRefuseRightly
<1> QED BY <1>1, JourneyIsInvariant, PTL DEF Spec, TravellersAreNotRefused

=============================================================================
