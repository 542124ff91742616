------------------------ MODULE RegistrationsProofs ------------------------
(***************************************************************************)
(* Theorems about the RSVP desk, for any attendees, worker threads, keys,  *)
(* capacities and edits, and at either isolation level.                    *)
(***************************************************************************)
EXTENDS Registrations, FiniteSetTheorems, TLAPS

-----------------------------------------------------------------------------
(* Helpers *)

\* A finite, nonempty set of naturals has a maximum: of the sets of elements
\* above one of its elements, a smallest one is above the maximum.
LEMMA MaxIsGreatest ==
    ASSUME NEW S \in SUBSET Nat, IsFiniteSet(S), S # {}
    PROVE  Max(S) \in S /\ \A x \in S : Max(S) >= x
<1> DEFINE Above(x) == {y \in S : y > x}
           T == {Above(x) : x \in S}
<1>1. T \subseteq FiniteSubsetsOf(S)
  BY FS_FiniteSubsetsOfFinite
<1>2. T # {}
  OBVIOUS
<1>3. \E A \in T : \A B \in T : <<B, A>> \notin StrictSubsetOrdering(S)
  <2> HIDE DEF T
  <2> QED BY <1>1, <1>2, FS_StrictSubsetOrderingWellFounded, WFMin
<1>4. PICK m \in S : \A y \in S : <<Above(y), Above(m)>> \notin StrictSubsetOrdering(S)
  BY <1>3
<1>5. ASSUME NEW x \in S, ~ (m >= x)
      PROVE  FALSE
  <2>1. x > m
    BY <1>5
  <2>2. ASSUME NEW y \in S, y > x
        PROVE  y > m
    <3>1. x \in Nat /\ y \in Nat /\ m \in Nat
      OBVIOUS
    <3> QED BY <3>1, <2>1, <2>2
  <2>3. x \in Above(m) /\ x \notin Above(x)
    BY <2>1
  <2>4. <<Above(x), Above(m)>> \in StrictSubsetOrdering(S)
    <3>1. /\ Above(x) \in SUBSET S /\ Above(m) \in SUBSET S
          /\ Above(x) \subseteq Above(m) /\ Above(x) # Above(m)
      BY <2>2, <2>3
    <3> HIDE DEF Above
    <3> QED BY <3>1 DEF StrictSubsetOrdering
  <2> QED BY <2>4, <1>4
<1>6. \A x \in S : m >= x
  BY <1>5
<1> QED BY <1>6 DEF Max

\* The next place in the line is one behind everybody who waits in the table
\* that is read (registrations.py 269-279).
LEMMA LastPositionIsLast ==
    ASSUME NEW rows \in [Users -> Row]
    PROVE  /\ LastPosition(rows) \in Nat
           /\ \A u \in Waiting(rows) : rows[u].position <= LastPosition(rows)
<1> DEFINE place == [u \in Waiting(rows) |-> rows[u].position]
           Places == {rows[u].position : u \in Waiting(rows)}
<1>1. IsFiniteSet(Waiting(rows))
  BY UsersAssumption, FS_Subset DEF Waiting
<1>2. place \in Surjection(Waiting(rows), Places)
  BY DEF Surjection
<1>3. IsFiniteSet(Places)
  <2> HIDE DEF place, Places
  <2> QED BY <1>1, <1>2, FS_Surjection
<1>4. Places \subseteq Nat
  BY DEF Waiting, Row
<1>5. IsFiniteSet({0} \cup Places)
  <2> HIDE DEF Places
  <2> QED BY <1>3, FS_Singleton, FS_Union
<1>6. /\ Max({0} \cup Places) \in {0} \cup Places
      /\ \A x \in {0} \cup Places : Max({0} \cup Places) >= x
  <2> HIDE DEF Places
  <2> QED BY <1>4, <1>5, MaxIsGreatest
<1>7. PICK last : last = LastPosition(rows) /\ last = Max({0} \cup Places)
  BY DEF LastPosition
<1>8. \A u \in Waiting(rows) : rows[u].position \in Places
  OBVIOUS
<1>9. last \in Nat /\ \A x \in Places : x \in Nat /\ last >= x
  <2> HIDE DEF Places
  <2>1. last \in {0} \cup Places /\ \A x \in Places : last >= x
    BY <1>6, <1>7
  <2> QED BY <1>4, <2>1
<1> HIDE DEF Places
<1> QED BY <1>7, <1>8, <1>9

\* A read returns a table.
LEMMA ReadIsATable ==
    ASSUME TypeOK, NEW w \in Workers
    PROVE  Read(w) \in [Users -> Row]
BY DEF TypeOK, Read

\* The rows that the capacity check counts are finitely many.
LEMMA ActiveIsFinite ==
    ASSUME NEW rows
    PROVE  IsFiniteSet(Active(rows)) /\ Cardinality(Active(rows)) \in Nat
<1>1. Active(rows) \subseteq Users
  BY DEF Active
<1> QED BY <1>1, UsersAssumption, FS_Subset, FS_CardinalityType

\* The registrations of a new event, none, are a row for each user.
LEMMA EmptyTableIsATable == EmptyTable \in [Users -> Row]
BY DEF EmptyTable, NoRow, Row, RowStatus

-----------------------------------------------------------------------------
(* Types *)

\* What the end of a handler does to the variables of its session.
LEMMA FinishKeepsTypes ==
    ASSUME TypeOK, NEW w \in Workers,
           NEW code \in Codes, NEW row \in Users \cup {NoUser},
           Finish(w, code, row)
    PROVE  /\ lock'   \in Workers \cup {NoWorker}
           /\ pc'     \in [Workers -> Labels]
           /\ job'    \in [Workers -> Job]
           /\ seen'   \in [Workers -> Capacities \cup {Unlimited}]
           /\ view'   \in [Workers -> [Users -> Row]]
           /\ target' \in [Workers -> Target]
           /\ reply'  \in [to : Workers \cup {NoWorker}, code : Codes, row : Users \cup {NoUser}]
<1>1. /\ lock' \in Workers \cup {NoWorker}
      /\ pc'   \in [Workers -> Labels]
      /\ seen' \in [Workers -> Capacities \cup {Unlimited}]
  BY DEF TypeOK, Finish, Labels, Idle
<1>2. job' \in [Workers -> Job]
  BY DEF TypeOK, Finish, NoJob, Job
<1>3. view' \in [Workers -> [Users -> Row]]
  BY EmptyTableIsATable DEF TypeOK, Finish
<1>4. target' \in [Workers -> Target]
  BY DEF TypeOK, Finish, NoTarget, Target, RowStatus
<1>5. reply' \in [to : Workers \cup {NoWorker}, code : Codes, row : Users \cup {NoUser}]
  BY DEF Finish
<1> QED BY <1>1, <1>2, <1>3, <1>4, <1>5

\* What a step within a handler does to its place and to the answer.
LEMMA GotoKeepsTypes ==
    ASSUME TypeOK, NEW w \in Workers, NEW label \in Labels, Goto(w, label)
    PROVE  /\ pc' \in [Workers -> Labels]
           /\ reply' \in [to : Workers \cup {NoWorker}, code : Codes, row : Users \cup {NoUser}]
BY DEF TypeOK, Goto, NoReply, Codes

\* What the arrival of a request does to the variables of its session.
LEMMA ReceiveKeepsTypes ==
    ASSUME TypeOK, NEW w \in Workers, NEW u \in Users, NEW k \in Keys \cup {NoKey},
           Receive(w, u, k)
    PROVE  /\ job'  \in [Workers -> Job]
           /\ seen' \in [Workers -> Capacities \cup {Unlimited}]
           /\ view' \in [Workers -> [Users -> Row]]
<1>1. job' \in [Workers -> Job]
  BY DEF TypeOK, Receive, Job
<1>2. seen' \in [Workers -> Capacities \cup {Unlimited}]
  BY DEF TypeOK, Receive
<1>3. OpenView \in [Users -> Row]
  BY EmptyTableIsATable DEF TypeOK, OpenView
<1>4. view' \in [Workers -> [Users -> Row]]
  BY <1>3 DEF TypeOK, Receive
<1> QED BY <1>1, <1>2, <1>4

\* The service starts, with a new event and idle sessions, in a well-typed state.
LEMMA TypeOKInit == Init => TypeOK
<1> SUFFICES ASSUME Init PROVE TypeOK
  OBVIOUS
<1>1. event \in [status : EventStatus, capacity : Capacities]
  BY DEF Init, EventStatus, Capacities
<1>2. /\ regs \in [Users -> Row]
      /\ view \in [Workers -> [Users -> Row]]
  BY EmptyTableIsATable DEF Init
<1>3. /\ lock \in Workers \cup {NoWorker}
      /\ pc   \in [Workers -> Labels]
      /\ seen \in [Workers -> Capacities \cup {Unlimited}]
  BY DEF Init, Labels, Idle
<1>4. /\ job    \in [Workers -> Job]
      /\ target \in [Workers -> Target]
  BY DEF Init, NoJob, Job, NoTarget, Target, RowStatus
<1>5. reply \in [to : Workers \cup {NoWorker}, code : Codes, row : Users \cup {NoUser}]
  BY DEF Init, NoReply, Codes
<1> QED BY <1>1, <1>2, <1>3, <1>4, <1>5 DEF TypeOK

\* The first statements of a register or cancel request keep every type:
\* those that answer at once and those that open a read view.
LEMMA TypeOKArrive ==
    ASSUME TypeOK, NEW w \in Workers, Arrive(w)
    PROVE  TypeOK'
<1>1. CASE RefuseClosed(w)
  BY <1>1, FinishKeepsTypes DEF RefuseClosed, Refuse, TypeOK, Codes
<1>2. ASSUME NEW u \in Users, RefuseIneligible(w, u)
      PROVE  TypeOK'
  BY <1>2, FinishKeepsTypes DEF RefuseIneligible, Refuse, TypeOK, Codes
<1>3. ASSUME NEW u \in Users, NEW k \in Keys \cup {NoKey}, StartRegister(w, u, k)
      PROVE  TypeOK'
  BY <1>3, ReceiveKeepsTypes, GotoKeepsTypes DEF StartRegister, TypeOK, Labels
<1>4. ASSUME NEW u \in Users, StartCancel(w, u)
      PROVE  TypeOK'
  BY <1>4, ReceiveKeepsTypes, GotoKeepsTypes DEF StartCancel, TypeOK, Labels
<1> QED BY <1>1, <1>2, <1>3, <1>4 DEF Arrive

\* Every later statement of a handler keeps every type: the locked decision,
\* the flush with its conflicts, the commit, the cancellation, the failure.
LEMMA TypeOKProceed ==
    ASSUME TypeOK, NEW w \in Workers, Proceed(w)
    PROVE  TypeOK'
<1> USE DEF Labels
<1>1. CASE ReplayFound(w)
  <2> PICK u \in Users : Finish(w, "ok", u)
    BY <1>1 DEF ReplayFound, HoldersOf
  <2> QED BY <1>1, FinishKeepsTypes DEF ReplayFound, TypeOK, Codes
<1>2. CASE ReplayMissed(w)
  BY <1>2, GotoKeepsTypes DEF ReplayMissed, TypeOK
<1>3. CASE CountActive(w)
  BY <1>3, GotoKeepsTypes DEF CountActive, TypeOK
<1>4. CASE TakePosition(w)
  <2>1. NextPosition(w) \in Nat
    BY ReadIsATable, LastPositionIsLast DEF NextPosition
  <2>2. target' \in [Workers -> Target]
    BY <1>4, <2>1 DEF TakePosition, TypeOK, Target, RowStatus
  <2> QED BY <1>4, <2>2, GotoKeepsTypes DEF TakePosition, TypeOK
<1>5. CASE InsertRow(w)
  <2>1. /\ target[w].status \in RowStatus /\ target[w].position \in Nat
        /\ job[w].key \in Keys \cup {NoKey}
    BY DEF TypeOK, Target, Job
  <2>2. regs' \in [Users -> Row]
    BY <1>5, <2>1 DEF InsertRow, TypeOK, Row
  <2> QED BY <1>5, <2>2, GotoKeepsTypes DEF InsertRow, TypeOK
<1>6. CASE InsertFails(w)
  BY <1>6, GotoKeepsTypes DEF InsertFails, TypeOK
<1> job[w].user \in Users \cup {NoUser}
  BY DEF TypeOK, Job
<1>7. CASE Reread(w)
  BY <1>7, FinishKeepsTypes DEF Reread, TypeOK, Codes
<1>8. CASE Refresh(w)
  BY <1>8, FinishKeepsTypes DEF Refresh, TypeOK, Codes
<1>9. CASE FindMissed(w)
  BY <1>9, FinishKeepsTypes DEF FindMissed, TypeOK, Codes
<1>10. CASE FindFound(w)
  <2>1. CASE Read(w)[job[w].user].status = "cancelled"
    BY <1>10, <2>1, FinishKeepsTypes DEF FindFound, TypeOK, Codes
  <2>2. CASE Read(w)[job[w].user].status # "cancelled"
    BY <1>10, <2>2, GotoKeepsTypes DEF FindFound, TypeOK
  <2> QED BY <2>1, <2>2
<1>11. CASE Cancel(w)
  <2> DEFINE u == job[w].user
             row == [regs[u] EXCEPT !.status = "cancelled"]
  <2>1. /\ regs \in [Users -> Row]
        /\ regs' = [regs EXCEPT ![u] = row]
    BY <1>11 DEF Cancel, CancelledStatus, TypeOK
  <2>2. u \in Users => row \in Row
    BY <2>1 DEF Row, RowStatus
  <2>3. regs' \in [Users -> Row]
    <3> HIDE DEF u, row
    <3> QED BY <2>1, <2>2
  <2> QED BY <1>11, <2>3, FinishKeepsTypes DEF Cancel, TypeOK, Codes
<1> QED BY <1>1, <1>2, <1>3, <1>4, <1>5, <1>6, <1>7, <1>8, <1>9, <1>10, <1>11 DEF Proceed

\* No step of the service, the organizer's edits and stuttering included,
\* breaks a type.
LEMMA TypeOKStep == TypeOK /\ [Next]_vars => TypeOK'
<1> SUFFICES ASSUME TypeOK, [Next]_vars PROVE TypeOK'
  OBVIOUS
<1>1. ASSUME NEW w \in Workers, LockEvent(w)
      PROVE  TypeOK'
  <2>1. target' \in [Workers -> Target]
    BY <1>1 DEF LockEvent, TypeOK, Target, RowStatus
  <2> QED BY <1>1, <2>1, GotoKeepsTypes DEF LockEvent, TypeOK, Labels
<1>2. ASSUME NEW w \in Workers, Fail(w)
      PROVE  TypeOK'
  BY <1>2, FinishKeepsTypes DEF Fail, TypeOK, Codes
<1>3. ASSUME NEW c \in CapacityEdits, PatchCapacity(c)
      PROVE  TypeOK'
  BY <1>3 DEF PatchCapacity, TypeOK, Capacities, NoReply, Codes
<1>4. ASSUME NEW s \in StatusEdits, PatchStatus(s)
      PROVE  TypeOK'
  BY <1>4, EventAssumption DEF PatchStatus, TypeOK, NoReply, Codes
<1>5. CASE UNCHANGED vars
  BY <1>5 DEF vars, TypeOK
<1> QED BY <1>1, <1>2, <1>3, <1>4, <1>5, TypeOKArrive, TypeOKProceed DEF Next, Organizer

\* Every variable keeps its type, whatever the requests, edits and failures.
THEOREM TypeCorrect == Spec => []TypeOK
BY TypeOKInit, TypeOKStep, PTL DEF Spec
-----------------------------------------------------------------------------
(* Overbooking is bounded.  OverbookingBounded is not inductive: a worker that *)
(* has decided to register its attendee will do so however full the event has *)
(* become since.  What is inductive counts these workers with the rows.       *)

\* A worker that will register its attendee, unless its INSERT fails: it has
\* found room, or it will find room in the read view that it has opened.
HasDecided(w) ==
    \/ pc[w] = "insert" /\ target[w].status = "registered"
    \/ /\ SnapshotReads
       /\ pc[w] \in {"replay", "lock", "count"}
       /\ Cardinality(Active(view[w])) < seen[w]

Deciders == {w \in Workers : HasDecided(w)}

\* A request compares with a capacity that the event has or had.
SeenIsACapacity == \A w \in Workers : pc[w] # Idle => seen[w] \in Capacities

\* A request inserts no other status than these.
TargetsAreNew ==
    \A w \in Workers : target[w].status \in {"absent", "registered", "waitlisted"}

\* The rows and the decisions together stay within the bound.
RoomForDeciders ==
    \E c \in Capacities :
        Cardinality(Active(regs)) + Cardinality(Deciders) <= c - 1 + Cardinality(Workers)

BookingInv == TypeOK /\ SeenIsACapacity /\ TargetsAreNew /\ RoomForDeciders

\* The requests that have decided to take a seat, before a step and after it,
\* are as many as there are worker threads at most.
LEMMA DecidersAreFinite ==
    /\ Cardinality(Workers) \in Nat
    /\ IsFiniteSet(Deciders)  /\ Cardinality(Deciders) \in Nat
                              /\ Cardinality(Deciders) <= Cardinality(Workers)
    /\ IsFiniteSet(Deciders') /\ Cardinality(Deciders') \in Nat
                              /\ Cardinality(Deciders') <= Cardinality(Workers)
<1>1. Deciders \in SUBSET Workers /\ Deciders' \in SUBSET Workers
  BY DEF Deciders
<1>2. IsFiniteSet(Workers)
  BY WorkersAssumption
<1> QED BY <1>1, <1>2, FS_Subset, FS_CardinalityType

\* A step after which no more rows count and no more workers have decided.
LEMMA NobodyDecides ==
    ASSUME Capacities \subseteq Nat, RoomForDeciders,
           Active(regs') \subseteq Active(regs), Deciders' \subseteq Deciders
    PROVE  RoomForDeciders'
<1>1. /\ Cardinality(Active(regs')) \in Nat /\ Cardinality(Active(regs)) \in Nat
      /\ Cardinality(Active(regs')) <= Cardinality(Active(regs))
  BY ActiveIsFinite, FS_Subset
<1>2. Cardinality(Deciders') <= Cardinality(Deciders)
  BY DecidersAreFinite, FS_Subset
<1>3. PICK c \in Capacities :
        Cardinality(Active(regs)) + Cardinality(Deciders) <= c - 1 + Cardinality(Workers)
  BY DEF RoomForDeciders
<1>4. Cardinality(Active(regs')) + Cardinality(Deciders') <= c - 1 + Cardinality(Workers)
  <2> c \in Nat
    OBVIOUS
  <2> QED BY <1>1, <1>2, <1>3, DecidersAreFinite
<1>5. Active(regs)' = Active(regs')
  BY DEF Active
<1> QED BY <1>4, <1>5 DEF RoomForDeciders

\* A step in which a worker finds room: fewer rows count than the capacity it
\* compares with, and at most every worker has decided.
LEMMA SomebodyDecides ==
    ASSUME Capacities \subseteq Nat, NEW c \in Capacities, UNCHANGED regs,
           Cardinality(Active(regs)) < c
    PROVE  RoomForDeciders'
<1>1. Cardinality(Active(regs)) \in Nat /\ c \in Nat
  BY ActiveIsFinite
<1>2. Cardinality(Active(regs)) + Cardinality(Deciders') <= c - 1 + Cardinality(Workers)
  BY <1>1, DecidersAreFinite
<1>3. Active(regs)' = Active(regs)
  BY DEF Active
<1> QED BY <1>2, <1>3 DEF RoomForDeciders

\* A step in which a worker that has decided adds its row.
LEMMA SomebodyInserts ==
    ASSUME Capacities \subseteq Nat, RoomForDeciders, NEW u, NEW w \in Deciders,
           Active(regs') \subseteq Active(regs) \cup {u},
           Deciders' \subseteq Deciders \ {w}
    PROVE  RoomForDeciders'
<1>1. Cardinality(Active(regs')) <= Cardinality(Active(regs)) + 1
  <2>1. /\ IsFiniteSet(Active(regs) \cup {u})
        /\ Cardinality(Active(regs) \cup {u}) <= Cardinality(Active(regs)) + 1
        /\ Cardinality(Active(regs) \cup {u}) \in Nat
    <3>1. IsFiniteSet(Active(regs)) /\ Cardinality(Active(regs)) \in Nat
      BY ActiveIsFinite
    <3>2. /\ IsFiniteSet(Active(regs) \cup {u})
          /\ \/ Cardinality(Active(regs) \cup {u}) = Cardinality(Active(regs))
             \/ Cardinality(Active(regs) \cup {u}) = Cardinality(Active(regs)) + 1
      BY <3>1, FS_AddElement
    <3> QED BY <3>1, <3>2
  <2> QED BY <2>1, ActiveIsFinite, FS_Subset
<1>2. Cardinality(Deciders') <= Cardinality(Deciders) - 1
  <2>1. /\ IsFiniteSet(Deciders \ {w})
        /\ Cardinality(Deciders \ {w}) = Cardinality(Deciders) - 1
    BY DecidersAreFinite, FS_RemoveElement
  <2> QED BY <2>1, FS_Subset
<1>3. PICK c \in Capacities :
        Cardinality(Active(regs)) + Cardinality(Deciders) <= c - 1 + Cardinality(Workers)
  BY DEF RoomForDeciders
<1>4. Cardinality(Active(regs')) + Cardinality(Deciders') <= c - 1 + Cardinality(Workers)
  <2> c \in Nat
    OBVIOUS
  <2> QED BY <1>1, <1>2, <1>3, DecidersAreFinite, ActiveIsFinite
<1>5. Active(regs)' = Active(regs')
  BY DEF Active
<1> QED BY <1>4, <1>5 DEF RoomForDeciders

\* The end of a handler takes back the decision of its worker.
LEMMA FinishDecidesNothing ==
    ASSUME TypeOK, NEW w \in Workers, NEW code, NEW row, Finish(w, code, row)
    PROVE  /\ Deciders' \subseteq Deciders \ {w}
           /\ SeenIsACapacity => SeenIsACapacity'
           /\ TargetsAreNew => TargetsAreNew'
<1>1. \A v \in Workers :
        /\ v # w => /\ pc'[v] = pc[v] /\ target'[v] = target[v]
                    /\ seen'[v] = seen[v] /\ view'[v] = view[v]
        /\ v = w => pc'[v] = Idle /\ target'[v] = NoTarget
  BY DEF TypeOK, Finish
<1>2. \A v \in Workers : HasDecided(v)' => HasDecided(v) /\ v # w
  BY <1>1 DEF HasDecided, Active, Idle
<1>3. Deciders' \subseteq Deciders \ {w}
  BY <1>2 DEF Deciders
<1>4. SeenIsACapacity => SeenIsACapacity'
  BY <1>1 DEF SeenIsACapacity
<1>5. TargetsAreNew => TargetsAreNew'
  BY <1>1 DEF TargetsAreNew, NoTarget
<1> QED BY <1>3, <1>4, <1>5

\* Before the first request nobody has decided and every seat is free.
LEMMA BookingInvInit ==
    ASSUME Unlimited \notin Capacities, Workers # {}, Init
    PROVE  BookingInv
<1>1. TypeOK /\ SeenIsACapacity /\ TargetsAreNew
  BY TypeOKInit DEF Init, SeenIsACapacity, TargetsAreNew, NoTarget
<1>2. Active(regs) = {} /\ Deciders = {}
  BY DEF Init, Active, EmptyTable, NoRow, Deciders, HasDecided, Idle
<1>3. Capacity \in Capacities /\ Capacity \in Nat \ {0}
  BY EventAssumption DEF Capacities
<1>4. Cardinality(Workers) \in Nat
  BY WorkersAssumption, FS_CardinalityType
<1>5. Cardinality(Active(regs)) + Cardinality(Deciders) <= Capacity - 1 + Cardinality(Workers)
  BY <1>2, <1>3, <1>4, FS_EmptySet
<1>6. RoomForDeciders
  BY <1>3, <1>5 DEF RoomForDeciders
<1> QED BY <1>1, <1>6 DEF BookingInv

\* A request that arrives has decided nothing: the seats taken and promised
\* stay within one overbooking per worker.
LEMMA BookingInvArrive ==
    ASSUME Capacities \subseteq Nat, BookingInv, NEW w \in Workers, Arrive(w)
    PROVE  SeenIsACapacity' /\ TargetsAreNew' /\ RoomForDeciders'
<1> USE DEF BookingInv
<1>1. ASSUME NEW code, Refuse(w, code)
      PROVE  SeenIsACapacity' /\ TargetsAreNew' /\ RoomForDeciders'
  BY <1>1, FinishDecidesNothing, NobodyDecides DEF Refuse
<1>2. ASSUME NEW u, NEW k, NEW label \in Labels, Receive(w, u, k), Goto(w, label),
             UNCHANGED <<event, regs, target>>,
             label \in {"find", "lock", "replay"}
      PROVE  SeenIsACapacity' /\ TargetsAreNew' /\ RoomForDeciders'
  <2>1. \A v \in Workers :
          /\ v # w => /\ pc'[v] = pc[v] /\ seen'[v] = seen[v] /\ view'[v] = view[v]
          /\ v = w => pc'[v] = label /\ seen'[v] = event.capacity /\ view'[v] = OpenView
    BY <1>2 DEF TypeOK, Receive, Goto
  <2>2. event.capacity \in Capacities
    BY DEF TypeOK
  <2>3. SeenIsACapacity' /\ TargetsAreNew'
    BY <1>2, <2>1, <2>2 DEF SeenIsACapacity, TargetsAreNew
  <2>4. RoomForDeciders'
    <3>1. CASE Cardinality(Active(regs)) < event.capacity
      BY <1>2, <2>2, <3>1, SomebodyDecides
    <3>2. CASE ~ Cardinality(Active(regs)) < event.capacity
      <4>1. \A v \in Workers : HasDecided(v)' => HasDecided(v)
        BY <1>2, <2>1, <3>2 DEF HasDecided, OpenView, Active
      <4>2. Deciders' \subseteq Deciders
        BY <4>1 DEF Deciders
      <4> QED BY <1>2, <4>2, NobodyDecides
    <3> QED BY <3>1, <3>2
  <2> QED BY <2>3, <2>4
<1>3. CASE RefuseClosed(w)
  BY <1>1, <1>3 DEF RefuseClosed
<1>4. CASE \E u \in Users : RefuseIneligible(w, u)
  BY <1>1, <1>4 DEF RefuseIneligible
<1>5. CASE \E u \in Users, k \in Keys \cup {NoKey} : StartRegister(w, u, k)
  BY <1>2, <1>5 DEF StartRegister, Labels
<1>6. CASE \E u \in Users : StartCancel(w, u)
  BY <1>2, <1>6 DEF StartCancel, Labels
<1> QED BY <1>3, <1>4, <1>5, <1>6 DEF Arrive

\* A step of a handler that writes neither rows nor the session's reads, and
\* after which its worker has decided only if it had decided before.
LEMMA GotoDecidesNothing ==
    ASSUME TypeOK, NEW w \in Workers, NEW label, Goto(w, label),
           UNCHANGED <<seen, view>>,
           \A v \in Workers \ {w} : target'[v] = target[v],
           HasDecided(w)' => HasDecided(w)
    PROVE  Deciders' \subseteq Deciders
<1>1. \A v \in Workers \ {w} : pc'[v] = pc[v]
  BY DEF TypeOK, Goto
<1>2. \A v \in Workers : HasDecided(v)' => HasDecided(v)
  BY <1>1 DEF HasDecided, Active
<1> QED BY <1>2 DEF Deciders

\* The bound on the seats taken and promised survives the statements of a
\* handler; the decision, which counts in the session's own read view, is the hard case.
LEMMA BookingInvProceed ==
    ASSUME Capacities \subseteq Nat, BookingInv, NEW w \in Workers, Proceed(w)
    PROVE  SeenIsACapacity' /\ TargetsAreNew' /\ RoomForDeciders'
<1> USE DEF BookingInv
<1>1. ASSUME NEW code, NEW row, Finish(w, code, row), Active(regs') \subseteq Active(regs)
      PROVE  SeenIsACapacity' /\ TargetsAreNew' /\ RoomForDeciders'
  BY <1>1, FinishDecidesNothing, NobodyDecides
<1>2. ASSUME NEW label, Goto(w, label), pc[w] # Idle, UNCHANGED <<seen, target>>
      PROVE  SeenIsACapacity' /\ TargetsAreNew'
  BY <1>2 DEF TypeOK, Goto, SeenIsACapacity, TargetsAreNew
<1>3. CASE ReplayFound(w)
  BY <1>1, <1>3 DEF ReplayFound
<1>4. CASE ReplayMissed(w)
  <2>1. HasDecided(w)' => HasDecided(w)
    BY <1>4 DEF ReplayMissed, Goto, HasDecided, Active, TypeOK
  <2>2. Deciders' \subseteq Deciders
    BY <1>4, <2>1, GotoDecidesNothing DEF ReplayMissed
  <2> QED BY <1>2, <1>4, <2>2, NobodyDecides DEF ReplayMissed, Idle
<1>5. CASE CountActive(w)
  <2>1. CASE IsFull(w)
    <3>1. HasDecided(w)' => HasDecided(w)
      BY <1>5, <2>1 DEF CountActive, Goto, HasDecided, TypeOK
    <3>2. Deciders' \subseteq Deciders
      BY <1>5, <2>1, <3>1, GotoDecidesNothing DEF CountActive
    <3> QED BY <1>2, <1>5, <3>2, NobodyDecides DEF CountActive, Idle
  <2>2. CASE ~ IsFull(w) /\ SnapshotReads
    <3>1. seen[w] \in Nat /\ Cardinality(Active(view[w])) \in Nat
      BY <1>5, ActiveIsFinite DEF CountActive, SeenIsACapacity, Idle
    <3>2. HasDecided(w)
      BY <1>5, <2>2, <3>1 DEF CountActive, IsFull, Read, HasDecided
    <3>3. Deciders' \subseteq Deciders
      BY <1>5, <2>2, <3>2, GotoDecidesNothing DEF CountActive
    <3> QED BY <1>2, <1>5, <3>3, NobodyDecides DEF CountActive, Idle
  <2>3. CASE ~ IsFull(w) /\ ~ SnapshotReads
    <3>1. seen[w] \in Capacities /\ seen[w] \in Nat /\ Cardinality(Active(regs)) \in Nat
      BY <1>5, ActiveIsFinite DEF CountActive, SeenIsACapacity, Idle
    <3>2. Cardinality(Active(regs)) < seen[w]
      BY <2>3, <3>1 DEF IsFull, Read
    <3> QED BY <1>2, <1>5, <3>1, <3>2, SomebodyDecides DEF CountActive, Idle
  <2> QED BY <2>1, <2>2, <2>3
<1>6. CASE TakePosition(w)
  <2>1. \A v \in Workers : IF v = w THEN target'[v].status = "waitlisted"
                                    ELSE target'[v] = target[v]
    BY <1>6 DEF TakePosition, TypeOK
  <2>2. pc' = [pc EXCEPT ![w] = "insert"]
    BY <1>6 DEF TakePosition, Goto
  <2>3. Deciders' \subseteq Deciders
    <3>1. HasDecided(w)' => HasDecided(w)
      BY <2>1, <2>2 DEF HasDecided, TypeOK
    <3> QED BY <1>6, <2>1, <3>1, GotoDecidesNothing DEF TakePosition
  <2>4. TargetsAreNew'
    BY <2>1 DEF TargetsAreNew
  <2>5. SeenIsACapacity'
    BY <1>6, <2>2 DEF TakePosition, TypeOK, SeenIsACapacity, Idle
  <2> QED BY <1>6, <2>3, <2>4, <2>5, NobodyDecides DEF TakePosition
<1>7. CASE InsertRow(w)
  <2>1. SeenIsACapacity' /\ TargetsAreNew'
    BY <1>2, <1>7 DEF InsertRow, Idle
  <2>2. ~ HasDecided(w)'
    BY <1>7 DEF InsertRow, Goto, HasDecided, TypeOK
  <2>3. Deciders' \subseteq Deciders \ {w}
    <3>1. Deciders' \subseteq Deciders
      BY <1>7, <2>2, GotoDecidesNothing DEF InsertRow
    <3> QED BY <2>2, <3>1 DEF Deciders
  <2>4. \A u \in Users : IF u = job[w].user THEN regs'[u].status = target[w].status
                                            ELSE regs'[u] = regs[u]
    BY <1>7 DEF InsertRow, TypeOK
  <2>5. CASE target[w].status = "registered"
    <3>1. w \in Deciders
      BY <1>7, <2>5 DEF InsertRow, Deciders, HasDecided
    <3>2. Active(regs') \subseteq Active(regs) \cup {job[w].user}
      BY <2>4 DEF Active
    <3> QED BY <2>1, <2>3, <3>1, <3>2, SomebodyInserts
  <2>6. CASE target[w].status # "registered"
    <3>1. Active(regs') \subseteq Active(regs)
      BY <2>4, <2>6 DEF Active, TargetsAreNew
    <3> QED BY <2>1, <2>3, <3>1, NobodyDecides
  <2> QED BY <2>5, <2>6
<1>8. CASE InsertFails(w)
  <2>1. HasDecided(w)' => HasDecided(w)
    BY <1>8 DEF InsertFails, Goto, HasDecided, TypeOK
  <2>2. Deciders' \subseteq Deciders
    BY <1>8, <2>1, GotoDecidesNothing DEF InsertFails
  <2> QED BY <1>2, <1>8, <2>2, NobodyDecides DEF InsertFails, Idle
<1>9. CASE Reread(w)
  BY <1>1, <1>9 DEF Reread
<1>10. CASE Refresh(w)
  BY <1>1, <1>10 DEF Refresh
<1>11. CASE FindMissed(w)
  BY <1>1, <1>11 DEF FindMissed
<1>12. CASE FindFound(w)
  <2>1. CASE Read(w)[job[w].user].status = "cancelled"
    BY <1>1, <1>12, <2>1 DEF FindFound
  <2>2. CASE Read(w)[job[w].user].status # "cancelled"
    <3>1. Goto(w, "cancel") /\ UNCHANGED <<regs, seen, view, target>> /\ pc[w] # Idle
      BY <1>12, <2>2 DEF FindFound, Idle
    <3>2. ~ HasDecided(w)'
      BY <3>1 DEF Goto, HasDecided, TypeOK
    <3>3. Deciders' \subseteq Deciders
      BY <3>1, <3>2, GotoDecidesNothing
    <3> QED BY <1>2, <3>1, <3>3, NobodyDecides
  <2> QED BY <2>1, <2>2
<1>13. CASE Cancel(w)
  <2>1. \A u \in Users : IF u = job[w].user THEN regs'[u].status = "cancelled"
                                            ELSE regs'[u] = regs[u]
    BY <1>13 DEF Cancel, CancelledStatus, TypeOK, Row
  <2>2. Active(regs') \subseteq Active(regs)
    BY <2>1 DEF Active
  <2> QED BY <1>1, <1>13, <2>2 DEF Cancel
<1> QED BY <1>3, <1>4, <1>5, <1>6, <1>7, <1>8, <1>9, <1>10, <1>11, <1>12, <1>13 DEF Proceed

\* The bookings' invariant is inductive: no step of the service breaks it.
LEMMA BookingInvStep ==
    ASSUME Unlimited \notin Capacities, BookingInv, [Next]_vars
    PROVE  BookingInv'
<1>1. Capacities \subseteq Nat
  BY EventAssumption
<1>2. TypeOK'
  BY TypeOKStep DEF BookingInv
<1>3. ASSUME NEW w \in Workers, LockEvent(w)
      PROVE  SeenIsACapacity' /\ TargetsAreNew' /\ RoomForDeciders'
  <2>1. seen[w] # Unlimited
    BY <1>3 DEF LockEvent, BookingInv, SeenIsACapacity, Idle
  <2>2. Goto(w, "count") /\ UNCHANGED <<regs, seen, view>> /\ pc[w] = "lock"
    BY <1>3, <2>1 DEF LockEvent
  <2>3. \A v \in Workers : IF v = w THEN target'[v].status = "registered"
                                    ELSE target'[v] = target[v]
    BY <1>3 DEF LockEvent, BookingInv, TypeOK
  <2>4. HasDecided(w)' => HasDecided(w)
    BY <2>2 DEF Goto, HasDecided, Active, BookingInv, TypeOK
  <2>5. RoomForDeciders'
    BY <1>1, <2>2, <2>3, <2>4, GotoDecidesNothing, NobodyDecides DEF BookingInv
  <2>6. SeenIsACapacity'
    BY <2>2 DEF Goto, BookingInv, SeenIsACapacity, TypeOK, Idle
  <2>7. TargetsAreNew'
    BY <2>3 DEF BookingInv, TargetsAreNew
  <2> QED BY <2>5, <2>6, <2>7
<1>4. ASSUME NEW w \in Workers, Fail(w)
      PROVE  SeenIsACapacity' /\ TargetsAreNew' /\ RoomForDeciders'
  BY <1>1, <1>4, FinishDecidesNothing, NobodyDecides DEF Fail, BookingInv
<1>5. CASE UNCHANGED <<regs, pc, seen, view, target>>
  <2>1. Deciders' = Deciders /\ Active(regs') = Active(regs)
    BY <1>5 DEF Deciders, HasDecided, Active
  <2>2. SeenIsACapacity' /\ TargetsAreNew'
    BY <1>5 DEF BookingInv, SeenIsACapacity, TargetsAreNew
  <2> QED BY <1>1, <1>2, <2>1, <2>2, NobodyDecides DEF BookingInv
<1>6. CASE Organizer
  BY <1>5, <1>6 DEF Organizer, PatchCapacity, PatchStatus
<1>7. CASE UNCHANGED vars
  BY <1>5, <1>7 DEF vars
<1> QED
  BY <1>1, <1>2, <1>3, <1>4, <1>6, <1>7, BookingInvArrive, BookingInvProceed
     DEF Next, BookingInv

\* What the invariant says of the rows alone: overbooking is less than one
\* row per worker thread.
LEMMA BookingInvBounds ==
    ASSUME BookingInv
    PROVE  OverbookingBounded
<1> SUFFICES ASSUME Unlimited \notin Capacities
             PROVE  \E c \in Capacities :
                      Cardinality(Active(regs)) <= c + Cardinality(Workers) - 1
  BY DEF OverbookingBounded
<1>1. PICK c \in Capacities :
        Cardinality(Active(regs)) + Cardinality(Deciders) <= c - 1 + Cardinality(Workers)
  BY DEF BookingInv, RoomForDeciders
<1>2. c \in Nat
  BY EventAssumption
<1> QED BY <1>1, <1>2, ActiveIsFinite, DecidersAreFinite

\* However stale the counts that its requests act on, an event with a capacity
\* is overbooked by less than one row per worker thread over some capacity that
\* it may have had (registrations.py 249-292).
THEOREM OverbookingIsBounded ==
    ASSUME Workers # {}
    PROVE  Spec => []OverbookingBounded
<1>1. CASE Unlimited \in Capacities
  <2>1. OverbookingBounded
    BY <1>1 DEF OverbookingBounded
  <2> QED BY <2>1, PTL
<1>2. CASE Unlimited \notin Capacities
  <2>1. Init => BookingInv
    BY <1>2, BookingInvInit
  <2>2. BookingInv /\ [Next]_vars => BookingInv'
    BY <1>2, BookingInvStep
  <2>3. BookingInv => OverbookingBounded
    BY BookingInvBounds
  <2> QED BY <2>1, <2>2, <2>3, PTL DEF Spec
<1> QED BY <1>1, <1>2
-----------------------------------------------------------------------------
(* Capacity.  A request that reads committed rows decides under the lock, and *)
(* nobody else can add a row before it commits: what it decided still stands. *)

\* Between the SELECT ... FOR UPDATE and the end of its transaction, a worker
\* holds the lock (registrations.py 249-292).
LockHeld ==
    \A w \in Workers : pc[w] \in {"count", "position", "insert"} => lock = w

\* Nobody edits the capacity, so every request compares with the event's own.
OneCapacity ==
    /\ event.capacity = Capacity
    /\ \A w \in Workers : pc[w] # Idle => seen[w] = Capacity

\* A worker that is about to insert a registered row still has room for it.
DecisionStands ==
    \A w \in Workers :
        pc[w] = "insert" /\ target[w].status = "registered" =>
            Cardinality(Active(regs)) < Capacity

SeatsSafe ==
    /\ TargetsAreNew
    /\ LockHeld
    /\ OneCapacity
    /\ DecisionStands
    /\ Cardinality(Active(regs)) <= Capacity

CapacityInv == TypeOK /\ SeatsSafe

\* A step that adds no row that counts, and in which no worker decides.
LEMMA DecisionsStillStand ==
    ASSUME Capacity \in Nat, CapacityInv, Active(regs') \subseteq Active(regs),
           \A w \in Workers :
               (pc[w] = "insert" /\ target[w].status = "registered")'
                   => pc[w] = "insert" /\ target[w].status = "registered"
    PROVE  DecisionStands' /\ (Cardinality(Active(regs)) <= Capacity)'
<1>1. /\ Cardinality(Active(regs')) \in Nat /\ Cardinality(Active(regs)) \in Nat
      /\ Cardinality(Active(regs')) <= Cardinality(Active(regs))
  BY ActiveIsFinite, FS_Subset
<1>2. Active(regs)' = Active(regs')
  BY DEF Active
<1> QED BY <1>1, <1>2 DEF CapacityInv, SeatsSafe, DecisionStands

\* The end of a handler that adds no row.
LEMMA FinishKeepsCapacity ==
    ASSUME Capacity \in Nat, CapacityInv, NEW w \in Workers, NEW code, NEW row,
           Finish(w, code, row), UNCHANGED event, Active(regs') \subseteq Active(regs)
    PROVE  SeatsSafe'
<1>1. \A v \in Workers :
        /\ v # w => /\ pc'[v] = pc[v] /\ target'[v] = target[v] /\ seen'[v] = seen[v]
        /\ v = w => pc'[v] = Idle /\ target'[v] = NoTarget
  BY DEF CapacityInv, TypeOK, Finish
<1>2. TargetsAreNew' /\ OneCapacity'
  BY <1>1 DEF CapacityInv, SeatsSafe, TargetsAreNew, OneCapacity, NoTarget
<1>3. LockHeld'
  BY <1>1 DEF CapacityInv, SeatsSafe, LockHeld, Finish, Idle
<1>4. \A v \in Workers :
        (pc[v] = "insert" /\ target[v].status = "registered")'
            => pc[v] = "insert" /\ target[v].status = "registered"
  BY <1>1 DEF Idle
<1> QED BY <1>2, <1>3, <1>4, DecisionsStillStand DEF SeatsSafe

\* A step within a handler that adds no row and decides nothing.
LEMMA GotoKeepsCapacity ==
    ASSUME Capacity \in Nat, CapacityInv, NEW w \in Workers, NEW label, Goto(w, label),
           label # Idle, UNCHANGED <<event, regs>>,
           \A v \in Workers \ {w} : target'[v] = target[v] /\ seen'[v] = seen[v],
           target'[w].status \in {"absent", "registered", "waitlisted"},
           seen'[w] = Capacity,
           label = "insert" => target'[w].status # "registered",
           \/ lock' = lock /\ (label \in {"count", "position", "insert"} => lock = w)
           \/ lock' = w /\ lock = NoWorker
           \/ lock' = NoWorker /\ lock = w /\ label \notin {"count", "position", "insert"}
    PROVE  SeatsSafe'
<1>1. \A v \in Workers : IF v = w THEN pc'[v] = label ELSE pc'[v] = pc[v]
  BY DEF CapacityInv, TypeOK, Goto
<1>2. TargetsAreNew' /\ OneCapacity'
  BY <1>1 DEF CapacityInv, SeatsSafe, TargetsAreNew, OneCapacity
<1>3. LockHeld'
  BY <1>1, WorkersAssumption DEF CapacityInv, SeatsSafe, LockHeld
<1>4. \A v \in Workers :
        (pc[v] = "insert" /\ target[v].status = "registered")'
            => pc[v] = "insert" /\ target[v].status = "registered"
  BY <1>1
<1> QED BY <1>2, <1>3, <1>4, DecisionsStillStand DEF SeatsSafe

\* Without snapshot reads: a request that arrives takes no seat and promises none.
LEMMA CapacityInvArrive ==
    ASSUME Capacity \in Nat, CapacityInv, NEW w \in Workers, Arrive(w)
    PROVE  SeatsSafe'
<1>1. ASSUME NEW code, Refuse(w, code)
      PROVE  SeatsSafe'
  BY <1>1, FinishKeepsCapacity DEF Refuse
<1>2. ASSUME NEW u, NEW k, NEW label, Receive(w, u, k), Goto(w, label),
             UNCHANGED <<event, regs, lock, target>>, label \in {"find", "lock", "replay"}
      PROVE  SeatsSafe'
  <2>1. \A v \in Workers : IF v = w THEN seen'[v] = Capacity ELSE seen'[v] = seen[v]
    BY <1>2 DEF CapacityInv, SeatsSafe, OneCapacity, TypeOK, Receive
  <2>2. \A v \in Workers : target'[v].status \in {"absent", "registered", "waitlisted"}
    BY <1>2 DEF CapacityInv, SeatsSafe, TargetsAreNew
  <2> QED BY <1>2, <2>1, <2>2, GotoKeepsCapacity DEF Idle
<1>3. CASE RefuseClosed(w)
  BY <1>1, <1>3 DEF RefuseClosed
<1>4. CASE \E u \in Users : RefuseIneligible(w, u)
  BY <1>1, <1>4 DEF RefuseIneligible
<1>5. CASE \E u \in Users, k \in Keys \cup {NoKey} : StartRegister(w, u, k)
  BY <1>2, <1>5 DEF StartRegister
<1>6. CASE \E u \in Users : StartCancel(w, u)
  BY <1>2, <1>6 DEF StartCancel
<1> QED BY <1>3, <1>4, <1>5, <1>6 DEF Arrive

\* Without snapshot reads: the decision counts every committed row under the
\* lock, so the seats taken and the one promised stay within the capacity.
LEMMA CapacityInvProceed ==
    ASSUME Capacity \in Nat, ~ SnapshotReads, CapacityInv, NEW w \in Workers, Proceed(w)
    PROVE  SeatsSafe'
<1>1. ASSUME NEW code, NEW row, Finish(w, code, row), UNCHANGED event,
             Active(regs') \subseteq Active(regs)
      PROVE  SeatsSafe'
  BY <1>1, FinishKeepsCapacity
<1>2. ASSUME NEW label, Goto(w, label), label # Idle, label # "insert", pc[w] # Idle,
             UNCHANGED <<event, regs, seen, target>>,
             \/ lock' = lock /\ (label \in {"count", "position"} => lock = w)
             \/ lock' = NoWorker /\ lock = w /\ label \notin {"count", "position"}
      PROVE  SeatsSafe'
  <2>1. seen'[w] = Capacity /\ target'[w].status \in {"absent", "registered", "waitlisted"}
    BY <1>2 DEF CapacityInv, SeatsSafe, OneCapacity, TargetsAreNew
  <2> QED BY <1>2, <2>1, GotoKeepsCapacity
<1>3. CASE ReplayFound(w)
  BY <1>1, <1>3 DEF ReplayFound
<1>4. CASE ReplayMissed(w)
  BY <1>2, <1>4 DEF ReplayMissed, Idle
<1>5. CASE CountActive(w)
  <2>1. lock = w
    BY <1>5 DEF CountActive, CapacityInv, SeatsSafe, LockHeld
  <2>2. CASE IsFull(w)
    BY <1>2, <1>5, <2>1, <2>2 DEF CountActive, Idle
  <2>3. CASE ~ IsFull(w)
    <3>1. Cardinality(Active(regs)) < Capacity
      <4>1. seen[w] = Capacity /\ Cardinality(Active(regs)) \in Nat
        BY <1>5, ActiveIsFinite DEF CountActive, CapacityInv, SeatsSafe, OneCapacity, Idle
      <4> QED BY <2>3, <4>1 DEF IsFull, Read
    <3>2. /\ pc' = [pc EXCEPT ![w] = "insert"]
          /\ UNCHANGED <<event, regs, lock, seen, target>>
      BY <1>5, <2>3 DEF CountActive, Goto
    <3>3. TargetsAreNew' /\ OneCapacity'
      BY <1>5, <3>2 DEF CountActive, CapacityInv, SeatsSafe, TypeOK, TargetsAreNew, OneCapacity, Idle
    <3>4. LockHeld'
      BY <2>1, <3>2 DEF CapacityInv, SeatsSafe, TypeOK, LockHeld
    <3>5. DecisionStands' /\ (Cardinality(Active(regs)) <= Capacity)'
      BY <3>1, <3>2, ActiveIsFinite DEF DecisionStands, Active
    <3> QED BY <3>3, <3>4, <3>5 DEF SeatsSafe
  <2> QED BY <2>2, <2>3
<1>6. CASE TakePosition(w)
  <2>1. \A v \in Workers : IF v = w THEN target'[v].status = "waitlisted"
                                    ELSE target'[v] = target[v]
    BY <1>6 DEF TakePosition, CapacityInv, TypeOK
  <2>2. lock = w /\ seen[w] = Capacity
    BY <1>6 DEF TakePosition, CapacityInv, SeatsSafe, LockHeld, OneCapacity, Idle
  <2>3. Goto(w, "insert") /\ UNCHANGED <<event, regs, lock, seen>>
    BY <1>6 DEF TakePosition
  <2> QED BY <2>1, <2>2, <2>3, GotoKeepsCapacity DEF SeatsSafe, Idle
<1>7. CASE InsertRow(w)
  <2>1. lock = w /\ lock' = NoWorker
    BY <1>7 DEF InsertRow, CapacityInv, SeatsSafe, LockHeld
  <2>2. \A v \in Workers : IF v = w THEN pc'[v] = "refresh" ELSE pc'[v] = pc[v]
    BY <1>7 DEF InsertRow, Goto, CapacityInv, TypeOK
  <2>3. \A v \in Workers : pc'[v] \notin {"count", "position", "insert"}
    BY <2>1, <2>2 DEF CapacityInv, SeatsSafe, LockHeld
  <2>4. LockHeld' /\ DecisionStands'
    BY <2>3 DEF LockHeld, DecisionStands
  <2>5. TargetsAreNew' /\ OneCapacity'
    BY <1>7, <2>2 DEF InsertRow, CapacityInv, SeatsSafe, TargetsAreNew, OneCapacity, Idle
  <2>6. (Cardinality(Active(regs)) <= Capacity)'
    <3>1. \A u \in Users : IF u = job[w].user THEN regs'[u].status = target[w].status
                                              ELSE regs'[u] = regs[u]
      BY <1>7 DEF InsertRow, CapacityInv, TypeOK
    <3>2. CASE target[w].status = "registered"
      <4> DEFINE After == Active(regs) \cup {job[w].user}
      <4>1. Active(regs') \subseteq After
        BY <3>1 DEF Active
      <4>2. /\ IsFiniteSet(Active(regs)) /\ Cardinality(Active(regs)) \in Nat
            /\ Cardinality(Active(regs)) < Capacity
        BY <1>7, <3>2, ActiveIsFinite DEF InsertRow, CapacityInv, SeatsSafe, DecisionStands
      <4>3. /\ IsFiniteSet(After)
            /\ \/ Cardinality(After) = Cardinality(Active(regs))
               \/ Cardinality(After) = Cardinality(Active(regs)) + 1
        BY <4>2, FS_AddElement
      <4>4. Cardinality(Active(regs')) <= Cardinality(After) /\ Cardinality(Active(regs')) \in Nat
        <5> HIDE DEF After
        <5> QED BY <4>1, <4>3, FS_Subset, ActiveIsFinite
      <4>5. Cardinality(Active(regs')) <= Capacity
        <5> HIDE DEF After
        <5> QED BY <4>2, <4>3, <4>4
      <4> QED BY <4>5 DEF Active
    <3>3. CASE target[w].status # "registered"
      <4>1. Active(regs') \subseteq Active(regs)
        BY <3>1, <3>3 DEF Active, CapacityInv, SeatsSafe, TargetsAreNew
      <4>2. Cardinality(Active(regs')) <= Capacity
        BY <4>1, ActiveIsFinite, FS_Subset DEF CapacityInv, SeatsSafe
      <4> QED BY <4>2 DEF Active
    <3> QED BY <3>2, <3>3
  <2> QED BY <2>4, <2>5, <2>6 DEF SeatsSafe
<1>8. CASE InsertFails(w)
  <2>1. lock = w
    BY <1>8 DEF InsertFails, CapacityInv, SeatsSafe, LockHeld
  <2> QED BY <1>2, <1>8, <2>1 DEF InsertFails, Idle
<1>9. CASE Reread(w)
  BY <1>1, <1>9 DEF Reread
<1>10. CASE Refresh(w)
  BY <1>1, <1>10 DEF Refresh
<1>11. CASE FindMissed(w)
  BY <1>1, <1>11 DEF FindMissed
<1>12. CASE FindFound(w)
  <2>1. CASE Read(w)[job[w].user].status = "cancelled"
    BY <1>1, <1>12, <2>1 DEF FindFound
  <2>2. CASE Read(w)[job[w].user].status # "cancelled"
    BY <1>2, <1>12, <2>2 DEF FindFound, Idle
  <2> QED BY <2>1, <2>2
<1>13. CASE Cancel(w)
  <2>1. \A u \in Users : IF u = job[w].user THEN regs'[u].status = "cancelled"
                                            ELSE regs'[u] = regs[u]
    BY <1>13 DEF Cancel, CancelledStatus, CapacityInv, TypeOK, Row
  <2>2. Active(regs') \subseteq Active(regs)
    BY <2>1 DEF Active
  <2> QED BY <1>1, <1>13, <2>2 DEF Cancel
<1> QED BY <1>3, <1>4, <1>5, <1>6, <1>7, <1>8, <1>9, <1>10, <1>11, <1>12, <1>13 DEF Proceed

\* Without snapshot reads, and with the capacity unedited, the seats' invariant
\* is inductive.
LEMMA CapacityInvStep ==
    ASSUME Capacity \in Nat, ~ SnapshotReads, CapacityEdits = {}, CapacityInv, [Next]_vars
    PROVE  CapacityInv'
<1>1. TypeOK'
  BY TypeOKStep DEF CapacityInv
<1>2. ASSUME NEW w \in Workers, LockEvent(w)
      PROVE  SeatsSafe'
  <2>1. /\ Goto(w, "count") /\ lock = NoWorker /\ lock' = w /\ seen[w] = Capacity
        /\ UNCHANGED <<event, regs, seen>>
    BY <1>2, EventAssumption DEF LockEvent, CanLock, CapacityInv, SeatsSafe, OneCapacity, Idle
  <2>2. \A v \in Workers : IF v = w THEN target'[v].status = "registered"
                                    ELSE target'[v] = target[v]
    BY <1>2 DEF LockEvent, CapacityInv, TypeOK
  <2> QED BY <2>1, <2>2, GotoKeepsCapacity DEF Idle
<1>3. ASSUME NEW w \in Workers, Fail(w)
      PROVE  SeatsSafe'
  BY <1>3, FinishKeepsCapacity DEF Fail
<1>4. ASSUME UNCHANGED <<event.capacity, regs, lock, pc, seen, target>>
      PROVE  SeatsSafe'
  BY <1>4 DEF CapacityInv, SeatsSafe, TargetsAreNew, LockHeld, OneCapacity, DecisionStands, Active
<1>5. ASSUME Organizer
      PROVE  SeatsSafe'
  BY <1>4, <1>5 DEF Organizer, PatchStatus, CapacityInv, SeatsSafe, TypeOK
<1>6. ASSUME UNCHANGED vars
      PROVE  SeatsSafe'
  BY <1>4, <1>6 DEF vars
<1>7. SeatsSafe'
  BY <1>2, <1>3, <1>5, <1>6, CapacityInvArrive, CapacityInvProceed DEF Next
<1> QED BY <1>1, <1>7 DEF CapacityInv

\* The seats' invariant holds in every state.
LEMMA CapacityInvAlways ==
    ASSUME Capacity \in Nat, ~ SnapshotReads, CapacityEdits = {}
    PROVE  Spec => []CapacityInv
<1>1. Init => CapacityInv
  <2> SUFFICES ASSUME Init PROVE CapacityInv
    OBVIOUS
  <2>1. Active(regs) = {}
    BY DEF Init, Active, EmptyTable, NoRow
  <2>2. Cardinality(Active(regs)) <= Capacity
    BY <2>1, FS_EmptySet
  <2>3. TargetsAreNew /\ LockHeld /\ OneCapacity /\ DecisionStands
    BY DEF Init, TargetsAreNew, LockHeld, OneCapacity, DecisionStands, NoTarget, Idle
  <2> QED BY <2>2, <2>3, TypeOKInit DEF CapacityInv, SeatsSafe
<1>2. CapacityInv /\ [Next]_vars => CapacityInv'
  BY CapacityInvStep
<1> QED BY <1>1, <1>2, PTL DEF Spec

\* Under READ COMMITTED, and while nobody edits the capacity, the event is
\* never over its capacity: the window that the lock opens is one request's
\* alone (registrations.py 223-292).
THEOREM CapacityIsRespected ==
    ASSUME ~ SnapshotReads, CapacityEdits = {}
    PROVE  Spec => []CapacityRespected
<1>1. CASE Capacity = Unlimited
  <2>1. TypeOK => CapacityRespected
    BY <1>1 DEF TypeOK, Capacities, CapacityRespected
  <2> QED BY <2>1, TypeCorrect, PTL
<1>2. CASE Capacity # Unlimited
  <2>1. Capacity \in Nat
    BY <1>2, EventAssumption DEF Capacities
  <2>2. CapacityInv => CapacityRespected
    BY DEF CapacityInv, SeatsSafe, OneCapacity, CapacityRespected
  <2> QED BY <2>1, <2>2, CapacityInvAlways, PTL
<1> QED BY <1>1, <1>2

-----------------------------------------------------------------------------
(* Cancellation *)

\* Only two steps write a row, and neither brings back one that was cancelled.
LEMMA CancelledStays ==
    ASSUME TypeOK, [Next]_vars, NEW u \in Users, regs[u].status = "cancelled"
    PROVE  regs'[u].status = "cancelled"
<1>1. ASSUME NEW w \in Workers, Arrive(w)
      PROVE  UNCHANGED regs
  BY <1>1 DEF Arrive, RefuseClosed, RefuseIneligible, Refuse, StartRegister, StartCancel
<1>2. ASSUME NEW w \in Workers, InsertRow(w)
      PROVE  regs'[u].status = "cancelled"
  <2>1. u # job[w].user
    BY <1>2 DEF InsertRow, Collides, HasRow
  <2> QED BY <1>2, <2>1 DEF InsertRow, TypeOK
<1>3. ASSUME NEW w \in Workers, Cancel(w)
      PROVE  regs'[u].status = "cancelled"
  BY <1>3 DEF Cancel, CancelledStatus, TypeOK, Row
<1>4. ASSUME NEW w \in Workers, Proceed(w), ~ InsertRow(w), ~ Cancel(w)
      PROVE  UNCHANGED regs
  BY <1>4 DEF Proceed, ReplayFound, ReplayMissed, CountActive, TakePosition, InsertFails,
              Reread, Refresh, FindMissed, FindFound
<1>5. ASSUME NEW w \in Workers, LockEvent(w) \/ Fail(w)
      PROVE  UNCHANGED regs
  BY <1>5 DEF LockEvent, Fail
<1>6. CASE Organizer \/ UNCHANGED vars
  BY <1>6 DEF Organizer, PatchCapacity, PatchStatus, vars
<1> QED BY <1>1, <1>2, <1>3, <1>4, <1>5, <1>6 DEF Next

\* A registration that was cancelled is never active or waiting again, at
\* either isolation level and whatever is under way when it is cancelled.
THEOREM CancellationIsForGood == Spec => CancelledForGood
<1>1. TypeOK /\ [Next]_vars =>
        [\A u \in Users : regs[u].status = "cancelled" => regs'[u].status = "cancelled"]_vars
  BY CancelledStays
<1> QED BY <1>1, TypeCorrect, PTL DEF Spec, CancelledForGood

-----------------------------------------------------------------------------
(* The atomic desk.  Under READ COMMITTED a request decides on committed rows *)
(* under the lock; so its INSERT is the moment at which it is admitted, or    *)
(* joins the line.                                                            *)

\* The capacity is the one of the start, and a user without a row has no place.
DeskIsClean ==
    /\ event.capacity = Capacity
    /\ \A u \in Users : ~ HasRow(regs, u) => regs[u].position = 0

Admission == [status |-> "registered", position |-> 0]

\* What a request has decided, and may still do when it inserts.
Stands(w) ==
    /\ pc[w] # Idle => seen[w] = Capacity /\ job[w].user \in Users
    /\ pc[w] \in {"replay", "lock", "count", "position", "insert"} => job[w].user \in Eligible
    /\ pc[w] \in {"count", "position", "insert"} => lock = w
    /\ pc[w] \in {"count", "position"} => Capacity # Unlimited
    /\ pc[w] = "count" => target[w] = Admission
    /\ pc[w] = "insert" =>
          \/ target[w] = Admission
          \/ /\ Capacity # Unlimited /\ target[w].status = "waitlisted"
             /\ \A v \in Waiting(regs) : regs[v].position < target[w].position
    /\ pc[w] = "cancel" => HasRow(regs, job[w].user)

LineInv == TypeOK /\ DeskIsClean /\ \A w \in Workers : Stands(w)

\* What the others have decided stands while w only moves, or gives up its lock.
LEMMA OthersStand ==
    ASSUME LineInv, NEW w \in Workers, UNCHANGED regs,
           \A x \in Workers \ {w} :
              pc'[x] = pc[x] /\ job'[x] = job[x] /\ seen'[x] = seen[x] /\ target'[x] = target[x],
           lock' = lock \/ lock = w \/ lock = NoWorker
    PROVE  \A x \in Workers \ {w} : Stands(x)'
BY WorkersAssumption DEF LineInv, Stands, HasRow, Waiting

\* The end of a handler.
LEMMA FinishStands ==
    ASSUME LineInv, NEW w \in Workers, NEW code, NEW row, Finish(w, code, row),
           UNCHANGED <<event, regs>>
    PROVE  DeskIsClean' /\ \A x \in Workers : Stands(x)'
<1>1. \A x \in Workers \ {w} :
          pc'[x] = pc[x] /\ job'[x] = job[x] /\ seen'[x] = seen[x] /\ target'[x] = target[x]
  BY DEF LineInv, TypeOK, Finish
<1>2. lock' = lock \/ lock = w
  BY DEF Finish
<1>3. pc'[w] = Idle
  BY DEF LineInv, TypeOK, Finish
<1>4. DeskIsClean'
  BY DEF LineInv, DeskIsClean, HasRow
<1> QED BY <1>1, <1>2, <1>3, <1>4, OthersStand DEF Stands, Idle

\* The arrival of a request.
LEMMA ArriveStands ==
    ASSUME ~ SnapshotReads, LineInv, NEW w \in Workers, Arrive(w)
    PROVE  DeskIsClean' /\ \A x \in Workers : Stands(x)'
<1>1. ASSUME NEW code, Refuse(w, code)
      PROVE  DeskIsClean' /\ \A x \in Workers : Stands(x)'
  BY <1>1, FinishStands DEF Refuse
<1>2. ASSUME NEW u \in Users, NEW k \in Keys \cup {NoKey}, NEW label \in {"replay", "lock", "find"},
             Receive(w, u, k), Goto(w, label), UNCHANGED <<event, regs, lock, target>>,
             label \in {"replay", "lock"} => u \in Eligible
      PROVE  DeskIsClean' /\ \A x \in Workers : Stands(x)'
  <2>1. /\ pc'[w] = label /\ job'[w].user = u /\ seen'[w] = event.capacity
        /\ \A x \in Workers \ {w} : pc'[x] = pc[x] /\ job'[x] = job[x] /\ seen'[x] = seen[x]
    BY <1>2 DEF LineInv, TypeOK, Receive, Goto
  <2>2. DeskIsClean'
    BY <1>2 DEF LineInv, DeskIsClean, HasRow
  <2>3. Stands(w)'
    BY <1>2, <2>1 DEF LineInv, DeskIsClean, Stands, Idle
  <2> QED BY <1>2, <2>1, <2>2, <2>3, OthersStand
<1>3. ASSUME NEW u \in Users, NEW k \in Keys \cup {NoKey}, StartRegister(w, u, k)
      PROVE  DeskIsClean' /\ \A x \in Workers : Stands(x)'
  BY <1>2, <1>3 DEF StartRegister
<1>4. ASSUME NEW u \in Users, StartCancel(w, u)
      PROVE  DeskIsClean' /\ \A x \in Workers : Stands(x)'
  BY <1>2, <1>4 DEF StartCancel
<1> QED BY <1>1, <1>3, <1>4 DEF Arrive, RefuseClosed, RefuseIneligible

\* A request goes on to its next statement, and writes no row.
LEMMA MoveStands ==
    ASSUME LineInv, NEW w \in Workers, NEW label, Goto(w, label), UNCHANGED <<event, regs, job, seen>>,
           \A x \in Workers \ {w} : target'[x] = target[x],
           lock' = lock \/ lock = w \/ lock = NoWorker,
           Stands(w)'
    PROVE  DeskIsClean' /\ \A x \in Workers : Stands(x)'
<1>1. \A x \in Workers \ {w} : pc'[x] = pc[x]
  BY DEF LineInv, TypeOK, Goto
<1>2. DeskIsClean'
  BY DEF LineInv, DeskIsClean, HasRow
<1> QED BY <1>1, <1>2, OthersStand

\* The statements of a handler, up to its commit.
LEMMA ProceedStands ==
    ASSUME ~ SnapshotReads, LineInv, NEW w \in Workers, Proceed(w), ~ InsertRow(w), ~ Cancel(w)
    PROVE  DeskIsClean' /\ \A x \in Workers : Stands(x)'
<1>1. CASE ReplayFound(w) \/ Reread(w) \/ Refresh(w) \/ FindMissed(w)
  BY <1>1, FinishStands DEF ReplayFound, Reread, Refresh, FindMissed
<1>2. CASE ReplayMissed(w)
  <2>1. pc'[w] = "lock" /\ pc[w] = "replay" /\ Goto(w, "lock")
        /\ UNCHANGED <<event, regs, lock, job, seen, target>>
    BY <1>2 DEF ReplayMissed, Goto, LineInv, TypeOK
  <2> QED BY <2>1, MoveStands DEF LineInv, Stands, Idle
<1>3. CASE CountActive(w)
  <2>1. PICK label \in {"position", "insert"} : Goto(w, label)
    BY <1>3 DEF CountActive
  <2>2. /\ pc'[w] = label /\ pc[w] = "count"
        /\ UNCHANGED <<event, regs, lock, job, seen, target>>
    BY <1>3, <2>1 DEF CountActive, Goto, LineInv, TypeOK
  <2> QED BY <2>1, <2>2, MoveStands DEF LineInv, Stands, Idle
<1>4. CASE TakePosition(w)
  <2>1. /\ pc'[w] = "insert" /\ pc[w] = "position" /\ Goto(w, "insert")
        /\ target'[w] = [status |-> "waitlisted", position |-> NextPosition(w)]
        /\ \A x \in Workers \ {w} : target'[x] = target[x]
        /\ UNCHANGED <<event, regs, lock, job, seen>>
    BY <1>4 DEF TakePosition, Goto, LineInv, TypeOK
  <2>2. \A v \in Waiting(regs) : regs[v].position < NextPosition(w)
    <3>1. /\ LastPosition(regs) \in Nat
          /\ \A v \in Waiting(regs) : regs[v].position <= LastPosition(regs)
      BY LastPositionIsLast DEF LineInv, TypeOK
    <3>2. \A v \in Waiting(regs) : regs[v].position \in Nat
      BY DEF LineInv, TypeOK, Row, Waiting
    <3> QED BY <3>1, <3>2 DEF NextPosition, Read
  <2>3. Waiting(regs)' = Waiting(regs)
    BY <2>1 DEF Waiting
  <2>4. Stands(w)'
    BY <2>1, <2>2, <2>3 DEF LineInv, Stands, Idle
  <2> QED BY <2>1, <2>4, MoveStands
<1>5. CASE InsertFails(w)
  <2>1. /\ pc'[w] = "reread" /\ pc[w] = "insert" /\ Goto(w, "reread")
        /\ lock = w /\ UNCHANGED <<event, regs, job, seen, target>>
    BY <1>5 DEF InsertFails, Goto, LineInv, TypeOK, Stands
  <2> QED BY <2>1, MoveStands DEF LineInv, Stands, Idle
<1>6. CASE FindFound(w)
  <2>1. CASE Read(w)[job[w].user].status = "cancelled"
    BY <1>6, <2>1, FinishStands DEF FindFound
  <2>2. CASE Read(w)[job[w].user].status # "cancelled"
    <3>1. /\ pc'[w] = "cancel" /\ pc[w] = "find" /\ Goto(w, "cancel")
          /\ HasRow(regs, job[w].user)
          /\ UNCHANGED <<event, regs, lock, job, seen, target>>
      BY <1>6, <2>2 DEF FindFound, Goto, LineInv, TypeOK, Read
    <3> QED BY <3>1, MoveStands DEF LineInv, Stands, Idle, HasRow
  <2> QED BY <2>1, <2>2
<1> QED BY <1>1, <1>2, <1>3, <1>4, <1>5, <1>6 DEF Proceed

\* An INSERT: nobody else has the lock, so nobody else has decided anything.
LEMMA InsertStands ==
    ASSUME LineInv, NEW w \in Workers, InsertRow(w)
    PROVE  DeskIsClean' /\ \A x \in Workers : Stands(x)'
<1>1. /\ pc[w] = "insert" /\ lock = w /\ job[w].user \in Users
      /\ regs' = [regs EXCEPT ![job[w].user] =
                     [status   |-> target[w].status,
                      position |-> target[w].position,
                      key      |-> job[w].key]]
      /\ lock' = NoWorker
      /\ UNCHANGED <<event, job, seen, target>>
  BY DEF InsertRow, LineInv, Stands, Idle
<1>2. pc'[w] = "refresh" /\ \A x \in Workers \ {w} : pc'[x] = pc[x]
  BY DEF InsertRow, Goto, LineInv, TypeOK
<1>3. target[w].status \in {"registered", "waitlisted"}
  BY <1>1 DEF LineInv, Stands, Admission
<1>4. DeskIsClean'
  BY <1>1, <1>3 DEF LineInv, TypeOK, DeskIsClean, HasRow
<1>5. Stands(w)'
  BY <1>1, <1>2 DEF LineInv, Stands, Idle
<1>6. ASSUME NEW x \in Workers \ {w}
      PROVE  Stands(x)'
  <2>1. pc'[x] \notin {"count", "position", "insert"}
    BY <1>1, <1>2 DEF LineInv, Stands
  <2>2. \A u \in Users : HasRow(regs, u) => HasRow(regs', u)
    BY <1>1, <1>3 DEF LineInv, TypeOK, HasRow
  <2> QED BY <1>1, <1>2, <2>1, <2>2 DEF LineInv, Stands, HasRow, Idle
<1> QED BY <1>4, <1>5, <1>6

\* A cancellation: the line loses one, and keeps its places.
LEMMA CancelStands ==
    ASSUME LineInv, NEW w \in Workers, Cancel(w)
    PROVE  DeskIsClean' /\ \A x \in Workers : Stands(x)'
<1>1. /\ pc[w] = "cancel" /\ job[w].user \in Users
      /\ regs' = [regs EXCEPT ![job[w].user].status = "cancelled"]
      /\ event' = event
  BY DEF Cancel, CancelledStatus, LineInv, Stands, Idle
<1>2. /\ pc'[w] = Idle /\ (lock' = lock \/ lock = w)
      /\ \A x \in Workers \ {w} :
            pc'[x] = pc[x] /\ job'[x] = job[x] /\ seen'[x] = seen[x] /\ target'[x] = target[x]
  BY DEF Cancel, Finish, LineInv, TypeOK
<1>3. /\ \A u \in Users : regs'[u].position = regs[u].position
      /\ \A u \in Users : HasRow(regs, u) => HasRow(regs', u)
      /\ \A u \in Users : regs'[u].status = "absent" => regs[u].status = "absent"
      /\ Waiting(regs') \subseteq Waiting(regs)
  BY <1>1 DEF LineInv, TypeOK, Row, HasRow, Waiting
<1>4. DeskIsClean'
  BY <1>1, <1>3 DEF LineInv, DeskIsClean, HasRow
<1>5. ASSUME NEW x \in Workers \ {w}
      PROVE  Stands(x)'
  <2>1. Stands(x) /\ (lock = x => lock' = x)
    BY <1>2 DEF LineInv
  <2>2. Waiting(regs)' \subseteq Users /\ Waiting(regs)' = Waiting(regs')
    BY DEF Waiting
  <2>3. \A v \in Waiting(regs)' : v \in Waiting(regs) /\ regs'[v].position = regs[v].position
    BY <1>3, <2>2
  <2> QED BY <1>2, <1>3, <2>1, <2>3 DEF Stands, HasRow, Idle
<1> QED BY <1>2, <1>4, <1>5 DEF Stands, Idle

\* Whatever happens at the desk, what each request has decided stands.
LEMMA LineInvStep ==
    ASSUME ~ SnapshotReads, CapacityEdits = {}, LineInv, [Next]_vars
    PROVE  LineInv'
<1>1. TypeOK'
  BY TypeOKStep DEF LineInv
<1>2. ASSUME NEW w \in Workers, LockEvent(w)
      PROVE  DeskIsClean' /\ \A x \in Workers : Stands(x)'
  <2>1. PICK label \in {"count", "insert"} :
           Goto(w, label) /\ (label = "count" => seen[w] # Unlimited)
    BY <1>2 DEF LockEvent
  <2>2. /\ pc[w] = "lock" /\ pc'[w] = label /\ lock = NoWorker /\ lock' = w
        /\ target'[w] = Admission
        /\ \A x \in Workers \ {w} : target'[x] = target[x]
        /\ UNCHANGED <<event, regs, job, seen>>
    BY <1>2, <2>1 DEF LockEvent, CanLock, Goto, Admission, LineInv, TypeOK
  <2>3. Stands(w)'
    BY <2>1, <2>2 DEF LineInv, Stands, Idle
  <2> QED BY <2>1, <2>2, <2>3, MoveStands
<1>3. ASSUME NEW w \in Workers, Fail(w)
      PROVE  DeskIsClean' /\ \A x \in Workers : Stands(x)'
  BY <1>3, FinishStands DEF Fail
<1>4. CASE Organizer \/ UNCHANGED vars
  <2>1. event'.capacity = event.capacity /\ UNCHANGED <<regs, lock, pc, job, seen, target>>
    BY <1>4 DEF Organizer, PatchStatus, vars, LineInv, TypeOK
  <2>2. DeskIsClean'
    BY <2>1 DEF LineInv, DeskIsClean, HasRow
  <2>3. ASSUME NEW w \in Workers
        PROVE  Stands(w)'
    BY <2>1 DEF LineInv, Stands, HasRow, Waiting
  <2> QED BY <1>1, <2>2, <2>3 DEF LineInv
<1> QED BY <1>1, <1>2, <1>3, <1>4, ArriveStands, ProceedStands, InsertStands, CancelStands
    DEF Next, LineInv

\* Nobody has decided anything at first.
LEMMA LineInvInit == Init => LineInv
<1> SUFFICES ASSUME Init PROVE LineInv
  OBVIOUS
<1>1. DeskIsClean
  BY DEF Init, DeskIsClean, EmptyTable, NoRow
<1>2. \A w \in Workers : Stands(w)
  BY DEF Init, Stands, Idle
<1> QED BY <1>1, <1>2, TypeOKInit DEF LineInv

\* The atomic desk counts as this one does.
LEMMA SameCount ==
    ASSUME NEW S
    PROVE  Desk!Cardinality(S) = Cardinality(S)
BY DEF Desk!Cardinality, Cardinality

\* A row that is inserted under the lock is an admission or a place at the end
\* of the line, as the atomic desk has them.
LEMMA InsertIsAdmissionOrQueue ==
    ASSUME ~ SnapshotReads, LineInv, Capacity # Unlimited => CapacityInv,
           NEW w \in Workers, InsertRow(w)
    PROVE  \E u \in Eligible : Desk!Admit(u) \/ Desk!Enqueue(u)
<1> PICK u : u = job[w].user
  OBVIOUS
<1>1. /\ pc[w] = "insert" /\ u \in Eligible /\ u \in Users /\ ~ HasRow(regs, u)
      /\ regs' = [regs EXCEPT ![u] =
                     [status   |-> target[w].status,
                      position |-> target[w].position,
                      key      |-> job[w].key]]
  BY DEF InsertRow, Collides, LineInv, Stands, Idle
<1> DEFINE seats == [v \in Users |-> [status |-> regs[v].status, position |-> regs[v].position]]
<1>2. seats[u] = [status |-> "absent", position |-> 0]
  BY <1>1 DEF LineInv, DeskIsClean, HasRow
<1>3. [v \in Users |-> [status |-> regs'[v].status, position |-> regs'[v].position]]
        = [seats EXCEPT ![u] = [status |-> target[w].status, position |-> target[w].position]]
  BY <1>1 DEF LineInv, TypeOK
<1>4. CASE target[w] = Admission
  <2>1. Capacity = Unlimited \/ Cardinality(Active(regs)) < Capacity
    BY <1>1, <1>4 DEF CapacityInv, SeatsSafe, DecisionStands, Admission
  <2>2. Desk!Seated = Active(regs)
    BY DEF Desk!Seated, Active
  <2>3. [v \in Users |-> [status |-> regs'[v].status, position |-> regs'[v].position]]
          = [seats EXCEPT ![u] = [status |-> "registered", position |-> 0]]
    BY <1>3, <1>4 DEF Admission
  <2>4. Capacity = Unlimited \/ Desk!Cardinality(Desk!Seated) < Capacity
    BY <2>1, <2>2, SameCount
  <2>5. Desk!Admit(u)
    BY <1>2, <2>3, <2>4 DEF Desk!Admit, Desk!Nobody
  <2> QED BY <1>1, <2>5
<1>5. CASE target[w] # Admission
  <2>1. /\ Capacity # Unlimited /\ target[w].status = "waitlisted"
        /\ \A v \in Waiting(regs) : regs[v].position < target[w].position
    BY <1>1, <1>5 DEF LineInv, Stands
  <2>2. Desk!Waiting = Waiting(regs)
    BY DEF Desk!Waiting, Waiting
  <2>3. regs'[u].position = target[w].position
    BY <1>1 DEF LineInv, TypeOK
  <2>4. Desk!Enqueue(u)
    BY <1>1, <1>2, <1>3, <2>1, <2>2, <2>3 DEF Desk!Enqueue, Desk!Nobody, Waiting
  <2> QED BY <1>1, <2>4
<1> QED BY <1>4, <1>5

\* A cancellation is a withdrawal.
LEMMA CancelIsWithdrawal ==
    ASSUME LineInv, NEW w \in Workers, Cancel(w)
    PROVE  \E u \in Users : Desk!Withdraw(u)
<1> PICK u : u = job[w].user
  OBVIOUS
<1>1. /\ u \in Users /\ HasRow(regs, u)
      /\ regs' = [regs EXCEPT ![u].status = "cancelled"]
  BY DEF Cancel, CancelledStatus, LineInv, Stands, Idle
<1>2. \A v \in Users : /\ regs'[v].position = regs[v].position
                       /\ regs'[v].status = IF v = u THEN "cancelled" ELSE regs[v].status
  BY <1>1 DEF LineInv, TypeOK, Row
<1> DEFINE seats == [v \in Users |-> [status |-> regs[v].status, position |-> regs[v].position]]
<1>3. [v \in Users |-> [status |-> regs'[v].status, position |-> regs'[v].position]]
        = [seats EXCEPT ![u].status = "cancelled"]
  BY <1>1, <1>2
<1>4. seats[u].status # "absent"
  BY <1>1 DEF HasRow
<1>5. Desk!Withdraw(u)
  BY <1>3, <1>4 DEF Desk!Withdraw, Desk!Nobody
<1> QED BY <1>1, <1>5

\* Every step of the desk is a step of the atomic one, or changes no seat.
LEMMA DeskStepIsAtomic ==
    ASSUME ~ SnapshotReads, LineInv, Capacity # Unlimited => CapacityInv, [Next]_vars
    PROVE  [Desk!Next]_([u \in Users |-> [status   |-> regs[u].status,
                                          position |-> regs[u].position]])
<1>1. CASE \E w \in Workers : InsertRow(w)
  BY <1>1, InsertIsAdmissionOrQueue DEF Desk!Next
<1>2. CASE \E w \in Workers : Cancel(w)
  BY <1>2, CancelIsWithdrawal DEF Desk!Next
<1>3. CASE ~ \E w \in Workers : InsertRow(w) \/ Cancel(w)
  <2>1. UNCHANGED regs
    BY <1>3
    DEF Next, vars, Arrive, Proceed, LockEvent, Fail, Organizer, RefuseClosed, RefuseIneligible,
        Refuse, StartRegister, StartCancel, ReplayFound, ReplayMissed, CountActive, TakePosition,
        InsertFails, Reread, Refresh, FindMissed, FindFound, PatchCapacity, PatchStatus
  <2> QED BY <2>1
<1> QED BY <1>1, <1>2, <1>3

\* Under READ COMMITTED, and while nobody edits the capacity, the statements of
\* any number of requests amount to those of the atomic desk: each registration
\* is admitted, queued or withdrawn at one moment (registrations.py 223-292).
THEOREM DeskImplementsRsvpDesk ==
    ASSUME ~ SnapshotReads, CapacityEdits = {}
    PROVE  Spec => ImplementsDesk
<1>1. Init => Desk!Init
  BY DEF Init, EmptyTable, NoRow, Desk!Init, Desk!Nobody
<1>2. LineInv /\ [Next]_vars => LineInv'
  BY LineInvStep
<1>3. Spec => [](Capacity # Unlimited => CapacityInv)
  <2>1. CASE Capacity = Unlimited
    <3>1. Capacity # Unlimited => CapacityInv
      BY <2>1
    <3> QED BY <3>1, PTL
  <2>2. CASE Capacity # Unlimited
    <3>1. Capacity \in Nat
      BY <2>2, EventAssumption DEF Capacities
    <3>2. Spec => []CapacityInv
      BY <3>1, CapacityInvAlways
    <3>3. CapacityInv => (Capacity # Unlimited => CapacityInv)
      OBVIOUS
    <3> QED BY <3>2, <3>3, PTL
  <2> QED BY <2>1, <2>2
<1>4. LineInv /\ (Capacity # Unlimited => CapacityInv) /\ [Next]_vars
        => [Desk!Next]_([u \in Users |-> [status   |-> regs[u].status,
                                          position |-> regs[u].position]])
  BY DeskStepIsAtomic
<1> QED BY <1>1, <1>2, <1>3, <1>4, LineInvInit, PTL DEF Spec, ImplementsDesk, Desk!Spec

-----------------------------------------------------------------------------
(* Answers.  A request answers from what it has read, perhaps long ago: what  *)
(* makes its answer right is that no row is lost and none changes its key.    *)

\* The rows of a table are still in another, with their keys.
StillIn(rows, later) ==
    \A u \in Users : HasRow(rows, u) => HasRow(later, u) /\ later[u].key = rows[u].key

\* What a request has read or written still tells the truth, and what it found
\* room for it found room for in the view that it has opened.
Knows(w) ==
    /\ StillIn(view[w], regs)
    /\ ~ SnapshotReads => view[w] = EmptyTable
    /\ pc[w] # Idle => job[w].user \in Users
    /\ pc[w] = "replay" => job[w].key \notin {NoKey, BlankKey}
    /\ pc[w] \in {"count", "position", "insert"} => target[w].status \in {"registered", "waitlisted"}
    /\ pc[w] = "insert" /\ target[w].status = "registered" /\ seen[w] # Unlimited /\ SnapshotReads =>
          Cardinality(Active(view[w])) < seen[w]
    /\ pc[w] \in {"refresh", "cancel"} => HasRow(regs, job[w].user)
    /\ pc[w] = "reread" =>
          \/ HasRow(regs, job[w].user)
          \/ job[w].key # NoKey /\ HoldersOf(regs, job[w].key) # {}

AnswerInv == TypeOK /\ \A w \in Workers : Knows(w)

\* No step loses a row or changes its key.
LEMMA RowsStay ==
    ASSUME AnswerInv, [Next]_vars
    PROVE  StillIn(regs, regs')
<1>1. ASSUME NEW w \in Workers, InsertRow(w)
      PROVE  StillIn(regs, regs')
  BY <1>1 DEF InsertRow, Collides, HasRow, StillIn, AnswerInv, TypeOK
<1>2. ASSUME NEW w \in Workers, Cancel(w)
      PROVE  StillIn(regs, regs')
  BY <1>2 DEF Cancel, CancelledStatus, HasRow, StillIn, AnswerInv, TypeOK, Row
<1>3. CASE ~ \E w \in Workers : InsertRow(w) \/ Cancel(w)
  <2>1. UNCHANGED regs
    BY <1>3
    DEF Next, vars, Arrive, Proceed, LockEvent, Fail, Organizer, RefuseClosed, RefuseIneligible,
        Refuse, StartRegister, StartCancel, ReplayFound, ReplayMissed, CountActive, TakePosition,
        InsertFails, Reread, Refresh, FindMissed, FindFound, PatchCapacity, PatchStatus
  <2> QED BY <2>1 DEF StillIn
<1> QED BY <1>1, <1>2, <1>3

\* What a request knows lasts through the steps of the others.
LEMMA KnowledgeLasts ==
    ASSUME AnswerInv, StillIn(regs, regs'), NEW x \in Workers,
           pc'[x] = pc[x], job'[x] = job[x], seen'[x] = seen[x], view'[x] = view[x],
           target'[x] = target[x]
    PROVE  Knows(x)'
<1>1. Knows(x)
  BY DEF AnswerInv
<1>2. StillIn(view[x], regs)'
  BY <1>1 DEF Knows, StillIn, HasRow
<1>3. Active(view[x])' = Active(view[x])
  BY DEF Active
<1>4. pc[x] # Idle => (HasRow(regs, job[x].user) => HasRow(regs, job[x].user)')
  BY <1>1 DEF Knows, StillIn, HasRow
<1>5. HoldersOf(regs, job[x].key) \subseteq HoldersOf(regs, job[x].key)'
  BY DEF HoldersOf, StillIn, HasRow
<1> QED BY <1>1, <1>2, <1>3, <1>4, <1>5 DEF Knows, Idle

\* The session of a request that ended knows nothing.
LEMMA NothingKnown ==
    ASSUME NEW w \in Workers, (pc[w] = Idle)', (view[w] = EmptyTable)'
    PROVE  Knows(w)'
BY DEF Knows, Idle, StillIn, EmptyTable, NoRow, HasRow

\* The end of a handler, and a step of one worker only.
LEMMA FinishKnows ==
    ASSUME AnswerInv, StillIn(regs, regs'), NEW w \in Workers, NEW code, NEW row,
           Finish(w, code, row)
    PROVE  \A x \in Workers : Knows(x)'
<1>1. \A x \in Workers \ {w} :
          /\ pc'[x] = pc[x] /\ job'[x] = job[x] /\ seen'[x] = seen[x] /\ view'[x] = view[x]
          /\ target'[x] = target[x]
  BY DEF AnswerInv, TypeOK, Finish
<1>2. pc'[w] = Idle /\ view'[w] = EmptyTable
  BY DEF AnswerInv, TypeOK, Finish
<1> QED BY <1>1, <1>2, KnowledgeLasts, NothingKnown

\* A step of w to its next statement.
LEMMA MoveKnows ==
    ASSUME AnswerInv, StillIn(regs, regs'), NEW w \in Workers, NEW label, Goto(w, label),
           UNCHANGED <<job, seen, view>>,
           \A x \in Workers \ {w} : target'[x] = target[x],
           Knows(w)'
    PROVE  \A x \in Workers : Knows(x)'
<1>1. \A x \in Workers \ {w} : pc'[x] = pc[x]
  BY DEF AnswerInv, TypeOK, Goto
<1> QED BY <1>1, KnowledgeLasts

\* A request arrives and opens its view.
LEMMA ArriveKnows ==
    ASSUME AnswerInv, StillIn(regs, regs'), NEW w \in Workers, Arrive(w)
    PROVE  \A x \in Workers : Knows(x)'
<1>1. CASE RefuseClosed(w) \/ \E u \in Users : RefuseIneligible(w, u)
  BY <1>1, FinishKnows DEF RefuseClosed, RefuseIneligible, Refuse
<1>2. ASSUME NEW u \in Users, NEW k \in Keys \cup {NoKey}, NEW label \in {"replay", "lock", "find"},
             Receive(w, u, k), Goto(w, label), UNCHANGED <<regs, target>>,
             label = "replay" => k \notin {NoKey, BlankKey}
      PROVE  \A x \in Workers : Knows(x)'
  <2>1. /\ pc'[w] = label /\ job'[w].user = u /\ job'[w].key = k /\ view'[w] = OpenView
        /\ \A x \in Workers \ {w} :
              pc'[x] = pc[x] /\ job'[x] = job[x] /\ seen'[x] = seen[x] /\ view'[x] = view[x]
    BY <1>2 DEF AnswerInv, TypeOK, Receive, Goto
  <2>2. StillIn(OpenView, regs) /\ (~ SnapshotReads => OpenView = EmptyTable)
    BY DEF OpenView, StillIn, EmptyTable, NoRow, HasRow
  <2>3. StillIn(view[w], regs)'
    BY <1>2, <2>1, <2>2 DEF StillIn, HasRow
  <2>4. Knows(w)'
    BY <1>2, <2>1, <2>2, <2>3 DEF Knows, Idle, EmptyTable
  <2> QED BY <1>2, <2>1, <2>4, KnowledgeLasts
<1>3. ASSUME NEW u \in Users, NEW k \in Keys \cup {NoKey}, StartRegister(w, u, k)
      PROVE  \A x \in Workers : Knows(x)'
  BY <1>2, <1>3 DEF StartRegister
<1>4. ASSUME NEW u \in Users, StartCancel(w, u)
      PROVE  \A x \in Workers : Knows(x)'
  BY <1>2, <1>4 DEF StartCancel
<1> QED BY <1>1, <1>3, <1>4 DEF Arrive

\* A handler goes on, and learns what it reads.
LEMMA ProceedKnows ==
    ASSUME AnswerInv, StillIn(regs, regs'), NEW w \in Workers, Proceed(w) \/ LockEvent(w)
    PROVE  \A x \in Workers : Knows(x)'
<1>1. CASE ReplayFound(w) \/ Reread(w) \/ Refresh(w) \/ FindMissed(w) \/ Cancel(w)
  BY <1>1, FinishKnows DEF ReplayFound, Reread, Refresh, FindMissed, Cancel
<1> Knows(w)
  BY DEF AnswerInv
<1>2. CASE ReplayMissed(w)
  <2>1. /\ pc'[w] = "lock" /\ pc[w] = "replay" /\ Goto(w, "lock")
        /\ UNCHANGED <<regs, job, seen, view, target>>
    BY <1>2 DEF ReplayMissed, Goto, AnswerInv, TypeOK
  <2> QED BY <2>1, MoveKnows DEF Knows, Idle, StillIn, HasRow
<1>3. CASE LockEvent(w)
  <2>1. PICK label \in {"count", "insert"} :
           Goto(w, label) /\ (label = "insert" => seen[w] = Unlimited)
    BY <1>3 DEF LockEvent
  <2>2. /\ pc'[w] = label /\ pc[w] = "lock" /\ target'[w].status = "registered"
        /\ \A x \in Workers \ {w} : target'[x] = target[x]
        /\ UNCHANGED <<regs, job, seen, view>>
    BY <1>3, <2>1 DEF LockEvent, Goto, AnswerInv, TypeOK
  <2> QED BY <2>1, <2>2, MoveKnows DEF Knows, Idle, StillIn, HasRow
<1>4. CASE CountActive(w)
  <2>1. PICK label \in {"position", "insert"} :
           Goto(w, label) /\ (label = "insert" => ~ IsFull(w))
    BY <1>4 DEF CountActive
  <2>2. /\ pc'[w] = label /\ pc[w] = "count"
        /\ UNCHANGED <<regs, job, seen, view, target>>
    BY <1>4, <2>1 DEF CountActive, Goto, AnswerInv, TypeOK
  <2>3. label = "insert" /\ seen[w] # Unlimited /\ SnapshotReads
           => Cardinality(Active(view[w])) < seen[w]
    <3>1. seen[w] # Unlimited => seen[w] \in Nat
      BY EventAssumption DEF AnswerInv, TypeOK
    <3>2. Cardinality(Active(view[w])) \in Nat
      BY ActiveIsFinite
    <3> QED BY <2>1, <3>1, <3>2 DEF IsFull, Read
  <2>4. (Active(view[w]))' = Active(view[w])
    BY <2>2 DEF Active
  <2>5. Knows(w)'
    BY <2>2, <2>3, <2>4 DEF Knows, Idle, StillIn, HasRow
  <2> QED BY <2>1, <2>2, <2>5, MoveKnows
<1>5. CASE TakePosition(w)
  <2>1. /\ pc'[w] = "insert" /\ pc[w] = "position" /\ Goto(w, "insert")
        /\ target'[w].status = "waitlisted"
        /\ \A x \in Workers \ {w} : target'[x] = target[x]
        /\ UNCHANGED <<regs, job, seen, view>>
    BY <1>5 DEF TakePosition, Goto, AnswerInv, TypeOK
  <2> QED BY <2>1, MoveKnows DEF Knows, Idle, StillIn, HasRow
<1>6. CASE InsertRow(w)
  <2>1. /\ pc'[w] = "refresh" /\ pc[w] = "insert" /\ Goto(w, "refresh")
        /\ UNCHANGED <<job, seen, view, target>>
        /\ job[w].user \in Users /\ regs'[job[w].user].status = target[w].status
    BY <1>6 DEF InsertRow, Goto, AnswerInv, TypeOK, Knows, Idle
  <2>2. HasRow(regs, job[w].user)'
    BY <2>1 DEF Knows, HasRow
  <2>3. StillIn(view[w], regs)'
    BY <2>1 DEF Knows, StillIn, HasRow
  <2>4. Knows(w)'
    BY <2>1, <2>2, <2>3 DEF Knows, Idle
  <2> QED BY <2>1, <2>4, MoveKnows
<1>7. CASE InsertFails(w)
  <2>1. /\ pc'[w] = "reread" /\ pc[w] = "insert" /\ Goto(w, "reread")
        /\ UNCHANGED <<regs, job, seen, view, target>> /\ Collides(w)
    BY <1>7 DEF InsertFails, Goto, AnswerInv, TypeOK
  <2>2. HoldersOf(regs, job[w].key)' = HoldersOf(regs, job[w].key)
    BY <2>1 DEF HoldersOf, HasRow
  <2> QED BY <2>1, <2>2, MoveKnows DEF Knows, Idle, StillIn, HasRow, Collides
<1>8. CASE FindFound(w)
  <2>1. CASE Read(w)[job[w].user].status = "cancelled"
    BY <1>8, <2>1, FinishKnows DEF FindFound
  <2>2. CASE Read(w)[job[w].user].status # "cancelled"
    <3>1. /\ pc'[w] = "cancel" /\ pc[w] = "find" /\ Goto(w, "cancel")
          /\ HasRow(Read(w), job[w].user)
          /\ UNCHANGED <<regs, job, seen, view, target>>
      BY <1>8, <2>2 DEF FindFound, Goto, AnswerInv, TypeOK
    <3>2. HasRow(regs, job[w].user)
      BY <3>1 DEF Knows, Idle, Read, StillIn
    <3> QED BY <3>1, <3>2, MoveKnows DEF Knows, Idle, StillIn, HasRow
  <2> QED BY <2>1, <2>2
<1> QED BY <1>1, <1>2, <1>3, <1>4, <1>5, <1>6, <1>7, <1>8 DEF Proceed

\* Every step keeps what the requests know true.
LEMMA AnswerInvStep == AnswerInv /\ [Next]_vars => AnswerInv'
<1> SUFFICES ASSUME AnswerInv, [Next]_vars PROVE AnswerInv'
  OBVIOUS
<1>1. TypeOK' /\ StillIn(regs, regs')
  BY TypeOKStep, RowsStay DEF AnswerInv
<1>2. ASSUME NEW w \in Workers, Fail(w)
      PROVE  \A x \in Workers : Knows(x)'
  BY <1>1, <1>2, FinishKnows DEF Fail
<1>3. CASE Organizer \/ UNCHANGED vars
  <2>1. UNCHANGED <<pc, job, seen, view, target>>
    BY <1>3 DEF Organizer, PatchCapacity, PatchStatus, vars
  <2> QED BY <1>1, <2>1, KnowledgeLasts DEF AnswerInv
<1> QED BY <1>1, <1>2, <1>3, ArriveKnows, ProceedKnows DEF Next, AnswerInv

\* What the requests know is true in every state.
LEMMA AnswerInvAlways == Spec => []AnswerInv
<1>1. Init => AnswerInv
  <2> SUFFICES ASSUME Init, NEW w \in Workers PROVE Knows(w)
    BY TypeOKInit DEF AnswerInv
  <2> QED BY DEF Init, Knows, Idle, StillIn, EmptyTable, NoRow, HasRow
<1> QED BY <1>1, AnswerInvStep, PTL DEF Spec

\* What a step answers, about the row that it names or about the key.
RightAnswer(w) ==
    /\ reply'.code = "ok" =>
        LET u == reply'.row IN
           /\ HasRow(regs, u)
           /\ u # job[w].user =>
                job[w].key \notin {NoKey, BlankKey} /\ regs[u].key = job[w].key
    /\ reply'.code = "duplicate_registration" =>
        HoldersOf(regs, job[w].key) \ {job[w].user} # {}

\* The answer of w is right: one of a statement that found the row, or did not.
LEMMA AnswerIsRight ==
    ASSUME AnswerInv, Next, NEW w \in Workers, reply'.to = w
    PROVE  RightAnswer(w)
<1>1. ASSUME NEW v \in Workers, NEW code, NEW row, Finish(v, code, row),
             code \notin {"ok", "duplicate_registration"}
      PROVE  RightAnswer(w)
  BY <1>1 DEF Finish, RightAnswer
<1>2. ASSUME NEW v \in Workers, NEW label, Goto(v, label)
      PROVE  FALSE
  BY <1>2, WorkersAssumption DEF Goto, NoReply
<1>3. ASSUME NEW v \in Workers, NEW row, Finish(v, "ok", row), HasRow(regs, row),
             row # job[v].user =>
               job[v].key \notin {NoKey, BlankKey} /\ regs[row].key = job[v].key
      PROVE  RightAnswer(w)
  <2>1. v = w /\ reply'.code = "ok" /\ reply'.row = row
    BY <1>3 DEF Finish
  <2> QED BY <1>3, <2>1 DEF RightAnswer
<1>4. ASSUME NEW v \in Workers, Arrive(v)
      PROVE  RightAnswer(w)
  BY <1>1, <1>2, <1>4
  DEF Arrive, RefuseClosed, RefuseIneligible, Refuse, StartRegister, StartCancel
<1>5. ASSUME NEW v \in Workers, Proceed(v)
      PROVE  RightAnswer(w)
  <2> Knows(v)
    BY DEF AnswerInv
  <2>1. CASE ReplayFound(v)
    <3>1. PICK u \in HoldersOf(Read(v), job[v].key) : Finish(v, "ok", u)
      BY <2>1 DEF ReplayFound
    <3>2. u \in Users /\ HasRow(Read(v), u) /\ Read(v)[u].key = job[v].key
      BY DEF HoldersOf
    <3>3. HasRow(regs, u) /\ regs[u].key = job[v].key
      BY <3>2 DEF Knows, Read, StillIn
    <3>4. job[v].key \notin {NoKey, BlankKey}
      BY <2>1 DEF Knows, ReplayFound
    <3> QED BY <1>3, <3>1, <3>3, <3>4
  <2>2. CASE Reread(v)
    <3>1. CASE HasRow(regs, job[v].user)
      BY <1>3, <2>2, <3>1 DEF Reread, RereadFinds
    <3>2. CASE ~ HasRow(regs, job[v].user)
      <4>1. Finish(v, "duplicate_registration", NoUser) /\ HoldersOf(regs, job[v].key) # {}
        BY <2>2, <3>2 DEF Reread, RereadFinds, Knows
      <4>2. job[v].user \notin HoldersOf(regs, job[v].key)
        BY <3>2 DEF HoldersOf
      <4>3. v = w /\ reply'.code = "duplicate_registration"
        BY <4>1 DEF Finish
      <4> QED BY <4>1, <4>2, <4>3 DEF RightAnswer
    <3> QED BY <3>1, <3>2
  <2>3. CASE Refresh(v) \/ Cancel(v)
    BY <1>3, <2>3 DEF Refresh, Cancel, Knows
  <2>4. CASE FindMissed(v)
    BY <1>1, <2>4 DEF FindMissed
  <2>5. CASE FindFound(v)
    <3>1. HasRow(regs, job[v].user)
      BY <2>5 DEF FindFound, Knows, Idle, Read, StillIn
    <3> QED BY <1>2, <1>3, <2>5, <3>1 DEF FindFound
  <2>6. CASE \/ ReplayMissed(v) \/ CountActive(v) \/ TakePosition(v) \/ InsertRow(v)
             \/ InsertFails(v)
    BY <1>2, <2>6 DEF ReplayMissed, CountActive, TakePosition, InsertRow, InsertFails
  <2> QED BY <1>5, <2>1, <2>2, <2>3, <2>4, <2>5, <2>6 DEF Proceed
<1>6. ASSUME NEW v \in Workers, LockEvent(v) \/ Fail(v)
      PROVE  RightAnswer(w)
  BY <1>1, <1>2, <1>6 DEF LockEvent, Fail
<1>7. CASE Organizer
  BY <1>7, WorkersAssumption DEF Organizer, PatchCapacity, PatchStatus, NoReply
<1> QED BY <1>4, <1>5, <1>6, <1>7 DEF Next

\* Every answer names a row that is there and is the attendee's own or the key's, an
\* empty key being nobody's, and a 409 is about the key, at either isolation level
\* (registrations.py 211-221 and 293-306).
THEOREM AnswersAreRight == Spec => AnswersWithItsRow
<1>1. AnswerInv /\ [Next]_vars => [\A w \in Workers : reply'.to = w => RightAnswer(w)]_vars
  BY AnswerIsRight
<1>2. [\A w \in Workers : reply'.to = w => RightAnswer(w)]_vars =>
        [\A w \in Workers : reply'.to = w =>
           /\ reply'.code = "ok" =>
               LET u == reply'.row IN
                  /\ HasRow(regs, u)
                  /\ u # job[w].user =>
                       job[w].key \notin {NoKey, BlankKey} /\ regs[u].key = job[w].key
           /\ reply'.code = "duplicate_registration" =>
               HoldersOf(regs, job[w].key) \ {job[w].user} # {}]_vars
  BY DEF RightAnswer
<1> QED BY <1>1, <1>2, AnswerInvAlways, PTL DEF Spec, AnswersWithItsRow

-----------------------------------------------------------------------------
(* Overbooking takes a commit in between. *)

\* An INSERT by a request whose view is still the table finds the room that the
\* request had found.
LEMMA UndisturbedInsert ==
    ASSUME AnswerInv, [Next]_vars, NEW w \in Workers,
           pc[w] = "insert", regs' # regs, pc'[w] # pc[w], view[w] = regs, seen[w] # Unlimited,
           Cardinality(Active(regs)) <= seen[w]
    PROVE  Cardinality(Active(regs')) <= seen[w]
<1>1. InsertRow(w)
  <2>1. ASSUME NEW v \in Workers, InsertRow(v) \/ Cancel(v)
        PROVE  v = w
    BY <2>1 DEF InsertRow, Cancel, Goto, Finish, AnswerInv, TypeOK
  <2>2. \E v \in Workers : InsertRow(v) \/ Cancel(v)
    BY DEF Next, vars, Arrive, Proceed, LockEvent, Fail, Organizer, RefuseClosed, RefuseIneligible,
           Refuse, StartRegister, StartCancel, ReplayFound, ReplayMissed, CountActive, TakePosition,
           InsertFails, Reread, Refresh, FindMissed, FindFound, PatchCapacity, PatchStatus
  <2> QED BY <2>1, <2>2 DEF Cancel
<1> PICK u : u = job[w].user
  OBVIOUS
<1>2. /\ u \in Users /\ target[w].status \in {"registered", "waitlisted"}
      /\ regs' = [regs EXCEPT ![u] = [status   |-> target[w].status,
                                     position |-> target[w].position,
                                     key      |-> job[w].key]]
  BY <1>1 DEF InsertRow, AnswerInv, Knows, Idle
<1>3. /\ IsFiniteSet(Active(regs)) /\ Cardinality(Active(regs)) \in Nat
      /\ Cardinality(Active(regs')) \in Nat /\ seen[w] \in Nat /\ seen[w] >= 1
  <2>1. seen[w] \in Capacities \cup {Unlimited}
    BY DEF AnswerInv, TypeOK
  <2>2. seen[w] \in Nat \ {0}
    BY <2>1, EventAssumption, Zenon
  <2>3. PICK s \in Nat \ {0} : s = seen[w]
    BY <2>2
  <2>4. seen[w] \in Nat /\ seen[w] >= 1
    BY <2>3
  <2> QED BY <2>4, ActiveIsFinite
<1>4. CASE target[w].status = "waitlisted"
  <2>1. Active(regs') \subseteq Active(regs)
    BY <1>2, <1>4 DEF Active, AnswerInv, TypeOK
  <2> QED BY <1>3, <2>1, FS_Subset
<1>5. CASE target[w].status = "registered"
  <2>1. Active(regs') = Active(regs) \cup {u}
    BY <1>2, <1>5 DEF Active, AnswerInv, TypeOK
  <2>2. Cardinality(Active(regs')) <= Cardinality(Active(regs)) + 1
    <3>1. Cardinality(Active(regs) \cup {u}) =
             IF u \in Active(regs) THEN Cardinality(Active(regs)) ELSE Cardinality(Active(regs)) + 1
      BY <1>3, FS_AddElement
    <3>2. Cardinality(Active(regs')) =
             IF u \in Active(regs) THEN Cardinality(Active(regs)) ELSE Cardinality(Active(regs)) + 1
      BY <2>1, <3>1, Zenon
    <3> QED BY <1>3, <3>2
  <2>3. Cardinality(Active(regs)) < seen[w]
    <3>1. CASE SnapshotReads
      BY <1>5, <3>1 DEF AnswerInv, Knows
    <3>2. CASE ~ SnapshotReads
      <4>1. regs = EmptyTable
        BY <3>2 DEF AnswerInv, Knows
      <4>2. Active(regs) = {}
        BY <4>1 DEF Active, EmptyTable, NoRow
      <4> QED BY <1>3, <4>2, FS_EmptySet
    <3> QED BY <3>1, <3>2
  <2> QED BY <1>3, <2>2, <2>3
<1> QED BY <1>2, <1>4, <1>5

\* Overbooking takes a commit between a request's first SELECT and its INSERT
\* (registrations.py 128-133, 249-292).
THEOREM OverbookingTakesACommit == Spec => UndisturbedRequestRespectsCapacity
<1>1. AnswerInv /\ [Next]_vars =>
        [\A w \in Workers :
           /\ pc[w] = "insert" /\ regs' # regs
           /\ pc'[w] # pc[w]
           /\ view[w] = regs
           /\ seen[w] # Unlimited
           /\ Cardinality(Active(regs)) <= seen[w]
           => Cardinality(Active(regs')) <= seen[w]]_vars
  BY UndisturbedInsert
<1> QED BY <1>1, AnswerInvAlways, PTL DEF Spec, UndisturbedRequestRespectsCapacity

=============================================================================
