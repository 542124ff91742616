------------------------ MODULE CheckinServiceProofs ------------------------
(***************************************************************************)
(* Theorems about the desk and the door together, for any attendees,       *)
(* threads of either kind, tokens and capacities, and at either isolation  *)
(* level: neither handler knows of the other, and their shared rows stay   *)
(* consistent without a lock at the door.                                  *)
(***************************************************************************)
EXTENDS CheckinService, TLAPS

\* The tables have a row, or the lack of one, for each attendee.
Tables ==
    /\ regs     = [u \in Users |-> [status   |-> regs[u].status,
                                    position |-> regs[u].position,
                                    key      |-> regs[u].key]]
    /\ \A u \in Users : regs[u].status \in Desk!RowStatus
    /\ checkins = [u \in Users |-> checkins[u]]
    /\ minted \subseteq Tokens

\* The desk decides on a place or on a wait, never on an attendance.
DeskDecides ==
    /\ target = [w \in DeskWorkers |-> target[w]]
    /\ \A w \in DeskWorkers : target[w].status \in {"absent", "registered", "waitlisted"}

\* A check-in under way is an attendee's, on a token or on none.
DoorServes ==
    /\ doorPc   = [w \in DoorWorkers |-> doorPc[w]]
    /\ doorJob  = [w \in DoorWorkers |-> doorJob[w]]
    /\ doorView = [w \in DoorWorkers |-> doorView[w]]
    /\ \A w \in DoorWorkers : doorJob[w].token \in Tokens \cup {NoToken}
    /\ \A w \in DoorWorkers : doorPc[w] # "idle" => doorJob[w].user \in Users

\* What a check-in has read of the attendee's registration, or written, still
\* holds: no step of the desk takes a row away, or a check-in.
DoorKnows ==
    \A w \in DoorWorkers :
        doorPc[w] # "idle" =>
            /\ doorView[w] = Door!Closed \/ doorView[w].status \in Desk!RowStatus
            /\ doorView[w].status \notin {"closed", "absent"} => Desk!HasRow(regs, doorJob[w].user)
            /\ doorPc[w] = "insert" => Desk!HasRow(regs, doorJob[w].user)
            /\ doorPc[w] \in {"reload", "mark"} => Door!CheckedIn(doorJob[w].user)

\* The inductive invariant.
Backed == Tables /\ DeskDecides /\ DoorServes /\ DoorKnows /\ AttendanceIsBacked

-----------------------------------------------------------------------------
(* The desk's steps *)

\* What a step of the desk does to the registrations: a row that is there stays,
\* and none becomes attended (registrations.py 281-292, 345-373).
DeskWrites ==
    /\ Tables'
    /\ \A u \in Users :
          /\ Desk!HasRow(regs, u) => Desk!HasRow(regs', u)
          /\ regs'[u].status = "attended" => regs[u].status = "attended"
          /\ regs[u].status = "cancelled" => regs'[u].status = "cancelled"

\* Most steps of the desk write no registration.
LEMMA DeskReads ==
    ASSUME Tables, DoorWaits, UNCHANGED regs
    PROVE  DeskWrites
BY DEF Tables, DoorWaits, doorVars, DeskWrites, Desk!HasRow

\* An UPDATE of one registration's status leaves a table of registrations.
LEMMA StatusWritten ==
    ASSUME Tables, NEW v, NEW status \in Desk!RowStatus,
           regs' = [regs EXCEPT ![v].status = status]
    PROVE  /\ regs' = [u \in Users |-> [status   |-> regs'[u].status,
                                        position |-> regs'[u].position,
                                        key      |-> regs'[u].key]]
           /\ \A u \in Users : regs'[u].status \in Desk!RowStatus
<1>1. ASSUME NEW u \in Users
      PROVE  regs'[u] = [status   |-> regs'[u].status,
                         position |-> regs'[u].position,
                         key      |-> regs'[u].key]
  <2>1. regs[u] = [status   |-> regs[u].status,
                   position |-> regs[u].position,
                   key      |-> regs[u].key]
    BY DEF Tables
  <2>2. regs'[u] = IF u = v THEN [regs[u] EXCEPT !.status = status] ELSE regs[u]
    BY DEF Tables
  <2>3. CASE u = v
    <3>1. regs'[u] = [status |-> status, position |-> regs[u].position, key |-> regs[u].key]
      BY <2>1, <2>2, <2>3
    <3> QED BY <3>1
  <2>4. CASE u # v
    BY <2>1, <2>2, <2>4
  <2> QED BY <2>3, <2>4
<1>2. regs' = [u \in Users |-> regs'[u]]
  BY DEF Tables
<1>3. \A u \in Users : regs'[u].status \in Desk!RowStatus
  BY DEF Tables
<1> QED BY <1>1, <1>2, <1>3

\* A request of the desk arrives.
LEMMA DeskArrives ==
    ASSUME Backed, DoorWaits, NEW w \in DeskWorkers, Desk!Arrive(w)
    PROVE  DeskWrites /\ DeskDecides'
<1>1. UNCHANGED regs
  BY DEF Desk!Arrive, Desk!RefuseClosed, Desk!RefuseIneligible, Desk!StartRegister,
         Desk!StartCancel, Desk!Refuse
<1>2. DeskDecides'
  BY DEF Backed, DeskDecides, Desk!Arrive, Desk!RefuseClosed, Desk!RefuseIneligible,
         Desk!StartRegister, Desk!StartCancel, Desk!Refuse, Desk!Finish, Desk!NoTarget
<1> QED BY <1>1, <1>2, DeskReads DEF Backed

\* A handler of the desk goes on: only its INSERT and its cancellation write.
LEMMA DeskProceeds ==
    ASSUME Backed, DoorWaits, NEW w \in DeskWorkers, Desk!Proceed(w)
    PROVE  DeskWrites /\ DeskDecides'
<1>1. CASE Desk!InsertRow(w)
  <2>1. /\ ~ Desk!HasRow(regs, deskJob[w].user)
        /\ target[w].status \in {"absent", "registered", "waitlisted"}
        /\ regs' = [regs EXCEPT ![deskJob[w].user] =
                       [status   |-> target[w].status,
                        position |-> target[w].position,
                        key      |-> deskJob[w].key]]
        /\ UNCHANGED target
    BY <1>1 DEF Desk!InsertRow, Desk!Collides, Backed, DeskDecides
  <2>2. Tables'
    BY <2>1 DEF Backed, Tables, DoorWaits, doorVars, Desk!RowStatus
  <2>3. \A u \in Users :
           /\ Desk!HasRow(regs, u) => Desk!HasRow(regs', u)
           /\ regs'[u].status = "attended" => regs[u].status = "attended"
           /\ regs[u].status = "cancelled" => regs'[u].status = "cancelled"
    BY <2>1 DEF Backed, Tables, Desk!HasRow
  <2> QED BY <2>1, <2>2, <2>3 DEF DeskWrites, Backed, DeskDecides
<1>2. CASE Desk!Cancel(w)
  <2>1. /\ regs' = [regs EXCEPT ![deskJob[w].user].status = "cancelled"]
        /\ target' = [target EXCEPT ![w] = Desk!NoTarget]
    BY <1>2 DEF Desk!Cancel, Desk!CancelledStatus, Desk!Finish
  <2>2. Tables'
    BY <2>1, StatusWritten DEF Backed, Tables, DoorWaits, doorVars, Desk!RowStatus
  <2>3. \A u \in Users :
           /\ Desk!HasRow(regs, u) => Desk!HasRow(regs', u)
           /\ regs'[u].status = "attended" => regs[u].status = "attended"
           /\ regs[u].status = "cancelled" => regs'[u].status = "cancelled"
    BY <2>1 DEF Backed, Tables, Desk!HasRow
  <2> QED BY <2>1, <2>2, <2>3 DEF DeskWrites, Backed, DeskDecides, Desk!NoTarget
<1>3. CASE ~ (Desk!InsertRow(w) \/ Desk!Cancel(w))
  <2>1. UNCHANGED regs
    BY <1>3
    DEF Desk!Proceed, Desk!ReplayFound, Desk!ReplayMissed, Desk!CountActive, Desk!TakePosition,
        Desk!InsertFails, Desk!Reread, Desk!Refresh, Desk!FindMissed, Desk!FindFound
  <2>2. \/ UNCHANGED target
        \/ target' = [target EXCEPT ![w] = Desk!NoTarget]
        \/ target' = [target EXCEPT ![w] = [status |-> "waitlisted", position |-> Desk!NextPosition(w)]]
    BY <1>3
    DEF Desk!Proceed, Desk!ReplayFound, Desk!ReplayMissed, Desk!CountActive, Desk!TakePosition,
        Desk!InsertFails, Desk!Reread, Desk!Refresh, Desk!FindMissed, Desk!FindFound, Desk!Finish
  <2>3. DeskDecides'
    BY <2>2 DEF Backed, DeskDecides, Desk!NoTarget
  <2> QED BY <2>1, <2>3, DeskReads DEF Backed
<1> QED BY <1>1, <1>2, <1>3

\* No step of the desk marks an attendance, loses a row or revives one.
LEMMA DeskStep ==
    ASSUME Backed, Desk!Next, DoorWaits
    PROVE  DeskWrites /\ DeskDecides'
<1>1. ASSUME NEW w \in DeskWorkers, Desk!LockEvent(w)
      PROVE  DeskWrites /\ DeskDecides'
  BY <1>1, DeskReads DEF Desk!LockEvent, Backed, DeskDecides
<1>2. ASSUME NEW w \in DeskWorkers, Desk!Fail(w)
      PROVE  DeskWrites /\ DeskDecides'
  BY <1>2, DeskReads DEF Desk!Fail, Desk!Finish, Desk!NoTarget, Backed, DeskDecides
<1>3. CASE Desk!Organizer
  BY <1>3, DeskReads DEF Desk!Organizer, Desk!PatchCapacity, Desk!PatchStatus, Backed, DeskDecides
<1> QED BY <1>1, <1>2, <1>3, DeskArrives, DeskProceeds DEF Desk!Next

\* Whatever the desk writes, the door's knowledge stays true.
LEMMA DeskKeepsBacked ==
    ASSUME Backed, Desk!Next, DoorWaits
    PROVE  Backed'
<1>1. DeskWrites /\ DeskDecides'
  BY DeskStep
<1>2. UNCHANGED <<checkins, minted, doorPc, doorJob, doorView>>
  BY DEF DoorWaits, doorVars
<1>3. DoorServes'
  BY <1>2 DEF Backed, DoorServes
<1>4. DoorKnows'
  BY <1>1, <1>2 DEF Backed, DoorServes, DoorKnows, DeskWrites, Door!CheckedIn, Door!Absent
<1>5. AttendanceIsBacked'
  BY <1>1, <1>2 DEF Backed, AttendanceIsBacked, DeskWrites, Door!CheckedIn, Door!Absent
<1> QED BY <1>1, <1>3, <1>4, <1>5 DEF Backed, DeskWrites

-----------------------------------------------------------------------------
(* The door's steps *)

\* What every step of the door leaves as it was.
LEMMA DoorLeaves ==
    ASSUME Backed, Door!Next, DeskWaits
    PROVE  DeskDecides' /\ event' = event
BY DEF Backed, DeskDecides, DeskWaits, deskVars, Door!Next, Door!Arrive, Door!Proceed, Door!Fail,
       Door!MintToken, Door!ExpireToken, Door!TurnAway, Door!RefuseInactive, Door!RefuseMethod,
       Door!StartCheckin, Door!Refuse, Door!PeekFails, Door!PeekPasses, Door!LocateFails,
       Door!LocatePasses, Door!LookupFails, Door!LookupPasses, Door!InsertCheckin,
       Door!InsertFails, Door!Reload, Door!MarkAttended, Door!RedeemNothing, Door!RedeemToken,
       Door!BurnToken, Door!tables

\* A step that ends a worker's handler, and writes nothing.
LEMMA DoorFinishes ==
    ASSUME Backed, NEW w \in DoorWorkers, NEW code, Door!Finish(w, code), UNCHANGED Door!tables
    PROVE  Tables' /\ DoorServes' /\ DoorKnows' /\ AttendanceIsBacked'
<1> USE DEF Door!tables, Door!CheckedIn, Door!Absent, Desk!HasRow
<1>1. Tables'
  BY DEF Backed, Tables
<1>2. DoorServes'
  BY DEF Backed, DoorServes, Door!Finish, Door!NoJob, Door!Idle
<1>3. DoorKnows'
  BY DEF Backed, DoorServes, DoorKnows, Door!Finish, Door!Idle
<1>4. AttendanceIsBacked'
  BY DEF Backed, AttendanceIsBacked
<1> QED BY <1>1, <1>2, <1>3, <1>4

\* A request arrives at the door, and is refused or starts a check-in.
LEMMA DoorArrives ==
    ASSUME Backed, NEW w \in DoorWorkers, Door!Arrive(w)
    PROVE  Tables' /\ DoorServes' /\ DoorKnows' /\ AttendanceIsBacked'
<1>1. ASSUME NEW code, Door!Refuse(w, code)
      PROVE  Tables' /\ DoorServes' /\ DoorKnows' /\ AttendanceIsBacked'
  BY <1>1, DoorFinishes DEF Door!Refuse
<1>2. ASSUME NEW u \in Users, NEW t \in minted \cup {NoToken}, NEW m, Door!StartCheckin(w, u, t, m)
      PROVE  Tables' /\ DoorServes' /\ DoorKnows' /\ AttendanceIsBacked'
  <2> DEFINE tok == IF Door!NeedsQr(Door!MethodOf(m)) THEN t ELSE NoToken
  <2>1. PICK label \in {"peek", "locate", "lookup"} : doorPc' = [doorPc EXCEPT ![w] = label]
    BY <1>2 DEF Door!StartCheckin, Door!Goto, Door!AfterQr
  <2>2. /\ doorJob' = [doorJob EXCEPT ![w] =
                          [user |-> u, token |-> tok, method |-> Door!MethodOf(m)]]
        /\ doorView' = [doorView EXCEPT ![w] = Door!OpenView(u, tok)]
        /\ tok \in Tokens \cup {NoToken}
        /\ UNCHANGED <<regs, checkins, minted>>
    BY <1>2 DEF Door!StartCheckin, Door!tables, Backed, Tables
  <2>3. \/ Door!OpenView(u, tok) = Door!Closed
        \/ Door!OpenView(u, tok).status = regs[u].status
    BY DEF Door!OpenView, Door!Now, Door!Closed
  <2> HIDE DEF tok
  <2>4. Tables'
    BY <2>2 DEF Backed, Tables
  <2>5. DoorServes'
    BY <2>1, <2>2 DEF Backed, DoorServes
  <2>6. DoorKnows'
    <3>1. PICK v : /\ doorView' = [doorView EXCEPT ![w] = v]
                   /\ v = Door!Closed \/ v.status = regs[u].status
      BY <2>2, <2>3
    <3>2. doorJob'[w].user = u /\ doorPc'[w] = label /\ doorView'[w] = v
      BY <2>1, <2>2, <3>1 DEF Backed, DoorServes
    <3>3. \A x \in DoorWorkers \ {w} :
              doorJob'[x] = doorJob[x] /\ doorPc'[x] = doorPc[x] /\ doorView'[x] = doorView[x]
      BY <2>1, <2>2, <3>1 DEF Backed, DoorServes
    <3>4. regs[u].status \in Desk!RowStatus /\ label \notin {"insert", "reload", "mark"}
      BY DEF Backed, Tables
    <3> QED BY <2>2, <3>1, <3>2, <3>3, <3>4
        DEF Backed, DoorKnows, Desk!HasRow, Door!CheckedIn, Door!Absent, Door!Closed
  <2>7. AttendanceIsBacked'
    BY <2>2 DEF Backed, AttendanceIsBacked, Desk!HasRow, Door!CheckedIn, Door!Absent
  <2> QED BY <2>4, <2>5, <2>6, <2>7
<1> QED BY <1>1, <1>2
    DEF Door!Arrive, Door!TurnAway, Door!RefuseInactive, Door!RefuseMethod

\* A SELECT at the door that finds a registration finds one that is still there.
LEMMA DoorReadsTruth ==
    ASSUME Backed, NEW w \in DoorWorkers, doorPc[w] # "idle", Door!Read(w).status # "absent"
    PROVE  Desk!HasRow(regs, doorJob[w].user)
BY DEF Backed, DoorKnows, Door!Read, Door!Now, Door!Closed, Desk!HasRow, Desk!RowStatus

\* A check-in goes on: it inserts only for a registration that is there, and
\* marks only what it inserted (checkins.py 326-386).
LEMMA DoorProceeds ==
    ASSUME Backed, NEW w \in DoorWorkers, Door!Proceed(w)
    PROVE  Tables' /\ DoorServes' /\ DoorKnows' /\ AttendanceIsBacked'
<1> DEFINE Held == Tables' /\ DoorServes' /\ DoorKnows' /\ AttendanceIsBacked'
           user == doorJob[w].user
<1> USE DEF Door!CheckedIn, Door!Absent, Desk!HasRow, Door!Idle
<1>1. ASSUME NEW label \in {"locate", "lookup", "burn"}, doorPc[w] # "idle",
             doorPc' = [doorPc EXCEPT ![w] = label],
             UNCHANGED <<regs, checkins, minted, doorJob, doorView>>
      PROVE  Held
  BY <1>1 DEF Backed, Tables, DoorServes, DoorKnows, AttendanceIsBacked
<1>2. CASE Door!PeekPasses(w) \/ Door!LocatePasses(w) \/ Door!RedeemToken(w)
  BY <1>1, <1>2
  DEF Door!PeekPasses, Door!LocatePasses, Door!RedeemToken, Door!Goto, Door!AfterQr, Door!tables
<1>3. CASE Door!LookupPasses(w)
  <2>1. /\ doorPc[w] = "lookup"
        /\ doorPc' = [doorPc EXCEPT ![w] = "insert"]
        /\ UNCHANGED <<regs, checkins, minted, doorJob, doorView>>
        /\ Door!Read(w).status # "absent"
    BY <1>3 DEF Door!LookupPasses, Door!Goto, Door!RefusesStatus, Door!tables
  <2>2. Desk!HasRow(regs, user)
    BY <2>1, DoorReadsTruth
  <2> QED BY <2>1, <2>2 DEF Backed, Tables, DoorServes, DoorKnows, AttendanceIsBacked
<1>4. CASE Door!InsertCheckin(w)
  <2>1. /\ doorPc[w] = "insert" /\ user \in Users /\ regs[user].status # "absent"
        /\ doorJob[w].token # "absent"
        /\ checkins' = [checkins EXCEPT ![user] = doorJob[w].token]
        /\ doorView' = [doorView EXCEPT ![w] = Door!Closed]
        /\ doorPc' = [doorPc EXCEPT ![w] = "reload"]
        /\ UNCHANGED <<regs, minted, doorJob>>
    BY <1>4, ServiceAssumption DEF Door!InsertCheckin, Door!Goto, Backed, DoorKnows, DoorServes
  <2>2. \A u \in Users : checkins'[u] = IF u = user THEN doorJob[w].token ELSE checkins[u]
    BY <2>1 DEF Backed, Tables
  <2>3. Tables' /\ DoorServes' /\ AttendanceIsBacked'
    BY <2>1, <2>2 DEF Backed, Tables, DoorServes, AttendanceIsBacked
  <2>4. DoorKnows'
    BY <2>1, <2>2 DEF Backed, DoorServes, DoorKnows, Door!Closed
  <2> QED BY <2>3, <2>4
<1>5. CASE Door!Reload(w)
  <2>1. PICK label \in {"mark", "redeem"} : doorPc' = [doorPc EXCEPT ![w] = label]
    BY <1>5 DEF Door!Reload, Door!Goto, Door!AfterReload
  <2>2. /\ doorPc[w] = "reload"
        /\ doorView' = [doorView EXCEPT ![w] = Door!OpenView(user, doorJob[w].token)]
        /\ UNCHANGED <<regs, checkins, minted, doorJob>>
    BY <1>5 DEF Door!Reload, Door!tables
  <2>3. \/ Door!OpenView(user, doorJob[w].token) = Door!Closed
        \/ Door!OpenView(user, doorJob[w].token).status = regs[user].status
    BY DEF Door!OpenView, Door!Now, Door!Closed
  <2>4. Tables' /\ DoorServes' /\ AttendanceIsBacked'
    BY <2>1, <2>2 DEF Backed, Tables, DoorServes, AttendanceIsBacked
  <2>5. DoorKnows'
    BY <2>1, <2>2, <2>3 DEF Backed, Tables, DoorServes, DoorKnows, Door!Closed
  <2> QED BY <2>4, <2>5
<1>6. CASE Door!MarkAttended(w)
  <2>1. /\ doorPc[w] = "mark" /\ user \in Users /\ Door!CheckedIn(user)
        /\ regs' = [regs EXCEPT ![user].status = "attended"]
        /\ doorView' = [doorView EXCEPT ![w] = Door!Closed]
        /\ doorPc' = [doorPc EXCEPT ![w] = "redeem"]
        /\ UNCHANGED <<checkins, minted, doorJob>>
    BY <1>6 DEF Door!MarkAttended, Door!AttendedStatus, Door!Goto, Backed, DoorKnows, DoorServes
  <2>2. \A u \in Users : regs'[u].status = IF u = user THEN "attended" ELSE regs[u].status
    BY <2>1 DEF Backed, Tables
  <2>3. Tables'
    BY <2>1, StatusWritten DEF Backed, Tables, Desk!RowStatus
  <2>4. DoorServes'
    BY <2>1 DEF Backed, DoorServes
  <2>5. AttendanceIsBacked'
    BY <2>1, <2>2 DEF Backed, AttendanceIsBacked
  <2>6. DoorKnows'
    BY <2>1, <2>2 DEF Backed, DoorServes, DoorKnows, Door!Closed
  <2> QED BY <2>3, <2>4, <2>5, <2>6
<1>7. CASE Door!BurnToken(w)
  <2>1. /\ doorPc'   = [doorPc EXCEPT ![w] = "idle"]
        /\ doorJob'  = [doorJob EXCEPT ![w] = Door!NoJob]
        /\ doorView' = [doorView EXCEPT ![w] = Door!Closed]
        /\ UNCHANGED <<regs, checkins, minted>>
    BY <1>7 DEF Door!BurnToken, Door!Finish
  <2> QED BY <2>1 DEF Backed, Tables, DoorServes, DoorKnows, AttendanceIsBacked, Door!NoJob
<1>8. CASE \/ Door!PeekFails(w) \/ Door!LocateFails(w) \/ Door!LookupFails(w)
           \/ Door!InsertFails(w) \/ Door!RedeemNothing(w)
  BY <1>8, DoorFinishes
  DEF Door!PeekFails, Door!LocateFails, Door!LookupFails, Door!InsertFails, Door!RedeemNothing
<1> QED BY <1>2, <1>3, <1>4, <1>5, <1>6, <1>7, <1>8 DEF Door!Proceed

\* Every step of the door keeps the invariant: a token may be minted or expire,
\* and a request may die, at any moment.
LEMMA DoorKeepsBacked ==
    ASSUME Backed, Door!Next, DeskWaits
    PROVE  Backed'
<1>1. ASSUME NEW w \in DoorWorkers, Door!Fail(w)
      PROVE  Tables' /\ DoorServes' /\ DoorKnows' /\ AttendanceIsBacked'
  BY <1>1, DoorFinishes DEF Door!Fail
<1>2. ASSUME NEW t \in Tokens, Door!MintToken(t) \/ Door!ExpireToken(t)
      PROVE  Tables' /\ DoorServes' /\ DoorKnows' /\ AttendanceIsBacked'
  <2>1. UNCHANGED <<regs, checkins, doorPc, doorJob, doorView>> /\ minted' \subseteq Tokens
    BY <1>2 DEF Door!MintToken, Door!ExpireToken, Backed, Tables
  <2> QED BY <2>1 DEF Backed, Tables, DoorServes, DoorKnows, AttendanceIsBacked,
                      Door!CheckedIn, Door!Absent, Desk!HasRow
<1> QED BY <1>1, <1>2, DoorArrives, DoorProceeds, DoorLeaves DEF Door!Next, Backed

-----------------------------------------------------------------------------
(* The service *)

\* At first nobody is registered, and the door is closed.
LEMMA BackedInit == Init => Backed
<1> SUFFICES ASSUME Init PROVE Backed
  OBVIOUS
<1> USE DEF Init, Desk!Init, Door!InitDoor
<1>1. Tables
  BY DEF Tables, Desk!EmptyTable, Desk!NoRow, Desk!RowStatus
<1>2. DeskDecides
  BY DEF DeskDecides, Desk!NoTarget
<1>3. DoorServes /\ DoorKnows
  BY DEF DoorServes, DoorKnows, Door!NoJob, Door!Idle
<1>4. AttendanceIsBacked
  BY DEF AttendanceIsBacked, Door!CheckedIn, Door!Absent, Desk!EmptyTable, Desk!NoRow
<1> QED BY <1>1, <1>2, <1>3, <1>4 DEF Backed

\* Every step of the service keeps the invariant.
LEMMA BackedStep == Backed /\ [Next]_vars => Backed'
<1>1. ASSUME Backed, UNCHANGED vars
      PROVE  Backed'
  BY <1>1 DEF vars, deskVars, doorVars, Backed, Tables, DeskDecides, DoorServes, DoorKnows,
              AttendanceIsBacked, Door!CheckedIn, Door!Absent, Desk!HasRow
<1> QED BY <1>1, DeskKeepsBacked, DoorKeepsBacked DEF Next

\* Nobody is attended without a check-in, and nobody is checked in without a
\* registration, whatever the desk does meanwhile (checkins.py 326-386).
THEOREM AttendanceHasCheckin == Spec => []AttendanceIsBacked
<1>1. Backed => AttendanceIsBacked
  BY DEF Backed
<1> QED BY BackedInit, BackedStep, <1>1, PTL DEF Spec

\* Of a cancelled registration, a step makes nothing but an attended one, and
\* only the step of a check-in that read it before it was cancelled.
LEMMA CancelledStep ==
    ASSUME Backed, Next, NEW u \in Users,
           regs[u].status = "cancelled", regs'[u].status # "cancelled"
    PROVE  /\ regs'[u].status = "attended"
           /\ \E w \in DoorWorkers :
                 doorPc[w] = "mark" /\ doorJob[w].user = u /\ doorPc'[w] = "redeem"
<1>1. ~ (Desk!Next /\ DoorWaits)
  BY DeskStep DEF DeskWrites
<1>2. Door!Next
  BY <1>1 DEF Next
<1>3. PICK w \in DoorWorkers : Door!MarkAttended(w)
  BY <1>2
  DEF Door!Next, Door!Arrive, Door!Proceed, Door!Fail, Door!MintToken, Door!ExpireToken,
      Door!TurnAway, Door!RefuseInactive, Door!RefuseMethod, Door!StartCheckin, Door!Refuse,
      Door!PeekFails, Door!PeekPasses, Door!LocateFails, Door!LocatePasses, Door!LookupFails,
      Door!LookupPasses, Door!InsertCheckin, Door!InsertFails, Door!Reload, Door!RedeemNothing,
      Door!RedeemToken, Door!BurnToken, Door!tables
<1>4. /\ doorPc[w] = "mark" /\ doorPc' = [doorPc EXCEPT ![w] = "redeem"]
      /\ regs' = [regs EXCEPT ![doorJob[w].user].status = "attended"]
  BY <1>3 DEF Door!MarkAttended, Door!AttendedStatus, Door!Goto
<1>5. doorJob[w].user = u /\ regs'[u].status = "attended"
  BY <1>4 DEF Backed, Tables
<1> QED BY <1>4, <1>5 DEF Backed, DoorServes

\* A cancelled registration comes back only as attended, and only through a
\* check-in that had let its attendee in and read its status before the
\* cancellation (registrations.py 293-306, 371, checkins.py 384-386).
THEOREM CancelledReturnsOnlyAtTheDoor == Spec => CancelledReturnsOnlyAsAttended
<1> DEFINE Returns == \A u \in Users :
             regs[u].status = "cancelled" /\ regs'[u].status # "cancelled" =>
               /\ regs'[u].status = "attended"
               /\ \E w \in DoorWorkers :
                     doorPc[w] = "mark" /\ doorJob[w].user = u /\ doorPc'[w] = "redeem"
<1>1. Backed /\ [Next]_vars => [Returns]_vars
  BY CancelledStep
<1> QED BY BackedInit, BackedStep, <1>1, PTL DEF Spec, CancelledReturnsOnlyAsAttended

=============================================================================
