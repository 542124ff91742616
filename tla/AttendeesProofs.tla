-------------------------- MODULE AttendeesProofs --------------------------
(***************************************************************************)
(* What attendees may rely on, for any users, groups, events, venues,      *)
(* speeds, settings and schedules.  First the retention job: where a hash  *)
(* stands against its deadline (JobInv), and the types; then the gates,    *)
(* whose events keep the tenant they were created under (Authored); then   *)
(* the journeys, of which TravelProofs has shown the invariant; last all   *)
(* of them together.                                                       *)
(***************************************************************************)
EXTENDS Attendees, SequenceTheorems, FiniteSetTheorems, TLAPS

-----------------------------------------------------------------------------
(* The job *)

CheckinRow == [at : Int, hashed : BOOLEAN]

\* What the steps read is recorded: rows, days and places.
Recorded ==
    /\ rows \in Seq(CheckinRow)
    /\ today \in Int /\ due \in Int /\ missed \in Nat /\ next \in Nat \ {0}
    /\ setting \in Settings
    /\ job \in {"idle", "scan"}

\* The job runs on the day it is due, and only then is a day over; its cutoff is
\* that of the day.
OnSchedule ==
    /\ today <= due /\ due <= today + Period
    /\ job = "scan" => /\ Enabled
                       /\ due = today + Period
                       /\ cutoff = today - RetentionDays

\* The day by which the run under way, or else the next one, scrubs.
Deadline == IF job = "scan" THEN today ELSE due

\* Every hash is within its window on that day, but for the runs that died.
Timely ==
    Enabled => \A i \in DOMAIN rows :
        rows[i].hashed => Deadline <= rows[i].at + RetentionDays + Period * (1 + missed)

\* The UPDATE has visited the rows before the next one: those that it left keep
\* their hashes by right, those that it took are older than the cutoff.
Visited ==
    job = "scan" =>
        /\ \A i \in DOMAIN rows :
              i < next /\ rows[i].hashed /\ i \notin scrubbed => rows[i].at >= cutoff
        /\ \A i \in scrubbed : i \in DOMAIN rows /\ rows[i].at < cutoff

\* Between runs no row is changed and not committed.
NothingPending == job = "idle" => scrubbed = {}

JobInv == Recorded /\ OnSchedule /\ Timely /\ Visited /\ NothingPending

-----------------------------------------------------------------------------
(* Helpers *)

\* The number of days is one: max(value, 0), or the default (geofence_retention.py 48-54).
LEMMA RetentionDaysInNat ==
    ASSUME RetentionAssumption, setting \in Settings
    PROVE  RetentionDays \in Nat
<1>1. CASE setting = Malformed
  BY <1>1 DEF RetentionAssumption, RetentionDays
<1>2. CASE setting # Malformed
  BY <1>2 DEF RetentionAssumption, RetentionDays
<1> QED BY <1>1, <1>2

\* A run that dies adds a period to what hashes are allowed, one that ends takes all
\* such periods back.
LEMMA Periods ==
    ASSUME NEW p \in Nat, NEW n \in Nat
    PROVE  /\ p * (1 + n) \in Nat /\ p * (1 + n) >= p
           /\ p * (1 + (n + 1)) = p * (1 + n) + p
           /\ p * (1 + 0) = p
OBVIOUS

\* What the table is: rows, from the first to the last.
LEMMA TableOfRows ==
    ASSUME Recorded
    PROVE  /\ Len(rows) \in Nat /\ DOMAIN rows = 1..Len(rows)
           /\ \A i \in DOMAIN rows : rows[i] \in CheckinRow
BY LenProperties, ElementOfSeq DEF Recorded

\* The table after the UPDATE, with the hashes of the rows in S taken.
LEMMA TableAfterUpdate ==
    ASSUME Recorded, NEW S,
           rows' = [i \in DOMAIN rows |->
                      IF i \in S THEN [rows[i] EXCEPT !.hashed = FALSE] ELSE rows[i]]
    PROVE  /\ rows' \in Seq(CheckinRow) /\ DOMAIN rows' = DOMAIN rows
           /\ Len(rows') = Len(rows)
           /\ \A i \in DOMAIN rows :
                 /\ rows'[i].at = rows[i].at
                 /\ rows'[i].hashed <=> rows[i].hashed /\ i \notin S
<1>1. /\ Len(rows) \in Nat /\ DOMAIN rows = 1..Len(rows)
      /\ \A i \in DOMAIN rows : rows[i] \in CheckinRow
  BY TableOfRows
<1>2. rows' \in [1..Len(rows) -> CheckinRow]
  BY <1>1 DEF CheckinRow
<1>3. rows' \in Seq(CheckinRow)
  BY <1>1, <1>2, SeqDef
<1>4. Len(rows') = Len(rows) /\ DOMAIN rows' = DOMAIN rows
  BY <1>1, <1>2, <1>3, LenProperties
<1>5. ASSUME NEW i \in DOMAIN rows
      PROVE  /\ rows'[i].at = rows[i].at
             /\ rows'[i].hashed <=> rows[i].hashed /\ i \notin S
  BY <1>1, <1>5 DEF CheckinRow
<1> QED BY <1>3, <1>4, <1>5

\* The table after an INSERT.
LEMMA TableAfterInsert ==
    ASSUME Recorded, NEW w \in Workers, NEW hashed \in BOOLEAN, InsertCheckin(w, hashed)
    PROVE  /\ rows' \in Seq(CheckinRow) /\ Len(rows') = Len(rows) + 1
           /\ DOMAIN rows' = 1..(Len(rows) + 1)
           /\ \A i \in DOMAIN rows : rows'[i] = rows[i]
           /\ rows'[Len(rows) + 1] = [at |-> today, hashed |-> hashed]
<1> DEFINE row == [at |-> today, hashed |-> hashed]
<1>1. rows \in Seq(CheckinRow) /\ row \in CheckinRow /\ rows' = Append(rows, row)
  BY DEF Recorded, CheckinRow, InsertCheckin
<1> HIDE DEF row
<1>2. /\ rows' \in Seq(CheckinRow) /\ Len(rows') = Len(rows) + 1
      /\ \A i \in 1..Len(rows) : rows'[i] = rows[i]
      /\ rows'[Len(rows) + 1] = row
  BY <1>1, AppendProperties
<1>3. DOMAIN rows' = 1..Len(rows') /\ DOMAIN rows = 1..Len(rows)
  BY <1>1, <1>2, LenProperties
<1> QED BY <1>2, <1>3 DEF row

-----------------------------------------------------------------------------
(* The invariant *)

\* There is no row before the first check-in, and the first run is due.
LEMMA InvInit ==
    ASSUME RetentionAssumption, Init
    PROVE  JobInv
<1>1. rows = <<>> /\ DOMAIN rows = {} /\ rows \in Seq(CheckinRow)
  BY DEF Init
<1>2. Recorded
  BY <1>1 DEF Init, Recorded
<1>3. OnSchedule /\ NothingPending
  BY DEF Init, OnSchedule, NothingPending, RetentionAssumption
<1>4. Timely /\ Visited
  BY <1>1 DEF Init, Timely, Visited
<1> QED BY <1>2, <1>3, <1>4 DEF JobInv

\* A run starts on the day it is due, with nothing visited (geofence_retention.py 57-70).
LEMMA InvStart ==
    ASSUME RetentionAssumption, JobInv, Start
    PROVE  JobInv'
<1>1. RetentionDays \in Nat /\ RetentionDays' = RetentionDays /\ Period \in Nat
  BY RetentionDaysInNat DEF JobInv, Recorded, Start, RetentionDays, RetentionAssumption
<1>2. today = due
  BY DEF JobInv, Recorded, OnSchedule, Start
<1>3. Recorded'
  BY <1>1 DEF JobInv, Recorded, Start, Enabled
<1>4. OnSchedule' /\ NothingPending'
  BY <1>1 DEF JobInv, Recorded, OnSchedule, NothingPending, Start, Enabled
<1>5. Deadline' = Deadline
  BY <1>2 DEF Start, Deadline
<1>6. Timely'
  BY <1>1, <1>5 DEF JobInv, Timely, Start, Enabled
<1>7. Visited'
  BY TableOfRows DEF JobInv, Visited, NothingPending, Start
<1> QED BY <1>3, <1>4, <1>6, <1>7 DEF JobInv

\* A run that is not enabled only has a next one (geofence_retention.py 57-59).
LEMMA InvStartDisabled ==
    ASSUME RetentionAssumption, JobInv, StartDisabled
    PROVE  JobInv'
<1>1. RetentionDays' = RetentionDays /\ Period \in Nat
  BY DEF StartDisabled, RetentionDays, RetentionAssumption
<1>2. Recorded'
  BY <1>1 DEF JobInv, Recorded, StartDisabled
<1>3. OnSchedule' /\ NothingPending'
  BY <1>1 DEF JobInv, Recorded, OnSchedule, NothingPending, StartDisabled, Enabled
<1>4. Timely' /\ Visited'
  BY <1>1 DEF Timely, Visited, StartDisabled, Enabled
<1> QED BY <1>2, <1>3, <1>4 DEF JobInv

\* The UPDATE takes the hashes of one row if it is older than the cutoff, and leaves
\* it if it is not (geofence_retention.py 72-86).
LEMMA InvVisit ==
    ASSUME RetentionAssumption, JobInv, Visit
    PROVE  JobInv'
<1>1. RetentionDays' = RetentionDays /\ Deadline' = Deadline
  BY DEF Visit, RetentionDays, Deadline
<1>2. Recorded'
  BY DEF JobInv, Recorded, Visit
<1>3. OnSchedule' /\ NothingPending'
  BY <1>1 DEF JobInv, OnSchedule, NothingPending, Visit, Enabled
<1>4. Timely'
  BY <1>1 DEF JobInv, Timely, Visit, Enabled
<1>5. cutoff \in Int
  BY RetentionDaysInNat DEF JobInv, Recorded, OnSchedule, Visit
<1>6. next \in DOMAIN rows /\ \A i \in DOMAIN rows : i \in Nat /\ rows[i].at \in Int
  <2>1. /\ Len(rows) \in Nat /\ DOMAIN rows = 1..Len(rows)
        /\ \A i \in DOMAIN rows : rows[i] \in CheckinRow
    BY TableOfRows DEF JobInv
  <2>2. next \in Nat /\ 1 <= next /\ next <= Len(rows)
    BY DEF JobInv, Recorded, Visit
  <2> QED BY <2>1, <2>2 DEF CheckinRow
<1>7. Visited'
  <2>1. ASSUME NEW i \in DOMAIN rows, i < next + 1, rows[i].hashed, i \notin scrubbed'
        PROVE  rows[i].at >= cutoff
    BY <1>2, <1>5, <1>6, <2>1 DEF JobInv, Recorded, Visited, Visit, Old
  <2>2. ASSUME NEW i \in scrubbed'
        PROVE  i \in DOMAIN rows /\ rows[i].at < cutoff
    BY <1>6, <2>2 DEF JobInv, Visited, Visit, Old
  <2> QED BY <2>1, <2>2 DEF Visited, Visit
<1> QED BY <1>2, <1>3, <1>4, <1>7 DEF JobInv

\* A run that comes to its end has taken every hash that is out of its window: the
\* rest is within it for one period more (geofence_retention.py 72-87).
LEMMA InvCommit ==
    ASSUME RetentionAssumption, JobInv, Commit
    PROVE  JobInv'
<1>1. /\ RetentionDays \in Nat /\ RetentionDays' = RetentionDays
      /\ Period \in Nat /\ Period * (1 + 0) = Period
  BY RetentionDaysInNat
  DEF JobInv, Recorded, Commit, End, RetentionDays, RetentionAssumption
<1>2. /\ rows' \in Seq(CheckinRow) /\ DOMAIN rows' = DOMAIN rows
      /\ \A i \in DOMAIN rows :
            /\ rows'[i].at = rows[i].at
            /\ rows'[i].hashed <=> rows[i].hashed /\ i \notin scrubbed
  BY TableAfterUpdate DEF JobInv, Commit, End
<1>3. Recorded'
  BY <1>2 DEF JobInv, Recorded, Commit, End
<1>4. OnSchedule' /\ NothingPending' /\ Visited'
  BY DEF JobInv, OnSchedule, NothingPending, Visited, Commit, End
<1>5. Timely'
  <2> SUFFICES ASSUME NEW i \in DOMAIN rows, rows'[i].hashed
               PROVE  due <= rows[i].at + RetentionDays + Period
    BY <1>1, <1>2 DEF Timely, Deadline, Commit, End, Enabled
  <2>1. i < next /\ rows[i].at \in Int
    BY TableOfRows DEF JobInv, Recorded, Commit, CheckinRow
  <2>2. rows[i].at >= today - RetentionDays /\ due = today + Period
    BY <1>2, <2>1 DEF JobInv, OnSchedule, Visited, Commit
  <2> QED BY <1>1, <2>1, <2>2 DEF JobInv, Recorded
<1> QED BY <1>3, <1>4, <1>5 DEF JobInv

\* A run that dies leaves the table as it was, and what it should have taken to the
\* next one (geofence_retention.py 67-87).
LEMMA InvDie ==
    ASSUME RetentionAssumption, JobInv, Die
    PROVE  JobInv'
<1>1. /\ RetentionDays \in Nat /\ RetentionDays' = RetentionDays
      /\ Period \in Nat /\ missed \in Nat /\ missed' = missed + 1
      /\ Period * (1 + missed) \in Nat
      /\ Period * (1 + missed') = Period * (1 + missed) + Period
  BY RetentionDaysInNat, Periods
  DEF JobInv, Recorded, Die, End, RetentionDays, RetentionAssumption
<1>2. Recorded'
  BY <1>1 DEF JobInv, Recorded, Die, End
<1>3. OnSchedule' /\ NothingPending' /\ Visited'
  BY DEF JobInv, OnSchedule, NothingPending, Visited, Die, End
<1>4. Timely'
  <2> DEFINE allowed == Period * (1 + missed)
             more == Period * (1 + missed')
  <2> SUFFICES ASSUME Enabled, NEW i \in DOMAIN rows, rows[i].hashed
               PROVE  due <= rows[i].at + RetentionDays + more
    BY <1>1 DEF Timely, Deadline, Die, End, Enabled
  <2>1. rows[i].at \in Int
    BY TableOfRows DEF JobInv, CheckinRow
  <2>2. today <= rows[i].at + RetentionDays + allowed /\ due = today + Period
    BY DEF JobInv, OnSchedule, Timely, Deadline, Die
  <2>3. allowed \in Nat /\ more = allowed + Period
    BY <1>1
  <2>4. today \in Int /\ RetentionDays \in Nat /\ Period \in Nat
    BY <1>1 DEF JobInv, Recorded
  <2> HIDE DEF allowed, more
  <2> QED BY <2>1, <2>2, <2>3, <2>4
<1> QED BY <1>2, <1>3, <1>4 DEF JobInv

\* A new check-in is of today, whose hashes neither this run nor the next is late
\* for (routers/checkins.py 225-310).
LEMMA InvInsertCheckin ==
    ASSUME RetentionAssumption, JobInv,
           NEW w \in Workers, NEW hashed \in BOOLEAN, InsertCheckin(w, hashed)
    PROVE  JobInv'
<1>1. /\ RetentionDays \in Nat /\ RetentionDays' = RetentionDays
      /\ Period \in Nat /\ missed \in Nat
      /\ Period * (1 + missed) \in Nat /\ Period * (1 + missed) >= Period
  BY RetentionDaysInNat, Periods
  DEF JobInv, Recorded, InsertCheckin, RetentionDays, RetentionAssumption
<1>2. /\ rows' \in Seq(CheckinRow)
      /\ \A i \in DOMAIN rows : rows'[i] = rows[i]
      /\ \A i \in DOMAIN rows' : i \in DOMAIN rows \/ rows'[i].at = today
      /\ DOMAIN rows \subseteq DOMAIN rows'
  <2>1. /\ rows' \in Seq(CheckinRow) /\ DOMAIN rows' = 1..(Len(rows) + 1)
        /\ \A i \in DOMAIN rows : rows'[i] = rows[i]
        /\ rows'[Len(rows) + 1] = [at |-> today, hashed |-> hashed]
    BY Zenon, TableAfterInsert DEF JobInv
  <2>2. Len(rows) \in Nat /\ DOMAIN rows = 1..Len(rows)
    BY TableOfRows DEF JobInv
  <2>3. \A i \in DOMAIN rows' : i \in DOMAIN rows \/ i = Len(rows) + 1
    BY <2>1, <2>2
  <2> QED BY <2>1, <2>2, <2>3
<1>3. Recorded'
  BY <1>2 DEF JobInv, Recorded, InsertCheckin, jobState
<1>4. OnSchedule' /\ NothingPending'
  BY <1>1 DEF JobInv, OnSchedule, NothingPending, InsertCheckin, jobState, Enabled
<1>5. Timely'
  <2> DEFINE allowed == Period * (1 + missed)
  <2> SUFFICES ASSUME Enabled, NEW i \in DOMAIN rows', rows'[i].hashed
               PROVE  Deadline <= rows'[i].at + RetentionDays + allowed
    BY <1>1 DEF Timely, Deadline, InsertCheckin, jobState, Enabled
  <2>1. CASE i \in DOMAIN rows
    BY <1>2, <2>1 DEF JobInv, Timely
  <2>2. CASE rows'[i].at = today
    <3>1. Deadline <= today + Period /\ Deadline \in Int
      BY <1>1 DEF JobInv, Recorded, OnSchedule, Deadline
    <3>2. allowed \in Nat /\ allowed >= Period
      BY <1>1
    <3> HIDE DEF allowed
    <3> QED BY <1>1, <2>2, <3>1, <3>2 DEF JobInv, Recorded
  <2> QED BY <1>2, <2>1, <2>2
<1>6. Visited'
  <2> SUFFICES ASSUME job = "scan" PROVE Visited'
    BY DEF Visited, InsertCheckin, jobState
  <2>1. today >= cutoff
    BY <1>1 DEF JobInv, Recorded, OnSchedule
  <2>2. ASSUME NEW i \in DOMAIN rows', i < next, rows'[i].hashed, i \notin scrubbed
        PROVE  rows'[i].at >= cutoff
    BY <1>2, <2>1, <2>2 DEF JobInv, Visited
  <2>3. ASSUME NEW i \in scrubbed
        PROVE  i \in DOMAIN rows' /\ rows'[i].at < cutoff
    BY <1>2, <2>3 DEF JobInv, Visited
  <2> QED BY <2>2, <2>3 DEF Visited, InsertCheckin, jobState
<1> QED BY <1>3, <1>4, <1>5, <1>6 DEF JobInv

\* A day ends only when the run that is due on it has ended.
LEMMA InvNextDay ==
    ASSUME RetentionAssumption, JobInv, NextDay
    PROVE  JobInv'
<1>1. RetentionDays' = RetentionDays /\ Deadline' = Deadline /\ Period \in Nat
  BY DEF NextDay, RetentionDays, Deadline, jobState, RetentionAssumption
<1>2. Recorded'
  BY DEF JobInv, Recorded, NextDay, jobState
<1>3. OnSchedule'
  BY <1>1 DEF JobInv, Recorded, OnSchedule, NextDay, jobState
<1>4. Timely' /\ Visited' /\ NothingPending'
  BY <1>1 DEF JobInv, Timely, Visited, NothingPending, NextDay, jobState, Enabled
<1> QED BY <1>2, <1>3, <1>4 DEF JobInv

\* A step that leaves the clock, the table and the job alone leaves the invariant
\* alone: a request arrives, or its INSERT times out.
LEMMA InvUntouched ==
    ASSUME JobInv, UNCHANGED <<today, setting, rows, jobState, missed>>
    PROVE  JobInv'
BY DEF JobInv, Recorded, OnSchedule, Timely, Visited, NothingPending, Deadline,
       Enabled, RetentionDays, jobState

\* Every step keeps the invariant.
LEMMA InvStep ==
    ASSUME RetentionAssumption, JobInv, [Next]_vars
    PROVE  JobInv'
<1>1. CASE Start
  BY <1>1, InvStart
<1>2. CASE StartDisabled
  BY <1>2, InvStartDisabled
<1>3. CASE Visit
  BY <1>3, InvVisit
<1>4. CASE Commit
  BY <1>4, InvCommit
<1>5. CASE Die
  BY <1>5, InvDie
<1>6. ASSUME NEW w \in Workers, Arrive(w) \/ InsertTimesOut(w)
      PROVE  JobInv'
  BY <1>6, InvUntouched DEF Arrive, InsertTimesOut
<1>7. ASSUME NEW w \in Workers, NEW hashed \in BOOLEAN, InsertCheckin(w, hashed)
      PROVE  JobInv'
  BY <1>7, InvInsertCheckin
<1>8. CASE NextDay
  BY <1>8, InvNextDay
<1>9. CASE UNCHANGED vars
  BY <1>9, InvUntouched DEF vars
<1> QED BY <1>1, <1>2, <1>3, <1>4, <1>5, <1>6, <1>7, <1>8, <1>9 DEF Next

-----------------------------------------------------------------------------
(* The theorems *)

\* The invariant bounds the age of a hash: the day is not past the deadline.
LEMMA TimelyHashes ==
    ASSUME RetentionAssumption, JobInv
    PROVE  HashesDoNotOutstay
<1> DEFINE allowed == Period * (1 + missed)
<1> SUFFICES ASSUME Enabled, NEW i \in DOMAIN rows, rows[i].hashed
             PROVE  today - rows[i].at <= RetentionDays + allowed
  BY DEF HashesDoNotOutstay
<1>1. allowed \in Nat
  BY Periods DEF JobInv, Recorded, RetentionAssumption
<1>2. RetentionDays \in Nat /\ rows[i].at \in Int
  BY RetentionDaysInNat, TableOfRows DEF JobInv, Recorded, CheckinRow
<1>3. today <= Deadline /\ Deadline \in Int
  BY DEF JobInv, Recorded, OnSchedule, Deadline
<1>4. Deadline <= rows[i].at + RetentionDays + allowed
  BY DEF JobInv, Timely
<1> HIDE DEF allowed
<1> QED BY <1>1, <1>2, <1>3, <1>4 DEF JobInv, Recorded

\* Where the job is enabled no hash outlives its window by more than one period of the
\* schedule, and one more for every run in a row that died (geofence_retention.py 67-87).
THEOREM HashesAreScrubbedInTime ==
    ASSUME RetentionAssumption
    PROVE  Spec => []HashesDoNotOutstay
<1>1. Init => JobInv
  BY InvInit
<1>2. JobInv /\ [Next]_vars => JobInv'
  BY InvStep
<1>3. JobInv => HashesDoNotOutstay
  BY TimelyHashes
<1> QED BY <1>1, <1>2, <1>3, PTL DEF Spec

\* What a step does to the table that holds the invariant: it only appends, but for
\* the COMMIT of the job, which takes old hashes.
LEMMA TableIsKept ==
    ASSUME RetentionAssumption, JobInv, [Next]_vars
    PROVE  /\ Len(rows) <= Len(rows')
           /\ \A i \in DOMAIN rows :
                 /\ rows'[i].at = rows[i].at
                 /\ rows'[i].hashed => rows[i].hashed
                 /\ rows[i].hashed /\ ~ rows'[i].hashed =>
                        today - rows[i].at > RetentionDays
<1>1. Recorded /\ Len(rows) \in Nat
  BY TableOfRows DEF JobInv
<1>2. ASSUME NEW w \in Workers, NEW hashed \in BOOLEAN, InsertCheckin(w, hashed)
      PROVE  /\ Len(rows') = Len(rows) + 1
             /\ \A i \in DOMAIN rows : rows'[i] = rows[i]
  BY <1>1, <1>2, TableAfterInsert
<1>3. CASE Commit
  <2>1. /\ Len(rows') = Len(rows)
        /\ \A i \in DOMAIN rows :
              /\ rows'[i].at = rows[i].at
              /\ rows'[i].hashed <=> rows[i].hashed /\ i \notin scrubbed
    BY <1>1, <1>3, TableAfterUpdate DEF Commit, End
  <2>2. ASSUME NEW i \in DOMAIN rows, i \in scrubbed
        PROVE  today - rows[i].at > RetentionDays
    <3>1. rows[i].at < today - RetentionDays
      BY <1>3, <2>2 DEF JobInv, OnSchedule, Visited, Commit
    <3>2. today \in Int /\ rows[i].at \in Int /\ RetentionDays \in Nat
      BY RetentionDaysInNat, TableOfRows DEF JobInv, Recorded, CheckinRow
    <3> QED BY <3>1, <3>2
  <2> QED BY <1>1, <2>1, <2>2
<1>4. CASE UNCHANGED rows
  BY <1>1, <1>4
<1>5. \/ Commit \/ UNCHANGED rows
      \/ \E w \in Workers, hashed \in BOOLEAN : InsertCheckin(w, hashed)
  BY DEF Next, vars, Start, StartDisabled, Visit, Die, End, Arrive, InsertTimesOut, NextDay
<1> QED BY <1>1, <1>2, <1>3, <1>4, <1>5

\* No check-in goes, no hash goes before its time or comes back
\* (geofence_retention.py 61-62, 72-86).
THEOREM OnlyOldHashesGo ==
    ASSUME RetentionAssumption
    PROVE  Spec => AttendanceIsKept
<1> DEFINE Kept == /\ Len(rows) <= Len(rows')
                   /\ \A i \in DOMAIN rows :
                         /\ rows'[i].at = rows[i].at
                         /\ rows'[i].hashed => rows[i].hashed
                         /\ rows[i].hashed /\ ~ rows'[i].hashed =>
                                today - rows[i].at > RetentionDays
<1>1. Init => JobInv
  BY InvInit
<1>2. JobInv /\ [Next]_vars => JobInv'
  BY InvStep
<1>3. JobInv /\ [Next]_vars => [Kept]_vars
  BY TableIsKept
<1> QED BY <1>1, <1>2, <1>3, PTL DEF Spec, AttendanceIsKept

-----------------------------------------------------------------------------
(* The types of the job's variables *)

Inserting == {w \in Workers : pc[w] = "insert"}

\* The days, and the order of the rows.
Dated ==
    /\ today \in 0..Horizon /\ due \in 0..Horizon + Period
    /\ \A i \in DOMAIN rows : rows[i].at \in 0..today
    /\ \A i, j \in DOMAIN rows : i < j => rows[i].at <= rows[j].at

\* The place of the UPDATE, which is between the rows while it runs.
Placed ==
    /\ next \in 1..Len(rows) + 1 /\ scrubbed \subseteq 1..next - 1
    /\ job = "idle" => next = 1

\* The bounds: each worker that inserts has room, and each run that is missed died.
Counted ==
    /\ pc \in [Workers -> {"idle", "insert"}]
    /\ deaths \in 0..MaxDeaths /\ missed \in 0..deaths
    /\ Len(rows) + Cardinality(Inserting) <= MaxCheckins

\* The days go on and the rows are of the days.
LEMMA StepsKeepDates ==
    ASSUME RetentionAssumption, JobInv, JobInv', Dated, [Next]_vars
    PROVE  Dated'
<1>1. /\ Horizon \in Nat /\ Period \in Nat /\ Recorded /\ Recorded'
      /\ Len(rows) \in Nat /\ DOMAIN rows = 1..Len(rows)
  BY TableOfRows DEF RetentionAssumption, JobInv
<1>2. ASSUME UNCHANGED <<today, rows>>, due' = due \/ due' = today + Period PROVE Dated'
  BY <1>1, <1>2 DEF Dated
<1>3. CASE Commit
  <2>1. /\ DOMAIN rows' = DOMAIN rows /\ UNCHANGED <<today, due>>
        /\ \A i \in DOMAIN rows : rows'[i].at = rows[i].at
    BY <1>1, <1>3, TableAfterUpdate DEF Commit, End
  <2> QED BY <2>1 DEF Dated
<1>4. ASSUME NEW w \in Workers, NEW hashed \in BOOLEAN, InsertCheckin(w, hashed)
      PROVE  Dated'
  <2>1. /\ DOMAIN rows' = 1..(Len(rows) + 1) /\ UNCHANGED <<today, due>>
        /\ \A i \in DOMAIN rows : rows'[i] = rows[i]
        /\ rows'[Len(rows) + 1].at = today
    BY <1>1, <1>4, TableAfterInsert DEF InsertCheckin, jobState
  <2>2. \A i \in DOMAIN rows' : i \in DOMAIN rows \/ i = Len(rows) + 1
    BY <1>1, <2>1
  <2>3. \A i \in DOMAIN rows' : rows'[i].at \in 0..today
    BY <1>1, <2>1, <2>2 DEF Dated
  <2>4. ASSUME NEW i \in DOMAIN rows', NEW j \in DOMAIN rows', i < j
        PROVE  rows'[i].at <= rows'[j].at
    <3>1. i \in DOMAIN rows
      BY <1>1, <2>1, <2>4
    <3>2. CASE j \in DOMAIN rows
      BY <2>1, <2>4, <3>1, <3>2 DEF Dated
    <3>3. CASE j = Len(rows) + 1
      BY <2>1, <3>1, <3>3 DEF Dated
    <3> QED BY <2>2, <3>2, <3>3
  <2> QED BY <2>1, <2>3, <2>4 DEF Dated
<1>5. CASE NextDay
  <2>1. UNCHANGED <<rows, due>> /\ today' = today + 1 /\ today < Horizon
    BY <1>5 DEF NextDay, jobState
  <2>2. \A i \in DOMAIN rows : rows[i].at \in 0..today + 1
    BY <1>1 DEF Dated
  <2> QED BY <1>1, <2>1, <2>2 DEF Dated
<1>6. CASE Start \/ StartDisabled \/ Visit \/ Die \/ UNCHANGED vars
  BY <1>2, <1>6 DEF Start, StartDisabled, Visit, Die, End, vars, jobState
<1>7. ASSUME NEW w \in Workers, Arrive(w) \/ InsertTimesOut(w) PROVE Dated'
  BY <1>2, <1>7 DEF Arrive, InsertTimesOut, jobState
<1> QED BY <1>3, <1>4, <1>5, <1>6, <1>7 DEF Next

\* The UPDATE goes from the first row to behind the last.
LEMMA StepsKeepPlace ==
    ASSUME RetentionAssumption, JobInv, Placed, [Next]_vars
    PROVE  Placed'
<1>1. /\ Recorded /\ Len(rows) \in Nat
      /\ next \in Nat \ {0} /\ next <= Len(rows) + 1
  BY TableOfRows DEF JobInv, Recorded, Placed
<1>2. ASSUME UNCHANGED jobState, Len(rows') \in Nat, Len(rows) <= Len(rows') PROVE Placed'
  BY <1>1, <1>2 DEF Placed, jobState
<1>3. ASSUME next' = 1, scrubbed' = {}, Len(rows') \in Nat PROVE Placed'
  BY <1>3 DEF Placed
<1>4. CASE Start
  <2>1. scrubbed = {}
    BY <1>4 DEF JobInv, NothingPending, Start
  <2> QED BY <1>1, <1>3, <1>4, <2>1 DEF Start
<1>5. CASE StartDisabled
  BY <1>5 DEF StartDisabled, Placed
<1>6. CASE Visit
  BY <1>1, <1>6 DEF Visit, Placed
<1>7. CASE Commit
  <2>1. Len(rows') = Len(rows)
    BY <1>1, <1>7, TableAfterUpdate DEF Commit, End
  <2> QED BY <1>1, <1>3, <1>7, <2>1 DEF Commit, End
<1>8. CASE Die
  BY <1>1, <1>3, <1>8 DEF Die, End
<1>9. ASSUME NEW w \in Workers, NEW hashed \in BOOLEAN, InsertCheckin(w, hashed)
      PROVE  Placed'
  <2>1. Len(rows') = Len(rows) + 1
    BY <1>1, <1>9, TableAfterInsert
  <2> QED BY <1>1, <1>2, <1>9, <2>1 DEF InsertCheckin
<1>10. ASSUME NEW w \in Workers, Arrive(w) \/ InsertTimesOut(w) PROVE Placed'
  BY <1>1, <1>2, <1>10 DEF Arrive, InsertTimesOut
<1>11. CASE NextDay \/ UNCHANGED vars
  BY <1>1, <1>2, <1>11 DEF NextDay, vars
<1> QED BY <1>4, <1>5, <1>6, <1>7, <1>8, <1>9, <1>10, <1>11 DEF Next

\* The number of those that insert changes by the one that begins or ends.
LEMMA InsertersCount ==
    ASSUME RetentionAssumption, pc \in [Workers -> {"idle", "insert"}], NEW w \in Workers
    PROVE  /\ Cardinality(Inserting) \in Nat
           /\ pc[w] = "idle" /\ pc' = [pc EXCEPT ![w] = "insert"]
                => Cardinality(Inserting') = Cardinality(Inserting) + 1
           /\ pc[w] = "insert" /\ pc' = [pc EXCEPT ![w] = "idle"]
                => Cardinality(Inserting') = Cardinality(Inserting) - 1
<1>1. IsFiniteSet(Inserting) /\ Cardinality(Inserting) \in Nat
  <2>1. Inserting \subseteq Workers /\ IsFiniteSet(Workers)
    BY DEF Inserting, RetentionAssumption
  <2> QED BY <2>1, FS_Subset, FS_CardinalityType
<1>2. ASSUME pc[w] = "idle", pc' = [pc EXCEPT ![w] = "insert"]
      PROVE  Cardinality(Inserting') = Cardinality(Inserting) + 1
  <2>1. Inserting' = Inserting \cup {w} /\ w \notin Inserting
    BY <1>2 DEF Inserting
  <2> QED BY <1>1, <2>1, FS_AddElement
<1>3. ASSUME pc[w] = "insert", pc' = [pc EXCEPT ![w] = "idle"]
      PROVE  Cardinality(Inserting') = Cardinality(Inserting) - 1
  <2>1. Inserting' = Inserting \ {w} /\ w \in Inserting
    BY <1>3 DEF Inserting
  <2> QED BY <1>1, <2>1, FS_RemoveElement
<1> QED BY <1>1, <1>2, <1>3

\* Nobody inserts without room, and no run is missed that did not die.
LEMMA StepsKeepCounts ==
    ASSUME RetentionAssumption, JobInv, Counted, [Next]_vars
    PROVE  Counted'
<1>1. /\ Recorded /\ Len(rows) \in Nat /\ MaxCheckins \in Nat /\ MaxDeaths \in Nat
      /\ deaths \in Nat /\ missed \in Nat
  BY TableOfRows DEF JobInv, Recorded, Counted, RetentionAssumption
<1>2. ASSUME UNCHANGED pc, Len(rows') = Len(rows),
             deaths' \in 0..MaxDeaths, missed' \in 0..deaths'
      PROVE  Counted'
  <2>1. Inserting' = Inserting
    BY <1>2 DEF Inserting
  <2> QED BY <1>2, <2>1 DEF Counted
<1>3. CASE Start \/ StartDisabled \/ Visit \/ NextDay \/ UNCHANGED vars
  BY <1>2, <1>3 DEF Counted, Start, StartDisabled, Visit, NextDay, vars
<1>4. CASE Commit
  <2>1. Len(rows') = Len(rows)
    BY <1>1, <1>4, TableAfterUpdate DEF Commit, End
  <2>2. UNCHANGED <<pc, deaths>> /\ missed' = 0
    BY <1>4 DEF Commit, End
  <2> QED BY <1>1, <1>2, <2>1, <2>2 DEF Counted
<1>5. CASE Die
  <2>1. /\ UNCHANGED <<pc, rows>> /\ deaths < MaxDeaths
        /\ deaths' = deaths + 1 /\ missed' = missed + 1
    BY <1>5 DEF Die, End
  <2> QED BY <1>1, <1>2, <2>1 DEF Counted
<1>6. ASSUME NEW w \in Workers, Arrive(w) PROVE Counted'
  <2>1. /\ pc[w] = "idle" /\ pc' = [pc EXCEPT ![w] = "insert"]
        /\ UNCHANGED <<rows, deaths, missed>>
        /\ Len(rows) + Cardinality(Inserting) < MaxCheckins
    BY <1>6 DEF Arrive, Inserting
  <2>2. Cardinality(Inserting') = Cardinality(Inserting) + 1 /\ Cardinality(Inserting) \in Nat
    BY <2>1, InsertersCount DEF Counted
  <2>3. pc' \in [Workers -> {"idle", "insert"}]
    BY <2>1 DEF Counted
  <2> QED BY <1>1, <2>1, <2>2, <2>3 DEF Counted
<1>7. ASSUME NEW w \in Workers, InsertTimesOut(w) \/ \E h \in BOOLEAN : InsertCheckin(w, h)
      PROVE  Counted'
  <2>1. /\ pc[w] = "insert" /\ pc' = [pc EXCEPT ![w] = "idle"]
        /\ UNCHANGED <<deaths, missed>>
    BY <1>7 DEF InsertTimesOut, InsertCheckin
  <2>2. Cardinality(Inserting') = Cardinality(Inserting) - 1 /\ Cardinality(Inserting) \in Nat
    BY <2>1, InsertersCount DEF Counted
  <2>3. Len(rows') \in {Len(rows), Len(rows) + 1}
    <3>1. CASE InsertTimesOut(w)
      BY <3>1 DEF InsertTimesOut
    <3>2. ASSUME NEW h \in BOOLEAN, InsertCheckin(w, h) PROVE Len(rows') = Len(rows) + 1
      BY <1>1, <3>2, TableAfterInsert
    <3> QED BY <1>7, <3>1, <3>2
  <2>4. pc' \in [Workers -> {"idle", "insert"}]
    BY <2>1 DEF Counted
  <2> QED BY <1>1, <2>1, <2>2, <2>3, <2>4 DEF Counted
<1> QED BY <1>3, <1>4, <1>5, <1>6, <1>7 DEF Next

\* Before the first step.
LEMMA JobAtFirst ==
    ASSUME RetentionAssumption, Init
    PROVE  JobInv /\ Dated /\ Placed /\ Counted
<1>1. JobInv
  BY InvInit
<1>2. Len(rows) = 0 /\ DOMAIN rows = {}
  BY DEF Init
<1>3. Cardinality(Inserting) = 0
  <2>1. Inserting = {}
    BY DEF Init, Inserting
  <2> QED BY <2>1, FS_EmptySet
<1>4. Dated /\ Placed /\ Counted
  BY <1>2, <1>3 DEF Init, Dated, Placed, Counted, RetentionAssumption
<1> QED BY <1>1, <1>4

\* The invariants are more than the types.
LEMMA JobTypes ==
    ASSUME RetentionAssumption, JobInv, Dated, Placed, Counted
    PROVE  TypeOK
<1>1. /\ Len(rows) \in Nat /\ DOMAIN rows = 1..Len(rows) /\ rows \in Seq(CheckinRow)
      /\ \A i \in DOMAIN rows : rows[i] \in CheckinRow
  BY TableOfRows DEF JobInv, Recorded
<1>2. \A i \in DOMAIN rows : rows[i] \in [at : 0..today, hashed : BOOLEAN]
  BY <1>1 DEF Dated, CheckinRow
<1>3. rows \in Seq([at : 0..today, hashed : BOOLEAN])
  <2> DEFINE R == [at : 0..today, hashed : BOOLEAN]
  <2> HIDE DEF R
  <2>1. rows \in [1..Len(rows) -> R]
    BY <1>1, <1>2 DEF R
  <2>2. rows \in Seq(R)
    BY <1>1, <2>1, SeqDef
  <2> QED BY <2>2 DEF R
<1>4. Cardinality(Inserting) \in Nat
  <2>1. Inserting \subseteq Workers /\ IsFiniteSet(Workers)
    BY DEF Inserting, RetentionAssumption
  <2> QED BY <2>1, FS_Subset, FS_CardinalityType
<1>5. Len(rows) <= MaxCheckins
  BY <1>1, <1>4 DEF Counted, RetentionAssumption
<1> QED BY <1>3, <1>5 DEF TypeOK, JobInv, Recorded, NothingPending, Dated, Placed, Counted

-----------------------------------------------------------------------------
(* The gates *)

\* One more of the kind at the end.
LEMMA AppendKeeps ==
    ASSUME NEW S, NEW n \in Nat, NEW s \in [1..n -> S], NEW x \in S
    PROVE  /\ s \in Seq(S) /\ Len(s) = n
           /\ Append(s, x) \in [1..n + 1 -> S]
           /\ Append(s, x)[n + 1] = x /\ \A i \in 1..n : Append(s, x)[i] = s[i]
<1>1. s \in Seq(S)
  BY SeqDef
<1>2. Len(s) = n
  BY <1>1, LenProperties
<1>3. /\ Append(s, x) \in Seq(S) /\ Len(Append(s, x)) = n + 1
      /\ Append(s, x)[n + 1] = x /\ \A i \in 1..n : Append(s, x)[i] = s[i]
  BY <1>1, <1>2, AppendProperties
<1>4. Append(s, x) \in [1..n + 1 -> S]
  BY <1>3, LenProperties
<1> QED BY <1>1, <1>2, <1>3, <1>4

\* What the row of an event holds.
GateRow == [tenant : Gates!Tenants, owner : Users, visibility : Gates!Visibilities,
            kind   : {"none", "school_admin_group", "team_lead_cohort"},
            group  : {0} \cup Groups \cup {Gates!CohortId(u) : u \in Users}]

\* An event is under a tenant of its author, or its group's school.
Authored(e) ==
    \/ e.tenant \in Gates!CandidateTenants(e.owner)
    \/ e.kind = "school_admin_group" /\ e.tenant \in Schools

\* The lists that go with the events, one for each.
Listed(n, list) == list \in [1..n -> SUBSET Fans]

\* A list to which one is added, or from which one is taken.
LEMMA ListsChange ==
    ASSUME NEW n, NEW list, Listed(n, list), NEW i \in 1..n, NEW u \in Fans
    PROVE  /\ Listed(n, [list EXCEPT ![i] = list[i] \cup {u}])
           /\ Listed(n, [list EXCEPT ![i] = list[i] \ {u}])
<1>1. list \in [1..n -> SUBSET Fans] /\ list[i] \subseteq Fans
  BY DEF Listed
<1>2. list[i] \cup {u} \in SUBSET Fans /\ list[i] \ {u} \in SUBSET Fans
  BY <1>1
<1> QED BY <1>1, <1>2 DEF Listed

\* What the requests at the gates keep.
GateInv ==
    /\ Len(events) \in Nat /\ events \in [1..Len(events) -> GateRow]
    /\ Listed(Len(events), invited) /\ Listed(Len(events), accepted)
    /\ Listed(Len(events), joined)
    /\ active \subseteq Groups /\ roster \in [Groups -> SUBSET Fans]
    /\ cohort \subseteq CohortLeads \X Fans
    /\ \A i \in 1..Len(events) : Authored(events[i])

\* Before the first event.
LEMMA GatesAtFirst ==
    ASSUME Gates!Init
    PROVE  GateInv
<1>1. events = <<>> /\ Len(events) = 0 /\ 1..0 = {}
  BY DEF Gates!Init
<1>2. <<>> \in [1..0 -> GateRow] /\ <<>> \in [1..0 -> SUBSET Fans]
  OBVIOUS
<1> QED BY <1>1, <1>2 DEF Gates!Init, GateInv, Listed

\* A new event has its lists, and is its author's.
LEMMA AddedEventIsAuthored ==
    ASSUME GateInv, NEW a \in Users, NEW tenant \in Gates!Tenants,
           NEW visibility \in Gates!Visibilities,
           NEW b, b.kind \in {"none", "school_admin_group", "team_lead_cohort"},
           b.group \in {0} \cup Groups \cup {Gates!CohortId(u) : u \in Users},
           \/ tenant \in Gates!CandidateTenants(a)
           \/ b.kind = "school_admin_group" /\ tenant \in Schools,
           Gates!AddEvent(a, tenant, visibility, b)
    PROVE  GateInv'
<1> PICK n \in Nat : n = Len(events)
  BY DEF GateInv
<1> PICK e : e = [tenant |-> tenant, owner |-> a, visibility |-> visibility,
                  kind |-> b.kind, group |-> b.group]
  OBVIOUS
<1>1. e \in GateRow /\ Authored(e)
  BY DEF GateRow, Authored
<1>2. /\ events' = Append(events, e) /\ invited' = Append(invited, {})
      /\ accepted' = Append(accepted, {}) /\ joined' = Append(joined, {})
      /\ UNCHANGED <<active, roster, cohort>>
  BY DEF Gates!AddEvent
<1>3. events' \in [1..n + 1 -> GateRow] /\ events'[n + 1] = e
      /\ \A i \in 1..n : events'[i] = events[i]
  <2>1. events \in [1..n -> GateRow]
    BY DEF GateInv
  <2>2. /\ Append(events, e) \in [1..n + 1 -> GateRow] /\ Append(events, e)[n + 1] = e
        /\ \A i \in 1..n : Append(events, e)[i] = events[i]
    <3>1. n \in Nat /\ e \in GateRow
      BY <1>1
    <3> QED BY ONLY <2>1, <3>1, AppendKeeps
  <2> QED BY <1>2, <2>2
<1>4. Len(events') = n + 1
  BY <1>3, SeqDef, LenProperties
<1>5. Listed(n + 1, invited') /\ Listed(n + 1, accepted') /\ Listed(n + 1, joined')
  BY <1>2, AppendKeeps DEF GateInv, Listed
<1>6. \A i \in 1..n + 1 : Authored(events'[i])
  <2> TAKE i \in 1..n + 1
  <2>1. i \in 1..n \/ i = n + 1
    OBVIOUS
  <2> QED BY <1>1, <1>3, <2>1 DEF GateInv
<1>7. Len(events') \in Nat
  BY <1>4
<1> QED BY <1>2, <1>3, <1>4, <1>5, <1>6, <1>7 DEF GateInv, Listed, Authored

\* POST /events/ puts an event under the tenant of its author, of its school, or of
\* the group that it is bound to (events.py 61-86, auth.py 421-478).
LEMMA CreatedEventIsAuthored ==
    ASSUME Gates!AccessAssumption, GateInv, NEW a \in Users
    PROVE  /\ \A v \in Gates!Visibilities : Gates!CreateEvent(a, v) => GateInv'
           /\ \A b \in Gates!Bindings : Gates!CreateGroupEvent(a, b) => GateInv'
<1>1. /\ Gates!Personal(a) \in Gates!Tenants /\ Schools \subseteq Gates!Tenants
      /\ Gates!Personal(a) \in Gates!CandidateTenants(a)
      /\ School[a] \in Schools \cup {NoSchool}
  BY DEF Gates!Tenants, Gates!CandidateTenants, Gates!AccessAssumption
<1>2. ASSUME NEW v \in Gates!Visibilities, Gates!CreateEvent(a, v) PROVE GateInv'
  <2>1. /\ Gates!resolve_event_tenant(a) \in Gates!Tenants
        /\ Gates!resolve_event_tenant(a) \in Gates!CandidateTenants(a)
    BY <1>1 DEF Gates!resolve_event_tenant, Gates!CandidateTenants
  <2>2. Gates!AddEvent(a, Gates!resolve_event_tenant(a), v, Gates!NoGroup)
    BY <1>2 DEF Gates!CreateEvent
  <2>3. Gates!NoGroup.kind = "none" /\ Gates!NoGroup.group = 0
    BY DEF Gates!NoGroup
  <2> QED BY <2>1, <2>2, <2>3, AddedEventIsAuthored
<1>3. ASSUME NEW b \in Gates!Bindings, Gates!CreateGroupEvent(a, b) PROVE GateInv'
  <2>1. /\ Gates!MayBind(a, b)
        /\ Gates!AddEvent(a, Gates!TenantOfBinding(a, b), "group_only", b)
        /\ "group_only" \in Gates!Visibilities
    BY <1>3 DEF Gates!CreateGroupEvent, Gates!Visibilities
  <2>2. \/ b.kind = "school_admin_group" /\ b.group \in Groups
        \/ b.kind = "team_lead_cohort" /\ b.group \in {Gates!CohortId(u) : u \in Users}
    BY DEF Gates!Bindings
  <2>3. CASE b.kind = "school_admin_group"
    <3>1. b.group \in Groups /\ Gates!TenantOfBinding(a, b) = GroupSchool[b.group]
      BY <2>2, <2>3 DEF Gates!TenantOfBinding
    <3>2. Gates!TenantOfBinding(a, b) \in Schools
      BY <3>1 DEF Gates!AccessAssumption
    <3> QED BY <1>1, <2>1, <2>3, <3>1, <3>2, AddedEventIsAuthored
  <2>4. CASE b.kind = "team_lead_cohort"
    <3>1. Gates!TenantOfBinding(a, b) = Gates!Personal(a)
      BY <2>4 DEF Gates!TenantOfBinding
    <3> QED BY <1>1, <2>1, <2>2, <2>4, <3>1, AddedEventIsAuthored
  <2> QED BY <2>2, <2>3, <2>4
<1> QED BY <1>2, <1>3

\* A PATCH of the visibility leaves tenant, owner and group.
LEMMA PatchedEventIsAuthored ==
    ASSUME GateInv, NEW a \in Users, NEW i \in Gates!Ids, NEW v \in Gates!Visibilities,
           Gates!PatchVisibility(a, i, v)
    PROVE  GateInv'
<1> PICK n \in Nat : n = Len(events)
  BY DEF GateInv
<1>1. /\ events \in [1..n -> GateRow] /\ i \in 1..n
      /\ events' = [events EXCEPT ![i].visibility = v]
      /\ UNCHANGED <<invited, accepted, joined, active, roster, cohort>>
  BY DEF GateInv, Gates!Ids, Gates!PatchVisibility
<1> PICK e : e = [events[i] EXCEPT !.visibility = v]
  OBVIOUS
<1>2. /\ e \in GateRow /\ e.tenant = events[i].tenant
      /\ e.owner = events[i].owner /\ e.kind = events[i].kind
  BY <1>1 DEF GateRow
<1>3. events' = [events EXCEPT ![i] = e]
  BY <1>1
<1>4. events' \in [1..n -> GateRow]
  BY <1>1, <1>2, <1>3
<1>5. Len(events') = n
  BY <1>4, SeqDef, LenProperties
<1>6. \A j \in 1..n : Authored(events'[j])
  BY <1>1, <1>2, <1>3 DEF GateInv, Authored
<1> QED BY <1>1, <1>4, <1>5, <1>6 DEF GateInv, Listed, Authored

\* Every step keeps it.
LEMMA StepsKeepGates ==
    ASSUME Gates!AccessAssumption, GateInv, [Gates!Next]_Gates!vars
    PROVE  GateInv'
<1> PICK n \in Nat : n = Len(events)
  BY DEF GateInv
<1>1. Gates!Ids = 1..n
  BY DEF Gates!Ids, GateInv
<1>2. ASSUME UNCHANGED events, Listed(n, invited'), Listed(n, accepted'), Listed(n, joined'),
             active' \subseteq Groups, roster' \in [Groups -> SUBSET Fans],
             cohort' \subseteq CohortLeads \X Fans
      PROVE  GateInv'
  BY <1>2 DEF GateInv, Listed, Authored
<1>3. /\ Listed(n, invited) /\ Listed(n, accepted) /\ Listed(n, joined)
      /\ active \subseteq Groups /\ roster \in [Groups -> SUBSET Fans]
      /\ cohort \subseteq CohortLeads \X Fans
  BY DEF GateInv
<1>4. ASSUME NEW a \in Users, NEW i \in Gates!Ids, NEW u \in Fans,
             Gates!Invite(a, i, u) \/ Gates!Register(a, u, i)
      PROVE  GateInv'
  <2>1. CASE Gates!Invite(a, i, u)
    <3>1. /\ Listed(n, invited')
          /\ UNCHANGED <<events, accepted, joined, active, roster, cohort>>
      BY <1>1, <1>3, <2>1, ListsChange DEF Gates!Invite
    <3> QED BY <1>2, <1>3, <3>1 DEF Listed
  <2>2. CASE Gates!Register(a, u, i)
    <3>1. /\ Listed(n, joined')
          /\ UNCHANGED <<events, invited, accepted, active, roster, cohort>>
      BY <1>1, <1>3, <2>2, ListsChange DEF Gates!Register
    <3> QED BY <1>2, <1>3, <3>1 DEF Listed
  <2> QED BY <1>4, <2>1, <2>2
<1>5. ASSUME NEW i \in Gates!Ids, NEW u \in Fans, Gates!Accept(i, u) \/ Gates!Decline(i, u)
      PROVE  GateInv'
  <2>1. UNCHANGED <<events, joined, active, roster, cohort>>
    BY <1>5 DEF Gates!Accept, Gates!Decline
  <2>2. Listed(n, invited') /\ Listed(n, accepted')
    <3>1. CASE Gates!Accept(i, u)
      BY <1>1, <1>3, <3>1, ListsChange DEF Gates!Accept
    <3>2. CASE Gates!Decline(i, u)
      BY <1>1, <1>3, <3>2, ListsChange DEF Gates!Decline
    <3> QED BY <1>5, <3>1, <3>2
  <2> QED BY <1>2, <1>3, <2>1, <2>2 DEF Listed
<1>6. ASSUME NEW g \in Groups, Gates!ToggleGroup(g) PROVE GateInv'
  BY <1>2, <1>3, <1>6 DEF Gates!ToggleGroup
<1>7. ASSUME NEW g \in Groups, NEW u \in Fans, Gates!ToggleMember(g, u) PROVE GateInv'
  <2>1. roster' \in [Groups -> SUBSET Fans]
    BY <1>3, <1>7 DEF Gates!ToggleMember
  <2> QED BY <1>2, <1>3, <1>7, <2>1 DEF Gates!ToggleMember
<1>8. ASSUME NEW lead \in CohortLeads, NEW u \in Fans, Gates!ToggleConsent(lead, u)
      PROVE  GateInv'
  <2>1. cohort' \subseteq CohortLeads \X Fans
    BY <1>3, <1>8 DEF Gates!ToggleConsent
  <2> QED BY <1>2, <1>3, <1>8, <2>1 DEF Gates!ToggleConsent
<1>9. CASE UNCHANGED Gates!vars
  BY <1>2, <1>3, <1>9 DEF Gates!vars
<1>10. ASSUME NEW a \in Users
       PROVE  /\ \A v \in Gates!Visibilities \ {"group_only"} :
                    Gates!CreateEvent(a, v) => GateInv'
              /\ \A b \in Gates!Bindings : Gates!CreateGroupEvent(a, b) => GateInv'
              /\ \A i \in Gates!Ids, v \in Gates!Visibilities :
                    Gates!PatchVisibility(a, i, v) => GateInv'
  BY CreatedEventIsAuthored, PatchedEventIsAuthored
<1> QED BY <1>4, <1>5, <1>6, <1>7, <1>8, <1>9, <1>10 DEF Gates!Next

\* It is more than the types.
LEMMA GateTypes ==
    ASSUME GateInv
    PROVE  Gates!TypeOK
<1>1. Gates!Ids = 1..Len(events)
  BY DEF GateInv, Gates!Ids
<1>2. events \in Seq(GateRow)
  BY SeqDef DEF GateInv
<1> QED BY <1>1, <1>2 DEF GateInv, GateRow, Listed, Gates!TypeOK

\* The author of an event passes the gate of its invitations, but for the event of a
\* group in a school that the author is not in.
LEMMA AuthorsReach ==
    ASSUME Gates!AccessAssumption, GateInv
    PROVE  Gates!AuthorCanInvite
<1> SUFFICES ASSUME NEW i \in Gates!Ids
             PROVE  \/ Gates!MayInvite(events[i].owner, events[i])
                    \/ /\ events[i].kind = "school_admin_group"
                       /\ events[i].tenant # School[events[i].owner]
  BY DEF Gates!AuthorCanInvite
<1>1. Authored(events[i])
  BY DEF GateInv, Gates!Ids
<1>2. CASE events[i].tenant \in Gates!CandidateTenants(events[i].owner)
  BY <1>2 DEF Gates!MayInvite, Gates!OwnerOrAdmin
<1>3. CASE events[i].kind = "school_admin_group" /\ events[i].tenant \in Schools
  BY <1>3 DEF Gates!MayInvite, Gates!OwnerOrAdmin, Gates!CandidateTenants,
              Gates!AccessAssumption
<1> QED BY <1>1, <1>2, <1>3 DEF Authored

\* The two ways to look a group up agree, that of the picker and that of POST /events/,
\* but on the cohort of a lead without digits.
LEMMA PickerAndGateAgree == Gates!ListedGroupsAreAuthorable
<1> SUFFICES ASSUME NEW a \in Users, NEW b \in Gates!ListedBindings(a)
             PROVE  Gates!MayBind(a, b) <=> ~ Gates!OfferedInVain(a, b)
  BY DEF Gates!ListedGroupsAreAuthorable
<1>1. CASE b \in [kind : {"school_admin_group"}, group : Gates!ListedGroups(a)]
  <2>1. b.kind = "school_admin_group" /\ b.group \in Gates!ListedGroups(a)
    BY <1>1
  <2> QED BY <2>1 DEF Gates!ListedGroups, Gates!MayBind, Gates!OfferedInVain
<1>2. CASE b = [kind |-> "team_lead_cohort", group |-> Gates!CohortId(a)]
  <2>1. b.kind = "team_lead_cohort" /\ b.group = Gates!CohortId(a)
    BY <1>2
  <2>2. Gates!MayBind(a, b) <=> Number[a] # NoDigits /\ b.group = Number[a]
    BY <2>1 DEF Gates!MayBind
  <2>3. Gates!OfferedInVain(a, b) <=> Number[a] = NoDigits
    BY <2>1 DEF Gates!OfferedInVain
  <2> QED BY <2>1, <2>2, <2>3 DEF Gates!CohortId
<1> QED BY <1>1, <1>2 DEF Gates!ListedBindings

\* The feed and POST /register agree on whom an event is for.
LEMMA FeedAndGateAgree == Gates!DiscoveredIsJoinable
BY DEF Gates!DiscoveredIsJoinable, Gates!Discovers, Gates!MayRegister, Gates!Reaches,
       Gates!Admits

-----------------------------------------------------------------------------
(* The journeys *)

JourneyProofs == INSTANCE TravelProofs WITH
            Events <- JourneyEvents, FirstVenue <- JourneyVenues, VenueEdits <- {},
            Window <- JourneyWindow, Horizon <- JourneyHorizon, pc <- at, job <- trip

DetourProofs == INSTANCE TravelProofs WITH
            Events <- DetourEvents, FirstVenue <- DetourVenues, VenueEdits <- DetourEdits,
            Workers <- DetourWorkers, Window <- DetourWindow, Horizon <- DetourHorizon, pc <- at,
              job <- trip

\* What has been proved is about this very journey.
LEMMA JourneysAgree ==
    /\ Journey!TravelAssumption => JourneyProofs!TravelAssumption
    /\ Journey!Init => JourneyProofs!Init
    /\ [Journey!Next]_Journey!vars => [JourneyProofs!Next]_JourneyProofs!vars
    /\ JourneyProofs!TypeOK => Journey!TypeOK
    /\ JourneyProofs!RefusalIsDue => Journey!RefusalIsDue
    /\ JourneyProofs!JourneyIsPlausible => Journey!JourneyIsPlausible
<1> USE DEF
      Journey!Never, Journey!Idle, Journey!Closed, Journey!NoReply, Journey!NoEntry,
      Journey!Current, Journey!Rows, Journey!Seconds, Journey!Since, Journey!Goto,
      Journey!Finish, Journey!Start, Journey!SkipUnlocated, Journey!ReadClock,
      Journey!Recent, Journey!Priors, Journey!Implausible, Journey!VelocityPasses,
      Journey!VelocityRefuses, Journey!Vouched, Journey!InsertCheckin,
      Journey!InsertFails, Journey!MoveVenue, Journey!Tick, Journey!Init, Journey!Next,
      Journey!tables, Journey!session, Journey!history, Journey!vars, Journey!TooFast,
      Journey!Distance, Journey!Abs, Journey!Antimeridian, Journey!Longitudes,
      Journey!CircumferenceIsEven, Journey!IsFiniteSet, Journey!TravelAssumption,
      Journey!TypeOK, Journey!Entered, Journey!TooFar, Journey!RefusalIsDue, Journey!Gap,
        Journey!Apart,
      Journey!WithinWindow, Journey!Cardinality, Journey!JourneyIsPlausible,
      JourneyProofs!Never, JourneyProofs!Idle, JourneyProofs!Closed,
      JourneyProofs!NoReply, JourneyProofs!NoEntry, JourneyProofs!Current,
      JourneyProofs!Rows, JourneyProofs!Seconds, JourneyProofs!Since,
      JourneyProofs!Goto, JourneyProofs!Finish, JourneyProofs!Start,
      JourneyProofs!SkipUnlocated, JourneyProofs!ReadClock, JourneyProofs!Recent,
      JourneyProofs!Priors, JourneyProofs!Implausible, JourneyProofs!VelocityPasses,
      JourneyProofs!VelocityRefuses, JourneyProofs!Vouched, JourneyProofs!InsertCheckin,
      JourneyProofs!InsertFails, JourneyProofs!MoveVenue, JourneyProofs!Tick,
      JourneyProofs!Init, JourneyProofs!Next, JourneyProofs!tables,
      JourneyProofs!session, JourneyProofs!history, JourneyProofs!vars,
      JourneyProofs!TooFast, JourneyProofs!Distance, JourneyProofs!Abs,
      JourneyProofs!Antimeridian, JourneyProofs!Longitudes,
      JourneyProofs!CircumferenceIsEven, JourneyProofs!IsFiniteSet,
      JourneyProofs!TravelAssumption, JourneyProofs!TypeOK, JourneyProofs!Entered,
      JourneyProofs!TooFar, JourneyProofs!RefusalIsDue, JourneyProofs!Gap, JourneyProofs!Apart,
      JourneyProofs!WithinWindow, JourneyProofs!Cardinality,
      JourneyProofs!JourneyIsPlausible
<1>1. ASSUME Journey!TravelAssumption PROVE JourneyProofs!TravelAssumption
  BY <1>1
<1>2. ASSUME Journey!Init PROVE JourneyProofs!Init
  BY <1>2
<1>3. ASSUME [Journey!Next]_Journey!vars PROVE [JourneyProofs!Next]_JourneyProofs!vars
  BY <1>3
<1>4. ASSUME JourneyProofs!TypeOK PROVE Journey!TypeOK
  BY <1>4
<1>5. ASSUME JourneyProofs!RefusalIsDue PROVE Journey!RefusalIsDue
  BY <1>5
<1>6. ASSUME JourneyProofs!JourneyIsPlausible PROVE Journey!JourneyIsPlausible
  BY <1>6
<1> QED BY <1>1, <1>2, <1>3, <1>4, <1>5, <1>6

\* And about this detour.
LEMMA DetoursAgree ==
    /\ Detour!TravelAssumption => DetourProofs!TravelAssumption
    /\ Detour!Init => DetourProofs!Init
    /\ [Detour!Next]_Detour!vars => [DetourProofs!Next]_DetourProofs!vars
    /\ DetourProofs!TypeOK => Detour!TypeOK
    /\ DetourProofs!RefusalIsDue => Detour!RefusalIsDue
<1> USE DEF
      Detour!Never, Detour!Idle, Detour!Closed, Detour!NoReply, Detour!NoEntry,
      Detour!Current, Detour!Rows, Detour!Seconds, Detour!Since, Detour!Goto,
      Detour!Finish, Detour!Start, Detour!SkipUnlocated, Detour!ReadClock,
      Detour!Recent, Detour!Priors, Detour!Implausible, Detour!VelocityPasses,
      Detour!VelocityRefuses, Detour!Vouched, Detour!InsertCheckin, Detour!InsertFails,
      Detour!MoveVenue, Detour!Tick, Detour!Init, Detour!Next, Detour!tables,
      Detour!session, Detour!history, Detour!vars, Detour!TooFast, Detour!Distance,
      Detour!Abs, Detour!Antimeridian, Detour!Longitudes, Detour!CircumferenceIsEven,
      Detour!IsFiniteSet, Detour!TravelAssumption, Detour!TypeOK, Detour!Entered,
      Detour!TooFar, Detour!RefusalIsDue,
      DetourProofs!Never, DetourProofs!Idle, DetourProofs!Closed, DetourProofs!NoReply,
      DetourProofs!NoEntry, DetourProofs!Current, DetourProofs!Rows,
      DetourProofs!Seconds, DetourProofs!Since, DetourProofs!Goto, DetourProofs!Finish,
      DetourProofs!Start, DetourProofs!SkipUnlocated, DetourProofs!ReadClock,
      DetourProofs!Recent, DetourProofs!Priors, DetourProofs!Implausible,
      DetourProofs!VelocityPasses, DetourProofs!VelocityRefuses, DetourProofs!Vouched,
      DetourProofs!InsertCheckin, DetourProofs!InsertFails, DetourProofs!MoveVenue,
      DetourProofs!Tick, DetourProofs!Init, DetourProofs!Next, DetourProofs!tables,
      DetourProofs!session, DetourProofs!history, DetourProofs!vars,
      DetourProofs!TooFast, DetourProofs!Distance, DetourProofs!Abs,
      DetourProofs!Antimeridian, DetourProofs!Longitudes,
      DetourProofs!CircumferenceIsEven, DetourProofs!IsFiniteSet,
      DetourProofs!TravelAssumption, DetourProofs!TypeOK, DetourProofs!Entered,
      DetourProofs!TooFar, DetourProofs!RefusalIsDue
<1>1. ASSUME Detour!TravelAssumption PROVE DetourProofs!TravelAssumption
  BY <1>1
<1>2. ASSUME Detour!Init PROVE DetourProofs!Init
  BY <1>2
<1>3. ASSUME [Detour!Next]_Detour!vars PROVE [DetourProofs!Next]_DetourProofs!vars
  BY <1>3
<1>4. ASSUME DetourProofs!TypeOK PROVE Detour!TypeOK
  BY <1>4
<1>5. ASSUME DetourProofs!RefusalIsDue PROVE Detour!RefusalIsDue
  BY <1>5
<1> QED BY <1>1, <1>2, <1>3, <1>4, <1>5

-----------------------------------------------------------------------------
(* All of them *)

EachInv ==
    /\ JobInv /\ Dated /\ Placed /\ Counted
    /\ GateInv
    /\ IF part = "detour" THEN DetourProofs!JourneyInv ELSE JourneyProofs!JourneyInv

LEMMA EachAtFirst == EachInit => EachInv
<1> SUFFICES ASSUME EachInit PROVE EachInv
  OBVIOUS
<1>1. JobInv /\ Dated /\ Placed /\ Counted
  BY JobAtFirst, AttendeesAssumption DEF EachInit
<1>2. GateInv
  BY GatesAtFirst DEF EachInit
<1>3. CASE part = "detour"
  <2>1. DetourProofs!TravelAssumption /\ DetourProofs!Init
    BY <1>3, DetoursAgree, AttendeesAssumption DEF EachInit
  <2>2. DetourProofs!JourneyInv
    BY <2>1, DetourProofs!JourneyAtFirst
  <2> QED BY <1>1, <1>2, <1>3, <2>2 DEF EachInv
<1>4. CASE part # "detour"
  <2>1. JourneyProofs!TravelAssumption /\ JourneyProofs!Init
    BY <1>4, JourneysAgree, AttendeesAssumption DEF EachInit
  <2>2. JourneyProofs!JourneyInv
    BY <2>1, JourneyProofs!JourneyAtFirst
  <2> QED BY <1>1, <1>2, <1>4, <2>2 DEF EachInv
<1> QED BY <1>3, <1>4

\* A step of all of them is a step or a stutter of each.
LEMMA StepsOfEach ==
    ASSUME [EachNext]_allVars
    PROVE  /\ part' = part /\ [Next]_vars /\ [Gates!Next]_Gates!vars
           /\ IF part = "detour" THEN [Detour!Next]_Detour!vars
                                 ELSE [Journey!Next]_Journey!vars
<1>1. UNCHANGED gateVars => UNCHANGED Gates!vars
  BY DEF gateVars, Gates!vars
<1>2. UNCHANGED travelVars => UNCHANGED Journey!vars /\ UNCHANGED Detour!vars
  BY DEF travelVars, Journey!vars, Detour!vars, Journey!tables, Journey!session,
         Journey!history, Detour!tables, Detour!session, Detour!history
<1>3. CASE EachNext
  BY <1>1, <1>2, <1>3 DEF EachNext
<1>4. CASE UNCHANGED allVars
  <2>1. UNCHANGED part /\ UNCHANGED vars /\ UNCHANGED gateVars /\ UNCHANGED travelVars
    BY <1>4 DEF allVars
  <2> QED BY <1>1, <1>2, <2>1
<1> QED BY <1>3, <1>4

\* The part at work is the one that changes.
LEMMA ChangeIsOfThePart ==
    ASSUME [EachNext]_allVars, ~ UNCHANGED allVars, part \in {"journey", "detour"}
    PROVE  /\ part = "journey" => ~ UNCHANGED Journey!vars
           /\ part = "detour" => ~ UNCHANGED Detour!vars
<1>1. /\ UNCHANGED <<part, gateVars, vars>>
  BY DEF EachNext
<1>2. UNCHANGED Journey!vars \/ UNCHANGED Detour!vars => UNCHANGED travelVars
  BY DEF travelVars, Journey!vars, Detour!vars, Journey!tables, Journey!session,
         Journey!history, Detour!tables, Detour!session, Detour!history
<1>3. UNCHANGED travelVars => UNCHANGED allVars
  BY <1>1 DEF allVars
<1> QED BY <1>2, <1>3

LEMMA StepsKeepEach == EachInv /\ [EachNext]_allVars => EachInv'
<1> SUFFICES ASSUME EachInv, [EachNext]_allVars PROVE EachInv'
  OBVIOUS
<1>1. /\ part' = part /\ [Next]_vars /\ [Gates!Next]_Gates!vars
      /\ IF part = "detour" THEN [Detour!Next]_Detour!vars
                            ELSE [Journey!Next]_Journey!vars
  BY StepsOfEach
<1>2. JobInv' /\ Dated' /\ Placed' /\ Counted'
  <2>1. JobInv'
    BY <1>1, InvStep, AttendeesAssumption DEF EachInv
  <2> QED BY <1>1, <2>1, StepsKeepDates, StepsKeepPlace, StepsKeepCounts, AttendeesAssumption
          DEF EachInv
<1>3. GateInv'
  BY <1>1, StepsKeepGates, AttendeesAssumption DEF EachInv
<1>4. CASE part = "detour"
  <2>1. /\ DetourProofs!TravelAssumption /\ DetourProofs!JourneyInv
        /\ [DetourProofs!Next]_DetourProofs!vars
    BY <1>1, <1>4, DetoursAgree, AttendeesAssumption DEF EachInv
  <2>2. DetourProofs!JourneyInv'
    BY <2>1, DetourProofs!StepsKeepJourney
  <2> QED BY <1>1, <1>2, <1>3, <1>4, <2>2 DEF EachInv
<1>5. CASE part # "detour"
  <2>1. /\ JourneyProofs!TravelAssumption /\ JourneyProofs!JourneyInv
        /\ [JourneyProofs!Next]_JourneyProofs!vars
    BY <1>1, <1>5, JourneysAgree, AttendeesAssumption DEF EachInv
  <2>2. JourneyProofs!JourneyInv'
    BY <2>1, JourneyProofs!StepsKeepJourney
  <2> QED BY <1>1, <1>2, <1>3, <1>5, <2>2 DEF EachInv
<1> QED BY <1>4, <1>5

LEMMA EachIsSound == EachSpec => []EachInv
BY EachAtFirst, StepsKeepEach, PTL DEF EachSpec

\* Every variable has its type: the job's and its table (geofence_retention.py 47-87,
\* models/checkin.py), those of the events and lists at the gates, and those of the
\* journeys.
THEOREM AttendeesTypeCorrect == EachSpec => []EachTypeOK
<1>1. EachInv => EachTypeOK
  <2> SUFFICES ASSUME EachInv PROVE EachTypeOK
    OBVIOUS
  <2>1. TypeOK /\ Gates!TypeOK
    BY JobTypes, GateTypes, AttendeesAssumption DEF EachInv
  <2>2. part = "detour" => Detour!TypeOK
    BY DetoursAgree DEF EachInv, DetourProofs!JourneyInv, DetourProofs!WellTyped
  <2>3. part # "detour" => Journey!TypeOK
    BY JourneysAgree DEF EachInv, JourneyProofs!JourneyInv, JourneyProofs!WellTyped
  <2> QED BY <2>1, <2>2, <2>3 DEF EachTypeOK
<1> QED BY <1>1, EachIsSound, PTL

\* Of the groups that the picker offers to a user with an authoring role, POST /events
\* accepts every one from it but the cohort of a lead whose user_id has no digits, which
\* it refuses (eligible_groups.py 42-117, auth.py 421-471).
THEOREM PickerIsRight == EachSpec => []ListedGroupsAreAuthorable
<1>1. ListedGroupsAreAuthorable
  BY PickerAndGateAgree DEF ListedGroupsAreAuthorable
<1> QED BY <1>1, PTL

\* Whoever finds an event in the feed may register for it, unless it is an admin
\* (events.py 250-268, registrations.py 124-154).
THEOREM FeedIsRight == EachSpec => []DiscoveredIsJoinable
<1>1. DiscoveredIsJoinable
  BY FeedAndGateAgree DEF DiscoveredIsJoinable
<1> QED BY <1>1, PTL

\* An author reaches the invitations of its event under whichever tenant it was
\* created, but for a group's event in a school that the author is not in
\* (event_invitations.py 70-99, auth.py 463).
THEOREM AuthorsReachTheirLists == EachSpec => []AuthorCanInvite
<1>1. EachInv => AuthorCanInvite
  BY AuthorsReach, AttendeesAssumption DEF EachInv, AuthorCanInvite
<1> QED BY <1>1, EachIsSound, PTL

\* As long as no check-in escapes the velocity check, no two of one attendee within
\* the window are further apart than the speed allows, but for what checkin_at lost of
\* a second at each stop (geo_verification.py 121-160).
THEOREM JourneysStayPlausible == EachSpec => []JourneyIsPlausible
<1>1. EachInv => JourneyIsPlausible
  <2> SUFFICES ASSUME EachInv, part = "journey" PROVE Journey!JourneyIsPlausible
    BY DEF JourneyIsPlausible
  <2>1. JourneyProofs!TravelAssumption /\ JourneyProofs!JourneyInv
    BY JourneysAgree, AttendeesAssumption DEF EachInv
  <2>2. JourneyProofs!JourneyIsPlausible
    BY <2>1, JourneyProofs!PlausibleFollows
  <2> QED BY <2>2, JourneysAgree
<1> QED BY <1>1, EachIsSound, PTL

\* Whoever travels at a speed that is allowed is not refused, whatever the attendee's
\* other requests do meanwhile, unless an organizer moved the venue of an earlier entry,
\* and it is that venue that is too far (geo_verification.py 120-159, checkins.py 232-243).
THEOREM TravellersAreWelcome == EachSpec => TravellersAreNotRefused
<1> DEFINE Due == /\ part = "journey" => Journey!RefusalIsDue
                  /\ part = "detour" => Detour!RefusalIsDue
<1>1. ASSUME EachInv, [EachNext]_allVars PROVE [Due]_allVars
  <2>1. IF part = "detour" THEN [Detour!Next]_Detour!vars ELSE [Journey!Next]_Journey!vars
    BY <1>1, StepsOfEach
  <2>2. CASE part = "detour" /\ ~ UNCHANGED allVars
    <3>1. /\ DetourProofs!TravelAssumption /\ DetourProofs!JourneyInv
          /\ [DetourProofs!Next]_DetourProofs!vars
      BY <1>1, <2>1, <2>2, DetoursAgree, AttendeesAssumption DEF EachInv
    <3>2. [DetourProofs!RefusalIsDue]_DetourProofs!vars
      BY <3>1, DetourProofs!StepsRefuseRightly
    <3>3. ~ UNCHANGED Detour!vars
      BY <1>1, <2>2, ChangeIsOfThePart
    <3>4. ~ UNCHANGED DetourProofs!vars
      BY <3>3 DEF Detour!vars, Detour!tables, Detour!session, Detour!history,
           DetourProofs!vars, DetourProofs!tables, DetourProofs!session, DetourProofs!history
    <3> QED BY <2>2, <3>2, <3>4, DetoursAgree
  <2>3. CASE part = "journey" /\ ~ UNCHANGED allVars
    <3>1. /\ JourneyProofs!TravelAssumption /\ JourneyProofs!JourneyInv
          /\ [JourneyProofs!Next]_JourneyProofs!vars
      BY <1>1, <2>1, <2>3, JourneysAgree, AttendeesAssumption DEF EachInv
    <3>2. [JourneyProofs!RefusalIsDue]_JourneyProofs!vars
      BY <3>1, JourneyProofs!StepsRefuseRightly
    <3>3. ~ UNCHANGED Journey!vars
      BY <1>1, <2>3, ChangeIsOfThePart
    <3>4. ~ UNCHANGED JourneyProofs!vars
      BY <3>3 DEF Journey!vars, Journey!tables, Journey!session, Journey!history,
           JourneyProofs!vars, JourneyProofs!tables, JourneyProofs!session,
           JourneyProofs!history
    <3> QED BY <2>3, <3>2, <3>4, JourneysAgree
  <2> QED BY <2>2, <2>3
<1>2. EachInv /\ [EachNext]_allVars => [Due]_allVars
  BY <1>1
<1> QED BY <1>2, EachIsSound, PTL DEF EachSpec, TravellersAreNotRefused

\* A behaviour of all of them is one of the job, of which its theorems hold.
LEMMA JobInCompany == EachSpec => []HashesDoNotOutstay /\ AttendanceIsKept
<1>1. [EachNext]_allVars => [Next]_vars
  BY StepsOfEach
<1>2. EachInit => Init
  BY DEF EachInit
<1>3. EachSpec => Spec
  BY <1>1, <1>2, PTL DEF EachSpec, Spec
<1> QED BY <1>3, HashesAreScrubbedInTime, OnlyOldHashesGo, AttendeesAssumption, PTL

=============================================================================
