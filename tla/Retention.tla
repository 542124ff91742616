------------------------------ MODULE Retention ------------------------------
(***************************************************************************)
(* The retention job of src/jobs/geofence_retention.py, which takes the    *)
(* location hashes off old rows of event_checkins in one bulk UPDATE,      *)
(* beside the INSERTs of check-ins (src/routers/checkins.py).              *)
(*                                                                         *)
(* checkin_at has no index of its own, so that the UPDATE visits the rows  *)
(* in the order of their ids and locks what it has visited until its       *)
(* COMMIT; under REPEATABLE READ that is, at last, the place where new     *)
(* rows go, and an INSERT waits there until the lock wait times out.       *)
(* The repository leaves the schedule of the job open: here it is due      *)
(* every Period days, and a run that dies is repeated when it is next due. *)
(***************************************************************************)
EXTENDS Integers, Sequences, FiniteSets

CONSTANTS
    Settings,     \* what GEOFENCE_RETENTION_DAYS may say
    Malformed,    \* a setting that is not a number
    DefaultDays,  \* the number of days if it is not
    Period,       \* days from one run to the next
    Workers,      \* request threads
    MaxCheckins,  \* bound on the rows
    MaxDeaths,    \* bound on the runs that die
    Horizon,      \* bound: the last day
    GapLocks      \* TRUE for REPEATABLE READ, FALSE for READ COMMITTED

RetentionAssumption ==
    /\ Settings \subseteq Int \cup {Malformed}
    /\ DefaultDays \in Nat \ {0} /\ Period \in Nat \ {0}
    /\ IsFiniteSet(Workers) /\ MaxCheckins \in Nat /\ MaxDeaths \in Nat
    /\ Horizon \in Nat /\ GapLocks \in BOOLEAN

VARIABLES
    today,     \* the clock, in days
    setting,   \* GEOFENCE_RETENTION_DAYS, which a deployment sets once
    rows,      \* event_checkins by id: [at, hashed]
    job,       \* the job: "idle" or "scan"
    cutoff,    \* the cutoff that it has computed
    next,      \* the id that its UPDATE visits next
    scrubbed,  \* the rows that it has changed and not committed
    due,       \* the day of its next run
    pc,        \* where each worker is
    deaths,    \* how many runs have died
    missed     \* history: how many of them since a run came to its end

jobState == <<job, cutoff, next, scrubbed, due>>
vars == <<today, setting, rows, jobState, pc, deaths, missed>>

-----------------------------------------------------------------------------

\* max(value, 0)
RetentionDays ==
    IF setting = Malformed THEN DefaultDays ELSE IF setting > 0 THEN setting ELSE 0

Enabled == RetentionDays > 0

\* Under the job's locks a new row has no place.
Blocked == GapLocks /\ job = "scan" /\ next > Len(rows)

-----------------------------------------------------------------------------
(* The job *)

\* The cutoff is computed once, before the UPDATE.
Start ==
    /\ job = "idle"
    /\ Enabled
    /\ today >= due
    /\ job' = "scan"
    /\ cutoff' = today - RetentionDays
    /\ next' = 1
    /\ due' = today + Period
    /\ UNCHANGED <<today, setting, rows, scrubbed, pc, deaths, missed>>

StartDisabled ==
    /\ job = "idle"
    /\ ~ Enabled
    /\ today >= due
    /\ due' = today + Period
    /\ UNCHANGED <<today, setting, rows, job, cutoff, next, scrubbed, pc, deaths, missed>>

OldOrDue(i) == rows[i].at <= cutoff /\ rows[i].hashed

Old(i) == rows[i].at < cutoff /\ rows[i].hashed

Visit ==
    /\ job = "scan"
    /\ next <= Len(rows)
    /\ scrubbed' = IF Old(next) THEN scrubbed \cup {next} ELSE scrubbed
    /\ next' = next + 1
    /\ UNCHANGED <<today, setting, rows, job, cutoff, due, pc, deaths, missed>>

\* A generator that keeps its place.
EndKeepsPlace(r) ==
    /\ rows' = r
    /\ job' = "idle"
    /\ cutoff' = 0 /\ scrubbed' = {}
    /\ UNCHANGED <<today, setting, due, next, pc>>

\* The job ends, with the rows as r.
End(r) ==
    /\ rows' = r
    /\ job' = "idle"
    /\ cutoff' = 0 /\ next' = 1 /\ scrubbed' = {}
    /\ UNCHANGED <<today, setting, due, pc>>

\* The session is closed, and rolled back, without a COMMIT.
CommitForgotten ==
    /\ job = "scan"
    /\ next > Len(rows)
    /\ End(rows)
    /\ missed' = 0
    /\ UNCHANGED deaths

Commit ==
    /\ job = "scan"
    /\ next > Len(rows)
    /\ End([i \in DOMAIN rows |->
               IF i \in scrubbed THEN [rows[i] EXCEPT !.hashed = FALSE] ELSE rows[i]])
    /\ missed' = 0
    /\ UNCHANGED deaths

\* The process dies, and the transaction is rolled back.
Die ==
    /\ job = "scan"
    /\ deaths < MaxDeaths
    /\ deaths' = deaths + 1
    /\ missed' = missed + 1
    /\ End(rows)

-----------------------------------------------------------------------------
(* Check-ins *)

Arrive(w) ==
    /\ pc[w] = "idle"
    /\ Len(rows) + Cardinality({v \in Workers : pc[v] = "insert"}) < MaxCheckins
    /\ pc' = [pc EXCEPT ![w] = "insert"]
    /\ UNCHANGED <<today, setting, rows, jobState, deaths, missed>>

\* INSERT and COMMIT; only a check-in with coordinates has hashes.
InsertCheckin(w, hashed) ==
    /\ pc[w] = "insert"
    /\ ~ Blocked
    /\ rows' = Append(rows, [at |-> today, hashed |-> hashed])
    /\ pc' = [pc EXCEPT ![w] = "idle"]
    /\ UNCHANGED <<today, setting, jobState, deaths, missed>>

\* The INSERT waits in vain; only an IntegrityError would be caught.
InsertTimesOut(w) ==
    /\ pc[w] = "insert"
    /\ Blocked
    /\ pc' = [pc EXCEPT ![w] = "idle"]
    /\ UNCHANGED <<today, setting, rows, jobState, deaths, missed>>

-----------------------------------------------------------------------------

\* A run starts on the day it is due, and is over before the next day.
NextDay ==
    /\ today < Horizon
    /\ job = "idle" /\ today < due
    /\ today' = today + 1
    /\ UNCHANGED <<setting, rows, jobState, pc, deaths, missed>>

Init ==
    /\ today = 0
    /\ setting \in Settings
    /\ rows = <<>>
    /\ job = "idle" /\ cutoff = 0 /\ next = 1 /\ scrubbed = {} /\ due = 0
    /\ pc = [w \in Workers |-> "idle"]
    /\ deaths = 0 /\ missed = 0

Next ==
    \/ Start \/ StartDisabled \/ Visit \/ Commit \/ Die
    \/ \E w \in Workers :
          \/ Arrive(w) \/ InsertTimesOut(w)
          \/ \E hashed \in BOOLEAN : InsertCheckin(w, hashed)
    \/ NextDay

Spec == Init /\ [][Next]_vars

-----------------------------------------------------------------------------
(* Correctness *)

TypeOK ==
    /\ today \in 0..Horizon /\ setting \in Settings
    /\ rows \in Seq([at : 0..today, hashed : BOOLEAN]) /\ Len(rows) <= MaxCheckins
    /\ \A i, j \in DOMAIN rows : i < j => rows[i].at <= rows[j].at
    /\ job \in {"idle", "scan"} /\ next \in 1..Len(rows) + 1
    /\ scrubbed \subseteq 1..next - 1
    /\ job = "idle" => scrubbed = {} /\ next = 1
    /\ due \in 0..Horizon + Period
    /\ pc \in [Workers -> {"idle", "insert"}]
    /\ missed \in 0..deaths /\ deaths \in 0..MaxDeaths

\* Where the job is enabled a hash outlives its retention window by no more than one
\* period of the schedule, and one more for every run in a row that died: whatever
\* dies or is inserted between its steps, the next run makes up for
\* (geofence_retention.py 67-87).
HashesDoNotOutstay ==
    Enabled => \A i \in DOMAIN rows :
        rows[i].hashed => today - rows[i].at <= RetentionDays + Period * (1 + missed)

\* No step takes a check-in away or changes when it was; no hash goes that is within
\* its window, not even one inserted during the UPDATE, and none ever comes back
\* (geofence_retention.py 61-62, 72-86).
AttendanceIsKept ==
    [][/\ Len(rows) <= Len(rows')
       /\ \A i \in DOMAIN rows :
             /\ rows'[i].at = rows[i].at
             /\ rows'[i].hashed => rows[i].hashed
             /\ rows[i].hashed /\ ~ rows'[i].hashed => today - rows[i].at > RetentionDays]_vars
=============================================================================
