--------------------------- MODULE CheckinsProofs ---------------------------
(***************************************************************************)
(* Theorems about the door, for any attendees, worker threads, tokens,     *)
(* methods and failures, and at either isolation level.                    *)
(***************************************************************************)
EXTENDS Checkins, FiniteSetTheorems, TLAPS

\* The table of registrations by itself: a status for each user.
Registered == regs \in [Users -> [status : RowStatus]]

\* Only a request under way has an attendee.
JobsHaveUsers == \A w \in Workers : pc[w] # Idle => job[w].user \in Users

\* Every type, and what the steps need to keep them.
Typed == TypeOK /\ Registered /\ JobsHaveUsers

-----------------------------------------------------------------------------
(* Types *)

\* What a SELECT about an attendee and a token returns.
LEMMA NowIsAView ==
    ASSUME TypeOK, NEW u \in Users, NEW t \in Tokens \cup {NoToken}
    PROVE  Now(u, t) \in [status : RowStatus, usedBy : Users \cup {NoUser}]
BY DEF TypeOK, Now

\* The view that a transaction's first SELECT opens, or leaves closed.
LEMMA OpenViewIsAView ==
    ASSUME TypeOK, NEW u \in Users, NEW t \in Tokens \cup {NoToken}
    PROVE  OpenView(u, t) \in [status : RowStatus \cup {"closed"}, usedBy : Users \cup {NoUser}]
BY NowIsAView DEF OpenView, Closed

\* What the end of a handler leaves of its session.
LEMMA FinishKeepsTypes ==
    ASSUME Typed, NEW w \in Workers, NEW code \in Codes, Finish(w, code)
    PROVE  /\ pc'    \in [Workers -> Labels]
           /\ job'   \in [Workers -> [user   : Users \cup {NoUser},
                                      token  : Tokens \cup {NoToken},
                                      method : Methods \cup {NoMethod}]]
           /\ view'  \in [Workers -> [status : RowStatus \cup {"closed"},
                                      usedBy : Users \cup {NoUser}]]
           /\ reply' \in [to : Workers \cup {NoWorker}, code : Codes]
           /\ JobsHaveUsers'
<1>1. pc' \in [Workers -> Labels]
  BY DEF Typed, TypeOK, Finish, Labels, Idle
<1>2. job' \in [Workers -> [user   : Users \cup {NoUser},
                            token  : Tokens \cup {NoToken},
                            method : Methods \cup {NoMethod}]]
  BY DEF Typed, TypeOK, Finish, NoJob
<1>3. view' \in [Workers -> [status : RowStatus \cup {"closed"},
                             usedBy : Users \cup {NoUser}]]
  BY DEF Typed, TypeOK, Finish, Closed
<1>4. reply' \in [to : Workers \cup {NoWorker}, code : Codes]
  BY DEF Finish
<1>5. JobsHaveUsers'
  BY DEF Typed, TypeOK, JobsHaveUsers, Finish
<1> QED BY <1>1, <1>2, <1>3, <1>4, <1>5

\* A step to the next statement of a handler.
LEMMA GotoKeepsTypes ==
    ASSUME Typed, NEW w \in Workers, NEW label \in Labels, Goto(w, label)
    PROVE  /\ pc'    \in [Workers -> Labels]
           /\ reply' \in [to : Workers \cup {NoWorker}, code : Codes]
           /\ job' = job /\ pc[w] # Idle => JobsHaveUsers'
<1>1. pc' \in [Workers -> Labels]
  BY DEF Typed, TypeOK, Goto
<1>2. reply' \in [to : Workers \cup {NoWorker}, code : Codes]
  BY DEF Goto, NoReply, Codes
<1>3. job' = job /\ pc[w] # Idle => JobsHaveUsers'
  BY DEF Typed, TypeOK, JobsHaveUsers, Goto
<1> QED BY <1>1, <1>2, <1>3

\* At first the door is closed, nothing is minted, and the registrations are those
\* that come to it.
LEMMA TypedInit == Init => Typed
<1> SUFFICES ASSUME Init PROVE Typed
  OBVIOUS
<1>1. Registered /\ \A u \in Users : regs[u].status \in RowStatus
  BY DoorAssumption DEF Init, Registered, RowStatus
<1>2. /\ checkins \in [Users -> Tokens \cup {NoToken, Absent}]
      /\ used \in [Tokens -> Users \cup {NoUser}]
      /\ minted \subseteq Tokens /\ expired \subseteq minted
      /\ failures \in 0 .. MaxFailures
  BY DoorAssumption DEF Init, InitDoor
<1>3. /\ pc \in [Workers -> Labels] /\ JobsHaveUsers
  BY DEF Init, InitDoor, Labels, Idle, JobsHaveUsers
<1>4. /\ job \in [Workers -> [user   : Users \cup {NoUser},
                              token  : Tokens \cup {NoToken},
                              method : Methods \cup {NoMethod}]]
      /\ view \in [Workers -> [status : RowStatus \cup {"closed"},
                               usedBy : Users \cup {NoUser}]]
      /\ reply \in [to : Workers \cup {NoWorker}, code : Codes]
  BY DEF Init, InitDoor, NoJob, Closed, NoReply, Codes
<1> QED BY <1>1, <1>2, <1>3, <1>4 DEF Typed, TypeOK

\* A request arrives, and is refused or starts a check-in (checkins.py 145-225).
LEMMA TypedArrive ==
    ASSUME Typed, NEW w \in Workers, Arrive(w)
    PROVE  Typed'
<1>1. ASSUME NEW code \in Codes, Refuse(w, code)
      PROVE  Typed'
  BY <1>1, FinishKeepsTypes DEF Refuse, tables, Typed, TypeOK, Registered
<1>2. ASSUME NEW u \in Users, NEW t \in minted \cup {NoToken}, NEW m \in DeclaredMethods,
             StartCheckin(w, u, t, m)
      PROVE  Typed'
  <2> DEFINE method == MethodOf(m)
             tok == IF NeedsQr(method) THEN t ELSE NoToken
             label == IF NeedsQr(method) THEN "peek" ELSE AfterQr(method)
  <2>1. /\ method \in Methods /\ tok \in Tokens \cup {NoToken} /\ label \in Labels \ {Idle}
    BY <1>2, DoorAssumption
    DEF StartCheckin, MethodOf, Methods, AfterQr, Labels, Idle, Typed, TypeOK
  <2>2. /\ job'  = [job EXCEPT ![w] = [user |-> u, token |-> tok, method |-> method]]
        /\ view' = [view EXCEPT ![w] = OpenView(u, tok)]
        /\ Goto(w, label)
        /\ UNCHANGED <<tables, failures>>
    BY <1>2 DEF StartCheckin
  <2> HIDE DEF method, tok, label
  <2>3. job' \in [Workers -> [user   : Users \cup {NoUser},
                              token  : Tokens \cup {NoToken},
                              method : Methods \cup {NoMethod}]]
    BY <2>1, <2>2 DEF Typed, TypeOK
  <2>4. view' \in [Workers -> [status : RowStatus \cup {"closed"},
                               usedBy : Users \cup {NoUser}]]
    BY <2>1, <2>2, OpenViewIsAView DEF Typed, TypeOK
  <2>5. JobsHaveUsers'
    BY <2>1, <2>2 DEF Typed, TypeOK, JobsHaveUsers, Goto
  <2> QED BY <2>1, <2>2, <2>3, <2>4, <2>5, GotoKeepsTypes DEF tables, Typed, TypeOK, Registered
<1>3. {"turned_away", "event_not_active", "checkin_disabled", "nfc_disabled"} \subseteq Codes
  BY DEF Codes
<1> QED BY <1>1, <1>2, <1>3 DEF Arrive, TurnAway, RefuseInactive, RefuseMethod

\* A step of a handler (checkins.py 246-401).
LEMMA TypedProceed ==
    ASSUME Typed, NEW w \in Workers, Proceed(w)
    PROVE  Typed'
<1>1. ASSUME NEW code \in Codes, Finish(w, code), UNCHANGED <<tables, failures>>
      PROVE  Typed'
  BY <1>1, FinishKeepsTypes DEF tables, Typed, TypeOK, Registered
<1>2. ASSUME NEW label \in Labels, pc[w] # Idle, Goto(w, label),
             UNCHANGED <<tables, job, view, failures>>
      PROVE  Typed'
  BY <1>2, GotoKeepsTypes DEF tables, Typed, TypeOK, Registered
<1>3. /\ {"attendee_mismatch", "invalid_token", "geofence_failed",
          "registration_required", "duplicate", "success"} \subseteq Codes
      /\ {"peek", "locate", "lookup", "insert", "reload", "mark", "redeem", "burn"}
            \subseteq Labels \ {Idle}
  BY DEF Codes, Labels, Idle
<1>4. CASE PeekFails(w) \/ LocateFails(w) \/ LookupFails(w) \/ InsertFails(w) \/ RedeemNothing(w)
  BY <1>1, <1>3, <1>4 DEF PeekFails, LocateFails, LookupFails, InsertFails, RedeemNothing
<1>5. CASE PeekPasses(w) \/ LocatePasses(w) \/ LookupPasses(w) \/ RedeemToken(w)
  BY <1>2, <1>3, <1>5 DEF PeekPasses, LocatePasses, LookupPasses, RedeemToken, AfterQr
<1>6. job[w].user \in Users \/ pc[w] = Idle
  BY DEF Typed, JobsHaveUsers
<1>7. job[w].token \in Tokens \cup {NoToken}
  BY DEF Typed, TypeOK
<1>8. CASE InsertCheckin(w)
  <2>1. checkins' \in [Users -> Tokens \cup {NoToken, Absent}]
    BY <1>7, <1>8 DEF InsertCheckin, Typed, TypeOK
  <2>2. view' \in [Workers -> [status : RowStatus \cup {"closed"},
                               usedBy : Users \cup {NoUser}]]
    BY <1>8 DEF InsertCheckin, Closed, Typed, TypeOK
  <2> QED BY <1>3, <1>8, <2>1, <2>2, GotoKeepsTypes DEF InsertCheckin, Typed, TypeOK, Registered
<1>9. CASE Reload(w)
  <2>1. view' \in [Workers -> [status : RowStatus \cup {"closed"},
                               usedBy : Users \cup {NoUser}]]
    BY <1>3, <1>6, <1>7, <1>9, OpenViewIsAView DEF Reload, Typed, TypeOK
  <2> QED BY <1>3, <1>9, <2>1, GotoKeepsTypes
          DEF Reload, AfterReload, tables, Typed, TypeOK, Registered
<1>10. CASE MarkAttended(w)
  <2>1. Registered' /\ \A u \in Users : regs'[u].status \in RowStatus
    BY <1>10 DEF MarkAttended, AttendedStatus, RowStatus, Typed, Registered
  <2>2. view' \in [Workers -> [status : RowStatus \cup {"closed"},
                               usedBy : Users \cup {NoUser}]]
    BY <1>10 DEF MarkAttended, Closed, Typed, TypeOK
  <2> QED BY <1>3, <1>10, <2>1, <2>2, GotoKeepsTypes DEF MarkAttended, Typed, TypeOK
<1>11. CASE BurnToken(w)
  <2>1. used' \in [Tokens -> Users \cup {NoUser}]
    BY <1>11 DEF BurnToken, Typed, TypeOK
  <2> QED BY <1>3, <1>11, <2>1, FinishKeepsTypes DEF BurnToken, Typed, TypeOK, Registered
<1> QED BY <1>4, <1>5, <1>8, <1>9, <1>10, <1>11 DEF Proceed

\* Every step of the door keeps every type, a request that dies, the mint and the
\* clock included.
LEMMA TypedStep == Typed /\ [Next]_vars => Typed'
<1> SUFFICES ASSUME Typed, [Next]_vars PROVE Typed'
  OBVIOUS
<1>1. ASSUME NEW w \in Workers, Fail(w)
      PROVE  Typed'
  <2>1. failures' \in 0 .. MaxFailures
    BY <1>1, DoorAssumption DEF Fail, Typed, TypeOK
  <2>2. "error" \in Codes
    BY DEF Codes
  <2> QED BY <1>1, <2>1, <2>2, FinishKeepsTypes DEF Fail, tables, Typed, TypeOK, Registered
<1>2. ASSUME NEW t \in Tokens, MintToken(t) \/ ExpireToken(t)
      PROVE  Typed'
  BY <1>2 DEF MintToken, ExpireToken, NoReply, Codes, Typed, TypeOK, Registered, JobsHaveUsers
<1>3. CASE UNCHANGED vars
  BY <1>3 DEF vars, Typed, TypeOK, Registered, JobsHaveUsers
<1> QED BY <1>1, <1>2, <1>3, TypedArrive, TypedProceed DEF Next

\* The invariant of types, which the proofs below build on.
LEMMA TypedAlways == Spec => []Typed
BY TypedInit, TypedStep, PTL DEF Spec

\* Every variable of the door keeps its type, whatever requests come, die, or overlap.
THEOREM DoorTypeCorrect == Spec => []TypeOK
<1>1. Typed => TypeOK
  BY DEF Typed
<1> QED BY <1>1, TypedAlways, PTL

-----------------------------------------------------------------------------
(* What a worker knows of the tables *)

\* The places of a worker that may still let its attendee in, and of one that has.
Before == {"peek", "locate", "lookup", "insert"}
Inside == {"reload", "mark", "redeem", "burn"}

\* A worker that goes on after its INSERT has let its own attendee in, on its token.
Admitted(w) == pc[w] \in Inside => checkins[job[w].user] = job[w].token

\* A redeemer that a read view has is one that the table still has: no statement of the
\* door clears used_by_user_id.  Where views are kept, one is open before the INSERT.
Viewed(w) ==
    /\ view[w].usedBy # NoUser => job[w].token \in Tokens /\ used[job[w].token] # NoUser
    /\ SnapshotReads /\ pc[w] \in Before => view[w].status # "closed"
    /\ ~ SnapshotReads => view[w] = Closed

\* Past the peek a token is one's own or anybody's, and only a token that burns is burned.
Genuine(w) ==
    /\ pc[w] \in {"locate", "lookup", "insert"} /\ job[w].token # NoToken =>
          Holder[job[w].token] \in {NoUser, job[w].user}
    /\ pc[w] = "burn" => job[w].token \in SingleUse

Knowledge == Typed /\ \A w \in Workers : Admitted(w) /\ Viewed(w) /\ Genuine(w)

\* What a worker does is nobody else's business: no other session changes.
LEMMA OthersWait ==
    ASSUME Typed, NEW w \in Workers, Arrive(w) \/ Proceed(w) \/ Fail(w)
    PROVE  \A v \in Workers \ {w} : pc'[v] = pc[v] /\ job'[v] = job[v] /\ view'[v] = view[v]
<1>1. ASSUME NEW code, Finish(w, code)
      PROVE  \A v \in Workers \ {w} : pc'[v] = pc[v] /\ job'[v] = job[v] /\ view'[v] = view[v]
  BY <1>1 DEF Finish, Typed, TypeOK
<1>2. CASE Arrive(w)
  BY <1>1, <1>2 DEF Arrive, TurnAway, RefuseInactive, RefuseMethod, Refuse, StartCheckin, Goto,
                    Typed, TypeOK
<1>3. CASE PeekFails(w) \/ LocateFails(w) \/ LookupFails(w) \/ InsertFails(w) \/ RedeemNothing(w)
             \/ BurnToken(w) \/ Fail(w)
  BY <1>1, <1>3 DEF PeekFails, LocateFails, LookupFails, InsertFails, RedeemNothing, BurnToken, Fail
<1>4. CASE PeekPasses(w) \/ LocatePasses(w) \/ LookupPasses(w) \/ RedeemToken(w)
             \/ InsertCheckin(w) \/ Reload(w) \/ MarkAttended(w)
  BY <1>4 DEF PeekPasses, LocatePasses, LookupPasses, RedeemToken, InsertCheckin, Reload,
              MarkAttended, Goto, Typed, TypeOK
<1> QED BY <1>2, <1>3, <1>4 DEF Proceed

\* The tables only grow in what matters: an attendee that is in stays in, on the token
\* it came with, and a used token stays used.
LEMMA TablesGrow ==
    ASSUME Typed, [Next]_vars
    PROVE  /\ \A u \in Users : CheckedIn(u) => checkins'[u] = checkins[u]
           /\ \A t \in Tokens : used[t] # NoUser => used'[t] # NoUser
<1>1. ASSUME NEW w \in Workers, InsertCheckin(w)
      PROVE  /\ \A u \in Users : CheckedIn(u) => checkins'[u] = checkins[u]
             /\ used' = used
  BY <1>1 DEF InsertCheckin, CheckedIn, Typed, TypeOK
<1>2. ASSUME NEW w \in Workers, BurnToken(w)
      PROVE  /\ checkins' = checkins
             /\ \A t \in Tokens : used[t] # NoUser => used'[t] # NoUser
  <2>1. job[w].user \in Users
    BY <1>2 DEF BurnToken, Typed, JobsHaveUsers, Idle
  <2> QED BY <1>2, <2>1, DoorAssumption DEF BurnToken, Typed, TypeOK
<1>3. \/ UNCHANGED <<checkins, used>>
      \/ \E w \in Workers : InsertCheckin(w) \/ BurnToken(w)
  BY DEF Next, vars, Arrive, TurnAway, RefuseInactive, RefuseMethod, Refuse, StartCheckin, tables,
         Proceed, PeekFails, PeekPasses, LocateFails, LocatePasses, LookupFails, LookupPasses,
         InsertFails, Reload, MarkAttended, RedeemNothing, RedeemToken, Fail, MintToken, ExpireToken
<1> QED BY <1>1, <1>2, <1>3

\* A worker keeps what it knows while others work.
LEMMA KnowledgeLasts ==
    ASSUME Knowledge, Typed', [Next]_vars, NEW v \in Workers,
           pc'[v] = pc[v], job'[v] = job[v], view'[v] = view[v]
    PROVE  Admitted(v)' /\ Viewed(v)' /\ Genuine(v)'
<1>1. Admitted(v) /\ Viewed(v) /\ Genuine(v) /\ Typed
  BY DEF Knowledge
<1>2. Admitted(v)'
  <2>1. pc[v] \in Inside => job[v].user \in Users /\ CheckedIn(job[v].user)
    BY <1>1, DoorAssumption
    DEF Admitted, Typed, TypeOK, JobsHaveUsers, Inside, Idle, CheckedIn, Absent
  <2> QED BY <1>1, <2>1, TablesGrow DEF Admitted
<1>3. Viewed(v)'
  BY <1>1, TablesGrow DEF Viewed
<1>4. Genuine(v)'
  BY <1>1 DEF Genuine
<1> QED BY <1>2, <1>3, <1>4

\* At first nobody is at work.
LEMMA KnowledgeInit == Init => Knowledge
BY TypedInit DEF Init, InitDoor, Knowledge, Admitted, Viewed, Genuine, Before, Inside, Idle, Closed

\* A worker at the end of its handler knows nothing.
LEMMA FinishForgets ==
    ASSUME Typed, NEW w \in Workers, NEW code, Finish(w, code)
    PROVE  Admitted(w)' /\ Viewed(w)' /\ Genuine(w)'
BY DEF Finish, Typed, TypeOK, Admitted, Viewed, Genuine, Before, Inside, Idle, Closed

\* What a new check-in knows is what it reads at first (checkins.py 177-225).
LEMMA KnowledgeArrive ==
    ASSUME Knowledge, NEW w \in Workers, Arrive(w)
    PROVE  Admitted(w)' /\ Viewed(w)' /\ Genuine(w)'
<1>1. ASSUME NEW code, Refuse(w, code)
      PROVE  Admitted(w)' /\ Viewed(w)' /\ Genuine(w)'
  BY <1>1, FinishForgets DEF Refuse, Knowledge
<1>2. ASSUME NEW u \in Users, NEW t \in minted \cup {NoToken}, NEW m \in DeclaredMethods,
             StartCheckin(w, u, t, m)
      PROVE  Admitted(w)' /\ Viewed(w)' /\ Genuine(w)'
  <2> DEFINE tok == IF NeedsQr(MethodOf(m)) THEN t ELSE NoToken
  <2>1. /\ job'[w].token = tok /\ job'[w].user = u /\ view'[w] = OpenView(u, tok)
        /\ pc'[w] \in {"peek", "locate", "lookup"}
        /\ pc'[w] # "peek" => tok = NoToken
        /\ UNCHANGED tables
    BY <1>2 DEF StartCheckin, Goto, AfterQr, Knowledge, Typed, TypeOK
  <2>2. /\ tok \in Tokens \cup {NoToken} /\ regs[u].status # "closed" /\ used' = used
        /\ OpenView(u, tok) \in [status : RowStatus \cup {"closed"}, usedBy : Users \cup {NoUser}]
    BY <2>1, OpenViewIsAView DEF Knowledge, Typed, TypeOK, RowStatus, tables
  <2> HIDE DEF tok
  <2>3. Admitted(w)' /\ Genuine(w)'
    BY <2>1 DEF Admitted, Genuine, Inside
  <2>4. Viewed(w)'
    BY <2>1, <2>2 DEF Viewed, OpenView, Now, Closed
  <2> QED BY <2>3, <2>4
<1> QED BY <1>1, <1>2 DEF Arrive, TurnAway, RefuseInactive, RefuseMethod

\* Each statement of a handler adds to what its worker knows (checkins.py 246-401).
LEMMA KnowledgeProceed ==
    ASSUME Knowledge, Typed', NEW w \in Workers, Proceed(w)
    PROVE  Admitted(w)' /\ Viewed(w)' /\ Genuine(w)'
<1>1. Typed /\ Admitted(w) /\ Viewed(w) /\ Genuine(w)
  BY DEF Knowledge
<1>2. CASE PeekFails(w) \/ LocateFails(w) \/ LookupFails(w) \/ InsertFails(w) \/ RedeemNothing(w)
             \/ BurnToken(w)
  BY <1>1, <1>2, FinishForgets
  DEF PeekFails, LocateFails, LookupFails, InsertFails, RedeemNothing, BurnToken
<1> USE DEF Goto, Before, Inside
<1>3. CASE PeekPasses(w)
  <2>1. pc'[w] \in {"locate", "lookup"}
    BY <1>1, <1>3 DEF PeekPasses, AfterQr, Typed, TypeOK
  <2>2. Admitted(w)' /\ Genuine(w)'
    BY <1>1, <1>3, <2>1 DEF PeekPasses, Admitted, Genuine, BoundToOther, TokenGood
  <2>3. Viewed(w)'
    BY <1>1, <1>3, <2>1 DEF PeekPasses, Viewed, tables
  <2> QED BY <2>2, <2>3
<1>4. CASE LocatePasses(w) \/ LookupPasses(w)
  BY <1>1, <1>4 DEF LocatePasses, LookupPasses, tables, Typed, TypeOK, Admitted, Viewed, Genuine
<1>5. CASE InsertCheckin(w)
  <2>1. /\ pc'[w] = "reload" /\ job' = job /\ view'[w] = Closed
        /\ checkins'[job[w].user] = job[w].token
    BY <1>1, <1>5 DEF InsertCheckin, Typed, TypeOK, JobsHaveUsers, Idle
  <2> QED BY <2>1 DEF Admitted, Viewed, Genuine, Closed
<1>6. CASE Reload(w)
  <2>1. /\ pc'[w] \in {"mark", "redeem"} /\ UNCHANGED <<checkins, used, job>>
        /\ view'[w] = OpenView(job[w].user, job[w].token)
    BY <1>1, <1>6 DEF Reload, AfterReload, tables, Typed, TypeOK
  <2> QED BY <1>1, <1>6, <2>1 DEF Reload, Admitted, Viewed, Genuine, OpenView, Now, Closed
<1>7. CASE MarkAttended(w)
  <2>1. pc'[w] = "redeem" /\ UNCHANGED <<checkins, used, job>> /\ view'[w] = Closed
    BY <1>1, <1>7 DEF MarkAttended, Typed, TypeOK
  <2> QED BY <1>1, <1>7, <2>1 DEF MarkAttended, Admitted, Viewed, Genuine, Closed
<1>8. CASE RedeemToken(w)
  <2>1. pc'[w] = "burn" /\ UNCHANGED <<checkins, used, job, view>>
    BY <1>1, <1>8 DEF RedeemToken, tables, Typed, TypeOK
  <2> QED BY <1>1, <1>8, <2>1 DEF RedeemToken, NothingToBurn, Admitted, Viewed, Genuine
<1> QED BY <1>2, <1>3, <1>4, <1>5, <1>6, <1>7, <1>8 DEF Proceed

\* Every step leaves every worker with what it knows.
LEMMA KnowledgeStep == Knowledge /\ [Next]_vars => Knowledge'
<1> SUFFICES ASSUME Knowledge, [Next]_vars PROVE Knowledge'
  OBVIOUS
<1>1. Typed /\ Typed'
  BY TypedStep DEF Knowledge
<1>2. ASSUME NEW w \in Workers, Arrive(w) \/ Proceed(w) \/ Fail(w)
      PROVE  \A v \in Workers : Admitted(v)' /\ Viewed(v)' /\ Genuine(v)'
  <2>1. Admitted(w)' /\ Viewed(w)' /\ Genuine(w)'
    BY <1>1, <1>2, KnowledgeArrive, KnowledgeProceed, FinishForgets DEF Fail
  <2> QED BY <1>1, <1>2, <2>1, OthersWait, KnowledgeLasts
<1>3. ASSUME UNCHANGED <<pc, job, view>>
      PROVE  \A v \in Workers : Admitted(v)' /\ Viewed(v)' /\ Genuine(v)'
  BY <1>1, <1>3, KnowledgeLasts
<1> QED BY <1>1, <1>2, <1>3 DEF Knowledge, Next, vars, MintToken, ExpireToken

\* The invariant of what workers know.
LEMMA KnowledgeAlways == Spec => []Knowledge
BY KnowledgeInit, KnowledgeStep, PTL DEF Spec

-----------------------------------------------------------------------------
(* Counting *)

\* The dead requests are counted.
LEMMA FailuresAreCounted ==
    ASSUME Typed
    PROVE  failures \in Nat
BY DoorAssumption DEF Typed, TypeOK

\* A larger finite set does not have fewer members, and one that loses a member has
\* one less.
LEMMA Larger ==
    ASSUME NEW S, IsFiniteSet(S), NEW T, T \subseteq S
    PROVE  /\ Cardinality(T) \in Nat /\ Cardinality(S) \in Nat
           /\ Cardinality(T) <= Cardinality(S)
           /\ \A x : x \in S /\ x \notin T => Cardinality(T) + 1 <= Cardinality(S)
<1>1. /\ IsFiniteSet(T) /\ Cardinality(T) \in Nat /\ Cardinality(S) \in Nat
      /\ Cardinality(T) <= Cardinality(S)
  BY FS_Subset, FS_CardinalityType
<1>2. ASSUME NEW x, x \in S, x \notin T
      PROVE  Cardinality(T) + 1 <= Cardinality(S)
  <2>1. IsFiniteSet(T \cup {x}) /\ Cardinality(T \cup {x}) = Cardinality(T) + 1
    BY <1>1, <1>2, FS_AddElement
  <2>2. T \cup {x} \subseteq S
    BY <1>2
  <2> QED BY <2>1, <2>2, FS_Subset
<1> QED BY <1>1, <1>2

-----------------------------------------------------------------------------
(* Who is left half checked in *)

\* A worker that goes on inside leaves nothing undone, whatever the isolation level
\* (checkins.py 365-393, qr_token_service.py 283-304).
LEMMA InsideIsFinished ==
    ASSUME Knowledge, Typed', [Next]_vars, NEW w \in Workers, pc[w] \in Inside, Proceed(w),
           NEW u \in Users, u = job[w].user, Marked(u)
    PROVE  Marked(u)' /\ Redeemed(u)'
<1>0. PICK t : t = job[w].token
  OBVIOUS
<1>1. Typed /\ Admitted(w) /\ Viewed(w) /\ Genuine(w)
  BY DEF Knowledge
<1>2. checkins[u] = t /\ t \in Tokens \cup {NoToken} /\ checkins'[u] = checkins[u]
  BY <1>0, <1>1, TablesGrow, DoorAssumption
  DEF Typed, TypeOK, JobsHaveUsers, Admitted, Inside, Idle, CheckedIn, Absent
<1>3. \A v \in Workers \ {w} : pc'[v] = pc[v] /\ job'[v] = job[v]
  BY <1>1, OthersWait
<1>4. CASE Reload(w)
  <2>1. /\ job'[w].user = u /\ pc'[w] \in {"mark", "redeem"}
        /\ pc'[w] = "redeem" => regs[u].status = "cancelled"
        /\ regs' = regs
    BY <1>1, <1>4 DEF Reload, AfterReload, Goto, tables, Typed, TypeOK
  <2> QED BY <2>1, <1>2 DEF Marked, Redeemed, Inside
<1>5. CASE MarkAttended(w)
  <2>1. job'[w].user = u /\ pc'[w] = "redeem" /\ regs'[u].status = "attended"
    BY <1>1, <1>2, <1>5
    DEF MarkAttended, AttendedStatus, Goto, Typed, TypeOK, Registered
  <2> QED BY <2>1, <1>2 DEF Marked, Redeemed, Inside
<1>6. CASE RedeemToken(w)
  <2>1. job'[w].user = u /\ pc'[w] = "burn" /\ regs' = regs /\ pc[w] = "redeem"
    BY <1>1, <1>6 DEF RedeemToken, Goto, tables, Typed, TypeOK
  <2>2. Marked(u)'
    BY <1>3, <2>1 DEF Marked
  <2> QED BY <2>1, <2>2, <1>2 DEF Redeemed, Inside
<1>7. CASE RedeemNothing(w) \/ BurnToken(w)
  <2>1. regs' = regs /\ pc[w] \in {"redeem", "burn"}
    BY <1>7 DEF RedeemNothing, BurnToken, tables
  <2>2. Marked(u)'
    BY <1>3, <2>1 DEF Marked
  <2>3. t \notin SingleUse \/ used'[t] # NoUser
    <3>1. CASE RedeemNothing(w)
      <4>1. t \notin SingleUse \/ Read(w).usedBy # NoUser
        BY <1>0, <3>1 DEF RedeemNothing, NothingToBurn
      <4>2. Read(w).usedBy # NoUser => t \in Tokens /\ used[t] # NoUser
        BY <1>0, <1>1 DEF Read, Now, Viewed
      <4> QED BY <3>1, <4>1, <4>2 DEF RedeemNothing, tables
    <3>2. CASE BurnToken(w)
      <4>1. u # NoUser /\ t \in Tokens
        BY <1>0, <1>1, <1>2, <3>2, DoorAssumption DEF BurnToken, Genuine
      <4> QED BY <1>0, <1>1, <3>2, <4>1 DEF BurnToken, Typed, TypeOK
    <3> QED BY <1>7, <3>1, <3>2
  <2> QED BY <1>2, <2>2, <2>3 DEF Redeemed
<1>8. pc[w] \notin Before
  BY DEF Inside, Before
<1> QED BY <1>4, <1>5, <1>6, <1>7, <1>8
        DEF Proceed, PeekFails, PeekPasses, LocateFails, LocatePasses, LookupFails, LookupPasses,
            InsertFails, InsertCheckin, Before

\* What is due to u stays due, or is done, while somebody else is served.
LEMMA DueLasts ==
    ASSUME Knowledge, Typed', [Next]_vars, NEW u \in Users, CheckedIn(u), regs'[u] = regs[u],
           \A w \in Workers : job[w].user = u /\ pc[w] \in Inside =>
               job'[w].user = u /\ pc'[w] = pc[w],
           Marked(u), Redeemed(u)
    PROVE  Marked(u)' /\ Redeemed(u)'
<1>1. Marked(u)'
  BY DEF Marked, Inside
<1>2. checkins'[u] = checkins[u] /\ \A t \in Tokens : used[t] # NoUser => used'[t] # NoUser
  BY TablesGrow DEF Knowledge
<1>3. Redeemed(u)'
  BY <1>2, DoorAssumption DEF Redeemed, Inside
<1> QED BY <1>1, <1>3

\* No step strands anybody, but for the attendee of a request that dies.
LEMMA OnlyFailuresStrand ==
    ASSUME Knowledge, [Next]_vars, NEW u \in Stranded', u \notin Stranded
    PROVE  \E w \in Workers : Fail(w) /\ job[w].user = u
<1> SUFFICES ASSUME ~ \E w \in Workers : Fail(w) /\ job[w].user = u
             PROVE  Marked(u)' /\ Redeemed(u)'
  BY DEF Stranded
<1>1. /\ Typed /\ Typed' /\ \A w \in Workers : Admitted(w) /\ Viewed(w) /\ Genuine(w)
      /\ u \in Users /\ CheckedIn(u)'
  BY TypedStep DEF Knowledge, Stranded
<1>2. CheckedIn(u) => Marked(u) /\ Redeemed(u)
  BY <1>1 DEF Stranded
<1>3. ASSUME UNCHANGED <<checkins, regs, pc, job>>
      PROVE  Marked(u)' /\ Redeemed(u)'
  <2>1. CheckedIn(u)
    BY <1>1, <1>3 DEF CheckedIn
  <2> QED BY <1>1, <1>2, <1>3, <2>1, DueLasts
<1>4. ASSUME NEW w \in Workers, Arrive(w) \/ Fail(w)
      PROVE  Marked(u)' /\ Redeemed(u)'
  <2>1. UNCHANGED tables /\ (pc[w] \notin Inside \/ job[w].user # u)
    BY <1>4 DEF Arrive, TurnAway, RefuseInactive, RefuseMethod, Refuse, StartCheckin, Fail,
                Inside, Idle
  <2>2. CheckedIn(u) /\ regs'[u] = regs[u]
    BY <1>1, <2>1 DEF CheckedIn, tables
  <2> QED BY <1>1, <1>2, <1>4, <2>1, <2>2, OthersWait, DueLasts
<1>6. ASSUME NEW w \in Workers, Proceed(w)
      PROVE  Marked(u)' /\ Redeemed(u)'
  <2>2. CASE InsertCheckin(w) /\ job[w].user = u
    <3>1. job'[w].user = u /\ pc'[w] = "reload"
      BY <1>1, <2>2 DEF InsertCheckin, Goto, Typed, TypeOK
    <3> QED BY <3>1 DEF Marked, Redeemed
  <2>3. ASSUME ~ (InsertCheckin(w) /\ job[w].user = u)
        PROVE  CheckedIn(u)
    BY <1>1, <1>6, <2>3
    DEF Proceed, PeekFails, PeekPasses, LocateFails, LocatePasses, LookupFails, LookupPasses,
        InsertFails, InsertCheckin, Reload, MarkAttended, RedeemNothing, RedeemToken, BurnToken,
        tables, CheckedIn, Typed, TypeOK
  <2>4. CASE pc[w] \in Inside /\ job[w].user = u
    <3>1. Marked(u)
      BY <1>2, <2>3, <2>4 DEF InsertCheckin, Inside
    <3> QED BY <1>1, <1>6, <2>4, <3>1, InsideIsFinished
  <2>5. CASE ~ (pc[w] \in Inside /\ job[w].user = u) /\ ~ (InsertCheckin(w) /\ job[w].user = u)
    <3>1. regs'[u] = regs[u]
      BY <1>1, <1>6, <2>5
      DEF Proceed, PeekFails, PeekPasses, LocateFails, LocatePasses, LookupFails, LookupPasses,
          InsertFails, InsertCheckin, Reload, MarkAttended, RedeemNothing, RedeemToken, BurnToken,
          tables, Inside, Typed, TypeOK, Registered
    <3> QED BY <1>1, <1>2, <1>6, <2>3, <2>5, <3>1, OthersWait, DueLasts
  <2> QED BY <2>2, <2>4, <2>5
<1>7. UNCHANGED vars \/ (\E t \in Tokens : MintToken(t) \/ ExpireToken(t)) =>
          UNCHANGED <<checkins, regs, pc, job>>
  BY DEF vars, MintToken, ExpireToken
<1> QED BY <1>3, <1>4, <1>6, <1>7 DEF Next

\* Each request that dies strands one attendee at most.
LEMMA StrandedStep == Knowledge /\ StrandedByFailures /\ [Next]_vars => StrandedByFailures'
<1> SUFFICES ASSUME Knowledge, StrandedByFailures, [Next]_vars
             PROVE  Cardinality(Stranded') <= failures'
  BY DEF StrandedByFailures
<1>1. /\ IsFiniteSet(Stranded) /\ Cardinality(Stranded) \in Nat
      /\ Cardinality(Stranded) <= failures /\ failures \in Nat
  <2>1. Stranded \subseteq Users
    BY DEF Stranded
  <2> QED BY <2>1, DoorAssumption, FS_Subset, FS_CardinalityType, FailuresAreCounted
          DEF StrandedByFailures, Knowledge
<1>2. ASSUME NEW w \in Workers, Fail(w)
      PROVE  Cardinality(Stranded') <= failures'
  <2>1. failures' = failures + 1
    BY <1>2 DEF Fail
  <2>2. \A v \in Workers : Fail(v) => v = w
    BY <1>2 DEF Fail, Finish
  <2>3. Stranded' \subseteq Stranded \cup {job[w].user}
    BY <2>2, OnlyFailuresStrand
  <2>4. /\ IsFiniteSet(Stranded \cup {job[w].user})
        /\ Cardinality(Stranded \cup {job[w].user}) <= Cardinality(Stranded) + 1
    BY <1>1, FS_AddElement
  <2>5. /\ Cardinality(Stranded') \in Nat /\ Cardinality(Stranded \cup {job[w].user}) \in Nat
        /\ Cardinality(Stranded') <= Cardinality(Stranded \cup {job[w].user})
    BY <2>3, <2>4, Larger
  <2> QED BY <1>1, <2>1, <2>4, <2>5
<1>3. CASE ~ \E w \in Workers : Fail(w)
  <2>1. failures' = failures
    BY <1>3 DEF Next, vars, Arrive, TurnAway, RefuseInactive, RefuseMethod, Refuse, StartCheckin,
                Proceed, PeekFails, PeekPasses, LocateFails, LocatePasses, LookupFails,
                LookupPasses, InsertFails, InsertCheckin, Reload, MarkAttended, RedeemNothing,
                RedeemToken, BurnToken, MintToken, ExpireToken
  <2>2. Stranded' \subseteq Stranded
    BY <1>3, OnlyFailuresStrand
  <2> QED BY <1>1, <2>1, <2>2, Larger
<1> QED BY <1>2, <1>3

\* However requests overlap, no more attendees are left half checked in than requests
\* have died (checkins.py 364-393).
THEOREM StrandedAreFew == Spec => []StrandedByFailures
<1>1. ASSUME Init PROVE StrandedByFailures
  <2>1. Stranded = {} /\ failures = 0
    BY <1>1 DEF Init, InitDoor, Stranded, CheckedIn
  <2> QED BY <2>1, FS_EmptySet DEF StrandedByFailures
<1> QED BY <1>1, StrandedStep, KnowledgeAlways, PTL DEF Spec

-----------------------------------------------------------------------------
(* How many share a single-use token *)

\* The workers that have let somebody in on t and have not come to its burning; and,
\* when t is burned, those that may still let somebody in on it.
Admitting(t) == {w \in Workers : job[w].token = t /\ pc[w] \in Inside}
MayAdmit(t) ==
    {w \in Workers :
        /\ job[w].token = t
        /\ \/ pc[w] \in {"locate", "lookup", "insert"}
           \/ pc[w] = "peek" /\ SnapshotReads /\ view[w].usedBy = NoUser}

\* Until t is burned each attendee that it let in has a worker that is about to burn it,
\* or one that died; from then on only those that had passed the peek, or read for it,
\* let anybody in.
Sharing(t) ==
    IF used[t] = NoUser
    THEN Cardinality(AdmittedOn(t)) <= Cardinality(Admitting(t)) + failures
    ELSE Cardinality(AdmittedOn(t)) + Cardinality(MayAdmit(t)) <= Cardinality(Workers) + failures

\* The sets that are counted are finite.
LEMMA SharersAreFinite ==
    ASSUME NEW t
    PROVE  /\ IsFiniteSet(AdmittedOn(t)) /\ Cardinality(AdmittedOn(t)) \in Nat
           /\ IsFiniteSet(Admitting(t)) /\ Cardinality(Admitting(t)) \in Nat
           /\ IsFiniteSet(MayAdmit(t)) /\ Cardinality(MayAdmit(t)) \in Nat
           /\ Cardinality(Workers) \in Nat
<1>1. AdmittedOn(t) \subseteq Users /\ Admitting(t) \subseteq Workers /\ MayAdmit(t) \subseteq Workers
  BY DEF AdmittedOn, Admitting, MayAdmit
<1> QED BY <1>1, DoorAssumption, FS_Subset, FS_CardinalityType

\* An INSERT lets one attendee in, on the token of its request (checkins.py 338-363).
LEMMA InsertAdmitsOne ==
    ASSUME Typed, NEW w \in Workers, InsertCheckin(w), NEW t \in Tokens
    PROVE  /\ job[w].token = t => Cardinality(AdmittedOn(t)') <= Cardinality(AdmittedOn(t)) + 1
           /\ job[w].token # t => AdmittedOn(t)' = AdmittedOn(t)
<1>1. /\ checkins' = [checkins EXCEPT ![job[w].user] = job[w].token]
      /\ checkins[job[w].user] = Absent /\ Absent # t
  BY DoorAssumption DEF InsertCheckin, CheckedIn, Absent
<1>2. job[w].token # t => AdmittedOn(t)' = AdmittedOn(t)
  BY <1>1 DEF AdmittedOn, Typed, TypeOK
<1>3. AdmittedOn(t)' \subseteq AdmittedOn(t) \cup {job[w].user}
  BY <1>1 DEF AdmittedOn, Typed, TypeOK
<1>4. /\ IsFiniteSet(AdmittedOn(t) \cup {job[w].user})
      /\ Cardinality(AdmittedOn(t) \cup {job[w].user}) <= Cardinality(AdmittedOn(t)) + 1
  <2>1. IsFiniteSet(AdmittedOn(t)) /\ Cardinality(AdmittedOn(t)) \in Nat
    BY SharersAreFinite
  <2>2. PICK u : u = job[w].user
    OBVIOUS
  <2>3. /\ IsFiniteSet(AdmittedOn(t) \cup {u})
        /\ Cardinality(AdmittedOn(t) \cup {u}) =
              IF u \in AdmittedOn(t) THEN Cardinality(AdmittedOn(t))
              ELSE Cardinality(AdmittedOn(t)) + 1
    BY <2>1, FS_AddElement
  <2> QED BY <2>1, <2>2, <2>3
<1>5. Cardinality(AdmittedOn(t)') <= Cardinality(AdmittedOn(t) \cup {job[w].user})
  BY <1>3, <1>4, FS_Subset
<1>6. /\ Cardinality(AdmittedOn(t)') \in Nat /\ Cardinality(AdmittedOn(t)) \in Nat
      /\ Cardinality(AdmittedOn(t) \cup {job[w].user}) \in Nat
  <2>1. IsFiniteSet(AdmittedOn(t)')
    BY <1>3, <1>4, FS_Subset
  <2> QED BY <1>4, <2>1, SharersAreFinite, FS_CardinalityType
<1> QED BY <1>2, <1>4, <1>5, <1>6

\* Nobody is let in by any other step.
LEMMA OnlyInsertAdmits ==
    ASSUME [Next]_vars, NEW t
    PROVE  (\E w \in Workers : InsertCheckin(w)) \/ AdmittedOn(t)' = AdmittedOn(t)
<1>1. (\E w \in Workers : InsertCheckin(w)) \/ checkins' = checkins
  BY DEF Next, vars, Arrive, TurnAway, RefuseInactive, RefuseMethod, Refuse, StartCheckin, tables,
         Proceed, PeekFails, PeekPasses, LocateFails, LocatePasses, LookupFails, LookupPasses,
         InsertFails, Reload, MarkAttended, RedeemNothing, RedeemToken, BurnToken, Fail,
         MintToken, ExpireToken
<1> QED BY <1>1 DEF AdmittedOn

\* Before t is burned: an INSERT adds an attendee and the worker that will burn it, and
\* only a worker that dies leaves without burning it.
LEMMA SharingUnburned ==
    ASSUME Knowledge, Typed', [Next]_vars, NEW t \in SingleUse, used'[t] = NoUser, Sharing(t)
    PROVE  Cardinality(AdmittedOn(t)') <= Cardinality(Admitting(t)') + failures'
<1>1. /\ Typed /\ \A w \in Workers : Admitted(w) /\ Viewed(w) /\ Genuine(w)
      /\ t \in Tokens /\ NoToken # t
  BY DoorAssumption DEF Knowledge
<1>2. used[t] = NoUser
  BY <1>1, TablesGrow
<1>3. /\ Cardinality(AdmittedOn(t)) <= Cardinality(Admitting(t)) + failures
      /\ Cardinality(AdmittedOn(t)) \in Nat /\ Cardinality(Admitting(t)) \in Nat
      /\ IsFiniteSet(Admitting(t)) /\ failures \in Nat
  BY <1>1, <1>2, SharersAreFinite DEF Sharing, Typed, TypeOK
<1>4. Admitting(t)' \subseteq Workers /\ IsFiniteSet(Admitting(t)')
      /\ Cardinality(Admitting(t)') \in Nat /\ Cardinality(AdmittedOn(t)') \in Nat
  BY DoorAssumption, FS_Subset, FS_CardinalityType DEF Admitting, AdmittedOn
<1>5. ASSUME NEW w \in Workers, InsertCheckin(w)
      PROVE  Cardinality(AdmittedOn(t)') <= Cardinality(Admitting(t)') + failures'
  <2>1. \A v \in Workers \ {w} : pc'[v] = pc[v] /\ job'[v] = job[v]
    BY <1>1, <1>5, OthersWait DEF Proceed
  <2>2. failures' = failures /\ w \notin Admitting(t) /\ job'[w] = job[w] /\ pc'[w] = "reload"
    BY <1>1, <1>5 DEF InsertCheckin, Goto, Admitting, Inside, Typed, TypeOK
  <2>3. Admitting(t) \subseteq Admitting(t)'
    BY <2>1, <2>2 DEF Admitting
  <2>4. CASE job[w].token = t
    <3>1. w \in Admitting(t)'
      BY <2>2, <2>4 DEF Admitting, Inside
    <3>2. Cardinality(Admitting(t)) + 1 <= Cardinality(Admitting(t)')
      BY <1>4, <2>2, <2>3, <3>1, Larger
    <3>3. Cardinality(AdmittedOn(t)') <= Cardinality(AdmittedOn(t)) + 1
      BY <1>1, <1>5, <2>4, InsertAdmitsOne
    <3> QED BY <1>3, <1>4, <2>2, <3>2, <3>3
  <2>5. CASE job[w].token # t
    <3>1. AdmittedOn(t)' = AdmittedOn(t)
      BY <1>1, <1>5, <2>5, InsertAdmitsOne
    <3>2. Cardinality(Admitting(t)) <= Cardinality(Admitting(t)')
      BY <1>4, <2>3, Larger
    <3> QED BY <1>3, <1>4, <2>2, <3>1, <3>2
  <2> QED BY <2>4, <2>5
<1>6. ASSUME NEW w \in Workers, Fail(w)
      PROVE  Cardinality(AdmittedOn(t)') <= Cardinality(Admitting(t)') + failures'
  <2>1. \A v \in Workers \ {w} : pc'[v] = pc[v] /\ job'[v] = job[v]
    BY <1>1, <1>6, OthersWait
  <2>2. failures' = failures + 1 /\ AdmittedOn(t)' = AdmittedOn(t)
    BY <1>6 DEF Fail, tables, AdmittedOn
  <2>3. Admitting(t) \subseteq Admitting(t)' \cup {w}
    BY <2>1 DEF Admitting
  <2>4. /\ IsFiniteSet(Admitting(t)' \cup {w})
        /\ Cardinality(Admitting(t)' \cup {w}) <= Cardinality(Admitting(t)') + 1
        /\ Cardinality(Admitting(t)' \cup {w}) \in Nat
    <3>1. PICK S : S = Admitting(t)'
      OBVIOUS
    <3>2. /\ IsFiniteSet(S \cup {w})
          /\ Cardinality(S \cup {w}) = IF w \in S THEN Cardinality(S) ELSE Cardinality(S) + 1
      BY <1>4, <3>1, FS_AddElement
    <3> QED BY <1>4, <3>1, <3>2
  <2>5. Cardinality(Admitting(t)) <= Cardinality(Admitting(t)' \cup {w})
    BY <2>3, <2>4, FS_Subset
  <2> QED BY <1>3, <1>4, <2>2, <2>4, <2>5
<1>7. ASSUME ~ \E w \in Workers : InsertCheckin(w) \/ Fail(w)
      PROVE  Cardinality(AdmittedOn(t)') <= Cardinality(Admitting(t)') + failures'
  <2>1. AdmittedOn(t)' = AdmittedOn(t)
    BY <1>7, OnlyInsertAdmits
  <2>2. failures' = failures
    BY <1>7 DEF Next, vars, Arrive, TurnAway, RefuseInactive, RefuseMethod, Refuse, StartCheckin,
                Proceed, PeekFails, PeekPasses, LocateFails, LocatePasses, LookupFails,
                LookupPasses, InsertFails, Reload, MarkAttended, RedeemNothing, RedeemToken,
                BurnToken, MintToken, ExpireToken
  <2>3. ASSUME NEW w \in Admitting(t)
        PROVE  w \in Admitting(t)'
    <3>1. w \in Workers /\ job[w].token = t /\ pc[w] \in Inside
      BY DEF Admitting
    <3>2. ASSUME NEW v \in Workers, v # w, Arrive(v) \/ Proceed(v)
          PROVE  w \in Admitting(t)'
      BY <1>1, <3>1, <3>2, OthersWait DEF Admitting
    <3>3. ~ Arrive(w)
      BY <3>1 DEF Arrive, TurnAway, RefuseInactive, RefuseMethod, Refuse, StartCheckin, Inside, Idle
    <3>4. CASE Reload(w) \/ MarkAttended(w) \/ RedeemToken(w)
      BY <1>1, <3>1, <3>4
      DEF Reload, AfterReload, MarkAttended, RedeemToken, Goto, Admitting, Inside, Typed, TypeOK
    <3>5. ASSUME RedeemNothing(w) \/ BurnToken(w)
          PROVE  FALSE
      <4>1. CASE RedeemNothing(w)
        BY <1>1, <1>2, <3>1, <4>1 DEF RedeemNothing, NothingToBurn, Read, Now, Viewed
      <4>2. CASE BurnToken(w)
        <5>1. job[w].user \in Users /\ used'[t] = job[w].user
          BY <1>1, <3>1, <4>2 DEF BurnToken, Idle, Typed, TypeOK, JobsHaveUsers
        <5> QED BY <5>1, DoorAssumption
      <4> QED BY <3>5, <4>1, <4>2
    <3>6. CASE UNCHANGED <<pc, job>>
      BY <3>1, <3>6 DEF Admitting
    <3>7. Proceed(w) => Reload(w) \/ MarkAttended(w) \/ RedeemToken(w) \/ RedeemNothing(w)
                          \/ BurnToken(w)
      BY <3>1 DEF Proceed, PeekFails, PeekPasses, LocateFails, LocatePasses, LookupFails,
                  LookupPasses, InsertCheckin, InsertFails, Inside
    <3> QED BY <1>7, <3>2, <3>3, <3>4, <3>5, <3>6, <3>7 DEF Next, vars, MintToken, ExpireToken
  <2>4. Cardinality(Admitting(t)) <= Cardinality(Admitting(t)')
    BY <1>4, <2>3, Larger
  <2> QED BY <1>3, <1>4, <2>1, <2>2, <2>4
<1> QED BY <1>5, <1>6, <1>7

\* The step that burns t: the workers that may still let somebody in on it are not among
\* those that had let somebody in.
LEMMA SharingBurn ==
    ASSUME Knowledge, Typed', [Next]_vars, NEW t \in SingleUse,
           used[t] = NoUser, used'[t] # NoUser, Sharing(t)
    PROVE  Sharing(t)'
<1>1. Typed /\ t \in Tokens /\ \A w \in Workers : Admitted(w) /\ Viewed(w) /\ Genuine(w)
  BY DoorAssumption DEF Knowledge
<1>2. PICK w \in Workers : BurnToken(w)
  BY DEF Next, vars, Arrive, TurnAway, RefuseInactive, RefuseMethod, Refuse, StartCheckin, tables,
         Proceed, PeekFails, PeekPasses, LocateFails, LocatePasses, LookupFails, LookupPasses,
         InsertCheckin, InsertFails, Reload, MarkAttended, RedeemNothing, RedeemToken, Fail,
         MintToken, ExpireToken
<1>3. AdmittedOn(t)' = AdmittedOn(t) /\ failures' = failures
  BY <1>2 DEF BurnToken, AdmittedOn
<1>4. \A v \in Workers \ {w} : pc'[v] = pc[v] /\ job'[v] = job[v]
  BY <1>1, <1>2, OthersWait DEF Proceed
<1>5. pc'[w] = Idle
  BY <1>1, <1>2 DEF BurnToken, Finish, Typed, TypeOK
<1>6. Admitting(t) \subseteq Workers /\ MayAdmit(t)' \subseteq Workers \ Admitting(t)
  BY <1>4, <1>5 DEF Admitting, MayAdmit, Inside, Idle
<1>7. /\ IsFiniteSet(MayAdmit(t)') /\ Cardinality(MayAdmit(t)') \in Nat
      /\ Cardinality(MayAdmit(t)') + Cardinality(Admitting(t)) <= Cardinality(Workers)
  <2>1. PICK S : S = MayAdmit(t)'
    OBVIOUS
  <2>2. S \subseteq Workers \ Admitting(t) /\ IsFiniteSet(Workers \ Admitting(t))
    BY <1>6, <2>1, DoorAssumption, FS_Subset
  <2>3. Cardinality(Workers \ Admitting(t)) = Cardinality(Workers) - Cardinality(Admitting(t))
    <3>1. Workers \cap Admitting(t) = Admitting(t)
      BY <1>6
    <3> QED BY <3>1, DoorAssumption, FS_Difference
  <2>4. /\ IsFiniteSet(S) /\ Cardinality(S) \in Nat
        /\ Cardinality(S) <= Cardinality(Workers \ Admitting(t))
    BY <2>2, FS_Subset, FS_CardinalityType
  <2> QED BY <2>1, <2>3, <2>4, SharersAreFinite
<1>8. Cardinality(AdmittedOn(t)) <= Cardinality(Admitting(t)) + failures
  BY DEF Sharing
<1>9. /\ Cardinality(AdmittedOn(t)) \in Nat /\ Cardinality(Admitting(t)) \in Nat
      /\ Cardinality(Workers) \in Nat /\ failures \in Nat
  BY <1>1, SharersAreFinite, FailuresAreCounted
<1> QED BY <1>3, <1>7, <1>8, <1>9 DEF Sharing

\* After t is burned: whoever starts reads that it is, so that only those that are past
\* the peek already, or read before, let somebody in (qr_token_service.py 216-253).
LEMMA SharingBurned ==
    ASSUME Knowledge, Typed', [Next]_vars, NEW t \in SingleUse, used[t] # NoUser, Sharing(t)
    PROVE  Sharing(t)'
<1>1. /\ Typed /\ \A w \in Workers : Admitted(w) /\ Viewed(w) /\ Genuine(w)
      /\ t \in Tokens /\ NoToken # t
  BY DoorAssumption DEF Knowledge
<1>2. used'[t] # NoUser
  BY <1>1, TablesGrow
<1>3. /\ Cardinality(AdmittedOn(t)) + Cardinality(MayAdmit(t)) <= Cardinality(Workers) + failures
      /\ Cardinality(AdmittedOn(t)) \in Nat /\ Cardinality(MayAdmit(t)) \in Nat
      /\ IsFiniteSet(MayAdmit(t)) /\ Cardinality(Workers) \in Nat /\ failures \in Nat
  BY <1>1, SharersAreFinite DEF Sharing, Typed, TypeOK
<1>4. failures' \in Nat /\ failures' >= failures
  <2>1. failures' = failures \/ failures' = failures + 1
    BY DEF Next, vars, Arrive, TurnAway, RefuseInactive, RefuseMethod, Refuse, StartCheckin,
           Proceed, PeekFails, PeekPasses, LocateFails, LocatePasses, LookupFails, LookupPasses,
           InsertCheckin, InsertFails, Reload, MarkAttended, RedeemNothing, RedeemToken,
           BurnToken, Fail, MintToken, ExpireToken
  <2> QED BY <1>3, <2>1
<1>5. Cardinality(AdmittedOn(t)') \in Nat
  BY DoorAssumption, FS_Subset, FS_CardinalityType DEF AdmittedOn
<1>6. MayAdmit(t)' \subseteq MayAdmit(t)
  <2>1. ASSUME NEW w \in Workers, Arrive(w) \/ Proceed(w) \/ Fail(w), w \in MayAdmit(t)'
        PROVE  w \in MayAdmit(t)
    <3>1. ASSUME NEW code, Finish(w, code)
          PROVE  FALSE
      BY <1>1, <2>1, <3>1 DEF Finish, MayAdmit, Idle, Typed, TypeOK
    <3>2. ASSUME NEW u \in Users, NEW tok \in minted \cup {NoToken}, NEW m \in DeclaredMethods,
                 StartCheckin(w, u, tok, m)
          PROVE  FALSE
      BY <1>1, <2>1, <3>2 DEF StartCheckin, Goto, AfterQr, OpenView, Now, MayAdmit, Typed, TypeOK
    <3>3. CASE PeekPasses(w)
      <4>1. job[w].token = t /\ Read(w).usedBy = NoUser
        BY <2>1, <3>3 DEF PeekPasses, TokenGood, MayAdmit
      <4>2. SnapshotReads /\ view[w].usedBy = NoUser
        <5>1. ~ SnapshotReads => Read(w).usedBy = used[t]
          BY <1>1, <4>1 DEF Read, Now, Viewed
        <5>2. SnapshotReads => Read(w) = view[w]
          BY <1>1, <3>3 DEF PeekPasses, Read, Viewed, Before, Closed
        <5> QED BY <4>1, <5>1, <5>2
      <4> QED BY <3>3, <4>1, <4>2 DEF PeekPasses, MayAdmit
    <3>4. CASE LocatePasses(w) \/ LookupPasses(w)
      BY <2>1, <3>4 DEF LocatePasses, LookupPasses, MayAdmit
    <3>5. ASSUME InsertCheckin(w) \/ Reload(w) \/ MarkAttended(w) \/ RedeemToken(w)
          PROVE  FALSE
      BY <1>1, <2>1, <3>5
      DEF InsertCheckin, Reload, AfterReload, MarkAttended, RedeemToken, Goto, MayAdmit,
          Typed, TypeOK
    <3> QED BY <2>1, <3>1, <3>2, <3>3, <3>4, <3>5
            DEF Arrive, TurnAway, RefuseInactive, RefuseMethod, Refuse, Proceed, PeekFails,
                LocateFails, LookupFails, InsertFails, RedeemNothing, BurnToken, Fail
  <2>2. ASSUME NEW w \in Workers, Arrive(w) \/ Proceed(w) \/ Fail(w)
        PROVE  MayAdmit(t)' \subseteq MayAdmit(t)
    BY <1>1, <2>1, <2>2, OthersWait DEF MayAdmit
  <2> QED BY <2>2 DEF Next, vars, MintToken, ExpireToken, MayAdmit
<1>7. ASSUME NEW w \in Workers, InsertCheckin(w), job[w].token = t
      PROVE  Sharing(t)'
  <2>1. w \in MayAdmit(t) /\ w \notin MayAdmit(t)'
    BY <1>1, <1>7 DEF InsertCheckin, Goto, MayAdmit, Typed, TypeOK
  <2>2. Cardinality(MayAdmit(t)') + 1 <= Cardinality(MayAdmit(t)) /\ Cardinality(MayAdmit(t)') \in Nat
    BY <1>3, <1>6, <2>1, Larger
  <2>3. Cardinality(AdmittedOn(t)') <= Cardinality(AdmittedOn(t)) + 1
    BY <1>1, <1>7, InsertAdmitsOne
  <2> QED BY <1>2, <1>3, <1>4, <1>5, <2>2, <2>3 DEF Sharing
<1>8. ASSUME ~ \E w \in Workers : InsertCheckin(w) /\ job[w].token = t
      PROVE  Sharing(t)'
  <2>1. AdmittedOn(t)' = AdmittedOn(t)
    BY <1>1, <1>8, InsertAdmitsOne, OnlyInsertAdmits
  <2>2. Cardinality(MayAdmit(t)') <= Cardinality(MayAdmit(t)) /\ Cardinality(MayAdmit(t)') \in Nat
    BY <1>3, <1>6, Larger
  <2> QED BY <1>2, <1>3, <1>4, <2>1, <2>2 DEF Sharing
<1> QED BY <1>7, <1>8

\* However requests overlap and die, a single-use token lets in at most one attendee for
\* each worker thread, and one more for each request that died
\* (qr_token_service.py 283-304).
THEOREM SharingIsBounded == Spec => []SharingBounded
<1> DEFINE Shared == \A t \in SingleUse : Sharing(t)
<1>1. Init => Shared
  <2> SUFFICES ASSUME Init, NEW t \in SingleUse PROVE Sharing(t)
    OBVIOUS
  <2>1. AdmittedOn(t) = {} /\ used[t] = NoUser /\ failures = 0
    BY DoorAssumption DEF Init, InitDoor, AdmittedOn, Absent
  <2> QED BY <2>1, SharersAreFinite, FS_EmptySet DEF Sharing
<1>2. Knowledge /\ Knowledge' /\ Shared /\ [Next]_vars => Shared'
  <2> SUFFICES ASSUME Knowledge, Knowledge', Shared, [Next]_vars, NEW t \in SingleUse
               PROVE  Sharing(t)'
    OBVIOUS
  <2>1. Sharing(t) /\ Typed'
    BY DEF Knowledge
  <2>2. CASE used'[t] = NoUser
    BY <2>1, <2>2, SharingUnburned DEF Sharing
  <2>3. CASE used'[t] # NoUser
    BY <2>1, <2>3, SharingBurn, SharingBurned
  <2> QED BY <2>2, <2>3
<1>3. Knowledge /\ Shared => SharingBounded
  <2> SUFFICES ASSUME Knowledge, NEW t \in SingleUse, Sharing(t)
               PROVE  Cardinality(AdmittedOn(t)) <= Cardinality(Workers) + failures
    BY DEF SharingBounded
  <2>1. /\ Cardinality(AdmittedOn(t)) \in Nat /\ Cardinality(Admitting(t)) \in Nat
        /\ Cardinality(MayAdmit(t)) \in Nat /\ Cardinality(Workers) \in Nat /\ failures \in Nat
    BY SharersAreFinite, FailuresAreCounted DEF Knowledge
  <2>2. Cardinality(Admitting(t)) <= Cardinality(Workers)
    BY DoorAssumption, FS_Subset DEF Admitting
  <2> QED BY <2>1, <2>2 DEF Sharing
<1> HIDE DEF Shared
<1> QED BY <1>1, <1>2, <1>3, KnowledgeAlways, PTL DEF Spec

-----------------------------------------------------------------------------
(* The door implements the turnstile *)

\* Registrations are as they came to the door, or attended, which only those are that
\* were let in.
Unmarked ==
    \A u \in Users :
        /\ regs[u].status \in RsvpStatuses \cup {"attended"}
        /\ regs[u].status = "attended" => CheckedIn(u)

\* What a worker has read of its attendee's registration still holds, but for its being
\* marked; past the lookup there is one that is not cancelled, and past the mark it is
\* marked.
Standing(w) ==
    /\ pc[w] \in {"peek", "locate", "lookup"} /\ view[w].status # "closed" =>
          regs[job[w].user].status \in {view[w].status, "attended"}
    /\ pc[w] \in {"insert", "reload", "mark"} => ~ RefusesStatus(regs[job[w].user].status)
    /\ pc[w] \in {"redeem", "burn"} => regs[job[w].user].status = "attended"

Backed == Knowledge /\ Unmarked /\ \A w \in Workers : Standing(w)

\* The one step that writes a registration marks it (checkins.py 365-386).
LEMMA OnlyMarksWrite ==
    ASSUME Typed, [Next]_vars
    PROVE  \/ regs' = regs
           \/ \E w \in Workers :
                 /\ MarkAttended(w) /\ job[w].user \in Users
                 /\ regs' = [regs EXCEPT ![job[w].user].status = "attended"]
<1>1. ASSUME NEW w \in Workers, MarkAttended(w)
      PROVE  /\ job[w].user \in Users
             /\ regs' = [regs EXCEPT ![job[w].user].status = "attended"]
  BY <1>1 DEF MarkAttended, AttendedStatus, Idle, Typed, JobsHaveUsers
<1>2. regs' = regs \/ \E w \in Workers : MarkAttended(w)
  BY DEF Next, vars, Arrive, TurnAway, RefuseInactive, RefuseMethod, Refuse, StartCheckin, tables,
         Proceed, PeekFails, PeekPasses, LocateFails, LocatePasses, LookupFails, LookupPasses,
         InsertCheckin, InsertFails, Reload, RedeemNothing, RedeemToken, BurnToken, Fail,
         MintToken, ExpireToken
<1> QED BY <1>1, <1>2

\* What that does to each attendee's status.
LEMMA StatusesLast ==
    ASSUME Backed, [Next]_vars, NEW u \in Users
    PROVE  /\ regs'[u].status \in {regs[u].status, "attended"}
           /\ regs'[u].status = "attended" => CheckedIn(u)
<1>1. Typed /\ Unmarked /\ \A w \in Workers : Admitted(w)
  BY DEF Backed, Knowledge
<1>2. ASSUME NEW w \in Workers, MarkAttended(w), job[w].user \in Users,
             regs' = [regs EXCEPT ![job[w].user].status = "attended"]
      PROVE  /\ regs'[u].status \in {regs[u].status, "attended"}
             /\ regs'[u].status = "attended" => CheckedIn(u)
  <2>1. CheckedIn(job[w].user)
    BY <1>1, <1>2, DoorAssumption
    DEF MarkAttended, Admitted, Inside, CheckedIn, Absent, Typed, TypeOK
  <2> QED BY <1>1, <1>2, <2>1 DEF Unmarked, Typed, Registered
<1>3. regs' = regs /\ regs'[u].status = "attended" => CheckedIn(u)
  BY <1>1 DEF Unmarked
<1> QED BY <1>1, <1>2, <1>3, OnlyMarksWrite

\* What a worker has read stands, whatever others do.
LEMMA StandingLasts ==
    ASSUME Backed, [Next]_vars, NEW v \in Workers,
           pc'[v] = pc[v], job'[v] = job[v], view'[v] = view[v]
    PROVE  Standing(v)'
<1>1. Standing(v) /\ (pc[v] # Idle => job[v].user \in Users)
  BY DEF Backed, Knowledge, Typed, JobsHaveUsers
<1>2. CASE pc[v] = Idle
  BY <1>2 DEF Standing, Idle
<1>3. CASE job[v].user \in Users
  <2>1. regs'[job[v].user].status \in {regs[job[v].user].status, "attended"}
    BY <1>3, StatusesLast
  <2> QED BY <1>1, <2>1 DEF Standing, RefusesStatus
<1> QED BY <1>1, <1>2, <1>3

\* What a worker reads, it has read.
LEMMA StandingOwn ==
    ASSUME Backed, Typed', [Next]_vars, NEW w \in Workers, Arrive(w) \/ Proceed(w) \/ Fail(w)
    PROVE  Standing(w)'
<1>1. Typed /\ Standing(w) /\ Viewed(w) /\ Unmarked
  BY DEF Backed, Knowledge
<1>2. ASSUME NEW code, Finish(w, code)
      PROVE  Standing(w)'
  BY <1>1, <1>2 DEF Finish, Standing, Idle, Typed, TypeOK
<1>3. ASSUME NEW u \in Users, NEW t \in minted \cup {NoToken}, NEW m \in DeclaredMethods,
             StartCheckin(w, u, t, m)
      PROVE  Standing(w)'
  <2> DEFINE tok == IF NeedsQr(MethodOf(m)) THEN t ELSE NoToken
  <2>1. /\ job'[w].user = u /\ view'[w] = OpenView(u, tok) /\ regs' = regs
        /\ pc'[w] \in {"peek", "locate", "lookup"}
    BY <1>1, <1>3 DEF StartCheckin, Goto, AfterQr, tables, Typed, TypeOK
  <2> QED BY <2>1 DEF Standing, OpenView, Now, Closed
<1>4. CASE PeekPasses(w) \/ LocatePasses(w)
  BY <1>1, <1>4 DEF PeekPasses, LocatePasses, Goto, AfterQr, tables, Standing, Typed, TypeOK
<1>5. CASE LookupPasses(w)
  <2>1. /\ pc'[w] = "insert" /\ pc[w] = "lookup" /\ job' = job /\ regs' = regs
        /\ ~ RefusesStatus(Read(w).status)
    BY <1>1, <1>5 DEF LookupPasses, Goto, tables, Typed, TypeOK
  <2>2. ~ RefusesStatus(regs[job[w].user].status)
    BY <1>1, <2>1 DEF Standing, Read, Now, Closed, RefusesStatus, Viewed, Before
  <2> QED BY <2>1, <2>2 DEF Standing
<1>6. CASE InsertCheckin(w)
  BY <1>1, <1>6 DEF InsertCheckin, Goto, Standing, Typed, TypeOK
<1>7. CASE Reload(w)
  <2>1. pc'[w] = "mark" /\ job' = job /\ regs' = regs
    BY <1>1, <1>7
    DEF Reload, AfterReload, Goto, tables, Standing, RefusesStatus, Typed, TypeOK
  <2> QED BY <1>1, <1>7, <2>1 DEF Reload, Standing
<1>8. CASE MarkAttended(w)
  <2>1. pc'[w] = "redeem" /\ job' = job
    BY <1>1, <1>8 DEF MarkAttended, Goto, Typed, TypeOK
  <2>2. regs'[job[w].user].status = "attended"
    BY <1>1, <1>8 DEF MarkAttended, AttendedStatus, Idle, Typed, JobsHaveUsers, Registered
  <2> QED BY <2>1, <2>2 DEF Standing
<1>9. CASE RedeemToken(w)
  BY <1>1, <1>9 DEF RedeemToken, Goto, tables, Standing, Typed, TypeOK
<1> QED BY <1>2, <1>3, <1>4, <1>5, <1>6, <1>7, <1>8, <1>9
        DEF Arrive, TurnAway, RefuseInactive, RefuseMethod, Refuse, Proceed, PeekFails,
            LocateFails, LookupFails, InsertFails, RedeemNothing, BurnToken, Fail

\* The invariant of the refinement.
LEMMA BackedAlways == Spec => []Backed
<1>1. Init => Backed
  BY KnowledgeInit, DoorAssumption DEF Init, InitDoor, Backed, Unmarked, Standing, Idle
<1>2. Backed /\ [Next]_vars => Backed'
  <2> SUFFICES ASSUME Backed, [Next]_vars PROVE Backed'
    OBVIOUS
  <2>1. Knowledge' /\ Typed' /\ Typed
    BY KnowledgeStep DEF Backed, Knowledge
  <2>2. ASSUME NEW u \in Users
        PROVE  /\ regs'[u].status \in RsvpStatuses \cup {"attended"}
               /\ regs'[u].status = "attended" => CheckedIn(u)'
    BY <2>1, StatusesLast, TablesGrow DEF Backed, Unmarked, CheckedIn
  <2>3. ASSUME NEW v \in Workers
        PROVE  Standing(v)'
    <3>1. ASSUME NEW w \in Workers, Arrive(w) \/ Proceed(w) \/ Fail(w)
          PROVE  Standing(v)'
      BY <2>1, <3>1, OthersWait, StandingOwn, StandingLasts
    <3>2. CASE UNCHANGED <<pc, job, view>>
      BY <3>2, StandingLasts
    <3> QED BY <3>1, <3>2 DEF Next, vars, MintToken, ExpireToken
  <2> QED BY <2>1, <2>2, <2>3 DEF Backed, Unmarked
<1> QED BY <1>1, <1>2, PTL DEF Spec

\* Every step of the door lets one attendee in, marks one, burns one token, or is none
\* that the turnstile sees.
LEMMA DoorStepIsTurnstileStep == Backed /\ [Next]_vars => [Gate!Next]_(Gate!state)
<1> SUFFICES ASSUME Backed, [Next]_vars PROVE [Gate!Next]_(Gate!state)
  OBVIOUS
<1>1. Typed /\ \A w \in Workers : Standing(w) /\ Admitted(w) /\ Genuine(w)
  BY DEF Backed, Knowledge
<1>2. ASSUME NEW w \in Workers, InsertCheckin(w)
      PROVE  Gate!Next
  <2>1. PICK u \in Users : u = job[w].user
    BY <1>1, <1>2 DEF InsertCheckin, Idle, Typed, JobsHaveUsers
  <2>2. PICK t \in Tokens \cup {NoToken} : t = job[w].token
    BY <1>1 DEF Typed, TypeOK
  <2>3. regs[u].status \in {"registered", "waitlisted"}
    <3>1. ~ RefusesStatus(regs[u].status) /\ regs[u].status # "attended"
      BY <1>1, <1>2, <2>1 DEF InsertCheckin, Standing, Backed, Unmarked
    <3> QED BY <3>1, DoorAssumption DEF RefusesStatus, Backed, Unmarked
  <2>4. t # NoToken => Holder[t] \in {NoUser, u}
    BY <1>1, <1>2, <2>1, <2>2 DEF InsertCheckin, Genuine
  <2>5. Gate!LetIn(u, t)
    BY <1>2, <2>1, <2>2, <2>3, <2>4
    DEF InsertCheckin, CheckedIn, Absent, Gate!LetIn, Gate!IsInside
  <2> QED BY <2>5 DEF Gate!Next
<1>3. ASSUME NEW w \in Workers, MarkAttended(w), job[w].user \in Users,
             regs' = [regs EXCEPT ![job[w].user].status = "attended"]
      PROVE  Gate!Next
  <2>1. PICK u \in Users : u = job[w].user
    BY <1>3
  <2>2. CheckedIn(u)
    BY <1>1, <1>3, <2>1, DoorAssumption
    DEF MarkAttended, Admitted, Inside, CheckedIn, Absent, Typed, TypeOK
  <2>3. \A v \in Users :
           regs'[v].status = IF v = u THEN "attended" ELSE regs[v].status
    BY <1>1, <1>3, <2>1 DEF Typed, Registered
  <2>4. Gate!Mark(u)
    BY <1>3, <2>2, <2>3 DEF MarkAttended, CheckedIn, Absent, Gate!Mark, Gate!IsInside
  <2> QED BY <2>4 DEF Gate!Next
<1>4. ASSUME NEW w \in Workers, BurnToken(w)
      PROVE  Gate!Next
  <2>1. PICK u \in Users : u = job[w].user
    BY <1>1, <1>4 DEF BurnToken, Idle, Typed, JobsHaveUsers
  <2>2. PICK t \in Tokens : t = job[w].token /\ t \in SingleUse
    BY <1>1, <1>4, DoorAssumption DEF BurnToken, Genuine
  <2>3. checkins[u] = t /\ regs[u].status = "attended"
    BY <1>1, <1>4, <2>1, <2>2 DEF BurnToken, Admitted, Standing, Inside
  <2>4. Gate!Burn(u, t)
    BY <1>4, <2>1, <2>2, <2>3 DEF BurnToken, Gate!Burn
  <2> QED BY <2>4 DEF Gate!Next
<1>5. CASE UNCHANGED <<checkins, regs, used>>
  BY <1>5 DEF Gate!state
<1>6. \/ UNCHANGED <<checkins, regs, used>>
      \/ \E w \in Workers : InsertCheckin(w) \/ MarkAttended(w) \/ BurnToken(w)
  BY DEF Next, vars, Arrive, TurnAway, RefuseInactive, RefuseMethod, Refuse, StartCheckin, tables,
         Proceed, PeekFails, PeekPasses, LocateFails, LocatePasses, LookupFails, LookupPasses,
         InsertFails, Reload, RedeemNothing, RedeemToken, Fail, MintToken, ExpireToken
<1>7. ASSUME NEW w \in Workers, MarkAttended(w)
      PROVE  Gate!Next
  BY <1>1, <1>3, <1>7 DEF MarkAttended, AttendedStatus, Idle, Typed, JobsHaveUsers
<1> QED BY <1>2, <1>4, <1>5, <1>6, <1>7

\* The door implements the turnstile: with its threads, stale reads and dying requests
\* left out, attendees are let in once and on their own registration and token, marked,
\* and their token burned, in this order (checkins.py 246-393).
THEOREM DoorImplementsTurnstile == Spec => ImplementsTurnstile
<1>1. Init => Gate!Init
  BY DoorAssumption DEF Init, InitDoor, Absent, Gate!Init
<1> QED BY <1>1, DoorStepIsTurnstileStep, BackedAlways, PTL DEF Spec, ImplementsTurnstile, Gate!Spec
=============================================================================
