-------------------------- MODULE OrganizersProofs ---------------------------
(***************************************************************************)
(* What organizers may rely on, whatever the lists, the patches, the      *)
(* venues and the number of workers.  First the invitations (Inserted      *)
(* rows, the counts of an answer, the refinement of GuestList); then the   *)
(* events: the table only grows, a row is never more than a request in     *)
(* progress explains (BoardInv), a creator has room for what it inserts    *)
(* (RoomLeft) and each target is a row (Addressed); then the geofence,     *)
(* whose arithmetic is done once (NearIsWithin); last the three together.  *)
(***************************************************************************)
EXTENDS Organizers, FiniteSetTheorems, TLAPS

-----------------------------------------------------------------------------
(* Lists. *)

\* A list that is not empty is its head and its tail.
LEMMA HeadAndTail ==
    ASSUME NEW S, NEW s \in Seq(S), s # <<>>
    PROVE  /\ Head(s) \in S /\ Tail(s) \in Seq(S)
           /\ Len(s) \in Nat /\ Len(Tail(s)) \in Nat /\ Len(Tail(s)) = Len(s) - 1
           /\ Len(s) = 1 <=> Tail(s) = <<>>
           /\ ToSet(s) = {Head(s)} \cup ToSet(Tail(s))
<1>1. /\ Len(s) \in Nat /\ Len(s) >= 1 /\ Head(s) = s[1] /\ s[1] \in S
      /\ Tail(s) \in Seq(S) /\ Len(Tail(s)) = Len(s) - 1
      /\ \A j \in 1 .. Len(s) - 1 : Tail(s)[j] = s[j + 1]
  OBVIOUS
<1>2. Len(s) = 1 <=> Tail(s) = <<>>
  BY <1>1
<1>3. DOMAIN s = 1 .. Len(s) /\ DOMAIN Tail(s) = 1 .. Len(s) - 1
  BY <1>1
<1>4. ToSet(s) \subseteq {Head(s)} \cup ToSet(Tail(s))
  <2> SUFFICES ASSUME NEW j \in 1 .. Len(s)
               PROVE  s[j] \in {Head(s)} \cup ToSet(Tail(s))
    BY <1>3 DEF ToSet
  <2>1. CASE j = 1
    BY <2>1, <1>1
  <2>2. CASE j # 1
    <3>1. j - 1 \in 1 .. Len(s) - 1 /\ Tail(s)[j - 1] = s[j]
      BY <1>1, <2>2
    <3> QED BY <3>1, <1>3 DEF ToSet
  <2> QED BY <2>1, <2>2
<1>5. {Head(s)} \cup ToSet(Tail(s)) \subseteq ToSet(s)
  <2>1. \A j \in 1 .. Len(s) - 1 : j + 1 \in 1 .. Len(s) /\ Tail(s)[j] = s[j + 1]
    BY <1>1
  <2>2. 1 \in 1 .. Len(s)
    BY <1>1
  <2> QED BY <1>1, <1>3, <2>1, <2>2 DEF ToSet
<1> QED BY <1>1, <1>2, <1>4, <1>5

-----------------------------------------------------------------------------
(* Types. *)

Looping == {"lookup", "insert", "reselect"}

\* Types, and that a loop that has not ended has an invitee to go on with.
Typed == TypeOK /\ \A w \in Workers : pc[w] \in Looping => todo[w] # <<>>

\* What Advance does to the types.
LEMMA AdvanceTypes ==
    ASSUME Typed, NEW w \in Workers, pc[w] \in Looping, Advance(w)
    PROVE  /\ todo' \in [Workers -> Seq(Invitees)]
           /\ pc' \in [Workers -> Labels]
           /\ reply' = NoReply
           /\ \A v \in Workers : pc'[v] \in Looping => todo'[v] # <<>>
<1>1. todo[w] \in Seq(Invitees) /\ todo[w] # <<>>
  BY DEF Typed, TypeOK
<1>2. /\ Tail(todo[w]) \in Seq(Invitees)
      /\ Len(todo[w]) = 1 <=> Tail(todo[w]) = <<>>
  BY <1>1, HeadAndTail
<1>3. /\ todo \in [Workers -> Seq(Invitees)] /\ pc \in [Workers -> Labels]
      /\ todo' = [todo EXCEPT ![w] = Tail(todo[w])]
      /\ pc' = [pc EXCEPT ![w] = IF Len(todo[w]) = 1 THEN "commit" ELSE "lookup"]
      /\ reply' = NoReply
  BY DEF Advance, Goto, Typed, TypeOK
<1>4. pc'[w] \in Looping => todo'[w] # <<>>
  BY <1>2, <1>3 DEF Looping
<1>5. ASSUME NEW v \in Workers, v # w PROVE pc'[v] \in Looping => todo'[v] # <<>>
  BY <1>3, <1>5 DEF Typed
<1> QED BY <1>2, <1>3, <1>4, <1>5 DEF Labels

\* What Finish does to the types.
LEMMA FinishTypes ==
    ASSUME Typed, NEW w \in Workers, NEW c \in Codes, Finish(w, c)
    PROVE  /\ pc'      \in [Workers -> Labels]
           /\ batch'   \in [Workers -> Batches \cup {<<>>}]
           /\ todo'    \in [Workers -> Seq(Invitees)]
           /\ sent'    \in [Workers -> Nat]
           /\ already' \in [Workers -> Nat]
           /\ view'    \in [Workers -> SUBSET Invitees]
           /\ level'   \in [Workers -> Isolations \cup {"none"}]
           /\ reply'   \in [to : Workers \cup {NoWorker}, code : Codes]
           /\ \A v \in Workers : pc'[v] \in Looping => todo'[v] # <<>>
<1>1. <<>> \in Seq(Invitees)
  OBVIOUS
<1> QED BY <1>1 DEF Finish, Typed, TypeOK, Labels, Idle, Looping

\* What Rollback does to the types.
LEMMA RollbackTypes ==
    ASSUME Typed, NEW w \in Workers, Rollback(w)
    PROVE  rows' \in [Invitees -> [status : {"absent", "sent"} \cup Answers,
                                   held   : Workers \cup {NoWorker}]]
<1>1. \A i \in Invitees : rows[i] \in [status : {"absent", "sent"} \cup Answers,
                                       held   : Workers \cup {NoWorker}]
  BY DEF Typed, TypeOK
<1>2. NoRow \in [status : {"absent", "sent"} \cup Answers, held : Workers \cup {NoWorker}]
  BY DEF NoRow
<1> QED BY <1>1, <1>2 DEF Rollback

\* What a commit does to the types.
LEMMA ReleaseTypes ==
    ASSUME Typed, NEW w \in Workers, Release(w)
    PROVE  rows' \in [Invitees -> [status : {"absent", "sent"} \cup Answers,
                                   held   : Workers \cup {NoWorker}]]
<1>1. ASSUME NEW i \in Invitees
      PROVE  /\ rows[i] \in [status : {"absent", "sent"} \cup Answers,
                             held   : Workers \cup {NoWorker}]
             /\ [rows[i] EXCEPT !.held = NoWorker] \in
                    [status : {"absent", "sent"} \cup Answers, held : Workers \cup {NoWorker}]
  <2>1. rows[i] \in [status : {"absent", "sent"} \cup Answers,
                     held   : Workers \cup {NoWorker}]
    BY DEF Typed, TypeOK
  <2>2. [rows[i] EXCEPT !.held = NoWorker] \in
            [status : {"absent", "sent"} \cup Answers, held : Workers \cup {NoWorker}]
    BY <2>1
  <2> QED BY <2>1, <2>2
<1> QED BY <1>1 DEF Release

\* What an answer does to them.
LEMMA AnswerTypes ==
    ASSUME Typed, NEW i \in Invitees, NEW d \in Answers, Answer(i, d)
    PROVE  rows' \in [Invitees -> [status : {"absent", "sent"} \cup Answers,
                                   held   : Workers \cup {NoWorker}]]
<1>1. rows \in [Invitees -> [status : {"absent", "sent"} \cup Answers,
                             held   : Workers \cup {NoWorker}]]
  BY DEF Typed, TypeOK
<1>2. [rows[i] EXCEPT !.status = d] \in [status : {"absent", "sent"} \cup Answers,
                                         held   : Workers \cup {NoWorker}]
  BY <1>1
<1>3. rows' = [rows EXCEPT ![i] = [rows[i] EXCEPT !.status = d]]
  BY DEF Answer
<1> QED BY <1>1, <1>2, <1>3

\* A step of the handlers keeps the types.
LEMMA TypedStep == Typed /\ [Next]_vars => Typed'
<1> SUFFICES ASSUME Typed, [Next]_vars PROVE Typed'
  OBVIOUS
<1>1. ASSUME NEW w \in Workers, TurnAway(w) PROVE Typed'
  BY <1>1, FinishTypes DEF TurnAway, Typed, TypeOK, Codes
<1>2. ASSUME NEW w \in Workers, NEW b \in Batches, NEW l \in Isolations, StartBatch(w, b, l)
      PROVE  Typed'
  BY <1>2, InvitationsAssumption
  DEF StartBatch, Goto, Committed, Typed, TypeOK, Labels, Codes, Looping, NoReply
<1>3. ASSUME NEW w \in Workers, LookupFinds(w) \/ ReselectFinds(w)
      PROVE  Typed'
  BY <1>3, AdvanceTypes
  DEF LookupFinds, ReselectFinds, CountAsFound, Typed, TypeOK, Looping, NoReply, Codes
<1>4. ASSUME NEW w \in Workers, LookupMisses(w) \/ InsertFails(w) PROVE Typed'
  <2>1. /\ pc[w] \in Looping /\ reply' = NoReply
        /\ pc' = [pc EXCEPT ![w] = "insert"] \/ pc' = [pc EXCEPT ![w] = "reselect"]
        /\ UNCHANGED <<rows, batch, todo, sent, already, view, level>>
    BY <1>4 DEF LookupMisses, InsertFails, UndoInsert, AfterCollision, Goto, Looping
  <2>2. pc' \in [Workers -> Labels] /\ \A v \in Workers : pc'[v] \in Looping => pc[v] \in Looping
    BY <2>1 DEF Typed, TypeOK, Labels, Looping
  <2> QED BY <2>1, <2>2 DEF Typed, TypeOK, NoReply, Codes
<1>5. ASSUME NEW w \in Workers, InsertRow(w) PROVE Typed'
  <2>1. Item(w) \in Invitees
    BY <1>5, HeadAndTail DEF InsertRow, Item, Typed, TypeOK, Looping
  <2>2. pc[w] \in Looping /\ Advance(w)
    BY <1>5 DEF InsertRow, Looping
  <2>3. /\ rows' \in [Invitees -> [status : {"absent", "sent"} \cup Answers,
                                   held   : Workers \cup {NoWorker}]]
        /\ sent' \in [Workers -> Nat]
    BY <1>5, <2>1 DEF InsertRow, NewStatus, Typed, TypeOK
  <2> QED BY <1>5, <2>2, <2>3, AdvanceTypes, SMTT(40)
          DEF InsertRow, Typed, TypeOK, NoReply, Codes
<1>6. ASSUME NEW w \in Workers, GiveUp(w) \/ ReselectMisses(w) \/ Fail(w) PROVE Typed'
  BY <1>6, FinishTypes, RollbackTypes DEF GiveUp, ReselectMisses, Fail, Typed, TypeOK, Codes
<1>7. ASSUME NEW w \in Workers, Commit(w) PROVE Typed'
  <2>1. rows' \in [Invitees -> [status : {"absent", "sent"} \cup Answers,
                                held   : Workers \cup {NoWorker}]]
    BY <1>7, ReleaseTypes DEF Commit
  <2> QED BY <1>7, <2>1, SMTT(40)
          DEF Commit, Goto, Typed, TypeOK, Labels, Looping, NoReply, Codes
<1>8. ASSUME NEW w \in Workers, Respond201(w) PROVE Typed'
  BY <1>8, FinishTypes DEF Respond201, Typed, TypeOK, Codes
<1>9. ASSUME NEW i \in Invitees, NEW d \in Answers, Answer(i, d) PROVE Typed'
  <2>1. rows' \in [Invitees -> [status : {"absent", "sent"} \cup Answers,
                                held   : Workers \cup {NoWorker}]]
    BY <1>9, AnswerTypes
  <2> QED BY <1>9, <2>1 DEF Answer, session, Typed, TypeOK, NoReply, Codes
<1>10. CASE UNCHANGED vars
  BY <1>10 DEF vars, session, Typed, TypeOK
<1> QED
  BY <1>1, <1>2, <1>3, <1>4, <1>5, <1>6, <1>7, <1>8, <1>9, <1>10 DEF Next, Arrive, Proceed

\* Types hold always.
LEMMA TypedAlways == Spec => []Typed
<1>1. Init => Typed
  <2>1. <<>> \in Seq(Invitees)
    OBVIOUS
  <2> QED BY <2>1 DEF Init, Typed, TypeOK, NoRow, Idle, NoReply, Labels, Codes, Answers, Looping
<1> QED BY <1>1, TypedStep, PTL DEF Spec

\* Every variable of the guest list keeps its type, whatever the batches.
THEOREM ListTypeCorrect == Spec => []TypeOK
BY TypedAlways, PTL DEF Typed

-----------------------------------------------------------------------------
(* Whose the rows are. *)

\* A row that some transaction holds is as it was inserted.
Kept == \A i \in Invitees :
    /\ rows[i].status = "absent" => rows[i].held = NoWorker
    /\ rows[i].held # NoWorker => rows[i].status = "sent"

\* An INSERT adds one row to those of its transaction.
LEMMA InsertAdds ==
    ASSUME Typed, Kept, NEW w \in Workers, InsertRow(w)
    PROVE  /\ Item(w) \in Invitees /\ Item(w) \notin Inserted(w)
           /\ Inserted(w)' = Inserted(w) \cup {Item(w)}
           /\ \A v \in Workers \ {w} : Inserted(v)' = Inserted(v)
           /\ Committed' = Committed
           /\ Kept'
<1> PICK i : i = Item(w)
  OBVIOUS
<1>1. i \in Invitees
  BY HeadAndTail DEF InsertRow, Item, Typed, TypeOK, Looping
<1>2. rows[i].status = "absent" /\ rows[i].held = NoWorker
  BY <1>1 DEF InsertRow, Collides, InTable
<1>3. rows' = [rows EXCEPT ![i] = [status |-> "sent", held |-> w]]
  BY DEF InsertRow, NewStatus
<1>4. rows'[i] = [status |-> "sent", held |-> w] /\ \A j \in Invitees \ {i} : rows'[j] = rows[j]
  BY <1>1, <1>3 DEF Typed, TypeOK
<1>5. w # NoWorker
  BY InvitationsAssumption
<1>6. Inserted(w)' = Inserted(w) \cup {i} /\ i \notin Inserted(w)
  BY <1>1, <1>2, <1>4 DEF Inserted, InTable
<1>7. \A v \in Workers \ {w} : Inserted(v)' = Inserted(v)
  BY <1>1, <1>2, <1>4 DEF Inserted, InTable
<1>8. Committed' = Committed
  BY <1>1, <1>2, <1>4, <1>5 DEF Committed, InTable
<1>9. Kept'
  BY <1>4 DEF Kept
<1> QED BY <1>1, <1>6, <1>7, <1>8, <1>9

\* A ROLLBACK takes the rows of its transaction away, and no other.
LEMMA RollbackTakes ==
    ASSUME Typed, Kept, NEW w \in Workers, Rollback(w)
    PROVE  /\ Inserted(w)' = {}
           /\ \A v \in Workers \ {w} : Inserted(v)' = Inserted(v)
           /\ Committed' = Committed
           /\ Kept'
<1>1. \A i \in Invitees : rows'[i] = IF InTable(i) /\ rows[i].held = w THEN NoRow ELSE rows[i]
  BY DEF Rollback, Inserted
<1>2. w # NoWorker
  BY InvitationsAssumption
<1>3. Inserted(w)' = {}
  BY <1>1, <1>2 DEF Inserted, InTable, NoRow
<1>4. \A v \in Workers \ {w} : Inserted(v)' = Inserted(v)
  BY <1>1, <1>2 DEF Inserted, InTable, NoRow
<1>5. Committed' = Committed
  BY <1>1, <1>2 DEF Committed, InTable, NoRow
<1>6. Kept'
  BY <1>1 DEF Kept, NoRow
<1> QED BY <1>3, <1>4, <1>5, <1>6

\* A COMMIT makes them everybody's.
LEMMA ReleaseGives ==
    ASSUME Typed, Kept, NEW w \in Workers, Release(w)
    PROVE  /\ Inserted(w)' = {}
           /\ \A v \in Workers \ {w} : Inserted(v)' = Inserted(v)
           /\ Committed' = Committed \cup Inserted(w)
           /\ Kept'
           /\ \A i \in Invitees : rows'[i].status = rows[i].status
<1>1. \A i \in Invitees : /\ rows'[i].status = rows[i].status
                          /\ rows'[i].held = IF InTable(i) /\ rows[i].held = w THEN NoWorker
                                                                               ELSE rows[i].held
  BY DEF Release, Inserted, Typed, TypeOK
<1>2. w # NoWorker
  BY InvitationsAssumption
<1>3. Inserted(w)' = {}
  BY <1>1, <1>2 DEF Inserted, InTable, Kept
<1>4. \A v \in Workers \ {w} : Inserted(v)' = Inserted(v)
  <2> SUFFICES ASSUME NEW v \in Workers \ {w} PROVE Inserted(v)' = Inserted(v)
    OBVIOUS
  <2>1. v # NoWorker
    BY InvitationsAssumption
  <2> QED BY <1>1, <1>2, <2>1 DEF Inserted, InTable
<1>5. Committed' = Committed \cup Inserted(w)
  BY <1>1, <1>2 DEF Committed, Inserted, InTable
<1>6. Kept'
  BY <1>1 DEF Kept
<1> QED BY <1>1, <1>3, <1>4, <1>5, <1>6

\* An answer changes the status of a row, and not whose it is.
LEMMA AnswerKeeps ==
    ASSUME Typed, Kept, NEW i \in Invitees, NEW d \in Answers, Answer(i, d)
    PROVE  /\ \A v \in Workers : Inserted(v)' = Inserted(v)
           /\ Committed' = Committed
           /\ Kept'
<1>1. /\ \A j \in Invitees : rows'[j].held = rows[j].held
      /\ rows'[i].status = d
      /\ \A j \in Invitees \ {i} : rows'[j].status = rows[j].status
      /\ rows[i].held = NoWorker /\ rows[i].status # "absent" /\ d # "absent"
  BY DEF Answer, Answers, Committed, InTable, Typed, TypeOK
<1>2. Committed' = Committed
  BY <1>1 DEF Committed, InTable
<1>3. \A v \in Workers : Inserted(v)' = Inserted(v)
  BY <1>1 DEF Inserted, InTable
<1>4. Kept'
  BY <1>1 DEF Kept
<1> QED BY <1>2, <1>3, <1>4

-----------------------------------------------------------------------------
(* What a batch has counted. *)

\* Of the list of a batch, what is not left to do is in the table, and was counted
\* as inserted or as found.
Counted(w) ==
    /\ pc[w] = Idle => sent[w] = 0 /\ already[w] = 0
    /\ pc[w] \in {Idle, "refresh"} => Inserted(w) = {}
    /\ IsFiniteSet(Inserted(w))
    /\ view[w] \subseteq Committed
    /\ pc[w] # Idle =>
         /\ batch[w] \in Batches
         /\ ToSet(batch[w]) \subseteq ToSet(todo[w]) \cup Inserted(w) \cup Committed
    /\ pc[w] \in Looping \cup {"commit"} =>
         /\ sent[w] = Cardinality(Inserted(w))
         /\ sent[w] + already[w] + Len(todo[w]) = Len(batch[w])
         /\ Inserted(w) \cup ToSet(todo[w]) \subseteq ToSet(batch[w])
    /\ pc[w] \in {"commit", "refresh"} => todo[w] = <<>>

ListInv == Typed /\ Kept /\ \A w \in Workers : Counted(w)

\* A worker whose own state stands still is not disturbed by what others insert,
\* roll back or commit.
LEMMA OthersCount ==
    ASSUME NEW v \in Workers, Counted(v), Inserted(v)' = Inserted(v),
           Committed \subseteq Committed',
           pc'[v] = pc[v], batch'[v] = batch[v], todo'[v] = todo[v], sent'[v] = sent[v],
           already'[v] = already[v], view'[v] = view[v]
    PROVE  Counted(v)'
BY DEF Counted

\* A handler that ends leaves no row of its own behind.
LEMMA FinishCounts ==
    ASSUME Typed, NEW w \in Workers, NEW c, Finish(w, c), Inserted(w)' = {}
    PROVE  /\ Counted(w)'
           /\ \A v \in Workers \ {w} :
                /\ pc'[v] = pc[v] /\ batch'[v] = batch[v] /\ todo'[v] = todo[v]
                /\ sent'[v] = sent[v]
                /\ already'[v] = already[v] /\ view'[v] = view[v]
<1>1. /\ pc'[w] = Idle /\ sent'[w] = 0 /\ already'[w] = 0 /\ view'[w] = {}
  BY DEF Finish, Typed, TypeOK
<1>2. IsFiniteSet(Inserted(w)')
  BY FS_EmptySet
<1>3. Counted(w)'
  BY <1>1, <1>2 DEF Counted, Idle, Looping
<1> QED BY <1>3 DEF Finish, Typed, TypeOK

\* What a step leaves of the table and of the sessions of others.
Undisturbed(w) ==
    /\ Committed \subseteq Committed'
    /\ \A v \in Workers \ {w} :
         /\ Inserted(v)' = Inserted(v)
         /\ pc'[v] = pc[v] /\ batch'[v] = batch[v] /\ todo'[v] = todo[v] /\ sent'[v] = sent[v]
         /\ already'[v] = already[v] /\ view'[v] = view[v]

\* The loop goes on after a row that was inserted or found.
LEMMA AdvanceCounts ==
    ASSUME ListInv, NEW w \in Workers, pc[w] \in Looping, Advance(w),
           batch' = batch, view' = view, Committed' = Committed,
           Inserted(w)' = Inserted(w) \cup ({Item(w)} \cap Inserted(w)'),
           Item(w) \in Inserted(w)' \cup Committed,
           sent'[w] \in Nat, already'[w] \in Nat,
           sent'[w] + already'[w] = sent[w] + already[w] + 1,
           sent'[w] = Cardinality(Inserted(w)'), IsFiniteSet(Inserted(w)')
    PROVE  Counted(w)'
<1>1. /\ todo[w] \in Seq(Invitees) /\ todo[w] # <<>> /\ Counted(w)
      /\ sent[w] \in Nat /\ already[w] \in Nat
  BY DEF ListInv, Typed, TypeOK
<1>2. /\ todo'[w] = Tail(todo[w])
      /\ pc'[w] = IF Len(todo[w]) = 1 THEN "commit" ELSE "lookup"
  BY DEF Advance, Goto, ListInv, Typed, TypeOK
<1>3. /\ Len(todo[w]) \in Nat /\ Len(todo'[w]) \in Nat /\ Len(todo'[w]) = Len(todo[w]) - 1
      /\ Len(todo[w]) = 1 <=> todo'[w] = <<>>
      /\ ToSet(todo[w]) = {Item(w)} \cup ToSet(todo'[w])
  BY <1>1, <1>2, HeadAndTail DEF Item
<1>4. /\ batch'[w] \in Batches /\ Len(batch[w]) = sent[w] + already[w] + Len(todo[w])
      /\ ToSet(batch[w]) \subseteq ToSet(todo[w]) \cup Inserted(w) \cup Committed
      /\ Inserted(w) \cup ToSet(todo[w]) \subseteq ToSet(batch[w])
      /\ view'[w] \subseteq Committed'
  BY <1>1 DEF Counted, Looping, Idle
<1>5. sent'[w] + already'[w] + Len(todo'[w]) = Len(batch'[w])
  BY <1>1, <1>3, <1>4
<1>6. ToSet(batch'[w]) \subseteq ToSet(todo'[w]) \cup Inserted(w)' \cup Committed'
  BY <1>3, <1>4
<1>7. Inserted(w)' \cup ToSet(todo'[w]) \subseteq ToSet(batch'[w])
  BY <1>3, <1>4
<1>8. pc'[w] \in {"commit", "refresh"} => todo'[w] = <<>>
  BY <1>2, <1>3
<1> QED
  BY <1>2, <1>4, <1>5, <1>6, <1>7, <1>8 DEF Counted, Looping, Idle

\* A step of w that leaves the others alone keeps the invariant, if it keeps w's part.
LEMMA OneAtATime ==
    ASSUME ListInv, [Next]_vars, NEW w \in Workers, Undisturbed(w), Kept', Counted(w)'
    PROVE  ListInv'
<1>1. Typed'
  BY TypedStep DEF ListInv
<1>2. \A v \in Workers \ {w} : Counted(v)'
  BY OthersCount DEF ListInv, Undisturbed
<1> QED BY <1>1, <1>2 DEF ListInv

\* A step that leaves the table alone leaves everybody's rows.
LEMMA QuietTable ==
    ASSUME Kept, UNCHANGED rows
    PROVE  /\ \A v \in Workers : Inserted(v)' = Inserted(v)
           /\ Committed' = Committed
           /\ Kept'
BY DEF Inserted, Committed, InTable, Kept

\* The invariant holds always.
LEMMA ListInvStep == ListInv /\ [Next]_vars => ListInv'
<1> SUFFICES ASSUME ListInv, [Next]_vars PROVE ListInv'
  OBVIOUS
<1>1. ASSUME NEW w \in Workers, TurnAway(w) PROVE ListInv'
  <2>1. Inserted(w)' = {} /\ Undisturbed(w) /\ Kept' /\ Counted(w)'
    <3>1. Inserted(w) = {} /\ Typed /\ Kept
      BY <1>1 DEF TurnAway, ListInv, Counted
    <3>2. Inserted(w)' = {}
      BY <1>1, <3>1, QuietTable DEF TurnAway
    <3> QED BY <1>1, <3>1, <3>2, QuietTable, FinishCounts DEF TurnAway, Undisturbed
  <2> QED BY <2>1, OneAtATime
<1>2. ASSUME NEW w \in Workers, NEW b \in Batches, NEW l \in Isolations, StartBatch(w, b, l)
      PROVE  ListInv'
  <2>1. /\ Inserted(w) = {} /\ sent[w] = 0 /\ already[w] = 0 /\ Typed /\ Kept
    BY <1>2 DEF StartBatch, ListInv, Counted
  <2>2. /\ Committed' = Committed /\ Inserted(w)' = {} /\ Kept' /\ Undisturbed(w)
    BY <1>2, <2>1, QuietTable DEF StartBatch, Goto, Undisturbed, Typed, TypeOK
  <2>3. /\ pc'[w] = "lookup" /\ batch'[w] = b /\ todo'[w] = b /\ sent'[w] = 0 /\ already'[w] = 0
        /\ view'[w] = Committed
    BY <1>2, <2>1 DEF StartBatch, Goto, Typed, TypeOK
  <2>4. IsFiniteSet({}) /\ Cardinality({}) = 0 /\ Len(b) \in Nat
    BY FS_EmptySet, InvitationsAssumption
  <2>5. Counted(w)'
    BY <2>2, <2>3, <2>4 DEF Counted, Idle, Looping
  <2> QED BY <2>2, <2>5, OneAtATime
<1>3. ASSUME NEW w \in Workers, LookupFinds(w) \/ ReselectFinds(w)
      PROVE  ListInv'
  <2>1. pc[w] \in Looping /\ Sees(w, Item(w)) /\ CountAsFound(w)
    BY <1>3 DEF LookupFinds, ReselectFinds, Looping
  <2>2. /\ \A v \in Workers : Inserted(v)' = Inserted(v)
        /\ Committed' = Committed /\ Kept' /\ Undisturbed(w)
    BY <2>1, QuietTable DEF CountAsFound, Advance, Goto, ListInv, Typed, TypeOK, Undisturbed
  <2>3. /\ Counted(w) /\ sent[w] \in Nat /\ already[w] \in Nat
        /\ sent'[w] = sent[w] /\ already'[w] = already[w] + 1
    BY <2>1 DEF CountAsFound, ListInv, Typed, TypeOK
  <2>4. Item(w) \in Inserted(w)' \cup Committed
    BY <2>1, <2>2, <2>3 DEF Sees, Counted
  <2>5. sent'[w] = Cardinality(Inserted(w)') /\ IsFiniteSet(Inserted(w)')
    BY <2>1, <2>2, <2>3 DEF Counted
  <2>6. Counted(w)'
    BY <2>1, <2>2, <2>3, <2>4, <2>5, AdvanceCounts DEF CountAsFound
  <2> QED BY <2>2, <2>6, OneAtATime
<1>4. ASSUME NEW w \in Workers, LookupMisses(w) \/ InsertFails(w) PROVE ListInv'
  <2>1. /\ pc[w] \in Looping /\ pc'[w] \in {"insert", "reselect"}
        /\ \A v \in Workers \ {w} : pc'[v] = pc[v]
        /\ UNCHANGED <<rows, batch, todo, sent, already, view, level>>
    BY <1>4
    DEF LookupMisses, InsertFails, UndoInsert, AfterCollision, Goto, Looping, ListInv, Typed, TypeOK
  <2>2. /\ \A v \in Workers : Inserted(v)' = Inserted(v)
        /\ Committed' = Committed /\ Kept' /\ Undisturbed(w)
    BY <2>1, QuietTable DEF ListInv, Undisturbed
  <2>3. Counted(w)'
    BY <2>1, <2>2 DEF ListInv, Counted, Looping, Idle
  <2> QED BY <2>2, <2>3, OneAtATime
<1>5. ASSUME NEW w \in Workers, InsertRow(w) PROVE ListInv'
  <2>1. /\ pc[w] \in Looping /\ Advance(w) /\ Counted(w) /\ Typed /\ Kept
        /\ batch' = batch /\ view' = view /\ already' = already /\ sent[w] \in Nat
        /\ already[w] \in Nat
        /\ sent'[w] = sent[w] + 1
    BY <1>5 DEF InsertRow, Looping, ListInv, Typed, TypeOK
  <2>2. /\ Item(w) \in Invitees /\ Item(w) \notin Inserted(w)
        /\ Inserted(w)' = Inserted(w) \cup {Item(w)}
        /\ \A v \in Workers \ {w} : Inserted(v)' = Inserted(v)
        /\ Committed' = Committed /\ Kept'
    BY <1>5, <2>1, InsertAdds
  <2>3. Undisturbed(w)
    BY <1>5, <2>1, <2>2 DEF InsertRow, Advance, Goto, Typed, TypeOK, Undisturbed
  <2>4. IsFiniteSet(Inserted(w)) /\ sent[w] = Cardinality(Inserted(w))
    BY <2>1 DEF Counted
  <2>5. IsFiniteSet(Inserted(w)') /\ Cardinality(Inserted(w)') = sent[w] + 1
    BY <2>2, <2>4, FS_AddElement
  <2>6. /\ sent'[w] + already'[w] = sent[w] + already[w] + 1
        /\ sent'[w] \in Nat /\ already'[w] \in Nat
        /\ sent'[w] = Cardinality(Inserted(w)')
    BY <2>1, <2>5
  <2>7. /\ Inserted(w)' = Inserted(w) \cup ({Item(w)} \cap Inserted(w)')
        /\ Item(w) \in Inserted(w)' \cup Committed
    BY <2>2
  <2>8. Counted(w)'
    BY <2>1, <2>2, <2>5, <2>6, <2>7, AdvanceCounts
  <2> QED BY <2>2, <2>3, <2>8, OneAtATime
<1>6. ASSUME NEW w \in Workers, GiveUp(w) \/ ReselectMisses(w) \/ Fail(w) PROVE ListInv'
  <2>1. PICK c : Rollback(w) /\ Finish(w, c)
    BY <1>6 DEF GiveUp, ReselectMisses, Fail
  <2>2. /\ Inserted(w)' = {} /\ Committed' = Committed /\ Kept'
        /\ \A v \in Workers \ {w} : Inserted(v)' = Inserted(v)
    BY <2>1, RollbackTakes DEF ListInv
  <2>3. Undisturbed(w) /\ Counted(w)'
    BY <2>1, <2>2, FinishCounts DEF ListInv, Undisturbed
  <2> QED BY <2>2, <2>3, OneAtATime
<1>7. ASSUME NEW w \in Workers, Commit(w) PROVE ListInv'
  <2>1. /\ Inserted(w)' = {} /\ Committed' = Committed \cup Inserted(w) /\ Kept'
        /\ \A v \in Workers \ {w} : Inserted(v)' = Inserted(v)
    BY <1>7, ReleaseGives DEF Commit, ListInv
  <2>2. Undisturbed(w) /\ pc[w] = "commit" /\ pc'[w] = "refresh" /\ Counted(w)
        /\ batch' = batch /\ todo' = todo /\ view' = view
    BY <1>7, <2>1 DEF Commit, Goto, ListInv, Typed, TypeOK, Undisturbed
  <2>3. IsFiniteSet(Inserted(w)')
    BY <2>1, FS_EmptySet
  <2>4. Counted(w)'
    BY <2>1, <2>2, <2>3 DEF Counted, Looping, Idle
  <2> QED BY <2>1, <2>2, <2>4, OneAtATime
<1>8. ASSUME NEW w \in Workers, Respond201(w) PROVE ListInv'
  <2>1. Inserted(w) = {} /\ Typed /\ Kept
    BY <1>8 DEF Respond201, ListInv, Counted
  <2>2. Inserted(w)' = {} /\ Kept' /\ Undisturbed(w) /\ Counted(w)'
    <3>1. Inserted(w)' = {}
      BY <1>8, <2>1, QuietTable DEF Respond201
    <3> QED BY <1>8, <2>1, <3>1, QuietTable, FinishCounts DEF Respond201, Undisturbed
  <2> QED BY <2>2, OneAtATime
<1>9. ASSUME NEW i \in Invitees, NEW d \in Answers, Answer(i, d) PROVE ListInv'
  <2>1. /\ \A v \in Workers : Inserted(v)' = Inserted(v)
        /\ Committed' = Committed /\ Kept' /\ Typed'
    BY <1>9, AnswerKeeps, TypedStep DEF ListInv
  <2>2. \A v \in Workers : Counted(v)'
    BY <1>9, <2>1, OthersCount DEF Answer, session, ListInv
  <2> QED BY <2>1, <2>2 DEF ListInv
<1>10. CASE UNCHANGED vars
  <2>1. /\ \A v \in Workers : Inserted(v)' = Inserted(v)
        /\ Committed' = Committed /\ Kept' /\ Typed'
    BY <1>10, QuietTable, TypedStep DEF vars, ListInv
  <2>2. \A v \in Workers : Counted(v)'
    BY <1>10, <2>1, OthersCount DEF vars, session, ListInv
  <2> QED BY <2>1, <2>2 DEF ListInv
<1> QED
  BY <1>1, <1>2, <1>3, <1>4, <1>5, <1>6, <1>7, <1>8, <1>9, <1>10 DEF Next, Arrive, Proceed

\* The invariant holds in every state.
LEMMA ListInvAlways == Spec => []ListInv
<1>1. Init => ListInv
  <2> SUFFICES ASSUME Init PROVE ListInv
    OBVIOUS
  <2>1. Typed
    <3>1. <<>> \in Seq(Invitees)
      OBVIOUS
    <3> QED BY <3>1 DEF Init, Typed, TypeOK, NoRow, Idle, NoReply, Labels, Codes, Answers, Looping
  <2>2. \A w \in Workers : Inserted(w) = {}
    BY DEF Init, Inserted, InTable, NoRow
  <2>3. IsFiniteSet({})
    BY FS_EmptySet
  <2>4. Kept /\ \A w \in Workers : Counted(w)
    BY <2>2, <2>3 DEF Init, Kept, Counted, NoRow, Looping, Idle
  <2> QED BY <2>1, <2>4 DEF ListInv
<1> QED BY <1>1, ListInvStep, PTL DEF Spec

-----------------------------------------------------------------------------
(* What a batch is told. *)

\* The counts that a batch reports are those of the rows that it commits, one for
\* each entry of its list, and whoever is on a list that is answered stays invited
\* (event_invitations.py 116-144).
THEOREM BatchesAreToldTheTruth == Spec => AnswersAreTrue
<1>1. ASSUME ListInv
      PROVE  [\A w \in Workers :
                pc[w] = "commit" /\ pc'[w] = "refresh" =>
                    /\ sent[w] = Cardinality(Inserted(w))
                    /\ sent[w] + already[w] = Len(batch[w])]_vars
  <2> SUFFICES ASSUME NEW w \in Workers, pc[w] = "commit"
               PROVE  /\ sent[w] = Cardinality(Inserted(w))
                      /\ sent[w] + already[w] = Len(batch[w])
    OBVIOUS
  <2>1. /\ sent[w] = Cardinality(Inserted(w)) /\ todo[w] = <<>>
        /\ sent[w] + already[w] + Len(todo[w]) = Len(batch[w])
        /\ sent[w] \in Nat /\ already[w] \in Nat
    BY <1>1 DEF ListInv, Counted, Typed, TypeOK
  <2> QED BY <2>1
<1>2. ASSUME ListInv, [Next]_vars
      PROVE  [\A w \in Workers :
                reply'.to = w /\ reply'.code = "ok" => ToSet(batch[w]) \subseteq Committed]_vars
  <2> SUFFICES ASSUME NEW w \in Workers, Next, reply'.to = w, reply'.code = "ok"
               PROVE  ToSet(batch[w]) \subseteq Committed
    BY <1>2
  <2>1. pc[w] = "refresh"
    <3>1. ASSUME NEW v \in Workers, NEW c, Finish(v, c), c # "ok" PROVE FALSE
      BY <3>1 DEF Finish
    <3>2. ASSUME NEW v \in Workers, NEW label, Goto(v, label) PROVE FALSE
      BY <3>2 DEF Goto, NoReply
    <3>3. reply' # NoReply
      BY DEF NoReply
    <3>4. \E v \in Workers : Respond201(v)
      BY <3>1, <3>2, <3>3
      DEF Next, Arrive, Proceed, TurnAway, StartBatch, LookupFinds, LookupMisses, InsertRow,
          InsertFails, GiveUp, ReselectFinds, ReselectMisses, Commit, Fail, CountAsFound, Advance,
          Answer
    <3> QED BY <3>4 DEF Respond201, Finish
  <2>2. Inserted(w) = {} /\ todo[w] = <<>>
        /\ ToSet(batch[w]) \subseteq ToSet(todo[w]) \cup Inserted(w) \cup Committed
    BY <1>2, <2>1 DEF ListInv, Counted, Idle
  <2>3. ToSet(<<>>) = {}
    BY DEF ToSet
  <2> QED BY <2>2, <2>3
<1>3. Spec => CountsMatchTheTable
  BY <1>1, ListInvAlways, PTL DEF Spec, CountsMatchTheTable
<1>4. Spec => AnsweredListIsInvited
  BY <1>2, ListInvAlways, PTL DEF Spec, AnsweredListIsInvited
<1> QED BY <1>3, <1>4 DEF AnswersAreTrue

-----------------------------------------------------------------------------
(* What others see. *)

\* The status that others see of an invitation.
Shown == [i \in Invitees |-> IF i \in Committed THEN rows[i].status ELSE "absent"]

\* A step that neither commits nor answers shows nothing new: a row that a
\* transaction holds is not seen.
LEMMA UncommittedIsUnseen ==
    ASSUME Committed' = Committed, \A i \in Committed : rows'[i].status = rows[i].status
    PROVE  Shown' = Shown
BY DEF Shown

\* A COMMIT shows the whole list of the batch, as sent, and leaves those who were
\* invited before as they were.
LEMMA CommitInvites ==
    ASSUME ListInv, NEW w \in Workers, Commit(w)
    PROVE  Shown' = [i \in Invitees |-> IF i \in ToSet(batch[w]) /\ Shown[i] = "absent"
                                        THEN "sent" ELSE Shown[i]]
<1>1. /\ Committed' = Committed \cup Inserted(w)
      /\ \A i \in Invitees : rows'[i].status = rows[i].status
  BY ReleaseGives DEF Commit, ListInv
<1>2. /\ Inserted(w) \subseteq ToSet(batch[w])
      /\ ToSet(batch[w]) \subseteq Inserted(w) \cup Committed
  <2>1. ToSet(<<>>) = {}
    BY DEF ToSet
  <2> QED BY <2>1 DEF Commit, ListInv, Counted, Looping, Idle
<1>3. \A i \in Inserted(w) : i \in Invitees /\ i \notin Committed /\ rows[i].status = "sent"
  BY InvitationsAssumption DEF Inserted, Committed, ListInv, Kept
<1>4. \A i \in Committed : i \in Invitees /\ rows[i].status # "absent"
  BY DEF Committed, InTable
<1> SUFFICES ASSUME NEW i \in Invitees
             PROVE  Shown'[i] = IF i \in ToSet(batch[w]) /\ Shown[i] = "absent"
                                THEN "sent" ELSE Shown[i]
  BY DEF Shown
<1>5. /\ Shown'[i] = IF i \in Committed' THEN rows'[i].status ELSE "absent"
      /\ Shown[i] = IF i \in Committed THEN rows[i].status ELSE "absent"
  BY DEF Shown
<1>6. CASE i \in Committed
  BY <1>1, <1>4, <1>5, <1>6
<1>7. CASE i \in Inserted(w)
  BY <1>1, <1>2, <1>3, <1>5, <1>7
<1>8. CASE i \notin Committed \cup Inserted(w)
  BY <1>1, <1>2, <1>5, <1>8
<1> QED BY <1>6, <1>7, <1>8

\* Every step is one of the guest list's, or shows nothing new.
LEMMA ListStep == ListInv /\ [Next]_vars => [Book!Next]_Shown
<1> SUFFICES ASSUME ListInv, [Next]_vars PROVE [Book!Next]_Shown
  OBVIOUS
<1>1. CASE UNCHANGED rows
  BY <1>1, QuietTable, UncommittedIsUnseen DEF ListInv
<1>2. ASSUME NEW w \in Workers, InsertRow(w) PROVE Shown' = Shown
  <2>1. Committed' = Committed
    BY <1>2, InsertAdds DEF ListInv
  <2>2. \A i \in Committed : rows'[i].status = rows[i].status
    BY <1>2 DEF InsertRow, Collides, Committed, ListInv, Typed, TypeOK
  <2> QED BY <2>1, <2>2, UncommittedIsUnseen
<1>3. ASSUME NEW w \in Workers, Rollback(w) PROVE Shown' = Shown
  <2>1. Committed' = Committed
    BY <1>3, RollbackTakes DEF ListInv
  <2>2. \A i \in Committed : rows'[i].status = rows[i].status
    BY <1>3, InvitationsAssumption DEF Rollback, Inserted, Committed
  <2> QED BY <2>1, <2>2, UncommittedIsUnseen
<1>4. ASSUME NEW w \in Workers, Commit(w) PROVE Book!Next
  <2>1. batch[w] \in Batches
    BY <1>4 DEF Commit, ListInv, Counted, Idle
  <2>2. PICK guests \in {ToSet(b) : b \in Batches} : guests = ToSet(batch[w])
    BY <2>1
  <2>3. Book!Invite(guests)
    BY <1>4, <2>2, CommitInvites DEF Book!Invite, Shown
  <2> QED BY <2>3 DEF Book!Next
<1>5. ASSUME NEW i \in Invitees, NEW d \in Answers, Answer(i, d) PROVE Book!Next
  <2>1. Committed' = Committed /\ i \in Committed
    BY <1>5, AnswerKeeps DEF ListInv, Answer
  <2>2. rows'[i].status = d /\ \A j \in Invitees \ {i} : rows'[j].status = rows[j].status
    BY <1>5 DEF Answer, ListInv, Typed, TypeOK
  <2>3. Shown[i] # "absent" /\ Shown' = [Shown EXCEPT ![i] = d]
    BY <2>1, <2>2 DEF Shown, Committed, InTable
  <2>4. Book!Answer(i, d)
    BY <2>3 DEF Book!Answer, Shown
  <2> QED BY <2>4 DEF Book!Next, Answers
<1> QED
  BY <1>1, <1>2, <1>3, <1>4, <1>5
  DEF Next, Arrive, Proceed, TurnAway, StartBatch, LookupFinds, LookupMisses, InsertFails,
      UndoInsert,
      GiveUp, ReselectFinds, ReselectMisses, Respond201, Fail, CountAsFound, vars

\* What others see of the table is a guest list that grows by whole lists and loses
\* nobody, though a batch is many statements, waits for the rows of others and may
\* die at each (event_invitations.py 178-207).
THEOREM ListImplementsGuestList == Spec => ImplementsGuestList
<1>1. Init => Book!Init
  BY DEF Init, Book!Init, Committed, InTable, NoRow
<1>2. ListInv /\ [Next]_vars =>
        [Book!Next]_([i \in Invitees |-> IF i \in Committed THEN rows[i].status ELSE "absent"])
  BY ListStep DEF Shown
<1> QED BY <1>1, <1>2, ListInvAlways, PTL DEF Spec, ImplementsGuestList, Book!Spec

-----------------------------------------------------------------------------
(* Types. *)

Row       == [tenant : Tenants, key : Keys \cup {NoKey}, event : Board!Event]
Creations == [op : {"create"}, tenant : Tenants, key : Keys \cup {NoKey}, draft : Drafts]
Edits     == [op : {"patch"}, tenant : Tenants, id : Nat, patch : Patches] \cup
             [op : {"delete"}, tenant : Tenants, id : Nat, patch : {Board!Cancellation}]
BoardLabels    == {Board!Idle, "lookup", "insert", "reread", "load", "write", "refresh"}

\* The types that the steps depend on.
BoardTyped ==
    /\ events    \in Seq(Row)
    /\ doing      \in [Workers -> BoardLabels]
    /\ request \in [Workers -> {Board!NoRequest} \cup Creations \cup Edits]
    /\ eventView    \in [Workers -> Nat]
    /\ loaded  \in [Workers -> Board!Event]
    /\ target  \in [Workers -> Nat]


\* What a request in progress is about, and what it has established: an Edit is of
\* an event that there is, and a POST that has collided sees the row that won.
Engaged(w) ==
    /\ eventView[w] <= Len(events)
    /\ doing[w] \in {"lookup", "insert", "reread"} => request[w] \in Creations
    /\ doing[w] \in {"lookup", "reread"} => request[w].key # NoKey
    /\ doing[w] = "reread" => Board!WithKey(eventView[w], request[w]) # {}
    /\ doing[w] \in {"load", "write"} => request[w] \in Edits /\ request[w].id \in Board!Ids
    /\ doing[w] = "write" => target[w] = request[w].id
    /\ doing[w] = "refresh" => target[w] \in Board!Ids /\ request[w] \in Creations \cup Edits
    /\ doing[w] = "refresh" /\ request[w].op = "create" =>
         /\ events[target[w]].tenant = request[w].tenant
         /\ events[target[w]].key = request[w].key

\* A tenant's events have different keys, those without one aside.
KeysDiffer ==
    \A i, j \in Board!Ids :
        events[i].tenant = events[j].tenant /\ events[i].key = events[j].key
          /\ events[i].key # NoKey => i = j

BoardInv == BoardTyped /\ KeysDiffer /\ \A w \in Workers : Engaged(w)

-----------------------------------------------------------------------------
(* What the steps do to the table. *)

\* Events are added, and keep their tenant and key.
Grown ==
    /\ events' \in Seq(Row)
    /\ Len(events) <= Len(events')
    /\ \A i \in Board!Ids : events'[i].tenant = events[i].tenant /\ events'[i].key = events[i].key

\* Of the sessions, a step of w touches only that of w.
RequestsApart(w) ==
    \A v \in Workers \ {w} :
        /\ doing'[v] = doing[v] /\ request'[v] = request[v] /\ eventView'[v] = eventView[v]
        /\ loaded'[v] = loaded[v] /\ target'[v] = target[v]

\* Ids are the positions in the table.
LEMMA IdsArePositions ==
    ASSUME events \in Seq(Row), Grown
    PROVE  /\ Len(events) \in Nat /\ Len(events') \in Nat
           /\ Board!Ids = 1 .. Len(events) /\ Board!Ids' = 1 .. Len(events')
           /\ Board!Ids \subseteq Board!Ids'
BY DEF Board!Ids, Grown

\* The events among the first n that have a key stay the same.
LEMMA SameWithKey ==
    ASSUME events \in Seq(Row), Grown, NEW n \in Nat, n <= Len(events), NEW r
    PROVE  Board!WithKey(n, r)' = Board!WithKey(n, r)
<1>1. \A i \in 1 .. n : i \in Board!Ids
  BY IdsArePositions
<1> QED BY <1>1 DEF Board!WithKey, Grown

\* A request under way is not disturbed by events that are added or changed.
LEMMA OthersEngaged ==
    ASSUME BoardTyped, Grown, NEW v \in Workers, Engaged(v),
           doing'[v] = doing[v], request'[v] = request[v], eventView'[v] = eventView[v],
             target'[v] = target[v]
    PROVE  Engaged(v)'
<1> PICK n, r : n = eventView[v] /\ r = request[v]
  OBVIOUS
<1>1. /\ Board!Ids \subseteq Board!Ids' /\ Len(events) \in Nat /\ Len(events') \in Nat
      /\ n \in Nat /\ n <= Len(events)
  BY IdsArePositions DEF BoardTyped, Engaged
<1>2. Len(events) <= Len(events')
  BY DEF Grown
<1>3. n <= Len(events')
  BY <1>1, <1>2
<1>4. Board!WithKey(n, r)' = Board!WithKey(n, r)
  BY <1>1, SameWithKey DEF BoardTyped
<1>5. doing'[v] = "reread" => Board!WithKey(n, r)' # {}
  BY <1>4 DEF Engaged
<1>6. \A i \in Board!Ids : events'[i].tenant = events[i].tenant /\ events'[i].key = events[i].key
  BY DEF Grown
<1> QED BY <1>1, <1>3, <1>5, <1>6 DEF Engaged

\* A step that leaves the table alone.
LEMMA QuietBoard ==
    ASSUME BoardTyped, UNCHANGED events PROVE Grown
BY DEF Grown, BoardTyped

\* What Finish does to the session of w.
LEMMA FinishEngaged ==
    ASSUME BoardTyped, NEW w \in Workers, NEW c, NEW i, Board!Finish(w, c, i), UNCHANGED events
    PROVE  BoardTyped' /\ Engaged(w)' /\ RequestsApart(w)
<1>1. /\ doing' = [doing EXCEPT ![w] = Board!Idle]
      /\ request' = [request EXCEPT ![w] = Board!NoRequest]
      /\ eventView' = [eventView EXCEPT ![w] = 0] /\ loaded' = [loaded EXCEPT ![w] = Board!Unset]
      /\ target' = [target EXCEPT ![w] = Board!NoId]
  BY DEF Board!Finish
<1>2. Board!Unset \in Board!Event
  BY DEF Board!Unset, Board!Event, Board!Times, Board!Statuses
<1>3. BoardTyped'
  BY <1>1, <1>2 DEF BoardTyped, BoardLabels, Board!NoId
<1>4. /\ doing'[w] = Board!Idle /\ eventView'[w] = 0 /\ Len(events') \in Nat
  BY <1>1 DEF BoardTyped
<1>5. Engaged(w)'
  BY <1>4 DEF Engaged, Board!Idle
<1>6. RequestsApart(w)
  BY <1>1 DEF RequestsApart, BoardTyped
<1> QED BY <1>3, <1>5, <1>6

\* A step of w keeps the invariant, if it keeps w's part and only adds to the table.
LEMMA OneRequestAtATime ==
    ASSUME BoardInv, NEW w \in Workers, BoardTyped', Grown, RequestsApart(w), Engaged(w)',
           KeysDiffer'
    PROVE  BoardInv'
<1>1. \A v \in Workers \ {w} : Engaged(v)'
  BY OthersEngaged DEF BoardInv, RequestsApart
<1> QED BY <1>1 DEF BoardInv

\* Where no event is added or changed the keys differ still.
LEMMA QuietStep ==
    ASSUME BoardInv, NEW w \in Workers, UNCHANGED events, BoardTyped', RequestsApart(w), Engaged(w)'
    PROVE  BoardInv'
<1>1. KeysDiffer' /\ Grown
  BY QuietBoard DEF BoardInv, KeysDiffer, Board!Ids
<1> QED BY <1>1, OneRequestAtATime

\* What Goto and Receive do to the types.
LEMMA GotoTypes ==
    ASSUME BoardTyped, NEW w \in Workers, NEW label \in BoardLabels, Board!Goto(w, label)
    PROVE  doing' \in [Workers -> BoardLabels] /\ doing'[w] = label
             /\ \A v \in Workers \ {w} : doing'[v] = doing[v]
BY DEF Board!Goto, BoardTyped

\* A POST that adds its event: no other of its tenant's has the key.
LEMMA InsertEngages ==
    ASSUME Board!EventsAssumption, BoardInv, NEW w \in Workers, Board!InsertEvent(w)
    PROVE  BoardInv'
<1> PICK r, n : r = request[w] /\ n = Len(events)
  OBVIOUS
<1>1. /\ doing[w] = "insert" /\ r \in Creations /\ ~ Board!Collides(w) /\ n \in Nat
      /\ events \in Seq(Row)
      /\ BoardTyped /\ Engaged(w)
  BY DEF Board!InsertEvent, BoardInv, Engaged, BoardTyped
<1> DEFINE new == [tenant |-> r.tenant, key |-> r.key, event |-> r.draft]
<1>2. events' = Append(events, new)
  BY DEF Board!InsertEvent
<1>3. new \in Row
  <2>1. r.draft \in Drafts /\ r.tenant \in Tenants /\ r.key \in Keys \cup {NoKey}
    BY <1>1 DEF Creations
  <2>2. r.draft \in Board!Event
    BY <2>1 DEF Board!EventsAssumption
  <2> QED BY <2>1, <2>2 DEF Row
<1> HIDE DEF new
<1>4. /\ events' \in Seq(Row) /\ Len(events') = n + 1 /\ events'[n + 1] = new
      /\ \A i \in 1 .. n : events'[i] = events[i]
  BY <1>1, <1>2, <1>3
<1>5. Board!Ids = 1 .. n /\ Board!Ids' = 1 .. n + 1
  BY <1>1, <1>4 DEF Board!Ids
<1>6. Grown
  BY <1>1, <1>4, <1>5 DEF Grown
<1>7. KeysDiffer'
  <2>1. \A i \in 1 .. n : r.key # NoKey => ~ (events[i].tenant = r.tenant /\ events[i].key = r.key)
    BY <1>1 DEF Board!Collides, Board!WithKey
  <2>2. new.tenant = r.tenant /\ new.key = r.key
    BY DEF new
  <2> SUFFICES ASSUME NEW i \in 1 .. n + 1, NEW j \in 1 .. n + 1,
                      events'[i].tenant = events'[j].tenant, events'[i].key = events'[j].key,
                      events'[i].key # NoKey
               PROVE  i = j
    BY <1>5 DEF KeysDiffer
  <2>3. CASE i = n + 1 /\ j = n + 1
    BY <2>3
  <2>4. CASE i = n + 1 /\ j # n + 1
    <3>1. j \in 1 .. n
      BY <1>1, <2>4
    <3> QED BY <1>4, <2>1, <2>2, <2>4, <3>1
  <2>5. CASE i # n + 1 /\ j = n + 1
    <3>1. i \in 1 .. n
      BY <1>1, <2>5
    <3> QED BY <1>4, <2>1, <2>2, <2>5, <3>1
  <2>6. CASE i # n + 1 /\ j # n + 1
    <3>1. i \in 1 .. n /\ j \in 1 .. n
      BY <1>1, <2>6
    <3> QED BY <1>4, <1>5, <3>1 DEF BoardInv, KeysDiffer
  <2> QED BY <2>3, <2>4, <2>5, <2>6
<1>8. /\ target' = [target EXCEPT ![w] = n + 1] /\ Board!Goto(w, "refresh")
      /\ UNCHANGED <<request, eventView, loaded>>
  BY DEF Board!InsertEvent
<1>9. BoardTyped'
  BY <1>1, <1>4, <1>8, GotoTypes DEF BoardTyped, BoardLabels
<1>10. RequestsApart(w) /\ doing'[w] = "refresh" /\ target'[w] = n + 1
  BY <1>1, <1>8, GotoTypes DEF RequestsApart, BoardTyped, BoardLabels
<1>11. Engaged(w)'
  <2>1. eventView'[w] <= Len(events')
    BY <1>1, <1>4, <1>8 DEF Engaged, BoardTyped
  <2>2. target'[w] \in Board!Ids' /\ events'[target'[w]] = new
    BY <1>1, <1>4, <1>5, <1>10
  <2> QED BY <1>1, <1>8, <1>10, <2>1, <2>2 DEF Engaged, new
<1> QED BY <1>6, <1>7, <1>9, <1>10, <1>11, OneRequestAtATime

\* A PATCH or DELETE that writes: it keeps tenants and keys.
LEMMA WriteEngages ==
    ASSUME Board!EventsAssumption, BoardInv, NEW w \in Workers, Board!WriteEvent(w)
    PROVE  /\ BoardInv' /\ Grown /\ Len(events') = Len(events)
           /\ target[w] \in Board!Ids /\ target[w] = request[w].id /\ request[w] \in Edits
           /\ events'[target[w]].event =
                [c \in Board!Columns |-> IF c \in Board!Written(w) THEN Board!Merged(w)[c]
                                                       ELSE events[target[w]].event[c]]
           /\ \A i \in Board!Ids \ {target[w]} : events'[i] = events[i]
           /\ doing'[w] = "refresh" /\ \A v \in Workers \ {w} : doing'[v] = doing[v]
<1> PICK r, n, t : r = request[w] /\ n = Len(events) /\ t = target[w]
  OBVIOUS
<1>1. /\ doing[w] = "write" /\ r \in Edits /\ t \in Board!Ids /\ t = r.id /\ BoardTyped
      /\ Engaged(w)
      /\ events \in Seq(Row) /\ n \in Nat
  BY DEF Board!WriteEvent, BoardInv, Engaged, BoardTyped
<1>2. Board!Ids = 1 .. n /\ events[t] \in Row
  BY <1>1 DEF Board!Ids
<1> DEFINE e == [c \in Board!Columns |->
                   IF c \in Board!Written(w) THEN Board!Merged(w)[c] ELSE events[t].event[c]]
<1>3. events' = [events EXCEPT ![t].event = e]
  BY DEF Board!WriteEvent
<1>4. \A c \in Board!Written(w) : Board!Merged(w)[c] = r.patch[c] /\ c \in DOMAIN r.patch
        /\ c \in Board!Columns
  <2>1. r.patch \in Patches \cup {Board!Cancellation}
    BY <1>1 DEF Edits
  <2>2. DOMAIN r.patch \subseteq Board!Columns
    BY <2>1 DEF Board!EventsAssumption, Board!Cancellation, Board!Columns
  <2> QED BY <2>2 DEF Board!Written, Board!Merged, Board!Named
<1>5. \A c \in DOMAIN r.patch : r.patch[c] \in IF c = "status" THEN Board!Statuses ELSE Board!Times
  <2>1. CASE r.patch \in Patches
    BY <2>1 DEF Board!EventsAssumption
  <2>2. CASE r.patch = Board!Cancellation
    BY <2>2 DEF Board!Cancellation, Board!Statuses
  <2> QED BY <1>1, <2>1, <2>2 DEF Edits
<1>6. e \in Board!Event
  <2>1. events[t].event \in Board!Event
    BY <1>2 DEF Row
  <2>2. \A c \in Board!Columns : e[c] \in IF c = "status" THEN Board!Statuses ELSE Board!Times
    BY <1>4, <1>5, <2>1 DEF Board!Event, Board!Columns
  <2> QED BY <2>2 DEF Board!Event, Board!Columns
<1> HIDE DEF e
<1>7. /\ events' \in Seq(Row) /\ Len(events') = n
      /\ \A i \in 1 .. n : events'[i] = IF i = t THEN [events[t] EXCEPT !.event = e] ELSE events[i]
  <2>1. [events[t] EXCEPT !.event = e] \in Row
    BY <1>2, <1>6 DEF Row
  <2> QED BY <1>1, <1>2, <1>3, <2>1
<1>8. /\ events'[t].event = e
      /\ \A i \in 1 .. n : events'[i].tenant = events[i].tenant /\ events'[i].key = events[i].key
  BY <1>1, <1>2, <1>7 DEF Row
<1>9. Board!Ids' = 1 .. n /\ Grown
  BY <1>1, <1>2, <1>7, <1>8 DEF Board!Ids, Grown
<1>10. KeysDiffer'
  BY <1>2, <1>8, <1>9 DEF BoardInv, KeysDiffer
<1>11. /\ loaded' = [loaded EXCEPT ![w] = Board!Unset] /\ Board!Goto(w, "refresh")
       /\ UNCHANGED <<request, eventView, target>>
  BY DEF Board!WriteEvent
<1>12. Board!Unset \in Board!Event
  BY DEF Board!Unset, Board!Event, Board!Times, Board!Statuses
<1>13. BoardTyped'
  BY <1>1, <1>7, <1>11, <1>12, GotoTypes DEF BoardTyped, BoardLabels
<1>14. RequestsApart(w) /\ doing'[w] = "refresh"
  BY <1>1, <1>11, GotoTypes DEF RequestsApart, BoardTyped, BoardLabels
<1>15. Engaged(w)'
  <2>1. eventView'[w] <= Len(events') /\ target'[w] \in Board!Ids'
    BY <1>1, <1>2, <1>7, <1>9, <1>11 DEF Engaged
  <2>2. request'[w].op # "create"
    BY <1>1, <1>11 DEF Edits
  <2> QED BY <1>1, <1>11, <1>14, <2>1, <2>2 DEF Engaged
<1>16. BoardInv'
  BY <1>9, <1>10, <1>13, <1>14, <1>15, OneRequestAtATime
<1>17. \A i \in Board!Ids \ {t} : events'[i] = events[i]
  BY <1>2, <1>7
<1> QED BY <1>1, <1>7, <1>8, <1>9, <1>14, <1>16, <1>17 DEF e, RequestsApart

\* A step that ends a handler.
LEMMA FinishStep ==
    ASSUME BoardInv, NEW w \in Workers, NEW c, NEW i, Board!Finish(w, c, i), UNCHANGED events
    PROVE  BoardInv'
BY FinishEngaged, QuietStep DEF BoardInv

\* A request that arrives.
LEMMA ReceiveEngages ==
    ASSUME BoardInv, NEW w \in Workers, NEW r \in Creations \cup Edits, NEW label \in BoardLabels,
           Board!Receive(w, r, label), eventView' = eventView
             \/ eventView' = [eventView EXCEPT ![w] = Len(events)],
           label \in {"lookup", "insert", "load"},
           IF label = "load" THEN r \in Edits ELSE r \in Creations,
           label = "lookup" => r.key # NoKey,
           label = "load" => r.id \in Board!Ids
    PROVE  BoardInv'
<1>1. /\ BoardTyped /\ Engaged(w) /\ request' = [request EXCEPT ![w] = r] /\ Board!Goto(w, label)
      /\ UNCHANGED <<events, loaded, target>> /\ Len(events) \in Nat
  BY DEF Board!Receive, BoardInv, BoardTyped
<1>2. BoardTyped'
  <2>1. eventView' \in [Workers -> Nat]
    BY <1>1 DEF BoardTyped
  <2>2. doing' \in [Workers -> BoardLabels]
    BY <1>1, GotoTypes
  <2> QED BY <1>1, <2>1, <2>2 DEF BoardTyped
<1>3. RequestsApart(w) /\ doing'[w] = label /\ request'[w] = r /\ eventView'[w] <= Len(events)
  BY <1>1, GotoTypes DEF RequestsApart, BoardTyped, Engaged
<1>4. Board!Ids' = Board!Ids
  BY <1>1 DEF Board!Ids
<1>5. Engaged(w)'
  BY <1>1, <1>3, <1>4 DEF Engaged
<1> QED BY <1>1, <1>2, <1>3, <1>5, QuietStep

\* A step of the handlers keeps the invariant.
LEMMA BoardStep ==
    ASSUME Board!EventsAssumption, BoardInv, [Board!Next]_Board!vars PROVE BoardInv'
<1>1. ASSUME NEW w \in Workers, NEW t \in Tenants, NEW k \in Keys \cup {NoKey}, NEW d \in Drafts,
             Board!StartCreate(w, t, k, d)
      PROVE  BoardInv'
  <2> DEFINE r == [op |-> "create", tenant |-> t, key |-> k, draft |-> d]
  <2>1. r \in Creations /\ r.key = k
    BY DEF Creations
  <2>2. Board!Receive(w, r, IF k = NoKey THEN "insert" ELSE "lookup")
          /\ eventView' = [eventView EXCEPT ![w] = Len(events)]
    BY <1>1 DEF Board!StartCreate
  <2> HIDE DEF r
  <2>3. CASE k = NoKey
    BY <2>1, <2>2, <2>3, ReceiveEngages DEF BoardLabels
  <2>4. CASE k # NoKey
    BY <2>1, <2>2, <2>4, ReceiveEngages DEF BoardLabels
  <2> QED BY <2>3, <2>4
<1>2. ASSUME NEW w \in Workers, NEW t \in Tenants, NEW i \in Board!Ids, NEW p \in Patches,
             Board!StartPatch(w, t, i, p)
      PROVE  BoardInv'
  <2> DEFINE r == [op |-> "patch", tenant |-> t, id |-> i, patch |-> p]
  <2>1. i \in Nat
    BY DEF BoardInv, BoardTyped, Board!Ids
  <2>2. r \in Edits /\ r.id = i
    BY <2>1 DEF Edits
  <2>3. Board!Receive(w, r, "load") /\ eventView' = eventView
    BY <1>2 DEF Board!StartPatch
  <2> HIDE DEF r
  <2> QED BY <2>2, <2>3, ReceiveEngages DEF BoardLabels
<1>3. ASSUME NEW w \in Workers, NEW t \in Tenants, NEW i \in Board!Ids, Board!StartDelete(w, t, i)
      PROVE  BoardInv'
  <2> DEFINE r == [op |-> "delete", tenant |-> t, id |-> i, patch |-> Board!Cancellation]
  <2>1. i \in Nat
    BY DEF BoardInv, BoardTyped, Board!Ids
  <2>2. r \in Edits /\ r.id = i
    BY <2>1 DEF Edits
  <2>3. Board!Receive(w, r, "load") /\ eventView' = eventView
    BY <1>3 DEF Board!StartDelete
  <2> HIDE DEF r
  <2> QED BY <2>2, <2>3, ReceiveEngages DEF BoardLabels
<1>4. ASSUME NEW w \in Workers,
             Board!Replay(w) \/ Board!Reread(w) \/ Board!LoadMisses(w) \/ Board!RefuseWindow(w)
               \/ Board!Respond(w) \/ Board!Fail(w)
      PROVE  BoardInv'
  <2>1. UNCHANGED events /\ \E c, i : Board!Finish(w, c, i)
    BY <1>4
       DEF Board!Replay, Board!Reread, Board!LoadMisses, Board!RefuseWindow, Board!Respond,
           Board!Fail
  <2> QED BY <2>1, FinishStep
<1>5. ASSUME NEW w \in Workers, Board!LookupMisses(w) PROVE BoardInv'
  <2>1. /\ BoardTyped /\ Engaged(w) /\ Board!Goto(w, "insert")
        /\ UNCHANGED <<events, request, eventView, loaded, target>>
        /\ doing[w] = "lookup"
    BY <1>5 DEF Board!LookupMisses, BoardInv
  <2>2. BoardTyped' /\ RequestsApart(w) /\ doing'[w] = "insert"
    BY <2>1, GotoTypes DEF RequestsApart, BoardTyped, BoardLabels
  <2>3. Engaged(w)'
    BY <2>1, <2>2 DEF Engaged
  <2> QED BY <2>1, <2>2, <2>3, QuietStep
<1>6. ASSUME NEW w \in Workers, Board!InsertEvent(w) PROVE BoardInv'
  BY <1>6, InsertEngages
<1>7. ASSUME NEW w \in Workers, Board!InsertFails(w) PROVE BoardInv'
  <2>1. /\ BoardTyped /\ Engaged(w) /\ Board!Goto(w, "reread")
        /\ UNCHANGED <<events, request, loaded, target>>
        /\ doing[w] = "insert" /\ Board!Collides(w)
        /\ eventView' = [eventView EXCEPT ![w] = Len(events)] /\ Len(events) \in Nat
    BY <1>7 DEF Board!InsertFails, Board!AfterRollback, Board!NextView, BoardInv, BoardTyped
  <2>2. BoardTyped' /\ RequestsApart(w) /\ doing'[w] = "reread" /\ eventView'[w] = Len(events)
    BY <2>1, GotoTypes DEF RequestsApart, BoardTyped, BoardLabels
  <2>3. Engaged(w)'
    BY <2>1, <2>2 DEF Engaged, Board!Collides, Board!WithKey
  <2> QED BY <2>1, <2>2, <2>3, QuietStep
<1>8. ASSUME NEW w \in Workers, Board!LoadFinds(w) PROVE BoardInv'
  <2>1. /\ BoardTyped /\ Engaged(w) /\ Board!Goto(w, "write")
        /\ UNCHANGED <<events, request, eventView>>
        /\ doing[w] = "load" /\ request[w] \in Edits /\ request[w].id \in Board!Ids
        /\ loaded' = [loaded EXCEPT ![w] = events[request[w].id].event]
        /\ target' = [target EXCEPT ![w] = request[w].id]
    BY <1>8 DEF Board!LoadFinds, BoardInv, Engaged
  <2>2. request[w].id \in Nat /\ events[request[w].id].event \in Board!Event
    <3> PICK i : i = request[w].id
      OBVIOUS
    <3>1. i \in 1 .. Len(events) /\ events[i] \in Row
      BY <2>1 DEF BoardTyped, Board!Ids
    <3> QED BY <3>1 DEF Row
  <2>3. BoardTyped' /\ RequestsApart(w) /\ doing'[w] = "write" /\ target'[w] = request[w].id
    BY <2>1, <2>2, GotoTypes DEF RequestsApart, BoardTyped, BoardLabels
  <2>4. Engaged(w)'
    BY <2>1, <2>3 DEF Engaged, Board!Ids
  <2> QED BY <2>1, <2>3, <2>4, QuietStep
<1>9. ASSUME NEW w \in Workers, Board!WriteEvent(w) PROVE BoardInv'
  BY <1>9, WriteEngages
<1>10. CASE UNCHANGED Board!vars
  <2>1. BoardTyped' /\ KeysDiffer' /\ Grown
    BY <1>10, QuietBoard DEF Board!vars, BoardInv, BoardTyped, KeysDiffer, Board!Ids
  <2>2. \A v \in Workers : Engaged(v)'
    BY <1>10, <2>1, OthersEngaged DEF Board!vars, BoardInv
  <2> QED BY <2>1, <2>2 DEF BoardInv
<1> QED
  BY <1>1, <1>2, <1>3, <1>4, <1>5, <1>6, <1>7, <1>8, <1>9, <1>10
     DEF Board!Next, Board!Arrive, Board!Proceed

\* The invariant holds always.
LEMMA BoardInvAlways ==
    ASSUME Board!EventsAssumption PROVE Board!Spec => []BoardInv
<1>1. Board!Init => BoardInv
  <2> SUFFICES ASSUME Board!Init PROVE BoardInv
    OBVIOUS
  <2>1. events = <<>> /\ events \in Seq(Row) /\ Len(events) = 0 /\ Board!Ids = {}
    BY DEF Board!Init, Board!Ids
  <2>2. Board!Unset \in Board!Event
    BY DEF Board!Unset, Board!Event, Board!Times, Board!Statuses
  <2>3. BoardTyped /\ KeysDiffer
    BY <2>1, <2>2 DEF Board!Init, BoardTyped, KeysDiffer, BoardLabels, Board!NoId
  <2>4. \A w \in Workers : Engaged(w)
    BY <2>1 DEF Board!Init, Engaged, Board!Idle
  <2> QED BY <2>3, <2>4 DEF BoardInv
<1>2. BoardInv /\ [Board!Next]_Board!vars => BoardInv'
  BY BoardStep
<1> QED BY <1>1, <1>2, PTL DEF Board!Spec

-----------------------------------------------------------------------------
(* A key names one event. *)

\* An event of a tenant with a key is the only one.
LEMMA OnlyOneHasKey ==
    ASSUME BoardInv, NEW r, r.key # NoKey, NEW i \in Board!WithKey(Len(events), r)
    PROVE  Board!WithKey(Len(events), r) = {i}
<1>1. Board!Ids = 1 .. Len(events)
  BY DEF BoardInv, BoardTyped, Board!Ids
<1> QED BY <1>1 DEF Board!WithKey, BoardInv, KeysDiffer

\* The first of the events that a SELECT finds is one of them, all of which are still
\* there.
LEMMA FirstIsFound ==
    ASSUME BoardInv, NEW n \in Nat, n <= Len(events), NEW r, r.key # NoKey, Board!WithKey(n, r) # {}
    PROVE  Board!WithKey(Len(events), r) = {Board!First(Board!WithKey(n, r))}
<1>1. Len(events) \in Nat
  BY DEF BoardInv, BoardTyped
<1>2. Board!WithKey(n, r) \subseteq Board!WithKey(Len(events), r)
  BY <1>1 DEF Board!WithKey
<1>3. PICK i : i \in Board!WithKey(n, r)
  OBVIOUS
<1>4. Board!WithKey(Len(events), r) = {i}
  BY <1>2, <1>3, OnlyOneHasKey
<1>5. Board!WithKey(n, r) = {i} /\ i \in Nat
  BY <1>2, <1>3, <1>4 DEF Board!WithKey
<1>6. Board!First({i}) = i
  BY <1>5 DEF Board!First
<1> QED BY <1>4, <1>5, <1>6

\* What is answered to whom.
RightlyNamed(w) ==
    /\ answer'.code # "conflict"
    /\ answer'.code = "created" /\ request[w].key # NoKey =>
         Board!WithKey(Len(events), request[w]) = {answer'.event}

\* An answer names the event.
LEMMA AnswerNames ==
    ASSUME Board!EventsAssumption, BoardInv, [Board!Next]_Board!vars, ~ UNCHANGED Board!vars,
           NEW w \in Workers, answer'.to = w
    PROVE  RightlyNamed(w)
<1> PICK r, n : r = request[w] /\ n = eventView[w]
  OBVIOUS
<1>1. BoardTyped /\ Engaged(w) /\ w # NoWorker /\ n \in Nat /\ n <= Len(events)
  BY DEF BoardInv, Board!EventsAssumption, BoardTyped, Engaged
<1>2. ASSUME NEW v \in Workers, NEW label, Board!Goto(v, label) PROVE FALSE
  BY <1>1, <1>2 DEF Board!Goto, Board!NoReply
<1>3. ASSUME NEW v \in Workers, NEW c, NEW i, Board!Finish(v, c, i)
      PROVE  v = w /\ answer'.code = c /\ answer'.event = i
  BY <1>3 DEF Board!Finish
<1>4. CASE Board!Replay(w)
  <2>1. r.key # NoKey /\ Board!WithKey(n, r) # {}
          /\ answer'.event = Board!First(Board!WithKey(n, r)) /\ answer'.code = "created"
    BY <1>1, <1>4 DEF Board!Replay, Board!Finish, Engaged
  <2>2. Board!WithKey(Len(events), r) = {Board!First(Board!WithKey(n, r))}
    BY <1>1, <2>1, FirstIsFound
  <2> QED BY <2>1, <2>2 DEF RightlyNamed
<1>5. CASE Board!Reread(w)
  <2>1. r.key # NoKey /\ Board!WithKey(n, r) # {}
    BY <1>1, <1>5 DEF Board!Reread, Engaged
  <2>2. answer'.event = Board!First(Board!WithKey(n, r)) /\ answer'.code = "created"
    BY <1>5, <2>1 DEF Board!Reread, Board!Finish
  <2>3. Board!WithKey(Len(events), r) = {Board!First(Board!WithKey(n, r))}
    BY <1>1, <2>1, FirstIsFound
  <2> QED BY <2>2, <2>3 DEF RightlyNamed
<1>6. CASE Board!Respond(w)
  <2>1. /\ answer'.code # "conflict" /\ answer'.event = target[w]
        /\ answer'.code = "created" => r.op = "create"
        /\ doing[w] = "refresh"
    BY <1>6 DEF Board!Respond, Board!Finish
  <2>2. ASSUME r.op = "create", r.key # NoKey PROVE Board!WithKey(Len(events), r) = {target[w]}
    <3>1. /\ target[w] \in Board!Ids /\ events[target[w]].tenant = r.tenant
          /\ events[target[w]].key = r.key
      BY <1>1, <2>1, <2>2 DEF Engaged
    <3>2. target[w] \in Board!WithKey(Len(events), r)
      BY <1>1, <3>1 DEF Board!WithKey, Board!Ids, BoardTyped
    <3> QED BY <2>2, <3>2, OnlyOneHasKey
  <2> QED BY <2>1, <2>2 DEF RightlyNamed
<1>7. CASE Board!LoadMisses(w) \/ Board!RefuseWindow(w) \/ Board!Fail(w)
  BY <1>7 DEF Board!LoadMisses, Board!RefuseWindow, Board!Fail, Board!Finish, RightlyNamed
<1>8. PICK v \in Workers : Board!Arrive(v) \/ Board!Proceed(v) \/ Board!Fail(v)
  BY DEF Board!Next
<1>9. ~ Board!Arrive(v)
  BY <1>2, <1>8
     DEF Board!Arrive, Board!StartCreate, Board!StartPatch, Board!StartDelete, Board!Receive
<1>10. ~ Board!LookupMisses(v) /\ ~ Board!InsertEvent(v) /\ ~ Board!InsertFails(v)
         /\ ~ Board!LoadFinds(v) /\ ~ Board!WriteEvent(v)
  BY <1>2, <1>8
     DEF Board!LookupMisses, Board!InsertEvent, Board!InsertFails, Board!LoadFinds, Board!WriteEvent
<1>11. v = w
  BY <1>3, <1>8, <1>9, <1>10
  DEF Board!Proceed, Board!Replay, Board!Reread, Board!LoadMisses, Board!RefuseWindow,
      Board!Respond, Board!Fail
<1> QED BY <1>4, <1>5, <1>6, <1>7, <1>8, <1>9, <1>10, <1>11 DEF Board!Proceed

\* Whoever posts with a key, alone or against a concurrent retry, is answered with
\* the one event that its tenant has under that key, and never with a conflict
\* (events.py 137-151, 187-199).
LEMMA KeysOfTheBoard ==
    ASSUME Board!EventsAssumption PROVE Board!Spec => Board!KeyNamesOneEvent
<1>1. BoardInv /\ [Board!Next]_Board!vars =>
        [\A w \in Workers : answer'.to = w => RightlyNamed(w)]_Board!vars
  BY AnswerNames
<1>2. [\A w \in Workers : answer'.to = w => RightlyNamed(w)]_Board!vars =>
        [\A w \in Workers : answer'.to = w =>
           /\ answer'.code # "conflict"
           /\ answer'.code = "created" /\ request[w].key # NoKey =>
                Board!WithKey(Len(events), request[w]) = {answer'.event}]_Board!vars
  BY DEF RightlyNamed
<1> QED BY <1>1, <1>2, BoardInvAlways, PTL DEF Board!Spec, Board!KeyNamesOneEvent

-----------------------------------------------------------------------------
(* What a PATCH writes. *)

\* The one step that changes an event.
LEMMA OnlyWritesChange ==
    ASSUME BoardInv, [Board!Next]_Board!vars, NEW i \in Board!Ids, events'[i] # events[i]
    PROVE  \E w \in Workers : Board!WriteEvent(w)
<1>1. ASSUME NEW w \in Workers, Board!InsertEvent(w) PROVE events'[i] = events[i]
  <2> PICK new : events' = Append(events, new)
    BY <1>1 DEF Board!InsertEvent
  <2> QED BY DEF BoardInv, BoardTyped, Board!Ids
<1>2. ASSUME NEW w \in Workers, Board!Arrive(w) \/ Board!Fail(w) PROVE events' = events
  BY <1>2 DEF Board!Arrive, Board!StartCreate, Board!StartPatch, Board!StartDelete,
              Board!Receive, Board!Fail
<1>3. ASSUME NEW w \in Workers, Board!Proceed(w)
      PROVE  events' = events \/ Board!InsertEvent(w) \/ Board!WriteEvent(w)
  BY <1>3
  DEF Board!Proceed, Board!Replay, Board!LookupMisses, Board!InsertFails, Board!Reread,
      Board!LoadMisses, Board!LoadFinds, Board!RefuseWindow, Board!Respond
<1>4. CASE UNCHANGED Board!vars
  BY <1>4 DEF Board!vars
<1> QED BY <1>1, <1>2, <1>3, <1>4 DEF Board!Next

\* A cancelled event is opened again only by a PATCH that asks for a status, never
\* by one of other columns that loaded the event before it was cancelled
\* (events.py 380-382, 410-411).
LEMMA ReopeningOfTheBoard ==
    ASSUME Board!EventsAssumption PROVE Board!Spec => Board!ReopenedOnlyOnRequest
<1>1. ASSUME BoardInv, [Board!Next]_Board!vars, NEW i \in Board!Ids,
             events[i].event.status = "cancelled", events'[i].event.status # "cancelled"
      PROVE  \E w \in Workers : /\ target[w] = i /\ request[w].op = "patch"
                                /\ "status" \in Board!Named(w)
  <2>1. PICK w \in Workers : Board!WriteEvent(w)
    BY <1>1, OnlyWritesChange
  <2>2. /\ target[w] = i /\ request[w] \in Edits
        /\ events'[i].event = [c \in Board!Columns |->
                                  IF c \in Board!Written(w) THEN Board!Merged(w)[c]
                                                             ELSE events[i].event[c]]
    <3>1. i = target[w]
      BY <1>1, <2>1, WriteEngages
    <3> QED BY <1>1, <2>1, <3>1, WriteEngages
  <2>3. "status" \in Board!Written(w) /\ events'[i].event["status"] = Board!Merged(w)["status"]
    BY <1>1, <2>2 DEF Board!Columns
  <2>4. "status" \in Board!Named(w) /\ events'[i].event.status = request[w].patch.status
    BY <2>3 DEF Board!Written, Board!Merged, Board!Columns
  <2>5. request[w].op = "patch"
    BY <1>1, <2>2, <2>4 DEF Edits, Board!Cancellation
  <2> QED BY <2>2, <2>4, <2>5
<1>2. BoardInv /\ [Board!Next]_Board!vars =>
        [\A i \in Board!Ids : events[i].event.status = "cancelled"
                            /\ events'[i].event.status # "cancelled" =>
           \E w \in Workers : /\ target[w] = i /\ request[w].op = "patch"
                              /\ "status" \in Board!Named(w)]_Board!vars
  BY <1>1
<1> QED BY <1>2, BoardInvAlways, PTL DEF Board!Spec, Board!ReopenedOnlyOnRequest

\* A PATCH that writes to the times it loaded leaves end_time > start_time, whichever
\* of the two it names (events.py 374-378).
LEMMA WindowsOfTheBoard ==
    ASSUME Board!EventsAssumption PROVE Board!Spec => Board!UnracedPatchKeepsWindow
<1>1. ASSUME BoardInv, [Board!Next]_Board!vars, NEW w \in Workers,
             doing[w] = "write", doing'[w] = "refresh", request[w].op = "patch",
             events[target[w]].event.start = loaded[w].start,
             events[target[w]].event.end = loaded[w].end
      PROVE  Board!WindowIsSound(events'[target[w]].event)
  <2>1. Board!WriteEvent(w)
    <3>1. ASSUME NEW v \in Workers, NEW label, v # w, Board!Goto(v, label) PROVE FALSE
      BY <1>1, <3>1 DEF Board!Goto, BoardInv, BoardTyped
    <3>2. ASSUME NEW v \in Workers, NEW c, NEW i, Board!Finish(v, c, i) PROVE FALSE
      BY <1>1, <3>2 DEF Board!Finish, BoardInv, BoardTyped, Board!Idle
    <3> QED BY <1>1, <3>1, <3>2, ZenonT(60)
      DEF Board!Next, Board!vars, Board!Arrive, Board!Proceed, Board!StartCreate, Board!StartPatch,
          Board!StartDelete, Board!Receive, Board!Replay,
          Board!LookupMisses, Board!InsertEvent, Board!InsertFails, Board!Reread, Board!LoadMisses,
            Board!LoadFinds, Board!RefuseWindow,
          Board!WriteEvent, Board!Respond, Board!Fail, Board!Idle
  <2> PICK row, new : row = events[target[w]].event /\ new = events'[target[w]].event
    OBVIOUS
  <2>2. new = [c \in Board!Columns |->
                 IF c \in Board!Written(w) THEN Board!Merged(w)[c] ELSE row[c]]
    <3>1. BoardInv
      BY <1>1
    <3> QED BY <2>1, <3>1, WriteEngages
  <2>3. Board!WindowIsSound(Board!Merged(w))
    BY <1>1, <2>1 DEF Board!WriteEvent, Board!MayWrite
  <2>4. \A c \in {"start", "end"} : row[c] = loaded[w][c]
    BY <1>1
  <2>5. \A c \in {"start", "end"} : new[c] = Board!Merged(w)[c]
    BY <2>2, <2>4 DEF Board!Written, Board!Merged, Board!Columns
  <2> QED BY <2>3, <2>5 DEF Board!WindowIsSound
<1>2. BoardInv /\ [Board!Next]_Board!vars =>
        [\A w \in Workers :
           LET row == events[target[w]].event
           IN  doing[w] = "write" /\ doing'[w] = "refresh" /\ request[w].op = "patch"
               /\ row.start = loaded[w].start /\ row.end = loaded[w].end =>
                   Board!WindowIsSound(events'[target[w]].event)]_Board!vars
  BY <1>1
<1> QED BY <1>2, BoardInvAlways, PTL DEF Board!Spec, Board!UnracedPatchKeepsWindow

-----------------------------------------------------------------------------
(* There is room for what is being created. *)

\* The requests that will add an event under no key, and the keys under which
\* others will add one.
Alone   == {w \in Board!Creating : request[w].key = NoKey}
Seekers == {w \in Board!Creating :
               request[w].key # NoKey /\ Board!WithKey(Len(events), request[w]) = {}}
Wanted  == {<<request[w].tenant, request[w].key>> : w \in Seekers}

RoomLeft == Len(events) + Cardinality(Alone) + Cardinality(Wanted) <= MaxEvents

\* The number of elements is the same in every module.
LEMMA SameCardinality == \A S : Board!Cardinality(S) = Cardinality(S)
BY DEF Board!Cardinality, Cardinality

\* Nobody adds two.
OneEachHolds ==
    /\ IsFiniteSet(Board!Creating) /\ IsFiniteSet(Alone) /\ IsFiniteSet(Wanted)
    /\ Cardinality(Board!Creating) \in Nat
    /\ Cardinality(Alone) \in Nat /\ Cardinality(Wanted) \in Nat
    /\ Cardinality(Alone) + Cardinality(Wanted) <= Cardinality(Board!Creating)

LEMMA OneEach == OneEachHolds
<1>1. IsFiniteSet(Board!Creating) /\ Cardinality(Board!Creating) \in Nat
  <2>1. Board!Creating \subseteq Workers
    BY DEF Board!Creating
  <2> QED BY <2>1, InvitationsAssumption, FS_Subset, FS_CardinalityType
<1>2. Alone \subseteq Board!Creating /\ Seekers \subseteq Board!Creating /\ Alone \cap Seekers = {}
  BY DEF Alone, Seekers
<1>3. /\ IsFiniteSet(Alone) /\ IsFiniteSet(Seekers)
      /\ Cardinality(Alone) \in Nat /\ Cardinality(Seekers) \in Nat
  BY <1>1, <1>2, FS_Subset, FS_CardinalityType
<1>4. /\ IsFiniteSet(Alone \cup Seekers)
      /\ Cardinality(Alone \cup Seekers) = Cardinality(Alone) + Cardinality(Seekers)
  <2>1. Cardinality(Alone \cap Seekers) = 0
    BY <1>2, FS_EmptySet
  <2>2. Cardinality(Alone \cup Seekers)
          = Cardinality(Alone) + Cardinality(Seekers) - Cardinality(Alone \cap Seekers)
    BY <1>3, FS_Union
  <2> QED BY <1>1, <1>2, <1>3, <2>1, <2>2, FS_Subset
<1>5. Cardinality(Alone \cup Seekers) <= Cardinality(Board!Creating)
  BY <1>1, <1>2, FS_Subset
<1>6. IsFiniteSet(Wanted) /\ Cardinality(Wanted) <= Cardinality(Seekers)
  <2> DEFINE pair == [w \in Seekers |-> <<request[w].tenant, request[w].key>>]
  <2>1. pair \in Surjection(Seekers, Wanted)
    BY DEF Surjection, Wanted
  <2> HIDE DEF pair
  <2> QED BY <1>3, <2>1, FS_Surjection
<1>7. Cardinality(Wanted) \in Nat
  BY <1>6, FS_CardinalityType
<1> QED BY <1>1, <1>3, <1>4, <1>5, <1>6, <1>7 DEF OneEachHolds

\* The same after a step.
LEMMA OneEachNext ==
    /\ IsFiniteSet(Board!Creating') /\ IsFiniteSet(Alone') /\ IsFiniteSet(Wanted')
    /\ Cardinality(Board!Creating') \in Nat
    /\ Cardinality(Alone') \in Nat /\ Cardinality(Wanted') \in Nat
    /\ Cardinality(Alone') + Cardinality(Wanted') <= Cardinality(Board!Creating')
<1>1. OneEachHolds'
  BY OneEach, PTL
<1> QED BY <1>1 DEF OneEachHolds

\* Where no event is added and nobody begins to add one, there is as much room.
LEMMA RoomStays ==
    ASSUME Board!EventsAssumption, BoardInv, RoomLeft, Grown, Len(events') = Len(events),
           Board!Creating' \subseteq Board!Creating,
           \A w \in Board!Creating' : request'[w] = request[w]
    PROVE  RoomLeft'
<1>1. \A w \in Board!Creating' :
          Board!WithKey(Len(events), request[w])' = Board!WithKey(Len(events), request[w])
  <2> TAKE w \in Board!Creating'
  <2> PICK n, r : n = Len(events) /\ r = request[w]
    OBVIOUS
  <2>1. n \in Nat /\ n <= Len(events)
    BY DEF BoardInv, BoardTyped
  <2>2. Board!WithKey(n, r)' = Board!WithKey(n, r)
    BY <2>1, SameWithKey DEF BoardInv, BoardTyped
  <2>3. Len(events') = n /\ request'[w] = r
    OBVIOUS
  <2> QED BY <2>2, <2>3
<1>2. Alone' \subseteq Alone /\ Seekers' \subseteq Seekers
  BY <1>1 DEF Alone, Seekers
<1>3. Wanted' \subseteq Wanted
  BY <1>2 DEF Wanted, Seekers
<1>4. Cardinality(Alone') <= Cardinality(Alone) /\ Cardinality(Wanted') <= Cardinality(Wanted)
  BY <1>2, <1>3, OneEach, FS_Subset DEF OneEachHolds
<1>5. Len(events) \in Nat /\ MaxEvents \in Nat
  BY DEF BoardInv, BoardTyped, Board!EventsAssumption
<1>6. /\ Len(events) \in Nat /\ Len(events') = Len(events)
      /\ Cardinality(Board!Creating) \in Nat /\ Cardinality(Board!Creating') \in Nat
      /\ Cardinality(Alone) \in Nat /\ Cardinality(Wanted) \in Nat
      /\ Cardinality(Alone') \in Nat /\ Cardinality(Wanted') \in Nat
      /\ Cardinality(Alone') + Cardinality(Wanted') <= Cardinality(Board!Creating')
  BY <1>5, OneEach, OneEachNext DEF OneEachHolds
<1> QED BY <1>4, <1>5, <1>6, SMTT(40) DEF RoomLeft

\* A POST is let in where there is room for it.
LEMMA CreatorHasRoom ==
    ASSUME Board!EventsAssumption, BoardInv, RoomLeft, NEW w \in Workers,
           NEW t \in Tenants, NEW k \in Keys \cup {NoKey}, NEW d \in Drafts,
           Board!StartCreate(w, t, k, d)
    PROVE  RoomLeft'
<1> PICK r : r = [op |-> "create", tenant |-> t, key |-> k, draft |-> d]
  OBVIOUS
<1>1. /\ Board!HasRoom(r) /\ doing[w] = "idle" /\ request' = [request EXCEPT ![w] = r]
      /\ UNCHANGED events /\ r.tenant = t /\ r.key = k
      /\ \E label \in {"lookup", "insert"} : doing' = [doing EXCEPT ![w] = label]
  BY DEF Board!StartCreate, Board!Receive, Board!Goto, Board!Idle
<1>2. w \notin Board!Creating /\ Board!Creating' = Board!Creating \cup {w}
  BY <1>1 DEF Board!Creating, BoardInv, BoardTyped
<1>3. request'[w] = r /\ \A v \in Board!Creating : request'[v] = request[v]
  BY <1>1, <1>2 DEF BoardInv, BoardTyped, Board!Creating
<1>4. \A v \in Workers : Board!WithKey(Len(events), request[v])'
                            = {i \in 1..Len(events) : /\ events[i].tenant = request'[v].tenant
                                                      /\ events[i].key = request'[v].key}
  BY <1>1 DEF Board!WithKey
<1>5. Len(events) \in Nat /\ MaxEvents \in Nat
  BY DEF BoardInv, BoardTyped, Board!EventsAssumption
<1>6. CASE Len(events) + Cardinality(Board!Creating) < MaxEvents
  <2>1. Cardinality(Board!Creating') = Cardinality(Board!Creating) + 1
    BY <1>2, OneEach, FS_AddElement DEF OneEachHolds
  <2>2. /\ Len(events) \in Nat /\ Len(events') = Len(events)
        /\ Cardinality(Board!Creating) \in Nat /\ Cardinality(Board!Creating') \in Nat
        /\ Cardinality(Alone) \in Nat /\ Cardinality(Wanted) \in Nat
        /\ Cardinality(Alone') \in Nat /\ Cardinality(Wanted') \in Nat
        /\ Cardinality(Alone') + Cardinality(Wanted') <= Cardinality(Board!Creating')
    BY <1>1, <1>5, OneEach, OneEachNext DEF OneEachHolds
  <2> QED BY <1>5, <1>6, <2>1, <2>2, SMTT(40) DEF RoomLeft
<1>7. CASE \/ k # NoKey /\ Board!WithKey(Len(events), r) # {}
           \/ k # NoKey /\ \E v \in Board!Creating : request[v].tenant = t /\ request[v].key = k
  <2>1. Alone' = Alone
    BY <1>1, <1>2, <1>3, <1>7 DEF Alone
  <2>2. \A v \in Board!Creating : v \in Seekers' <=> v \in Seekers
    BY <1>1, <1>2, <1>3 DEF Seekers, Board!WithKey
  <2>3. Wanted' \subseteq Wanted
    <3> SUFFICES ASSUME NEW v \in Seekers' PROVE <<request'[v].tenant, request'[v].key>> \in Wanted
      BY DEF Wanted
    <3>1. CASE v # w
      <4>1. v \in Board!Creating /\ v \in Seekers /\ request'[v] = request[v]
        BY <1>2, <1>3, <2>2, <3>1 DEF Seekers
      <4> QED BY <4>1 DEF Wanted
    <3>2. CASE v = w
      <4>1. Board!WithKey(Len(events), r) = {}
        BY <1>1, <1>3, <3>2 DEF Seekers, Board!WithKey
      <4>2. PICK u \in Board!Creating : request[u].tenant = t /\ request[u].key = k /\ k # NoKey
        BY <1>7, <4>1
      <4>3. u \in Seekers
        BY <1>1, <4>1, <4>2 DEF Seekers, Board!WithKey
      <4> QED BY <1>1, <1>3, <3>2, <4>2, <4>3 DEF Wanted
    <3> QED BY <3>1, <3>2
  <2>4. Cardinality(Wanted') <= Cardinality(Wanted)
    BY <2>3, OneEach, FS_Subset DEF OneEachHolds
  <2>5. /\ Len(events) \in Nat /\ Len(events') = Len(events)
        /\ Cardinality(Board!Creating) \in Nat /\ Cardinality(Board!Creating') \in Nat
        /\ Cardinality(Alone) \in Nat /\ Cardinality(Wanted) \in Nat
        /\ Cardinality(Alone') \in Nat /\ Cardinality(Wanted') \in Nat
        /\ Cardinality(Alone') + Cardinality(Wanted') <= Cardinality(Board!Creating')
    BY <1>1, <1>5, OneEach, OneEachNext DEF OneEachHolds
  <2> QED BY <1>5, <2>1, <2>4, <2>5, SMTT(40) DEF RoomLeft
<1>8. \/ Len(events) + Cardinality(Board!Creating) < MaxEvents
      \/ r.key # NoKey /\ Board!WithKey(Len(events), r) # {}
      \/ r.key # NoKey /\ \E v \in Board!Creating : /\ request[v].tenant = r.tenant
                                                   /\ request[v].key = r.key
  BY <1>1, SameCardinality DEF Board!HasRoom
<1> QED BY <1>1, <1>6, <1>7, <1>8

\* An event that is added takes the room of one request or of one key.
LEMMA InsertionTakesRoom ==
    ASSUME Board!EventsAssumption, BoardInv, RoomLeft, NEW w \in Workers, Board!InsertEvent(w)
    PROVE  RoomLeft'
<1> PICK r, n : r = request[w] /\ n = Len(events)
  OBVIOUS
<1>1. /\ doing[w] = "insert" /\ ~ Board!Collides(w) /\ UNCHANGED request
      /\ doing' = [doing EXCEPT ![w] = "refresh"]
      /\ events' = Append(events, [tenant |-> r.tenant, key |-> r.key, event |-> r.draft])
      /\ events \in Seq(Row) /\ n \in Nat
  BY DEF Board!InsertEvent, Board!Goto, BoardInv, BoardTyped
<1>2. w \in Board!Creating /\ Board!Creating' = Board!Creating \ {w}
  BY <1>1 DEF Board!Creating, BoardInv, BoardTyped
<1>3. /\ Len(events') = n + 1 /\ \A i \in 1..n : events'[i] = events[i]
      /\ events'[n + 1].tenant = r.tenant /\ events'[n + 1].key = r.key
  BY <1>1
<1>4. \A v \in Board!Creating' : v \in Seekers' =>
          v \in Seekers /\ ~ (request[v].tenant = r.tenant /\ request[v].key = r.key)
  <2> SUFFICES ASSUME NEW v \in Board!Creating', v \in Seekers'
               PROVE  v \in Seekers /\ ~ (request[v].tenant = r.tenant /\ request[v].key = r.key)
    OBVIOUS
  <2>1. /\ request[v].key # NoKey /\ v \in Board!Creating
        /\ \A i \in 1..n + 1 : ~ (events'[i].tenant = request[v].tenant
                                     /\ events'[i].key = request[v].key)
    BY <1>1, <1>2, <1>3 DEF Seekers, Board!WithKey
  <2>2. \A i \in 1..n : i \in 1..n + 1
    BY <1>1
  <2>3. Board!WithKey(n, request[v]) = {}
    BY <1>3, <2>1, <2>2 DEF Board!WithKey
  <2>4. n + 1 \in 1..n + 1
    BY <1>1
  <2> QED BY <1>3, <2>1, <2>3, <2>4 DEF Seekers
<1>5. Alone' = Alone \ {w} /\ Wanted' \subseteq Wanted \ {<<r.tenant, r.key>>}
  <2>1. Alone' = Alone \ {w}
    BY <1>1, <1>2 DEF Alone
  <2>2. ASSUME NEW v \in Seekers'
        PROVE  <<request'[v].tenant, request'[v].key>> \in Wanted \ {<<r.tenant, r.key>>}
    <3>1. v \in Seekers /\ ~ (request[v].tenant = r.tenant /\ request[v].key = r.key)
      BY <1>4 DEF Seekers
    <3> QED BY <1>1, <3>1 DEF Wanted
  <2> QED BY <2>1, <2>2 DEF Wanted
<1>6. MaxEvents \in Nat
  BY DEF Board!EventsAssumption
<1>7. CASE r.key = NoKey
  <2>1. w \in Alone
    BY <1>2, <1>7 DEF Alone
  <2>2. Cardinality(Alone') = Cardinality(Alone) - 1
    BY <1>5, <2>1, OneEach, FS_RemoveElement DEF OneEachHolds
  <2>3. Cardinality(Wanted') <= Cardinality(Wanted)
    BY <1>5, OneEach, FS_Subset DEF OneEachHolds
  <2>4. /\ Len(events) \in Nat /\ Len(events') = Len(events) + 1
        /\ Cardinality(Alone) \in Nat /\ Cardinality(Wanted) \in Nat
        /\ Cardinality(Alone') \in Nat /\ Cardinality(Wanted') \in Nat
    BY <1>1, <1>3, OneEach, OneEachNext DEF OneEachHolds
  <2> QED BY <1>6, <2>2, <2>3, <2>4, SMTT(40) DEF RoomLeft
<1>8. CASE r.key # NoKey
  <2>1. w \in Seekers
    BY <1>1, <1>2, <1>8 DEF Seekers, Board!Collides
  <2>2. <<r.tenant, r.key>> \in Wanted
    BY <2>1 DEF Wanted
  <2>3. /\ IsFiniteSet(Wanted \ {<<r.tenant, r.key>>})
        /\ Cardinality(Wanted \ {<<r.tenant, r.key>>}) = Cardinality(Wanted) - 1
    BY <2>2, OneEach, FS_RemoveElement DEF OneEachHolds
  <2>4. Cardinality(Wanted') <= Cardinality(Wanted) - 1
    BY <1>5, <2>3, FS_Subset
  <2>5. Cardinality(Alone') <= Cardinality(Alone)
    BY <1>5, OneEach, FS_Subset DEF OneEachHolds
  <2>6. /\ Len(events) \in Nat /\ Len(events') = Len(events) + 1
        /\ Cardinality(Alone) \in Nat /\ Cardinality(Wanted) \in Nat
        /\ Cardinality(Alone') \in Nat /\ Cardinality(Wanted') \in Nat
    BY <1>1, <1>3, OneEach, OneEachNext DEF OneEachHolds
  <2> QED BY <1>6, <2>4, <2>5, <2>6, SMTT(40) DEF RoomLeft
<1> QED BY <1>7, <1>8

-----------------------------------------------------------------------------
(* The types of the board. *)

\* Ids are of events that there are.
Addressed ==
    /\ \A w \in Workers : target[w] \in 0..Len(events)
    /\ answer.to \in Workers \cup {NoWorker}
    /\ answer.code \in {"none", "created", "ok", "not_found", "bad_window", "conflict", "error"}
    /\ answer.event \in 0..Len(events)

BoardSound == BoardInv /\ RoomLeft /\ Addressed

\* What an answer does to the types.
LEMMA FinishIsAddressed ==
    ASSUME BoardInv, Addressed, NEW w \in Workers, NEW i \in 0..Len(events),
           NEW c \in {"created", "ok", "not_found", "bad_window", "conflict", "error"},
           Board!Finish(w, c, i), UNCHANGED events
    PROVE  Addressed'
<1>1. /\ target' = [target EXCEPT ![w] = 0]
      /\ answer' = [to |-> w, code |-> c, event |-> i]
      /\ Len(events) \in Nat /\ events' = events
  BY DEF Board!Finish, Board!NoId, BoardInv, BoardTyped
<1>2. \A v \in Workers : target'[v] \in 0..Len(events)
  <2> TAKE v \in Workers
  <2>1. target \in [Workers -> Nat] /\ target[v] \in 0..Len(events)
    BY DEF Addressed, BoardInv, BoardTyped
  <2>2. target'[v] = 0 \/ target'[v] = target[v]
    BY <1>1, <2>1
  <2> QED BY <1>1, <2>1, <2>2
<1>3. Len(events') = Len(events)
  BY <1>1
<1> QED BY <1>1, <1>2, <1>3 DEF Addressed

\* What a step that answers nobody does to them.
LEMMA GotoIsAddressed ==
    ASSUME BoardInv, Addressed, NEW w \in Workers, NEW label, Board!Goto(w, label), Grown,
           \/ UNCHANGED target
           \/ \E i \in 0..Len(events') : target' = [target EXCEPT ![w] = i]
    PROVE  Addressed'
<1>1. /\ answer' = [to |-> NoWorker, code |-> "none", event |-> 0]
      /\ Len(events) \in Nat /\ Len(events') \in Nat /\ Len(events) <= Len(events')
  BY DEF Board!Goto, Board!NoReply, Board!NoId, BoardInv, BoardTyped, Grown
<1>2. \A v \in Workers : target'[v] \in 0..Len(events')
  <2> TAKE v \in Workers
  <2>1. target \in [Workers -> Nat] /\ target[v] \in 0..Len(events)
    BY DEF Addressed, BoardInv, BoardTyped
  <2>2. target'[v] \in 0..Len(events') \/ target'[v] = target[v]
    BY <2>1
  <2> QED BY <1>1, <2>1, <2>2
<1> QED BY <1>1, <1>2 DEF Addressed

LEMMA StepsAreAddressed ==
    ASSUME Board!EventsAssumption, BoardInv, Addressed, [Board!Next]_Board!vars
    PROVE  Addressed'
<1>1. Len(events) \in Nat /\ events \in Seq(Row) /\ 0 \in 0..Len(events)
  BY DEF BoardInv, BoardTyped
<1>2. ASSUME UNCHANGED events PROVE Grown
  BY <1>2, QuietBoard DEF BoardInv
<1>3. ASSUME NEW w \in Workers, Board!Arrive(w) PROVE Addressed'
  <2>1. PICK label : Board!Goto(w, label) /\ UNCHANGED <<events, target>>
    BY <1>3 DEF Board!Arrive, Board!StartCreate, Board!StartPatch, Board!StartDelete, Board!Receive
  <2> QED BY <1>2, <2>1, GotoIsAddressed
<1>4. ASSUME NEW w \in Workers, Board!LookupMisses(w) \/ Board!InsertFails(w) PROVE Addressed'
  <2>1. PICK label : Board!Goto(w, label) /\ UNCHANGED <<events, target>>
    BY <1>4 DEF Board!LookupMisses, Board!InsertFails
  <2> QED BY <1>2, <2>1, GotoIsAddressed
<1>5. ASSUME NEW w \in Workers,
             Board!LoadMisses(w) \/ Board!RefuseWindow(w) \/ Board!Fail(w)
      PROVE  Addressed'
  <2>1. /\ UNCHANGED events
        /\ \E c \in {"not_found", "bad_window", "error"} : Board!Finish(w, c, 0)
    BY <1>5 DEF Board!LoadMisses, Board!RefuseWindow, Board!Fail, Board!NoId
  <2> QED BY <1>1, <2>1, FinishIsAddressed
<1>6. ASSUME NEW w \in Workers, Board!Replay(w) \/ Board!Reread(w) PROVE Addressed'
  <2> PICK r, n : r = request[w] /\ n = eventView[w]
    OBVIOUS
  <2>1. /\ n \in Nat /\ n <= Len(events) /\ r.key # NoKey /\ Board!WithKey(n, r) # {}
        /\ UNCHANGED events /\ Board!Finish(w, "created", Board!First(Board!WithKey(n, r)))
    BY <1>6 DEF Board!Replay, Board!Reread, BoardInv, BoardTyped, Engaged
  <2>2. Board!First(Board!WithKey(n, r)) \in 0..Len(events)
    <3>1. Board!First(Board!WithKey(n, r)) \in Board!WithKey(Len(events), r)
      BY <2>1, FirstIsFound
    <3> QED BY <1>1, <3>1 DEF Board!WithKey
  <2> QED BY <2>1, <2>2, FinishIsAddressed
<1>7. ASSUME NEW w \in Workers, Board!Respond(w) PROVE Addressed'
  <2>1. PICK c, i : /\ c \in {"created", "ok"} /\ i = target[w]
                    /\ UNCHANGED events /\ Board!Finish(w, c, i)
    BY <1>7 DEF Board!Respond
  <2>2. i \in 0..Len(events)
    BY <2>1 DEF Addressed
  <2> QED BY <2>1, <2>2, FinishIsAddressed
<1>8. ASSUME NEW w \in Workers, Board!InsertEvent(w) PROVE Addressed'
  <2>1. /\ target' = [target EXCEPT ![w] = Len(events) + 1] /\ Board!Goto(w, "refresh")
        /\ \E new : events' = Append(events, new)
    BY <1>8 DEF Board!InsertEvent
  <2>2. BoardInv'
    BY <1>8, InsertEngages
  <2>3. Len(events') = Len(events) + 1 /\ \A i \in 1..Len(events) : events'[i] = events[i]
    BY <1>1, <2>1
  <2>4. Grown
    <3>1. Board!Ids = 1..Len(events) /\ Len(events) <= Len(events')
      BY <1>1, <2>3 DEF Board!Ids
    <3>2. events' \in Seq(Row)
      BY <2>2 DEF BoardInv, BoardTyped
    <3> QED BY <2>3, <3>1, <3>2 DEF Grown
  <2>5. Len(events) + 1 \in 0..Len(events')
    BY <1>1, <2>3
  <2> QED BY <2>1, <2>4, <2>5, GotoIsAddressed
<1>9. ASSUME NEW w \in Workers, Board!LoadFinds(w) PROVE Addressed'
  <2>1. /\ UNCHANGED events /\ Board!Goto(w, "write") /\ request[w].id \in Board!Ids
        /\ target' = [target EXCEPT ![w] = request[w].id]
    BY <1>9 DEF Board!LoadFinds, BoardInv, Engaged
  <2>2. request[w].id \in 0..Len(events')
    BY <1>1, <2>1 DEF Board!Ids
  <2> QED BY <1>2, <2>1, <2>2, GotoIsAddressed
<1>10. ASSUME NEW w \in Workers, Board!WriteEvent(w) PROVE Addressed'
  <2>1. Board!Goto(w, "refresh") /\ UNCHANGED target
    BY <1>10 DEF Board!WriteEvent
  <2>2. Grown
    BY <1>10, WriteEngages
  <2> QED BY <2>1, <2>2, GotoIsAddressed
<1>11. CASE UNCHANGED Board!vars
  BY <1>11 DEF Board!vars, Addressed
<1> QED BY <1>3, <1>4, <1>5, <1>6, <1>7, <1>8, <1>9, <1>10, <1>11 DEF Board!Next, Board!Proceed

LEMMA StepsLeaveRoom ==
    ASSUME Board!EventsAssumption, BoardInv, RoomLeft, [Board!Next]_Board!vars
    PROVE  RoomLeft'
<1>1. ASSUME UNCHANGED <<events, request>>, NEW w \in Workers, NEW label, Board!Goto(w, label),
             label \notin {"lookup", "insert"} \/ doing[w] \in {"lookup", "insert"}
      PROVE  RoomLeft'
  <2>1. Board!Creating' \subseteq Board!Creating
    BY <1>1 DEF Board!Goto, Board!Creating, BoardInv, BoardTyped
  <2>2. Grown
    BY <1>1, QuietBoard DEF BoardInv
  <2> QED BY <1>1, <2>1, <2>2, RoomStays
<1>2. ASSUME UNCHANGED events, NEW w \in Workers, NEW c, NEW i, Board!Finish(w, c, i)
      PROVE  RoomLeft'
  <2>1. /\ Board!Creating' \subseteq Board!Creating
        /\ \A v \in Board!Creating' : request'[v] = request[v]
    BY <1>2 DEF Board!Finish, Board!Idle, Board!Creating, BoardInv, BoardTyped
  <2>2. Grown
    BY <1>2, QuietBoard DEF BoardInv
  <2> QED BY <1>2, <2>1, <2>2, RoomStays
<1>3. ASSUME NEW w \in Workers, NEW t \in Tenants, NEW k \in Keys \cup {NoKey}, NEW d \in Drafts,
             Board!StartCreate(w, t, k, d)
      PROVE  RoomLeft'
  BY <1>3, CreatorHasRoom
<1>4. ASSUME NEW w \in Workers, NEW t \in Tenants, NEW i \in Board!Ids,
             Board!StartDelete(w, t, i) \/ \E p \in Patches : Board!StartPatch(w, t, i, p)
      PROVE  RoomLeft'
  <2>1. /\ doing[w] = "idle" /\ doing' = [doing EXCEPT ![w] = "load"] /\ UNCHANGED events
        /\ \E r : request' = [request EXCEPT ![w] = r]
    BY <1>4 DEF Board!StartDelete, Board!StartPatch, Board!Receive, Board!Goto, Board!Idle
  <2>2. /\ Board!Creating' = Board!Creating
        /\ \A v \in Board!Creating' : request'[v] = request[v]
    BY <2>1 DEF Board!Creating, BoardInv, BoardTyped
  <2>3. Grown
    BY <2>1, QuietBoard DEF BoardInv
  <2> QED BY <2>1, <2>2, <2>3, RoomStays
<1>5. ASSUME NEW w \in Workers, Board!LookupMisses(w) PROVE RoomLeft'
  <2>1. /\ doing[w] \in {"lookup", "insert"} /\ Board!Goto(w, "insert")
        /\ UNCHANGED <<events, request>>
    BY <1>5 DEF Board!LookupMisses
  <2> QED BY <1>1, <2>1
<1>6. ASSUME NEW w \in Workers, Board!InsertFails(w) \/ Board!LoadFinds(w) PROVE RoomLeft'
  <2>1. /\ UNCHANGED <<events, request>>
        /\ Board!Goto(w, "reread") \/ Board!Goto(w, "write")
    BY <1>6 DEF Board!InsertFails, Board!LoadFinds, Board!AfterRollback
  <2> QED BY <1>1, <2>1
<1>7. ASSUME NEW w \in Workers, Board!InsertEvent(w) PROVE RoomLeft'
  BY <1>7, InsertionTakesRoom
<1>8. ASSUME NEW w \in Workers,
             \/ Board!Replay(w) \/ Board!Reread(w) \/ Board!LoadMisses(w)
             \/ Board!RefuseWindow(w) \/ Board!Respond(w) \/ Board!Fail(w)
      PROVE  RoomLeft'
  <2>1. UNCHANGED events /\ \E c, i : Board!Finish(w, c, i)
    BY <1>8 DEF Board!Replay, Board!Reread, Board!LoadMisses, Board!RefuseWindow, Board!Respond,
                Board!Fail
  <2> QED BY <1>2, <2>1
<1>9. ASSUME NEW w \in Workers, Board!WriteEvent(w) PROVE RoomLeft'
  <2>1. Grown /\ Len(events') = Len(events)
    BY <1>9, WriteEngages
  <2>2. doing' = [doing EXCEPT ![w] = "refresh"] /\ UNCHANGED request
    BY <1>9 DEF Board!WriteEvent, Board!Goto
  <2>3. Board!Creating' \subseteq Board!Creating
    BY <2>2 DEF Board!Creating, BoardInv, BoardTyped
  <2> QED BY <2>1, <2>2, <2>3, RoomStays
<1>10. CASE UNCHANGED Board!vars
  <2>1. Grown /\ UNCHANGED <<events, request>> /\ Board!Creating' = Board!Creating
    BY <1>10, QuietBoard DEF Board!vars, BoardInv, Board!Creating
  <2> QED BY <2>1, RoomStays
<1> QED BY <1>3, <1>4, <1>5, <1>6, <1>7, <1>8, <1>9, <1>10
        DEF Board!Next, Board!Arrive, Board!Proceed

LEMMA BoardIsSound ==
    ASSUME Board!EventsAssumption
    PROVE  Board!Spec => []BoardSound
<1>1. Board!Init => RoomLeft /\ Addressed
  <2> SUFFICES ASSUME Board!Init PROVE RoomLeft /\ Addressed
    OBVIOUS
  <2>1. /\ Len(events) = 0 /\ answer = [to |-> NoWorker, code |-> "none", event |-> 0]
        /\ \A w \in Workers : target[w] = 0
    BY DEF Board!Init, Board!NoReply, Board!NoId
  <2>2. Board!Creating = {}
    BY DEF Board!Init, Board!Creating, Board!Idle
  <2>3. Alone = {} /\ Wanted = {}
    BY <2>2 DEF Alone, Seekers, Wanted
  <2>4. RoomLeft
    BY <2>1, <2>3, FS_EmptySet DEF RoomLeft, Board!EventsAssumption
  <2> QED BY <2>1, <2>4 DEF Addressed
<1>2. BoardInv /\ RoomLeft /\ Addressed /\ [Board!Next]_Board!vars => RoomLeft' /\ Addressed'
  BY StepsLeaveRoom, StepsAreAddressed
<1> QED BY <1>1, <1>2, BoardInvAlways, PTL DEF Board!Spec, BoardSound

LEMMA BoardTypes ==
    ASSUME Board!EventsAssumption, BoardSound
    PROVE  Board!TypeOK
<1>1. /\ events \in Seq([tenant : Tenants, key : Keys \cup {NoKey}, event : Board!Event])
      /\ Len(events) \in Nat
  BY DEF BoardSound, BoardInv, BoardTyped, Row
<1>2. Len(events) <= MaxEvents
  BY <1>1, OneEach DEF BoardSound, RoomLeft, OneEachHolds, Board!EventsAssumption
<1>3. \A w \in Workers :
         /\ doing[w] \in {"idle", "lookup", "insert", "reread", "load", "write", "refresh"}
         /\ request[w].op \in {"none", "create", "patch", "delete"}
         /\ eventView[w] \in 0..Len(events) /\ target[w] \in 0..Len(events)
         /\ loaded[w] \in Board!Event
  <2> TAKE w \in Workers
  <2>1. doing[w] \in BoardLabels /\ loaded[w] \in Board!Event
    BY DEF BoardSound, BoardInv, BoardTyped
  <2>2. request[w].op \in {"none", "create", "patch", "delete"}
    BY DEF BoardSound, BoardInv, BoardTyped, Board!NoRequest, Creations, Edits
  <2>3. eventView[w] \in 0..Len(events)
    BY <1>1 DEF BoardSound, BoardInv, BoardTyped, Engaged
  <2>4. target[w] \in 0..Len(events)
    BY DEF BoardSound, Addressed
  <2> QED BY <2>1, <2>2, <2>3, <2>4 DEF BoardLabels, Board!Idle
<1> QED BY <1>1, <1>2, <1>3 DEF BoardSound, Addressed, Board!TypeOK, Board!Idle

-----------------------------------------------------------------------------
(* The venue and its geofence. *)

\* A place as it is seen from another round the earth: the shorter way is within r
\* metres if and only if some step of at most r metres leads there.
LEMMA NearIsWithin ==
    ASSUME Halls!CircumferenceIsEven,
           NEW p \in Halls!Longitudes, NEW q \in Halls!Longitudes, NEW r \in Nat
    PROVE  Halls!Distance(p, q) <= r <=> Halls!Near(p, q, r)
<1>1. PICK c \in Nat \ {0} : c = Circumference /\ c % 2 = 0
  BY DEF Halls!CircumferenceIsEven
<1>2. PICK h \in Nat \ {0} : c = 2 * h /\ c \div 2 = h
  <2>1. c = 2 * (c \div 2) /\ c \div 2 \in Nat \ {0}
    BY <1>1
  <2> QED BY <2>1
<1>3. p \in -h .. h /\ q \in -h .. h
  BY <1>1, <1>2 DEF Halls!Longitudes, Halls!Antimeridian
<1> DEFINE abs == IF p - q < 0 THEN -(p - q) ELSE p - q
           way == IF abs <= h THEN abs ELSE c - abs
<1>4. Halls!Distance(p, q) = way
  BY <1>1, <1>2 DEF Halls!Distance, Halls!Abs, Halls!Antimeridian
<1>5. way \in Nat /\ way <= abs /\ way <= c - (p - q) /\ way <= c + (p - q)
  BY <1>2, <1>3
<1>6. ASSUME way <= r PROVE \E d \in -r .. r : (p + d - q) % c = 0
  <2>1. 0 % c = 0 /\ c % c = 0 /\ (-c) % c = 0
    OBVIOUS
  <2>2. CASE abs <= h
    <3>1. q - p \in -r .. r /\ p + (q - p) - q = 0
      BY <1>3, <1>6, <2>2
    <3> QED BY <2>1, <3>1
  <2>3. CASE ~ (abs <= h) /\ p - q >= 0
    <3>1. c - (p - q) \in -r .. r /\ p + (c - (p - q)) - q = c
      BY <1>3, <1>5, <1>6, <2>3
    <3> QED BY <2>1, <3>1
  <2>4. CASE ~ (abs <= h) /\ ~ (p - q >= 0)
    <3>1. -c - (p - q) \in -r .. r /\ p + (-c - (p - q)) - q = -c
      BY <1>2, <1>3, <1>5, <1>6, <2>4
    <3> QED BY <2>1, <3>1
  <2> QED BY <1>2, <1>3, <2>2, <2>3, <2>4
<1>7. ASSUME NEW d \in -r .. r, (p + d - q) % c = 0 PROVE way <= r
  <2>1. PICK x \in Int : x = p + d - q
    BY <1>3
  <2>2. PICK k \in Int : x = c * k
    <3>1. x = c * (x \div c) + (x % c) /\ x \div c \in Int
      BY <1>1
    <3>2. x % c = 0
      BY <1>7, <2>1
    <3>3. \A z \in Int : z + 0 = z
      OBVIOUS
    <3>4. x = c * (x \div c)
      <4>1. c * (x \div c) \in Int
        BY <3>1
      <4> QED BY <3>1, <3>2, <3>3, <4>1, Zenon
    <3> QED BY <3>1, <3>4
  <2>3. CASE k = 0
    <3>1. d = q - p
      BY <1>3, <2>1, <2>2, <2>3
    <3> QED BY <1>3, <1>5, <3>1
  <2>4. CASE k >= 1
    <3>1. c * k >= c
      <4>1. PICK j \in Nat : k = 1 + j
        <5>1. k - 1 \in Nat /\ k = 1 + (k - 1)
          BY <2>4
        <5> QED BY <5>1
      <4>2. c * k = c + c * j /\ c * j \in Nat
        BY <4>1
      <4> QED BY <4>2
    <3> QED BY <1>3, <1>5, <2>1, <2>2, <3>1
  <2>5. CASE k <= -1
    <3>1. c * k <= -c
      <4>1. PICK j \in Nat : k = -1 - j
        <5>1. -1 - k \in Nat /\ k = -1 - (-1 - k)
          BY <2>5
        <5> QED BY <5>1
      <4>2. c * k = -c - c * j /\ c * j \in Nat
        BY <4>1
      <4> QED BY <4>2
    <3> QED BY <1>3, <1>5, <2>1, <2>2, <3>1
  <2> QED BY <2>3, <2>4, <2>5
<1>8. Halls!Near(p, q, r) <=> \E d \in -r .. r : (p + d - q) % c = 0
  BY <1>1 DEF Halls!Near
<1> HIDE DEF way
<1> QED BY <1>4, <1>6, <1>7, <1>8

\* From 10 m to 5 km.
Sane == {r \in Nat : 10 <= r /\ r <= 5000}

\* A cap is sane.
LEMMA CapsAreSane ==
    ASSUME NEW raw \in Int
    PROVE  Halls!CapOf(raw) \in Sane
BY DEF Sane, Halls!CapOf, Halls!SmallestRadius, Halls!MaxGeofenceRadius, Halls!DefaultCap

\* The row holds coordinates on the earth, and a radius that a cap allowed.
HallSound ==
    /\ caps \subseteq Sane /\ cap \in caps
    /\ \/ venue = NoVenue
       \/ /\ venue.lat \in {NoCoord} \cup Halls!Longitudes
          /\ venue.lon \in {NoCoord} \cup Halls!Longitudes
          /\ \/ venue.radius = NoCoord
             \/ venue.radius \in Sane /\ \E c \in caps \cup {100} : venue.radius <= c

\* What is under a cap is under the widest.
LEMMA UpToACap ==
    ASSUME NEW c \in Sane, NEW r \in 10 .. c
    PROVE  r \in Sane /\ r <= c
BY DEF Sane

\* What the schemas let into a column.
LEMMA WhatIsAccepted ==
    ASSUME NEW p, Halls!CoordinateAccepted(p.lat), Halls!CoordinateAccepted(p.lon),
           Halls!RadiusAccepted(p.radius, cap), cap \in Sane
    PROVE  /\ p.lat = Omitted \/ p.lat \in {NoCoord} \cup Halls!Longitudes
           /\ p.lon = Omitted \/ p.lon \in {NoCoord} \cup Halls!Longitudes
           /\ \/ p.radius = Omitted \/ p.radius = NoCoord
              \/ p.radius \in Sane /\ p.radius <= cap
<1>1. CASE p.radius \in {Omitted, NoCoord}
  BY <1>1 DEF Halls!CoordinateAccepted
<1>2. CASE p.radius \in 10 .. cap
  <2>1. p.radius \in Sane /\ p.radius <= cap
    BY <1>2, UpToACap
  <2> QED BY <2>1 DEF Halls!CoordinateAccepted
<1> QED BY <1>1, <1>2 DEF Halls!RadiusAccepted, Halls!SmallestRadius

LEMMA HallStep ==
    ASSUME Halls!VenuesAssumption, HallSound, [Halls!Next]_Halls!vars
    PROVE  HallSound'
<1>1. cap \in Sane /\ cap \in caps
  BY DEF HallSound
<1>2. ASSUME NEW p \in Payloads, Halls!Create(p) PROVE HallSound'
  <2>1. /\ p.lat = Omitted \/ p.lat \in {NoCoord} \cup Halls!Longitudes
        /\ p.lon = Omitted \/ p.lon \in {NoCoord} \cup Halls!Longitudes
        /\ \/ p.radius = Omitted \/ p.radius = NoCoord
           \/ p.radius \in Sane /\ p.radius <= cap
    BY <1>1, <1>2, WhatIsAccepted DEF Halls!Create, Halls!CreateAccepted
  <2>2. /\ venue'.lat = IF p.lat = Omitted THEN NoCoord ELSE p.lat
        /\ venue'.lon = IF p.lon = Omitted THEN NoCoord ELSE p.lon
        /\ venue'.radius = IF p.radius = Omitted THEN 100 ELSE p.radius
        /\ UNCHANGED <<cap, caps>>
    BY <1>2 DEF Halls!Create, Halls!Created, Halls!Or, Halls!DefaultRadius
  <2>3. \/ venue'.radius = NoCoord
        \/ venue'.radius \in Sane /\ \E c \in caps \cup {100} : venue'.radius <= c
    <3>1. 100 \in Sane /\ 100 \in caps \cup {100} /\ 100 <= 100
      BY DEF Sane
    <3> QED BY <1>1, <2>1, <2>2, <3>1
  <2> QED BY <2>1, <2>2, <2>3 DEF HallSound, Halls!Longitudes, Halls!Antimeridian
<1>3. ASSUME NEW p \in Payloads, Halls!Update(p) PROVE HallSound'
  <2>1. /\ p.lat = Omitted \/ p.lat \in {NoCoord} \cup Halls!Longitudes
        /\ p.lon = Omitted \/ p.lon \in {NoCoord} \cup Halls!Longitudes
        /\ \/ p.radius = Omitted \/ p.radius = NoCoord
           \/ p.radius \in Sane /\ p.radius <= cap
    BY <1>1, <1>3, WhatIsAccepted DEF Halls!Update, Halls!UpdateAccepted
  <2>2. /\ venue'.lat = IF p.lat = Omitted THEN venue.lat ELSE p.lat
        /\ venue'.lon = IF p.lon = Omitted THEN venue.lon ELSE p.lon
        /\ venue'.radius = IF p.radius = Omitted THEN venue.radius ELSE p.radius
        /\ UNCHANGED <<cap, caps>> /\ venue # NoVenue
    BY <1>3 DEF Halls!Update, Halls!Merged, Halls!Or
  <2>3. \/ venue'.radius = NoCoord
        \/ venue'.radius \in Sane /\ \E c \in caps \cup {100} : venue'.radius <= c
    BY <1>1, <2>1, <2>2 DEF HallSound
  <2> QED BY <2>1, <2>2, <2>3 DEF HallSound, Halls!Longitudes, Halls!Antimeridian
<1>4. ASSUME NEW at \in Submissions, Halls!Locate(at) PROVE HallSound'
  BY <1>4 DEF Halls!Locate, HallSound, Halls!Longitudes, Halls!Antimeridian
<1>5. ASSUME NEW raw \in RawCaps, Halls!Restart(raw) PROVE HallSound'
  <2>1. cap' \in Sane /\ caps' = caps \cup {cap'} /\ UNCHANGED venue
    BY <1>5, CapsAreSane DEF Halls!Restart, Halls!VenuesAssumption
  <2> QED BY <2>1 DEF HallSound, Halls!Longitudes, Halls!Antimeridian
<1>6. CASE UNCHANGED Halls!vars
  BY <1>6 DEF Halls!vars, HallSound, Halls!Longitudes, Halls!Antimeridian
<1> QED BY <1>2, <1>3, <1>4, <1>5, <1>6 DEF Halls!Next

LEMMA HallIsSound ==
    ASSUME Halls!VenuesAssumption
    PROVE  Halls!Spec => []HallSound
<1>1. Halls!Init => HallSound
  <2> SUFFICES ASSUME Halls!Init PROVE HallSound
    OBVIOUS
  <2>1. cap \in Sane
    BY CapsAreSane DEF Halls!Init, Halls!VenuesAssumption
  <2> QED BY <2>1 DEF Halls!Init, HallSound
<1>2. HallSound /\ [Halls!Next]_Halls!vars => HallSound'
  BY HallStep
<1> QED BY <1>1, <1>2, PTL DEF Halls!Spec

LEMMA HallTypes ==
    ASSUME HallSound
    PROVE  Halls!TypeOK
<1>1. caps \subseteq Nat /\ cap \in caps
  BY DEF HallSound, Sane
<1>2. venue # NoVenue => venue.radius \in {NoCoord} \cup Nat
  BY DEF HallSound, Sane
<1> QED BY <1>1, <1>2 DEF HallSound, Halls!TypeOK

LEMMA RadiusIsWithin ==
    ASSUME HallSound
    PROVE  Halls!RadiusWithinACap
<1> SUFFICES ASSUME venue # NoVenue
             PROVE  \E c \in caps \cup {100} : Halls!EffectiveRadius(venue) <= c
  BY DEF Halls!RadiusWithinACap, Halls!DefaultRadius
<1>1. CASE venue.radius \in {NoCoord, 0}
  BY <1>1 DEF Halls!EffectiveRadius, Halls!DefaultRadius
<1>2. CASE venue.radius \notin {NoCoord, 0}
  BY <1>2 DEF HallSound, Halls!EffectiveRadius
<1> QED BY <1>1, <1>2

\* What the door answers is where the attendee is.
LEMMA VerdictsAreRight ==
    ASSUME Halls!VenuesAssumption, HallSound, NEW at \in Submissions, venue # NoVenue
    PROVE  Halls!VerifyDistance(at, venue) = "passed" <=>
              /\ Halls!Located(at) /\ Halls!Located(venue)
              /\ Halls!Near(at.lon, venue.lon, Halls!EffectiveRadius(venue))
<1>1. Halls!EffectiveRadius(venue) \in Sane
  BY DEF Sane, HallSound, Halls!EffectiveRadius, Halls!DefaultRadius
<1>2. Halls!UsableRadius(Halls!EffectiveRadius(venue)) /\ Halls!EffectiveRadius(venue) \in Nat
  BY <1>1 DEF Sane, Halls!UsableRadius, Halls!MaxGeofenceRadius
<1>3. CASE ~ Halls!Located(at) \/ ~ Halls!Located(venue)
  BY <1>3 DEF Halls!VerifyDistance
<1>4. CASE Halls!Located(at) /\ Halls!Located(venue)
  <2>1. at.lon \in Halls!Longitudes /\ venue.lon \in Halls!Longitudes
    BY <1>4 DEF Halls!Located, HallSound, Halls!VenuesAssumption
  <2>2. Halls!VerifyDistance(at, venue) = "passed" <=>
           Halls!Distance(at.lon, venue.lon) <= Halls!EffectiveRadius(venue)
    BY <1>2, <1>4, <2>1 DEF Halls!VerifyDistance
  <2> QED BY <1>2, <1>4, <2>1, <2>2, NearIsWithin DEF Halls!VenuesAssumption
<1> QED BY <1>3, <1>4

LEMMA VerdictsStayRight ==
    ASSUME Halls!VenuesAssumption
    PROVE  Halls!Spec => Halls!VerdictIsNearness
<1> DEFINE Right == verdict'.answer # "none" =>
              (verdict'.answer = "passed" <=>
                  /\ Halls!Located(verdict'.at) /\ Halls!Located(venue)
                  /\ Halls!Near(verdict'.at.lon, venue.lon, Halls!EffectiveRadius(venue)))
<1>1. ASSUME HallSound, [Halls!Next]_Halls!vars PROVE [Right]_Halls!vars
  <2>1. CASE UNCHANGED Halls!vars
    BY <2>1
  <2>2. CASE \E at \in Submissions : Halls!Locate(at)
    <3>1. PICK at \in Submissions : Halls!Locate(at)
      BY <2>2
    <3>2. /\ verdict'.at = at /\ verdict'.answer = Halls!VerifyDistance(at, venue)
          /\ venue # NoVenue
      BY <3>1 DEF Halls!Locate
    <3> QED BY <1>1, <3>2, VerdictsAreRight
  <2>3. CASE \/ \E p \in Payloads : Halls!Create(p) \/ Halls!Update(p)
             \/ \E raw \in RawCaps : Halls!Restart(raw)
    <3>1. verdict' = Halls!NoVerdict
      BY <2>3 DEF Halls!Create, Halls!Update, Halls!Restart
    <3> QED BY <3>1 DEF Halls!NoVerdict
  <2> QED BY <1>1, <2>1, <2>2, <2>3 DEF Halls!Next
<1>2. HallSound /\ [Halls!Next]_Halls!vars => [Right]_Halls!vars
  BY <1>1
<1> QED BY <1>2, HallIsSound, PTL DEF Halls!Spec, Halls!VerdictIsNearness

-----------------------------------------------------------------------------
(* The three together. *)

\* A step of all of them is a step or a stutter of each.
LEMMA StepsOfEach ==
    ASSUME [AllNext]_allVars
    PROVE  /\ [Next]_vars
           /\ [Board!Next]_Board!vars
           /\ [Halls!Next]_Halls!vars
<1>1. UNCHANGED boardVars => UNCHANGED Board!vars
  BY DEF boardVars, Board!vars
<1>2. UNCHANGED hallVars => UNCHANGED Halls!vars
  BY DEF hallVars, Halls!vars
<1>3. CASE AllNext
  BY <1>1, <1>2, <1>3 DEF AllNext
<1>4. CASE UNCHANGED allVars
  <2>1. UNCHANGED vars /\ UNCHANGED boardVars /\ UNCHANGED hallVars
    BY <1>4 DEF allVars
  <2> QED BY <1>1, <1>2, <2>1
<1> QED BY <1>3, <1>4

\* So a behaviour of all of them is a behaviour of each.
LEMMA BehavioursOfEach ==
    AllSpec => Spec /\ Board!Spec /\ Halls!Spec
<1>1. [AllNext]_allVars =>
        [Next]_vars /\ [Board!Next]_Board!vars /\ [Halls!Next]_Halls!vars
  BY StepsOfEach
<1>2. AllInit => Init /\ Board!Init /\ Halls!Init
  BY DEF AllInit
<1> QED BY <1>1, <1>2, PTL DEF AllSpec, Spec, Board!Spec, Halls!Spec

\* Every variable has its type: of the lists, of the table of events and its
\* requests, of the venue's row (models/event_invitation.py 17-27,
\* models/event.py 14-52).
THEOREM OrganizersTypeCorrect ==
    AllSpec => []AllTypeOK
<1>1. BoardSound => Board!TypeOK
  BY BoardTypes, OrganizersAssumption
<1>2. HallSound => Halls!TypeOK
  BY HallTypes
<1>3. Board!Spec => []BoardSound
  BY BoardIsSound, OrganizersAssumption
<1>4. Halls!Spec => []HallSound
  BY HallIsSound, OrganizersAssumption
<1> QED BY <1>1, <1>2, <1>3, <1>4, BehavioursOfEach, ListTypeCorrect, PTL DEF AllTypeOK

\* A key that an answer gave names one event for ever (events.py 137-151, 187-198).
THEOREM AKeyNamesOneEvent ==
    AllSpec => KeyNamesOneEvent
BY BehavioursOfEach, KeysOfTheBoard, OrganizersAssumption, PTL DEF KeyNamesOneEvent

\* A cancelled event is opened again only by a request that says so, however the
\* requests on it are interleaved (events.py 380-382, 410-411).
THEOREM NoStalePatchReopens ==
    AllSpec => ReopenedOnlyOnRequest
BY BehavioursOfEach, ReopeningOfTheBoard, OrganizersAssumption, PTL DEF ReopenedOnlyOnRequest

\* A PATCH whose times nobody else changed leaves the end after the start
\* (events.py 374-378).
THEOREM PatchKeepsWindow ==
    AllSpec => UnracedPatchKeepsWindow
BY BehavioursOfEach, WindowsOfTheBoard, OrganizersAssumption, PTL DEF UnracedPatchKeepsWindow

\* However often the process is started again, and under whatever values of
\* GEOFENCE_MAX_RADIUS_METERS, no geofence is wider than a cap that was in force
\* when the row was written, or than the default (schemas/event.py 19-30, 51, 92).
THEOREM NoFenceBeyondItsCap ==
    AllSpec => []RadiusWithinACap
<1>1. HallSound => Halls!RadiusWithinACap
  BY RadiusIsWithin
<1>2. Halls!Spec => []HallSound
  BY HallIsSound, OrganizersAssumption
<1> QED BY <1>1, <1>2, BehavioursOfEach, PTL DEF RadiusWithinACap

\* The geofence lets in exactly those whom a step of at most the radius brings to
\* the venue, the shorter way round the earth (geofence_service.py 28-44, 97-123).
THEOREM FenceIsNearness ==
    AllSpec => VerdictIsNearness
<1>1. Halls!Spec => Halls!VerdictIsNearness
  BY VerdictsStayRight, OrganizersAssumption
<1> QED BY <1>1, BehavioursOfEach, PTL DEF VerdictIsNearness

=============================================================================
