---------------------------- MODULE ServingProofs ----------------------------
(***************************************************************************)
(* Theorems about the threads, the connection pool and the lock of an      *)
(* events row, for any requests, threads, pool sizes, routes and restarts  *)
(* of the database.                                                        *)
(***************************************************************************)
EXTENDS Serving, FiniteSetTheorems, SequenceTheorems, TLAPS

-----------------------------------------------------------------------------
(* The shape of a route *)

\* What may follow what on the way through a handler.
Follows ==
    {<<"authenticate", "connect">>, <<"authenticate", "return">>,
     <<"connect", "lock">>, <<"connect", "commit">>, <<"connect", "release">>, <<"connect", "return">>,
     <<"lock", "commit">>,
     <<"commit", "connect">>, <<"commit", "return">>,
     <<"release", "answer">>,
     <<"return", "serialize">>}

\* Every lock is followed by a commit, and every way ends in an answer.
WellFormed(s) ==
    /\ s \in Seq(Steps)
    /\ \A i \in 1 .. (Len(s) - 1) : <<s[i], s[i+1]>> \in Follows
    /\ s # <<>> => s[Len(s)] \in {"serialize", "answer"}

\* What is left of a way after one of its steps, unless that was its last.
LEMMA RestIsWellFormed ==
    ASSUME NEW s, WellFormed(s), s # <<>>, Head(s) \notin {"serialize", "answer"}
    PROVE  /\ WellFormed(Tail(s)) /\ Tail(s) # <<>>
           /\ <<Head(s), Head(Tail(s))>> \in Follows
<1>1. s \in Seq(Steps) /\ Len(s) \in Nat /\ Len(s) >= 1 /\ Head(s) = s[1]
  BY DEF WellFormed
<1>2. Len(s) # 1
  BY <1>1 DEF WellFormed
<1>3. /\ Tail(s) \in Seq(Steps) /\ Len(Tail(s)) = Len(s) - 1
      /\ \A i \in 1 .. (Len(s) - 1) : Tail(s)[i] = s[i+1]
  BY <1>1, <1>2
<1>4. Tail(s) # <<>> /\ Head(Tail(s)) = s[2]
  <2>1. Len(Tail(s)) # 0 /\ Tail(s)[1] = s[2]
    BY <1>1, <1>2, <1>3
  <2>2. PICK t \in Seq(Steps) : t = Tail(s)
    BY <1>3
  <2>3. Len(t) # 0
    BY <2>1, <2>2
  <2>4. t # <<>> /\ Head(t) = t[1]
    BY <2>3
  <2> QED BY <2>1, <2>2, <2>4
<1>5. \A i \in 1 .. (Len(Tail(s)) - 1) : <<Tail(s)[i], Tail(s)[i+1]>> \in Follows
  BY <1>1, <1>2, <1>3 DEF WellFormed
<1>6. Tail(s)[Len(Tail(s))] \in {"serialize", "answer"}
  BY <1>1, <1>2, <1>3 DEF WellFormed
<1>7. <<s[1], s[2]>> \in Follows
  BY <1>1, <1>2 DEF WellFormed
<1> QED BY <1>1, <1>3, <1>4, <1>5, <1>6, <1>7 DEF WellFormed

\* A handler's own statements, between the authentication and the answer.
Handler(h) ==
    /\ h \in Seq(Steps)
    /\ \A i \in 1 .. (Len(h) - 1) : <<h[i], h[i+1]>> \in Follows
    /\ h # <<>> => h[1] = "connect" /\ h[Len(h)] \in {"connect", "commit"}

\* The authentication before them and the answer after them make a way of it.
LEMMA AuthenticatedIsWellFormed ==
    ASSUME NEW h, Handler(h)
    PROVE  /\ WellFormed(Authenticated(h)) /\ Authenticated(h) # <<>>
           /\ Head(Authenticated(h)) = "authenticate"
<1> DEFINE n == Len(h)
           s == Authenticated(h)
<1>1. n \in Nat /\ h \in Seq(Steps)
  BY DEF Handler
<1>2. /\ s \in Seq(Steps) /\ Len(s) = n + 3
      /\ s[1] = "authenticate"
      /\ \A i \in 1 .. n : s[i+1] = h[i]
      /\ s[n+2] = "return" /\ s[n+3] = "serialize"
  BY <1>1 DEF Authenticated, Steps
<1> HIDE DEF s
<1>3. s # <<>> /\ Head(s) = "authenticate"
  BY <1>1, <1>2
<1>4. ASSUME NEW i \in 1 .. (n + 2)
      PROVE  <<s[i], s[i+1]>> \in Follows
  <2>1. CASE n = 0
    BY <1>1, <1>2, <2>1 DEF Follows
  <2>2. CASE n # 0 /\ i = 1
    BY <1>1, <1>2, <2>2 DEF Follows, Handler
  <2>3. CASE n # 0 /\ i \in 2 .. n
    <3>1. s[i] = h[i-1] /\ s[i+1] = h[i] /\ i - 1 \in 1 .. (n - 1)
      BY <1>1, <1>2, <2>3
    <3> QED BY <3>1, <2>3 DEF Handler
  <2>4. CASE n # 0 /\ i = n + 1
    <3>1. s[i] = h[n] /\ s[i+1] = "return"
      BY <1>1, <1>2, <2>4
    <3> QED BY <3>1, <2>4, <1>1 DEF Handler, Follows
  <2>5. CASE i = n + 2
    BY <1>1, <1>2, <2>5 DEF Follows
  <2> QED BY <1>1, <2>1, <2>2, <2>3, <2>4, <2>5
<1>5. WellFormed(s)
  BY <1>1, <1>2, <1>3, <1>4 DEF WellFormed
<1> QED BY <1>3, <1>5 DEF s

\* Every route's ways are well formed, and none begins in a transaction.
LEMMA PathsAreWellFormed ==
    ASSUME NEW route \in Routes, NEW path \in Paths(route)
    PROVE  /\ WellFormed(path) /\ path # <<>>
           /\ Head(path) \in {"authenticate", "connect", "answer"}
<1>1. /\ Handler(<<>>) /\ Handler(<<"connect">>)
      /\ Handler(<<"connect", "lock", "commit">>)
      /\ Handler(<<"connect", "commit", "connect">>)
      /\ Handler(<<"connect", "lock", "commit", "connect">>)
      /\ Handler(<<"connect", "commit", "connect", "commit", "connect", "commit", "connect">>)
  BY DEF Handler, Steps, Follows
<1>2. /\ WellFormed(<<"connect", "release", "answer">>)
      /\ WellFormed(<<"answer">>)
  BY DEF WellFormed, Steps, Follows
<1>3. CASE route \in {"probe", "health"}
  BY <1>2, <1>3 DEF Paths, ProbePaths, HealthPaths
<1>4. CASE route \notin {"probe", "health"}
  <2>1. PICK h \in RegisterPaths \cup CheckinPaths \cup CancelPaths \cup UpdatePaths
                   \cup DeletePaths \cup ReadPaths : path = Authenticated(h)
    BY <1>4, RoutesKnown DEF Paths
  <2>2. Handler(h)
    BY <1>1 DEF RegisterPaths, CheckinPaths, CancelPaths, UpdatePaths, DeletePaths, ReadPaths
  <2> QED BY <2>1, <2>2, AuthenticatedIsWellFormed
<1> QED BY <1>3, <1>4

-----------------------------------------------------------------------------
(* The line for threads *)

\* The requests that wait for a thread.
Waiting == {line[i] : i \in 1 .. Len(line)}

\* Nobody is in line twice.
InLineOnce == \A i, j \in 1 .. Len(line) : line[i] = line[j] => i = j

\* Who goes to the end of the line waits from then on.
LEMMA LineGrows ==
    ASSUME line \in Seq(Requests), InLineOnce, NEW r \in Requests, r \notin Waiting,
           line' = Append(line, r)
    PROVE  line' \in Seq(Requests) /\ InLineOnce' /\ Waiting' = Waiting \cup {r}
<1>1. /\ line' \in Seq(Requests) /\ Len(line) \in Nat /\ Len(line') = Len(line) + 1
      /\ \A i \in 1 .. Len(line) : line'[i] = line[i]
      /\ line'[Len(line) + 1] = r
  OBVIOUS
<1>2. InLineOnce'
  BY <1>1 DEF InLineOnce, Waiting
<1>3. Waiting' = Waiting \cup {r}
  BY <1>1 DEF Waiting
<1> QED BY <1>1, <1>2, <1>3

\* Who is served first waits no more.
LEMMA LineShrinks ==
    ASSUME line \in Seq(Requests), InLineOnce, line # <<>>, line' = Tail(line)
    PROVE  /\ line' \in Seq(Requests) /\ InLineOnce' /\ Waiting' = Waiting \ {Head(line)}
           /\ Head(line) \in Waiting
<1>1. /\ line' \in Seq(Requests) /\ Len(line) \in Nat \ {0} /\ Len(line') = Len(line) - 1
      /\ \A i \in 1 .. (Len(line) - 1) : line'[i] = line[i+1]
      /\ Head(line) = line[1]
  OBVIOUS
<1>2. InLineOnce'
  BY <1>1 DEF InLineOnce
<1>3. Waiting' = Waiting \ {Head(line)}
  <2>1. ASSUME NEW x \in Waiting'
        PROVE  x \in Waiting \ {Head(line)}
    BY <1>1, <2>1 DEF Waiting, InLineOnce
  <2>2. ASSUME NEW x \in Waiting \ {Head(line)}
        PROVE  x \in Waiting'
    <3>1. PICK i \in 1 .. Len(line) : line[i] = x
      BY DEF Waiting
    <3>2. i # 1 /\ i - 1 \in 1 .. Len(line') /\ line'[i - 1] = x
      BY <1>1, <3>1
    <3> QED BY <3>2 DEF Waiting
  <2> QED BY <2>1, <2>2
<1>4. Head(line) \in Waiting
  BY <1>1 DEF Waiting
<1> QED BY <1>1, <1>2, <1>3, <1>4

-----------------------------------------------------------------------------
(* The invariant *)

\* The step that r does next.
Due(r) == Head(todo[r])

\* Every request in the process is in line or on a thread, and has a way to go.
Placed ==
    /\ \A r \in Requests : WellFormed(todo[r])
    /\ InLineOnce
    /\ Waiting \cap running = {}
    /\ Waiting \cup running = Busy

\* Where a request is in its way says what it may have in its hands: the lock
\* only between its statement and the commit, a connection only in a transaction
\* or behind the handler's return.
InHand(r) ==
    /\ conn[r] # "none" =>
          r \in Busy /\ Due(r) \in {"lock", "commit", "release", "return", "serialize"}
    /\ r \in Busy /\ Due(r) \in {"lock", "commit", "release"} =>
          conn[r] # "none" /\ r \in running
    /\ r \in Waiting /\ conn[r] # "none" => Due(r) = "serialize"
    /\ lock = r => r \in running /\ conn[r] = "works" /\ Due(r) = "commit"

Served == TypeOK /\ Placed /\ \A r \in Requests : InHand(r)

\* At first nobody is there.
LEMMA ServedInit == Init => Served
<1> SUFFICES ASSUME Init PROVE Served
  OBVIOUS
<1>1. TypeOK
  BY MaxRestartsNat DEF Init, TypeOK
<1>2. Placed
  BY DEF Init, Placed, WellFormed, InLineOnce, Waiting, Busy
<1>3. \A r \in Requests : InHand(r)
  BY RequestsFinite DEF Init, InHand, Busy
<1> QED BY <1>1, <1>2, <1>3 DEF Served

-----------------------------------------------------------------------------
(* How a request moves *)

\* A step of r changes neither the connection nor the lock of anybody else.
OthersKeep(r) ==
    /\ \A x \in Requests \ {r} : conn'[x] = conn[x]
    /\ \A x \in Requests \ {r} : lock' = x => lock = x

\* A request on a thread that ends with empty hands leaves everything in order.
LEMMA LeaveInOrder ==
    ASSUME Served, NEW r \in running, Leave(r), OthersKeep(r),
           conn'[r] = "none", lock' # r
    PROVE  Placed' /\ \A x \in Requests : InHand(x)'
<1>1. /\ r \in Requests /\ todo' = [todo EXCEPT ![r] = <<>>] /\ running' = running \ {r}
      /\ line' = line /\ todo \in [Requests -> Seq(Steps)]
  BY DEF Served, TypeOK, Leave
<1>2. Busy' = Busy \ {r} /\ Waiting' = Waiting
  BY <1>1 DEF Busy, Waiting
<1>3. \A x \in Requests \ {r} : todo'[x] = todo[x]
  BY <1>1
<1>4. WellFormed(<<>>)
  BY DEF WellFormed
<1>5. Placed'
  BY <1>1, <1>2, <1>3, <1>4 DEF Served, Placed, InLineOnce
<1>6. ASSUME NEW x \in Requests
      PROVE  InHand(x)'
  <2>1. CASE x = r
    BY <2>1, <1>1, <1>2, <1>5 DEF InHand, Placed
  <2>2. CASE x # r
    BY <2>2, <1>1, <1>2, <1>3 DEF Served, InHand, OthersKeep, Due
  <2> QED BY <2>1, <2>2
<1> QED BY <1>5, <1>6

\* What is in the hands of a request that goes on, and where it does.
LEMMA GoesOn ==
    ASSUME Served, NEW r \in running, Due(r) \notin {"serialize", "answer"},
           todo' = [todo EXCEPT ![r] = Tail(@)]
    PROVE  /\ r \in Requests /\ \A x \in Requests \ {r} : todo'[x] = todo[x]
           /\ todo' \in [Requests -> Seq(Steps)]
           /\ Busy' = Busy /\ r \in Busy
           /\ \A x \in Requests : WellFormed(todo[x])'
           /\ <<Due(r), Due(r)'>> \in Follows
<1>1. r \in Requests /\ r \in Busy /\ todo \in [Requests -> Seq(Steps)]
  BY DEF Served, TypeOK, Placed
<1>2. WellFormed(todo[r]) /\ todo[r] # <<>>
  BY <1>1 DEF Served, Placed, Busy
<1>3. /\ WellFormed(Tail(todo[r])) /\ Tail(todo[r]) # <<>>
      /\ <<Due(r), Head(Tail(todo[r]))>> \in Follows
  BY <1>2, RestIsWellFormed DEF Due
<1>4. todo'[r] = Tail(todo[r]) /\ \A x \in Requests \ {r} : todo'[x] = todo[x]
  BY <1>1
<1>5. Busy' = Busy
  BY <1>1, <1>2, <1>3, <1>4 DEF Busy
<1>6. todo' \in [Requests -> Seq(Steps)]
  BY <1>1, <1>3 DEF WellFormed
<1>7. \A x \in Requests : WellFormed(todo[x])'
  BY <1>3, <1>4 DEF Served, Placed
<1> QED BY <1>1, <1>3, <1>4, <1>5, <1>6, <1>7 DEF Due

\* A request that goes on upon its thread: its hands are as the step says.
LEMMA ProceedInOrder ==
    ASSUME Served, NEW r \in running, Proceed(r), Due(r) \notin {"serialize", "answer"},
           OthersKeep(r), InHand(r)'
    PROVE  Placed' /\ \A x \in Requests : InHand(x)'
<1>1. todo' = [todo EXCEPT ![r] = Tail(@)] /\ line' = line /\ running' = running
  BY DEF Proceed
<1>2. /\ \A x \in Requests \ {r} : todo'[x] = todo[x]
      /\ Busy' = Busy
      /\ \A x \in Requests : WellFormed(todo[x])'
  BY <1>1, GoesOn
<1>3. Waiting' = Waiting /\ InLineOnce' = InLineOnce
  BY <1>1 DEF Waiting, InLineOnce
<1>4. Placed'
  BY <1>1, <1>2, <1>3 DEF Served, Placed
<1>5. ASSUME NEW x \in Requests \ {r}
      PROVE  InHand(x)'
  BY <1>1, <1>2, <1>3 DEF Served, InHand, OthersKeep, Due
<1> QED BY <1>4, <1>5

\* A request that gives its thread up and stands in line.
LEMMA StandInLineInOrder ==
    ASSUME Served, NEW r \in running, StandInLine(r), Due(r) \in {"authenticate", "return"},
           UNCHANGED <<conn, lock>>
    PROVE  Placed' /\ (\A x \in Requests : InHand(x)') /\ line' \in Seq(Requests)
<1>1. /\ todo' = [todo EXCEPT ![r] = Tail(@)]
      /\ line' = Append(line, r) /\ running' = running \ {r}
  BY DEF StandInLine
<1>2. /\ \A x \in Requests \ {r} : todo'[x] = todo[x]
      /\ Busy' = Busy /\ r \in Busy /\ r \in Requests
      /\ \A x \in Requests : WellFormed(todo[x])'
      /\ <<Due(r), Due(r)'>> \in Follows
  BY <1>1, GoesOn
<1>3. line' \in Seq(Requests) /\ InLineOnce' /\ Waiting' = Waiting \cup {r}
  BY <1>1, <1>2, LineGrows DEF Served, TypeOK, Placed
<1>4. Placed'
  BY <1>1, <1>2, <1>3 DEF Served, Placed
<1>5. ASSUME NEW x \in Requests \ {r}
      PROVE  InHand(x)'
  BY <1>1, <1>2, <1>3 DEF Served, InHand, Due
<1>6. /\ Due(r) = "authenticate" => Due(r)' \in {"connect", "return"}
      /\ Due(r) = "return" => Due(r)' = "serialize"
  BY <1>2 DEF Follows
<1>7. InHand(r)'
  BY <1>1, <1>2, <1>3, <1>6 DEF Served, InHand
<1> QED BY <1>3, <1>4, <1>5, <1>7

-----------------------------------------------------------------------------
(* Every step *)

\* A session that ends gives its connection and its lock back.
LEMMA GiveBackKeeps ==
    ASSUME Served, NEW r \in running, NEW found \in BOOLEAN, GiveBack(r, found)
    PROVE  /\ OthersKeep(r) /\ conn'[r] = "none" /\ lock' # r
           /\ conn' \in [Requests -> {"none", "works", "dropped"}]
           /\ pooled' \in Nat /\ stale' \in Nat
           /\ lock' \in Requests \cup {NoRequest}
<1>1. r \in Requests /\ r # NoRequest
  BY RequestsFinite DEF Served, TypeOK
<1>2. conn' = [conn EXCEPT ![r] = "none"] /\ lock' = Unlocked(r)
  BY DEF GiveBack
<1>3. PICK idle \in {0, 1} :
         IF found THEN pooled' = pooled + stale + idle /\ stale' = 0
                  ELSE pooled' = pooled + idle /\ stale' = stale
  BY DEF GiveBack
<1>4. pooled' \in Nat /\ stale' \in Nat
  BY <1>3 DEF Served, TypeOK
<1>5. /\ conn'[r] = "none" /\ conn' \in [Requests -> {"none", "works", "dropped"}]
      /\ \A x \in Requests \ {r} : conn'[x] = conn[x]
  BY <1>1, <1>2 DEF Served, TypeOK
<1>6. /\ lock' # r /\ lock' \in Requests \cup {NoRequest}
      /\ \A x \in Requests : lock' = x => lock = x
  BY <1>1, <1>2, RequestsFinite DEF Served, TypeOK, Unlocked
<1> QED BY <1>4, <1>5, <1>6 DEF OthersKeep

\* A request that ends keeps the types of what places it.
LEMMA LeaveKeepsTypes ==
    ASSUME Served, NEW r \in running, Leave(r)
    PROVE  /\ todo' \in [Requests -> Seq(Steps)]
           /\ line' \in Seq(Requests) /\ running' \subseteq Requests
BY DEF Served, TypeOK, Leave

\* Whoever is on a thread and has nothing of the lock's way is not its holder.
LEMMA WithoutLock ==
    ASSUME Served, NEW r \in running, Due(r) # "commit"
    PROVE  lock # r
BY DEF Served, InHand, TypeOK

\* What a request does on its thread leaves the service in order.
LEMMA ServedWork ==
    ASSUME Served, NEW r \in Requests, Work(r)
    PROVE  Served'
<1> USE DEF At
<1>1. CASE Authenticate(r) \/ Return(r)
  <2>1. /\ r \in running /\ StandInLine(r) /\ Due(r) \in {"authenticate", "return"}
        /\ UNCHANGED <<conn, pooled, stale, lock, restarts, failed>>
    BY <1>1 DEF Authenticate, Return, Due
  <2>2. Placed' /\ (\A x \in Requests : InHand(x)') /\ line' \in Seq(Requests)
    BY <2>1, StandInLineInOrder
  <2>3. todo' \in [Requests -> Seq(Steps)] /\ running' \subseteq Requests
    BY <2>1, GoesOn DEF StandInLine, Served, TypeOK
  <2> QED BY <2>1, <2>2, <2>3 DEF Served, TypeOK
<1>2. CASE LockRow(r)
  <2>1. /\ r \in running /\ Due(r) = "lock" /\ conn[r] = "works" /\ Proceed(r)
        /\ lock' = r /\ LockFree(r)
        /\ UNCHANGED <<conn, pooled, stale, restarts, failed>>
    BY <1>2 DEF LockRow, Due
  <2>2. /\ todo' \in [Requests -> Seq(Steps)] /\ Busy' = Busy /\ r \in Busy
        /\ <<Due(r), Due(r)'>> \in Follows
    BY <2>1, GoesOn DEF Proceed
  <2>3. Due(r)' = "commit"
    BY <2>1, <2>2 DEF Follows
  <2>4. r \notin Waiting /\ Waiting' = Waiting
    BY <2>1 DEF Served, Placed, Proceed, Waiting
  <2>5. InHand(r)'
    BY <2>1, <2>2, <2>3, <2>4 DEF InHand, Proceed
  <2>6. OthersKeep(r)
    BY <2>1 DEF OthersKeep
  <2>7. Placed' /\ \A x \in Requests : InHand(x)'
    BY <2>1, <2>5, <2>6, ProceedInOrder
  <2> QED BY <2>1, <2>2, <2>7 DEF Served, TypeOK, Proceed
<1>3. CASE EndTransaction(r)
  <2>1. /\ r \in running /\ Due(r) \in {"commit", "release"} /\ GiveBack(r, FALSE) /\ Proceed(r)
        /\ UNCHANGED <<restarts, failed>>
    BY <1>3 DEF EndTransaction, Due
  <2>2. /\ todo' \in [Requests -> Seq(Steps)] /\ Busy' = Busy /\ r \in Busy
        /\ <<Due(r), Due(r)'>> \in Follows
    BY <2>1, GoesOn DEF Proceed
  <2>3. Due(r)' \in {"connect", "return", "answer"}
    BY <2>1, <2>2 DEF Follows
  <2>4. /\ OthersKeep(r) /\ conn'[r] = "none" /\ lock' # r
        /\ conn' \in [Requests -> {"none", "works", "dropped"}]
        /\ pooled' \in Nat /\ stale' \in Nat
        /\ lock' \in Requests \cup {NoRequest}
    BY <2>1, GiveBackKeeps
  <2>5. InHand(r)'
    BY <2>2, <2>3, <2>4 DEF InHand
  <2>6. Placed' /\ \A x \in Requests : InHand(x)'
    BY <2>1, <2>4, <2>5, ProceedInOrder
  <2> QED BY <2>1, <2>2, <2>4, <2>6 DEF Served, TypeOK, Proceed
<1>4. CASE Connect(r)
  <2>1. /\ r \in running /\ Due(r) = "connect" /\ Proceed(r)
        /\ conn' = [conn EXCEPT ![r] = "works"]
        /\ UNCHANGED <<stale, lock, restarts, failed>>
    BY <1>4 DEF Connect, Due
  <2>2. pooled' \in Nat
    BY <1>4 DEF Connect, Served, TypeOK
  <2>3. /\ todo' \in [Requests -> Seq(Steps)] /\ Busy' = Busy /\ r \in Busy
        /\ <<Due(r), Due(r)'>> \in Follows
    BY <2>1, GoesOn DEF Proceed
  <2>4. Due(r)' \in {"lock", "commit", "release", "return"}
    BY <2>1, <2>3 DEF Follows
  <2>5. r \notin Waiting /\ Waiting' = Waiting /\ lock # r
    BY <2>1, WithoutLock DEF Served, Placed, Proceed, Waiting
  <2>6. conn'[r] = "works" /\ OthersKeep(r)
    BY <2>1 DEF Served, TypeOK, OthersKeep
  <2>7. InHand(r)'
    BY <2>1, <2>3, <2>4, <2>5, <2>6 DEF InHand, Proceed
  <2>8. Placed' /\ \A x \in Requests : InHand(x)'
    BY <2>1, <2>6, <2>7, ProceedInOrder
  <2> QED BY <2>1, <2>2, <2>3, <2>8 DEF Served, TypeOK, Proceed
<1>5. CASE ConnectStale(r) \/ PoolTimeout(r) \/ Answer(r)
  <2>1. /\ r \in running /\ Due(r) \in {"connect", "answer"} /\ Leave(r)
        /\ UNCHANGED <<conn, lock, restarts>>
        /\ pooled' \in Nat /\ stale' \in Nat /\ failed' \in Nat
    BY <1>5 DEF ConnectStale, PoolTimeout, Answer, Due, Served, TypeOK
  <2>2. conn[r] = "none" /\ lock # r
    BY <2>1 DEF Served, InHand
  <2>3. Placed' /\ \A x \in Requests : InHand(x)'
    BY <2>1, <2>2, LeaveInOrder DEF OthersKeep
  <2> QED BY <2>1, <2>3, LeaveKeepsTypes DEF Served, TypeOK
<1>6. CASE FindDropped(r) \/ Serialize(r) \/ LockTimeout(r)
  <2>1. /\ r \in running /\ GiveBack(r, conn[r] = "dropped") /\ Leave(r)
        /\ UNCHANGED restarts /\ failed' \in Nat
    BY <1>6 DEF FindDropped, Serialize, LockTimeout, CloseSession, Served, TypeOK
  <2>2. /\ OthersKeep(r) /\ conn'[r] = "none" /\ lock' # r
        /\ conn' \in [Requests -> {"none", "works", "dropped"}]
        /\ pooled' \in Nat /\ stale' \in Nat
        /\ lock' \in Requests \cup {NoRequest}
    BY <2>1, GiveBackKeeps
  <2>3. Placed' /\ \A x \in Requests : InHand(x)'
    BY <2>1, <2>2, LeaveInOrder
  <2> QED BY <2>1, <2>2, <2>3, LeaveKeepsTypes DEF Served, TypeOK
<1> QED BY <1>1, <1>2, <1>3, <1>4, <1>5, <1>6 DEF Work

\* A refused request gives back what it has.
LEMMA ServedRefuse ==
    ASSUME Served, NEW r \in Requests, Refuse(r)
    PROVE  Served'
<1>1. /\ r \in running /\ GiveBack(r, conn[r] = "dropped") /\ Leave(r)
      /\ UNCHANGED restarts /\ failed' \in Nat
  BY DEF Refuse, CloseSession, Served, TypeOK
<1>2. /\ OthersKeep(r) /\ conn'[r] = "none" /\ lock' # r
      /\ conn' \in [Requests -> {"none", "works", "dropped"}]
      /\ pooled' \in Nat /\ stale' \in Nat
      /\ lock' \in Requests \cup {NoRequest}
  BY <1>1, GiveBackKeeps
<1>3. Placed' /\ \A x \in Requests : InHand(x)'
  BY <1>1, <1>2, LeaveInOrder
<1> QED BY <1>1, <1>2, <1>3, LeaveKeepsTypes DEF Served, TypeOK

\* A request that arrives stands at the end of the line, with empty hands.
LEMMA ServedArrive ==
    ASSUME Served, NEW r \in Requests, NEW route \in Routes, Arrive(r, route)
    PROVE  Served'
<1>1. /\ todo[r] = <<>> /\ line' = Append(line, r)
      /\ UNCHANGED <<running, conn, pooled, stale, lock, restarts, failed>>
  BY DEF Arrive
<1>2. PICK path \in Paths(route) : todo' = [todo EXCEPT ![r] = path]
  BY DEF Arrive
<1>3. /\ WellFormed(path) /\ path # <<>>
      /\ Head(path) \in {"authenticate", "connect", "answer"}
  BY PathsAreWellFormed
<1>4. /\ todo' \in [Requests -> Seq(Steps)] /\ todo'[r] = path
      /\ \A x \in Requests \ {r} : todo'[x] = todo[x]
  BY <1>2, <1>3 DEF Served, TypeOK, WellFormed
<1>5. r \notin Busy /\ Busy' = Busy \cup {r}
  BY <1>1, <1>3, <1>4 DEF Busy
<1>6. line' \in Seq(Requests) /\ InLineOnce' /\ Waiting' = Waiting \cup {r}
  BY <1>1, <1>5, LineGrows DEF Served, TypeOK, Placed
<1>7. Placed'
  BY <1>1, <1>3, <1>4, <1>5, <1>6 DEF Served, Placed
<1>8. \A x \in Requests \ {r} : InHand(x)'
  BY <1>1, <1>4, <1>5, <1>6 DEF Served, InHand, Due
<1>9. InHand(r)'
  <2>1. conn[r] = "none" /\ lock # r
    BY <1>5 DEF Served, InHand, Placed
  <2> QED BY <1>1, <1>3, <1>4, <2>1 DEF InHand, Due
<1> QED BY <1>1, <1>4, <1>6, <1>7, <1>8, <1>9 DEF Served, TypeOK

\* The first in line gets a thread.
LEMMA ServedTakeThread ==
    ASSUME Served, TakeThread
    PROVE  Served'
<1>1. /\ line # <<>> /\ line' = Tail(line) /\ running' = running \cup {Head(line)}
      /\ UNCHANGED <<todo, conn, pooled, stale, lock, restarts, failed>>
  BY DEF TakeThread
<1>2. /\ line' \in Seq(Requests) /\ InLineOnce' /\ Waiting' = Waiting \ {Head(line)}
      /\ Head(line) \in Waiting /\ Head(line) \in Requests
  BY <1>1, LineShrinks DEF Served, TypeOK, Placed, Busy
<1>3. Busy' = Busy
  BY <1>1 DEF Busy
<1>4. Placed'
  BY <1>1, <1>2, <1>3 DEF Served, Placed
<1>5. \A x \in Requests : InHand(x)'
  BY <1>1, <1>2, <1>3 DEF Served, InHand, Due
<1> QED BY <1>1, <1>2, <1>4, <1>5 DEF Served, TypeOK

\* A restart of the database drops connections, but takes nobody's away.
LEMMA ServedRestart ==
    ASSUME Served, Restart
    PROVE  Served'
<1>1. /\ conn' = [r \in Requests |-> IF r \in Holders THEN "dropped" ELSE "none"]
      /\ lock' = NoRequest /\ UNCHANGED <<todo, line, running>>
      /\ restarts' = restarts + 1 /\ restarts < MaxRestarts
      /\ failed' = 0 /\ pooled' = 0 /\ stale' = stale + pooled
  BY DEF Restart
<1>2. TypeOK'
  BY <1>1, MaxRestartsNat DEF Served, TypeOK
<1>3. Busy' = Busy /\ Waiting' = Waiting
  BY <1>1 DEF Busy, Waiting
<1>4. Placed'
  BY <1>1, <1>3 DEF Served, Placed, InLineOnce
<1>5. \A x \in Requests : InHand(x)'
  BY <1>1, <1>3, RequestsFinite DEF Served, InHand, Due, Holders
<1> QED BY <1>2, <1>4, <1>5 DEF Served

\* Every step leaves the service in order.
LEMMA ServedStep == Served /\ [Next]_vars => Served'
<1>1. ASSUME Served, UNCHANGED vars
      PROVE  Served'
  BY <1>1 DEF vars, Served, TypeOK, Placed, InHand, InLineOnce, Waiting, Busy, Due
<1> QED BY <1>1, ServedWork, ServedRefuse, ServedArrive, ServedTakeThread, ServedRestart DEF Next

\* The service is in order in every state.
LEMMA ServedAlways == Spec => []Served
BY ServedInit, ServedStep, PTL DEF Spec

-----------------------------------------------------------------------------
(* The pool *)

\* The connections that are out, those of them that a restart has dropped, and
\* whether an idle one may be.
Dropped   == {r \in Requests : conn[r] = "dropped"}
StaleIdle == IF stale > 0 THEN 1 ELSE 0

\* The connections there are, and the failures there have been since the last
\* restart with those that may still come, are within the pool's limits.
Counted ==
    /\ pooled + stale <= PoolSize
    /\ pooled + stale + Cardinality(Holders) <= MaxConnections
    /\ failed + Cardinality(Dropped) + StaleIdle <= MaxConnections

\* Connections that are out, or dropped, are finitely many.
LEMMA HoldersAreFinite ==
    ASSUME NEW S, S \subseteq Requests
    PROVE  IsFiniteSet(S) /\ Cardinality(S) \in Nat
BY RequestsFinite, FS_Subset, FS_CardinalityType

\* A set without one of its elements has one fewer.
LEMMA RemovedIsOneFewer ==
    ASSUME NEW S, IsFiniteSet(S), NEW x, NEW T, T = S \ {x}
    PROVE  Cardinality(T) = Cardinality(S) - (IF x \in S THEN 1 ELSE 0)
<1>1. Cardinality(S) \in Nat
  BY FS_CardinalityType
<1>2. Cardinality(S \ {x}) = IF x \in S THEN Cardinality(S) - 1 ELSE Cardinality(S)
  BY FS_RemoveElement
<1>3. CASE x \in S
  BY <1>2, <1>3
<1>4. CASE x \notin S
  BY <1>1, <1>2, <1>4
<1> QED BY <1>3, <1>4

\* What is counted where a session of r ends, or never had a connection.
LEMMA OneFewer ==
    ASSUME Served, NEW r \in Requests, conn' = [conn EXCEPT ![r] = "none"]
    PROVE  /\ Cardinality(Holders') = Cardinality(Holders) - (IF conn[r] # "none" THEN 1 ELSE 0)
           /\ Cardinality(Dropped') = Cardinality(Dropped) - (IF conn[r] = "dropped" THEN 1 ELSE 0)
<1>1. Holders' = Holders \ {r} /\ Dropped' = Dropped \ {r}
  BY DEF Served, TypeOK, Holders, Dropped
<1>2. /\ IsFiniteSet(Holders) /\ IsFiniteSet(Dropped)
      /\ Cardinality(Holders) \in Nat /\ Cardinality(Dropped) \in Nat
  BY HoldersAreFinite DEF Holders, Dropped
<1>3. /\ r \in Holders <=> conn[r] # "none"
      /\ r \in Dropped <=> conn[r] = "dropped"
  BY DEF Holders, Dropped
<1>4. PICK H, D : H = Holders' /\ D = Dropped'
  OBVIOUS
<1>5. /\ Cardinality(H) = Cardinality(Holders) - (IF r \in Holders THEN 1 ELSE 0)
      /\ Cardinality(D) = Cardinality(Dropped) - (IF r \in Dropped THEN 1 ELSE 0)
  BY <1>1, <1>2, <1>4, RemovedIsOneFewer
<1> QED BY <1>3, <1>4, <1>5

\* A session that ends leaves the pool within its limits, and a dropped
\* connection that is found out is one fewer to be found.
LEMMA GiveBackCounts ==
    ASSUME Served, Counted, NEW r \in Requests, GiveBack(r, conn[r] = "dropped"),
           failed' \in failed .. failed + (IF conn[r] = "dropped" THEN 1 ELSE 0)
    PROVE  Counted'
<1>1. /\ Cardinality(Holders') = Cardinality(Holders) - (IF conn[r] # "none" THEN 1 ELSE 0)
      /\ Cardinality(Dropped') = Cardinality(Dropped) - (IF conn[r] = "dropped" THEN 1 ELSE 0)
  BY OneFewer DEF GiveBack
<1>2. PICK idle : /\ idle = IF conn[r] # "none" /\ pooled + stale < PoolSize THEN 1 ELSE 0
                  /\ IF conn[r] = "dropped"
                     THEN pooled' = pooled + stale + idle /\ stale' = 0
                     ELSE pooled' = pooled + idle /\ stale' = stale
  BY DEF GiveBack
<1>3. Cardinality(Holders) \in Nat /\ Cardinality(Dropped) \in Nat
  BY HoldersAreFinite DEF Holders, Dropped
<1>4. /\ pooled \in Nat /\ stale \in Nat /\ failed \in Nat
      /\ PoolSize \in Nat /\ MaxConnections \in Nat
  BY ConnectionsNat DEF Served, TypeOK, MaxConnections
<1>5. /\ (pooled + stale)' <= PoolSize
      /\ (pooled + stale)' + Cardinality(Holders') <= MaxConnections
  BY <1>1, <1>2, <1>3, <1>4 DEF Counted
<1>6. failed' + Cardinality(Dropped') + StaleIdle' <= MaxConnections
  BY <1>1, <1>2, <1>3, <1>4 DEF Counted, StaleIdle
<1> QED BY <1>5, <1>6 DEF Counted, MaxConnections

\* What a request does on its thread keeps the counts.
LEMMA CountedWork ==
    ASSUME Served, Counted, NEW r \in Requests, Work(r)
    PROVE  Counted'
<1> USE DEF At
<1>1. CASE \/ Authenticate(r) \/ Return(r) \/ LockRow(r) \/ PoolTimeout(r) \/ Answer(r)
  <2>1. UNCHANGED <<conn, pooled, stale, failed>>
    BY <1>1 DEF Authenticate, Return, LockRow, PoolTimeout, Answer
  <2> QED BY <2>1 DEF Counted, Holders, Dropped, StaleIdle
<1>2. CASE EndTransaction(r)
  <2>1. conn[r] # "dropped" /\ GiveBack(r, FALSE) /\ failed' = failed
    BY <1>2 DEF EndTransaction
  <2>2. GiveBack(r, conn[r] = "dropped")
    BY <2>1 DEF GiveBack
  <2> QED BY <2>1, <2>2, GiveBackCounts DEF Served, TypeOK
<1>3. CASE FindDropped(r) \/ Serialize(r) \/ LockTimeout(r)
  BY <1>3, GiveBackCounts DEF FindDropped, Serialize, LockTimeout, CloseSession, Served, TypeOK
<1>4. CASE Connect(r)
  <2>1. conn[r] = "none" /\ conn' = [conn EXCEPT ![r] = "works"]
    BY <1>4 DEF Connect, Served, Placed, InHand, Due, TypeOK
  <2>2. Holders' = Holders \cup {r} /\ r \notin Holders /\ Dropped' = Dropped
    BY <2>1 DEF Served, TypeOK, Holders, Dropped
  <2>3. PICK H : H = Holders'
    OBVIOUS
  <2>4. IsFiniteSet(Holders) /\ Cardinality(Holders) \in Nat
    BY HoldersAreFinite DEF Holders
  <2>5. Cardinality(H) = Cardinality(Holders) + 1
    BY <2>2, <2>3, <2>4, FS_AddElement
  <2>6. \/ pooled > 0 /\ pooled' = pooled - 1
        \/ /\ pooled + stale = 0 /\ Cardinality(Holders) < MaxConnections
           /\ pooled' = pooled
    BY <1>4 DEF Connect
  <2>7. stale' = stale /\ failed' = failed
    BY <1>4 DEF Connect
  <2>8. /\ pooled \in Nat /\ stale \in Nat /\ PoolSize \in Nat /\ MaxConnections \in Nat
    BY ConnectionsNat DEF Served, TypeOK, MaxConnections
  <2>9. /\ (pooled + stale)' <= PoolSize
        /\ (pooled + stale)' + Cardinality(H) <= MaxConnections
    BY <2>4, <2>5, <2>6, <2>7, <2>8 DEF Counted
  <2> QED BY <2>2, <2>3, <2>7, <2>9 DEF Counted, StaleIdle, MaxConnections
<1>5. CASE ConnectStale(r)
  <2>1. /\ conn' = conn /\ stale > 0 /\ pooled' = pooled + stale /\ stale' = 0
        /\ failed' = failed + 1
    BY <1>5 DEF ConnectStale
  <2>2. Holders' = Holders /\ Dropped' = Dropped
    BY <2>1 DEF Holders, Dropped
  <2>3. Cardinality(Holders) \in Nat /\ Cardinality(Dropped) \in Nat
    BY HoldersAreFinite DEF Holders, Dropped
  <2>4. pooled \in Nat /\ stale \in Nat /\ failed \in Nat
    BY DEF Served, TypeOK
  <2> QED BY <2>1, <2>2, <2>3, <2>4 DEF Counted, StaleIdle, MaxConnections
<1> QED BY <1>1, <1>2, <1>3, <1>4, <1>5 DEF Work

\* A restart drops every connection there is: that is how many may fail.
LEMMA CountedRestart ==
    ASSUME Served, Counted, Restart
    PROVE  Counted'
<1>1. /\ conn' = [r \in Requests |-> IF r \in Holders THEN "dropped" ELSE "none"]
      /\ failed' = 0 /\ pooled' = 0 /\ stale' = stale + pooled
  BY DEF Restart
<1>2. Holders' = Holders /\ Dropped' = Holders
  BY <1>1 DEF Holders, Dropped
<1>3. Cardinality(Holders) \in Nat
  BY HoldersAreFinite DEF Holders
<1>4. /\ pooled \in Nat /\ stale \in Nat /\ PoolSize \in Nat /\ MaxConnections \in Nat
  BY ConnectionsNat DEF Served, TypeOK, MaxConnections
<1> QED BY <1>1, <1>2, <1>3, <1>4 DEF Counted, StaleIdle, MaxConnections

\* Every step keeps the counts.
LEMMA CountedStep == Served /\ Counted /\ [Next]_vars => Counted'
<1>1. ASSUME Counted, UNCHANGED <<conn, pooled, stale, failed>>
      PROVE  Counted'
  BY <1>1 DEF Counted, Holders, Dropped, StaleIdle
<1>2. ASSUME Counted, NEW r \in Requests, NEW route \in Routes, Arrive(r, route)
      PROVE  Counted'
  BY <1>1, <1>2 DEF Arrive
<1>3. ASSUME Served, Counted, NEW r \in Requests, Refuse(r)
      PROVE  Counted'
  BY <1>3, GiveBackCounts DEF Refuse, CloseSession, Served, TypeOK
<1>4. ASSUME Counted, TakeThread
      PROVE  Counted'
  BY <1>1, <1>4 DEF TakeThread
<1> QED BY <1>1, <1>2, <1>3, <1>4, CountedWork, CountedRestart DEF Next, vars

\* An engine that has not connected yet is within its limits.
LEMMA CountedInit == Init => Counted
<1> SUFFICES ASSUME Init PROVE Counted
  OBVIOUS
<1>1. Holders = {} /\ Dropped = {}
  BY DEF Init, Holders, Dropped
<1> QED BY <1>1, FS_EmptySet, ConnectionsNat DEF Init, Counted, StaleIdle, MaxConnections

\* The counts hold in every state.
LEMMA CountedAlways == Spec => []Counted
BY CountedInit, CountedStep, ServedAlways, PTL DEF Spec

-----------------------------------------------------------------------------
(* Theorems *)

\* The pool, the line and the lock fit together, whatever fails: there are never
\* more connections than the engine may open, nobody leaves the process with one,
\* and whoever has the lock has all it needs to commit (database.py 88-109,
\* registrations.py 249-292).
THEOREM PoolStaysSound == Spec => []PoolIsSound
<1>1. Served /\ Counted => PoolIsSound
  <2> SUFFICES ASSUME Served, Counted PROVE PoolIsSound
    OBVIOUS
  <2>1. TypeOK
    BY DEF Served
  <2>2. NoConnectionLost
    BY DEF Served, Counted, InHand, NoConnectionLost, Holders
  <2>3. LockHolderRuns
    BY <2>1 DEF Served, InHand, LockHolderRuns, TypeOK
  <2> QED BY <2>1, <2>2, <2>3 DEF PoolIsSound
<1> QED BY <1>1, ServedAlways, CountedAlways, PTL

\* A restart of the database fails at most as many requests as there can be
\* connections (database.py 88-95).
THEOREM FailuresAreBounded == Spec => []FailuresBounded
<1>1. Served /\ Counted => FailuresBounded
  <2> SUFFICES ASSUME Served, Counted PROVE FailuresBounded
    OBVIOUS
  <2>1. Cardinality(Dropped) \in Nat /\ StaleIdle \in Nat
    BY HoldersAreFinite DEF Dropped, StaleIdle
  <2> QED BY <2>1, ConnectionsNat DEF Served, TypeOK, Counted, FailuresBounded, MaxConnections
<1> QED BY <1>1, ServedAlways, CountedAlways, PTL

\* No more requests run than there are threads.
ThreadsSuffice == Cardinality(running) <= Threads

\* Only the first in line is given a thread, and only a free one.
LEMMA ThreadsStep == Served /\ ThreadsSuffice /\ [Next]_vars => ThreadsSuffice'
<1> SUFFICES ASSUME Served, ThreadsSuffice, [Next]_vars PROVE ThreadsSuffice'
  OBVIOUS
<1>1. IsFiniteSet(running) /\ Cardinality(running) \in Nat
  BY HoldersAreFinite DEF Served, TypeOK
<1>2. ASSUME running' \subseteq running
      PROVE  ThreadsSuffice'
  <2> PICK R : R = running'
    OBVIOUS
  <2>1. Cardinality(R) <= Cardinality(running) /\ Cardinality(R) \in Nat
    BY <1>1, <1>2, FS_Subset, FS_CardinalityType
  <2> QED BY <1>1, <2>1, ThreadsNat DEF ThreadsSuffice
<1>3. CASE TakeThread
  <2> PICK R : R = running'
    OBVIOUS
  <2>1. PICK r : R = running \cup {r} /\ Cardinality(running) < Threads
    BY <1>3 DEF TakeThread
  <2>2. Cardinality(R) = IF r \in running THEN Cardinality(running) ELSE Cardinality(running) + 1
    BY <1>1, <2>1, FS_AddElement
  <2> QED BY <1>1, <2>1, <2>2, ThreadsNat DEF ThreadsSuffice
<1>4. CASE ~ TakeThread
  BY <1>2, <1>4
  DEF vars, Next, Arrive, Work, Refuse, Restart, Authenticate, LockRow, EndTransaction,
      FindDropped, Return, Serialize, Answer, LockTimeout, Connect, ConnectStale, PoolTimeout,
      Leave, Proceed, StandInLine
<1> QED BY <1>3, <1>4

\* The one way the service stands still, for any number of threads and
\* connections: all threads wait for connections, and all connections are held
\* by answers in line for a thread (database.py 91-93; registrations.py 307,
\* checkins.py 397).
LEMMA OneWayToStandStill ==
    ASSUME Served, Counted, ThreadsSuffice, Standstill
    PROVE  /\ Cardinality(running) = Threads
           /\ \A r \in running : At(r, "connect")
           /\ Cardinality({r \in Holders : Head(todo[r]) = "serialize"}) = MaxConnections
           /\ Cardinality(Busy) >= Threads + MaxConnections
<1>1. /\ IsFiniteSet(running) /\ Cardinality(running) \in Nat
      /\ IsFiniteSet(Holders) /\ Cardinality(Holders) \in Nat
      /\ IsFiniteSet(Busy) /\ Cardinality(Busy) \in Nat
  BY HoldersAreFinite DEF Served, TypeOK, Holders, Busy
<1>2. MaxConnections \in Nat /\ MaxConnections >= 1 /\ Threads \in Nat /\ Threads >= 1
  BY ConnectionsNat, ThreadsNat DEF MaxConnections
\* Whoever has the lock goes on, so nobody waits for the lock.
<1>3. \A r \in running : At(r, "connect") /\ ~ ConnectionFree
  <2> SUFFICES ASSUME NEW r \in running, At(r, "lock"), ~ LockFree(r) PROVE FALSE
    BY DEF Standstill, WaitsInVain
  <2>1. lock \in Requests /\ lock \in running /\ Due(lock) = "commit"
    BY DEF Served, TypeOK, InHand, LockFree
  <2> QED BY <2>1 DEF Standstill, WaitsInVain, At, Due
\* Somebody runs: else everybody is in line for threads that are all taken.
<1>4. running # {}
  <2> SUFFICES ASSUME running = {} PROVE FALSE
    OBVIOUS
  <2>1. line = <<>>
    BY <1>2, FS_EmptySet DEF Standstill
  <2>2. Waiting = {}
    BY <2>1 DEF Waiting
  <2> QED BY <2>2 DEF Served, Placed, Standstill
<1>5. /\ pooled + stale = 0 /\ Cardinality(Holders) = MaxConnections
  <2>1. ~ ConnectionFree
    BY <1>3, <1>4
  <2> QED BY <1>1, <1>2, <2>1 DEF ConnectionFree, Counted, Served, TypeOK
\* Who waits for a connection has none, so the holders are in line.
<1>6. Holders \cap running = {}
  BY <1>3 DEF Served, TypeOK, InHand, At, Due, Holders
<1>7. Holders \subseteq Waiting
  BY <1>6 DEF Served, InHand, Placed, Holders
<1>8. {r \in Holders : Head(todo[r]) = "serialize"} = Holders
  BY <1>7 DEF Served, InHand, Due, Holders
<1>9. line # <<>>
  <2>1. Holders # {}
    BY <1>2, <1>5, FS_EmptySet
  <2> QED BY <1>7, <2>1 DEF Waiting
<1>10. Cardinality(running) = Threads
  BY <1>1, <1>2, <1>9 DEF Standstill, ThreadsSuffice
<1>11. Cardinality(Holders \cup running) = Cardinality(Holders) + Cardinality(running)
  <2>1. Cardinality(Holders \cap running) = 0
    BY <1>6, FS_EmptySet
  <2>2. Cardinality(Holders \cup running) =
           Cardinality(Holders) + Cardinality(running) - Cardinality(Holders \cap running)
    BY <1>1, FS_Union
  <2> QED BY <1>1, <2>1, <2>2
<1>12. Holders \cup running \subseteq Busy
  BY <1>7 DEF Served, Placed
<1>13. Cardinality(Holders \cup running) <= Cardinality(Busy)
  BY <1>1, <1>12, FS_Subset
<1> QED BY <1>1, <1>2, <1>3, <1>5, <1>8, <1>10, <1>11, <1>13

\* The service stands still in that way only.
THEOREM OnlyStarvationStandsStill == Spec => []StandstillIsStarvation
<1>1. Init => ThreadsSuffice
  BY FS_EmptySet, ThreadsNat DEF Init, ThreadsSuffice
<1>2. Spec => []ThreadsSuffice
  BY <1>1, ThreadsStep, ServedAlways, PTL DEF Spec
<1>3. Served /\ Counted /\ ThreadsSuffice => StandstillIsStarvation
  BY OneWayToStandStill DEF StandstillIsStarvation
<1> QED BY <1>2, <1>3, ServedAlways, CountedAlways, PTL

=============================================================================
