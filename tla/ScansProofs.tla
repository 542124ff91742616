----------------------------- MODULE ScansProofs -----------------------------
(***************************************************************************)
(* What a scan meets first, for any limits, windows, resolution, lifetime, *)
(* orders, number of threads and keys: the limiter's promises, however     *)
(* long threads stall between the clock and the lock; and those of tokens, *)
(* however requests that present them overlap.                             *)
(***************************************************************************)
EXTENDS Scans, FiniteSetTheorems, WellFoundedInduction, SequenceTheorems,
        TLAPS

-----------------------------------------------------------------------------
(* Numbers and deques. *)

\* A set of natural numbers that is not empty has a least element.
LEMMA LeastExists ==
    ASSUME NEW T \in SUBSET Nat, T # {}
    PROVE  \E m \in T : \A x \in T : m <= x
<1> PICK t \in T : TRUE
  OBVIOUS
<1> DEFINE U == {x \in T : x <= t}
           Below(x) == {y \in U : y < x}
           F == {Below(x) : x \in U}
<1>1. IsFiniteSet(U)
  <2>1. U \in SUBSET Nat /\ t \in Nat /\ \A x \in U : x <= t
    OBVIOUS
  <2> QED BY <2>1, FS_BoundedSetOfNaturals
<1>2. F \subseteq FiniteSubsetsOf(U)
  BY <1>1, FS_FiniteSubsetsOfFinite
<1>3. F # {}
  <2>1. t \in U
    OBVIOUS
  <2>2. Below(t) \in F
    BY <2>1
  <2> QED BY <2>2
<1>4. \E A \in F : \A B \in F : <<B, A>> \notin StrictSubsetOrdering(U)
  <2> HIDE DEF F
  <2> QED BY <1>2, <1>3, FS_StrictSubsetOrderingWellFounded, WFMin
<1>5. PICK m \in U : \A y \in U : <<Below(y), Below(m)>> \notin StrictSubsetOrdering(U)
  BY <1>4
<1>6. ASSUME NEW x \in T, ~ (m <= x)
      PROVE  FALSE
  <2>1. x \in Nat /\ m \in Nat /\ t \in Nat /\ x < m /\ x \in U
    BY <1>6
  <2>2. Below(x) \subseteq Below(m)
    <3> SUFFICES ASSUME NEW y \in U, y < x PROVE y < m
      OBVIOUS
    <3>1. y \in Nat
      OBVIOUS
    <3> QED BY <2>1, <3>1
  <2>3. x \in Below(m) /\ x \notin Below(x)
    BY <2>1
  <2>4. <<Below(x), Below(m)>> \in StrictSubsetOrdering(U)
    <3>1. /\ Below(x) \in SUBSET U /\ Below(m) \in SUBSET U
          /\ Below(x) \subseteq Below(m) /\ Below(x) # Below(m)
      BY <2>2, <2>3
    <3> HIDE DEF Below
    <3> QED BY <3>1 DEF StrictSubsetOrdering
  <2> QED BY <1>5, <2>1, <2>4
<1> QED BY <1>6

\* Ticks are whole, and those of a second are as many as they are.
LEMMA TicksType ==
    /\ \A window \in Nat : Ticks(window) \in Nat
    /\ Ticks(1) = Resolution
<1>1. Resolution \in Nat
  BY LimiterAssumption
<1> QED BY <1>1 DEF Ticks

\* Expired is where the entries end that are older than the window, counted from the
\* head up to the first that is not.
LEMMA ExpiredIs ==
    ASSUME NEW dq \in Seq(Nat), NEW now \in Nat, NEW window \in Nat
    PROVE  LET k == Expired(dq, now, window)
           IN  /\ k \in 0 .. Len(dq)
               /\ \A j \in 1 .. k : dq[j] + Ticks(window) < now
               /\ k < Len(dq) => dq[k + 1] + Ticks(window) >= now
<1> DEFINE Good(k) == /\ \A j \in 1 .. k : dq[j] + Ticks(window) < now
                      /\ k < Len(dq) => dq[k + 1] + Ticks(window) >= now
           Fresh == {j \in 1 .. Len(dq) : dq[j] + Ticks(window) >= now}
<1>1. Len(dq) \in Nat
  OBVIOUS
<1>2. Ticks(window) \in Nat
  BY TicksType
<1>3. \A j \in 1 .. Len(dq) : dq[j] \in Nat
  OBVIOUS
<1>4. \E k \in 0 .. Len(dq) : Good(k)
  <2>1. CASE Fresh = {}
    <3>1. ASSUME NEW j \in 1 .. Len(dq) PROVE dq[j] + Ticks(window) < now
      <4>1. dq[j] \in Nat /\ ~ (dq[j] + Ticks(window) >= now)
        BY <1>3, <2>1
      <4> QED BY <1>2, <4>1
    <3>2. Good(Len(dq)) /\ Len(dq) \in 0 .. Len(dq)
      BY <1>1, <3>1
    <3> QED BY <3>2
  <2>2. CASE Fresh # {}
    <3>1. PICK m \in Fresh : \A x \in Fresh : m <= x
      <4>1. Fresh \in SUBSET Nat
        BY <1>1
      <4> HIDE DEF Fresh
      <4> QED BY <2>2, <4>1, LeastExists
    <3>2. m \in 1 .. Len(dq) /\ dq[m] + Ticks(window) >= now
      BY <3>1
    <3>3. m - 1 \in 0 .. Len(dq) /\ (m - 1) + 1 = m
      BY <1>1, <3>2
    <3>4. ASSUME NEW j \in 1 .. m - 1 PROVE dq[j] + Ticks(window) < now
      <4>1. j \in 1 .. Len(dq) /\ ~ (m <= j)
        BY <1>1, <3>2
      <4>2. dq[j] \in Nat /\ ~ (dq[j] + Ticks(window) >= now)
        BY <1>3, <3>1, <4>1
      <4> QED BY <1>2, <4>2
    <3>5. Good(m - 1)
      BY <3>2, <3>3, <3>4
    <3> QED BY <3>3, <3>5
  <2> QED BY <2>1, <2>2
<1>5. Expired(dq, now, window) = CHOOSE k \in 0 .. Len(dq) : Good(k)
  BY DEF Expired
<1> HIDE DEF Good
<1>6. Expired(dq, now, window) \in 0 .. Len(dq) /\ Good(Expired(dq, now, window))
  BY <1>4, <1>5
<1> QED BY <1>6 DEF Good

\* What Prune leaves: the entries from the first on that is in the window.
LEMMA PruneIs ==
    ASSUME NEW dq \in Seq(Nat), NEW now \in Nat, NEW window \in Nat
    PROVE  LET k == Expired(dq, now, window)
               left == Prune(dq, now, window)
           IN  /\ left \in Seq(Nat) /\ Len(left) = Len(dq) - k
               /\ k \in 0 .. Len(dq)
               /\ \A j \in 1 .. k : dq[j] + Ticks(window) < now
               /\ \A j \in 1 .. Len(left) : left[j] = dq[j + k] /\ j + k \in 1 .. Len(dq)
               /\ left # <<>> => left[1] + Ticks(window) >= now
<1> PICK k : k = Expired(dq, now, window)
  OBVIOUS
<1> DEFINE left == SubSeq(dq, k + 1, Len(dq))
<1>1. /\ k \in 0 .. Len(dq)
      /\ \A j \in 1 .. k : dq[j] + Ticks(window) < now
      /\ k < Len(dq) => dq[k + 1] + Ticks(window) >= now
  BY ExpiredIs
<1>2. PICK n : n = Len(dq)
  OBVIOUS
<1>3. n \in Nat /\ k \in Nat /\ k <= n
  BY <1>1, <1>2
<1>4. /\ left \in Seq(Nat)
      /\ Len(left) = IF k + 1 <= n THEN n - (k + 1) + 1 ELSE 0
      /\ \A j \in 1 .. n - (k + 1) + 1 : left[j] = dq[(k + 1) + j - 1]
  <2>1. k + 1 \in Int /\ n \in Int /\ \A i \in (k + 1) .. n : dq[i] \in Nat
    BY <1>2, <1>3
  <2> QED BY <1>2, <2>1, SubSeqProperties, SMTT(30)
<1>5. Prune(dq, now, window) = left
  BY DEF Prune
<1> HIDE DEF left
<1>6. Len(left) = n - k /\ n - (k + 1) + 1 = n - k
  BY <1>3, <1>4
<1>7. ASSUME NEW j \in 1 .. Len(left)
      PROVE  left[j] = dq[j + k] /\ j + k \in 1 .. n
  <2>1. j \in 1 .. n - k
    BY <1>6
  <2>2. left[j] = dq[(k + 1) + j - 1]
    BY <1>4, <1>6, <2>1
  <2>3. (k + 1) + j - 1 = j + k
    BY <1>3
  <2>4. j + k \in 1 .. n
    BY <1>3, <2>1
  <2> QED BY <2>2, <2>3, <2>4
<1>8. ASSUME left # <<>>
      PROVE  left[1] + Ticks(window) >= now
  <2>1. Len(left) # 0
    BY <1>4, <1>8
  <2>2. 1 \in 1 .. Len(left) /\ k < n
    BY <1>3, <1>6, <2>1
  <2>3. left[1] = dq[1 + k] /\ 1 + k = k + 1
    BY <1>3, <1>7, <2>2
  <2> QED BY <1>1, <1>2, <2>2, <2>3
<1> QED BY <1>1, <1>2, <1>4, <1>5, <1>6, <1>7, <1>8

\* In short: what is left is no longer than before, and starts within the window.
LEMMA PruneLeaves ==
    ASSUME NEW dq \in Seq(Nat), NEW now \in Nat, NEW window \in Nat
    PROVE  /\ Prune(dq, now, window) \in Seq(Nat)
           /\ Len(Prune(dq, now, window)) \in Nat
           /\ Len(Prune(dq, now, window)) <= Len(dq)
           /\ Prune(dq, now, window) # <<>> =>
                Prune(dq, now, window)[1] + Ticks(window) >= now
<1> DEFINE k == Expired(dq, now, window)
           left == Prune(dq, now, window)
<1>1. /\ left \in Seq(Nat) /\ Len(left) = Len(dq) - k
      /\ k \in 0 .. Len(dq)
      /\ left # <<>> => left[1] + Ticks(window) >= now
  BY PruneIs
<1>2. Len(dq) \in Nat
  OBVIOUS
<1> HIDE DEF k, left
<1>3. Len(left) \in Nat /\ Len(left) <= Len(dq)
  BY <1>1, <1>2
<1> QED BY <1>1, <1>3 DEF left

-----------------------------------------------------------------------------
(* A deque is the tail of the grants under its key. *)

\* The deque dq holds readings of grants of S, in the order of the grants, and all
\* that a reading of n or later still finds in the window.
TailOf(g, n, dq, S, window) ==
    \E p \in [1 .. Len(dq) -> S] :
        /\ \A j, k \in 1 .. Len(dq) : j < k => p[j] < p[k]
        /\ \A j \in 1 .. Len(dq) : dq[j] = g[p[j]].now
        /\ \A i \in S : g[i].now + Ticks(window) >= n => \E j \in 1 .. Len(dq) : p[j] = i

\* The readings of the grants S.
Readings(g, S) == \A i \in S : g[i].now \in Nat

\* A deque that nobody touches stays one, for later readings and longer histories.
LEMMA TailStays ==
    ASSUME NEW g, NEW h, NEW n \in Nat, NEW m \in Nat, n <= m, NEW dq, NEW S,
           NEW window \in Nat,
           \A i \in S : g[i].now \in Nat /\ h[i].now = g[i].now,
           TailOf(g, n, dq, S, window)
    PROVE  TailOf(h, m, dq, S, window)
<1>1. PICK p \in [1 .. Len(dq) -> S] :
           /\ \A j, k \in 1 .. Len(dq) : j < k => p[j] < p[k]
           /\ \A j \in 1 .. Len(dq) : dq[j] = g[p[j]].now
           /\ \A i \in S : g[i].now + Ticks(window) >= n => \E j \in 1 .. Len(dq) : p[j] = i
  BY DEF TailOf
<1>2. \A j \in 1 .. Len(dq) : dq[j] = h[p[j]].now
  BY <1>1
<1>3. ASSUME NEW i \in S, h[i].now + Ticks(window) >= m
      PROVE  \E j \in 1 .. Len(dq) : p[j] = i
  <2>1. g[i].now \in Nat /\ Ticks(window) \in Nat /\ g[i].now + Ticks(window) >= m
    BY <1>3, TicksType
  <2>2. g[i].now + Ticks(window) >= n
    BY <2>1
  <2> QED BY <1>1, <2>2
<1> QED BY <1>1, <1>2, <1>3 DEF TailOf

\* Pruning for a reading takes only what no later one would find.
LEMMA TailPruned ==
    ASSUME NEW g, NEW n \in Nat, NEW m \in Nat, NEW now \in Nat, n <= m, now <= m,
           NEW dq \in Seq(Nat), NEW S \in SUBSET Nat, NEW window \in Nat,
           Readings(g, S),
           TailOf(g, n, dq, S, window)
    PROVE  TailOf(g, m, Prune(dq, now, window), S, window)
<1>1. PICK p \in [1 .. Len(dq) -> S] :
           /\ \A j, k \in 1 .. Len(dq) : j < k => p[j] < p[k]
           /\ \A j \in 1 .. Len(dq) : dq[j] = g[p[j]].now
           /\ \A i \in S : g[i].now + Ticks(window) >= n => \E j \in 1 .. Len(dq) : p[j] = i
  BY DEF TailOf
<1> DEFINE k == Expired(dq, now, window)
           left == Prune(dq, now, window)
<1>4. /\ left \in Seq(Nat) /\ Len(left) = Len(dq) - k
      /\ k \in 0 .. Len(dq)
      /\ \A j \in 1 .. k : dq[j] + Ticks(window) < now
      /\ \A j \in 1 .. Len(left) : left[j] = dq[j + k] /\ j + k \in 1 .. Len(dq)
  BY PruneIs
<1> HIDE DEF k, left
<1>5. Len(dq) \in Nat /\ Len(left) \in Nat /\ k \in Nat
  BY <1>4
<1> DEFINE q == [j \in 1 .. Len(left) |-> p[j + k]]
<1>6. q \in [1 .. Len(left) -> S]
  BY <1>1, <1>4
<1>7. ASSUME NEW i \in 1 .. Len(left), NEW j \in 1 .. Len(left), i < j
      PROVE  q[i] < q[j]
  <2>1. i + k \in 1 .. Len(dq) /\ j + k \in 1 .. Len(dq) /\ i + k < j + k
    BY <1>4, <1>5, <1>7
  <2>2. q[i] = p[i + k] /\ q[j] = p[j + k]
    OBVIOUS
  <2> HIDE DEF q
  <2> QED BY <1>1, <2>1, <2>2
<1>8. \A j \in 1 .. Len(left) : left[j] = g[q[j]].now
  BY <1>1, <1>4
<1>9. ASSUME NEW i \in S, g[i].now + Ticks(window) >= m
      PROVE  \E j \in 1 .. Len(left) : q[j] = i
  <2>1. PICK t \in Nat : t = g[i].now + Ticks(window)
    <3>1. g[i].now \in Nat /\ Ticks(window) \in Nat
      BY TicksType DEF Readings
    <3>2. g[i].now + Ticks(window) \in Nat
      BY <3>1
    <3> QED BY <3>2
  <2>2. t >= n /\ t >= now
    BY <1>9, <2>1
  <2>3. PICK j \in 1 .. Len(dq) : p[j] = i
    BY <1>1, <2>1, <2>2
  <2>4. dq[j] + Ticks(window) = t
    BY <1>1, <2>1, <2>3
  <2>5. j \notin 1 .. k
    BY <1>4, <2>2, <2>4
  <2>6. j - k \in 1 .. Len(left) /\ (j - k) + k = j
    BY <1>4, <1>5, <2>5
  <2>7. q[j - k] = i
    BY <2>3, <2>6
  <2> QED BY <2>6, <2>7
<1> HIDE DEF q
<1>10. TailOf(g, m, left, S, window)
  BY <1>6, <1>7, <1>8, <1>9 DEF TailOf
<1> QED BY <1>10 DEF left

\* A grant enters its deque and its key's grants at once.
LEMMA TailAppended ==
    ASSUME NEW g, NEW h, NEW n \in Nat, NEW now \in Nat,
           NEW dq \in Seq(Nat), NEW S \in SUBSET Nat, NEW x \in Nat, NEW window \in Nat,
           \A i \in S : i < x /\ h[i].now = g[i].now,
           h[x].now = now,
           TailOf(g, n, dq, S, window)
    PROVE  TailOf(h, n, Append(dq, now), S \cup {x}, window)
<1>1. PICK p \in [1 .. Len(dq) -> S] :
           /\ \A j, k \in 1 .. Len(dq) : j < k => p[j] < p[k]
           /\ \A j \in 1 .. Len(dq) : dq[j] = g[p[j]].now
           /\ \A i \in S : g[i].now + Ticks(window) >= n => \E j \in 1 .. Len(dq) : p[j] = i
  BY DEF TailOf
<1>2. PICK e : e = Append(dq, now)
  OBVIOUS
<1>3. PICK l \in Nat : l = Len(dq)
  OBVIOUS
<1>4. /\ Len(e) = l + 1 /\ e[l + 1] = now
      /\ \A j \in 1 .. l : e[j] = dq[j]
  BY <1>2, <1>3
<1> DEFINE q == [j \in 1 .. l + 1 |-> IF j = l + 1 THEN x ELSE p[j]]
<1>5. /\ q[l + 1] = x
      /\ \A j \in 1 .. l : q[j] = p[j] /\ q[j] \in S
      /\ \A j \in 1 .. l + 1 : j = l + 1 \/ j \in 1 .. l
  <2>1. q[l + 1] = x
    OBVIOUS
  <2>2. ASSUME NEW j \in 1 .. l PROVE q[j] = p[j] /\ q[j] \in S
    <3>1. j \in 1 .. l + 1 /\ j # l + 1 /\ j \in 1 .. Len(dq)
      BY <1>3
    <3> QED BY <1>1, <3>1
  <2>3. \A j \in 1 .. l + 1 : j = l + 1 \/ j \in 1 .. l
    OBVIOUS
  <2> QED BY <2>1, <2>2, <2>3
<1>6. q \in [1 .. l + 1 -> S \cup {x}]
  <2>1. ASSUME NEW j \in 1 .. l + 1
        PROVE  (IF j = l + 1 THEN x ELSE p[j]) \in S \cup {x}
    <3>1. j # l + 1 => j \in 1 .. Len(dq)
      BY <1>3
    <3> QED BY <1>1, <3>1
  <2> QED BY <2>1
<1> HIDE DEF q
<1>7. ASSUME NEW i \in 1 .. l + 1, NEW j \in 1 .. l + 1, i < j
      PROVE  q[i] < q[j]
  <2>1. i \in 1 .. l
    BY <1>7
  <2>2. CASE j = l + 1
    BY <1>5, <2>1, <2>2
  <2>3. CASE j \in 1 .. l
    <3>1. p[i] < p[j]
      BY <1>1, <1>3, <1>7, <2>1, <2>3
    <3> QED BY <1>5, <2>1, <2>3, <3>1
  <2> QED BY <1>5, <2>2, <2>3
<1>8. ASSUME NEW j \in 1 .. l + 1
      PROVE  e[j] = h[q[j]].now
  <2>1. CASE j = l + 1
    BY <1>4, <1>5, <2>1
  <2>2. CASE j \in 1 .. l
    <3>1. dq[j] = g[p[j]].now
      BY <1>1, <1>3, <2>2
    <3> QED BY <1>4, <1>5, <2>2, <3>1
  <2> QED BY <1>5, <2>1, <2>2
<1>9. ASSUME NEW i \in S \cup {x}, h[i].now + Ticks(window) >= n
      PROVE  \E j \in 1 .. l + 1 : q[j] = i
  <2>1. CASE i = x
    BY <1>5, <2>1
  <2>2. CASE i \in S
    <3>1. PICK j \in 1 .. Len(dq) : p[j] = i
      BY <1>1, <1>9, <2>2
    <3>2. j \in 1 .. l /\ j \in 1 .. l + 1 /\ j # l + 1
      BY <1>3, <3>1
    <3> QED BY <1>5, <3>1, <3>2
  <2> QED BY <2>1, <2>2
<1>10. TailOf(h, n, e, S \cup {x}, window)
  BY <1>4, <1>6, <1>7, <1>8, <1>9 DEF TailOf
<1> QED BY <1>2, <1>10

\* A new deque, of no grants.
LEMMA TailOfNone ==
    ASSUME NEW g, NEW n, NEW window
    PROVE  TailOf(g, n, <<>>, {}, window)
<1> DEFINE none == [j \in 1 .. 0 |-> 0]
<1>1. none \in [1 .. Len(<<>>) -> {}]
  OBVIOUS
<1>2. 1 .. Len(<<>>) = {}
  OBVIOUS
<1> QED BY <1>1, <1>2 DEF TailOf


-----------------------------------------------------------------------------
(* How many. *)

\* There are no more elements than names for them.
LEMMA NamedCount ==
    ASSUME NEW S, NEW T, IsFiniteSet(T), NEW f \in [S -> T],
           \A x, y \in S : f[x] = f[y] => x = y
    PROVE  IsFiniteSet(S) /\ Cardinality(S) <= Cardinality(T)
<1>1. f \in Injection(S, T)
  BY DEF Injection, IsInjective
<1> QED BY <1>1, FS_Injection

\* Quotient and remainder.
LEMMA Division ==
    ASSUME NEW x \in Nat, NEW d \in Nat \ {0}
    PROVE  /\ x \div d \in Nat
           /\ (x \div d) * d <= x
           /\ x < (x \div d) * d + d
<1> QED OBVIOUS

\* The grants of S that a reading of n finds in the window.
LateOf(g, n, S, window) == {i \in S : g[i].now + Ticks(window) >= n}

\* What of a key's grants a reading of n or later finds is in the key's deque.
LEMMA TailCounts ==
    ASSUME NEW g, NEW n \in Nat, NEW dq \in Seq(Nat), NEW S, NEW window \in Nat,
           TailOf(g, n, dq, S, window)
    PROVE  /\ IsFiniteSet(LateOf(g, n, S, window))
           /\ Cardinality(LateOf(g, n, S, window)) <= Len(dq)
<1>1. PICK p \in [1 .. Len(dq) -> S] :
           \A i \in S : g[i].now + Ticks(window) >= n => \E j \in 1 .. Len(dq) : p[j] = i
  BY DEF TailOf
<1> DEFINE late == LateOf(g, n, S, window)
           q == [i \in late |-> CHOOSE j \in 1 .. Len(dq) : p[j] = i]
<1>2. \A i \in late : q[i] \in 1 .. Len(dq) /\ p[q[i]] = i
  BY <1>1 DEF LateOf
<1>3. q \in [late -> 1 .. Len(dq)]
  BY <1>2
<1>4. Len(dq) \in Nat /\ IsFiniteSet(1 .. Len(dq)) /\ Cardinality(1 .. Len(dq)) = Len(dq)
  <2>1. PICK l \in Nat : l = Len(dq)
    OBVIOUS
  <2>2. IsFiniteSet(1 .. l) /\ Cardinality(1 .. l) = IF 1 > l THEN 0 ELSE l - 1 + 1
    BY FS_Interval
  <2> QED BY <2>1, <2>2
<1> HIDE DEF late, q
<1>5. IsFiniteSet(late) /\ Cardinality(late) <= Cardinality(1 .. Len(dq))
  BY <1>2, <1>3, <1>4, NamedCount
<1> QED BY <1>4, <1>5 DEF late

-----------------------------------------------------------------------------
(* The invariant. *)

Entries == [by : Attendees, from : Addresses \cup {NoAddress}, now : Nat, at : Nat]
Requests(now) == {Idle} \cup [by : Attendees, from : Addresses \cup {NoAddress}, now : 0 .. now]

\* The grants under a key of either window.
MineOf(a)    == {i \in DOMAIN granted : granted[i].by = a}
TheirsOf(ip) == {i \in DOMAIN granted : granted[i].from = ip}

\* Types, with every deque's domain; no grant comes before its reading.
Typed ==
    /\ clock \in 0 .. Horizon /\ newest \in 0 .. clock
    /\ attendee \in [Attendees -> Seq(Nat)]
    /\ \A a \in Attendees : Len(attendee[a]) <= AttendeeMax
    /\ address \in [Addresses -> Seq(Nat)]
    /\ \A ip \in Addresses : Len(address[ip]) <= AddressMax
    /\ request \in [Threads -> Requests(clock)]
    /\ granted \in Seq(Entries)
    /\ \A i \in DOMAIN granted : granted[i].now <= granted[i].at /\ granted[i].at <= clock
    /\ reply.to \in Threads \cup {NoThread} /\ reply.retry \in Nat

\* Every deque is the tail of the grants under its key, up to the latest reading that
\* pruned any.
AttendeeTails ==
    \A a \in Attendees : TailOf(granted, newest, attendee[a], MineOf(a), AttendeeWindow)
AddressTails ==
    \A ip \in Addresses : TailOf(granted, newest, address[ip], TheirsOf(ip), AddressWindow)

\* Every grant was a thread's, which read the clock for its next request after it.
Owned ==
    \E own \in [DOMAIN granted -> Threads] :
        /\ \A i, j \in DOMAIN granted :
             i < j /\ own[i] = own[j] => granted[i].at <= granted[j].now
        /\ \A i \in DOMAIN granted :
             request[own[i]] # Idle => granted[i].at <= request[own[i]].now

LimiterInv == Typed /\ AttendeeTails /\ AddressTails /\ Owned

-----------------------------------------------------------------------------
(* What a decision reads and writes. *)

\* The constants' types.
LEMMA ConstantTypes ==
    /\ Resolution \in Nat \ {0} /\ Horizon \in Nat
    /\ AttendeeWindow \in Nat /\ AttendeeMax \in Nat \ {0}
    /\ AddressWindow \in Nat /\ AddressMax \in Nat \ {0}
    /\ NoAddress \notin Addresses /\ NoThread \notin Threads
    /\ IsFiniteSet(Threads) /\ Cardinality(Threads) \in Nat
<1>1. IsFiniteSet(Threads) /\ Cardinality(Threads) \in Nat
  BY LimiterAssumption, FS_CardinalityType
<1> QED BY <1>1, LimiterAssumption

\* What a thread that has read the clock serves.
LEMMA RequestType ==
    ASSUME Typed, NEW t \in Threads, request[t] # Idle
    PROVE  /\ request[t].by \in Attendees
           /\ request[t].from \in Addresses \cup {NoAddress}
           /\ request[t].now \in Nat /\ request[t].now <= clock
           /\ clock \in Nat /\ newest \in Nat /\ newest <= clock
           /\ granted \in Seq(Entries)
           /\ attendee[request[t].by] \in Seq(Nat)
<1>1. request[t] \in [by : Attendees, from : Addresses \cup {NoAddress}, now : 0 .. clock]
  BY DEF Typed, Requests
<1>2. clock \in Nat
  BY ConstantTypes DEF Typed
<1> QED BY <1>1, <1>2 DEF Typed

\* What it finds in its attendee's window.
LEMMA AttendeeDequeIs ==
    ASSUME Typed, NEW t \in Threads, request[t] # Idle
    PROVE  /\ AttendeeDeque(t) \in Seq(Nat)
           /\ Len(AttendeeDeque(t)) \in Nat /\ Len(AttendeeDeque(t)) <= AttendeeMax
           /\ AttendeeDeque(t) # <<>> =>
                AttendeeDeque(t)[1] + Ticks(AttendeeWindow) >= request[t].now
<1>1. /\ attendee[request[t].by] \in Seq(Nat) /\ Len(attendee[request[t].by]) <= AttendeeMax
      /\ request[t].now \in Nat
  BY RequestType DEF Typed
<1> PICK dq \in Seq(Nat) : dq = attendee[request[t].by]
  BY <1>1
<1> PICK now \in Nat : now = request[t].now
  BY <1>1
<1>2. AttendeeWindow \in Nat /\ AttendeeDeque(t) = Prune(dq, now, AttendeeWindow)
  BY ConstantTypes DEF AttendeeDeque
<1>3. /\ AttendeeDeque(t) \in Seq(Nat) /\ Len(AttendeeDeque(t)) \in Nat
      /\ Len(AttendeeDeque(t)) <= Len(dq)
      /\ AttendeeDeque(t) # <<>> => AttendeeDeque(t)[1] + Ticks(AttendeeWindow) >= now
  BY <1>2, PruneLeaves
<1>4. Len(dq) \in Nat /\ Len(dq) <= AttendeeMax /\ AttendeeMax \in Nat
  BY <1>1, ConstantTypes
<1>5. Len(AttendeeDeque(t)) <= AttendeeMax
  BY <1>3, <1>4
<1> QED BY <1>3, <1>5

\* What it finds in its address's window.
LEMMA AddressDequeIs ==
    ASSUME Typed, NEW t \in Threads, request[t] # Idle, request[t].from # NoAddress
    PROVE  /\ AddressDeque(t) \in Seq(Nat)
           /\ Len(AddressDeque(t)) \in Nat /\ Len(AddressDeque(t)) <= AddressMax
           /\ AddressDeque(t) # <<>> =>
                AddressDeque(t)[1] + Ticks(AddressWindow) >= request[t].now
<1>1. /\ request[t].from \in Addresses
      /\ address[request[t].from] \in Seq(Nat) /\ Len(address[request[t].from]) <= AddressMax
      /\ request[t].now \in Nat
  BY RequestType DEF Typed
<1> PICK dq \in Seq(Nat) : dq = address[request[t].from]
  BY <1>1
<1> PICK now \in Nat : now = request[t].now
  BY <1>1
<1>2. AddressWindow \in Nat /\ AddressDeque(t) = Prune(dq, now, AddressWindow)
  BY ConstantTypes DEF AddressDeque
<1>3. /\ AddressDeque(t) \in Seq(Nat) /\ Len(AddressDeque(t)) \in Nat
      /\ Len(AddressDeque(t)) <= Len(dq)
      /\ AddressDeque(t) # <<>> => AddressDeque(t)[1] + Ticks(AddressWindow) >= now
  BY <1>2, PruneLeaves
<1>4. Len(dq) \in Nat /\ Len(dq) <= AddressMax /\ AddressMax \in Nat
  BY <1>1, ConstantTypes
<1>5. Len(AddressDeque(t)) <= AddressMax
  BY <1>3, <1>4
<1> QED BY <1>3, <1>5

\* Both windows tell the seconds until their head leaves them.
LEMMA RetryIs ==
    ASSUME NEW dq \in Seq(Nat), Len(dq) # 0, NEW now \in Nat, NEW window \in Nat,
           dq[1] + Ticks(window) >= now
    PROVE  LET leaves == dq[1] + Ticks(window)
               told   == now + Ticks(RetryAfter(dq, now, window))
           IN  /\ RetryAfter(dq, now, window) \in Nat
               /\ leaves < told /\ told <= leaves + Ticks(1)
<1>1. PICK head \in Nat : head = dq[1]
  <2>1. dq[1] \in Nat
    OBVIOUS
  <2> QED BY <2>1
<1>2. PICK w \in Nat : w = Ticks(window)
  BY TicksType
<1>3. PICK x \in Nat : x = w + head - now
  <2>1. w + head - now \in Nat
    BY <1>1, <1>2
  <2> QED BY <2>1
<1>4. PICK d \in Nat \ {0} : d = Resolution
  BY ConstantTypes
<1>5. PICK q \in Nat : q = x \div d /\ q * d <= x /\ x < q * d + d
  BY Division
<1>6. RetryAfter(dq, now, window) = q + 1
  BY <1>1, <1>2, <1>3, <1>4, <1>5 DEF RetryAfter
<1>7. Ticks(q + 1) = q * d + d /\ Ticks(1) = d
  BY <1>4, TicksType DEF Ticks
<1>8. q * d \in Nat
  OBVIOUS
<1>9. PICK y \in Nat : y = q * d
  BY <1>8
<1>10. head + w < now + (y + d) /\ now + (y + d) <= head + w + d
  BY <1>3, <1>5, <1>9
<1>11. RetryAfter(dq, now, window) \in Nat /\ Ticks(RetryAfter(dq, now, window)) = y + d
  BY <1>6, <1>7, <1>9
<1>12. dq[1] + Ticks(window) = head + w
  BY <1>1, <1>2
<1> QED BY <1>7, <1>10, <1>11, <1>12

\* A decision ends the request and remembers its reading.
LEMMA DecideIs ==
    ASSUME Typed, NEW t \in Threads, request[t] # Idle, NEW code, NEW retry \in Nat,
           Decide(t, code, retry)
    PROVE  /\ clock' = clock /\ newest' \in 0 .. clock
           /\ newest <= newest' /\ request[t].now <= newest'
           /\ request' \in [Threads -> Requests(clock)]
           /\ request' = [request EXCEPT ![t] = Idle]
           /\ reply'.to = t /\ reply'.retry = retry /\ reply'.code = code
<1>1. request \in [Threads -> Requests(clock)] /\ Idle \in Requests(clock)
  BY DEF Typed, Requests
<1> QED BY <1>1, RequestType DEF Decide

\* The grants so far, and the one that a Grant adds to them.
LEMMA HistoryIs ==
    ASSUME Typed
    PROVE  /\ DOMAIN granted \in SUBSET Nat
           /\ \A i \in DOMAIN granted : /\ granted[i] \in Entries
                                        /\ granted[i].now \in Nat /\ granted[i].at \in Nat
<1>1. granted \in Seq(Entries)
  BY DEF Typed
<1>2. DOMAIN granted \in SUBSET Nat
  BY <1>1
<1>3. \A i \in DOMAIN granted : granted[i] \in Entries
  BY <1>1
<1> QED BY <1>2, <1>3 DEF Entries

LEMMA HistoryGrows ==
    ASSUME Typed, NEW e \in Entries, granted' = Append(granted, e)
    PROVE  \E x \in Nat :
             /\ granted' \in Seq(Entries)
             /\ DOMAIN granted' = (DOMAIN granted) \cup {x}
             /\ granted'[x] = e
             /\ \A i \in DOMAIN granted : i < x /\ granted'[i] = granted[i]
<1>1. granted \in Seq(Entries)
  BY DEF Typed
<1>2. PICK x \in Nat : x = Len(granted) + 1
  BY <1>1
<1>3. granted' \in Seq(Entries) /\ Len(granted') = x /\ granted'[x] = e
  BY <1>1, <1>2
<1>4. DOMAIN granted = 1 .. Len(granted) /\ DOMAIN granted' = 1 .. x
  BY <1>1, <1>3
<1>5. DOMAIN granted' = (DOMAIN granted) \cup {x}
  BY <1>1, <1>2, <1>4
<1>6. \A i \in DOMAIN granted : i < x /\ granted'[i] = granted[i]
  BY <1>1, <1>2, <1>4
<1> QED BY <1>3, <1>5, <1>6

-----------------------------------------------------------------------------
(* Every decision keeps the deques tails. *)

\* A refusal, or a grant under another address, leaves an address's deque as it is.
LEMMA AddressesStay ==
    ASSUME Typed, AddressTails, address' = address, newest' \in Nat, newest <= newest',
           \A ip \in Addresses : TheirsOf(ip)' = TheirsOf(ip),
           \A i \in DOMAIN granted : granted'[i] = granted[i]
    PROVE  AddressTails'
<1> SUFFICES ASSUME NEW ip \in Addresses
             PROVE  TailOf(granted', newest', address[ip], TheirsOf(ip), AddressWindow)
  BY DEF AddressTails
<1>1. \A i \in TheirsOf(ip) : granted[i].now \in Nat /\ granted'[i].now = granted[i].now
  BY HistoryIs DEF TheirsOf
<1>2. TailOf(granted, newest, address[ip], TheirsOf(ip), AddressWindow)
  BY DEF AddressTails
<1>3. newest \in Nat /\ AddressWindow \in Nat
  BY ConstantTypes DEF Typed
<1> QED BY <1>1, <1>2, <1>3, TailStays

\* A request prunes its attendee's deque.
LEMMA AttendeePruned ==
    ASSUME Typed, AttendeeTails, NEW t \in Threads, request[t] # Idle,
           newest' \in Nat, newest <= newest', request[t].now <= newest',
           granted' = granted,
           attendee' = [attendee EXCEPT ![request[t].by] = AttendeeDeque(t)]
    PROVE  AttendeeTails'
<1> SUFFICES ASSUME NEW a \in Attendees
             PROVE  TailOf(granted, newest', attendee'[a], MineOf(a), AttendeeWindow)
  BY DEF AttendeeTails, MineOf
<1>1. MineOf(a) \in SUBSET Nat /\ Readings(granted, MineOf(a))
  BY HistoryIs DEF MineOf, Readings
<1>2. TailOf(granted, newest, attendee[a], MineOf(a), AttendeeWindow)
  BY DEF AttendeeTails
<1>3. newest \in Nat /\ AttendeeWindow \in Nat /\ attendee[a] \in Seq(Nat)
  BY ConstantTypes DEF Typed
<1>4. CASE a = request[t].by
  <2>1. attendee'[a] = Prune(attendee[a], request[t].now, AttendeeWindow)
    BY <1>4 DEF Typed, AttendeeDeque
  <2>2. request[t].now \in Nat
    BY RequestType
  <2> QED BY <1>1, <1>2, <1>3, <2>1, <2>2, TailPruned, SMTT(30)
<1>5. CASE a # request[t].by
  <2>1. attendee'[a] = attendee[a]
    BY <1>5 DEF Typed
  <2> QED BY <1>1, <1>2, <1>3, <2>1, TailStays DEF Readings
<1> QED BY <1>4, <1>5

\* It prunes its address's deque.
LEMMA AddressPruned ==
    ASSUME Typed, AddressTails, NEW t \in Threads, request[t] # Idle,
           newest' \in Nat, newest <= newest', request[t].now <= newest',
           granted' = granted,
           address' = [address EXCEPT ![request[t].from] = AddressDeque(t)]
    PROVE  AddressTails'
<1> SUFFICES ASSUME NEW ip \in Addresses
             PROVE  TailOf(granted, newest', address'[ip], TheirsOf(ip), AddressWindow)
  BY DEF AddressTails, TheirsOf
<1>1. TheirsOf(ip) \in SUBSET Nat /\ Readings(granted, TheirsOf(ip))
  BY HistoryIs DEF TheirsOf, Readings
<1>2. TailOf(granted, newest, address[ip], TheirsOf(ip), AddressWindow)
  BY DEF AddressTails
<1>3. newest \in Nat /\ AddressWindow \in Nat /\ address[ip] \in Seq(Nat)
  BY ConstantTypes DEF Typed
<1>4. CASE ip = request[t].from
  <2>1. address'[ip] = Prune(address[ip], request[t].now, AddressWindow)
    BY <1>4 DEF Typed, AddressDeque
  <2>2. request[t].now \in Nat
    BY RequestType
  <2> QED BY <1>1, <1>2, <1>3, <2>1, <2>2, TailPruned, SMTT(30)
<1>5. CASE ip # request[t].from
  <2>1. address'[ip] = address[ip]
    BY <1>5 DEF Typed
  <2> QED BY <1>1, <1>2, <1>3, <2>1, TailStays DEF Readings
<1> QED BY <1>4, <1>5

\* A grant is charged to its attendee.
LEMMA AttendeeIsCharged ==
    ASSUME Typed, AttendeeTails, NEW t \in Threads, request[t] # Idle,
           newest' \in Nat, newest <= newest', request[t].now <= newest',
           NEW e \in Entries, e.by = request[t].by, e.now = request[t].now,
           granted' = Append(granted, e),
           attendee' = [attendee EXCEPT ![request[t].by] =
                          Append(AttendeeDeque(t), request[t].now)]
    PROVE  AttendeeTails'
<1> SUFFICES ASSUME NEW a \in Attendees
             PROVE  TailOf(granted', newest', attendee'[a], MineOf(a)', AttendeeWindow)
  BY DEF AttendeeTails
<1>1. MineOf(a) \in SUBSET Nat /\ Readings(granted, MineOf(a))
  BY HistoryIs DEF MineOf, Readings
<1>2. TailOf(granted, newest, attendee[a], MineOf(a), AttendeeWindow)
  BY DEF AttendeeTails
<1>3. newest \in Nat /\ AttendeeWindow \in Nat /\ attendee[a] \in Seq(Nat)
  BY ConstantTypes DEF Typed
<1>4. PICK x \in Nat : /\ DOMAIN granted' = (DOMAIN granted) \cup {x}
                       /\ granted'[x] = e
                       /\ \A i \in DOMAIN granted : i < x /\ granted'[i] = granted[i]
  BY HistoryGrows
<1>5. CASE a = request[t].by
  <2>1. attendee'[a] = Append(AttendeeDeque(t), request[t].now)
    BY <1>5 DEF Typed
  <2>2. request[t].now \in Nat /\ AttendeeDeque(t) \in Seq(Nat)
    BY RequestType, AttendeeDequeIs
  <2>3. TailOf(granted, newest', AttendeeDeque(t), MineOf(a), AttendeeWindow)
    <3>1. AttendeeDeque(t) = Prune(attendee[a], request[t].now, AttendeeWindow)
      BY <1>5 DEF AttendeeDeque
    <3> QED BY <1>1, <1>2, <1>3, <2>2, <3>1, TailPruned
  <2>4. MineOf(a)' = MineOf(a) \cup {x}
    BY <1>4, <1>5 DEF MineOf
  <2>5. \A i \in MineOf(a) : i < x /\ granted'[i].now = granted[i].now
    BY <1>4 DEF MineOf
  <2>6. granted'[x].now = request[t].now
    BY <1>4
  <2>7. TailOf(granted', newest', Append(AttendeeDeque(t), request[t].now), MineOf(a) \cup {x},
             AttendeeWindow)
    BY <1>1, <1>3, <2>2, <2>3, <2>5, <2>6, TailAppended
  <2> QED BY <2>1, <2>4, <2>7
<1>6. CASE a # request[t].by
  <2>1. attendee'[a] = attendee[a]
    BY <1>6 DEF Typed
  <2>2. MineOf(a)' = MineOf(a)
    BY <1>4, <1>6, HistoryIs DEF MineOf
  <2>3. \A i \in MineOf(a) : granted'[i].now = granted[i].now
    BY <1>4 DEF MineOf
  <2>4. TailOf(granted', newest', attendee[a], MineOf(a), AttendeeWindow)
    BY <1>1, <1>2, <1>3, <2>3, TailStays DEF Readings
  <2> QED BY <2>1, <2>2, <2>4
<1> QED BY <1>5, <1>6

\* It is charged to its address.
LEMMA AddressIsCharged ==
    ASSUME Typed, AddressTails, NEW t \in Threads, request[t] # Idle,
           request[t].from # NoAddress,
           newest' \in Nat, newest <= newest', request[t].now <= newest',
           NEW e \in Entries, e.from = request[t].from, e.now = request[t].now,
           granted' = Append(granted, e),
           address' = [address EXCEPT ![request[t].from] =
                         Append(AddressDeque(t), request[t].now)]
    PROVE  AddressTails'
<1> SUFFICES ASSUME NEW ip \in Addresses
             PROVE  TailOf(granted', newest', address'[ip], TheirsOf(ip)', AddressWindow)
  BY DEF AddressTails
<1>1. TheirsOf(ip) \in SUBSET Nat /\ Readings(granted, TheirsOf(ip))
  BY HistoryIs DEF TheirsOf, Readings
<1>2. TailOf(granted, newest, address[ip], TheirsOf(ip), AddressWindow)
  BY DEF AddressTails
<1>3. newest \in Nat /\ AddressWindow \in Nat /\ address[ip] \in Seq(Nat)
  BY ConstantTypes DEF Typed
<1>4. PICK x \in Nat : /\ DOMAIN granted' = (DOMAIN granted) \cup {x}
                       /\ granted'[x] = e
                       /\ \A i \in DOMAIN granted : i < x /\ granted'[i] = granted[i]
  BY HistoryGrows
<1>5. CASE ip = request[t].from
  <2>1. address'[ip] = Append(AddressDeque(t), request[t].now)
    BY <1>5 DEF Typed
  <2>2. request[t].now \in Nat /\ AddressDeque(t) \in Seq(Nat)
    BY RequestType, AddressDequeIs
  <2>3. TailOf(granted, newest', AddressDeque(t), TheirsOf(ip), AddressWindow)
    <3>1. AddressDeque(t) = Prune(address[ip], request[t].now, AddressWindow)
      BY <1>5 DEF AddressDeque
    <3> QED BY <1>1, <1>2, <1>3, <2>2, <3>1, TailPruned
  <2>4. TheirsOf(ip)' = TheirsOf(ip) \cup {x}
    BY <1>4, <1>5 DEF TheirsOf
  <2>5. \A i \in TheirsOf(ip) : i < x /\ granted'[i].now = granted[i].now
    BY <1>4 DEF TheirsOf
  <2>6. granted'[x].now = request[t].now
    BY <1>4
  <2>7. TailOf(granted', newest', Append(AddressDeque(t), request[t].now), TheirsOf(ip) \cup {x},
             AddressWindow)
    BY <1>1, <1>3, <2>2, <2>3, <2>5, <2>6, TailAppended
  <2> QED BY <2>1, <2>4, <2>7
<1>6. CASE ip # request[t].from
  <2>1. address'[ip] = address[ip]
    BY <1>6 DEF Typed
  <2>2. TheirsOf(ip)' = TheirsOf(ip)
    BY <1>4, <1>6, HistoryIs DEF TheirsOf
  <2>3. \A i \in TheirsOf(ip) : granted'[i].now = granted[i].now
    BY <1>4 DEF TheirsOf
  <2>4. TailOf(granted', newest', address[ip], TheirsOf(ip), AddressWindow)
    BY <1>1, <1>2, <1>3, <2>3, TailStays DEF Readings
  <2> QED BY <2>1, <2>2, <2>4
<1> QED BY <1>5, <1>6

-----------------------------------------------------------------------------
(* The invariant is one. *)

\* A process that has just started has granted nothing.
LEMMA FreshWindows ==
    ASSUME granted = <<>>, attendee = [a \in Attendees |-> <<>>],
           address = [ip \in Addresses |-> <<>>]
    PROVE  AttendeeTails /\ AddressTails
<1>1. \A a \in Attendees : MineOf(a) = {} /\ attendee[a] = <<>>
  BY DEF MineOf
<1>2. \A ip \in Addresses : TheirsOf(ip) = {} /\ address[ip] = <<>>
  BY DEF TheirsOf
<1> QED BY <1>1, <1>2, TailOfNone DEF AttendeeTails, AddressTails

LEMMA LimiterInit == Init => LimiterInv
<1> SUFFICES ASSUME Init PROVE LimiterInv
  OBVIOUS
<1> USE DEF Init
<1>1. Typed
  BY ConstantTypes DEF Typed, Requests, Idle, NoReply
<1>2. AttendeeTails /\ AddressTails
  BY FreshWindows
<1>3. Owned
  <2> DEFINE own == [i \in {} |-> NoThread]
  <2>1. DOMAIN granted = {} /\ own \in [DOMAIN granted -> Threads]
    OBVIOUS
  <2> QED BY <2>1 DEF Owned
<1> QED BY <1>1, <1>2, <1>3 DEF LimiterInv

LEMMA ReadClockKeeps ==
    ASSUME LimiterInv, NEW t \in Threads, NEW a \in Attendees,
           NEW ip \in Addresses \cup {NoAddress}, ReadClock(t, a, ip)
    PROVE  LimiterInv'
<1> USE DEF LimiterInv
<1> DEFINE r == [by |-> a, from |-> ip, now |-> clock]
<1>1. clock \in Nat /\ r \in Requests(clock)
  BY ConstantTypes DEF Typed, Requests
<1>2. Typed'
  <2>1. request' \in [Threads -> Requests(clock)]
    BY <1>1 DEF ReadClock, Typed
  <2> QED BY <2>1 DEF ReadClock, Typed, NoReply
<1>3. AttendeeTails' /\ AddressTails'
  BY DEF ReadClock, AttendeeTails, AddressTails, MineOf, TheirsOf
<1>4. Owned'
  <2>1. PICK own \in [DOMAIN granted -> Threads] :
             /\ \A i, j \in DOMAIN granted :
                  i < j /\ own[i] = own[j] => granted[i].at <= granted[j].now
             /\ \A i \in DOMAIN granted :
                  request[own[i]] # Idle => granted[i].at <= request[own[i]].now
    BY DEF Owned
  <2>2. ASSUME NEW i \in DOMAIN granted, request'[own[i]] # Idle
        PROVE  granted[i].at <= request'[own[i]].now
    <3>1. CASE own[i] = t
      <4>1. request'[own[i]].now = clock
        BY <3>1 DEF ReadClock, Typed
      <4> QED BY <4>1 DEF Typed
    <3>2. CASE own[i] # t
      <4>1. request'[own[i]] = request[own[i]]
        BY <3>2 DEF ReadClock, Typed
      <4> QED BY <2>1, <2>2, <4>1
    <3> QED BY <3>1, <3>2
  <2>3. granted' = granted
    BY DEF ReadClock
  <2> QED BY <2>1, <2>2, <2>3 DEF Owned
<1> QED BY <1>2, <1>3, <1>4

\* Whoever decides without a grant only forgets a request.
LEMMA OwnersStay ==
    ASSUME Owned, granted' = granted, NEW t \in Threads, request \in [Threads -> Requests(clock)],
           request' = [request EXCEPT ![t] = Idle]
    PROVE  Owned'
<1>1. PICK own \in [DOMAIN granted -> Threads] :
           /\ \A i, j \in DOMAIN granted :
                i < j /\ own[i] = own[j] => granted[i].at <= granted[j].now
           /\ \A i \in DOMAIN granted :
                request[own[i]] # Idle => granted[i].at <= request[own[i]].now
  BY DEF Owned
<1>2. ASSUME NEW i \in DOMAIN granted, request'[own[i]] # Idle
      PROVE  granted[i].at <= request'[own[i]].now
  <2>1. request'[own[i]] = request[own[i]]
    BY <1>2
  <2> QED BY <1>1, <1>2, <2>1
<1> QED BY <1>1, <1>2 DEF Owned

\* Whoever grants had read the clock after all its earlier grants.
LEMMA OwnersGrow ==
    ASSUME Typed, Owned, NEW t \in Threads, request[t] # Idle,
           request' = [request EXCEPT ![t] = Idle],
           NEW e \in Entries, e.now = request[t].now, e.at = clock,
           granted' = Append(granted, e)
    PROVE  Owned'
<1>1. PICK own \in [DOMAIN granted -> Threads] :
           /\ \A i, j \in DOMAIN granted :
                i < j /\ own[i] = own[j] => granted[i].at <= granted[j].now
           /\ \A i \in DOMAIN granted :
                request[own[i]] # Idle => granted[i].at <= request[own[i]].now
  BY DEF Owned
<1>2. PICK x \in Nat : /\ DOMAIN granted' = (DOMAIN granted) \cup {x}
                       /\ granted'[x] = e
                       /\ \A i \in DOMAIN granted : i < x /\ granted'[i] = granted[i]
  BY HistoryGrows
<1> DEFINE owner == [i \in (DOMAIN granted) \cup {x} |-> IF i = x THEN t ELSE own[i]]
<1>3. /\ owner[x] = t /\ owner \in [(DOMAIN granted) \cup {x} -> Threads]
      /\ \A i \in DOMAIN granted : owner[i] = own[i]
  <2>1. DOMAIN granted \in SUBSET Nat /\ \A i \in DOMAIN granted : i # x
    BY <1>2, HistoryIs
  <2> QED BY <1>1, <2>1
<1> HIDE DEF owner
<1>4. ASSUME NEW i \in DOMAIN granted', NEW j \in DOMAIN granted', i < j, owner[i] = owner[j]
      PROVE  granted'[i].at <= granted'[j].now
  <2>1. DOMAIN granted \in SUBSET Nat
    BY HistoryIs
  <2>2. i \in DOMAIN granted
    BY <1>2, <1>4, <2>1
  <2>3. CASE j \in DOMAIN granted
    BY <1>1, <1>2, <1>3, <1>4, <2>2, <2>3
  <2>4. CASE j = x
    <3>1. own[i] = t
      BY <1>3, <1>4, <2>2, <2>4
    <3>2. granted[i].at <= request[t].now
      BY <1>1, <2>2, <3>1
    <3> QED BY <1>2, <2>2, <2>4, <3>2
  <2> QED BY <1>2, <2>3, <2>4
<1>5. ASSUME NEW i \in DOMAIN granted', request'[owner[i]] # Idle
      PROVE  granted'[i].at <= request'[owner[i]].now
  <2>1. owner[i] \in Threads /\ owner[i] # t /\ request'[owner[i]] = request[owner[i]]
    BY <1>2, <1>3, <1>5 DEF Typed
  <2>2. i \in DOMAIN granted /\ owner[i] = own[i]
    BY <1>2, <1>3, <2>1
  <2> QED BY <1>1, <1>2, <1>5, <2>1, <2>2
<1> QED BY <1>2, <1>3, <1>4, <1>5 DEF Owned

LEMMA RefuseAttendeeKeeps ==
    ASSUME LimiterInv, NEW t \in Threads, RefuseAttendee(t)
    PROVE  LimiterInv'
<1> USE DEF LimiterInv
<1> DEFINE left  == AttendeeDeque(t)
           retry == RetryAfter(left, request[t].now, AttendeeWindow)
<1>1. /\ request[t] # Idle /\ Full(left, AttendeeMax)
      /\ attendee' = [attendee EXCEPT ![request[t].by] = left]
      /\ Decide(t, "rate_limited_attendee", retry)
      /\ address' = address /\ granted' = granted
  BY DEF RefuseAttendee
<1>2. /\ left \in Seq(Nat) /\ Len(left) \in Nat /\ Len(left) <= AttendeeMax
      /\ left # <<>> => left[1] + Ticks(AttendeeWindow) >= request[t].now
      /\ request[t].now \in Nat
  BY <1>1, AttendeeDequeIs, RequestType
<1> HIDE DEF left
<1>3. Len(left) # 0
  BY <1>1, <1>2, ConstantTypes DEF Full
<1>4. retry \in Nat
  BY <1>2, <1>3, RetryIs, ConstantTypes
<1> HIDE DEF retry
<1>5. /\ clock' = clock /\ newest' \in 0 .. clock /\ newest <= newest'
      /\ request[t].now <= newest'
      /\ request' \in [Threads -> Requests(clock)]
      /\ request' = [request EXCEPT ![t] = Idle]
      /\ reply'.to = t /\ reply'.retry = retry
  BY <1>1, <1>4, DecideIs
<1>6. newest' \in Nat
  BY <1>1, <1>5, RequestType
<1>7. Typed'
  <2>1. attendee' \in [Attendees -> Seq(Nat)]
    BY <1>1, <1>2 DEF Typed
  <2>2. ASSUME NEW a \in Attendees PROVE Len(attendee'[a]) <= AttendeeMax
    BY <1>1, <1>2 DEF Typed
  <2> QED BY <1>1, <1>4, <1>5, <2>1, <2>2 DEF Typed
<1>8. AttendeeTails'
  BY <1>1, <1>5, <1>6, AttendeePruned DEF left
<1>9. AddressTails'
  BY <1>1, <1>5, <1>6, AddressesStay DEF TheirsOf
<1>10. Owned'
  BY <1>1, <1>5, OwnersStay DEF Typed
<1> QED BY <1>7, <1>8, <1>9, <1>10

LEMMA RefuseAddressKeeps ==
    ASSUME LimiterInv, NEW t \in Threads, RefuseAddress(t)
    PROVE  LimiterInv'
<1> USE DEF LimiterInv
<1> DEFINE left  == AddressDeque(t)
           retry == RetryAfter(left, request[t].now, AddressWindow)
<1>1. /\ request[t] # Idle /\ request[t].from # NoAddress /\ Full(left, AddressMax)
      /\ attendee' = [attendee EXCEPT ![request[t].by] = AttendeeDeque(t)]
      /\ address' = [address EXCEPT ![request[t].from] = left]
      /\ Decide(t, "rate_limited_ip", retry)
      /\ granted' = granted
  BY DEF RefuseAddress, AttendeeSpared
<1>2. /\ left \in Seq(Nat) /\ Len(left) \in Nat /\ Len(left) <= AddressMax
      /\ left # <<>> => left[1] + Ticks(AddressWindow) >= request[t].now
      /\ request[t].now \in Nat
  BY <1>1, AddressDequeIs, RequestType
<1> HIDE DEF left
<1>3. Len(left) # 0
  BY <1>1, <1>2, ConstantTypes DEF Full
<1>4. retry \in Nat
  BY <1>2, <1>3, RetryIs, ConstantTypes
<1> HIDE DEF retry
<1>5. /\ clock' = clock /\ newest' \in 0 .. clock /\ newest <= newest'
      /\ request[t].now <= newest'
      /\ request' \in [Threads -> Requests(clock)]
      /\ request' = [request EXCEPT ![t] = Idle]
      /\ reply'.to = t /\ reply'.retry = retry
  BY <1>1, <1>4, DecideIs
<1>6. newest' \in Nat
  BY <1>1, <1>5, RequestType
<1>7. Typed'
  <2>1. AttendeeDeque(t) \in Seq(Nat) /\ Len(AttendeeDeque(t)) <= AttendeeMax
    BY <1>1, AttendeeDequeIs
  <2>2. attendee' \in [Attendees -> Seq(Nat)] /\ address' \in [Addresses -> Seq(Nat)]
    BY <1>1, <1>2, <2>1 DEF Typed
  <2>3. ASSUME NEW a \in Attendees PROVE Len(attendee'[a]) <= AttendeeMax
    BY <1>1, <2>1 DEF Typed
  <2>4. ASSUME NEW ip \in Addresses PROVE Len(address'[ip]) <= AddressMax
    BY <1>1, <1>2 DEF Typed
  <2> QED BY <1>1, <1>4, <1>5, <2>2, <2>3, <2>4 DEF Typed
<1>8. AttendeeTails'
  BY <1>1, <1>5, <1>6, AttendeePruned
<1>9. AddressTails'
  BY <1>1, <1>5, <1>6, AddressPruned DEF left
<1>10. Owned'
  BY <1>1, <1>5, OwnersStay DEF Typed
<1> QED BY <1>7, <1>8, <1>9, <1>10

LEMMA GrantKeeps ==
    ASSUME LimiterInv, NEW t \in Threads, Grant(t)
    PROVE  LimiterInv'
<1> USE DEF LimiterInv
<1> DEFINE left == AttendeeDeque(t)
           rest == AddressDeque(t)
           e == [by |-> request[t].by, from |-> request[t].from,
                 now |-> request[t].now, at |-> clock]
<1>1. /\ request[t] # Idle /\ ~ Full(left, AttendeeMax)
      /\ \/ request[t].from = NoAddress /\ address' = address
         \/ /\ request[t].from # NoAddress /\ ~ Full(rest, AddressMax)
            /\ address' = [address EXCEPT ![request[t].from] = Append(rest, request[t].now)]
      /\ attendee' = [attendee EXCEPT ![request[t].by] = Append(left, request[t].now)]
      /\ granted' = Append(granted, e)
      /\ Decide(t, "granted", 0)
  BY DEF Grant
<1>2. /\ left \in Seq(Nat) /\ Len(left) \in Nat
      /\ request[t].by \in Attendees /\ request[t].from \in Addresses \cup {NoAddress}
      /\ request[t].now \in Nat /\ request[t].now <= clock /\ clock \in Nat
  BY <1>1, AttendeeDequeIs, RequestType
<1>3. request[t].from # NoAddress => rest \in Seq(Nat) /\ Len(rest) \in Nat
  BY <1>1, AddressDequeIs
<1>4. /\ e \in Entries /\ e.by = request[t].by /\ e.from = request[t].from
      /\ e.now = request[t].now /\ e.at = clock
  BY <1>2 DEF Entries
<1> HIDE DEF left, rest, e
<1>5. /\ clock' = clock /\ newest' \in 0 .. clock /\ newest <= newest'
      /\ request[t].now <= newest'
      /\ request' \in [Threads -> Requests(clock)]
      /\ request' = [request EXCEPT ![t] = Idle]
      /\ reply'.to = t /\ reply'.retry = 0
  BY <1>1, DecideIs
<1>6. newest' \in Nat
  BY <1>2, <1>5
<1>7. PICK x \in Nat : /\ granted' \in Seq(Entries)
                       /\ DOMAIN granted' = (DOMAIN granted) \cup {x}
                       /\ granted'[x] = e
                       /\ \A i \in DOMAIN granted : i < x /\ granted'[i] = granted[i]
  BY <1>1, <1>4, HistoryGrows
<1>8. Typed'
  <2>1. /\ Append(left, request[t].now) \in Seq(Nat)
        /\ Len(Append(left, request[t].now)) <= AttendeeMax
    <3>1. Len(left) < AttendeeMax
      BY <1>1, <1>2, ConstantTypes DEF Full
    <3>2. Len(Append(left, request[t].now)) = Len(left) + 1
      BY <1>2
    <3> QED BY <1>2, <3>1, <3>2, ConstantTypes
  <2>2. attendee' \in [Attendees -> Seq(Nat)]
    BY <1>1, <2>1 DEF Typed
  <2>3. ASSUME NEW a \in Attendees PROVE Len(attendee'[a]) <= AttendeeMax
    BY <1>1, <2>1 DEF Typed
  <2>4. address' \in [Addresses -> Seq(Nat)]
          /\ \A ip \in Addresses : Len(address'[ip]) <= AddressMax
    <3>1. CASE request[t].from = NoAddress
      BY <1>1, <3>1 DEF Typed
    <3>2. CASE request[t].from # NoAddress
      <4>1. Len(rest) < AddressMax
        BY <1>1, <1>3, <3>2, ConstantTypes DEF Full
      <4>2. Len(Append(rest, request[t].now)) = Len(rest) + 1
        BY <1>2, <1>3, <3>2
      <4>3. /\ Append(rest, request[t].now) \in Seq(Nat)
            /\ Len(Append(rest, request[t].now)) <= AddressMax
        BY <1>2, <1>3, <3>2, <4>1, <4>2, ConstantTypes
      <4>4. address' = [address EXCEPT ![request[t].from] = Append(rest, request[t].now)]
        BY <1>1, <3>2
      <4> HIDE DEF LimiterInv
      <4> QED BY <4>3, <4>4 DEF Typed, LimiterInv
    <3> QED BY <3>1, <3>2
  <2>5. ASSUME NEW i \in DOMAIN granted'
        PROVE  granted'[i].now <= granted'[i].at /\ granted'[i].at <= clock
    <3>1. CASE i = x
      BY <1>2, <1>4, <1>7, <3>1
    <3>2. CASE i \in DOMAIN granted
      BY <1>7, <3>2 DEF Typed
    <3> QED BY <1>7, <3>1, <3>2
  <2> QED BY <1>5, <1>7, <2>2, <2>3, <2>4, <2>5 DEF Typed
<1>9. AttendeeTails'
  BY <1>1, <1>4, <1>5, <1>6, AttendeeIsCharged DEF left
<1>10. AddressTails'
  <2>1. CASE request[t].from = NoAddress
    <3>1. \A ip \in Addresses : TheirsOf(ip)' = TheirsOf(ip)
      <4>1. e.from \notin Addresses
        BY <1>4, <2>1, ConstantTypes
      <4> QED BY <1>7, <4>1, HistoryIs DEF TheirsOf
    <3>2. address' = address
      BY <1>1, <2>1
    <3> QED BY <1>5, <1>6, <1>7, <3>1, <3>2, AddressesStay
  <2>2. CASE request[t].from # NoAddress
    <3>1. address' = [address EXCEPT ![request[t].from] = Append(rest, request[t].now)]
      BY <1>1, <2>2
    <3> QED BY <1>1, <1>4, <1>5, <1>6, <2>2, <3>1, AddressIsCharged DEF rest
  <2> QED BY <2>1, <2>2
<1>11. Owned'
  BY <1>1, <1>4, <1>5, OwnersGrow
<1> QED BY <1>8, <1>9, <1>10, <1>11

LEMMA TickKeeps ==
    ASSUME LimiterInv, Tick
    PROVE  LimiterInv'
<1> USE DEF LimiterInv
<1>1. clock \in Nat /\ clock' = clock + 1 /\ clock' \in 0 .. Horizon
  BY ConstantTypes DEF Tick, Typed
<1>2. Requests(clock) \subseteq Requests(clock')
  BY <1>1 DEF Requests
<1>3. Typed'
  <2>1. request' \in [Threads -> Requests(clock')]
    BY <1>2 DEF Tick, Typed
  <2>2. newest' \in 0 .. clock'
    BY <1>1 DEF Tick, Typed
  <2>3. ASSUME NEW i \in DOMAIN granted PROVE granted[i].at <= clock'
    BY <1>1, HistoryIs DEF Typed
  <2> QED BY <1>1, <2>1, <2>2, <2>3 DEF Tick, Typed, NoReply
<1>4. AttendeeTails' /\ AddressTails' /\ Owned'
  BY DEF Tick, AttendeeTails, AddressTails, Owned, MineOf, TheirsOf
<1> QED BY <1>3, <1>4

LEMMA RestartKeeps ==
    ASSUME LimiterInv, Restart
    PROVE  LimiterInv'
<1> USE DEF LimiterInv
<1>1. Typed'
  <2>1. request' \in [Threads -> Requests(clock)]
    BY DEF Restart, Requests
  <2>2. clock \in Nat
    BY ConstantTypes DEF Typed
  <2> QED BY <2>1, <2>2, ConstantTypes DEF Restart, Typed, NoReply
<1>2. AttendeeTails' /\ AddressTails'
  <2>1. \A a \in Attendees : MineOf(a)' = {} /\ attendee'[a] = <<>>
    BY DEF Restart, MineOf
  <2>2. \A ip \in Addresses : TheirsOf(ip)' = {} /\ address'[ip] = <<>>
    BY DEF Restart, TheirsOf
  <2> QED BY <2>1, <2>2, TailOfNone DEF AttendeeTails, AddressTails
<1>3. Owned'
  <2> DEFINE own == [i \in {} |-> NoThread]
  <2>1. DOMAIN granted' = {} /\ own \in [DOMAIN granted' -> Threads]
    BY DEF Restart
  <2> QED BY <2>1 DEF Owned
<1> QED BY <1>1, <1>2, <1>3

LEMMA LimiterStep == LimiterInv /\ [Next]_vars => LimiterInv'
<1> SUFFICES ASSUME LimiterInv, [Next]_vars PROVE LimiterInv'
  OBVIOUS
<1>1. CASE \E t \in Threads, a \in Attendees,
             ip \in Addresses \cup {NoAddress} : ReadClock(t, a, ip)
  BY <1>1, ReadClockKeeps
<1>2. CASE \E t \in Threads : RefuseAttendee(t) \/ RefuseAddress(t) \/ Grant(t)
  BY <1>2, RefuseAttendeeKeeps, RefuseAddressKeeps, GrantKeeps
<1>3. CASE Tick
  BY <1>3, TickKeeps
<1>4. CASE Restart
  BY <1>4, RestartKeeps
<1>5. CASE UNCHANGED vars
  BY <1>5 DEF vars, LimiterInv, Typed, AttendeeTails, AddressTails, Owned, MineOf, TheirsOf
<1> QED BY <1>1, <1>2, <1>3, <1>4, <1>5 DEF Next

LEMMA LimiterInductive == Spec => []LimiterInv
<1> QED BY LimiterInit, LimiterStep, PTL DEF Spec

-----------------------------------------------------------------------------
(* Types. *)

\* The entries of a deque are readings, and no later than the clock.
LEMMA EntriesArePast ==
    ASSUME Typed, NEW S \in SUBSET DOMAIN granted, NEW dq \in Seq(Nat), NEW n, NEW window,
           TailOf(granted, n, dq, S, window)
    PROVE  dq \in Seq(0 .. clock)
<1>1. PICK p \in [1 .. Len(dq) -> S] : \A j \in 1 .. Len(dq) : dq[j] = granted[p[j]].now
  BY DEF TailOf
<1>2. clock \in Nat
  BY ConstantTypes DEF Typed
<1>3. ASSUME NEW j \in 1 .. Len(dq) PROVE dq[j] \in 0 .. clock
  <2>1. p[j] \in DOMAIN granted
    BY <1>1
  <2>2. granted[p[j]].now \in Nat /\ granted[p[j]].at \in Nat
    BY <2>1, HistoryIs
  <2>3. granted[p[j]].now <= granted[p[j]].at /\ granted[p[j]].at <= clock
    BY <2>1 DEF Typed
  <2>4. granted[p[j]].now \in 0 .. clock
    BY <1>2, <2>2, <2>3
  <2> QED BY <1>1, <2>4
<1>4. PICK l \in Nat : l = Len(dq)
  OBVIOUS
<1> DEFINE all == SubSeq(dq, 1, l)
<1>5. /\ all \in Seq(0 .. clock) /\ Len(all) = l
      /\ \A j \in 1 .. l : all[j] = dq[j]
  <2>1. /\ all \in Seq(0 .. clock)
        /\ Len(all) = IF 1 <= l THEN l - 1 + 1 ELSE 0
        /\ \A j \in 1 .. l - 1 + 1 : all[j] = dq[1 + j - 1]
    BY <1>3, <1>4, SubSeqProperties
  <2>2. (l - 1 + 1 = l) /\ \A j \in 1 .. l : 1 + j - 1 = j
    OBVIOUS
  <2> HIDE DEF all
  <2> QED BY <2>1, <2>2
<1>6. all = dq
  <2>1. all \in Seq(Nat)
    BY <1>5, SeqMonotonic, <1>2
  <2> HIDE DEF all
  <2> QED BY <1>4, <1>5, <2>1, SeqEqual
<1> QED BY <1>5, <1>6

\* Every variable has its type, and no deque grows beyond its limit, for any limits,
\* windows, threads and keys (checkins.py 46-56, 91-110).
THEOREM LimiterTypeCorrect == Spec => []TypeOK
<1>1. LimiterInv => TypeOK
  <2> SUFFICES ASSUME LimiterInv PROVE TypeOK
    OBVIOUS
  <2> USE DEF LimiterInv
  <2>1. ASSUME NEW a \in Attendees PROVE attendee[a] \in Seq(0 .. clock)
    <3>1. /\ attendee[a] \in Seq(Nat) /\ MineOf(a) \in SUBSET DOMAIN granted
          /\ TailOf(granted, newest, attendee[a], MineOf(a), AttendeeWindow)
      BY DEF Typed, AttendeeTails, MineOf
    <3> QED BY <3>1, EntriesArePast
  <2>2. ASSUME NEW ip \in Addresses PROVE address[ip] \in Seq(0 .. clock)
    <3>1. /\ address[ip] \in Seq(Nat) /\ TheirsOf(ip) \in SUBSET DOMAIN granted
          /\ TailOf(granted, newest, address[ip], TheirsOf(ip), AddressWindow)
      BY DEF Typed, AddressTails, TheirsOf
    <3> QED BY <3>1, EntriesArePast
  <2> QED BY <2>1, <2>2 DEF Typed, TypeOK, Requests
<1> QED BY <1>1, LimiterInductive, PTL

-----------------------------------------------------------------------------
(* Windows of real time. *)

\* Of the grants S, those of the window of real time that ends at e.
AtOf(S, e, window) ==
    {i \in S : granted[i].at <= e /\ granted[i].at + Ticks(window) >= e}

\* The window that ends now sees what its deque still holds, and at most one grant for
\* each thread that had read the clock before the window began.
LEMMA GrantsOfNow ==
    ASSUME Typed, Owned, NEW S \in SUBSET DOMAIN granted, NEW dq \in Seq(Nat),
           NEW window \in Nat, NEW max \in Nat, Len(dq) <= max,
           TailOf(granted, newest, dq, S, window)
    PROVE  Cardinality(AtOf(S, clock, window)) <= max + Cardinality(Threads)
<1> DEFINE fresh == LateOf(granted, newest, S, window)
           stale == AtOf(S, clock, window) \ fresh
<1>1. newest \in Nat /\ clock \in Nat /\ newest <= clock
  BY ConstantTypes DEF Typed
<1>2. IsFiniteSet(fresh) /\ Cardinality(fresh) <= Len(dq)
  BY <1>1, TailCounts
<1>3. PICK own \in [DOMAIN granted -> Threads] :
           \A i, j \in DOMAIN granted :
             i < j /\ own[i] = own[j] => granted[i].at <= granted[j].now
  BY DEF Owned
<1>4. ASSUME NEW i \in stale, NEW j \in stale, own[i] = own[j]
      PROVE  ~ (i < j)
  <2>1. /\ i \in DOMAIN granted /\ j \in DOMAIN granted
        /\ granted[i].at + Ticks(window) >= clock
        /\ ~ (granted[j].now + Ticks(window) >= newest)
    BY DEF AtOf, LateOf
  <2>2. granted[i].at \in Nat /\ granted[j].now \in Nat /\ Ticks(window) \in Nat
    BY <2>1, HistoryIs, TicksType
  <2> QED BY <1>1, <1>3, <1>4, <2>1, <2>2
<1>5. \A i, j \in stale : own[i] = own[j] => i = j
  <2>1. stale \in SUBSET Nat
    BY HistoryIs DEF AtOf
  <2> HIDE DEF stale
  <2> QED BY <1>4, <2>1
<1>6. IsFiniteSet(stale) /\ Cardinality(stale) <= Cardinality(Threads)
  <2> DEFINE f == [i \in stale |-> own[i]]
  <2>1. f \in [stale -> Threads] /\ \A i \in stale : f[i] = own[i]
    BY <1>3 DEF AtOf
  <2>2. \A i, j \in stale : f[i] = f[j] => i = j
    BY <1>5, <2>1
  <2> HIDE DEF f, stale
  <2> QED BY <2>1, <2>2, ConstantTypes, NamedCount
<1> HIDE DEF fresh, stale
<1>7. /\ IsFiniteSet(fresh \cup stale)
      /\ Cardinality(fresh \cup stale)
           = Cardinality(fresh) + Cardinality(stale) - Cardinality(fresh \cap stale)
  BY <1>2, <1>6, FS_Union
<1>8. /\ Cardinality(fresh) \in Nat /\ Cardinality(stale) \in Nat
      /\ Cardinality(fresh \cap stale) \in Nat
  <2>1. IsFiniteSet(fresh \cap stale)
    BY <1>2, FS_Subset
  <2> QED BY <1>2, <1>6, <2>1, FS_CardinalityType
<1>9. Cardinality(AtOf(S, clock, window)) <= Cardinality(fresh \cup stale)
  <2>1. AtOf(S, clock, window) \subseteq fresh \cup stale
    BY DEF stale
  <2> QED BY <1>7, <2>1, FS_Subset
<1>10. Cardinality(AtOf(S, clock, window)) \in Nat
  <2>1. AtOf(S, clock, window) \subseteq fresh \cup stale
    BY DEF stale
  <2>2. IsFiniteSet(AtOf(S, clock, window))
    BY <1>7, <2>1, FS_Subset
  <2> QED BY <2>2, FS_CardinalityType
<1>11. Len(dq) \in Nat
  OBVIOUS
<1> QED BY <1>2, <1>6, <1>7, <1>8, <1>9, <1>10, <1>11, ConstantTypes

\* What StalledGrantsBounded says of the windows that end at e.
BoundedAt(e) ==
    /\ \A a \in Attendees :
         Cardinality(AtOf(MineOf(a), e, AttendeeWindow)) <= AttendeeMax + Cardinality(Threads)
    /\ \A ip \in Addresses :
         Cardinality(AtOf(TheirsOf(ip), e, AddressWindow)) <= AddressMax + Cardinality(Threads)

LEMMA BoundedIsEverywhere == StalledGrantsBounded <=> \A e \in 0 .. clock : BoundedAt(e)
<1> QED BY DEF StalledGrantsBounded, BoundedAt, GrantsAt, AtOf, MineOf, TheirsOf

LEMMA BoundedNow == LimiterInv => BoundedAt(clock)
<1> SUFFICES ASSUME LimiterInv PROVE BoundedAt(clock)
  OBVIOUS
<1> USE DEF LimiterInv
<1>1. ASSUME NEW a \in Attendees
      PROVE  Cardinality(AtOf(MineOf(a), clock, AttendeeWindow))
               <= AttendeeMax + Cardinality(Threads)
  <2>1. /\ attendee[a] \in Seq(Nat) /\ Len(attendee[a]) <= AttendeeMax
        /\ MineOf(a) \in SUBSET DOMAIN granted
        /\ TailOf(granted, newest, attendee[a], MineOf(a), AttendeeWindow)
    BY DEF Typed, AttendeeTails, MineOf
  <2> QED BY <2>1, GrantsOfNow, ConstantTypes
<1>2. ASSUME NEW ip \in Addresses
      PROVE  Cardinality(AtOf(TheirsOf(ip), clock, AddressWindow))
               <= AddressMax + Cardinality(Threads)
  <2>1. /\ address[ip] \in Seq(Nat) /\ Len(address[ip]) <= AddressMax
        /\ TheirsOf(ip) \in SUBSET DOMAIN granted
        /\ TailOf(granted, newest, address[ip], TheirsOf(ip), AddressWindow)
    BY DEF Typed, AddressTails, TheirsOf
  <2> QED BY <2>1, GrantsOfNow, ConstantTypes
<1> QED BY <1>1, <1>2 DEF BoundedAt

\* A window that has passed sees no further grants: they come at the clock, if at all.
LEMMA PastIsFrozen ==
    ASSUME Typed, [Next]_vars, NEW e \in 0 .. clock', e # clock'
    PROVE  /\ e \in 0 .. clock
           /\ \/ granted' = <<>>
              \/ /\ DOMAIN granted \subseteq DOMAIN granted'
                 /\ \A i \in DOMAIN granted : granted'[i] = granted[i]
                 /\ \A i \in (DOMAIN granted') \ DOMAIN granted : ~ (granted'[i].at <= e)
<1>1. clock \in Nat
  BY ConstantTypes DEF Typed
<1>2. CASE \E t \in Threads, a \in Attendees,
             ip \in Addresses \cup {NoAddress} : ReadClock(t, a, ip)
  BY <1>2 DEF ReadClock
<1>3. ASSUME NEW t \in Threads, RefuseAttendee(t) \/ RefuseAddress(t)
      PROVE  clock' = clock /\ granted' = granted
  BY <1>3 DEF RefuseAttendee, RefuseAddress, Decide
<1>4. ASSUME NEW t \in Threads, Grant(t)
      PROVE  /\ clock' = clock
             /\ DOMAIN granted \subseteq DOMAIN granted'
             /\ \A i \in DOMAIN granted : granted'[i] = granted[i]
             /\ \A i \in (DOMAIN granted') \ DOMAIN granted : granted'[i].at = clock
  <2> DEFINE g == [by |-> request[t].by, from |-> request[t].from,
                   now |-> request[t].now, at |-> clock]
  <2>1. request[t] # Idle /\ granted' = Append(granted, g) /\ clock' = clock
    BY <1>4 DEF Grant, Decide
  <2>2. g \in Entries /\ g.at = clock
    BY <1>1, <2>1, RequestType DEF Entries
  <2> HIDE DEF g
  <2> QED BY <2>1, <2>2, HistoryGrows
<1>5. CASE Tick
  BY <1>1, <1>5 DEF Tick
<1>6. CASE Restart
  BY <1>6 DEF Restart
<1>7. CASE UNCHANGED vars
  BY <1>7 DEF vars
<1>8. ASSUME NEW t \in Threads, Grant(t)
      PROVE  /\ e \in 0 .. clock
             /\ \A i \in (DOMAIN granted') \ DOMAIN granted : ~ (granted'[i].at <= e)
  BY <1>1, <1>4, <1>8
<1> QED BY <1>2, <1>3, <1>4, <1>5, <1>6, <1>7, <1>8 DEF Next

LEMMA BoundedStep ==
    ASSUME LimiterInv, StalledGrantsBounded, [Next]_vars, BoundedAt(clock)'
    PROVE  StalledGrantsBounded'
<1> SUFFICES ASSUME NEW e \in 0 .. clock', e # clock'
             PROVE  BoundedAt(e)'
  BY BoundedIsEverywhere DEF StalledGrantsBounded, BoundedAt, GrantsAt, AtOf, MineOf, TheirsOf
<1>1. /\ e \in 0 .. clock
      /\ \/ granted' = <<>>
         \/ /\ DOMAIN granted \subseteq DOMAIN granted'
            /\ \A i \in DOMAIN granted : granted'[i] = granted[i]
            /\ \A i \in (DOMAIN granted') \ DOMAIN granted : ~ (granted'[i].at <= e)
  BY PastIsFrozen DEF LimiterInv
<1>2. BoundedAt(e)
  BY <1>1, BoundedIsEverywhere
<1>3. CASE granted' = <<>>
  <2>1. Cardinality({}) = 0 /\ 0 <= AttendeeMax + Cardinality(Threads)
        /\ 0 <= AddressMax + Cardinality(Threads)
    BY FS_EmptySet, ConstantTypes
  <2>2. \A a \in Attendees : AtOf(MineOf(a), e, AttendeeWindow)' =
          {}
    BY <1>3 DEF AtOf, MineOf
  <2>3. \A ip \in Addresses : AtOf(TheirsOf(ip), e, AddressWindow)' = {}
    BY <1>3 DEF AtOf, TheirsOf
  <2>4. ASSUME NEW a \in Attendees
        PROVE  Cardinality(AtOf(MineOf(a), e, AttendeeWindow)')
                 <= AttendeeMax + Cardinality(Threads)
    BY <2>1, <2>2
  <2>5. ASSUME NEW ip \in Addresses
        PROVE  Cardinality(AtOf(TheirsOf(ip), e, AddressWindow)')
                 <= AddressMax + Cardinality(Threads)
    BY <2>1, <2>3
  <2> QED BY <2>4, <2>5 DEF BoundedAt
<1>4. CASE granted' # <<>>
  <2>1. \A a \in Attendees : AtOf(MineOf(a), e, AttendeeWindow)' =
          AtOf(MineOf(a), e, AttendeeWindow)
    BY <1>1, <1>4 DEF AtOf, MineOf
  <2>2. \A ip \in Addresses : AtOf(TheirsOf(ip), e, AddressWindow)' =
          AtOf(TheirsOf(ip), e, AddressWindow)
    BY <1>1, <1>4 DEF AtOf, TheirsOf
  <2> QED BY <1>2, <2>1, <2>2 DEF BoundedAt
<1> QED BY <1>3, <1>4

\* However long threads stall between the clock and the lock, no window of real time
\* sees more grants than the limit and one for each thread, for any limits, windows,
\* threads and keys, across restarts (checkins.py 46-56).
THEOREM StalledGrantsAreBounded == Spec => []StalledGrantsBounded
<1>1. Init => StalledGrantsBounded
  <2> SUFFICES ASSUME Init, NEW e \in 0 .. clock PROVE BoundedAt(e)
    BY BoundedIsEverywhere
  <2>1. \A a \in Attendees : AtOf(MineOf(a), e, AttendeeWindow) = {}
    BY DEF Init, AtOf, MineOf
  <2>2. \A ip \in Addresses : AtOf(TheirsOf(ip), e, AddressWindow) = {}
    BY DEF Init, AtOf, TheirsOf
  <2> QED BY <2>1, <2>2, FS_EmptySet, ConstantTypes DEF BoundedAt
<1>2. LimiterInv /\ StalledGrantsBounded /\ [Next]_vars /\ BoundedAt(clock)'
        => StalledGrantsBounded'
  BY BoundedStep
<1> QED BY <1>1, <1>2, BoundedNow, LimiterInductive, PTL DEF Spec

-----------------------------------------------------------------------------
(* Orderly answers. *)

\* What a request finds whose reading nobody has overtaken: the tail of its key's
\* grants, cut at its own window.
LEMMA OrderlyTail ==
    ASSUME NEW g, NEW n \in Nat, NEW now \in Nat, now >= n,
           NEW dq \in Seq(Nat), NEW S \in SUBSET Nat, NEW window \in Nat,
           Readings(g, S),
           TailOf(g, n, dq, S, window)
    PROVE  TailOf(g, now, Prune(dq, now, window), S, window)
<1> QED BY TailPruned, SMTT(30)

\* A grant found room in the window.
LEMMA GrantIsDue ==
    ASSUME NEW g, NEW now \in Nat, NEW left \in Seq(Nat), NEW S, NEW window \in Nat,
           NEW max \in Nat, Len(left) < max,
           TailOf(g, now, left, S, window)
    PROVE  Cardinality(LateOf(g, now, S, window)) < max
<1>1. /\ IsFiniteSet(LateOf(g, now, S, window))
      /\ Cardinality(LateOf(g, now, S, window)) <= Len(left)
  BY TailCounts
<1>2. Cardinality(LateOf(g, now, S, window)) \in Nat /\ Len(left) \in Nat
  BY <1>1, FS_CardinalityType
<1> QED BY <1>1, <1>2

\* The first grant of a set.
FirstOf(full) == CHOOSE i \in full : \A j \in full : i <= j

\* The grants of S came in the order of their readings.
Ordered(g, S) == \A i, j \in S : i < j => g[i].now <= g[j].now

\* The head of a deque is within the window.
Live(left, now, window) == left[1] + Ticks(window) >= now

\* What is left of a deque has all its grants in the window, and the first of them at its
\* head, if the grants came in the order of their readings.
LEMMA FullIsFull ==
    ASSUME NEW g, NEW now \in Nat, NEW left \in Seq(Nat), NEW S \in SUBSET Nat,
           NEW window \in Nat, Len(left) # 0,
           Readings(g, S),
           Ordered(g, S),
           Live(left, now, window),
           TailOf(g, now, left, S, window)
    PROVE  /\ Cardinality(LateOf(g, now, S, window)) >= Len(left)
           /\ g[FirstOf(LateOf(g, now, S, window))].now = left[1]
<1>1. PICK p \in [1 .. Len(left) -> S] :
           /\ \A j, k \in 1 .. Len(left) : j < k => p[j] < p[k]
           /\ \A j \in 1 .. Len(left) : left[j] = g[p[j]].now
           /\ \A i \in S : g[i].now + Ticks(window) >= now => \E j \in 1 .. Len(left) : p[j] = i
  BY DEF TailOf
<1> DEFINE full == LateOf(g, now, S, window)
<1>2. PICK l \in Nat : l = Len(left) /\ 1 \in 1 .. l
  <2>1. PICK l \in Nat : l = Len(left)
    OBVIOUS
  <2>2. l # 0
    BY <2>1
  <2>3. 1 \in 1 .. l
    BY <2>2
  <2> QED BY <2>1, <2>3
<1>3. ASSUME NEW j \in 1 .. l
      PROVE  p[j] \in full /\ p[1] <= p[j]
  <2>1. p[1] \in S /\ p[j] \in S /\ p[1] \in Nat /\ p[j] \in Nat
    BY <1>1, <1>2
  <2>2. j = 1 \/ p[1] < p[j]
    BY <1>1, <1>2
  <2>3. g[p[1]].now \in Nat /\ g[p[j]].now \in Nat /\ Ticks(window) \in Nat
    BY <2>1, TicksType DEF Readings
  <2>4. g[p[1]].now = left[1]
    BY <1>1, <1>2
  <2>5. g[p[1]].now <= g[p[j]].now
    <3>1. CASE j = 1
      BY <2>3, <3>1
    <3>2. CASE p[1] < p[j]
      BY <2>1, <3>2 DEF Ordered
    <3> QED BY <2>2, <3>1, <3>2
  <2>6. g[p[j]].now + Ticks(window) >= now
    <3>1. PICK a \in Nat : a = g[p[1]].now
      BY <2>3
    <3>2. PICK b \in Nat : b = g[p[j]].now
      BY <2>3
    <3>3. PICK w \in Nat : w = Ticks(window)
      BY <2>3
    <3>4. a <= b /\ a + w >= now
      BY <2>4, <2>5, <3>1, <3>2, <3>3 DEF Live
    <3>5. b + w >= now
      BY <3>4
    <3> QED BY <3>2, <3>3, <3>5
  <2> QED BY <2>1, <2>2, <2>6 DEF LateOf
<1>4. \A i \in full : i \in Nat /\ \E j \in 1 .. l : p[j] = i
  BY <1>1, <1>2 DEF LateOf
<1>5. IsFiniteSet(full)
  BY TailCounts
<1>6. Cardinality(full) >= l
  <2>1. p \in [1 .. l -> full]
    BY <1>1, <1>2, <1>3
  <2>2. \A j, k \in 1 .. l : p[j] = p[k] => j = k
    <3> SUFFICES ASSUME NEW j \in 1 .. l, NEW k \in 1 .. l, j # k PROVE p[j] # p[k]
      OBVIOUS
    <3>1. p[j] \in Nat /\ p[k] \in Nat
      BY <1>1, <1>2
    <3>2. j < k \/ k < j
      OBVIOUS
    <3> QED BY <1>1, <1>2, <3>1, <3>2
  <2>3. Cardinality(1 .. l) = l
    <3>1. Cardinality(1 .. l) = IF 1 > l THEN 0 ELSE l - 1 + 1
      BY FS_Interval
    <3> QED BY <3>1
  <2> HIDE DEF full
  <2>4. Cardinality(1 .. l) <= Cardinality(full)
    BY <1>5, <2>1, <2>2, NamedCount
  <2> QED BY <1>5, <2>3, <2>4, FS_CardinalityType
<1>7. FirstOf(full) = p[1]
  <2>1. p[1] \in full /\ \A j \in full : p[1] <= j
    BY <1>2, <1>3, <1>4
  <2>2. \A i \in full : (\A j \in full : i <= j) => i = p[1]
    BY <1>4, <2>1
  <2> HIDE DEF full
  <2> QED BY <2>1, <2>2 DEF FirstOf
<1>8. g[p[1]].now = left[1]
  BY <1>1, <1>2
<1>9. Cardinality(full) >= Len(left)
  BY <1>2, <1>6
<1> QED BY <1>7, <1>8, <1>9

\* A refusal found the window full, and tells when its first grant leaves it.
LEMMA RefusalIsTold ==
    ASSUME NEW now \in Nat, NEW left \in Seq(Nat), NEW S \in SUBSET DOMAIN granted,
           NEW window \in Nat, NEW max \in Nat \ {0}, Len(left) >= max,
           Typed, InOrder(S),
           left[1] + Ticks(window) >= now,
           TailOf(granted, now, left, S, window)
    PROVE  RefusalIsDue(S, now, window, max, RetryAfter(left, now, window))
<1>1. Recent(S, now, window) = LateOf(granted, now, S, window)
  BY DEF Recent, LateOf
<1>2. S \in SUBSET Nat /\ Readings(granted, S)
  BY HistoryIs DEF Readings
<1>3. Ordered(granted, S)
  BY DEF InOrder, Ordered
<1>4. /\ Len(left) \in Nat /\ Len(left) # 0
      /\ Live(left, now, window)
  BY DEF Live
<1>5. /\ Cardinality(LateOf(granted, now, S, window)) >= Len(left)
      /\ granted[FirstOf(LateOf(granted, now, S, window))].now = left[1]
  <2>1. Cardinality(LateOf(granted, now, S, window)) >= Len(left)
    BY <1>2, <1>3, <1>4, FullIsFull
  <2>2. granted[FirstOf(LateOf(granted, now, S, window))].now = left[1]
    BY <1>2, <1>3, <1>4, FullIsFull
  <2> QED BY <2>1, <2>2
<1>6. /\ left[1] + Ticks(window) < now + Ticks(RetryAfter(left, now, window))
      /\ now + Ticks(RetryAfter(left, now, window)) <= left[1] + Ticks(window) + Ticks(1)
  BY <1>4, RetryIs
<1>7. Cardinality(LateOf(granted, now, S, window)) >= max
  <2>1. Cardinality(LateOf(granted, now, S, window)) \in Nat
    BY TailCounts, FS_CardinalityType
  <2> QED BY <1>4, <1>5, <2>1
<1> QED BY <1>1, <1>5, <1>6, <1>7 DEF RefusalIsDue, FirstOf

\* An answer to a request whose reading nobody has overtaken is exact, for any limits,
\* windows, threads and keys: a grant keeps the limit, a refusal is due, was caused by
\* grants alone, and says for how long (checkins.py 46-56, 91-110).
THEOREM OrderlyAnswersAreExact == Spec => OrderlyAnswerIsExact
<1> DEFINE Exact(t) ==
             LET r      == request[t]
                 Mine   == {i \in DOMAIN granted : granted[i].by = r.by}
                 Theirs == {i \in DOMAIN granted : granted[i].from = r.from}
             IN  /\ reply'.code = "granted" =>
                      /\ Cardinality(Recent(Mine, r.now, AttendeeWindow)) < AttendeeMax
                      /\ r.from # NoAddress =>
                           Cardinality(Recent(Theirs, r.now, AddressWindow)) < AddressMax
                 /\ reply'.code = "rate_limited_attendee" /\ InOrder(Mine) =>
                      RefusalIsDue(Mine, r.now, AttendeeWindow, AttendeeMax, reply'.retry)
                 /\ reply'.code = "rate_limited_ip" /\ InOrder(Theirs) =>
                      RefusalIsDue(Theirs, r.now, AddressWindow, AddressMax, reply'.retry)
<1>1. ASSUME LimiterInv, [Next]_vars, NEW t \in Threads, ~ UNCHANGED vars,
             reply'.to = t, request[t].now >= newest
      PROVE  Exact(t)
  <2> USE DEF LimiterInv
  <2>1. RefuseAttendee(t) \/ RefuseAddress(t) \/ Grant(t)
    <3>1. reply'.to # NoThread
      BY <1>1, ConstantTypes
    <3>2. ASSUME NEW u \in Threads, RefuseAttendee(u) \/ RefuseAddress(u) \/ Grant(u)
          PROVE  u = t
      BY <1>1, <3>2 DEF RefuseAttendee, RefuseAddress, Grant, Decide
    <3> QED BY <1>1, <3>1, <3>2 DEF Next, ReadClock, Tick, Restart, NoReply
  <2>2. request[t] # Idle
    BY <2>1 DEF RefuseAttendee, RefuseAddress, Grant
  <2> DEFINE r == request[t]
             mine == AttendeeDeque(t)
             theirs == AddressDeque(t)
  <2>3. /\ r.by \in Attendees /\ r.from \in Addresses \cup {NoAddress}
        /\ r.now \in Nat /\ newest \in Nat
    BY <1>1, <2>2, RequestType
  <2>4. /\ mine \in Seq(Nat) /\ Len(mine) \in Nat
        /\ mine # <<>> => mine[1] + Ticks(AttendeeWindow) >= r.now
        /\ TailOf(granted, r.now, mine, MineOf(r.by), AttendeeWindow)
    <3>1. /\ mine = Prune(attendee[r.by], r.now, AttendeeWindow)
          /\ attendee[r.by] \in Seq(Nat)
          /\ TailOf(granted, newest, attendee[r.by], MineOf(r.by), AttendeeWindow)
      BY <1>1, <2>3 DEF AttendeeDeque, AttendeeTails, Typed
    <3>2. MineOf(r.by) \in SUBSET Nat /\ Readings(granted, MineOf(r.by))
      BY <1>1, HistoryIs DEF MineOf, Readings
    <3>3. TailOf(granted, r.now, Prune(attendee[r.by], r.now, AttendeeWindow), MineOf(r.by),
                 AttendeeWindow)
      BY <1>1, <2>3, <3>1, <3>2, OrderlyTail, ConstantTypes
    <3> QED BY <1>1, <2>2, <3>1, <3>3, AttendeeDequeIs
  <2>5. r.from # NoAddress =>
          /\ theirs \in Seq(Nat) /\ Len(theirs) \in Nat
          /\ theirs # <<>> => theirs[1] + Ticks(AddressWindow) >= r.now
          /\ TailOf(granted, r.now, theirs, TheirsOf(r.from), AddressWindow)
    <3> SUFFICES ASSUME r.from # NoAddress
                 PROVE  /\ theirs \in Seq(Nat) /\ Len(theirs) \in Nat
                        /\ theirs # <<>> => theirs[1] + Ticks(AddressWindow) >= r.now
                        /\ TailOf(granted, r.now, theirs, TheirsOf(r.from), AddressWindow)
      OBVIOUS
    <3>1. /\ theirs = Prune(address[r.from], r.now, AddressWindow)
          /\ address[r.from] \in Seq(Nat)
          /\ TailOf(granted, newest, address[r.from], TheirsOf(r.from), AddressWindow)
      BY <1>1, <2>3 DEF AddressDeque, AddressTails, Typed
    <3>2. TheirsOf(r.from) \in SUBSET Nat /\ Readings(granted, TheirsOf(r.from))
      BY <1>1, HistoryIs DEF TheirsOf, Readings
    <3>3. TailOf(granted, r.now, Prune(address[r.from], r.now, AddressWindow), TheirsOf(r.from),
                 AddressWindow)
      BY <1>1, <2>3, <3>1, <3>2, OrderlyTail, ConstantTypes
    <3> QED BY <1>1, <2>2, <3>1, <3>3, AddressDequeIs
  <2> HIDE DEF mine, theirs
  <2>6. CASE RefuseAttendee(t)
    <3>1. /\ reply'.code = "rate_limited_attendee" /\ Len(mine) >= AttendeeMax
          /\ reply'.retry = RetryAfter(mine, r.now, AttendeeWindow)
      BY <2>6 DEF RefuseAttendee, Decide, Full, mine
    <3>2. mine # <<>>
      BY <2>4, <3>1, ConstantTypes
    <3>3. InOrder(MineOf(r.by)) =>
            RefusalIsDue(MineOf(r.by), r.now, AttendeeWindow, AttendeeMax, reply'.retry)
      <4>1. MineOf(r.by) \in SUBSET DOMAIN granted
        BY DEF MineOf
      <4> QED BY <1>1, <2>3, <2>4, <3>1, <3>2, <4>1, RefusalIsTold, ConstantTypes
    <3> QED BY <3>1, <3>3 DEF MineOf
  <2>7. CASE RefuseAddress(t)
    <3>1. /\ reply'.code = "rate_limited_ip" /\ Len(theirs) >= AddressMax
          /\ reply'.retry = RetryAfter(theirs, r.now, AddressWindow) /\ r.from # NoAddress
      BY <2>7 DEF RefuseAddress, Decide, Full, theirs
    <3>2. theirs # <<>>
      BY <2>5, <3>1, ConstantTypes
    <3>3. InOrder(TheirsOf(r.from)) =>
            RefusalIsDue(TheirsOf(r.from), r.now, AddressWindow, AddressMax, reply'.retry)
      <4>1. TheirsOf(r.from) \in SUBSET DOMAIN granted
        BY DEF TheirsOf
      <4> QED BY <1>1, <2>3, <2>5, <3>1, <3>2, <4>1, RefusalIsTold, ConstantTypes
    <3> QED BY <3>1, <3>3 DEF TheirsOf
  <2>8. CASE Grant(t)
    <3>1. /\ reply'.code = "granted" /\ ~ (Len(mine) >= AttendeeMax)
          /\ r.from # NoAddress => ~ (Len(theirs) >= AddressMax)
      BY <2>8 DEF Grant, Decide, Full, mine, theirs
    <3>2. Cardinality(LateOf(granted, r.now, MineOf(r.by), AttendeeWindow)) < AttendeeMax
      <4>1. Len(mine) < AttendeeMax
        BY <2>4, <3>1, ConstantTypes
      <4> QED BY <2>3, <2>4, <4>1, GrantIsDue, ConstantTypes
    <3>3. r.from # NoAddress =>
            Cardinality(LateOf(granted, r.now, TheirsOf(r.from), AddressWindow)) < AddressMax
      <4> SUFFICES ASSUME r.from # NoAddress
                   PROVE  Cardinality(LateOf(granted, r.now, TheirsOf(r.from), AddressWindow))
                            < AddressMax
        OBVIOUS
      <4>1. Len(theirs) < AddressMax
        BY <2>5, <3>1, ConstantTypes
      <4> QED BY <2>3, <2>5, <4>1, GrantIsDue, ConstantTypes
    <3> QED BY <3>1, <3>2, <3>3 DEF MineOf, TheirsOf, Recent, LateOf
  <2> QED BY <2>1, <2>6, <2>7, <2>8
<1>2. LimiterInv /\ [Next]_vars =>
        [\A t \in Threads : reply'.to = t /\ request[t].now >= newest => Exact(t)]_vars
  BY <1>1
<1> QED BY <1>2, LimiterInductive, PTL DEF Spec, OrderlyAnswerIsExact

-----------------------------------------------------------------------------
(* Seconds. *)

\* A tick is in its second, and a duration that is rounded to a second is that of its
\* second or one more.
LEMMA SecondIs ==
    ASSUME NEW e \in Nat
    PROVE  /\ Tokens!Second(e) \in Nat /\ Tokens!Rounded(e) \in Nat
           /\ Tokens!Second(e) * Resolution <= e /\ e < (Tokens!Second(e) + 1) * Resolution
           /\ Tokens!Second(e) <= Tokens!Rounded(e) /\ Tokens!Rounded(e) <= Tokens!Second(e) + 1
<1> PICK d \in Nat \ {0} : d = Resolution
  BY TokensAssumption DEF Tokens!TokenAssumption
<1>1. /\ Tokens!Second(e) \in Nat
      /\ Tokens!Second(e) * d <= e /\ e < Tokens!Second(e) * d + d
  <2>1. e \div d \in Nat /\ (e \div d) * d <= e /\ e < (e \div d) * d + d
    OBVIOUS
  <2> QED BY <2>1 DEF Tokens!Second
<1> PICK q \in Nat : q = Tokens!Second(e)
  BY <1>1
<1>2. q * d \in Nat /\ q * d <= e /\ e < q * d + d /\ (q + 1) * d = q * d + d
  BY <1>1
<1>3. PICK k \in Nat, p \in Nat : /\ k = Tokens!Rounded(e)
                                  /\ p = k * d
                                  /\ 2 * p <= 2 * e + d /\ 2 * e + d < 2 * p + 2 * d
  <2> PICK a \in Nat : a = 2 * e + d
    OBVIOUS
  <2> PICK b \in Nat \ {0} : b = 2 * d
    OBVIOUS
  <2>1. a \div b \in Nat /\ (a \div b) * b <= a /\ a < (a \div b) * b + b
    OBVIOUS
  <2>2. a \div b = Tokens!Rounded(e)
    BY DEF Tokens!Rounded
  <2> PICK k \in Nat : k = a \div b
    BY <2>1
  <2>3. k * d \in Nat /\ k * b = 2 * (k * d)
    OBVIOUS
  <2> QED BY <2>1, <2>2, <2>3
<1>4. q <= k
  <2> SUFFICES ASSUME k + 1 <= q PROVE FALSE
    OBVIOUS
  <2>1. (k + 1) * d <= q * d
    <3> PICK g \in Nat : q = (k + 1) + g
      <4>1. q - (k + 1) \in Nat /\ q = (k + 1) + (q - (k + 1))
        OBVIOUS
      <4> QED BY <4>1
    <3>1. q * d = (k + 1) * d + g * d /\ g * d \in Nat /\ (k + 1) * d \in Nat
      OBVIOUS
    <3> QED BY <3>1
  <2>2. (k + 1) * d = p + d
    BY <1>3
  <2> QED BY <1>2, <1>3, <2>1, <2>2
<1>5. k <= q + 1
  <2> SUFFICES ASSUME q + 2 <= k PROVE FALSE
    OBVIOUS
  <2>1. (q + 2) * d <= k * d
    <3> PICK g \in Nat : k = (q + 2) + g
      <4>1. k - (q + 2) \in Nat /\ k = (q + 2) + (k - (q + 2))
        OBVIOUS
      <4> QED BY <4>1
    <3>1. k * d = (q + 2) * d + g * d /\ g * d \in Nat /\ (q + 2) * d \in Nat
      OBVIOUS
    <3> QED BY <3>1
  <2>2. (q + 2) * d = q * d + 2 * d
    OBVIOUS
  <2> QED BY <1>2, <1>3, <2>1, <2>2
<1> QED BY <1>1, <1>2, <1>3, <1>4, <1>5

\* What lapsed at the door had lapsed for the admin, who is told the second to which
\* the same expiry is rounded; and what had lapsed for the admin, a second ago, has
\* lapsed at the door.
LEMMA LapsesTogether ==
    ASSUME NEW e \in Nat, NEW tick \in Nat
    PROVE  /\ Tokens!Second(e) < Tokens!Second(tick) => tick >= Tokens!Rounded(e) * Resolution
           /\ ~ (Tokens!Second(e) < Tokens!Second(tick)) =>
                tick < (Tokens!Rounded(e) + 1) * Resolution
<1> PICK d \in Nat \ {0} : d = Resolution
  BY TokensAssumption DEF Tokens!TokenAssumption
<1>1. /\ Tokens!Second(e) \in Nat /\ Tokens!Second(tick) \in Nat /\ Tokens!Rounded(e) \in Nat
      /\ Tokens!Second(tick) * d <= tick /\ tick < (Tokens!Second(tick) + 1) * d
      /\ Tokens!Second(e) <= Tokens!Rounded(e) /\ Tokens!Rounded(e) <= Tokens!Second(e) + 1
  BY SecondIs
<1>2. ASSUME NEW a \in Nat, NEW b \in Nat, a <= b
      PROVE  a * d <= b * d
  <2> PICK g \in Nat : b = a + g
    <3>1. b - a \in Nat /\ b = a + (b - a)
      BY <1>2
    <3> QED BY <3>1
  <2>1. b * d = a * d + g * d /\ g * d \in Nat /\ a * d \in Nat
    OBVIOUS
  <2> QED BY <2>1
<1>3. ASSUME Tokens!Second(e) < Tokens!Second(tick)
      PROVE  tick >= Tokens!Rounded(e) * d
  <2>1. Tokens!Rounded(e) <= Tokens!Second(tick)
    BY <1>1, <1>3
  <2>2. Tokens!Rounded(e) * d <= Tokens!Second(tick) * d /\ Tokens!Rounded(e) * d \in Nat
          /\ Tokens!Second(tick) * d \in Nat
    BY <1>1, <1>2, <2>1
  <2> QED BY <1>1, <2>2
<1>4. ASSUME ~ (Tokens!Second(e) < Tokens!Second(tick))
      PROVE  tick < (Tokens!Rounded(e) + 1) * d
  <2>1. Tokens!Second(tick) + 1 <= Tokens!Rounded(e) + 1 /\ Tokens!Second(tick) + 1 \in Nat
          /\ Tokens!Rounded(e) + 1 \in Nat
    BY <1>1, <1>4
  <2>2. /\ (Tokens!Second(tick) + 1) * d <= (Tokens!Rounded(e) + 1) * d
        /\ (Tokens!Rounded(e) + 1) * d \in Nat /\ (Tokens!Second(tick) + 1) * d \in Nat
    BY <1>2, <2>1
  <2> QED BY <1>1, <2>2
<1> QED BY <1>3, <1>4

-----------------------------------------------------------------------------
(* Tokens and their rows. *)

\* What mint_token wrote of nonce n, on such an order and with its expiry at tick e.
MintedAs(n, r, order, e) ==
    /\ r.token_hash = Tokens!RawToken(n, order, Tokens!Second(e))
    /\ r.event_table = order.table /\ r.event_id = order.event
    /\ r.expires_at = Tokens!Rounded(e) /\ r.single_use = order.single

Raws == {Tokens!RawToken(n, order, x) : n \in Nonces, order \in Orders, x \in Nat}

QrRow == [token_hash : Raws, event_table : Tables, event_id : Events, expires_at : Nat,
          single_use : BOOLEAN, used : BOOLEAN, used_by : Holders \cup {NoAttendee}]

\* A row of nonce n, as it was minted or spent since.
IsRowOf(n, r) ==
    /\ r \in QrRow
    /\ \E order \in Orders, e \in Nat : MintedAs(n, r, order, e)
    /\ r.used => r.single_use
    /\ r.used_by # NoAttendee => r.used

RowsInv ==
    /\ DOMAIN rows = Nonces
    /\ \A n \in Nonces : rows[n] = Tokens!NoRow \/ IsRowOf(n, rows[n])

\* The row as it was, and as it is: it can have been spent.
Grows(r, s) ==
    /\ s # Tokens!NoRow
    /\ s.token_hash = r.token_hash /\ s.single_use = r.single_use
    /\ r.used => s.used

\* A row is not its absence.
LEMMA RowIsSome ==
    ASSUME NEW r \in QrRow
    PROVE  r # Tokens!NoRow
<1>1. "used" \in DOMAIN r
  BY DEF QrRow
<1>2. "used" \notin DOMAIN Tokens!NoRow
  BY DEF Tokens!NoRow
<1> QED BY <1>1, <1>2

\* No two nonces have one token.
LEMMA TokensDiffer ==
    ASSUME NEW n, NEW r, IsRowOf(n, r), NEW m, NEW s, IsRowOf(m, s),
           r.token_hash = s.token_hash
    PROVE  n = m
<1>1. PICK x, y, o, p : r.token_hash = Tokens!RawToken(n, o, x)
        /\ s.token_hash = Tokens!RawToken(m, p, y)
  BY DEF IsRowOf, MintedAs
<1>2. Tokens!RawToken(n, o, x).nonce = n /\ Tokens!RawToken(m, p, y).nonce = m
  BY DEF Tokens!RawToken
<1> QED BY <1>1, <1>2

\* What mint_token issues can be presented.
LEMMA TokensArePresentable ==
    ASSUME RowsInv, NEW n \in Tokens!Minted
    PROVE  rows[n].token_hash \in Tokens!Presentable
<1>1. n \in Nonces /\ IsRowOf(n, rows[n])
  BY DEF RowsInv, Tokens!Minted
<1>2. PICK order \in Orders,
        e \in Nat : rows[n].token_hash = Tokens!RawToken(n, order, Tokens!Second(e))
  BY <1>1 DEF IsRowOf, MintedAs
<1> DEFINE raw == Tokens!RawToken(n, order, Tokens!Second(e))
<1>3. order.table \in Tables
  BY TokensAssumption DEF Tokens!TokenAssumption
<1>4. raw.table = order.table /\ raw = [raw EXCEPT !.table = order.table]
  BY DEF Tokens!RawToken
<1>5. raw \in Tokens!Altered(raw)
  BY <1>3, <1>4 DEF Tokens!Altered
<1>6. raw \in Tokens!Issued
  BY <1>2 DEF Tokens!Issued
<1> QED BY <1>2, <1>5, <1>6 DEF Tokens!Presentable

\* Whoever holds the payload and its own signature holds the payload of a token that
\* was issued.
LEMMA SignedIsIssued ==
    ASSUME RowsInv, NEW raw \in Tokens!Presentable, raw.signature = Tokens!Payload(raw)
    PROVE  \E n \in Tokens!Minted :
              /\ Tokens!Payload(rows[n].token_hash) = Tokens!Payload(raw)
              /\ rows[n].event_table = raw.table /\ rows[n].event_id = raw.event
<1>1. PICK n \in Tokens!Minted : raw \in Tokens!Altered(rows[n].token_hash)
  BY DEF Tokens!Presentable, Tokens!Issued
<1>2. n \in Nonces /\ IsRowOf(n, rows[n])
  BY DEF RowsInv, Tokens!Minted
<1>3. PICK order \in Orders, e \in Nat : MintedAs(n, rows[n], order, e)
  BY <1>2 DEF IsRowOf
<1> DEFINE issued == Tokens!RawToken(n, order, Tokens!Second(e))
           signed == <<order.table, order.event, n, Tokens!Second(e), order.attendee>>
<1>4. /\ rows[n].token_hash = issued
      /\ rows[n].event_table = order.table /\ rows[n].event_id = order.event
  BY <1>3 DEF MintedAs
<1>5. /\ issued.signature = signed /\ Tokens!Payload(issued) = signed
      /\ DOMAIN issued = {"table", "event", "nonce", "expires", "attendee", "spelling",
                          "signature"}
  BY DEF Tokens!RawToken, Tokens!Payload
<1>6. raw.signature \in {signed, <<>>}
  BY <1>1, <1>4, <1>5 DEF Tokens!Altered
<1>7. raw.signature = signed
  BY <1>6 DEF Tokens!Payload
<1>8. Tokens!Payload(raw) = signed /\ raw.table = order.table /\ raw.event = order.event
  BY <1>7 DEF Tokens!Payload
<1> QED BY <1>4, <1>5, <1>8

\* What rightly answers a request at the door where it is presented.
LEMMA AtItsOwnDoor ==
    ASSUME RowsInv, NEW n \in Tokens!Minted, NEW j, rows[n].token_hash = j.door.raw,
           j.door.raw.event = j.door.event, j.door.raw.table = j.door.table,
           j.door.raw.attendee \in {NoAttendee, j.door.attendee}
    PROVE  Tokens!Rightly(j, n)
<1>1. n \in Nonces /\ IsRowOf(n, rows[n])
  BY DEF RowsInv, Tokens!Minted
<1>2. PICK order \in Orders, e \in Nat : MintedAs(n, rows[n], order, e)
  BY <1>1 DEF IsRowOf
<1>3. j.door.raw.event = order.event /\ j.door.raw.table = order.table
  BY <1>2 DEF MintedAs, Tokens!RawToken
<1> QED BY <1>2, <1>3 DEF Tokens!Rightly, MintedAs

\* The expiry of the token is the one of its row.
LEMMA OneExpiry ==
    ASSUME RowsInv, NEW n \in Tokens!Minted
    PROVE  \E e \in Nat : /\ rows[n].token_hash.expires = Tokens!Second(e)
                          /\ rows[n].expires_at = Tokens!Rounded(e)
<1>1. n \in Nonces /\ IsRowOf(n, rows[n])
  BY DEF RowsInv, Tokens!Minted
<1>2. PICK order \in Orders, e \in Nat : MintedAs(n, rows[n], order, e)
  BY <1>1 DEF IsRowOf
<1> QED BY <1>2 DEF MintedAs, Tokens!RawToken

-----------------------------------------------------------------------------
(* The inductive invariant. *)

Labels == {Tokens!Idle, "lookup", "peeked", "reread", "consume"}

\* A request at a door at which nothing was wrong with its token.
Admissible(j) ==
    /\ j.asked \in Nat /\ j.door.attendee \in Holders
    /\ j.door.raw.event = j.door.event /\ j.door.raw.table = j.door.table
    /\ j.door.raw.attendee \in {NoAttendee, j.door.attendee}
    /\ ~ Tokens!Lapsed(j.door.raw, j.asked)

\* What a worker sees is what was; and if its token was spent when it was presented,
\* that can be seen.
ViewInv(w) ==
    /\ \A n \in Nonces : view[w][n] = Tokens!NoRow \/ Grows(view[w][n], rows[n])
    /\ job[w].late =>
         \E n \in Nonces : /\ view[w][n] # Tokens!NoRow /\ view[w][n].used
                           /\ view[w][n].token_hash = job[w].door.raw

\* A worker that has found its row has its row, which was not spent when it began.
HolderInv(w) ==
    /\ ~ job[w].late
    /\ \E n \in Tokens!Minted : /\ rows[n].token_hash = job[w].door.raw
                                /\ pc[w] = "consume" => rows[n].single_use

WorkerInv(w) ==
    /\ pc[w] = Tokens!Idle <=> job[w] = Tokens!NoJob
    /\ pc[w] = Tokens!Idle <=> view[w] = Tokens!Closed
    /\ pc[w] # Tokens!Idle => Admissible(job[w]) /\ ViewInv(w)
    /\ pc[w] \notin {Tokens!Idle, "lookup"} => HolderInv(w)

TokensInv ==
    /\ qrClock \in 0..Horizon /\ failures \in 0..MaxFailures
    /\ RowsInv
    /\ pc \in [Workers -> Labels] /\ DOMAIN job = Workers /\ DOMAIN view = Workers
    /\ \A w \in Workers : WorkerInv(w)

\* A step that only lets rows grow keeps what holds of a worker that it leaves alone.
LEMMA OthersStay ==
    ASSUME NEW w \in Workers, WorkerInv(w),
           pc'[w] = pc[w], job'[w] = job[w], view'[w] = view[w],
           \A n \in Nonces : rows[n] # Tokens!NoRow => Grows(rows[n], rows'[n])
    PROVE  WorkerInv(w)'
<1>1. ASSUME pc[w] # Tokens!Idle
      PROVE  ViewInv(w)'
  <2>1. ViewInv(w)
    BY <1>1 DEF WorkerInv
  <2>2. ASSUME NEW n \in Nonces, view[w][n] # Tokens!NoRow
        PROVE  Grows(view[w][n], rows'[n])
    <3>1. Grows(view[w][n], rows[n])
      BY <2>1, <2>2 DEF ViewInv
    <3>2. Grows(rows[n], rows'[n])
      BY <3>1 DEF Grows
    <3> QED BY <3>1, <3>2 DEF Grows
  <2> QED BY <2>1, <2>2 DEF ViewInv
<1>2. ASSUME pc[w] \notin {Tokens!Idle, "lookup"}
      PROVE  HolderInv(w)'
  <2>1. HolderInv(w)
    BY <1>2 DEF WorkerInv
  <2>2. PICK n \in Tokens!Minted : /\ rows[n].token_hash = job[w].door.raw
                                   /\ pc[w] = "consume" => rows[n].single_use
    BY <2>1 DEF HolderInv
  <2>3. n \in Nonces /\ Grows(rows[n], rows'[n])
    BY DEF Tokens!Minted
  <2>4. n \in Tokens!Minted' /\ rows'[n].token_hash = job'[w].door.raw
        /\ (pc'[w] = "consume" => rows'[n].single_use)
    BY <2>2, <2>3 DEF Tokens!Minted, Grows
  <2> QED BY <2>1, <2>4 DEF HolderInv
<1> QED BY <1>1, <1>2 DEF WorkerInv, Admissible

\* A worker that answers is idle.
LEMMA FinishIs ==
    ASSUME TokensInv, NEW w \in Workers, NEW j, NEW code, Tokens!Finish(w, j, code)
    PROVE  /\ WorkerInv(w)'
           /\ pc' \in [Workers -> Labels] /\ DOMAIN job' = Workers /\ DOMAIN view' = Workers
           /\ \A u \in Workers \ {w} : pc'[u] = pc[u] /\ job'[u] = job[u] /\ view'[u] = view[u]
           /\ qrReply'.to = w /\ qrReply'.code = code /\ qrReply'.job = j
<1>1. pc \in [Workers -> Labels] /\ DOMAIN job = Workers /\ DOMAIN view = Workers
  BY DEF TokensInv
<1>2. pc'[w] = Tokens!Idle /\ job'[w] = Tokens!NoJob /\ view'[w] = Tokens!Closed
  BY <1>1 DEF Tokens!Finish
<1>3. WorkerInv(w)'
  BY <1>2 DEF WorkerInv, Labels, Tokens!Idle
<1> QED BY <1>1, <1>3 DEF Tokens!Finish, Labels

\* A worker that goes on.
LEMMA GotoIs ==
    ASSUME TokensInv, NEW w \in Workers, NEW label \in Labels, pc' = [pc EXCEPT ![w] = label]
    PROVE  /\ pc' \in [Workers -> Labels] /\ pc'[w] = label
           /\ \A u \in Workers \ {w} : pc'[u] = pc[u]
BY DEF TokensInv

\* What a worker finds is the row of its token, as it is or as it was; and a worker
\* whose token was spent when it was presented finds it spent.
LEMMA FoundIs ==
    ASSUME TokensInv, NEW w \in Workers, pc[w] # Tokens!Idle, NEW n \in Tokens!Matches(w)
    PROVE  /\ n \in Tokens!Minted /\ rows[n].token_hash = job[w].door.raw
           /\ rows[n].single_use = Tokens!Rows(w)[n].single_use
           /\ job[w].late => Tokens!Rows(w)[n].used /\ Tokens!Rows(w)[n].single_use
<1>1. /\ n \in Nonces /\ Tokens!Rows(w)[n] # Tokens!NoRow
      /\ Tokens!Rows(w)[n].token_hash = job[w].door.raw
  BY DEF Tokens!Matches
<1>2. WorkerInv(w) /\ ViewInv(w) /\ RowsInv
  BY DEF TokensInv, WorkerInv
<1>3. Tokens!Rows(w) = view[w] \/ Tokens!Rows(w) = rows
  BY DEF Tokens!Rows
<1>4. Tokens!Rows(w)[n] = rows[n] \/ (Tokens!Rows(w)[n] = view[w][n] /\ Grows(view[w][n], rows[n]))
  BY <1>1, <1>2, <1>3 DEF ViewInv
<1>5. /\ n \in Tokens!Minted /\ rows[n].token_hash = job[w].door.raw
      /\ rows[n].single_use = Tokens!Rows(w)[n].single_use
  BY <1>1, <1>4 DEF Tokens!Minted, Grows
<1>6. ASSUME job[w].late
      PROVE  Tokens!Rows(w)[n].used /\ Tokens!Rows(w)[n].single_use
  <2>1. PICK m \in Nonces : /\ view[w][m] # Tokens!NoRow /\ view[w][m].used
                            /\ view[w][m].token_hash = job[w].door.raw
    BY <1>2, <1>6 DEF ViewInv
  <2>2. Grows(view[w][m], rows[m])
    BY <1>2, <2>1 DEF ViewInv
  <2>3. /\ rows[m] # Tokens!NoRow /\ rows[m].used /\ rows[m].token_hash = rows[n].token_hash
    BY <1>5, <2>1, <2>2 DEF Grows
  <2>4. IsRowOf(m, rows[m]) /\ IsRowOf(n, rows[n])
    BY <1>1, <1>2, <1>5, <2>3 DEF RowsInv, Tokens!Minted
  <2>5. m = n
    BY <2>3, <2>4, TokensDiffer
  <2>6. rows[n].single_use
    BY <2>3, <2>4, <2>5 DEF IsRowOf
  <2>7. Tokens!Rows(w)[n].used
    BY <1>3, <2>1, <2>3, <2>5
  <2> QED BY <1>5, <2>6, <2>7
<1> QED BY <1>5, <1>6

\* The row that a worker holds is the one that it writes.
LEMMA HeldRow ==
    ASSUME TokensInv, NEW w \in Workers, pc[w] \notin {Tokens!Idle, "lookup"}
    PROVE  /\ Tokens!Row(w) \in Tokens!Minted /\ rows[Tokens!Row(w)].token_hash = job[w].door.raw
           /\ pc[w] = "consume" => rows[Tokens!Row(w)].single_use
           /\ ~ job[w].late /\ Admissible(job[w])
<1>1. WorkerInv(w) /\ RowsInv
  BY DEF TokensInv
<1>2. HolderInv(w) /\ Admissible(job[w])
  BY <1>1 DEF WorkerInv
<1>3. PICK n \in Tokens!Minted : /\ rows[n].token_hash = job[w].door.raw
                                 /\ pc[w] = "consume" => rows[n].single_use
  BY <1>2 DEF HolderInv
<1>4. n \in Nonces /\ rows[n] # Tokens!NoRow
  BY DEF Tokens!Minted
<1>5. /\ Tokens!Row(w) \in Nonces /\ rows[Tokens!Row(w)] # Tokens!NoRow
      /\ rows[Tokens!Row(w)].token_hash = job[w].door.raw
  BY <1>3, <1>4 DEF Tokens!Row
<1>6. IsRowOf(n, rows[n]) /\ IsRowOf(Tokens!Row(w), rows[Tokens!Row(w)])
  BY <1>1, <1>4, <1>5 DEF RowsInv
<1>7. Tokens!Row(w) = n
  BY <1>3, <1>5, <1>6, TokensDiffer
<1> QED BY <1>2, <1>3, <1>5, <1>7 DEF HolderInv

\* In this step rows are only added or spent.
RowsGrow == \A n \in Nonces : rows[n] # Tokens!NoRow => Grows(rows[n], rows'[n])

\* Rows that are left alone.
LEMMA RowsStay ==
    ASSUME TokensInv, rows' = rows
    PROVE  RowsInv' /\ RowsGrow
<1>1. RowsInv
  BY DEF TokensInv
<1>2. RowsInv'
  BY <1>1 DEF RowsInv, IsRowOf, MintedAs
<1> QED BY <1>2 DEF RowsGrow, Grows

\* Minting adds a row.
LEMMA MintGrows ==
    ASSUME TokensInv, NEW n \in Nonces, NEW order \in Orders, Tokens!Mint(n, order)
    PROVE  RowsInv' /\ RowsGrow
<1> DEFINE e == qrClock + Ttl * Resolution
           r == [token_hash |-> Tokens!RawToken(n, order, Tokens!Second(e)),
                 event_table |-> order.table, event_id |-> order.event,
                 expires_at |-> Tokens!Rounded(e), single_use |-> order.single,
                 used |-> FALSE, used_by |-> NoAttendee]
<1>1. rows[n] = Tokens!NoRow /\ rows' = [rows EXCEPT ![n] = r]
  BY DEF Tokens!Mint
<1>2. e \in Nat
  <2>1. qrClock \in Nat /\ Ttl \in Nat /\ Resolution \in Nat
    BY TokensAssumption DEF TokensInv, Tokens!TokenAssumption
  <2> QED BY <2>1
<1>3. order.table \in Tables /\ order.event \in Events /\ order.single \in BOOLEAN
  BY TokensAssumption DEF Tokens!TokenAssumption
<1>4. IsRowOf(n, r)
  <2>1. Tokens!Second(e) \in Nat /\ Tokens!Rounded(e) \in Nat
    BY <1>2, SecondIs
  <2>2. r.token_hash \in Raws
    BY <2>1 DEF Raws
  <2>3. r \in QrRow
    BY <1>3, <2>1, <2>2 DEF QrRow
  <2>4. MintedAs(n, r, order, e)
    BY DEF MintedAs
  <2>5. r.used = FALSE /\ r.used_by = NoAttendee
    OBVIOUS
  <2> HIDE DEF e, r
  <2> QED BY <1>2, <2>3, <2>4, <2>5 DEF IsRowOf
<1> HIDE DEF e, r
<1>5. RowsInv /\ DOMAIN rows = Nonces
  BY DEF TokensInv, RowsInv
<1>6. DOMAIN rows' = Nonces /\ rows'[n] = r /\ \A m \in Nonces \ {n} : rows'[m] = rows[m]
  BY <1>1, <1>5
<1>7. RowsInv'
  <2> SUFFICES ASSUME NEW m \in Nonces PROVE rows'[m] = Tokens!NoRow \/ IsRowOf(m, rows'[m])
    BY <1>6 DEF RowsInv, IsRowOf, MintedAs
  <2>1. CASE m = n
    BY <1>4, <1>6, <2>1
  <2>2. CASE m # n
    BY <1>5, <1>6, <2>2 DEF RowsInv
  <2> QED BY <2>1, <2>2
<1>8. RowsGrow
  BY <1>1, <1>6 DEF RowsGrow, Grows
<1> QED BY <1>7, <1>8

\* Consuming spends a row, and its redeemer is whoever presented it.
LEMMA ConsumeGrows ==
    ASSUME TokensInv, NEW w \in Workers, Tokens!Consume(w)
    PROVE  /\ RowsInv' /\ RowsGrow
           /\ Tokens!Row(w) \in Nonces /\ rows'[Tokens!Row(w)].used
           /\ \A n \in Nonces \ {Tokens!Row(w)} : rows'[n] = rows[n]
<1> PICK m : m = Tokens!Row(w)
  OBVIOUS
<1> DEFINE by == job[w].door.attendee
           r == [rows[m] EXCEPT !.used = TRUE, !.used_by = by]
<1>1. pc[w] = "consume" /\ rows' = [rows EXCEPT ![m].used = TRUE, ![m].used_by = by]
  BY DEF Tokens!Consume
<1>2. pc[w] \notin {Tokens!Idle, "lookup"}
  BY <1>1 DEF Tokens!Idle
<1>3. /\ m \in Nonces /\ rows[m] # Tokens!NoRow /\ rows[m].single_use
      /\ Admissible(job[w])
  BY <1>1, <1>2, HeldRow DEF Tokens!Minted
<1>4. RowsInv /\ DOMAIN rows = Nonces /\ IsRowOf(m, rows[m])
  BY <1>3 DEF TokensInv, RowsInv
<1>5. rows[m] \in QrRow /\ by \in Holders
  BY <1>3, <1>4 DEF IsRowOf, Admissible
<1>6. /\ r \in QrRow /\ r.used = TRUE /\ r.used_by = by
      /\ r.token_hash = rows[m].token_hash /\ r.event_table = rows[m].event_table
      /\ r.event_id = rows[m].event_id /\ r.expires_at = rows[m].expires_at
      /\ r.single_use = rows[m].single_use
  BY <1>5 DEF QrRow
<1>7. rows' = [rows EXCEPT ![m] = r]
  BY <1>1, <1>3, <1>4
<1> HIDE DEF r, by
<1>8. IsRowOf(m, r)
  <2>1. PICK order \in Orders, e \in Nat : MintedAs(m, rows[m], order, e)
    BY <1>4 DEF IsRowOf
  <2>2. MintedAs(m, r, order, e)
    BY <1>6, <2>1 DEF MintedAs
  <2> QED BY <1>3, <1>6, <2>2 DEF IsRowOf
<1>9. DOMAIN rows' = Nonces /\ rows'[m] = r /\ \A n \in Nonces \ {m} : rows'[n] = rows[n]
  BY <1>3, <1>4, <1>7
<1>10. RowsInv'
  <2> SUFFICES ASSUME NEW n \in Nonces PROVE rows'[n] = Tokens!NoRow \/ IsRowOf(n, rows'[n])
    BY <1>9 DEF RowsInv, IsRowOf, MintedAs
  <2>1. CASE n = m
    BY <1>8, <1>9, <2>1
  <2>2. CASE n # m
    BY <1>4, <1>9, <2>2 DEF RowsInv
  <2> QED BY <2>1, <2>2
<1>11. RowsGrow
  <2> SUFFICES ASSUME NEW n \in Nonces, rows[n] # Tokens!NoRow PROVE Grows(rows[n], rows'[n])
    BY DEF RowsGrow
  <2>1. CASE n = m
    <3>1. r # Tokens!NoRow
      BY <1>6, RowIsSome
    <3> QED BY <1>6, <1>9, <2>1, <3>1 DEF Grows
  <2>2. CASE n # m
    BY <1>9, <2>2 DEF Grows
  <2> QED BY <2>1, <2>2
<1> QED BY <1>3, <1>6, <1>9, <1>10, <1>11

\* A step of one worker.
LEMMA WorkerStep ==
    ASSUME TokensInv, NEW w \in Workers, RowsInv', RowsGrow, WorkerInv(w)',
           qrClock' = qrClock, failures' \in 0..MaxFailures,
           pc' \in [Workers -> Labels], DOMAIN job' = Workers, DOMAIN view' = Workers,
           \A u \in Workers \ {w} : pc'[u] = pc[u] /\ job'[u] = job[u] /\ view'[u] = view[u]
    PROVE  TokensInv'
<1>1. ASSUME NEW u \in Workers PROVE WorkerInv(u)'
  <2>1. CASE u = w
    BY <2>1
  <2>2. CASE u # w
    BY <2>2, OthersStay DEF TokensInv, RowsGrow
  <2> QED BY <2>1, <2>2
<1> QED BY <1>1 DEF TokensInv

\* A worker that answers and leaves the rows alone.
LEMMA FinishKeeps ==
    ASSUME TokensInv, NEW w \in Workers, NEW j, NEW code, Tokens!Finish(w, j, code),
           UNCHANGED <<qrClock, rows>>, failures' \in 0..MaxFailures
    PROVE  TokensInv'
BY FinishIs, RowsStay, WorkerStep

\* A worker that goes on and leaves all else alone.
LEMMA GotoKeeps ==
    ASSUME TokensInv, NEW w \in Workers, NEW label \in Labels \ {Tokens!Idle},
           pc' = [pc EXCEPT ![w] = label], pc[w] # Tokens!Idle,
           UNCHANGED <<qrClock, rows, job, view, failures>>,
           label # "lookup" => HolderInv(w)'
    PROVE  TokensInv'
<1>1. /\ pc' \in [Workers -> Labels] /\ pc'[w] = label
      /\ \A u \in Workers \ {w} : pc'[u] = pc[u]
  BY GotoIs
<1>2. WorkerInv(w)'
  BY <1>1 DEF TokensInv, WorkerInv, Admissible, ViewInv, Grows
<1>3. RowsInv' /\ RowsGrow
  BY RowsStay
<1>4. /\ DOMAIN job' = Workers /\ DOMAIN view' = Workers /\ failures' \in 0..MaxFailures
  BY DEF TokensInv
<1> QED BY <1>1, <1>2, <1>3, <1>4, WorkerStep

\* A token that nothing is wrong with by itself makes its request admissible.
LEMMA PresentKeeps ==
    ASSUME TokensInv, NEW w \in Workers, NEW d \in Tokens!Doors, Tokens!Present(w, d)
    PROVE  TokensInv'
<1>1. /\ pc[w] = Tokens!Idle /\ job' = [job EXCEPT ![w] = Tokens!Job(d)]
      /\ view' = [view EXCEPT ![w] = rows]
      /\ pc' = [pc EXCEPT ![w] = "lookup"] /\ UNCHANGED <<qrClock, rows, failures>>
  BY DEF Tokens!Present, Tokens!Goto
<1>2. /\ pc' \in [Workers -> Labels] /\ DOMAIN job' = Workers /\ DOMAIN view' = Workers
      /\ pc'[w] = "lookup" /\ job'[w] = Tokens!Job(d) /\ view'[w] = rows
      /\ \A u \in Workers \ {w} : pc'[u] = pc[u] /\ job'[u] = job[u] /\ view'[u] = view[u]
  BY <1>1 DEF TokensInv, Labels
<1>3. Admissible(Tokens!Job(d))
  <2>1. \A code \in {"event_mismatch", "signature_mismatch", "attendee_mismatch", "expired"} :
          ~ Tokens!Wrong(d, code)
    <3>1. /\ DOMAIN Tokens!Checks = 1..4
          /\ Tokens!Checks[1] = "event_mismatch" /\ Tokens!Checks[2] = "signature_mismatch"
          /\ Tokens!Checks[3] = "attendee_mismatch" /\ Tokens!Checks[4] = "expired"
      BY DEF Tokens!Checks
    <3>2. \A i \in DOMAIN Tokens!Checks : ~ Tokens!Wrong(d, Tokens!Checks[i])
      BY DEF Tokens!Present
    <3>3. ~ Tokens!Wrong(d, Tokens!Checks[1]) /\ ~ Tokens!Wrong(d, Tokens!Checks[2])
            /\ ~ Tokens!Wrong(d, Tokens!Checks[3])
          /\ ~ Tokens!Wrong(d, Tokens!Checks[4])
      BY <3>1, <3>2
    <3> QED BY <3>1, <3>3
  <2>2. /\ d.raw.event = d.event /\ d.raw.table = d.table
        /\ d.raw.attendee \in {NoAttendee, d.attendee} /\ ~ Tokens!Lapsed(d.raw, qrClock)
    BY <2>1 DEF Tokens!Wrong
  <2>3. Tokens!Job(d).door = d /\ Tokens!Job(d).asked = qrClock
    BY DEF Tokens!Job
  <2>4. qrClock \in Nat /\ d.attendee \in Holders
    BY DEF TokensInv, Tokens!Doors
  <2> QED BY <2>2, <2>3, <2>4 DEF Admissible
<1>4. Tokens!Job(d) # Tokens!NoJob
  <2>1. "asked" \in DOMAIN Tokens!Job(d) /\ "asked" \notin DOMAIN Tokens!NoJob
    BY DEF Tokens!Job, Tokens!NoJob
  <2> QED BY <2>1
<1>5. rows # Tokens!Closed
  <2>1. Tokens!Minted # {}
    BY DEF Tokens!Doors, Tokens!Presentable, Tokens!Issued
  <2>2. DOMAIN rows # {}
    BY <2>1 DEF TokensInv, RowsInv, Tokens!Minted
  <2>3. DOMAIN Tokens!Closed = {}
    BY DEF Tokens!Closed
  <2> QED BY <2>2, <2>3
<1>6. ViewInv(w)'
  <2>1. \A n \in Nonces : rows[n] = Tokens!NoRow \/ Grows(rows[n], rows[n])
    BY DEF Grows
  <2>2. Tokens!Job(d).late => \E n \in Tokens!Minted : rows[n].token_hash = d.raw /\ rows[n].used
    BY DEF Tokens!Job
  <2>3. Tokens!Job(d).door = d
    BY DEF Tokens!Job
  <2> QED BY <1>1, <1>2, <2>1, <2>2, <2>3 DEF ViewInv, Tokens!Minted
<1>7. WorkerInv(w)'
  BY <1>2, <1>3, <1>4, <1>5, <1>6 DEF WorkerInv, Labels, Tokens!Idle, Admissible
<1>8. RowsInv' /\ RowsGrow
  BY <1>1, RowsStay
<1>9. qrClock' = qrClock /\ failures' \in 0..MaxFailures
  BY <1>1 DEF TokensInv
<1> QED BY <1>2, <1>7, <1>8, <1>9, WorkerStep

\* Every step keeps the invariant.
LEMMA TokensStep ==
    ASSUME TokensInv, [Tokens!Next]_tokenVars
    PROVE  TokensInv'
<1> SUFFICES ASSUME ~ UNCHANGED tokenVars PROVE TokensInv'
  <2>1. ASSUME UNCHANGED tokenVars PROVE TokensInv'
    <3>1. RowsInv' /\ RowsGrow
      BY <2>1, RowsStay DEF tokenVars
    <3>2. \A w \in Workers : WorkerInv(w)'
      BY <2>1, <3>1, OthersStay DEF TokensInv, RowsGrow, tokenVars
    <3> QED BY <2>1, <3>1, <3>2 DEF TokensInv, tokenVars
  <2> QED BY <2>1
<1>1. MaxFailures \in Nat /\ Horizon \in Nat /\ failures \in 0..MaxFailures
        /\ qrClock \in 0..Horizon
  BY TokensAssumption DEF TokensInv, Tokens!TokenAssumption
<1>2. ASSUME NEW n \in Nonces, NEW order \in Orders, Tokens!Mint(n, order)
      PROVE  TokensInv'
  <2>1. RowsInv' /\ RowsGrow
    BY <1>2, MintGrows
  <2>2. UNCHANGED <<qrClock, pc, job, view, failures>>
    BY <1>2 DEF Tokens!Mint
  <2>3. \A w \in Workers : WorkerInv(w)'
    BY <2>1, <2>2, OthersStay DEF TokensInv, RowsGrow
  <2> QED BY <2>1, <2>2, <2>3 DEF TokensInv
<1>3. ASSUME NEW w \in Workers, NEW d \in Tokens!Doors, Tokens!Refuse(w, d)
      PROVE  TokensInv'
  <2>1. UNCHANGED <<qrClock, rows, failures>> /\ \E code : Tokens!Finish(w, Tokens!Job(d), code)
    BY <1>3 DEF Tokens!Refuse
  <2> QED BY <1>1, <2>1, FinishKeeps
<1>4. ASSUME NEW w \in Workers, NEW d \in Tokens!Doors, Tokens!Present(w, d)
      PROVE  TokensInv'
  BY <1>4, PresentKeeps
<1>5. ASSUME NEW w \in Workers, Tokens!LookupFindsNone(w) \/ Tokens!LookupFindsUsed(w)
             \/ Tokens!Abandon(w)
      PROVE  TokensInv'
  <2>1. UNCHANGED <<qrClock, rows, failures>> /\ \E code : Tokens!Finish(w, job[w], code)
    BY <1>5 DEF Tokens!LookupFindsNone, Tokens!LookupFindsUsed, Tokens!Abandon
  <2> QED BY <1>1, <2>1, FinishKeeps
<1>6. ASSUME NEW w \in Workers, Tokens!LookupFinds(w)
      PROVE  TokensInv'
  <2>1. pc[w] = "lookup" /\ UNCHANGED <<qrClock, rows, failures>>
    BY <1>6 DEF Tokens!LookupFinds
  <2>2. pc[w] # Tokens!Idle
    BY <2>1 DEF Tokens!Idle
  <2>3. PICK n \in Tokens!Matches(w) :
           \/ /\ Tokens!Rows(w)[n].single_use /\ ~ Tokens!Rows(w)[n].used
              /\ Tokens!Goto(w, "consume") /\ UNCHANGED <<job, view>>
           \/ Tokens!Finish(w, job[w], "ok")
    BY <1>6 DEF Tokens!LookupFinds
  <2>4. CASE Tokens!Finish(w, job[w], "ok")
    BY <1>1, <2>1, <2>4, FinishKeeps
  <2>5. CASE /\ Tokens!Rows(w)[n].single_use /\ ~ Tokens!Rows(w)[n].used
             /\ Tokens!Goto(w, "consume") /\ UNCHANGED <<job, view>>
    <3>1. pc' = [pc EXCEPT ![w] = "consume"] /\ UNCHANGED <<qrClock, rows, job, view, failures>>
      BY <2>1, <2>5 DEF Tokens!Goto
    <3>2. /\ n \in Tokens!Minted /\ rows[n].token_hash = job[w].door.raw
          /\ rows[n].single_use /\ ~ job[w].late
      BY <2>2, <2>5, FoundIs
    <3>3. HolderInv(w)'
      BY <3>1, <3>2 DEF HolderInv, Tokens!Minted
    <3> QED BY <2>2, <3>1, <3>3, GotoKeeps DEF Labels, Tokens!Idle
  <2> QED BY <2>3, <2>4, <2>5
<1>7. ASSUME NEW w \in Workers, Tokens!PeekFinds(w)
      PROVE  TokensInv'
  <2>1. /\ pc[w] = "lookup" /\ pc' = [pc EXCEPT ![w] = "peeked"]
        /\ UNCHANGED <<qrClock, rows, job, view, failures>>
    BY <1>7 DEF Tokens!PeekFinds
  <2>2. pc[w] # Tokens!Idle
    BY <2>1 DEF Tokens!Idle
  <2>3. PICK n \in Tokens!Matches(w) : ~ (Tokens!Rows(w)[n].single_use /\ Tokens!Rows(w)[n].used)
    BY <1>7 DEF Tokens!PeekFinds
  <2>4. n \in Tokens!Minted /\ rows[n].token_hash = job[w].door.raw /\ ~ job[w].late
    BY <2>2, <2>3, FoundIs
  <2>5. pc'[w] = "peeked"
    BY <2>1, GotoIs DEF Labels
  <2>6. HolderInv(w)'
    BY <2>1, <2>4, <2>5 DEF HolderInv, Tokens!Minted
  <2> QED BY <2>1, <2>2, <2>6, GotoKeeps DEF Labels, Tokens!Idle
<1>8. ASSUME NEW w \in Workers, Tokens!Admit(w)
      PROVE  TokensInv'
  <2>1. /\ pc[w] = "peeked" /\ pc' = [pc EXCEPT ![w] = "reread"]
        /\ UNCHANGED <<qrClock, rows, job, view, failures>>
    BY <1>8 DEF Tokens!Admit, Tokens!Goto
  <2>2. pc[w] \notin {Tokens!Idle, "lookup"} /\ pc'[w] = "reread"
    BY <2>1, GotoIs DEF Labels, Tokens!Idle
  <2>3. HolderInv(w)
    BY <2>2 DEF TokensInv, WorkerInv
  <2>4. HolderInv(w)'
    BY <2>1, <2>2, <2>3 DEF HolderInv, Tokens!Minted
  <2> QED BY <2>1, <2>2, <2>4, GotoKeeps DEF Labels, Tokens!Idle
<1>9. ASSUME NEW w \in Workers, Tokens!Reread(w)
      PROVE  TokensInv'
  <2>1. pc[w] = "reread" /\ UNCHANGED <<qrClock, rows, failures>>
    BY <1>9 DEF Tokens!Reread
  <2>2. pc[w] \notin {Tokens!Idle, "lookup"}
    BY <2>1 DEF Tokens!Idle
  <2>3. CASE Tokens!Finish(w, job[w], "consumed")
    BY <1>1, <2>1, <2>3, FinishKeeps
  <2>4. CASE rows[Tokens!Row(w)].single_use /\ Tokens!Goto(w, "consume") /\ UNCHANGED <<job, view>>
    <3>1. pc' = [pc EXCEPT ![w] = "consume"] /\ UNCHANGED <<qrClock, rows, job, view, failures>>
      BY <2>1, <2>4 DEF Tokens!Goto
    <3>2. /\ Tokens!Row(w) \in Tokens!Minted /\ rows[Tokens!Row(w)].token_hash = job[w].door.raw
          /\ ~ job[w].late
      BY <2>2, HeldRow
    <3>3. HolderInv(w)'
      BY <2>4, <3>1, <3>2 DEF HolderInv, Tokens!Minted
    <3> QED BY <2>2, <3>1, <3>3, GotoKeeps DEF Labels, Tokens!Idle
  <2> QED BY <1>9, <2>3, <2>4 DEF Tokens!Reread
<1>10. ASSUME NEW w \in Workers, Tokens!Consume(w)
       PROVE  TokensInv'
  <2>1. Tokens!Finish(w, job[w], Tokens!Answer(w)) /\ UNCHANGED <<qrClock, failures>>
    BY <1>10 DEF Tokens!Consume
  <2> QED BY <1>1, <1>10, <2>1, FinishIs, ConsumeGrows, WorkerStep
<1>11. ASSUME NEW w \in Workers, Tokens!ConsumeFails(w)
       PROVE  TokensInv'
  <2>1. /\ Tokens!Finish(w, job[w], "error") /\ UNCHANGED <<qrClock, rows>>
        /\ failures < MaxFailures /\ failures' = failures + 1
    BY <1>11 DEF Tokens!ConsumeFails
  <2>2. failures' \in 0..MaxFailures
    BY <1>1, <2>1
  <2> QED BY <2>1, <2>2, FinishKeeps
<1>12. CASE Tokens!Tick
  <2>1. qrClock' \in 0..Horizon /\ UNCHANGED <<rows, pc, job, view, failures>>
    BY <1>1, <1>12 DEF Tokens!Tick
  <2>2. RowsInv' /\ RowsGrow
    BY <2>1, RowsStay
  <2>3. \A w \in Workers : WorkerInv(w)'
    BY <2>1, <2>2, OthersStay DEF TokensInv, RowsGrow
  <2> QED BY <2>1, <2>2, <2>3 DEF TokensInv
<1> QED BY <1>2, <1>3, <1>4, <1>5, <1>6, <1>7, <1>8, <1>9, <1>10, <1>11, <1>12 DEF Tokens!Next

LEMMA TokensInitially == Tokens!Init => TokensInv
<1> SUFFICES ASSUME Tokens!Init PROVE TokensInv
  OBVIOUS
<1>1. MaxFailures \in Nat /\ Horizon \in Nat
  BY TokensAssumption DEF Tokens!TokenAssumption
<1>2. ASSUME NEW w \in Workers PROVE WorkerInv(w)
  BY DEF Tokens!Init, WorkerInv, Labels, Tokens!Idle
<1>3. pc \in [Workers -> Labels]
  BY DEF Tokens!Init, Labels
<1> QED BY <1>1, <1>2, <1>3 DEF Tokens!Init, TokensInv, RowsInv

LEMMA TokensTyped == TokensInv => Tokens!TypeOK
<1> SUFFICES ASSUME TokensInv PROVE Tokens!TypeOK
  OBVIOUS
<1>1. ASSUME NEW n \in Tokens!Minted
      PROVE  /\ rows[n].token_hash \in Tokens!Presentable
             /\ rows[n].event_table \in Tables /\ rows[n].event_id \in Events
             /\ rows[n].used => rows[n].single_use
             /\ rows[n].used_by # NoAttendee => rows[n].used
  <2>1. IsRowOf(n, rows[n])
    BY DEF TokensInv, RowsInv, Tokens!Minted
  <2>2. rows[n].token_hash \in Tokens!Presentable
    BY TokensArePresentable DEF TokensInv
  <2> QED BY <2>1, <2>2 DEF IsRowOf, QrRow
<1>2. pc \in [Workers -> Labels]
  BY DEF TokensInv
<1> QED BY <1>1, <1>2 DEF TokensInv, WorkerInv, Tokens!TypeOK, Labels

-----------------------------------------------------------------------------
(* What is answered. *)

\* A refusal names the first thing that is wrong.
LEMMA RefusalIs ==
    ASSUME TokensInv, NEW w \in Workers, NEW d \in Tokens!Doors, Tokens!Refuse(w, d)
    PROVE  /\ qrReply'.code \in {"event_mismatch", "signature_mismatch", "attendee_mismatch",
                               "expired"}
           /\ qrReply'.job = Tokens!Job(d) /\ rows' = rows
           /\ qrReply'.code = "expired" => Tokens!Lapsed(d.raw, qrClock)
           /\ qrReply'.code = "attendee_mismatch" =>
                /\ d.raw.event = d.event /\ d.raw.table = d.table
                /\ d.raw.signature = Tokens!Payload(d.raw)
<1>1. /\ DOMAIN Tokens!Checks = 1..4
      /\ Tokens!Checks[1] = "event_mismatch" /\ Tokens!Checks[2] = "signature_mismatch"
      /\ Tokens!Checks[3] = "attendee_mismatch" /\ Tokens!Checks[4] = "expired"
  BY DEF Tokens!Checks
<1>2. PICK i \in 1..4 :
         /\ Tokens!Wrong(d, Tokens!Checks[i]) /\ Tokens!Finish(w, Tokens!Job(d), Tokens!Checks[i])
         /\ \A j \in 1..4 : j < i => ~ Tokens!Wrong(d, Tokens!Checks[j])
  BY <1>1 DEF Tokens!Refuse
<1>3. qrReply'.code = Tokens!Checks[i] /\ qrReply'.job = Tokens!Job(d) /\ rows' = rows
  BY <1>2, FinishIs DEF Tokens!Refuse
<1>4. i \in {1, 2, 3, 4}
  OBVIOUS
<1>5. qrReply'.code = "expired" => Tokens!Lapsed(d.raw, qrClock)
  BY <1>2, <1>3 DEF Tokens!Wrong
<1>6. ASSUME qrReply'.code = "attendee_mismatch"
      PROVE  /\ d.raw.event = d.event /\ d.raw.table = d.table
             /\ d.raw.signature = Tokens!Payload(d.raw)
  <2>1. i = 3
    BY <1>1, <1>3, <1>4, <1>6
  <2>2. ~ Tokens!Wrong(d, "event_mismatch") /\ ~ Tokens!Wrong(d, "signature_mismatch")
    BY <1>1, <1>2, <2>1
  <2> QED BY <2>2 DEF Tokens!Wrong
<1> QED BY <1>1, <1>3, <1>4, <1>5, <1>6

\* Nothing but Refuse says what is wrong with a token.
LEMMA OnlyRefusalsFault ==
    ASSUME TokensInv, [Tokens!Next]_tokenVars, ~ UNCHANGED tokenVars,
           qrReply'.code \in {"expired", "attendee_mismatch"}
    PROVE  \E w \in Workers, d \in Tokens!Doors : Tokens!Refuse(w, d)
<1> DEFINE Faulty == {"expired", "attendee_mismatch"}
<1>1. ASSUME NEW w \in Workers, NEW j, NEW code, Tokens!Finish(w, j, code)
      PROVE  code \in Faulty
  BY <1>1, FinishIs
<1>2. ASSUME NEW w \in Workers, NEW label, Tokens!Goto(w, label)
      PROVE  FALSE
  BY <1>2 DEF Tokens!Goto, Tokens!Nothing
<1>3. ASSUME NEW w \in Workers, Tokens!LookupFinds(w) \/ Tokens!Reread(w)
      PROVE  FALSE
  BY <1>1, <1>2, <1>3 DEF Tokens!LookupFinds, Tokens!Reread
<1>4. ASSUME NEW w \in Workers,
             \/ Tokens!LookupFindsNone(w) \/ Tokens!LookupFindsUsed(w) \/ Tokens!Abandon(w)
                  \/ Tokens!Admit(w)
             \/ Tokens!ConsumeFails(w)
      PROVE  FALSE
  BY <1>1, <1>2, <1>4
     DEF Tokens!LookupFindsNone, Tokens!LookupFindsUsed, Tokens!Abandon, Tokens!Admit,
         Tokens!ConsumeFails
<1>5. ASSUME NEW w \in Workers, Tokens!Consume(w)
      PROVE  FALSE
  <2>1. Tokens!Answer(w) \in Faulty
    BY <1>1, <1>5 DEF Tokens!Consume
  <2> QED BY <2>1 DEF Tokens!Answer
<1>6. ASSUME NEW w \in Workers, Tokens!PeekFinds(w)
      PROVE  FALSE
  BY <1>6 DEF Tokens!PeekFinds
<1>7. ASSUME NEW w \in Workers, NEW d, Tokens!Present(w, d)
      PROVE  FALSE
  BY <1>2, <1>7 DEF Tokens!Present
<1>8. ASSUME Tokens!Tick \/ \E m, order : Tokens!Mint(m, order)
      PROVE  FALSE
  BY <1>8 DEF Tokens!Tick, Tokens!Mint, Tokens!Nothing
<1> QED BY <1>3, <1>4, <1>5, <1>6, <1>7, <1>8 DEF Tokens!Next

\* Who is told "ok" has the row of its token, at its own door.
LEMMA OkIs ==
    ASSUME TokensInv, [Tokens!Next]_tokenVars, ~ UNCHANGED tokenVars, qrReply'.code = "ok"
    PROVE  \E w \in Workers :
              /\ qrReply'.job = job[w] /\ Admissible(job[w])
              /\ \E n \in Tokens!Minted :
                    /\ rows[n].token_hash = job[w].door.raw
                    /\ rows[n].single_use =>
                          ~ job[w].late /\ (job[w].door.consume => rows'[n].used)
<1>1. ASSUME NEW w \in Workers, NEW d \in Tokens!Doors, Tokens!Refuse(w, d)
      PROVE  FALSE
  BY <1>1, RefusalIs
<1>2. ASSUME NEW w \in Workers, NEW code, Tokens!Finish(w, job[w], code)
      PROVE  code = "ok"
  BY <1>2, FinishIs
<1>3. ASSUME NEW w \in Workers, NEW label, Tokens!Goto(w, label)
      PROVE  FALSE
  BY <1>3 DEF Tokens!Goto, Tokens!Nothing
<1>4. ASSUME NEW w \in Workers, pc[w] = "lookup"
      PROVE  pc[w] # Tokens!Idle /\ Admissible(job[w])
  BY <1>4 DEF TokensInv, WorkerInv, Tokens!Idle
<1>5. CASE \E w \in Workers : Tokens!LookupFinds(w)
  <2> PICK w \in Workers : Tokens!LookupFinds(w)
    BY <1>5
  <2>1. pc[w] = "lookup"
    BY DEF Tokens!LookupFinds
  <2>2. PICK n \in Tokens!Matches(w) : ~ Tokens!Rows(w)[n].single_use
          /\ Tokens!Finish(w, job[w], "ok")
    BY <1>3 DEF Tokens!LookupFinds
  <2>3. n \in Tokens!Minted /\ rows[n].token_hash = job[w].door.raw /\ ~ rows[n].single_use
    BY <1>4, <2>1, <2>2, FoundIs
  <2>4. qrReply'.job = job[w]
    BY <2>2, FinishIs
  <2> QED BY <1>4, <2>1, <2>3, <2>4
<1>6. CASE \E w \in Workers : Tokens!PeekFinds(w)
  <2> PICK w \in Workers : Tokens!PeekFinds(w)
    BY <1>6
  <2>1. pc[w] = "lookup" /\ ~ job[w].door.consume /\ qrReply'.job = job[w]
    BY DEF Tokens!PeekFinds
  <2>2. PICK n \in Tokens!Matches(w) : ~ (Tokens!Rows(w)[n].single_use /\ Tokens!Rows(w)[n].used)
    BY DEF Tokens!PeekFinds
  <2>3. n \in Tokens!Minted /\ rows[n].token_hash = job[w].door.raw /\ ~ job[w].late
    BY <1>4, <2>1, <2>2, FoundIs
  <2> QED BY <1>4, <2>1, <2>3
<1>7. CASE \E w \in Workers : Tokens!Consume(w)
  <2> PICK w \in Workers : Tokens!Consume(w)
    BY <1>7
  <2>1. pc[w] = "consume" /\ qrReply'.job = job[w]
    BY FinishIs DEF Tokens!Consume
  <2>2. pc[w] \notin {Tokens!Idle, "lookup"}
    BY <2>1 DEF Tokens!Idle
  <2>3. /\ Tokens!Row(w) \in Tokens!Minted /\ rows[Tokens!Row(w)].token_hash = job[w].door.raw
        /\ ~ job[w].late /\ Admissible(job[w])
    BY <2>2, HeldRow
  <2>4. rows'[Tokens!Row(w)].used
    BY ConsumeGrows
  <2> QED BY <2>1, <2>3, <2>4
<1>8. \/ \E w \in Workers : Tokens!LookupFinds(w) \/ Tokens!PeekFinds(w) \/ Tokens!Consume(w)
      \/ \E w \in Workers, d \in Tokens!Doors : Tokens!Refuse(w, d)
  <2>1. ASSUME NEW n, NEW order, Tokens!Mint(n, order) PROVE FALSE
    BY <2>1 DEF Tokens!Mint, Tokens!Nothing
  <2>2. ASSUME NEW w \in Workers, NEW d, Tokens!Present(w, d) PROVE FALSE
    BY <1>3, <2>2 DEF Tokens!Present
  <2>3. ASSUME NEW w \in Workers,
               Tokens!LookupFindsNone(w) \/ Tokens!LookupFindsUsed(w) \/ Tokens!Abandon(w)
                 \/ Tokens!ConsumeFails(w)
        PROVE  FALSE
    BY <1>2, <2>3
       DEF Tokens!LookupFindsNone, Tokens!LookupFindsUsed, Tokens!Abandon, Tokens!ConsumeFails
  <2>4. ASSUME NEW w \in Workers, Tokens!Admit(w) PROVE FALSE
    BY <1>3, <2>4 DEF Tokens!Admit
  <2>5. ASSUME NEW w \in Workers, Tokens!Reread(w) PROVE FALSE
    BY <1>2, <1>3, <2>5 DEF Tokens!Reread
  <2>6. ~ Tokens!Tick
    BY DEF Tokens!Tick, Tokens!Nothing
  <2> QED BY <2>1, <2>2, <2>3, <2>4, <2>5, <2>6 DEF Tokens!Next
<1> QED BY <1>1, <1>5, <1>6, <1>7, <1>8

\* The expiry that the admin is told is the one at the door, within a second.
LEMMA AnnouncedStep ==
    ASSUME TokensInv, [Tokens!Next]_tokenVars, ~ UNCHANGED tokenVars, NEW n \in Tokens!Minted,
           qrReply'.to # NoWorker, Tokens!Rightly(qrReply'.job, n)
    PROVE  /\ qrReply'.code = "expired" =>
                 qrReply'.job.asked >= rows[n].expires_at * Resolution
           /\ qrReply'.code = "ok" =>
                 qrReply'.job.asked < (rows[n].expires_at + 1) * Resolution
<1>1. PICK e \in Nat : qrReply'.job.door.raw.expires = Tokens!Second(e)
        /\ rows[n].expires_at = Tokens!Rounded(e)
  BY OneExpiry DEF TokensInv, Tokens!Rightly
<1>2. ASSUME qrReply'.code = "ok"
      PROVE  qrReply'.job.asked < (rows[n].expires_at + 1) * Resolution
  <2>1. Admissible(qrReply'.job)
    BY <1>2, OkIs
  <2>2. qrReply'.job.asked \in Nat /\ ~ (Tokens!Second(e) < Tokens!Second(qrReply'.job.asked))
    BY <1>1, <2>1 DEF Admissible, Tokens!Lapsed
  <2> QED BY <1>1, <2>2, LapsesTogether
<1>3. ASSUME qrReply'.code = "expired"
      PROVE  qrReply'.job.asked >= rows[n].expires_at * Resolution
  <2>1. PICK w \in Workers, d \in Tokens!Doors : Tokens!Refuse(w, d)
    BY <1>3, OnlyRefusalsFault
  <2>2. qrReply'.job = Tokens!Job(d) /\ Tokens!Lapsed(d.raw, qrClock)
    BY <1>3, <2>1, RefusalIs
  <2>3. qrReply'.job.asked = qrClock /\ qrReply'.job.door = d /\ qrClock \in Nat
    BY <2>2 DEF Tokens!Job, TokensInv
  <2>4. Tokens!Second(e) < Tokens!Second(qrClock)
    BY <1>1, <2>2, <2>3 DEF Tokens!Lapsed
  <2> QED BY <1>1, <2>3, <2>4, LapsesTogether
<1> QED BY <1>2, <1>3

\* "ok" and "attendee_mismatch" are said of tokens that were issued for this event.
LEMMA GenuineStep ==
    ASSUME TokensInv, [Tokens!Next]_tokenVars, ~ UNCHANGED tokenVars
    PROVE  /\ qrReply'.code = "ok" => \E n \in Tokens!Minted : Tokens!Rightly(qrReply'.job, n)
           /\ qrReply'.code = "attendee_mismatch" =>
                \E n \in Tokens!Minted :
                   /\ Tokens!Payload(rows[n].token_hash) = Tokens!Payload(qrReply'.job.door.raw)
                   /\ rows[n].event_table = qrReply'.job.door.table
                   /\ rows[n].event_id = qrReply'.job.door.event
<1>1. RowsInv
  BY DEF TokensInv
<1>2. ASSUME qrReply'.code = "ok"
      PROVE  \E n \in Tokens!Minted : Tokens!Rightly(qrReply'.job, n)
  <2>1. /\ Admissible(qrReply'.job)
        /\ \E n \in Tokens!Minted : rows[n].token_hash = qrReply'.job.door.raw
    BY <1>2, OkIs
  <2> QED BY <1>1, <2>1, AtItsOwnDoor DEF Admissible
<1>3. ASSUME qrReply'.code = "attendee_mismatch"
      PROVE  \E n \in Tokens!Minted :
                /\ Tokens!Payload(rows[n].token_hash) = Tokens!Payload(qrReply'.job.door.raw)
                /\ rows[n].event_table = qrReply'.job.door.table
                /\ rows[n].event_id = qrReply'.job.door.event
  <2>1. PICK w \in Workers, d \in Tokens!Doors : Tokens!Refuse(w, d)
    BY <1>3, OnlyRefusalsFault
  <2>2. /\ qrReply'.job = Tokens!Job(d) /\ d.raw.event = d.event /\ d.raw.table = d.table
        /\ d.raw.signature = Tokens!Payload(d.raw)
    BY <1>3, <2>1, RefusalIs
  <2>3. qrReply'.job.door = d /\ d.raw \in Tokens!Presentable
    BY <2>2 DEF Tokens!Job, Tokens!Doors
  <2> QED BY <1>1, <2>2, <2>3, SignedIsIssued
<1> QED BY <1>2, <1>3

\* A spent token stays spent for whoever comes later.
LEMMA SpentStep ==
    ASSUME TokensInv, [Tokens!Next]_tokenVars, ~ UNCHANGED tokenVars, NEW n \in Tokens!Minted
    PROVE  /\ qrReply'.code = "ok" /\ Tokens!Rightly(qrReply'.job, n) /\ rows[n].single_use =>
                 /\ ~ qrReply'.job.late
                 /\ qrReply'.job.door.consume => rows'[n].used
           /\ rows[n].used =>
                 /\ rows'[n].used
                 /\ rows'[n].used_by # rows[n].used_by => ~ qrReply'.job.late
<1>1. n \in Nonces /\ rows[n] # Tokens!NoRow /\ IsRowOf(n, rows[n])
  BY DEF TokensInv, RowsInv, Tokens!Minted
<1>2. ASSUME qrReply'.code = "ok", Tokens!Rightly(qrReply'.job, n), rows[n].single_use
      PROVE  /\ ~ qrReply'.job.late
             /\ qrReply'.job.door.consume => rows'[n].used
  <2>1. PICK m \in Tokens!Minted :
           /\ rows[m].token_hash = qrReply'.job.door.raw
           /\ rows[m].single_use =>
                 ~ qrReply'.job.late /\ (qrReply'.job.door.consume => rows'[m].used)
    BY <1>2, OkIs
  <2>2. IsRowOf(m, rows[m])
    BY DEF TokensInv, RowsInv, Tokens!Minted
  <2>3. m = n
    BY <1>1, <1>2, <2>1, <2>2, TokensDiffer DEF Tokens!Rightly
  <2> QED BY <1>2, <2>1, <2>3
<1>3. ASSUME rows[n].used
      PROVE  /\ rows'[n].used
             /\ rows'[n].used_by # rows[n].used_by => ~ qrReply'.job.late
  <2>1. CASE rows' = rows
    BY <1>3, <2>1
  <2>2. CASE \E m \in Nonces, order \in Orders : Tokens!Mint(m, order)
    <3> PICK m \in Nonces, order \in Orders : Tokens!Mint(m, order)
      BY <2>2
    <3>1. m # n /\ rows'[n] = rows[n]
      BY <1>1 DEF Tokens!Mint, TokensInv, RowsInv
    <3> QED BY <1>3, <3>1
  <2>3. CASE \E w \in Workers : Tokens!Consume(w)
    <3> PICK w \in Workers : Tokens!Consume(w)
      BY <2>3
    <3>1. /\ rows'[Tokens!Row(w)].used
          /\ \A k \in Nonces \ {Tokens!Row(w)} : rows'[k] = rows[k]
      BY ConsumeGrows
    <3>2. pc[w] \notin {Tokens!Idle, "lookup"} /\ qrReply'.job = job[w]
      BY FinishIs DEF Tokens!Consume, Tokens!Idle
    <3>3. ~ job[w].late
      BY <3>2, HeldRow
    <3> QED BY <1>1, <1>3, <3>1, <3>2, <3>3
  <2>4. \/ rows' = rows
        \/ \E m \in Nonces, order \in Orders : Tokens!Mint(m, order)
        \/ \E w \in Workers : Tokens!Consume(w)
    BY DEF Tokens!Next, Tokens!Refuse, Tokens!Present, Tokens!LookupFindsNone,
           Tokens!LookupFindsUsed, Tokens!LookupFinds, Tokens!PeekFinds,
           Tokens!Abandon, Tokens!Admit, Tokens!Reread, Tokens!ConsumeFails, Tokens!Tick
  <2> QED BY <2>1, <2>2, <2>3, <2>4
<1> QED BY <1>2, <1>3

-----------------------------------------------------------------------------
(* Limiter and tokens together. *)

\* A step of the two is one of each, or leaves it at rest.
LEMMA StepIsOfEach == [AllNext]_allVars => [Next]_vars /\ [Tokens!Next]_tokenVars
BY DEF AllNext, allVars, vars, tokenVars

LEMMA LimiterIsThere == AllSpec => Spec
<1>1. AllInit => Init
  BY DEF AllInit
<1> QED BY <1>1, StepIsOfEach, PTL DEF AllSpec, Spec

LEMMA TokensInductive == AllSpec => []TokensInv
<1>1. AllInit => TokensInv
  BY TokensInitially DEF AllInit
<1>2. TokensInv /\ [AllNext]_allVars => TokensInv'
  BY TokensStep, StepIsOfEach
<1> QED BY <1>1, <1>2, PTL DEF AllSpec

\* Every variable of limiter and tokens has its type; no deque outgrows its limit, and
\* no row is spent that is not for a single use (checkins.py 46-110,
\* qr_token_service.py 80-304).
THEOREM ScansTypeCorrect == AllSpec => []AllTypeOK
<1>1. TokensInv => Tokens!TypeOK
  BY TokensTyped
<1> QED BY <1>1, LimiterIsThere, LimiterTypeCorrect, TokensInductive, PTL DEF AllTypeOK

\* The expiry that the admin is told is the one at the door, within a second, for any
\* resolution of the clock and any lifetime (qr_token_service.py 100-101, 123, 238).
THEOREM ExpiryIsTheOneAnnounced == AllSpec => ExpiryIsAsAnnounced
<1>1. TokensInv /\ [AllNext]_allVars =>
        [\A n \in Tokens!Minted :
           qrReply'.to # NoWorker /\ Tokens!Rightly(qrReply'.job, n) =>
              /\ qrReply'.code = "expired" =>
                    qrReply'.job.asked >= rows[n].expires_at * Resolution
              /\ qrReply'.code = "ok" =>
                    qrReply'.job.asked < (rows[n].expires_at + 1) * Resolution]_tokenVars
  BY AnnouncedStep, StepIsOfEach
<1> QED BY <1>1, TokensInductive, PTL
        DEF AllSpec, ExpiryIsAsAnnounced, Tokens!ExpiryIsAsAnnounced, Tokens!vars, tokenVars

\* Whatever is presented, by however many at once, "ok" and "attendee_mismatch" are
\* said of tokens that were issued for this event (qr_token_service.py 216-246).
THEOREM OnlyIssuedTokensPass == AllSpec => AnswersAreGenuine
<1>1. TokensInv /\ [AllNext]_allVars =>
        [/\ qrReply'.code = "ok" => \E n \in Tokens!Minted : Tokens!Rightly(qrReply'.job, n)
         /\ qrReply'.code = "attendee_mismatch" =>
              \E n \in Tokens!Minted :
                 /\ Tokens!Payload(rows[n].token_hash) = Tokens!Payload(qrReply'.job.door.raw)
                 /\ rows[n].event_table = qrReply'.job.door.table
                 /\ rows[n].event_id = qrReply'.job.door.event]_tokenVars
  BY GenuineStep, StepIsOfEach
<1> QED BY <1>1, TokensInductive, PTL
        DEF AllSpec, AnswersAreGenuine, Tokens!AnswersAreGenuine, Tokens!vars, tokenVars

\* A token for a single use that was spent when it was presented is not accepted, nor
\* changes its redeemer, under either isolation level and whatever COMMITs fail
\* (qr_token_service.py 248-253, 296-304).
THEOREM SpentTokensStaySpent == AllSpec => SpentForGood
<1>1. TokensInv /\ [AllNext]_allVars =>
        [\A n \in Tokens!Minted :
           /\ qrReply'.code = "ok" /\ Tokens!Rightly(qrReply'.job, n) /\ rows[n].single_use =>
                 /\ ~ qrReply'.job.late
                 /\ qrReply'.job.door.consume => rows'[n].used
           /\ rows[n].used =>
                 /\ rows'[n].used
                 /\ rows'[n].used_by # rows[n].used_by => ~ qrReply'.job.late]_tokenVars
  BY SpentStep, StepIsOfEach
<1> QED BY <1>1, TokensInductive, PTL
        DEF AllSpec, SpentForGood, Tokens!SpentForGood, Tokens!vars, tokenVars
=============================================================================
