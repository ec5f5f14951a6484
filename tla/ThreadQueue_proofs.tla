------------------------- MODULE ThreadQueue_proofs -------------------------
(***************************************************************************)
(* What the list operations of ThreadQueue return: which threads are on    *)
(* the resulting list, how long it is, that none is linked twice, and that *)
(* an ordered insertion has one place to go and keeps the list in order.   *)
(***************************************************************************)
EXTENDS ThreadQueue, FiniteSetTheorems, TLAPS

\* addThread links one more thread behind the tail.
LEMMA AddThreadProperties ==
    ASSUME NEW T, NEW q \in Seq(T), NEW t \in T
    PROVE  /\ addThread(q, t) \in Seq(T)
           /\ Len(addThread(q, t)) = Len(q) + 1
           /\ Threads(addThread(q, t)) = Threads(q) \union {t}
           /\ NoDuplicates(q) /\ t \notin Threads(q) => NoDuplicates(addThread(q, t))
<1> DEFINE r == addThread(q, t)
<1>1. /\ r \in Seq(T) /\ Len(r) = Len(q) + 1
      /\ DOMAIN q = 1 .. Len(q) /\ DOMAIN r = 1 .. (Len(q) + 1)
      /\ r[Len(q) + 1] = t /\ Len(q) \in Nat
      /\ \A i \in 1 .. Len(q) : r[i] = q[i]
  BY DEF addThread
<1>2. Threads(r) = Threads(q) \union {t}
  <2>1. ASSUME NEW x \in Threads(r) PROVE x \in Threads(q) \union {t}
    BY <1>1 DEF Threads
  <2>2. ASSUME NEW x \in Threads(q) PROVE x \in Threads(r)
    BY <1>1 DEF Threads
  <2>3. t \in Threads(r)
    BY <1>1 DEF Threads
  <2> QED BY <2>1, <2>2, <2>3
<1>3. NoDuplicates(q) /\ t \notin Threads(q) => NoDuplicates(r)
  BY <1>1 DEF Threads, NoDuplicates
<1> QED BY <1>1, <1>2, <1>3

\* A list that links no thread is empty.
LEMMA NoThreadsProperty ==
    ASSUME NEW T, NEW q \in Seq(T), Threads(q) = {} PROVE q = <<>>
<1>1. Len(q) \in Nat /\ DOMAIN q = 1 .. Len(q)
  OBVIOUS
<1>2. Len(q) = 0
  <2>1. Len(q) > 0 => q[1] \in Threads(q) BY <1>1 DEF Threads
  <2> QED BY <1>1, <2>1
<1> QED BY <1>2

\* insertBehind links one more thread anywhere in the list.
LEMMA InsertBehindProperties ==
    ASSUME NEW T, NEW q \in Seq(T), NEW t \in T, NEW i \in 0 .. Len(q)
    PROVE  /\ insertBehind(q, i, t) \in Seq(T)
           /\ Threads(insertBehind(q, i, t)) = Threads(q) \union {t}
           /\ NoDuplicates(q) /\ t \notin Threads(q) => NoDuplicates(insertBehind(q, i, t))
<1> DEFINE r == insertBehind(q, i, t)
<1>1. /\ DOMAIN q = 1 .. Len(q) /\ DOMAIN r = 1 .. (Len(q) + 1)
      /\ Len(q) \in Nat /\ i \in Nat /\ i <= Len(q)
      /\ \A j \in 1 .. i : r[j] = q[j]
      /\ r[i + 1] = t
      /\ \A j \in (i + 1) .. Len(q) : r[j + 1] = q[j]
      /\ \A j \in 1 .. Len(q) : q[j] \in T
  BY DEF insertBehind
<1>2. r \in Seq(T)
  <2>1. \A j \in 1 .. (Len(q) + 1) : r[j] \in T
    BY <1>1 DEF insertBehind
  <2>2. r = [j \in 1 .. (Len(q) + 1) |-> r[j]]
    BY DEF insertBehind
  <2>3. r \in [1 .. (Len(q) + 1) -> T]
    BY <2>1, <2>2
  <2> QED BY <2>3, <1>1
<1>3. \A j \in 1 .. (Len(q) + 1) : \/ j <= i /\ r[j] = q[j]
                                   \/ j = i + 1 /\ r[j] = t
                                   \/ i + 1 < j /\ r[j] = q[j - 1]
  BY <1>1 DEF insertBehind
<1>4. Threads(r) = Threads(q) \union {t}
  <2>1. ASSUME NEW j \in DOMAIN r PROVE r[j] \in Threads(q) \union {t}
    <3>1. CASE j <= i BY <3>1, <1>1 DEF Threads
    <3>2. CASE j = i + 1 BY <3>2, <1>1
    <3>3. CASE i + 1 < j
      <4>1. j - 1 \in DOMAIN q /\ r[j] = q[j - 1] BY <3>3, <1>1, <1>3
      <4> QED BY <4>1 DEF Threads
    <3> QED BY <1>1, <3>1, <3>2, <3>3
  <2>2. ASSUME NEW j \in DOMAIN q PROVE q[j] \in Threads(r)
    <3>1. CASE j <= i BY <3>1, <1>1 DEF Threads
    <3>2. CASE i < j
      <4>1. j + 1 \in DOMAIN r /\ r[j + 1] = q[j] BY <3>2, <1>1
      <4> QED BY <4>1 DEF Threads
    <3> QED BY <1>1, <3>1, <3>2
  <2>3. t \in Threads(r)
    BY <1>1 DEF Threads
  <2>4. Threads(r) \subseteq Threads(q) \union {t} BY <2>1 DEF Threads
  <2>5. Threads(q) \subseteq Threads(r) BY <2>2 DEF Threads
  <2> QED BY <2>3, <2>4, <2>5
<1>5. ASSUME NoDuplicates(q), t \notin Threads(q) PROVE NoDuplicates(r)
  <2>1. \A j \in DOMAIN q : q[j] # t BY <1>5 DEF Threads
  <2>2. SUFFICES ASSUME NEW j \in DOMAIN r, NEW k \in DOMAIN r, r[j] = r[k], j < k
                 PROVE FALSE
    BY <1>1 DEF NoDuplicates
  <2>3. \A m, n \in 1 .. Len(q) : q[m] = q[n] => m = n
    BY <1>1, <1>5 DEF NoDuplicates
  <2>4. CASE k <= i BY <2>2, <2>3, <2>4, <1>1, <1>3
  <2>5. CASE k = i + 1 BY <2>1, <2>2, <2>5, <1>1, <1>3
  <2>6. CASE i + 1 < k
    <3>1. r[k] = q[k - 1] /\ k - 1 \in 1 .. Len(q) BY <2>6, <1>1, <1>3
    <3>2. CASE j <= i BY <3>1, <3>2, <2>2, <2>3, <2>6, <1>1
    <3>3. CASE j = i + 1 BY <3>1, <3>3, <2>1, <2>2, <1>1
    <3>4. CASE i + 1 < j
      <4>1. r[j] = q[j - 1] /\ j - 1 \in 1 .. Len(q) BY <3>4, <1>1, <1>3
      <4>2. q[j - 1] = q[k - 1] BY <3>1, <4>1, <2>2
      <4>3. j - 1 = k - 1 BY <3>1, <4>1, <4>2, <2>3
      <4> HIDE DEF r
      <4> QED BY <4>3, <2>2, <1>1
    <3> QED BY <1>1, <3>2, <3>3, <3>4
  <2> QED BY <1>1, <2>4, <2>5, <2>6
<1> QED BY <1>2, <1>4, <1>5

\* removeThread unlinks the one occurrence of t and keeps the rest.
LEMMA RemoveThreadProperties ==
    ASSUME NEW T, NEW q \in Seq(T), NEW t \in Threads(q), NoDuplicates(q)
    PROVE  /\ removeThread(q, t) \in Seq(T)
           /\ Len(removeThread(q, t)) = Len(q) - 1
           /\ Threads(removeThread(q, t)) = Threads(q) \ {t}
           /\ NoDuplicates(removeThread(q, t))
<1> DEFINE i == CHOOSE i \in DOMAIN q : q[i] = t
           r == removeThread(q, t)
<1>1. i \in DOMAIN q /\ q[i] = t
  BY DEF Threads
<1> HIDE DEF i
<1>2. r = [j \in 1 .. (Len(q) - 1) |-> IF j < i THEN q[j] ELSE q[j + 1]]
  BY DEF removeThread, i
<1>3. /\ DOMAIN q = 1 .. Len(q) /\ Len(q) \in Nat /\ Len(q) > 0
      /\ DOMAIN r = 1 .. (Len(q) - 1) /\ i \in 1 .. Len(q)
      /\ \A j \in 1 .. Len(q) : q[j] \in T
      /\ \A m, n \in 1 .. Len(q) : q[m] = q[n] => m = n
  BY <1>1, <1>2 DEF NoDuplicates
<1> HIDE DEF r
<1>4. \A j \in 1 .. (Len(q) - 1) : \/ j < i /\ r[j] = q[j]
                                   \/ i <= j /\ r[j] = q[j + 1]
  BY <1>2, <1>3
<1>5. r \in Seq(T) /\ Len(r) = Len(q) - 1
  <2>1. \A j \in 1 .. (Len(q) - 1) : r[j] \in T BY <1>3, <1>4
  <2>2. r \in [1 .. (Len(q) - 1) -> T] BY <1>2, <2>1
  <2> DEFINE n == Len(q) - 1
  <2>3. n \in Nat BY <1>3
  <2>4. r \in [1 .. n -> T] BY <2>2
  <2>5. n = Len(q) - 1 OBVIOUS
  <2> HIDE DEF n
  <2>6. r \in Seq(T) /\ DOMAIN r = 1 .. n BY <2>3, <2>4
  <2>7. Len(r) = n BY <2>3, <2>4, <2>6
  <2> QED BY <2>5, <2>6, <2>7
<1>6. Threads(r) = Threads(q) \ {t}
  <2>1. ASSUME NEW j \in DOMAIN r PROVE r[j] \in Threads(q) \ {t}
    <3>1. PICK k \in 1 .. Len(q) : k # i /\ r[j] = q[k]
      BY <1>3, <1>4
    <3> QED BY <3>1, <1>1, <1>3 DEF Threads
  <2>2. ASSUME NEW j \in DOMAIN q, q[j] # t PROVE q[j] \in Threads(r)
    <3>1. CASE j < i
      <4>1. j \in DOMAIN r /\ r[j] = q[j] BY <3>1, <1>3, <1>4
      <4> QED BY <4>1 DEF Threads
    <3>2. CASE i < j
      <4>1. j - 1 \in DOMAIN r /\ r[j - 1] = q[j] BY <3>2, <1>3, <1>4
      <4> QED BY <4>1 DEF Threads
    <3> QED BY <1>1, <1>3, <2>2, <3>1, <3>2
  <2>3. Threads(r) \subseteq Threads(q) \ {t} BY <2>1 DEF Threads
  <2>4. Threads(q) \ {t} \subseteq Threads(r) BY <2>2 DEF Threads
  <2> QED BY <2>3, <2>4
<1>7. NoDuplicates(r)
  <2>1. SUFFICES ASSUME NEW j \in DOMAIN r, NEW k \in DOMAIN r, r[j] = r[k]
                 PROVE j = k
    BY DEF NoDuplicates
  <2> QED BY <2>1, <1>3, <1>4
<1> QED BY <1>5, <1>6, <1>7 DEF r

\* takeFirstFromQueue: the head leaves, the others stay.
LEMMA TakeFirstProperties ==
    ASSUME NEW T, NEW q \in Seq(T), q # <<>>, NoDuplicates(q)
    PROVE  /\ Head(q) \in Threads(q) /\ Tail(q) \in Seq(T)
           /\ Threads(Tail(q)) = Threads(q) \ {Head(q)}
           /\ NoDuplicates(Tail(q))
<1>1. /\ Len(q) \in Nat /\ Len(q) > 0 /\ DOMAIN q = 1 .. Len(q) /\ Head(q) = q[1]
      /\ Tail(q) \in Seq(T) /\ DOMAIN Tail(q) = 1 .. (Len(q) - 1)
      /\ \A j \in 1 .. (Len(q) - 1) : Tail(q)[j] = q[j + 1]
      /\ \A m, n \in 1 .. Len(q) : q[m] = q[n] => m = n
  BY DEF NoDuplicates
<1>2. Head(q) \in Threads(q)
  BY <1>1 DEF Threads
<1>3. ASSUME NEW j \in DOMAIN Tail(q) PROVE Tail(q)[j] \in Threads(q) \ {Head(q)}
  <2>1. j + 1 \in DOMAIN q /\ Tail(q)[j] = q[j + 1] /\ j + 1 # 1 BY <1>1
  <2> QED BY <1>1, <2>1 DEF Threads
<1>4. ASSUME NEW j \in DOMAIN q, q[j] # Head(q) PROVE q[j] \in Threads(Tail(q))
  <2>1. j - 1 \in DOMAIN Tail(q) /\ Tail(q)[j - 1] = q[j] BY <1>1, <1>4
  <2> QED BY <2>1 DEF Threads
<1>5. Threads(Tail(q)) \subseteq Threads(q) \ {Head(q)} BY <1>3 DEF Threads
<1>6. Threads(q) \ {Head(q)} \subseteq Threads(Tail(q)) BY <1>4 DEF Threads
<1>7. NoDuplicates(Tail(q))
  BY <1>1 DEF NoDuplicates
<1> QED BY <1>1, <1>2, <1>5, <1>6, <1>7
-----------------------------------------------------------------------------
(* Where a thread is inserted.                                              *)

\* A nonempty set of subsets of a finite set has a smallest one.
LEMMA SmallestSubset ==
    \A S, G : IsFiniteSet(S) /\ G \subseteq SUBSET S /\ G # {} =>
       \E X \in G : \A Y \in G : Y \subseteq X => Y = X
<1>1. SUFFICES ASSUME NEW S, NEW G, IsFiniteSet(S), G \subseteq SUBSET S, G # {}
               PROVE  \E X \in G : \A Y \in G : Y \subseteq X => Y = X
  OBVIOUS
<1>2. IsWellFoundedOn(StrictSubsetOrdering(S), SUBSET S)
  BY <1>1, FS_StrictSubsetOrderingWellFounded, FS_FiniteSubsetsOfFinite
<1>3. \E X \in G : \A Y \in G : ~ (<<Y, X>> \in StrictSubsetOrdering(S))
  BY <1>1, <1>2, WFMin
<1>4. \A X, Y \in G : Y \subseteq X /\ Y # X => <<Y, X>> \in StrictSubsetOrdering(S)
  BY <1>1 DEF StrictSubsetOrdering
<1> QED BY <1>3, <1>4

\* The walk of addThreadByPriority stops at one place, and only one, also in a
\* queue that a change of priority left unsorted.
THEOREM InsertPointUnique ==
    ASSUME NEW T, NEW prio \in [T -> Nat], NEW q \in Seq(T), NEW t \in T
    PROVE  /\ \E i \in 0 .. Len(q) : IsInsertPoint(q, t, prio, i)
           /\ \A i, j \in 0 .. Len(q) :
                 IsInsertPoint(q, t, prio, i) /\ IsInsertPoint(q, t, prio, j) => i = j
<1> DEFINE n == Len(q)
           p == [i \in 1 .. n |-> prio[q[i]]]
           stops == {i \in 0 .. n : i # 0 => p[i] <= prio[t]}
           behind(i) == {j \in 1 .. n : i < j}
           F == {behind(i) : i \in stops}
<1>1. n \in Nat /\ DOMAIN q = 1 .. n /\ prio[t] \in Nat /\ 0 \in stops OBVIOUS
<1>2. \A i \in 1 .. n : p[i] = prio[q[i]] /\ p[i] \in Nat BY <1>1
<1>3. \A i \in 0 .. n : IsInsertPoint(q, t, prio, i) <=>
         i \in stops /\ \A j \in behind(i) : p[j] > prio[t]
  <2> HIDE DEF p
  <2>1. SUFFICES ASSUME NEW i \in 0 .. n
                 PROVE  IsInsertPoint(q, t, prio, i) <=>
                          i \in stops /\ \A j \in behind(i) : p[j] > prio[t]
    OBVIOUS
  <2>2. i \in stops <=> (i # 0 => prio[q[i]] <= prio[t])
    <3>1. i # 0 => i \in 1 .. n BY <1>1
    <3> QED BY <1>2, <3>1
  <2>3. (\A j \in behind(i) : p[j] > prio[t]) <=> (\A j \in DOMAIN q : i < j => prio[q[j]] > prio[t])
    BY <1>1, <1>2
  <2> QED BY <2>2, <2>3 DEF IsInsertPoint
<1> HIDE DEF p, n
<1>4. \E i \in stops : \A j \in behind(i) : p[j] > prio[t]
  <2>1. IsFiniteSet(1 .. n) BY <1>1, FS_Interval
  <2>2. F \subseteq SUBSET (1 .. n) OBVIOUS
  <2>3. F # {} BY <1>1
  <2>4. PICK X \in F : \A Y \in F : Y \subseteq X => Y = X
    <3> DEFINE U == 1 .. n
    <3>1. IsFiniteSet(U) /\ F \subseteq SUBSET U /\ F # {} BY <2>1, <2>2, <2>3
    <3> HIDE DEF F, U
    <3> QED BY <3>1, SmallestSubset
  <2>5. PICK i \in stops : X = behind(i) BY <2>4
  <2>6. ASSUME NEW j \in behind(i), ~(p[j] > prio[t]) PROVE FALSE
    <3>1. p[j] \in Nat /\ j \in 1 .. n /\ i \in 0 .. n /\ i < j BY <1>1, <1>2, <2>6
    <3>2. p[j] <= prio[t] BY <1>1, <2>6, <3>1
    <3>3. j \in stops BY <1>1, <3>1, <3>2
    <3>4. behind(j) \subseteq behind(i) /\ j \in behind(i) /\ j \notin behind(j) BY <1>1, <3>1
    <3> QED BY <2>4, <2>5, <3>3, <3>4
  <2> QED BY <2>6
<1>5. ASSUME NEW i \in 0 .. n, NEW j \in 0 .. n, i < j,
             IsInsertPoint(q, t, prio, i), IsInsertPoint(q, t, prio, j)
      PROVE  FALSE
  <2>1. j \in 1 .. n /\ j \in behind(i) BY <1>1, <1>5
  <2>2. p[j] > prio[t] /\ p[j] <= prio[t] BY <1>3, <1>5, <2>1
  <2> QED BY <1>1, <1>2, <2>1, <2>2
<1>6. \A i, j \in 0 .. n : i = j \/ i < j \/ j < i BY <1>1
<1> QED BY <1>1, <1>3, <1>4, <1>5, <1>6
-----------------------------------------------------------------------------
(* The order of a queue whose threads keep their priorities.                *)

\* The most urgent thread is the head.
Sorted(q, prio) == \A i, j \in DOMAIN q : i < j => prio[q[i]] <= prio[q[j]]

\* addThreadByPriority keeps a sorted queue sorted: the threads in front of the
\* new one are as urgent or more, those behind it are less urgent.
LEMMA InsertKeepsSorted ==
    ASSUME NEW T, NEW prio \in [T -> Nat], NEW q \in Seq(T), NEW t \in T, NEW i \in 0 .. Len(q),
           Sorted(q, prio), IsInsertPoint(q, t, prio, i)
    PROVE  Sorted(insertBehind(q, i, t), prio)
<1> DEFINE r == insertBehind(q, i, t)
<1>1. /\ DOMAIN q = 1 .. Len(q) /\ DOMAIN r = 1 .. (Len(q) + 1)
      /\ Len(q) \in Nat /\ i \in Nat /\ i <= Len(q) /\ prio[t] \in Nat
      /\ \A j \in 1 .. Len(q) : q[j] \in T /\ prio[q[j]] \in Nat
  BY DEF insertBehind
<1>2. \A j \in 1 .. (Len(q) + 1) : \/ j <= i /\ r[j] = q[j]
                                   \/ j = i + 1 /\ r[j] = t
                                   \/ i + 1 < j /\ r[j] = q[j - 1]
  BY <1>1 DEF insertBehind
<1>3. \A j, k \in 1 .. Len(q) : j < k => prio[q[j]] <= prio[q[k]]
  BY <1>1 DEF Sorted
<1>4. \A j \in 1 .. i : prio[q[j]] <= prio[t]
  <2>1. SUFFICES ASSUME NEW j \in 1 .. i PROVE prio[q[j]] <= prio[t] OBVIOUS
  <2>2. i \in 1 .. Len(q) /\ j \in 1 .. Len(q) /\ prio[q[i]] <= prio[t]
    BY <1>1, <2>1 DEF IsInsertPoint
  <2>3. j = i \/ prio[q[j]] <= prio[q[i]] BY <1>3, <2>2
  <2> QED BY <1>1, <2>2, <2>3
<1>5. \A j \in (i + 1) .. Len(q) : prio[t] <= prio[q[j]]
  BY <1>1 DEF IsInsertPoint
<1> HIDE DEF r
<1>6. ASSUME NEW j \in 1 .. (Len(q) + 1), NEW k \in 1 .. (Len(q) + 1), j < k
      PROVE  prio[r[j]] <= prio[r[k]]
  <2>1. CASE k <= i BY <1>1, <1>2, <1>3, <1>6, <2>1
  <2>2. CASE k = i + 1
    <3>1. r[k] = t /\ r[j] = q[j] /\ j \in 1 .. i BY <1>1, <1>2, <1>6, <2>2
    <3> QED BY <1>4, <3>1
  <2>3. CASE i + 1 < k
    <3>1. r[k] = q[k - 1] /\ k - 1 \in (i + 1) .. Len(q) /\ k - 1 \in 1 .. Len(q)
      BY <1>1, <1>2, <1>6, <2>3
    <3>2. CASE j <= i
      <4>1. r[j] = q[j] /\ j \in 1 .. Len(q) /\ j < k - 1 BY <1>1, <1>2, <1>6, <2>3, <3>2
      <4> QED BY <1>3, <3>1, <4>1
    <3>3. CASE j = i + 1
      <4>1. r[j] = t BY <1>1, <1>2, <3>3
      <4> QED BY <1>5, <3>1, <4>1
    <3>4. CASE i + 1 < j
      <4>1. r[j] = q[j - 1] /\ j - 1 \in 1 .. Len(q) /\ j - 1 < k - 1 BY <1>1, <1>2, <1>6, <3>4
      <4> QED BY <1>3, <3>1, <4>1
    <3> QED BY <1>1, <3>2, <3>3, <3>4
  <2> QED BY <1>1, <2>1, <2>2, <2>3
<1> QED BY <1>1, <1>6 DEF Sorted, r

\* takeFirstFromQueue keeps the order, and takes one of the most urgent threads.
LEMMA TakeFirstKeepsSorted ==
    ASSUME NEW T, NEW prio \in [T -> Nat], NEW q \in Seq(T), q # <<>>, Sorted(q, prio)
    PROVE  /\ Sorted(Tail(q), prio)
           /\ \A u \in Threads(q) : prio[Head(q)] <= prio[u]
<1>1. /\ Len(q) \in Nat /\ Len(q) > 0 /\ DOMAIN q = 1 .. Len(q) /\ Head(q) = q[1]
      /\ DOMAIN Tail(q) = 1 .. (Len(q) - 1)
      /\ \A j \in 1 .. (Len(q) - 1) : Tail(q)[j] = q[j + 1]
      /\ \A j \in 1 .. Len(q) : prio[q[j]] \in Nat
      /\ \A j, k \in 1 .. Len(q) : j < k => prio[q[j]] <= prio[q[k]]
  BY DEF Sorted
<1>2. ASSUME NEW j \in DOMAIN Tail(q), NEW k \in DOMAIN Tail(q), j < k
      PROVE  prio[Tail(q)[j]] <= prio[Tail(q)[k]]
  <2>1. /\ j + 1 \in 1 .. Len(q) /\ k + 1 \in 1 .. Len(q) /\ j + 1 < k + 1
        /\ Tail(q)[j] = q[j + 1] /\ Tail(q)[k] = q[k + 1]
    BY <1>1, <1>2
  <2> QED BY <1>1, <2>1
<1>3. ASSUME NEW j \in 1 .. Len(q) PROVE prio[Head(q)] <= prio[q[j]]
  <2>1. j = 1 \/ 1 < j BY <1>1
  <2> QED BY <1>1, <2>1
<1> QED BY <1>1, <1>2, <1>3 DEF Sorted, Threads

\* removeThread keeps the order, whichever thread leaves.
LEMMA RemoveKeepsSorted ==
    ASSUME NEW T, NEW prio \in [T -> Nat], NEW q \in Seq(T), NEW t \in Threads(q), Sorted(q, prio)
    PROVE  Sorted(removeThread(q, t), prio)
<1> DEFINE i == CHOOSE i \in DOMAIN q : q[i] = t
           r == removeThread(q, t)
<1>1. i \in DOMAIN q
  BY DEF Threads
<1> HIDE DEF i
<1>2. r = [j \in 1 .. (Len(q) - 1) |-> IF j < i THEN q[j] ELSE q[j + 1]]
  BY DEF removeThread, i
<1>3. /\ DOMAIN q = 1 .. Len(q) /\ Len(q) \in Nat /\ i \in 1 .. Len(q)
      /\ DOMAIN r = 1 .. (Len(q) - 1)
  BY <1>1, <1>2
<1> HIDE DEF r
<1>4. \A j \in 1 .. (Len(q) - 1) : \/ j < i /\ r[j] = q[j]
                                   \/ i <= j /\ r[j] = q[j + 1]
  BY <1>2, <1>3
<1>5. ASSUME NEW j \in 1 .. (Len(q) - 1), NEW k \in 1 .. (Len(q) - 1), j < k
      PROVE  \E m, n \in 1 .. Len(q) : m < n /\ r[j] = q[m] /\ r[k] = q[n]
  <2>1. CASE k < i
    <3>1. r[j] = q[j] /\ r[k] = q[k] /\ j \in 1 .. Len(q) /\ k \in 1 .. Len(q) BY <1>3, <1>4, <1>5, <2>1
    <3> QED BY <1>5, <3>1
  <2>2. CASE j < i /\ i <= k
    <3>1. r[j] = q[j] /\ r[k] = q[k + 1] /\ j \in 1 .. Len(q) /\ k + 1 \in 1 .. Len(q) /\ j < k + 1
      BY <1>3, <1>4, <1>5, <2>2
    <3> QED BY <3>1
  <2>3. CASE i <= j
    <3>1. r[j] = q[j + 1] /\ r[k] = q[k + 1] /\ j + 1 \in 1 .. Len(q) /\ k + 1 \in 1 .. Len(q) /\ j + 1 < k + 1
      BY <1>3, <1>4, <1>5, <2>3
    <3> QED BY <3>1
  <2> QED BY <1>3, <2>1, <2>2, <2>3
<1>6. \A j, k \in DOMAIN q : j < k => prio[q[j]] <= prio[q[k]]
  BY DEF Sorted
<1>7. \A j, k \in DOMAIN r : j < k => prio[r[j]] <= prio[r[k]]
  <2> SUFFICES ASSUME NEW j \in DOMAIN r, NEW k \in DOMAIN r, j < k
               PROVE  prio[r[j]] <= prio[r[k]]
    OBVIOUS
  <2>1. j \in 1 .. (Len(q) - 1) /\ k \in 1 .. (Len(q) - 1) BY <1>3
  <2>2. PICK m \in 1 .. Len(q), n \in 1 .. Len(q) : m < n /\ r[j] = q[m] /\ r[k] = q[n]
    BY <1>5, <2>1
  <2> QED BY <1>3, <1>6, <2>2
<1> QED BY <1>7 DEF Sorted, r
=============================================================================
