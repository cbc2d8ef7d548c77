---------------------- MODULE AgentOrchestratorProofs ----------------------
(***************************************************************************)
(* Proofs about AgentOrchestrator and, at the end, about the batches given *)
(* to it, for any set of tasks, any limit, any number of steps, with or    *)
(* without callbacks that throw.                                           *)
(***************************************************************************)
EXTENDS BatchSubmission, FiniteSetTheorems, SequenceTheorems, TLAPS

Distinct(q) == \A i, j \in DOMAIN q : q[i] = q[j] => i = j

Sorted(q, prio) ==
    \A i, j \in DOMAIN q : i < j => Effective(prio[q[j]]) <= Effective(prio[q[i]])

----------------------------------------------------------------------------
(* sortQueue: a stable sort is a permutation, and its result is sorted. *)

\* sort() compares by a strict total order on positions.
LEMMA PrecedesIsTotalOrder ==
    ASSUME NEW q \in Seq(Task), NEW prio \in [Task -> 0..3]
    PROVE  /\ \A i \in DOMAIN q : ~Precedes(q, prio, i, i)
           /\ \A i, j \in DOMAIN q : i # j => Precedes(q, prio, i, j) \/ Precedes(q, prio, j, i)
           /\ \A i, j, l \in DOMAIN q :
                Precedes(q, prio, i, j) /\ Precedes(q, prio, j, l) => Precedes(q, prio, i, l)
<1>1. DOMAIN q \subseteq Nat /\ \A i \in DOMAIN q : prio[q[i]] \in 0..3
  OBVIOUS
<1>2. \A i \in DOMAIN q : Effective(prio[q[i]]) \in Nat
  BY <1>1 DEF Effective
<1> DEFINE e(i) == Effective(prio[q[i]])
<1>3. \A i \in DOMAIN q : e(i) \in Nat /\ i \in Nat
  BY <1>1, <1>2
<1>4. \A i, j \in DOMAIN q : Precedes(q, prio, j, i) <=> (e(j) > e(i) \/ (e(j) = e(i) /\ j < i))
  BY DEF Precedes
<1> HIDE DEF e
<1> QED
  BY <1>3, <1>4

\* Before a position there are as many positions as its rank says, and a
\* position that comes later has a greater rank.
LEMMA RankIsBijective ==
    ASSUME NEW q \in Seq(Task), NEW prio \in [Task -> 0..3]
    PROVE  /\ \A i \in DOMAIN q : Rank(q, prio, i) \in DOMAIN q
           /\ \A i, j \in DOMAIN q :
                Precedes(q, prio, i, j) => Rank(q, prio, i) < Rank(q, prio, j)
           /\ \A k \in DOMAIN q : \E i \in DOMAIN q : Rank(q, prio, i) = k
<1> DEFINE D == DOMAIN q
           B(i) == {j \in D : Precedes(q, prio, j, i)}
           r == [i \in D |-> Rank(q, prio, i)]
<1>1. D = 1..Len(q) /\ Len(q) \in Nat
  OBVIOUS
<1>2. IsFiniteSet(D) /\ Cardinality(D) = Len(q)
  <2>1. /\ IsFiniteSet(1..Len(q))
        /\ Cardinality(1..Len(q)) = IF 1 > Len(q) THEN 0 ELSE Len(q) - 1 + 1
    BY <1>1, FS_Interval
  <2> QED
    BY <1>1, <2>1
<1>3. \A i \in D : IsFiniteSet(B(i)) /\ Cardinality(B(i)) \in Nat
  BY <1>2, FS_Subset, FS_CardinalityType
<1>10. \A i \in D : Rank(q, prio, i) = Cardinality(B(i)) + 1
  BY DEF Rank
<1>4. ASSUME NEW i \in D PROVE Rank(q, prio, i) \in D
  <2>1. B(i) \in SUBSET (D \ {i})
    BY PrecedesIsTotalOrder
  <2>2. IsFiniteSet(D \ {i}) /\ Cardinality(D \ {i}) = Len(q) - 1
    BY <1>2, FS_RemoveElement
  <2>3. Cardinality(B(i)) <= Len(q) - 1
    BY <2>1, <2>2, FS_Subset
  <2> QED
    <3> HIDE DEF B
    <3> QED
      BY <1>1, <1>3, <1>10, <2>3
<1>5. ASSUME NEW i \in D, NEW j \in D, Precedes(q, prio, i, j)
      PROVE  Rank(q, prio, i) < Rank(q, prio, j)
  <2>1. B(i) \in SUBSET B(j)
    BY <1>5, PrecedesIsTotalOrder
  <2>2. B(i) # B(j)
    BY <1>5, PrecedesIsTotalOrder
  <2>3. Cardinality(B(i)) <= Cardinality(B(j)) /\ Cardinality(B(i)) # Cardinality(B(j))
    BY <1>3, <2>1, <2>2, FS_Subset
  <2> QED
    <3> HIDE DEF B
    <3> QED
      BY <1>3, <1>10, <2>3
<1>6. r \in Injection(D, D)
  <2>1. \A i, j \in D : i # j => r[i] # r[j]
    <3> SUFFICES ASSUME NEW i \in D, NEW j \in D, i # j
                 PROVE  r[i] # r[j]
      OBVIOUS
    <3>1. Precedes(q, prio, i, j) \/ Precedes(q, prio, j, i)
      BY PrecedesIsTotalOrder
    <3>2. r[i] < r[j] \/ r[j] < r[i]
      BY <1>5, <3>1
    <3> QED
      BY <1>1, <1>4, <3>2
  <2>2. r \in [D -> D]
    BY <1>4
  <2> HIDE DEF r, D
  <2> QED
    BY <2>1, <2>2 DEF Injection, IsInjective
<1>7. r \in Surjection(D, D)
  BY <1>2, <1>6, FS_Injection
<1>8. \A k \in D : \E i \in D : Rank(q, prio, i) = k
  BY <1>7 DEF Surjection
<1> QED
  BY <1>4, <1>5, <1>8

\* What sortQueue does to the queue: the same tasks, each as often, by priority.
LEMMA SortQueueSorts ==
    ASSUME NEW q \in Seq(Task), NEW prio \in [Task -> 0..3]
    PROVE  /\ SortQueue(q, prio) \in Seq(Task)
           /\ ToSet(SortQueue(q, prio)) = ToSet(q)
           /\ Distinct(q) => Distinct(SortQueue(q, prio))
           /\ Sorted(SortQueue(q, prio), prio)
<1> DEFINE D == DOMAIN q
           g(k) == CHOOSE i \in D : Rank(q, prio, i) = k
           s == SortQueue(q, prio)
<1>1. D = 1..Len(q) /\ Len(q) \in Nat
  OBVIOUS
<1>2. \A k \in D : g(k) \in D /\ Rank(q, prio, g(k)) = k
  BY RankIsBijective
<1>3. \A k, l \in D : g(k) = g(l) => k = l
  BY <1>2
<1>4. \A i \in D : \E k \in D : g(k) = i
  <2> SUFFICES ASSUME NEW i \in D
               PROVE  g(Rank(q, prio, i)) = i
    BY RankIsBijective
  <2> DEFINE k == Rank(q, prio, i)
  <2>1. k \in D
    BY RankIsBijective
  <2>2. g(k) \in D /\ Rank(q, prio, g(k)) = Rank(q, prio, i)
    BY <1>2, <2>1
  <2>3. CASE g(k) # i
    <3>1. Precedes(q, prio, g(k), i) \/ Precedes(q, prio, i, g(k))
      BY <2>2, <2>3, PrecedesIsTotalOrder
    <3>2. Rank(q, prio, g(k)) < Rank(q, prio, i) \/ Rank(q, prio, i) < Rank(q, prio, g(k))
      BY <2>2, <3>1, RankIsBijective
    <3> QED
      BY <1>1, <2>1, <2>2, <3>2
  <2> QED
    BY <2>3
<1>5. DOMAIN s = D /\ \A k \in D : s[k] = q[g(k)]
  BY <1>1 DEF SortQueue
<1>6. s \in Seq(Task)
  <2>1. s = [k \in 1..Len(q) |-> q[g(k)]]
    BY DEF SortQueue
  <2>2. \A i \in D : q[i] \in Task
    OBVIOUS
  <2> HIDE DEF g, s
  <2>3. \A k \in 1..Len(q) : q[g(k)] \in Task
    BY <1>1, <1>2, <2>2
  <2> QED
    BY <1>1, <2>1, <2>3, IsASeq
<1> HIDE DEF g, s
<1>7. ToSet(s) = ToSet(q)
  BY <1>2, <1>4, <1>5 DEF ToSet
<1>8. Distinct(q) => Distinct(s)
  BY <1>2, <1>3, <1>5 DEF Distinct
<1>9. Sorted(s, prio)
  <2> SUFFICES ASSUME NEW k \in D, NEW l \in D, k < l
               PROVE  Effective(prio[s[l]]) <= Effective(prio[s[k]])
    BY <1>5 DEF Sorted
  <2>1. g(k) # g(l)
    BY <1>1, <1>3
  <2>2. ~Precedes(q, prio, g(l), g(k))
    <3>1. /\ g(k) \in D /\ Rank(q, prio, g(k)) = k
          /\ g(l) \in D /\ Rank(q, prio, g(l)) = l
      BY <1>2
    <3>2. Precedes(q, prio, g(l), g(k)) => l < k
      BY <3>1, RankIsBijective
    <3> QED
      BY <1>1, <3>2
  <2>3. Precedes(q, prio, g(k), g(l))
    BY <1>2, <2>1, <2>2, PrecedesIsTotalOrder
  <2>4. prio[s[k]] \in 0..3 /\ prio[s[l]] \in 0..3
    BY <1>5, <1>6
  <2> QED
    BY <1>5, <2>3, <2>4 DEF Precedes, Effective
<1> QED
  BY <1>6, <1>7, <1>8, <1>9 DEF s

----------------------------------------------------------------------------
(* The two other operations on the queue: shift and splice. *)

\* The first k ids leave the queue, the others stay, in order.
LEMMA ShiftSplitsQueue ==
    ASSUME NEW q \in Seq(Task), NEW prio, NEW k \in 0..Len(q), Distinct(q), Sorted(q, prio)
    PROVE  LET shifted == SubSeq(q, 1, k)
               rest == SubSeq(q, k+1, Len(q))
           IN  /\ rest \in Seq(Task)
               /\ ToSet(shifted) = {q[i] : i \in 1..k}
               /\ ToSet(rest) = {q[i] : i \in (k+1)..Len(q)}
               /\ ToSet(q) = ToSet(shifted) \cup ToSet(rest)
               /\ ToSet(shifted) \cap ToSet(rest) = {}
               /\ Distinct(rest)
               /\ Sorted(rest, prio)
<1> DEFINE shifted == SubSeq(q, 1, k)
           rest == SubSeq(q, k+1, Len(q))
<1>1. Len(q) \in Nat /\ k \in Nat /\ k <= Len(q) /\ DOMAIN q = 1..Len(q)
  OBVIOUS
<1>2. DOMAIN shifted = 1..k /\ \A i \in 1..k : shifted[i] = q[i]
  BY <1>1
<1>3. /\ rest \in Seq(Task)
      /\ DOMAIN rest = 1..(Len(q) - k)
      /\ \A i \in 1..(Len(q) - k) : rest[i] = q[k + i]
  BY <1>1
<1> HIDE DEF shifted, rest
<1>4. ToSet(shifted) = {q[i] : i \in 1..k}
  BY <1>2 DEF ToSet
<1>5. ToSet(rest) = {q[i] : i \in (k+1)..Len(q)}
  <2>1. \A i \in (k+1)..Len(q) : i - k \in 1..(Len(q) - k) /\ k + (i - k) = i
    BY <1>1
  <2>2. \A i \in 1..(Len(q) - k) : k + i \in (k+1)..Len(q)
    BY <1>1
  <2>3. \A i \in (k+1)..Len(q) : rest[i - k] = q[i]
    BY <1>3, <2>1
  <2>4. \A i \in (k+1)..Len(q) : q[i] \in ToSet(rest)
    BY <1>3, <2>1, <2>3 DEF ToSet
  <2>5. \A j \in DOMAIN rest : \E i \in (k+1)..Len(q) : rest[j] = q[i]
    BY <1>3, <2>2
  <2>6. \A x \in ToSet(rest) : \E i \in (k+1)..Len(q) : x = q[i]
    BY <2>5 DEF ToSet
  <2> QED
    BY <2>4, <2>6
<1>6. ToSet(q) = ToSet(shifted) \cup ToSet(rest)
  <2>1. DOMAIN q = (1..k) \cup ((k+1)..Len(q))
    BY <1>1
  <2>2. ToSet(q) = {q[i] : i \in DOMAIN q}
    BY DEF ToSet
  <2> QED
    BY <1>4, <1>5, <2>1, <2>2
<1>7. ToSet(shifted) \cap ToSet(rest) = {}
  BY <1>1, <1>4, <1>5 DEF Distinct
<1>8. Distinct(rest) /\ Sorted(rest, prio)
  <2>1. \A i \in DOMAIN rest : k + i \in DOMAIN q /\ rest[i] = q[k + i] /\ i \in Nat
    BY <1>1, <1>3
  <2>2. \A i, j \in Nat : (k + i = k + j => i = j) /\ (i < j => k + i < k + j)
    BY <1>1
  <2> QED
    BY <2>1, <2>2 DEF Distinct, Sorted
<1> QED
  BY <1>3, <1>4, <1>5, <1>6, <1>7, <1>8 DEF shifted, rest

\* cancelTask's splice takes the id out and keeps the order of the others.
LEMMA SpliceKeepsOrder ==
    ASSUME NEW q \in Seq(Task), NEW prio, NEW t \in Task, Distinct(q), Sorted(q, prio)
    PROVE  LET r == RemoveFirst(q, t)
           IN  /\ r \in Seq(Task)
               /\ ToSet(r) = ToSet(q) \ {t}
               /\ Distinct(r)
               /\ Sorted(r, prio)
               /\ \A i, j \in DOMAIN q :
                    i < j /\ q[i] # t /\ q[j] # t => Ahead(r, q[i], q[j])
<1> DEFINE r == RemoveFirst(q, t)
<1>1. Len(q) \in Nat /\ DOMAIN q = 1..Len(q) /\ \A i \in 1..Len(q) : q[i] \in Task
  OBVIOUS
<1>2. CASE ~\E i \in 1..Len(q) : q[i] = t
  BY <1>1, <1>2 DEF RemoveFirst, ToSet, Ahead
<1>3. CASE \E i \in 1..Len(q) : q[i] = t
  <2>1. PICK n \in 1..Len(q) : q[n] = t
    BY <1>3
  <2>2. SelectInSeq(q, LAMBDA v : v = t) = n
    <3>1. {i \in 1..Len(q) : q[i] = t} = {n}
      BY <1>1, <2>1 DEF Distinct
    <3>2. Min({n}) = n
      BY <1>1 DEF Min
    <3> QED
      BY <3>1, <3>2 DEF SelectInSeq
  <2>3. r = SubSeq(q, 1, n-1) \o SubSeq(q, n+1, Len(q))
    BY <1>3, <2>2 DEF RemoveFirst, RemoveAt
  <2> DEFINE Orig(i) == IF i < n THEN i ELSE i + 1
  <2>4. /\ r \in Seq(Task)
        /\ DOMAIN r = 1..(Len(q) - 1)
        /\ \A i \in 1..(Len(q) - 1) : r[i] = q[Orig(i)]
    <3> DEFINE a == SubSeq(q, 1, n-1)
               b == SubSeq(q, n+1, Len(q))
    <3>1. /\ a \in Seq(Task) /\ Len(a) = n - 1
          /\ \A i \in 1..(n-1) : a[i] = q[i]
      BY <1>1, <2>1
    <3>2. /\ b \in Seq(Task) /\ Len(b) = Len(q) - n
          /\ \A i \in 1..(Len(q) - n) : b[i] = q[n + i]
      <4>1. /\ b \in Seq(Task)
            /\ Len(b) = IF n+1 <= Len(q) THEN Len(q) - (n+1) + 1 ELSE 0
            /\ \A i \in 1..(Len(q) - (n+1) + 1) : b[i] = q[(n+1) + i - 1]
        BY <1>1, <2>1, SubSeqProperties
      <4> HIDE DEF b
      <4>2. Len(b) = Len(q) - n
        <5>1. n \in Nat /\ Len(q) \in Nat /\ n <= Len(q)
          BY <1>1, <2>1
        <5>2. Len(b) = IF n+1 <= Len(q) THEN Len(q) - (n+1) + 1 ELSE 0
          BY <4>1
        <5>3. CASE n+1 <= Len(q)
          BY <5>1, <5>2, <5>3
        <5>4. CASE n = Len(q)
          BY <5>1, <5>2, <5>4
        <5> QED
          BY <5>1, <5>3, <5>4
      <4>3. Len(q) - (n+1) + 1 = Len(q) - n /\ \A i \in Nat : (n+1) + i - 1 = n + i
        BY <1>1, <2>1
      <4>4. \A i \in 1..(Len(q) - n) : i \in Nat
        BY <1>1, <2>1
      <4> QED
        BY <4>1, <4>2, <4>3, <4>4
    <3> HIDE DEF a, b, r
    <3>3. /\ a \o b \in Seq(Task)
          /\ Len(a \o b) = Len(q) - 1
          /\ \A i \in 1..(Len(q) - 1) :
               (a \o b)[i] = IF i <= n - 1 THEN a[i] ELSE b[i - (n - 1)]
      <4>1. Len(a) + Len(b) = Len(q) - 1
        BY <1>1, <2>1, <3>1, <3>2
      <4>2. /\ a \o b \in Seq(Task)
            /\ Len(a \o b) = Len(a) + Len(b)
            /\ \A i \in 1..(Len(a) + Len(b)) :
                 (a \o b)[i] = IF i <= Len(a) THEN a[i] ELSE b[i - Len(a)]
        BY <3>1, <3>2, ConcatProperties
      <4> QED
        BY <3>1, <4>1, <4>2
    <3>4. \A i \in 1..(Len(q) - 1) : (a \o b)[i] = q[Orig(i)]
      <4> SUFFICES ASSUME NEW i \in 1..(Len(q) - 1)
                   PROVE  (a \o b)[i] = q[Orig(i)]
        OBVIOUS
      <4>1. CASE i <= n - 1
        <5>1. i \in 1..(n-1) /\ Orig(i) = i
          BY <1>1, <2>1, <4>1
        <5> QED
          BY <3>1, <3>3, <4>1, <5>1
      <4>2. CASE ~(i <= n - 1)
        <5>1. i - (n - 1) \in 1..(Len(q) - n) /\ n + (i - (n - 1)) = i + 1 /\ Orig(i) = i + 1
          BY <1>1, <2>1, <4>2
        <5>2. b[i - (n - 1)] = q[n + (i - (n - 1))]
          BY <3>2, <5>1
        <5> QED
          BY <3>3, <4>2, <5>1, <5>2
      <4> QED
        BY <4>1, <4>2
    <3>5. DOMAIN (a \o b) = 1..(Len(q) - 1)
      BY <3>3
    <3> QED
      BY <2>3, <3>3, <3>4, <3>5 DEF a, b
  <2>5. \A i \in 1..(Len(q) - 1) : Orig(i) \in 1..Len(q) /\ Orig(i) # n
    BY <1>1, <2>1
  <2>6. \A i, j \in 1..(Len(q) - 1) : (i < j => Orig(i) < Orig(j)) /\ (Orig(i) = Orig(j) => i = j)
    BY <1>1, <2>1
  <2>7. \A i \in 1..Len(q) : i # n => \E j \in 1..(Len(q) - 1) : Orig(j) = i
    <3> SUFFICES ASSUME NEW i \in 1..Len(q), i # n
                 PROVE  \E j \in 1..(Len(q) - 1) : Orig(j) = i
      OBVIOUS
    <3>1. CASE i < n
      BY <1>1, <2>1, <3>1
    <3>2. CASE i > n
      <4>1. i - 1 \in 1..(Len(q) - 1) /\ Orig(i - 1) = i
        BY <1>1, <2>1, <3>2
      <4> QED
        BY <4>1
    <3> QED
      BY <1>1, <2>1, <3>1, <3>2
  <2> HIDE DEF r, Orig
  <2>8. \A i \in 1..Len(q) : q[i] = t <=> i = n
    BY <1>1, <2>1 DEF Distinct
  <2>9. ToSet(r) = ToSet(q) \ {t}
    <3>1. \A x \in ToSet(r) : x \in ToSet(q) /\ x # t
      BY <1>1, <2>4, <2>5, <2>8 DEF ToSet
    <3>2. ASSUME NEW x \in ToSet(q), x # t
          PROVE  x \in ToSet(r)
      <4>1. PICK i \in 1..Len(q) : q[i] = x
        BY <1>1 DEF ToSet
      <4>2. PICK j \in 1..(Len(q) - 1) : Orig(j) = i
        BY <2>1, <2>7, <3>2, <4>1
      <4>3. r[j] = x /\ j \in DOMAIN r
        BY <2>4, <4>1, <4>2
      <4> QED
        BY <4>3 DEF ToSet
    <3> QED
      BY <3>1, <3>2
  <2>10. Distinct(r)
    <3> SUFFICES ASSUME NEW i \in DOMAIN r, NEW j \in DOMAIN r, r[i] = r[j]
                 PROVE  i = j
      BY DEF Distinct
    <3>1. /\ Orig(i) \in DOMAIN q /\ Orig(j) \in DOMAIN q
          /\ q[Orig(i)] = q[Orig(j)]
      BY <1>1, <2>4, <2>5
    <3>2. Orig(i) = Orig(j)
      BY <1>1, <3>1 DEF Distinct
    <3> QED
      BY <2>4, <2>6, <3>2
  <2>11. Sorted(r, prio)
    <3> SUFFICES ASSUME NEW i \in DOMAIN r, NEW j \in DOMAIN r, i < j
                 PROVE  Effective(prio[r[j]]) <= Effective(prio[r[i]])
      BY DEF Sorted
    <3>1. /\ Orig(i) \in DOMAIN q /\ Orig(j) \in DOMAIN q /\ Orig(i) < Orig(j)
          /\ r[i] = q[Orig(i)] /\ r[j] = q[Orig(j)]
      BY <1>1, <2>4, <2>5, <2>6
    <3> QED
      BY <1>1, <3>1 DEF Sorted
  <2>12. ASSUME NEW i \in DOMAIN q, NEW j \in DOMAIN q, i < j, q[i] # t, q[j] # t
         PROVE  Ahead(r, q[i], q[j])
    <3>1. i # n /\ j # n
      BY <2>1, <2>12
    <3>2. PICK k \in 1..(Len(q) - 1) : Orig(k) = i
      BY <1>1, <2>7, <3>1
    <3>3. PICK l \in 1..(Len(q) - 1) : Orig(l) = j
      BY <1>1, <2>7, <3>1
    <3>4. k < l
      <4>1. k < l \/ k = l \/ l < k
        BY <1>1
      <4>2. l < k => j < i
        BY <2>6, <3>2, <3>3
      <4> QED
        BY <1>1, <2>12, <3>2, <3>3, <4>1, <4>2
    <3> QED
      BY <2>4, <3>2, <3>3, <3>4 DEF Ahead
  <2> QED
    BY <2>4, <2>9, <2>10, <2>11, <2>12 DEF r
<1> QED
  BY <1>2, <1>3

----------------------------------------------------------------------------
(* The inductive invariant. *)

\* The fields agree.  Beyond the invariants of the runs it says that the queue
\* is sorted, which makes a shift start the highest priority, and that only a
\* running or a cancelled task has an execution, so that none restarts.
Sched(prio, st, pg, q, running, sp) ==
    /\ st \in [Task -> TaskState]
    /\ pg \in [Task -> 0..100]
    /\ q \in Seq(Task)
    /\ sp \in [Task -> 0..NumSteps]
    /\ running = {t \in Task : st[t] = "running"}
    /\ ToSet(q) = {t \in Task : st[t] = "pending"}
    /\ Distinct(q)
    /\ Sorted(q, prio)
    /\ IsFiniteSet(running)
    /\ Cardinality(running) <= MaxConcurrent
    /\ \A t \in Task : sp[t] > 0 => st[t] \in {"running", "cancelled"}

IInv ==
    /\ priority \in [Task -> 0..3]
    /\ Sched(priority, state, progress, taskQueue, runningTasks, step)

LEMMA PercentInRange == \A i \in 1..NumSteps : Percent(i) \in 0..100
<1> SUFFICES ASSUME NEW i \in 1..NumSteps
             PROVE  (i * 100) \div NumSteps \in 0..100
  BY DEF Percent
<1>1. NumSteps \in Nat /\ NumSteps > 0 /\ i \in Nat /\ i <= NumSteps
  BY NumStepsAssumption
<1> DEFINE a == i * 100
<1>2. a \in Nat /\ a <= NumSteps * 100
  BY <1>1
<1> HIDE DEF a
<1>3. a \div NumSteps \in Nat /\ NumSteps * (a \div NumSteps) <= a
  BY <1>1, <1>2
<1> DEFINE d == a \div NumSteps
<1>4. d \in Nat /\ NumSteps * d <= NumSteps * 100
  BY <1>1, <1>2, <1>3
<1> HIDE DEF d
<1>5. d <= 100
  BY <1>1, <1>4
<1> QED
  BY <1>4, <1>5 DEF a, d

\* The loop of processQueue never takes a slot that is not free.
LEMMA LoopRespectsLimit ==
    ASSUME NEW q \in Seq(Task), NEW running, IsFiniteSet(running),
           Cardinality(running) <= MaxConcurrent,
           NEW k \in 0..Len(q), LoopShifts(q, running, k)
    PROVE  LET started == ToSet(SubSeq(q, 1, k))
           IN  /\ IsFiniteSet(running \cup started)
               /\ Cardinality(running \cup started) <= MaxConcurrent
<1> DEFINE Before(j) == running \cup ToSet(SubSeq(q, 1, j))
<1>1. Len(q) \in Nat /\ k \in Nat /\ k <= Len(q) /\ DOMAIN q = 1..Len(q)
  OBVIOUS
<1>2. \A j \in 0..k : DOMAIN SubSeq(q, 1, j) = 1..j /\ \A i \in 1..j : SubSeq(q, 1, j)[i] = q[i]
  BY <1>1
<1>3. \A j \in 0..k : ToSet(SubSeq(q, 1, j)) = {q[i] : i \in 1..j}
  BY <1>2 DEF ToSet
<1>4. CASE k = 0
  <2>1. ToSet(SubSeq(q, 1, 0)) = {}
    BY <1>1, <1>3, <1>4
  <2> QED
    BY <1>4, <2>1
<1>5. CASE k # 0
  <2>1. k - 1 \in 0..(k-1) /\ k - 1 \in 0..k /\ 1..k = (1..(k-1)) \cup {k}
    BY <1>1, <1>5
  <2>2. Before(k) = Before(k-1) \cup {q[k]}
    BY <1>1, <1>3, <2>1
  <2>3. Cardinality(Before(k-1)) < MaxConcurrent
    BY <2>1 DEF LoopShifts
  <2>4. IsFiniteSet({q[i] : i \in 1..(k-1)})
    <3> DEFINE f == [i \in 1..(k-1) |-> q[i]]
    <3>1. f \in Surjection(1..(k-1), {q[i] : i \in 1..(k-1)})
      BY DEF Surjection
    <3>2. IsFiniteSet(1..(k-1))
      BY <1>1, FS_Interval
    <3> QED
      BY <3>1, <3>2, FS_Surjection
  <2>5. IsFiniteSet(Before(k-1))
    BY <1>3, <2>1, <2>4, FS_Union
  <2> HIDE DEF Before
  <2>6. IsFiniteSet(Before(k)) /\ Cardinality(Before(k)) <= Cardinality(Before(k-1)) + 1
    <3>1. Cardinality(Before(k-1)) \in Nat
      BY <2>5, FS_CardinalityType
    <3>2. /\ IsFiniteSet(Before(k-1) \cup {q[k]})
          /\ Cardinality(Before(k-1) \cup {q[k]}) =
               IF q[k] \in Before(k-1) THEN Cardinality(Before(k-1))
                                       ELSE Cardinality(Before(k-1)) + 1
      BY <2>5, FS_AddElement
    <3> QED
      BY <2>2, <3>1, <3>2
  <2>7. Cardinality(Before(k-1)) \in Nat /\ Cardinality(Before(k)) \in Nat
    BY <2>5, <2>6, FS_CardinalityType
  <2>8. Cardinality(Before(k)) <= MaxConcurrent
    BY <2>3, <2>6, <2>7, MaxConcurrentAssumption
  <2> QED
    BY <2>6, <2>8 DEF Before
<1> QED
  BY <1>4, <1>5

\* Whatever fields a caller leaves that agree, processQueue leaves them in
\* agreement: each task it starts was pending, and takes one free slot.
LEMMA ProcessQueueKeepsSched ==
    ASSUME NEW prio, NEW st, NEW pg, NEW q, NEW running, NEW sp,
           Sched(prio, st, pg, q, running, sp),
           ProcessQueue(st, pg, q, running, sp)
    PROVE  Sched(prio, state', progress', taskQueue', runningTasks', step')
<1>1. PICK k \in 0..Len(q) :
        /\ LoopShifts(q, running, k)
        /\ taskQueue' = SubSeq(q, k+1, Len(q))
        /\ runningTasks' = running \cup ToSet(SubSeq(q, 1, k))
        /\ state' = [t \in Task |-> IF t \in ToSet(SubSeq(q, 1, k)) THEN "running" ELSE st[t]]
        /\ \E leaked \in Throwing(ToSet(SubSeq(q, 1, k))) :
             /\ step' = [t \in Task |-> IF t \in ToSet(SubSeq(q, 1, k)) \ leaked
                                        THEN 1 ELSE sp[t]]
             /\ progress' = [t \in Task |-> IF t \in ToSet(SubSeq(q, 1, k)) \ leaked
                                            THEN Percent(1) ELSE pg[t]]
  BY DEF ProcessQueue
<1> DEFINE started == ToSet(SubSeq(q, 1, k))
           rest == SubSeq(q, k+1, Len(q))
<1>s. q \in Seq(Task) /\ Distinct(q) /\ Sorted(q, prio)
  BY DEF Sched
<1>2. /\ rest \in Seq(Task)
      /\ ToSet(q) = started \cup ToSet(rest)
      /\ started \cap ToSet(rest) = {}
      /\ Distinct(rest)
      /\ Sorted(rest, prio)
  BY <1>s, ShiftSplitsQueue
<1>3. IsFiniteSet(running \cup started) /\ Cardinality(running \cup started) <= MaxConcurrent
  BY <1>1, LoopRespectsLimit DEF Sched
<1>4. PICK leaked \in Throwing(started) :
        /\ step' = [t \in Task |-> IF t \in started \ leaked THEN 1 ELSE sp[t]]
        /\ progress' = [t \in Task |-> IF t \in started \ leaked THEN Percent(1) ELSE pg[t]]
  BY <1>1
<1>5. /\ taskQueue' = rest
      /\ runningTasks' = running \cup started
      /\ state' = [t \in Task |-> IF t \in started THEN "running" ELSE st[t]]
  BY <1>1
<1> HIDE DEF started, rest
<1>6. /\ st \in [Task -> TaskState]
      /\ pg \in [Task -> 0..100]
      /\ sp \in [Task -> 0..NumSteps]
      /\ running = {t \in Task : st[t] = "running"}
      /\ ToSet(q) = {t \in Task : st[t] = "pending"}
      /\ \A t \in Task : sp[t] > 0 => st[t] \in {"running", "cancelled"}
  BY DEF Sched
<1>7. state' \in [Task -> TaskState]
  BY <1>5, <1>6 DEF TaskState
<1>8. progress' \in [Task -> 0..100]
  BY <1>4, <1>6, PercentInRange, NumStepsAssumption
<1>9. step' \in [Task -> 0..NumSteps]
  BY <1>4, <1>6, NumStepsAssumption
<1>10. runningTasks' = {t \in Task : state'[t] = "running"}
  BY <1>2, <1>5, <1>6
<1>11. ToSet(taskQueue') = {t \in Task : state'[t] = "pending"}
  BY <1>2, <1>5, <1>6
<1>12. \A t \in Task : step'[t] > 0 => state'[t] \in {"running", "cancelled"}
  BY <1>4, <1>5, <1>6
<1> QED
  BY <1>2, <1>3, <1>5, <1>7, <1>8, <1>9, <1>10, <1>11, <1>12 DEF Sched

LEMMA NotifyThenProcessQueueKeepsSched ==
    ASSUME NEW prio, NEW st, NEW pg, NEW q, NEW running, NEW sp,
           Sched(prio, st, pg, q, running, sp),
           NotifyThenProcessQueue(st, pg, q, running, sp)
    PROVE  Sched(prio, state', progress', taskQueue', runningTasks', step')
BY ProcessQueueKeepsSched DEF NotifyThenProcessQueue, Assign

\* The fields submitTask, cancelTask and the end of an execution hand to
\* processQueue agree.
LEMMA SubmitKeepsSched ==
    ASSUME IInv, NEW t \in Task, NEW p \in 0..3, state[t] = "none"
    PROVE  LET prio == [priority EXCEPT ![t] = p]
           IN  Sched(prio, [state EXCEPT ![t] = "pending"], progress,
                     SortQueue(Append(taskQueue, t), prio), runningTasks, step)
<1> DEFINE prio == [priority EXCEPT ![t] = p]
           q == Append(taskQueue, t)
           s == SortQueue(q, prio)
<1>1. prio \in [Task -> 0..3]
  BY DEF IInv
<1>2. taskQueue \in Seq(Task) /\ Distinct(taskQueue) /\ t \notin ToSet(taskQueue)
  BY DEF IInv, Sched
<1>3. /\ q \in Seq(Task)
      /\ Len(taskQueue) \in Nat
      /\ DOMAIN taskQueue = 1..Len(taskQueue)
      /\ DOMAIN q = 1..(Len(taskQueue) + 1)
      /\ \A i \in 1..Len(taskQueue) : q[i] = taskQueue[i]
      /\ q[Len(taskQueue) + 1] = t
  BY <1>2
<1> HIDE DEF q
<1>4. 1..(Len(taskQueue) + 1) = (1..Len(taskQueue)) \cup {Len(taskQueue) + 1}
  BY <1>3
<1>5. ToSet(q) = ToSet(taskQueue) \cup {t}
  BY <1>3, <1>4 DEF ToSet
<1>6. Distinct(q)
  BY <1>2, <1>3, <1>4 DEF Distinct, ToSet
<1> HIDE DEF prio
<1>7. s \in Seq(Task) /\ ToSet(s) = ToSet(q) /\ Distinct(s) /\ Sorted(s, prio)
  BY <1>1, <1>3, <1>6, SortQueueSorts
<1> HIDE DEF s
<1>8. /\ state \in [Task -> TaskState]
      /\ progress \in [Task -> 0..100]
      /\ step \in [Task -> 0..NumSteps]
      /\ runningTasks = {u \in Task : state[u] = "running"}
      /\ ToSet(taskQueue) = {u \in Task : state[u] = "pending"}
      /\ IsFiniteSet(runningTasks)
      /\ Cardinality(runningTasks) <= MaxConcurrent
      /\ \A u \in Task : step[u] > 0 => state[u] \in {"running", "cancelled"}
  BY DEF IInv, Sched
<1> DEFINE st == [state EXCEPT ![t] = "pending"]
<1>9. /\ st \in [Task -> TaskState]
      /\ runningTasks = {u \in Task : st[u] = "running"}
      /\ ToSet(s) = {u \in Task : st[u] = "pending"}
      /\ \A u \in Task : step[u] > 0 => st[u] \in {"running", "cancelled"}
  BY <1>5, <1>7, <1>8 DEF TaskState
<1> QED
  BY <1>7, <1>8, <1>9 DEF Sched, prio, q, s

LEMMA CancelKeepsSched ==
    ASSUME IInv, NEW t \in Task, Cancellable(t)
    PROVE  Sched(priority, [state EXCEPT ![t] = "cancelled"], progress,
                 QueueWithout(t), SlotsWithout(t), step)
<1> DEFINE st == [state EXCEPT ![t] = "cancelled"]
           q == RemoveFirst(taskQueue, t)
           running == runningTasks \ {t}
<1>1. /\ state \in [Task -> TaskState]
      /\ taskQueue \in Seq(Task)
      /\ runningTasks = {u \in Task : state[u] = "running"}
      /\ ToSet(taskQueue) = {u \in Task : state[u] = "pending"}
      /\ Distinct(taskQueue) /\ Sorted(taskQueue, priority)
      /\ IsFiniteSet(runningTasks)
      /\ Cardinality(runningTasks) <= MaxConcurrent
      /\ \A u \in Task : step[u] > 0 => state[u] \in {"running", "cancelled"}
  BY DEF IInv, Sched
<1>2. /\ q \in Seq(Task)
      /\ ToSet(q) = ToSet(taskQueue) \ {t}
      /\ Distinct(q) /\ Sorted(q, priority)
  BY <1>1, SpliceKeepsOrder
<1> HIDE DEF q
<1>3. IsFiniteSet(running) /\ Cardinality(running) <= MaxConcurrent
  <2>1. /\ IsFiniteSet(running) /\ Cardinality(running) <= Cardinality(runningTasks)
        /\ Cardinality(running) \in Nat /\ Cardinality(runningTasks) \in Nat
    BY <1>1, FS_Subset, FS_CardinalityType
  <2> QED
    BY <1>1, <2>1, MaxConcurrentAssumption
<1>4. /\ st \in [Task -> TaskState]
      /\ running = {u \in Task : st[u] = "running"}
      /\ ToSet(q) = {u \in Task : st[u] = "pending"}
      /\ \A u \in Task : step[u] > 0 => st[u] \in {"running", "cancelled"}
  BY <1>1, <1>2 DEF TaskState, Terminal
<1>5. progress \in [Task -> 0..100] /\ step \in [Task -> 0..NumSteps]
  BY DEF IInv, Sched
<1> QED
  BY <1>2, <1>3, <1>4, <1>5 DEF Sched, q, QueueWithout, SlotsWithout

LEMMA EndKeepsSched ==
    ASSUME IInv, NEW t \in Task, step[t] > 0,
           NEW end \in {"completed", "failed"}, NEW pg \in [Task -> 0..100]
    PROVE  Sched(priority, [state EXCEPT ![t] = end], pg,
                 taskQueue, SlotsWithout(t), [step EXCEPT ![t] = 0])
<1> DEFINE st == [state EXCEPT ![t] = end]
           sp == [step EXCEPT ![t] = 0]
           running == runningTasks \ {t}
<1>1. /\ state \in [Task -> TaskState]
      /\ step \in [Task -> 0..NumSteps]
      /\ taskQueue \in Seq(Task)
      /\ runningTasks = {u \in Task : state[u] = "running"}
      /\ ToSet(taskQueue) = {u \in Task : state[u] = "pending"}
      /\ Distinct(taskQueue) /\ Sorted(taskQueue, priority)
      /\ IsFiniteSet(runningTasks)
      /\ Cardinality(runningTasks) <= MaxConcurrent
      /\ \A u \in Task : step[u] > 0 => state[u] \in {"running", "cancelled"}
  BY DEF IInv, Sched
<1>2. IsFiniteSet(running) /\ Cardinality(running) <= MaxConcurrent
  <2>1. /\ IsFiniteSet(running) /\ Cardinality(running) <= Cardinality(runningTasks)
        /\ Cardinality(running) \in Nat /\ Cardinality(runningTasks) \in Nat
    BY <1>1, FS_Subset, FS_CardinalityType
  <2> QED
    BY <1>1, <2>1, MaxConcurrentAssumption
<1>3. /\ st \in [Task -> TaskState]
      /\ running = {u \in Task : st[u] = "running"}
      /\ ToSet(taskQueue) = {u \in Task : st[u] = "pending"}
  BY <1>1 DEF TaskState, Terminal
<1>4. sp \in [Task -> 0..NumSteps]
  BY <1>1, NumStepsAssumption
<1>5. \A u \in Task : sp[u] > 0 => st[u] \in {"running", "cancelled"}
  BY <1>1
<1> QED
  BY <1>1, <1>2, <1>3, <1>4, <1>5 DEF Sched, SlotsWithout

LEMMA InitEstablishesIInv == Init => IInv
<1> SUFFICES ASSUME Init PROVE IInv
  OBVIOUS
<1>1. priority \in [Task -> 0..3]
  BY DEF Init
<1>2. /\ state \in [Task -> TaskState]
      /\ progress \in [Task -> 0..100]
      /\ step \in [Task -> 0..NumSteps]
      /\ \A t \in Task : step[t] > 0 => state[t] \in {"running", "cancelled"}
  BY NumStepsAssumption DEF Init, TaskState
<1>3. /\ taskQueue \in Seq(Task) /\ DOMAIN taskQueue = {} /\ ToSet(taskQueue) = {}
      /\ Distinct(taskQueue) /\ Sorted(taskQueue, priority)
  BY DEF Init, ToSet, Distinct, Sorted
<1>4. IsFiniteSet(runningTasks) /\ Cardinality(runningTasks) <= MaxConcurrent
  BY FS_EmptySet, MaxConcurrentAssumption DEF Init
<1>5. /\ runningTasks = {t \in Task : state[t] = "running"}
      /\ ToSet(taskQueue) = {t \in Task : state[t] = "pending"}
  BY <1>3 DEF Init
<1> QED
  BY <1>1, <1>2, <1>3, <1>4, <1>5 DEF IInv, Sched

LEMMA NextKeepsIInv == IInv /\ [Next]_vars => IInv'
<1> SUFFICES ASSUME IInv, [Next]_vars
             PROVE  IInv'
  OBVIOUS
<1>1. ASSUME NEW t \in Task, NEW p \in Priorities, SubmitTask(t, p)
      PROVE  IInv'
  <2>1. p \in 0..3
    BY PrioritiesAssumption
  <2>2. priority' = [priority EXCEPT ![t] = p] /\ priority' \in [Task -> 0..3]
    BY <1>1, <2>1 DEF SubmitTask, IInv
  <2>3. Sched(priority', [state EXCEPT ![t] = "pending"], progress,
              SortQueue(Append(taskQueue, t), priority'), runningTasks, step)
    BY <1>1, <2>1, <2>2, SubmitKeepsSched DEF SubmitTask
  <2>4. ProcessQueue([state EXCEPT ![t] = "pending"], progress,
              SortQueue(Append(taskQueue, t), priority'), runningTasks, step)
    BY <1>1, <2>2 DEF SubmitTask
  <2>5. Sched(priority', state', progress', taskQueue', runningTasks', step')
    BY <2>3, <2>4, ProcessQueueKeepsSched
  <2> QED
    BY <2>2, <2>5 DEF IInv
<1>2. ASSUME NEW t \in Task, CancelTask(t)
      PROVE  IInv'
  <2>1. Sched(priority, state', progress', taskQueue', runningTasks', step')
    BY <1>2, CancelKeepsSched, NotifyThenProcessQueueKeepsSched DEF CancelTask
  <2> QED
    BY <1>2, <2>1 DEF IInv, CancelTask
<1>3. ASSUME NEW t \in Task, NextStep(t)
      PROVE  IInv'
  <2>1. step[t] + 1 \in 1..NumSteps /\ step[t] > 0
    BY <1>3, NumStepsAssumption DEF NextStep, MoreSteps
  <2>2. step' \in [Task -> 0..NumSteps] /\ progress' \in [Task -> 0..100]
    BY <1>3, <2>1, PercentInRange DEF NextStep, IInv, Sched
  <2>3. \A u \in Task : step'[u] > 0 => state[u] \in {"running", "cancelled"}
    BY <1>3, <2>1 DEF NextStep, IInv, Sched
  <2> QED
    BY <1>3, <2>2, <2>3 DEF NextStep, IInv, Sched
<1>4. ASSUME NEW t \in Task, CompleteTask(t)
      PROVE  IInv'
  <2>1. step[t] > 0 /\ [progress EXCEPT ![t] = 100] \in [Task -> 0..100]
    BY <1>4, NumStepsAssumption DEF CompleteTask, IInv, Sched
  <2>2. Sched(priority, state', progress', taskQueue', runningTasks', step')
    BY <1>4, <2>1, EndKeepsSched, NotifyThenProcessQueueKeepsSched DEF CompleteTask
  <2> QED
    BY <1>4, <2>2 DEF IInv, CompleteTask
<1>5. ASSUME NEW t \in Task, FailTask(t)
      PROVE  IInv'
  <2>1. step[t] > 0 /\ progress \in [Task -> 0..100]
    BY <1>5 DEF FailTask, IInv, Sched
  <2>2. Sched(priority, state', progress', taskQueue', runningTasks', step')
    BY <1>5, <2>1, EndKeepsSched, NotifyThenProcessQueueKeepsSched DEF FailTask
  <2> QED
    BY <1>5, <2>2 DEF IInv, FailTask
<1>6. CASE UNCHANGED vars
  BY <1>6 DEF vars, IInv, Sched
<1> QED
  BY <1>1, <1>2, <1>3, <1>4, <1>5, <1>6 DEF Next

LEMMA Invariance == Spec => []IInv
<1>1. Init => IInv
  BY InitEstablishesIInv
<1>2. IInv /\ [Next]_vars => IInv'
  BY NextKeepsIInv
<1> QED
  BY <1>1, <1>2, PTL DEF Spec

----------------------------------------------------------------------------
(* The invariants of the runs. *)

\* Every field keeps its type.
THEOREM TypeCorrect == Spec => []TypeOK
<1>1. IInv => TypeOK
  BY DEF IInv, Sched, TypeOK
<1> QED
  BY <1>1, Invariance, PTL

\* runningTasks and the RUNNING states never disagree, whatever is cancelled,
\* resumed by a timer or thrown.
THEOREM SlotsAgree == Spec => []SlotsAreRunningTasks
<1>1. IInv => SlotsAreRunningTasks
  BY DEF IInv, Sched, SlotsAreRunningTasks
<1> QED
  BY <1>1, Invariance, PTL

\* processQueue never gives out more slots than maxConcurrentTasks.
THEOREM SlotsAreLimited == Spec => []SlotLimit
<1>1. IInv => SlotLimit
  BY DEF IInv, Sched, SlotLimit
<1> QED
  BY <1>1, Invariance, PTL

\* A pending task is in the queue once; no other task is in it.
THEOREM QueueAgrees == Spec => []QueueIsPendingTasks
<1>1. IInv => QueueIsPendingTasks
  BY DEF IInv, Sched, QueueIsPendingTasks, Distinct
<1> QED
  BY <1>1, Invariance, PTL

\* Cancelled executions aside, the executions in flight fit the slots.
THEOREM ExecutionsAreLimited == Spec => []ExecutionLimit
<1>1. ASSUME IInv PROVE ExecutionLimit
  <2> DEFINE live == {t \in Task : step[t] > 0 /\ state[t] # "cancelled"}
  <2>1. live \in SUBSET runningTasks /\ IsFiniteSet(runningTasks)
    BY <1>1 DEF IInv, Sched
  <2>2. Cardinality(live) <= Cardinality(runningTasks)
    BY <2>1, FS_Subset
  <2>3. Cardinality(live) \in Nat /\ Cardinality(runningTasks) \in Nat
    BY <2>1, FS_Subset, FS_CardinalityType
  <2>4. Cardinality(runningTasks) <= MaxConcurrent
    BY <1>1 DEF IInv, Sched
  <2> HIDE DEF live
  <2>5. Cardinality(live) <= MaxConcurrent
    BY <2>2, <2>3, <2>4, MaxConcurrentAssumption
  <2> QED
    BY <2>5 DEF live, ExecutionLimit
<1> QED
  BY <1>1, Invariance, PTL

----------------------------------------------------------------------------
(* The orchestrator implements the abstract scheduler. *)

Phases(st) == [t \in Task |-> PhaseOf(st[t])]
WeightsOf(prio) == [t \in Task |-> Effective(prio[t])]

\* The abstract module counts as this one does.
LEMMA SameCardinality == \A S : Abstract!Cardinality(S) = Cardinality(S)
BY Zenon DEF Cardinality, Abstract!Cardinality

\* One run of processQueue is one dispatch of the abstract scheduler: it starts
\* a highest-priority part of the queue and leaves no slot free while a task waits.
LEMMA ProcessQueueDispatches ==
    ASSUME NEW prio \in [Task -> 0..3],
           NEW st, NEW pg, NEW q, NEW running, NEW sp,
           Sched(prio, st, pg, q, running, sp),
           ProcessQueue(st, pg, q, running, sp)
    PROVE  Abstract!Dispatch(Phases(st), WeightsOf(prio))
<1>1. PICK k \in 0..Len(q) :
        /\ LoopShifts(q, running, k)
        /\ state' = [t \in Task |-> IF t \in ToSet(SubSeq(q, 1, k)) THEN "running" ELSE st[t]]
  BY DEF ProcessQueue
<1> DEFINE started == ToSet(SubSeq(q, 1, k))
           rest == ToSet(SubSeq(q, k+1, Len(q)))
<1>s. q \in Seq(Task) /\ Distinct(q) /\ Sorted(q, prio)
  BY DEF Sched
<1>2. /\ started = {q[i] : i \in 1..k}
      /\ rest = {q[i] : i \in (k+1)..Len(q)}
      /\ ToSet(q) = started \cup rest
      /\ started \cap rest = {}
  BY <1>s, ShiftSplitsQueue
<1>3. IsFiniteSet(running \cup started) /\ Cardinality(running \cup started) <= MaxConcurrent
  BY <1>1, LoopRespectsLimit DEF Sched
<1>4. k = Len(q) \/ Cardinality(running \cup started) >= MaxConcurrent
  BY <1>1 DEF LoopShifts
<1>5. state' = [t \in Task |-> IF t \in started THEN "running" ELSE st[t]]
  BY <1>1
<1> HIDE DEF started, rest
<1>6. /\ st \in [Task -> TaskState]
      /\ q \in Seq(Task)
      /\ running = {t \in Task : st[t] = "running"}
      /\ ToSet(q) = {t \in Task : st[t] = "pending"}
      /\ Sorted(q, prio)
  BY DEF Sched
<1>7. \A t \in Task : /\ Phases(st)[t] = "waiting" <=> st[t] = "pending"
                      /\ Phases(st)[t] = "active" <=> st[t] = "running"
  BY <1>6 DEF Phases, PhaseOf, TaskState, Terminal
<1>8. /\ Abstract!InPhase(Phases(st), "waiting") = ToSet(q)
      /\ Abstract!InPhase(Phases(st), "active") = running
  BY <1>6, <1>7 DEF Abstract!InPhase
<1>9. started \in SUBSET ToSet(q) /\ ToSet(q) \ started = rest
  BY <1>2
<1>10. Phases(state') = [t \in Task |-> IF t \in started THEN "active" ELSE Phases(st)[t]]
  BY <1>5 DEF Phases, PhaseOf
<1>11. \A t \in started, u \in rest : WeightsOf(prio)[u] <= WeightsOf(prio)[t]
  <2> SUFFICES ASSUME NEW t \in started, NEW u \in rest
               PROVE  WeightsOf(prio)[u] <= WeightsOf(prio)[t]
    OBVIOUS
  <2>1. PICK i \in 1..k : t = q[i]
    BY <1>2
  <2>2. PICK j \in (k+1)..Len(q) : u = q[j]
    BY <1>2
  <2>3. i \in DOMAIN q /\ j \in DOMAIN q /\ i < j
    BY <1>6, <2>1, <2>2
  <2>4. t \in Task /\ u \in Task
    BY <1>2, <1>6
  <2> QED
    BY <1>6, <2>1, <2>2, <2>3, <2>4 DEF Sorted, WeightsOf
<1>12. rest = {} \/ Cardinality(running \cup started) = MaxConcurrent
  <2>1. CASE k = Len(q)
    BY <1>2, <1>6, <2>1
  <2>2. CASE k # Len(q)
    BY <1>3, <1>4, <2>2, FS_CardinalityType, MaxConcurrentAssumption
  <2> QED
    BY <2>1, <2>2
<1>13. /\ Phases(state') = [t \in Task |-> IF t \in started THEN "active" ELSE Phases(st)[t]]
       /\ started # {} => Cardinality(running \cup started) <= MaxConcurrent
       /\ \A t \in started, u \in ToSet(q) \ started : WeightsOf(prio)[u] <= WeightsOf(prio)[t]
       /\ CallbackMayThrow \/ ToSet(q) \ started = {} \/ Cardinality(running \cup started) = MaxConcurrent
  BY <1>3, <1>9, <1>10, <1>11, <1>12
<1>14. Phases(state') = [t \in Task |-> PhaseOf(state'[t])]
  BY DEF Phases
<1> HIDE DEF Phases, WeightsOf
<1> SUFFICES \E S \in SUBSET Abstract!InPhase(Phases(st), "waiting") :
       LET left == Abstract!InPhase(Phases(st), "waiting") \ S
           busy == Abstract!InPhase(Phases(st), "active") \cup S
       IN  /\ Phases(state') = [t \in Task |-> IF t \in S THEN "active" ELSE Phases(st)[t]]
           /\ S # {} => Cardinality(busy) <= MaxConcurrent
           /\ \A t \in S, u \in left : WeightsOf(prio)[u] <= WeightsOf(prio)[t]
           /\ CallbackMayThrow \/ left = {} \/ Cardinality(busy) = MaxConcurrent
  BY <1>14, SameCardinality DEF Abstract!Dispatch
<1> QED
  BY <1>8, <1>9, <1>13

\* A lost dispatch, when a callback throws, is an abstract dispatch of nothing.
LEMMA NotifyDispatches ==
    ASSUME NEW prio \in [Task -> 0..3],
           NEW st, NEW pg, NEW q, NEW running, NEW sp,
           Sched(prio, st, pg, q, running, sp),
           NotifyThenProcessQueue(st, pg, q, running, sp)
    PROVE  Abstract!Dispatch(Phases(st), WeightsOf(prio))
<1>1. CASE ProcessQueue(st, pg, q, running, sp)
  BY <1>1, ProcessQueueDispatches
<1>2. CASE CallbackMayThrow /\ Assign(st, pg, q, running, sp)
  <2>1. state' = st
    BY <1>2 DEF Assign
  <2>2. [t \in Task |-> PhaseOf(state'[t])] =
          [t \in Task |-> IF t \in {} THEN "active" ELSE Phases(st)[t]]
    BY <2>1 DEF Phases
  <2>3. {} \in SUBSET Abstract!InPhase(Phases(st), "waiting")
    OBVIOUS
  <2> QED
    BY <1>2, <2>2, <2>3 DEF Abstract!Dispatch
<1> QED
  BY <1>1, <1>2 DEF NotifyThenProcessQueue

\* The end of a task is the abstract end, or nothing if it had ended before.
LEMMA EndRefines ==
    ASSUME IInv, NEW t \in Task, NEW end \in Terminal,
           state[t] \in {"pending", "running", "cancelled"},
           UNCHANGED priority,
           Abstract!Dispatch(Phases([state EXCEPT ![t] = end]), WeightsOf(priority))
    PROVE  Abstract!Next
<1> DEFINE ended == Phases([state EXCEPT ![t] = end])
<1>1. state \in [Task -> TaskState]
  BY DEF IInv, Sched
<1>2. PhaseOf(end) = "ended" /\ PhaseOf("cancelled") = "ended"
  BY DEF PhaseOf, Terminal
<1>3. UNCHANGED WeightsOf(priority)
  BY DEF WeightsOf
<1>4. CASE state[t] = "cancelled"
  <2>1. ended = Phases(state)
    BY <1>1, <1>2, <1>4 DEF Phases
  <2>2. Abstract!Poke
    BY <1>3, <2>1 DEF Abstract!Poke, Phases, WeightsOf
  <2> QED
    BY <2>2 DEF Abstract!Next
<1>5. CASE state[t] \in {"pending", "running"}
  <2>1. ended = [Phases(state) EXCEPT ![t] = "ended"]
    BY <1>1, <1>2 DEF Phases
  <2>2. Phases(state)[t] \in {"waiting", "active"}
    BY <1>5 DEF Phases, PhaseOf
  <2>3. Abstract!End(t)
    BY <1>3, <2>1, <2>2 DEF Abstract!End, Phases, WeightsOf
  <2> QED
    BY <2>3 DEF Abstract!Next
<1> QED
  BY <1>4, <1>5

\* Every step of the orchestrator is a step of the abstract scheduler or none.
LEMMA StepRefines == IInv /\ [Next]_vars => [Abstract!Next]_(Abstract!vars)
<1> SUFFICES ASSUME IInv, [Next]_vars
             PROVE  Abstract!Next \/ UNCHANGED <<Phases(state), WeightsOf(priority)>>
  BY DEF Abstract!vars, Phases, WeightsOf
<1>0. priority \in [Task -> 0..3] /\ state \in [Task -> TaskState]
  BY DEF IInv, Sched
<1>1. ASSUME NEW t \in Task, NEW p \in Priorities, SubmitTask(t, p)
      PROVE  Abstract!Next
  <2> DEFINE prio == [priority EXCEPT ![t] = p]
  <2>1. p \in 0..3 /\ state[t] = "none"
    BY <1>1, PrioritiesAssumption DEF SubmitTask
  <2>2. prio \in [Task -> 0..3]
    BY <1>0, <2>1
  <2>3. Sched(prio, [state EXCEPT ![t] = "pending"], progress,
              SortQueue(Append(taskQueue, t), prio), runningTasks, step)
    BY <2>1, SubmitKeepsSched
  <2>4. ProcessQueue([state EXCEPT ![t] = "pending"], progress,
              SortQueue(Append(taskQueue, t), prio), runningTasks, step)
    BY <1>1 DEF SubmitTask
  <2> HIDE DEF prio
  <2>5. Abstract!Dispatch(Phases([state EXCEPT ![t] = "pending"]), WeightsOf(prio))
    BY <2>2, <2>3, <2>4, ProcessQueueDispatches
  <2>6. Phases([state EXCEPT ![t] = "pending"]) = [Phases(state) EXCEPT ![t] = "waiting"]
    BY <1>0 DEF Phases, PhaseOf
  <2>7. WeightsOf(prio) = [WeightsOf(priority) EXCEPT ![t] = Effective(p)]
    BY <1>0 DEF WeightsOf, prio
  <2>8. WeightsOf(priority') = WeightsOf(prio)
    BY <1>1 DEF SubmitTask, prio
  <2>9. Phases(state)[t] = "new"
    BY <2>1 DEF Phases, PhaseOf
  <2>10. Abstract!Arrive(t, Effective(p))
    BY <2>5, <2>6, <2>7, <2>8, <2>9 DEF Abstract!Arrive, Phases, WeightsOf
  <2> QED
    BY <2>10 DEF Abstract!Next
<1>2. ASSUME NEW t \in Task, CancelTask(t)
      PROVE  Abstract!Next
  <2>1. Abstract!Dispatch(Phases([state EXCEPT ![t] = "cancelled"]), WeightsOf(priority))
    BY <1>0, <1>2, CancelKeepsSched, NotifyDispatches DEF CancelTask
  <2>2. state[t] \in {"pending", "running", "cancelled"}
    BY <1>0, <1>2 DEF CancelTask, Cancellable, TaskState, Terminal
  <2> QED
    BY <1>2, <2>1, <2>2, EndRefines DEF CancelTask, Terminal
<1>3. ASSUME NEW t \in Task, NextStep(t)
      PROVE  UNCHANGED <<Phases(state), WeightsOf(priority)>>
  BY <1>3 DEF NextStep, Phases, WeightsOf
<1>4. ASSUME NEW t \in Task, CompleteTask(t)
      PROVE  Abstract!Next
  <2>1. step[t] > 0 /\ [progress EXCEPT ![t] = 100] \in [Task -> 0..100]
    BY <1>4, NumStepsAssumption DEF CompleteTask, IInv, Sched
  <2>2. Abstract!Dispatch(Phases([state EXCEPT ![t] = "completed"]), WeightsOf(priority))
    BY <1>0, <1>4, <2>1, EndKeepsSched, NotifyDispatches DEF CompleteTask
  <2>3. state[t] \in {"pending", "running", "cancelled"}
    BY <2>1 DEF IInv, Sched
  <2> QED
    BY <1>4, <2>2, <2>3, EndRefines DEF CompleteTask, Terminal
<1>5. ASSUME NEW t \in Task, FailTask(t)
      PROVE  Abstract!Next
  <2>1. step[t] > 0 /\ progress \in [Task -> 0..100]
    BY <1>5 DEF FailTask, IInv, Sched
  <2>2. Abstract!Dispatch(Phases([state EXCEPT ![t] = "failed"]), WeightsOf(priority))
    BY <1>0, <1>5, <2>1, EndKeepsSched, NotifyDispatches DEF FailTask
  <2>3. state[t] \in {"pending", "running", "cancelled"}
    BY <2>1 DEF IInv, Sched
  <2> QED
    BY <1>5, <2>2, <2>3, EndRefines DEF FailTask, Terminal
<1>6. CASE UNCHANGED vars
  BY <1>6 DEF vars, Phases, WeightsOf
<1> QED
  BY <1>1, <1>2, <1>3, <1>4, <1>5, <1>6 DEF Next

\* The orchestrator, whatever is cancelled and whatever throws, is a bounded
\* priority scheduler, and a work-conserving one if no callback throws.
THEOREM Refinement == Spec => ImplementsScheduler
<1>1. Init => Abstract!Init
  BY DEF Init, Abstract!Init, PhaseOf, Effective
<1>2. IInv /\ [Next]_vars => [Abstract!Next]_(Abstract!vars)
  BY StepRefines
<1> QED
  BY <1>1, <1>2, Invariance, PTL DEF Spec, Abstract!Spec, ImplementsScheduler

----------------------------------------------------------------------------
(* What a step may never do. *)

\* From states st the step starts pending tasks only, the highest first.
StartsHighest(st, prio) ==
    /\ \A t \in Task : state'[t] = st[t] \/ (st[t] = "pending" /\ state'[t] = "running")
    /\ \A t, u \in Task :
         st[t] # "running" /\ state'[t] = "running" /\ state'[u] = "pending"
         => Effective(prio[u]) <= Effective(prio[t])

\* processQueue starts pending tasks only, and a start leaves none of a higher
\* priority behind.
LEMMA ProcessQueueStartsHighest ==
    ASSUME NEW prio, NEW st, NEW pg, NEW q, NEW running, NEW sp,
           Sched(prio, st, pg, q, running, sp),
           NotifyThenProcessQueue(st, pg, q, running, sp)
    PROVE  StartsHighest(st, prio)
<1>1. CASE Assign(st, pg, q, running, sp)
  BY <1>1 DEF Assign, StartsHighest
<1>2. CASE ProcessQueue(st, pg, q, running, sp)
  <2>1. PICK k \in 0..Len(q) :
          state' = [t \in Task |-> IF t \in ToSet(SubSeq(q, 1, k)) THEN "running" ELSE st[t]]
    BY <1>2 DEF ProcessQueue
  <2> DEFINE started == ToSet(SubSeq(q, 1, k))
             rest == ToSet(SubSeq(q, k+1, Len(q)))
  <2>s. q \in Seq(Task) /\ Distinct(q) /\ Sorted(q, prio)
    BY DEF Sched
  <2>2. /\ started = {q[i] : i \in 1..k}
        /\ rest = {q[i] : i \in (k+1)..Len(q)}
        /\ ToSet(q) = started \cup rest
    BY <2>s, ShiftSplitsQueue
  <2>3. state' = [t \in Task |-> IF t \in started THEN "running" ELSE st[t]]
    BY <2>1
  <2> HIDE DEF started, rest
  <2>4. /\ q \in Seq(Task)
        /\ ToSet(q) = {t \in Task : st[t] = "pending"}
        /\ Sorted(q, prio)
    BY DEF Sched
  <2>5. ASSUME NEW t \in Task, NEW u \in Task,
               st[t] # "running", state'[t] = "running", state'[u] = "pending"
        PROVE  Effective(prio[u]) <= Effective(prio[t])
    <3>1. t \in started /\ u \in rest
      BY <2>2, <2>3, <2>4, <2>5
    <3>2. PICK i \in 1..k : t = q[i]
      BY <2>2, <3>1
    <3>3. PICK j \in (k+1)..Len(q) : u = q[j]
      BY <2>2, <3>1
    <3>4. i \in DOMAIN q /\ j \in DOMAIN q /\ i < j
      BY <2>4, <3>2, <3>3
    <3> QED
      BY <2>4, <3>2, <3>3, <3>4 DEF Sorted
  <2>6. \A t \in Task : state'[t] = st[t] \/ (st[t] = "pending" /\ state'[t] = "running")
    BY <2>2, <2>3, <2>4
  <2> QED
    BY <2>5, <2>6 DEF StartsHighest
<1> QED
  BY <1>1, <1>2 DEF NotifyThenProcessQueue

\* The change an action makes before processQueue runs: a submission, a cancel,
\* or the end of an execution.
Moves(t, s) ==
    \/ s = "pending" /\ state[t] = "none"
    \/ s = "cancelled" /\ state[t] \notin {"none", "completed", "failed"}
    \/ s \in {"completed", "failed"} /\ state[t] \in {"running", "cancelled"} /\ step[t] # 0

\* Every action makes one such change, then starts the highest priorities.
LEMMA SubmitStartsHighest ==
    ASSUME IInv, NEW t \in Task, NEW p \in Priorities, SubmitTask(t, p)
    PROVE  Moves(t, "pending") /\ StartsHighest([state EXCEPT ![t] = "pending"], priority')
<1>1. p \in 0..3 /\ state[t] = "none" /\ priority' = [priority EXCEPT ![t] = p]
  BY PrioritiesAssumption DEF SubmitTask
<1>2. Sched(priority', [state EXCEPT ![t] = "pending"], progress,
            SortQueue(Append(taskQueue, t), priority'), runningTasks, step)
  BY <1>1, SubmitKeepsSched
<1>3. NotifyThenProcessQueue([state EXCEPT ![t] = "pending"], progress,
            SortQueue(Append(taskQueue, t), priority'), runningTasks, step)
  BY <1>1 DEF SubmitTask, NotifyThenProcessQueue
<1> QED
  BY <1>1, <1>2, <1>3, ProcessQueueStartsHighest DEF Moves

LEMMA OthersStartHighest ==
    ASSUME IInv, NEW t \in Task,
           CancelTask(t) \/ NextStep(t) \/ CompleteTask(t) \/ FailTask(t)
    PROVE  \/ UNCHANGED state
           \/ \E s \in {"cancelled", "completed", "failed"} :
                Moves(t, s) /\ StartsHighest([state EXCEPT ![t] = s], priority')
<1>1. ASSUME CancelTask(t)
      PROVE  Moves(t, "cancelled") /\ StartsHighest([state EXCEPT ![t] = "cancelled"], priority')
  <2>1. priority' = priority /\ Moves(t, "cancelled")
    BY <1>1 DEF CancelTask, Cancellable, Moves
  <2>2. Sched(priority', [state EXCEPT ![t] = "cancelled"], progress,
              QueueWithout(t), SlotsWithout(t), step)
    BY <1>1, <2>1, CancelKeepsSched DEF CancelTask
  <2>3. NotifyThenProcessQueue([state EXCEPT ![t] = "cancelled"], progress,
              QueueWithout(t), SlotsWithout(t), step)
    BY <1>1 DEF CancelTask
  <2> QED
    BY <2>1, <2>2, <2>3, ProcessQueueStartsHighest
<1>2. ASSUME CompleteTask(t)
      PROVE  Moves(t, "completed") /\ StartsHighest([state EXCEPT ![t] = "completed"], priority')
  <2>1. /\ step[t] > 0 /\ [progress EXCEPT ![t] = 100] \in [Task -> 0..100]
        /\ priority' = priority
    BY <1>2, NumStepsAssumption DEF CompleteTask, IInv, Sched
  <2>2. Moves(t, "completed")
    BY <2>1 DEF IInv, Sched, Moves
  <2>3. Sched(priority', [state EXCEPT ![t] = "completed"], [progress EXCEPT ![t] = 100],
              taskQueue, SlotsWithout(t), [step EXCEPT ![t] = 0])
    BY <2>1, EndKeepsSched
  <2>4. NotifyThenProcessQueue([state EXCEPT ![t] = "completed"], [progress EXCEPT ![t] = 100],
              taskQueue, SlotsWithout(t), [step EXCEPT ![t] = 0])
    BY <1>2 DEF CompleteTask
  <2> QED
    BY <2>2, <2>3, <2>4, ProcessQueueStartsHighest
<1>3. ASSUME FailTask(t)
      PROVE  Moves(t, "failed") /\ StartsHighest([state EXCEPT ![t] = "failed"], priority')
  <2>1. /\ step[t] > 0 /\ progress \in [Task -> 0..100]
        /\ priority' = priority
    BY <1>3 DEF FailTask, IInv, Sched
  <2>2. Moves(t, "failed")
    BY <2>1 DEF IInv, Sched, Moves
  <2>3. Sched(priority', [state EXCEPT ![t] = "failed"], progress,
              taskQueue, SlotsWithout(t), [step EXCEPT ![t] = 0])
    BY <2>1, EndKeepsSched
  <2>4. NotifyThenProcessQueue([state EXCEPT ![t] = "failed"], progress,
              taskQueue, SlotsWithout(t), [step EXCEPT ![t] = 0])
    BY <1>3 DEF FailTask
  <2> QED
    BY <2>2, <2>3, <2>4, ProcessQueueStartsHighest
<1>4. ASSUME NextStep(t)
      PROVE  UNCHANGED state
  BY <1>4 DEF NextStep
<1> QED
  BY <1>1, <1>2, <1>3, <1>4

LEMMA StepsStartHighest ==
    ASSUME IInv, Next
    PROVE  \/ UNCHANGED state
           \/ \E t \in Task, s \in {"pending", "cancelled", "completed", "failed"} :
                Moves(t, s) /\ StartsHighest([state EXCEPT ![t] = s], priority')
  BY SubmitStartsHighest, OthersStartHighest DEF Next

\* A task that starts leaves none of a higher priority waiting.
LEMMA StepsDoNotOvertake ==
    ASSUME IInv, [Next]_vars, NEW t \in Task, NEW u \in Task,
           state[t] # "running", state'[t] = "running", state'[u] = "pending"
    PROVE  Effective(priority'[u]) <= Effective(priority'[t])
<1>1. PICK x \in Task, s \in {"pending", "cancelled", "completed", "failed"} :
        StartsHighest([state EXCEPT ![x] = s], priority')
  BY StepsStartHighest DEF vars
<1>2. [state EXCEPT ![x] = s][t] # "running"
  BY <1>1 DEF IInv, Sched
<1> QED
  BY <1>1, <1>2 DEF StartsHighest

\* No submission, cancel or completion makes a task overtake a higher priority.
THEOREM NoOvertakingHolds == Spec => NoOvertaking
<1>1. IInv /\ [Next]_vars =>
        [\A t, u \in Task :
           /\ state[t] # "running" /\ state'[t] = "running"
           /\ state'[u] = "pending"
           => Effective(priority'[u]) <= Effective(priority'[t])]_vars
  BY StepsDoNotOvertake
<1> QED
  BY <1>1, Invariance, PTL DEF Spec, NoOvertaking

\* A completed or failed task never changes again, nor does a cancelled one
\* that no execution carries.
THEOREM EndIsFinalHolds == Spec => EndIsFinal
<1>1. ASSUME IInv, [Next]_vars, NEW t \in Task,
             \/ state[t] \in {"completed", "failed"}
             \/ state[t] = "cancelled" /\ step[t] = 0
      PROVE  state'[t] = state[t]
  <2>1. CASE UNCHANGED state
    BY <2>1
  <2>2. CASE \E x \in Task, s \in {"pending", "cancelled", "completed", "failed"} :
               Moves(x, s) /\ StartsHighest([state EXCEPT ![x] = s], priority')
    <3>1. PICK x \in Task, s \in {"pending", "cancelled", "completed", "failed"} :
            Moves(x, s) /\ StartsHighest([state EXCEPT ![x] = s], priority')
      BY <2>2
    <3>2. [state EXCEPT ![x] = s][t] = state[t]
      BY <1>1, <3>1 DEF Moves, IInv, Sched
    <3> QED
      BY <1>1, <3>1, <3>2 DEF StartsHighest
  <2> QED
    BY <1>1, <2>1, <2>2, StepsStartHighest DEF vars
<1>2. IInv /\ [Next]_vars =>
        [\A t \in Task :
           \/ state[t] \in {"completed", "failed"}
           \/ state[t] = "cancelled" /\ step[t] = 0
           => state'[t] = state[t]]_vars
  BY <1>1
<1> QED
  BY <1>2, Invariance, PTL DEF Spec, EndIsFinal

\* When processQueue returns, the queue is empty or the slots are full.
LEMMA ProcessQueueFillsSlots ==
    ASSUME ~CallbackMayThrow,
           NEW prio, NEW st, NEW pg, NEW q, NEW running, NEW sp,
           Sched(prio, st, pg, q, running, sp),
           NotifyThenProcessQueue(st, pg, q, running, sp)
    PROVE  WorkConserving'
<1>1. PICK k \in 0..Len(q) :
        /\ LoopShifts(q, running, k)
        /\ taskQueue' = SubSeq(q, k+1, Len(q))
        /\ runningTasks' = running \cup ToSet(SubSeq(q, 1, k))
  BY DEF NotifyThenProcessQueue, ProcessQueue
<1>2. q \in Seq(Task) /\ Len(q) \in Nat
  BY DEF Sched
<1>3. CASE k = Len(q)
  <2>1. taskQueue' = <<>>
    BY <1>1, <1>2, <1>3, SubSeqEmpty
  <2> QED
    BY <2>1 DEF WorkConserving
<1>4. CASE k # Len(q)
  <2>1. IsFiniteSet(runningTasks') /\ Cardinality(runningTasks') <= MaxConcurrent
    BY <1>1, LoopRespectsLimit DEF Sched
  <2>2. Cardinality(runningTasks') >= MaxConcurrent
    BY <1>1, <1>4 DEF LoopShifts
  <2>3. Cardinality(runningTasks') = MaxConcurrent
    BY <2>1, <2>2, FS_CardinalityType, MaxConcurrentAssumption
  <2> QED
    BY <2>3 DEF WorkConserving
<1> QED
  BY <1>3, <1>4

\* If no callback throws outside the try of executeTask, no path through the
\* orchestrator leaves a task waiting beside a free slot, failures included.
THEOREM WorkConservingHolds ==
    ASSUME ~CallbackMayThrow
    PROVE  Spec => []WorkConserving
<1>1. Init => WorkConserving
  BY DEF Init, WorkConserving
<1>2. ASSUME IInv, WorkConserving, [Next]_vars
      PROVE  WorkConserving'
  <2>1. ASSUME NEW t \in Task, NEW p \in Priorities, SubmitTask(t, p)
        PROVE  WorkConserving'
    <3> DEFINE prio == [priority EXCEPT ![t] = p]
               q == SortQueue(Append(taskQueue, t), prio)
    <3>1. Sched(prio, [state EXCEPT ![t] = "pending"], progress, q, runningTasks, step)
      BY <1>2, <2>1, PrioritiesAssumption, SubmitKeepsSched DEF SubmitTask
    <3>2. NotifyThenProcessQueue([state EXCEPT ![t] = "pending"], progress, q, runningTasks, step)
      BY <2>1 DEF SubmitTask, NotifyThenProcessQueue
    <3> HIDE DEF prio, q
    <3> QED
      BY <3>1, <3>2, ProcessQueueFillsSlots
  <2>2. ASSUME NEW t \in Task, CancelTask(t)
        PROVE  WorkConserving'
    BY <1>2, <2>2, CancelKeepsSched, ProcessQueueFillsSlots DEF CancelTask
  <2>3. ASSUME NEW t \in Task, NextStep(t)
        PROVE  WorkConserving'
    BY <1>2, <2>3 DEF NextStep, WorkConserving
  <2>4. ASSUME NEW t \in Task, CompleteTask(t)
        PROVE  WorkConserving'
    <3>1. step[t] > 0 /\ [progress EXCEPT ![t] = 100] \in [Task -> 0..100]
      BY <1>2, <2>4, NumStepsAssumption DEF CompleteTask, IInv, Sched
    <3> QED
      BY <1>2, <2>4, <3>1, EndKeepsSched, ProcessQueueFillsSlots DEF CompleteTask
  <2>5. ASSUME NEW t \in Task, FailTask(t)
        PROVE  WorkConserving'
    <3>1. step[t] > 0 /\ progress \in [Task -> 0..100]
      BY <1>2, <2>5 DEF FailTask, IInv, Sched
    <3> QED
      BY <1>2, <2>5, <3>1, EndKeepsSched, ProcessQueueFillsSlots DEF FailTask
  <2>6. CASE UNCHANGED vars
    BY <1>2, <2>6 DEF vars, WorkConserving
  <2> QED
    BY <1>2, <2>1, <2>2, <2>3, <2>4, <2>5, <2>6 DEF Next
<1> QED
  BY <1>1, <1>2, Invariance, PTL DEF Spec

----------------------------------------------------------------------------
(* How tasks get to their end. *)

\* the most steps a task can still take: its submission, start and end, the timers of its
\* execution, and a cancel
StepsLeft(s, k) ==
    CASE s = "none" -> NumSteps + 3
      [] s = "pending" -> NumSteps + 2
      [] s = "running" /\ k > 0 -> NumSteps + 2 - k
      [] s = "running" /\ k = 0 -> 1
      [] s = "cancelled" /\ k > 0 -> NumSteps + 1 - k
      [] OTHER -> 0

\* what any step may do to a task
GetsOn(t) ==
    \/ state'[t] = state[t] /\ step'[t] = step[t]
    \/ StepsLeft(state'[t], step'[t]) < StepsLeft(state[t], step[t])

\* Once the caller has set st and sp, a task either stays as it is or is started; its
\* execution begins, but for a callback that throws.
LEMMA DispatchStarts ==
    ASSUME NEW prio, NEW st, NEW pg, NEW q, NEW running, NEW sp,
           Sched(prio, st, pg, q, running, sp),
           NotifyThenProcessQueue(st, pg, q, running, sp), NEW t \in Task
    PROVE  \/ state'[t] = st[t] /\ step'[t] = sp[t]
           \/ /\ st[t] = "pending" /\ state'[t] = "running"
              /\ step'[t] = 1 \/ (CallbackMayThrow /\ step'[t] = sp[t])
<1>1. CASE Assign(st, pg, q, running, sp)
  BY <1>1 DEF Assign
<1>2. CASE ProcessQueue(st, pg, q, running, sp)
  <2>1. PICK k \in 0..Len(q) :
          /\ state' = [u \in Task |-> IF u \in ToSet(SubSeq(q, 1, k)) THEN "running" ELSE st[u]]
          /\ \E leaked \in Throwing(ToSet(SubSeq(q, 1, k))) :
               step' = [u \in Task |-> IF u \in ToSet(SubSeq(q, 1, k)) \ leaked THEN 1 ELSE sp[u]]
    BY <1>2 DEF ProcessQueue
  <2> DEFINE started == ToSet(SubSeq(q, 1, k))
  <2>2. started \subseteq {u \in Task : st[u] = "pending"}
    <3>1. q \in Seq(Task) /\ Distinct(q) /\ Sorted(q, prio) /\ ToSet(q) = {u \in Task : st[u] = "pending"}
      BY DEF Sched
    <3> QED
      BY <3>1, ShiftSplitsQueue
  <2>3. PICK leaked \in Throwing(started) :
          step' = [u \in Task |-> IF u \in started \ leaked THEN 1 ELSE sp[u]]
    BY <2>1
  <2>4. state' = [u \in Task |-> IF u \in started THEN "running" ELSE st[u]]
    BY <2>1
  <2>5. CallbackMayThrow \/ leaked = {}
    BY <2>3 DEF Throwing
  <2> HIDE DEF started
  <2> QED
    BY <2>2, <2>3, <2>4, <2>5
<1> QED
  BY <1>1, <1>2 DEF NotifyThenProcessQueue

\* no slot is held by a task that no execution carries
RunningExecutes == \A t \in Task : state[t] = "running" => step[t] > 0

\* What a caller of processQueue has done to the states and the executions: submitted or
\* cancelled a task, or ended an execution.
Prepared(st, sp) ==
    \A t \in Task :
        \/ st[t] = state[t] /\ sp[t] = step[t]
        \/ st[t] = "pending" /\ state[t] = "none" /\ sp[t] = step[t]
        \/ st[t] = "cancelled" /\ state[t] \in {"pending", "running"} /\ sp[t] = step[t]
        \/ st[t] \in {"completed", "failed"} /\ sp[t] = 0 /\ step[t] > 0

LEMMA DispatchGetsOn ==
    ASSUME IInv, NEW prio, NEW st, NEW pg, NEW q, NEW running, NEW sp,
           Sched(prio, st, pg, q, running, sp),
           NotifyThenProcessQueue(st, pg, q, running, sp), Prepared(st, sp)
    PROVE  /\ \A t \in Task : GetsOn(t)
           /\ ~CallbackMayThrow /\ RunningExecutes => RunningExecutes'
<1>1. ASSUME NEW t \in Task
      PROVE  /\ GetsOn(t)
             /\ ~CallbackMayThrow /\ RunningExecutes => (state'[t] = "running" => step'[t] > 0)
  <2>1. /\ state[t] \in TaskState /\ step[t] \in 0..NumSteps /\ NumSteps \in Nat
        /\ step[t] > 0 => state[t] \in {"running", "cancelled"}
    BY NumStepsAssumption DEF IInv, Sched
  <2>2. \/ st[t] = state[t] /\ sp[t] = step[t]
        \/ st[t] = "pending" /\ state[t] = "none" /\ sp[t] = step[t]
        \/ st[t] = "cancelled" /\ state[t] \in {"pending", "running"} /\ sp[t] = step[t]
        \/ st[t] \in {"completed", "failed"} /\ sp[t] = 0 /\ step[t] > 0
    BY DEF Prepared
  <2>3. \/ state'[t] = st[t] /\ step'[t] = sp[t]
        \/ /\ st[t] = "pending" /\ state'[t] = "running"
           /\ step'[t] = 1 \/ (CallbackMayThrow /\ step'[t] = sp[t])
    BY DispatchStarts
  <2>4. CASE state'[t] = st[t] /\ step'[t] = sp[t]
    <3>1. GetsOn(t)
      BY <2>1, <2>2, <2>4 DEF GetsOn, StepsLeft, TaskState, Terminal
    <3>2. RunningExecutes => (state'[t] = "running" => step'[t] > 0)
      BY <2>2, <2>4 DEF RunningExecutes
    <3> QED
      BY <3>1, <3>2
  <2>5. CASE /\ st[t] = "pending" /\ state'[t] = "running"
             /\ step'[t] = 1 \/ (CallbackMayThrow /\ step'[t] = sp[t])
    <3>1. state[t] \in {"none", "pending"} /\ step[t] = 0 /\ sp[t] = 0
      BY <2>1, <2>2, <2>5
    <3>2. StepsLeft("running", 1) = NumSteps + 1 /\ StepsLeft("running", 0) = 1
      BY <2>1 DEF StepsLeft
    <3>3. StepsLeft(state[t], step[t]) \in {NumSteps + 2, NumSteps + 3}
      BY <2>1, <3>1 DEF StepsLeft
    <3>4. StepsLeft(state'[t], step'[t]) \in {NumSteps + 1, 1}
      BY <2>5, <3>1, <3>2
    <3>5. GetsOn(t)
      BY <2>1, <3>3, <3>4 DEF GetsOn
    <3> QED
      BY <2>5, <3>5
  <2> QED
    BY <2>3, <2>4, <2>5
<1> QED
  BY <1>1 DEF RunningExecutes

LEMMA SubmitGetsOn ==
    ASSUME IInv, NEW t \in Task, NEW p \in Priorities, SubmitTask(t, p)
    PROVE  /\ \A u \in Task : GetsOn(u)
           /\ ~CallbackMayThrow /\ RunningExecutes => RunningExecutes'
<1> DEFINE prio == [priority EXCEPT ![t] = p]
           st == [state EXCEPT ![t] = "pending"]
           q == SortQueue(Append(taskQueue, t), prio)
<1>1. Sched(prio, st, progress, q, runningTasks, step)
  BY PrioritiesAssumption, SubmitKeepsSched DEF SubmitTask
<1>2. NotifyThenProcessQueue(st, progress, q, runningTasks, step)
  BY DEF SubmitTask, NotifyThenProcessQueue
<1>3. Prepared(st, step)
  BY DEF IInv, Sched, SubmitTask, Prepared
<1> HIDE DEF prio, st, q
<1> QED
  BY <1>1, <1>2, <1>3, DispatchGetsOn

LEMMA CancelGetsOn ==
    ASSUME IInv, NEW t \in Task, CancelTask(t)
    PROVE  /\ \A u \in Task : GetsOn(u)
           /\ ~CallbackMayThrow /\ RunningExecutes => RunningExecutes'
<1> DEFINE st == [state EXCEPT ![t] = "cancelled"]
<1>1. Sched(priority, st, progress, QueueWithout(t), SlotsWithout(t), step)
  BY CancelKeepsSched DEF CancelTask
<1>2. NotifyThenProcessQueue(st, progress, QueueWithout(t), SlotsWithout(t), step)
  BY DEF CancelTask
<1>3. Prepared(st, step)
  BY DEF IInv, Sched, CancelTask, Cancellable, TaskState, Terminal, Prepared
<1> HIDE DEF st
<1> QED
  BY <1>1, <1>2, <1>3, DispatchGetsOn

LEMMA EndGetsOn ==
    ASSUME IInv, NEW t \in Task, NEW end \in {"completed", "failed"}, NEW pg \in [Task -> 0..100],
           step[t] > 0,
           NotifyThenProcessQueue([state EXCEPT ![t] = end], pg, taskQueue, SlotsWithout(t),
                                  [step EXCEPT ![t] = 0])
    PROVE  /\ \A u \in Task : GetsOn(u)
           /\ ~CallbackMayThrow /\ RunningExecutes => RunningExecutes'
<1> DEFINE st == [state EXCEPT ![t] = end]
           sp == [step EXCEPT ![t] = 0]
<1>1. Sched(priority, st, pg, taskQueue, SlotsWithout(t), sp)
  BY EndKeepsSched
<1>2. Prepared(st, sp)
  BY DEF IInv, Sched, Prepared
<1> HIDE DEF st, sp
<1> QED
  BY <1>1, <1>2, DispatchGetsOn DEF st, sp

LEMMA NextStepGetsOn ==
    ASSUME IInv, NEW t \in Task, NextStep(t)
    PROVE  /\ \A u \in Task : GetsOn(u)
           /\ RunningExecutes => RunningExecutes'
<1>1. /\ step \in [Task -> 0..NumSteps] /\ NumSteps \in Nat /\ state' = state
      /\ step[t] \in 1..(NumSteps - 1) /\ step' = [step EXCEPT ![t] = step[t] + 1]
      /\ state[t] \in {"running", "cancelled"}
  BY NumStepsAssumption DEF NextStep, MoreSteps, IInv, Sched
<1>2. StepsLeft(state'[t], step'[t]) < StepsLeft(state[t], step[t])
  BY <1>1 DEF StepsLeft
<1> QED
  BY <1>1, <1>2 DEF GetsOn, RunningExecutes

LEMMA TasksStep ==
    ASSUME IInv, [Next]_vars
    PROVE  /\ \A u \in Task : GetsOn(u)
           /\ ~CallbackMayThrow /\ RunningExecutes => RunningExecutes'
<1>1. ASSUME NEW t \in Task, CompleteTask(t)
      PROVE  /\ \A u \in Task : GetsOn(u)
             /\ ~CallbackMayThrow /\ RunningExecutes => RunningExecutes'
  <2>1. step[t] > 0 /\ [progress EXCEPT ![t] = 100] \in [Task -> 0..100]
    BY <1>1, NumStepsAssumption DEF CompleteTask, IInv, Sched
  <2>2. NotifyThenProcessQueue([state EXCEPT ![t] = "completed"], [progress EXCEPT ![t] = 100],
              taskQueue, SlotsWithout(t), [step EXCEPT ![t] = 0])
    BY <1>1 DEF CompleteTask
  <2> QED
    BY <2>1, <2>2, EndGetsOn
<1>2. ASSUME NEW t \in Task, FailTask(t)
      PROVE  /\ \A u \in Task : GetsOn(u)
             /\ ~CallbackMayThrow /\ RunningExecutes => RunningExecutes'
  <2>1. step[t] > 0 /\ progress \in [Task -> 0..100]
    BY <1>2 DEF FailTask, IInv, Sched
  <2>2. NotifyThenProcessQueue([state EXCEPT ![t] = "failed"], progress,
              taskQueue, SlotsWithout(t), [step EXCEPT ![t] = 0])
    BY <1>2 DEF FailTask
  <2> QED
    BY <2>1, <2>2, EndGetsOn
<1>3. CASE UNCHANGED vars
  BY <1>3 DEF vars, GetsOn, RunningExecutes
<1> QED
  BY <1>1, <1>2, <1>3, SubmitGetsOn, CancelGetsOn, NextStepGetsOn DEF Next

\* Every step that touches a task takes one from the steps it has left, which are at most
\* three more than an execution has, whatever is submitted, cancelled or thrown: nothing
\* sends a task back, and nothing starts one twice.
THEOREM TasksGetOn ==
    Spec => /\ [](\A t \in Task : StepsLeft(state[t], step[t]) \in 0..(NumSteps + 3))
            /\ [][\A t \in Task : GetsOn(t)]_vars
<1>1. IInv => \A t \in Task : StepsLeft(state[t], step[t]) \in 0..(NumSteps + 3)
  <2> SUFFICES ASSUME IInv, NEW t \in Task
               PROVE  StepsLeft(state[t], step[t]) \in 0..(NumSteps + 3)
    OBVIOUS
  <2>1. state[t] \in TaskState /\ step[t] \in 0..NumSteps /\ NumSteps \in Nat
    BY NumStepsAssumption DEF IInv, Sched
  <2> QED
    BY <2>1 DEF StepsLeft, TaskState, Terminal
<1>2. IInv /\ [Next]_vars => [\A t \in Task : GetsOn(t)]_vars
  BY TasksStep
<1> QED
  BY <1>1, <1>2, Invariance, PTL DEF Spec

\* If no callback throws outside the try of executeTask, the queue never stands still: while
\* a task waits or runs, the timer of some execution is pending.
THEOREM NeverStuck ==
    ASSUME ~CallbackMayThrow
    PROVE  Spec => []((\E t \in Task : state[t] \in {"pending", "running"})
                        => \E u \in Task : step[u] \in 1..NumSteps)
<1>1. Init => RunningExecutes
  BY DEF Init, RunningExecutes
<1>2. IInv /\ RunningExecutes /\ [Next]_vars => RunningExecutes'
  BY TasksStep
<1>3. ASSUME IInv, RunningExecutes, WorkConserving,
             NEW t \in Task, state[t] \in {"pending", "running"}
      PROVE  \E u \in Task : step[u] \in 1..NumSteps
  <2>1. \A u \in Task : step[u] \in 0..NumSteps
    BY <1>3 DEF IInv, Sched
  <2>2. ASSUME NEW u \in Task, state[u] = "running"
        PROVE  step[u] \in 1..NumSteps
    BY <1>3, <2>1, <2>2, NumStepsAssumption DEF RunningExecutes
  <2>3. \E u \in Task : state[u] = "running"
    <3>1. CASE state[t] = "running"
      BY <3>1
    <3>2. CASE state[t] = "pending"
      <4>1. t \in ToSet(taskQueue)
        BY <1>3, <3>2 DEF IInv, Sched
      <4>2. taskQueue # <<>>
        BY <4>1 DEF ToSet
      <4>3. Cardinality(runningTasks) = MaxConcurrent
        BY <1>3, <4>2 DEF WorkConserving
      <4>4. runningTasks # {}
        BY <4>3, FS_EmptySet, MaxConcurrentAssumption
      <4>5. runningTasks = {u \in Task : state[u] = "running"}
        BY <1>3 DEF IInv, Sched
      <4> QED
        BY <4>4, <4>5
    <3> QED
      BY <1>3, <3>1, <3>2
  <2> QED
    BY <2>2, <2>3
<1>4. IInv /\ RunningExecutes /\ WorkConserving
        => ((\E t \in Task : state[t] \in {"pending", "running"})
              => \E u \in Task : step[u] \in 1..NumSteps)
  BY <1>3
<1> QED
  BY <1>1, <1>2, <1>4, Invariance, WorkConservingHolds, PTL DEF Spec

----------------------------------------------------------------------------
(* First come, first served. *)

\* The sort is stable.
LEMMA SortIsStable ==
    ASSUME NEW q \in Seq(Task), NEW prio \in [Task -> 0..3], NEW t \in Task, NEW u \in Task,
           Ahead(q, t, u), Effective(prio[u]) = Effective(prio[t])
    PROVE  Ahead(SortQueue(q, prio), t, u)
<1>1. PICK i, j \in DOMAIN q : i < j /\ q[i] = t /\ q[j] = u
  BY DEF Ahead
<1>2. Rank(q, prio, i) < Rank(q, prio, j)
  BY <1>1, RankIsBijective DEF Precedes
<1>3. ASSUME NEW k \in DOMAIN q
      PROVE  /\ Rank(q, prio, k) \in DOMAIN q
             /\ SortQueue(q, prio)[Rank(q, prio, k)] = q[k]
  <2> DEFINE r == Rank(q, prio, k)
             l == CHOOSE m \in DOMAIN q : Rank(q, prio, m) = r
  <2>1. r \in DOMAIN q /\ DOMAIN q = 1..Len(q)
    BY RankIsBijective
  <2>2. l \in DOMAIN q /\ Rank(q, prio, l) = r
    OBVIOUS
  <2>3. SortQueue(q, prio)[r] = q[l]
    BY <2>1 DEF SortQueue
  <2> HIDE DEF l
  <2>4. l = k
    <3>1. ~Precedes(q, prio, l, k) /\ ~Precedes(q, prio, k, l)
      <4>1. r \in Int
        BY <2>1
      <4> HIDE DEF r
      <4>2. ~(r < r) /\ Rank(q, prio, k) = r
        BY <4>1 DEF r
      <4> QED
        BY <2>2, <4>2, RankIsBijective
    <3> QED
      BY <2>2, <3>1, PrecedesIsTotalOrder
  <2> QED
    BY <2>1, <2>3, <2>4
<1>4. DOMAIN SortQueue(q, prio) = DOMAIN q
  BY DEF SortQueue
<1> QED
  BY <1>1, <1>2, <1>3, <1>4 DEF Ahead

\* A task that waits before and after processQueue stays ahead of those behind it.
LEMMA ProcessQueueKeepsAhead ==
    ASSUME NEW prio, NEW st, NEW pg, NEW q, NEW running, NEW sp,
           Sched(prio, st, pg, q, running, sp),
           NotifyThenProcessQueue(st, pg, q, running, sp),
           NEW t \in Task, NEW u \in Task, state'[t] = "pending",
           Ahead(q, t, u) \/ st[u] \notin {"pending", "running"}
    PROVE  /\ state'[u] # "running"
           /\ state'[u] = "pending" => Ahead(taskQueue', t, u)
<1>0. /\ q \in Seq(Task) /\ Len(q) \in Nat /\ DOMAIN q = 1..Len(q)
      /\ ToSet(q) = {v \in Task : st[v] = "pending"} /\ Distinct(q)
  BY DEF Sched
<1>a. Ahead(q, t, u) => u \in ToSet(q)
  BY DEF Ahead, ToSet
<1>1. CASE Assign(st, pg, q, running, sp)
  BY <1>0, <1>1, <1>a DEF Assign
<1>2. CASE ProcessQueue(st, pg, q, running, sp)
  <2>1. PICK k \in 0..Len(q) :
          /\ taskQueue' = SubSeq(q, k+1, Len(q))
          /\ state' = [v \in Task |-> IF v \in ToSet(SubSeq(q, 1, k)) THEN "running" ELSE st[v]]
    BY <1>2 DEF ProcessQueue
  <2> DEFINE started == ToSet(SubSeq(q, 1, k))
  <2>2. started = {q[i] : i \in 1..k} /\ started \subseteq ToSet(q)
    <3>1. Sorted(q, prio)
      BY DEF Sched
    <3> QED
      BY <1>0, <3>1, ShiftSplitsQueue
  <2>3. /\ state' = [v \in Task |-> IF v \in started THEN "running" ELSE st[v]]
        /\ t \notin started
    BY <2>1
  <2> HIDE DEF started
  <2>4. CASE ~Ahead(q, t, u)
    BY <1>0, <2>2, <2>3, <2>4
  <2>5. CASE Ahead(q, t, u)
    <3>1. PICK i, j \in DOMAIN q : i < j /\ q[i] = t /\ q[j] = u
      BY <2>5 DEF Ahead
    <3>2. i \notin 1..k
      BY <2>2, <2>3, <3>1
    <3>3. i \in Nat /\ j \in Nat /\ k \in Nat /\ k < i /\ i < j /\ j <= Len(q)
      BY <1>0, <3>1, <3>2
    <3>4. u \notin started
      <4>1. SUFFICES ASSUME u \in started PROVE FALSE
        OBVIOUS
      <4>2. PICK l \in 1..k : q[l] = u
        BY <2>2, <4>1
      <4>3. l \in DOMAIN q /\ l # j
        BY <1>0, <3>3, <4>2
      <4> QED
        BY <1>0, <3>1, <4>2, <4>3 DEF Distinct
    <3>5. state'[u] = "pending"
      BY <1>0, <1>a, <2>3, <2>5, <3>4
    <3>6. /\ i - k \in DOMAIN taskQueue' /\ j - k \in DOMAIN taskQueue' /\ i - k < j - k
          /\ taskQueue'[i - k] = t /\ taskQueue'[j - k] = u
      <4>1. /\ DOMAIN taskQueue' = 1..(Len(q) - k)
            /\ \A n \in 1..(Len(q) - k) : taskQueue'[n] = q[k + n]
        <5>1. \A s \in Seq(Task), m \in Nat : m <= Len(s) =>
                /\ DOMAIN SubSeq(s, m+1, Len(s)) = 1..(Len(s) - m)
                /\ \A n \in 1..(Len(s) - m) : SubSeq(s, m+1, Len(s))[n] = s[m + n]
          OBVIOUS
        <5>2. taskQueue' = SubSeq(q, k+1, Len(q)) /\ k \in Nat /\ k <= Len(q)
          BY <1>0, <2>1
        <5> QED
          BY <1>0, <5>1, <5>2
      <4>2. /\ i - k \in 1..(Len(q) - k) /\ j - k \in 1..(Len(q) - k) /\ i - k < j - k
            /\ k + (i - k) = i /\ k + (j - k) = j
        BY <1>0, <3>3
      <4> QED
        BY <3>1, <4>1, <4>2
    <3> QED
      BY <3>5, <3>6 DEF Ahead
  <2> QED
    BY <2>4, <2>5
<1> QED
  BY <1>1, <1>2 DEF NotifyThenProcessQueue

\* While a task waits, those of its priority that are behind it, or yet to come, stay so.
LEMMA StepsKeepTheOrder ==
    ASSUME IInv, [Next]_vars, NEW t \in Task, NEW u \in Task,
           state[t] = "pending", state'[t] = "pending",
           Ahead(taskQueue, t, u) \/ state[u] = "none",
           Effective(priority'[u]) = Effective(priority[t])
    PROVE  state'[u] # "running" /\ (state'[u] = "pending" => Ahead(taskQueue', t, u))
<1>0. /\ taskQueue \in Seq(Task) /\ Len(taskQueue) \in Nat
      /\ DOMAIN taskQueue = 1..Len(taskQueue)
      /\ ToSet(taskQueue) = {v \in Task : state[v] = "pending"}
      /\ state \in [Task -> TaskState] /\ priority \in [Task -> 0..3]
      /\ \A v \in Task : step[v] > 0 => state[v] \in {"running", "cancelled"}
  BY DEF IInv, Sched
<1>a. t \in ToSet(taskQueue) /\ (Ahead(taskQueue, t, u) => state[u] = "pending")
  BY <1>0 DEF Ahead, ToSet
<1>1. ASSUME NEW x \in Task, NEW p \in Priorities, SubmitTask(x, p)
      PROVE  state'[u] # "running" /\ (state'[u] = "pending" => Ahead(taskQueue', t, u))
  <2> DEFINE st == [state EXCEPT ![x] = "pending"]
             prio == [priority EXCEPT ![x] = p]
             q == Append(taskQueue, x)
  <2>1. /\ p \in 0..3 /\ state[x] = "none" /\ priority' = prio
        /\ NotifyThenProcessQueue(st, progress, SortQueue(q, prio), runningTasks, step)
    BY <1>1, PrioritiesAssumption DEF SubmitTask, NotifyThenProcessQueue
  <2>2. Sched(prio, st, progress, SortQueue(q, prio), runningTasks, step)
    BY <2>1, SubmitKeepsSched
  <2>3. q \in Seq(Task) /\ prio \in [Task -> 0..3] /\ prio[t] = priority[t]
    BY <1>0, <2>1
  <2>4. Ahead(taskQueue, t, u) \/ x = u => Ahead(SortQueue(q, prio), t, u)
    <3>1. ASSUME Ahead(taskQueue, t, u) \/ x = u PROVE Ahead(q, t, u)
      <4>1. /\ DOMAIN q = 1..(Len(taskQueue) + 1) /\ q[Len(taskQueue) + 1] = x
            /\ \A i \in 1..Len(taskQueue) : q[i] = taskQueue[i]
        BY <1>0
      <4>2. PICK i \in 1..Len(taskQueue) : taskQueue[i] = t
        BY <1>0, <1>a DEF ToSet
      <4>3. CASE x = u
        <5>1. i \in DOMAIN q /\ Len(taskQueue) + 1 \in DOMAIN q /\ i < Len(taskQueue) + 1
          BY <1>0, <4>1
        <5> QED
          BY <4>1, <4>2, <4>3, <5>1 DEF Ahead
      <4>4. CASE Ahead(taskQueue, t, u)
        <5>1. PICK k, l \in 1..Len(taskQueue) : k < l /\ taskQueue[k] = t /\ taskQueue[l] = u
          BY <1>0, <4>4 DEF Ahead
        <5>2. k \in DOMAIN q /\ l \in DOMAIN q
          BY <1>0, <4>1
        <5> QED
          BY <4>1, <5>1, <5>2 DEF Ahead
      <4> QED
        BY <3>1, <4>3, <4>4
    <3> HIDE DEF q, prio
    <3> QED
      BY <2>1, <2>3, <3>1, SortIsStable
  <2>5. Ahead(SortQueue(q, prio), t, u) \/ st[u] \notin {"pending", "running"}
    <3>1. CASE Ahead(taskQueue, t, u) \/ x = u
      BY <2>4, <3>1
    <3>2. CASE ~(Ahead(taskQueue, t, u) \/ x = u)
      <4>1. st[u] = "none"
        BY <1>0, <3>2
      <4> QED
        BY <4>1
    <3> QED
      BY <3>1, <3>2
  <2> HIDE DEF q, prio, st
  <2> QED
    BY <2>1, <2>2, <2>5, ProcessQueueKeepsAhead
<1>2. ASSUME NEW x \in Task, CancelTask(x)
      PROVE  state'[u] # "running" /\ (state'[u] = "pending" => Ahead(taskQueue', t, u))
  <2> DEFINE st == [state EXCEPT ![x] = "cancelled"]
             q == QueueWithout(x)
  <2>1. NotifyThenProcessQueue(st, progress, q, SlotsWithout(x), step) /\ state[x] # "none"
    BY <1>2 DEF CancelTask, Cancellable
  <2>2. Sched(priority, st, progress, q, SlotsWithout(x), step)
    BY <1>2, CancelKeepsSched DEF CancelTask
  <2>3. x # t
    <3>1. StartsHighest(st, priority)
      BY <2>1, <2>2, ProcessQueueStartsHighest
    <3>2. st[t] = "pending" \/ state'[t] # "pending"
      BY <3>1 DEF StartsHighest
    <3> QED
      BY <1>0, <3>2
  <2>4. Ahead(q, t, u) \/ st[u] \notin {"pending", "running"}
    <3>1. CASE state[u] = "none" \/ x = u
      BY <1>0, <2>1, <3>1
    <3>2. CASE Ahead(taskQueue, t, u) /\ x # u
      <4>1. PICK i, j \in DOMAIN taskQueue : i < j /\ taskQueue[i] = t /\ taskQueue[j] = u
        BY <3>2 DEF Ahead
      <4>2. \A k, l \in DOMAIN taskQueue :
               k < l /\ taskQueue[k] # x /\ taskQueue[l] # x
                 => Ahead(RemoveFirst(taskQueue, x), taskQueue[k], taskQueue[l])
        BY SpliceKeepsOrder DEF IInv, Sched
      <4> QED
        BY <2>3, <3>2, <4>1, <4>2 DEF QueueWithout
    <3> QED
      BY <3>1, <3>2
  <2> HIDE DEF q, st
  <2> QED
    BY <2>1, <2>2, <2>4, ProcessQueueKeepsAhead
<1>3. ASSUME NEW x \in Task, NextStep(x)
      PROVE  state'[u] # "running" /\ (state'[u] = "pending" => Ahead(taskQueue', t, u))
  BY <1>3, <1>a DEF NextStep
<1>4. ASSUME NEW x \in Task, NEW end \in {"completed", "failed"}, step[x] > 0,
             NEW pg \in [Task -> 0..100],
             NotifyThenProcessQueue([state EXCEPT ![x] = end], pg, taskQueue,
                                    SlotsWithout(x), [step EXCEPT ![x] = 0])
      PROVE  state'[u] # "running" /\ (state'[u] = "pending" => Ahead(taskQueue', t, u))
  <2> DEFINE st == [state EXCEPT ![x] = end]
  <2>1. Sched(priority, st, pg, taskQueue, SlotsWithout(x), [step EXCEPT ![x] = 0])
    BY <1>4, EndKeepsSched
  <2>2. Ahead(taskQueue, t, u) \/ st[u] \notin {"pending", "running"}
    <3>1. state[x] \in {"running", "cancelled"}
      BY <1>0, <1>4
    <3> QED
      BY <1>0, <3>1
  <2> HIDE DEF st
  <2>3. NotifyThenProcessQueue(st, pg, taskQueue, SlotsWithout(x), [step EXCEPT ![x] = 0])
    BY <1>4 DEF st
  <2> QED
    BY <2>1, <2>2, <2>3, ProcessQueueKeepsAhead
<1>5. ASSUME NEW x \in Task, CompleteTask(x)
      PROVE  state'[u] # "running" /\ (state'[u] = "pending" => Ahead(taskQueue', t, u))
  <2>1. step[x] > 0 /\ [progress EXCEPT ![x] = 100] \in [Task -> 0..100]
    BY <1>5, NumStepsAssumption DEF CompleteTask, IInv, Sched
  <2> QED
    BY <1>4, <1>5, <2>1 DEF CompleteTask
<1>6. ASSUME NEW x \in Task, FailTask(x)
      PROVE  state'[u] # "running" /\ (state'[u] = "pending" => Ahead(taskQueue', t, u))
  <2>1. step[x] > 0 /\ progress \in [Task -> 0..100]
    BY <1>6 DEF FailTask, IInv, Sched
  <2> QED
    BY <1>4, <1>6, <2>1 DEF FailTask
<1>7. CASE UNCHANGED vars
  BY <1>7, <1>a DEF vars
<1> QED
  BY <1>1, <1>2, <1>3, <1>5, <1>6, <1>7 DEF Next

\* Tasks of one effective priority leave the queue in the order in which they entered it.
THEOREM FirstComeFirstServedHolds == Spec => FirstComeFirstServed
<1>1. IInv /\ [Next]_vars =>
        [\A t, u \in Task :
           /\ state[t] = "pending" /\ state'[t] = "pending"
           /\ Ahead(taskQueue, t, u) \/ state[u] = "none"
           /\ Effective(priority'[u]) = Effective(priority[t])
           => /\ state'[u] # "running"
              /\ state'[u] = "pending" => Ahead(taskQueue', t, u)]_vars
  BY StepsKeepTheOrder
<1> QED
  BY <1>1, Invariance, PTL DEF Spec, FirstComeFirstServed

----------------------------------------------------------------------------
(* Batches.  What a task that waits keeps behind it stays behind. *)

\* Only a submission changes a priority, and makes a task known.
LEMMA SubmissionsOnly ==
    ASSUME IInv, [Next]_vars, NEW t \in Task
    PROVE  /\ state[t] # "none" => priority'[t] = priority[t]
           /\ state'[t] = "pending" => state[t] \in {"none", "pending"}
           /\ state[t] # "none" => state'[t] # "none"
           /\ state[t] \notin {"none", "pending"} /\ step[t] = 0 /\ state[t] # "running"
                => state'[t] # "running"
<1>1. state \in [Task -> TaskState] /\ priority \in [Task -> 0..3]
  BY DEF IInv, Sched
<1>2. state[t] # "none" => priority'[t] = priority[t]
  <2>1. ASSUME NEW x \in Task, NEW p \in Priorities, SubmitTask(x, p)
        PROVE  state[t] # "none" => priority'[t] = priority[t]
    BY <1>1, <2>1 DEF SubmitTask
  <2> QED
    BY <2>1 DEF Next, CancelTask, NextStep, CompleteTask, FailTask, vars
<1>3. CASE UNCHANGED state
  BY <1>2, <1>3
<1>4. CASE ~UNCHANGED state
  <2>1. PICK x \in Task, s \in {"pending", "cancelled", "completed", "failed"} :
          Moves(x, s) /\ StartsHighest([state EXCEPT ![x] = s], priority')
    BY <1>4, StepsStartHighest DEF vars
  <2> DEFINE st == [state EXCEPT ![x] = s]
  <2>2. state'[t] = st[t] \/ (st[t] = "pending" /\ state'[t] = "running")
    BY <2>1 DEF StartsHighest
  <2>3. st[t] = IF t = x THEN s ELSE state[t]
    BY <1>1
  <2> HIDE DEF st
  <2> QED
    BY <1>2, <2>1, <2>2, <2>3 DEF Moves
<1> QED
  BY <1>3, <1>4

\* A task is executed only by a start.
LEMMA OnlyStartsExecute ==
    ASSUME IInv, [Next]_vars, NEW t \in Task, step[t] = 0, state'[t] # "running"
    PROVE  step'[t] = 0
<1>0. step \in [Task -> 0..NumSteps]
  BY DEF IInv, Sched
<1>1. ASSUME NEW st, NEW pg, NEW q, NEW running, NEW sp, sp[t] = 0,
             NotifyThenProcessQueue(st, pg, q, running, sp)
      PROVE  step'[t] = 0
  <2>1. CASE Assign(st, pg, q, running, sp)
    BY <1>1, <2>1 DEF Assign
  <2>2. CASE ProcessQueue(st, pg, q, running, sp)
    <3>1. PICK k \in 0..Len(q) :
            /\ state' = [u \in Task |-> IF u \in ToSet(SubSeq(q, 1, k)) THEN "running" ELSE st[u]]
            /\ \E leaked \in Throwing(ToSet(SubSeq(q, 1, k))) :
                 step' = [u \in Task |-> IF u \in ToSet(SubSeq(q, 1, k)) \ leaked
                                         THEN 1 ELSE sp[u]]
      BY <2>2 DEF ProcessQueue
    <3> QED
      BY <1>1, <3>1
  <2> QED
    BY <1>1, <2>1, <2>2 DEF NotifyThenProcessQueue
<1>2. ASSUME NEW x \in Task, NEW p \in Priorities, SubmitTask(x, p) PROVE step'[t] = 0
  BY <1>1, <1>2 DEF SubmitTask, NotifyThenProcessQueue
<1>3. ASSUME NEW x \in Task, CancelTask(x) PROVE step'[t] = 0
  BY <1>1, <1>3 DEF CancelTask
<1>4. ASSUME NEW x \in Task, NextStep(x) PROVE step'[t] = 0
  <2>1. x # t
    BY <1>4 DEF NextStep, MoreSteps
  <2> QED
    BY <1>0, <1>4, <2>1 DEF NextStep
<1>5. ASSUME NEW x \in Task, CompleteTask(x) PROVE step'[t] = 0
  <2>1. [step EXCEPT ![x] = 0][t] = 0
    BY <1>0
  <2> QED
    BY <1>1, <1>5, <2>1 DEF CompleteTask
<1>6. ASSUME NEW x \in Task, FailTask(x) PROVE step'[t] = 0
  <2>1. [step EXCEPT ![x] = 0][t] = 0
    BY <1>0
  <2> QED
    BY <1>1, <1>6, <2>1 DEF FailTask
<1> QED
  BY <1>2, <1>3, <1>4, <1>5, <1>6 DEF Next, vars

\* While m waits, n has not started if it is no more urgent, and is behind m if it is as
\* urgent.
Behind(m, n) ==
    state[m] = "pending" /\ state[n] # "none" /\ Effective(priority[n]) <= Effective(priority[m])
    => /\ state[n] # "running" /\ step[n] = 0
       /\ state[n] = "pending" /\ Effective(priority[n]) = Effective(priority[m])
            => Ahead(taskQueue, m, n)

LEMMA StepsKeepBehind ==
    ASSUME IInv, IInv', [Next]_vars, NEW m \in Task, NEW n \in Task, Behind(m, n),
           state'[n] # "none" => state[m] # "none"
    PROVE  Behind(m, n)'
<1> SUFFICES ASSUME state'[m] = "pending", state'[n] # "none",
                    Effective(priority'[n]) <= Effective(priority'[m])
             PROVE  /\ state'[n] # "running" /\ step'[n] = 0
                    /\ state'[n] = "pending" /\ Effective(priority'[n]) = Effective(priority'[m])
                         => Ahead(taskQueue', m, n)
  BY DEF Behind
<1>1. state[m] = "pending" /\ priority'[m] = priority[m]
  BY SubmissionsOnly
<1>2. /\ Effective(priority'[n]) \in Nat /\ Effective(priority'[m]) \in Nat
      /\ state \in [Task -> TaskState]
      /\ step[n] # 0 => state[n] \in {"running", "cancelled"}
  <2>1. /\ priority'[n] \in 0..3 /\ priority'[m] \in 0..3
        /\ state \in [Task -> TaskState] /\ step[n] \in 0..NumSteps
        /\ step[n] > 0 => state[n] \in {"running", "cancelled"}
    BY DEF IInv, Sched
  <2> QED
    BY <2>1, NumStepsAssumption DEF Effective
<1>3. state[n] # "running" /\ step[n] = 0
  <2>1. CASE state[n] = "none"
    BY <1>2, <2>1
  <2>2. CASE state[n] # "none"
    BY <1>1, <2>2, SubmissionsOnly DEF Behind
  <2> QED
    BY <2>1, <2>2
<1>4. CASE state[n] \notin {"none", "pending"}
  <2>1. state'[n] # "running" /\ state'[n] # "pending"
    BY <1>3, <1>4, SubmissionsOnly
  <2> QED
    BY <1>3, <2>1, OnlyStartsExecute
<1>5. CASE state[n] \in {"none", "pending"}
  <2>1. CASE Effective(priority'[n]) = Effective(priority'[m])
    <3>1. Ahead(taskQueue, m, n) \/ state[n] = "none"
      BY <1>1, <1>5, <2>1, SubmissionsOnly DEF Behind
    <3>2. state'[n] # "running" /\ (state'[n] = "pending" => Ahead(taskQueue', m, n))
      BY <1>1, <2>1, <3>1, StepsKeepTheOrder
    <3> QED
      BY <1>3, <3>2, OnlyStartsExecute
  <2>2. CASE Effective(priority'[n]) # Effective(priority'[m])
    <3>1. state'[n] # "running"
      BY <1>2, <1>3, <2>2, StepsDoNotOvertake
    <3> QED
      BY <1>3, <2>2, <3>1, OnlyStartsExecute
  <2> QED
    BY <2>1, <2>2
<1> QED
  BY <1>4, <1>5

\* The batch takes ids 1 to N, and submits them in that order.
BatchInv ==
    /\ IInv
    /\ BatchTypeOK
    /\ Len(batch) <= MaxBatch
    /\ \A n \in BatchTask : state[n] # "none" <=> n <= submitted
    /\ \A m, n \in BatchTask : m < n => Behind(m, n)

LEMMA BatchTaskIsTask == BatchTypeOK /\ Len(batch) <= MaxBatch => BatchTask \subseteq Task
<1> SUFFICES ASSUME BatchTypeOK, Len(batch) <= MaxBatch PROVE BatchTask \subseteq Task
  OBVIOUS
<1>1. Len(batch) \in Nat
  BY DEF BatchTypeOK
<1>2. 1..Len(batch) \subseteq 1..MaxBatch
  BY <1>1, BatchFits
<1> QED
  BY <1>2, BatchFits DEF BatchTask

LEMMA BatchInvInit == BatchInit => BatchInv
<1> SUFFICES ASSUME BatchInit PROVE BatchInv
  OBVIOUS
<1>1. PICK k \in 0..MaxBatch : batch \in [1..k -> Scheduler!AgentTask]
  BY DEF BatchInit
<1>2. batch \in Seq(Scheduler!AgentTask) /\ Len(batch) = k /\ k \in Nat /\ k <= MaxBatch
  <2>1. k \in Nat /\ k <= MaxBatch
    BY BatchFits
  <2> DEFINE S == Scheduler!AgentTask
  <2>2. batch \in [1..k -> S]
    BY <1>1
  <2> HIDE DEF S
  <2>3. batch \in Seq(S) /\ Len(batch) = k
    BY <2>1, <2>2
  <2> QED
    BY <2>1, <2>3 DEF S
<1>3. BatchTypeOK
  BY <1>2 DEF BatchInit, BatchTypeOK
<1>4. IInv
  BY InitEstablishesIInv DEF BatchInit
<1>5. \A n \in BatchTask : state[n] = "none" /\ ~(n <= submitted)
  <2>1. \A t \in Task : state[t] = "none"
    BY DEF BatchInit, Init
  <2>2. BatchTask \subseteq Task
    BY <1>2, <1>3, BatchTaskIsTask
  <2>3. \A n \in BatchTask : n \in Nat /\ n > 0
    BY <1>2 DEF BatchTask
  <2>4. submitted = -1
    BY DEF BatchInit
  <2>5. \A n \in BatchTask : ~(n <= submitted)
    BY <2>3, <2>4
  <2> QED
    BY <2>1, <2>2, <2>5
<1> QED
  BY <1>2, <1>3, <1>4, <1>5 DEF BatchInv, Behind

\* A task becomes known when it is submitted, and not before.
LEMMA SubmissionMakesKnown ==
    ASSUME IInv, NEW x \in Task, NEW p \in Priorities, SubmitTask(x, p), NEW t \in Task
    PROVE  state'[t] # "none" <=> state[t] # "none" \/ t = x
<1>1. state'[t] = [state EXCEPT ![x] = "pending"][t] \/ state'[t] = "running"
  BY SubmitStartsHighest DEF StartsHighest
<1>2. state \in [Task -> TaskState]
  BY DEF IInv, Sched
<1>3. CASE state[t] = "none" /\ t # x
  BY <1>2, <1>3, SubmitStartsHighest DEF StartsHighest
<1>4. CASE ~(state[t] = "none" /\ t # x)
  BY <1>1, <1>2, <1>4
<1> QED
  BY <1>3, <1>4

LEMMA OthersMakeNoneKnown ==
    ASSUME IInv, NEW x \in Task,
           CancelTask(x) \/ NextStep(x) \/ CompleteTask(x) \/ FailTask(x), NEW t \in Task
    PROVE  state'[t] # "none" <=> state[t] # "none"
<1>1. CASE UNCHANGED state
  BY <1>1
<1>2. CASE ~UNCHANGED state
  <2>1. PICK s \in {"cancelled", "completed", "failed"} :
          Moves(x, s) /\ StartsHighest([state EXCEPT ![x] = s], priority')
    BY <1>2, OthersStartHighest
  <2>2. [state EXCEPT ![x] = s][t] = IF t = x THEN s ELSE state[t]
    BY DEF IInv, Sched
  <2>3. state[x] # "none"
    BY <2>1 DEF Moves
  <2> QED
    BY <2>1, <2>2, <2>3 DEF StartsHighest
<1> QED
  BY <1>1, <1>2

LEMMA BatchStepsAreSteps == BatchInv /\ [BatchNext]_batchVars => [Next]_vars /\ batch' = batch
<1> SUFFICES ASSUME BatchInv, [BatchNext]_batchVars PROVE [Next]_vars /\ batch' = batch
  OBVIOUS
<1>1. CASE SubmitNext
  <2>1. submitted + 1 \in BatchTask
    BY <1>1 DEF SubmitNext, Submitting, BatchTask, BatchInv, BatchTypeOK
  <2>2. NextInOrder \in Task
    BY <2>1, BatchTaskIsTask DEF BatchInv, NextInOrder
  <2> QED
    BY <1>1, <2>2 DEF SubmitNext, Next
<1>2. CASE SubmitBatchTasks
  BY <1>2 DEF SubmitBatchTasks, vars
<1>3. CASE Otherwise
  BY <1>3 DEF Otherwise, Next
<1>4. ASSUME NEW x \in Task, CatchRejected(x) PROVE [Next]_vars /\ batch' = batch
  BY <1>4 DEF CatchRejected, Next
<1>5. CASE UNCHANGED batchVars
  BY <1>5 DEF batchVars, vars
<1> QED
  BY <1>1, <1>2, <1>3, <1>4, <1>5 DEF BatchNext

\* Only tasks reject.
LEMMA RejectionsAreTasks ==
    ASSUME BatchInv, [BatchNext]_batchVars
    PROVE  due' \in SUBSET Task /\ later' \in SUBSET Task
<1>1. due \in SUBSET Task /\ later \in SUBSET Task
  BY DEF BatchInv, BatchTypeOK
<1> QED
  BY <1>1 DEF BatchNext, SubmitBatchTasks, SubmitNext, CatchRejected, Otherwise, batchVars

LEMMA BatchStepKeepsInv == BatchInv /\ [BatchNext]_batchVars => BatchInv'
<1> SUFFICES ASSUME BatchInv, [BatchNext]_batchVars PROVE BatchInv'
  OBVIOUS
<1>1. [Next]_vars /\ batch' = batch
  BY BatchStepsAreSteps
<1>2. IInv /\ IInv'
  BY <1>1, NextKeepsIInv DEF BatchInv
<1>3. /\ BatchTask \subseteq Task /\ BatchTask = 1..Len(batch) /\ BatchTask' = BatchTask
      /\ Len(batch) \in Nat /\ submitted \in {-1} \cup 0..Len(batch)
  BY <1>1, BatchTaskIsTask DEF BatchInv, BatchTask, BatchTypeOK
<1>4. BatchTypeOK' /\ \A n \in BatchTask : state'[n] # "none" <=> n <= submitted'
  <2>0. \A n \in BatchTask : state[n] # "none" <=> n <= submitted
    BY DEF BatchInv
  <2>a. batch' \in Seq(Scheduler!AgentTask)
    BY <1>1 DEF BatchInv, BatchTypeOK
  <2>b. due' \in SUBSET Task /\ later' \in SUBSET Task
    BY RejectionsAreTasks
  <2>1. CASE SubmitNext
    <3>1. PICK p \in Priorities : SubmitTask(submitted + 1, p)
      BY <2>1 DEF SubmitNext, NextInOrder
    <3>2. submitted + 1 \in BatchTask /\ submitted' = submitted + 1
      BY <1>3, <2>1 DEF SubmitNext, Submitting
    <3>3. \A n \in BatchTask : state'[n] # "none" <=> state[n] # "none" \/ n = submitted + 1
      BY <1>2, <1>3, <3>1, <3>2, SubmissionMakesKnown
    <3> QED
      BY <1>1, <1>3, <2>0, <2>a, <2>b, <3>2, <3>3 DEF BatchTypeOK
  <2>2. CASE SubmitBatchTasks
    BY <1>1, <1>3, <2>0, <2>a, <2>b, <2>2 DEF SubmitBatchTasks, BatchTypeOK, vars
  <2>3. CASE Otherwise
    <3>1. \A n \in BatchTask : state'[n] # "none" <=> state[n] # "none"
      <4>1. ASSUME NEW x \in Task \ BatchTask, NEW p \in Priorities, SubmitTask(x, p),
                   NEW n \in BatchTask
            PROVE  state'[n] # "none" <=> state[n] # "none"
        BY <1>2, <1>3, <4>1, SubmissionMakesKnown
      <4>2. ASSUME NEW x \in Task, NEW n \in BatchTask,
                   CancelTask(x) \/ NextStep(x) \/ CompleteTask(x) \/ FailTask(x)
            PROVE  state'[n] # "none" <=> state[n] # "none"
        BY <1>2, <1>3, <4>2, OthersMakeNoneKnown
      <4> QED
        BY <2>3, <4>1, <4>2 DEF Otherwise
    <3> QED
      BY <1>1, <2>0, <2>3, <2>a, <2>b, <3>1 DEF Otherwise, BatchTypeOK, BatchInv
  <2>4. ASSUME NEW x \in Task, CatchRejected(x)
        PROVE  BatchTypeOK' /\ \A n \in BatchTask : state'[n] # "none" <=> n <= submitted'
    <3>1. \A n \in BatchTask : state'[n] # "none" <=> state[n] # "none"
      BY <1>2, <1>3, <2>4, OthersMakeNoneKnown DEF CatchRejected
    <3> QED
      BY <1>1, <2>0, <2>4, <2>a, <2>b, <3>1 DEF CatchRejected, BatchTypeOK, BatchInv
  <2>5. CASE UNCHANGED batchVars
    BY <1>1, <2>0, <2>5, <2>a, <2>b DEF batchVars, BatchTypeOK, BatchInv, vars
  <2> QED
    BY <2>1, <2>2, <2>3, <2>4, <2>5 DEF BatchNext
<1>5. ASSUME NEW m \in BatchTask, NEW n \in BatchTask, m < n PROVE Behind(m, n)'
  <2>1. m \in Task /\ n \in Task /\ m \in Nat /\ n \in Nat
    BY <1>3
  <2>2. state'[n] # "none" => state[m] # "none"
    <3>1. n <= submitted' => m <= submitted
      <4>1. submitted' = submitted \/ submitted' = submitted + 1
        BY DEF BatchNext, SubmitBatchTasks, SubmitNext, CatchRejected, Otherwise, batchVars
      <4> QED
        BY <1>3, <1>5, <2>1, <4>1
    <3> QED
      BY <1>4, <3>1 DEF BatchInv
  <2> QED
    BY <1>1, <1>2, <1>5, <2>1, <2>2, StepsKeepBehind DEF BatchInv
<1> QED
  BY <1>1, <1>2, <1>3, <1>4, <1>5 DEF BatchInv

LEMMA BatchInvariance == BatchSpec => []BatchInv
<1> QED
  BY BatchInvInit, BatchStepKeepsInv, PTL DEF BatchSpec

\* A batch keeps its type, and is submitted task by task.
THEOREM BatchTypeCorrect == BatchSpec => []BatchTypeOK
<1>1. BatchInv => BatchTypeOK
  BY DEF BatchInv
<1> QED
  BY <1>1, BatchInvariance, PTL

\* While a task the batch put first waits, none that depends on it and is no more urgent
\* executes: the order of the dependencies, of the submissions and of the queue agree, also
\* when executions that reject at once are caught, and start others, between two submissions.
THEOREM DependenciesStart == BatchSpec => []DependenciesStartFirst
<1>1. BatchInv => DependenciesStartFirst
  <2> SUFFICES ASSUME BatchInv, NEW n \in BatchTask, step[n] > 0,
                      NEW m \in Scheduler!Dependencies(n),
                      Effective(priority[n]) <= Effective(priority[m])
               PROVE  state[m] # "pending"
    BY DEF DependenciesStartFirst
  <2>1. m \in BatchTask /\ m < n
    BY DEF Scheduler!Dependencies, Scheduler!NodesBefore, Scheduler!Nodes, BatchTask
  <2>2. state[n] \in {"running", "cancelled"}
    <3>1. n \in Task
      BY BatchTaskIsTask DEF BatchInv
    <3> QED
      BY <3>1 DEF BatchInv, IInv, Sched
  <2> QED
    BY <2>1, <2>2 DEF BatchInv, Behind
<1> QED
  BY <1>1, BatchInvariance, PTL

\* What happens while a batch is submitted is what single submissions could bring about:
\* all that holds of the orchestrator holds with batches too.
THEOREM BatchesAreSubmissions == BatchSpec => Spec
<1>1. BatchInit => Init
  BY DEF BatchInit
<1>2. BatchInv /\ [BatchNext]_batchVars => [Next]_vars
  BY BatchStepsAreSteps
<1> QED
  BY <1>1, <1>2, BatchInvariance, PTL DEF BatchSpec, Spec

\* Also between two tasks of a batch the slots are the running tasks.
THEOREM BatchSlotsAgree == BatchSpec => []SlotsAreRunningTasks
<1> QED
  BY BatchesAreSubmissions, SlotsAgree, PTL

\* The schedule of batches, cancels and single tasks is one of the abstract scheduler's.
THEOREM BatchRefinement == BatchSpec => ImplementsScheduler
<1> QED
  BY BatchesAreSubmissions, Refinement, PTL
=============================================================================
