------------------------- MODULE EventHistoryProofs -------------------------
(***************************************************************************)
(* Proofs about EventHistory, for any threads, paths, patterns, values and *)
(* bounds.  The argument: the newest event of a leaf only ever gets newer  *)
(* (SinkIsSorted, TrimKeepsTheNewest), what wakes a sleeper is on a path   *)
(* its pattern finds (PathProofs), so there is then, on that path, an      *)
(* event later than the sleeper's moment, and the second lookup of sync    *)
(* cannot come back empty.  That EventHistory keeps what the Time State    *)
(* promises, and that a sleeping sync misses only what passed it in the    *)
(* gap between its first lookup and its matcher, unless the clean-up of    *)
(* another thread takes its matcher, takes one more fact: an event is      *)
(* filed under its own path and its id is that of one insertion.           *)
(***************************************************************************)
EXTENDS EventHistory, PathProofs, FiniteSetTheorems

-----------------------------------------------------------------------------
(* Patterns.                                                               *)

\* What wakes a sync on a plain pattern is on a path that the pattern finds.
LEMMA WakesAreFound ==
  ASSUME NEW pat \in Patterns
  PROVE  /\ Finds[pat] \subseteq Paths
         /\ Plain(pat) => Wakes[pat] \subseteq Finds[pat]
<1>1. pat \in Seq(Segments) /\ \A p \in Paths : p \in Seq(Names) /\ p # <<>>
  BY PatternsAssumption, AskedAssumption DEF ProperPath
<1> QED BY <1>1, MatchedIsDescribed DEF Finds, Wakes

-----------------------------------------------------------------------------
(* Least and greatest elements.                                            *)

\* Every non-empty set of naturals has a least element, and Min is it.
LEMMA MinIsLeast ==
  ASSUME NEW S \in SUBSET Nat, S # {}
  PROVE  Min(S) \in S /\ \A x \in S : Min(S) <= x
<1>1. PICK m \in S : \A y \in S : ~ (<<y, m>> \in OpToRel(<, Nat))
  BY NatLessThanWellFounded, WFMin, Zenon
<1>2. \A y \in S : ~ (y < m)
  BY <1>1, Zenon DEF OpToRel
<1>3. m \in S /\ \A y \in S : m <= y
  BY <1>2, SMT
<1> QED BY <1>3, Zenon DEF Min

\* Every non-empty set of naturals with an upper bound has a greatest element,
\* and Max is it.
LEMMA MaxIsGreatest ==
  ASSUME NEW n \in Nat, NEW S \in SUBSET (0 .. n), S # {}
  PROVE  Max(S) \in S /\ \A x \in S : x <= Max(S)
<1> DEFINE D == {n - x : x \in S}
<1>1. D \in SUBSET Nat /\ D # {}
  <2>1. \A x \in S : n - x \in Nat
    OBVIOUS
  <2>2. PICK x \in S : TRUE
    OBVIOUS
  <2>3. n - x \in D
    BY <2>2
  <2> QED BY <2>1, <2>3
<1>2. Min(D) \in D /\ \A y \in D : Min(D) <= y
  BY <1>1, MinIsLeast
<1>3. PICK m \in S : Min(D) = n - m
  BY <1>2
<1>4. \A x \in S : n - x \in D
  OBVIOUS
<1> HIDE DEF D
<1>5. \A x \in S : m >= x
  BY <1>2, <1>3, <1>4
<1>6. Max(S) \in S /\ \A x \in S : Max(S) >= x
  BY <1>5, Zenon DEF Max
<1> QED BY <1>6

-----------------------------------------------------------------------------
(* The order of events.                                                    *)

\* Id a comes before id b: they part after n elements, where a is over or has the
\* smaller one.
SplitsAt(a, b, n) ==
  /\ n <= Len(a) /\ n < Len(b)
  /\ \A j \in 1 .. n : a[j] = b[j]
  /\ n = Len(a) \/ a[n + 1] < b[n + 1]

IdBefore(a, b) == \E n \in Nat : SplitsAt(a, b, n)

LEMMA OneWay ==
  ASSUME NEW a \in Seq(Int), NEW b \in Seq(Int), IdBefore(a, b)
  PROVE  ~IdBefore(b, a) /\ a # b
<1>1. PICK n \in Nat : SplitsAt(a, b, n)
  BY DEF IdBefore
<1>2. /\ Len(a) \in Nat /\ Len(b) \in Nat
      /\ \A i \in 1 .. Len(a) : a[i] \in Int
      /\ \A i \in 1 .. Len(b) : b[i] \in Int
  OBVIOUS
<1>3. ASSUME NEW m \in Nat, SplitsAt(b, a, m) PROVE FALSE
  <2>1. CASE n < m
    <3>1. n + 1 \in 1 .. m /\ n + 1 \in 1 .. Len(a) /\ n + 1 \in 1 .. Len(b) /\ n # Len(a)
      BY <1>1, <1>2, <1>3, <2>1 DEF SplitsAt
    <3> QED BY <1>1, <1>2, <1>3, <3>1 DEF SplitsAt
  <2>2. CASE m < n
    <3>1. m + 1 \in 1 .. n /\ m + 1 \in 1 .. Len(a) /\ m + 1 \in 1 .. Len(b) /\ m # Len(b)
      BY <1>1, <1>2, <1>3, <2>2 DEF SplitsAt
    <3> QED BY <1>1, <1>2, <1>3, <3>1 DEF SplitsAt
  <2>3. CASE m = n
    <3>1. n + 1 \in 1 .. Len(a) /\ n + 1 \in 1 .. Len(b) /\ n # Len(a) /\ n # Len(b)
      BY <1>1, <1>2, <1>3, <2>3 DEF SplitsAt
    <3> QED BY <1>1, <1>2, <1>3, <2>3, <3>1 DEF SplitsAt
  <2> QED BY <1>3, <2>1, <2>2, <2>3
<1>4. a # b
  BY <1>1, <1>2, <1>3
<1> QED BY <1>3, <1>4 DEF IdBefore

LEMMA IdsGoOn ==
  ASSUME NEW a \in Seq(Int), NEW b \in Seq(Int), NEW c \in Seq(Int),
         IdBefore(a, b), IdBefore(b, c)
  PROVE  IdBefore(a, c)
<1>1. PICK n \in Nat : SplitsAt(a, b, n)
  BY DEF IdBefore
<1>2. PICK m \in Nat : SplitsAt(b, c, m)
  BY DEF IdBefore
<1>3. /\ Len(a) \in Nat /\ Len(b) \in Nat /\ Len(c) \in Nat
      /\ \A i \in 1 .. Len(a) : a[i] \in Int
      /\ \A i \in 1 .. Len(b) : b[i] \in Int
      /\ \A i \in 1 .. Len(c) : c[i] \in Int
  OBVIOUS
<1>4. CASE n < m
  <2>1. n + 1 \in 1 .. m /\ \A j \in 1 .. n : j \in 1 .. m
    BY <1>4
  <2>2. \A j \in 1 .. n : a[j] = c[j]
    BY <1>1, <1>2, <2>1 DEF SplitsAt
  <2>3. n <= Len(a) /\ n < Len(c)
    BY <1>1, <1>2, <1>3, <1>4 DEF SplitsAt
  <2>4. n = Len(a) \/ a[n + 1] < c[n + 1]
    BY <1>1, <1>2, <2>1 DEF SplitsAt
  <2> QED BY <2>2, <2>3, <2>4 DEF SplitsAt, IdBefore
<1>5. CASE m < n
  <2>1. m + 1 \in 1 .. n /\ \A j \in 1 .. m : j \in 1 .. n
    BY <1>5
  <2>2. m # Len(b) /\ m <= Len(a) /\ m < Len(c)
    BY <1>1, <1>2, <1>3, <1>5 DEF SplitsAt
  <2>3. \A j \in 1 .. m : a[j] = c[j]
    BY <1>1, <1>2, <2>1 DEF SplitsAt
  <2>4. a[m + 1] < c[m + 1]
    BY <1>1, <1>2, <2>1, <2>2 DEF SplitsAt
  <2> QED BY <2>2, <2>3, <2>4 DEF SplitsAt, IdBefore
<1>6. CASE m = n
  <2>1. n # Len(b)
    BY <1>1, <1>3 DEF SplitsAt
  <2>2. n # Len(a) => n + 1 \in 1 .. Len(a) /\ n + 1 \in 1 .. Len(b) /\ n + 1 \in 1 .. Len(c)
    BY <1>1, <1>2, <1>3, <1>6 DEF SplitsAt
  <2>3. SplitsAt(a, c, n)
    BY <1>1, <1>2, <1>3, <1>6, <2>1, <2>2 DEF SplitsAt
  <2> QED BY <2>3 DEF IdBefore
<1> QED BY <1>4, <1>5, <1>6

\* What the loop over the elements of a returns, and what is returned after it.
LEMMA IdsCompared ==
  ASSUME NEW a \in Seq(Int), NEW b \in Seq(Int)
  PROVE  \/ CompareIds(a, b) = -1 /\ IdBefore(a, b)
         \/ CompareIds(a, b) = 0 /\ a = b
         \/ CompareIds(a, b) = 1 /\ IdBefore(b, a)
<1> DEFINE P == Parts(a, b)
<1>1. /\ Len(a) \in Nat /\ Len(b) \in Nat
      /\ \A i \in 1 .. Len(a) : a[i] \in Int
      /\ \A i \in 1 .. Len(b) : b[i] \in Int
      /\ \A i : i \in P <=> i \in 1 .. Len(a) /\ (i > Len(b) \/ a[i] # b[i])
  BY DEF Parts
<1> HIDE DEF P
<1>2. CASE P = {}
  <2>1. Len(a) <= Len(b) /\ \A j \in 1 .. Len(a) : a[j] = b[j]
    <3>1. ASSUME Len(b) < Len(a) PROVE FALSE
      <4>1. Len(a) \in 1 .. Len(a) /\ Len(a) > Len(b)
        BY <1>1, <3>1
      <4> QED BY <1>1, <1>2, <4>1
    <3> QED BY <1>1, <1>2, <3>1
  <2>2. CASE Len(b) > Len(a)
    <3>1. SplitsAt(a, b, Len(a))
      BY <1>1, <2>1, <2>2 DEF SplitsAt
    <3>2. CompareIds(a, b) = -1
      BY <1>2, <2>2 DEF CompareIds, P
    <3> QED BY <1>1, <3>1, <3>2 DEF IdBefore
  <2>3. CASE ~(Len(b) > Len(a))
    <3>1. Len(a) = Len(b)
      BY <1>1, <2>1, <2>3
    <3>2. a = b
      BY <2>1, <3>1
    <3>3. CompareIds(a, b) = 0
      BY <1>2, <2>3 DEF CompareIds, P
    <3> QED BY <3>2, <3>3
  <2> QED BY <2>2, <2>3
<1>3. CASE P # {}
  <2> DEFINE i == Min(P)
  <2>1. i \in P /\ \A j \in P : i <= j
    <3>1. P \in SUBSET Nat
      BY <1>1
    <3> QED BY <1>3, <3>1, MinIsLeast
  <2>2. CompareIds(a, b) = IF i > Len(b) THEN 1 ELSE Sign(a[i], b[i])
    BY <1>3 DEF CompareIds, P
  <2> HIDE DEF i
  <2>3. i \in 1 .. Len(a) /\ i - 1 \in Nat
    BY <1>1, <2>1
  <2>4. \A j \in 1 .. i - 1 : j <= Len(b) /\ a[j] = b[j]
    <3>1. ASSUME NEW j \in 1 .. i - 1 PROVE j \notin P /\ j \in 1 .. Len(a)
      BY <1>1, <2>1, <2>3
    <3> QED BY <1>1, <3>1
  <2>5. i - 1 <= Len(b)
    <3>1. i - 1 = 0 \/ i - 1 \in 1 .. i - 1
      BY <2>3
    <3> QED BY <1>1, <2>4, <3>1
  <2>6. CASE i > Len(b)
    <3>1. i - 1 = Len(b)
      BY <1>1, <2>3, <2>5, <2>6
    <3>2. SplitsAt(b, a, i - 1)
      BY <1>1, <2>3, <2>4, <3>1 DEF SplitsAt
    <3> QED BY <2>2, <2>3, <2>6, <3>2 DEF IdBefore
  <2>7. CASE ~(i > Len(b))
    <3>1. i \in 1 .. Len(b) /\ a[i] # b[i] /\ a[i] \in Int /\ b[i] \in Int
      BY <1>1, <2>1, <2>3, <2>7
    <3>2. i - 1 + 1 = i /\ i - 1 < Len(a) /\ i - 1 < Len(b)
      BY <1>1, <2>3, <3>1
    <3>3. CASE a[i] < b[i]
      <4>1. SplitsAt(a, b, i - 1)
        BY <1>1, <2>3, <2>4, <3>2, <3>3 DEF SplitsAt
      <4>2. CompareIds(a, b) = -1
        BY <2>2, <2>7, <3>1, <3>3 DEF Sign
      <4> QED BY <2>3, <4>1, <4>2 DEF IdBefore
    <3>4. CASE b[i] < a[i]
      <4>1. SplitsAt(b, a, i - 1)
        BY <1>1, <2>3, <2>4, <3>2, <3>4 DEF SplitsAt
      <4>2. CompareIds(a, b) = 1
        BY <2>2, <2>7, <3>1, <3>4 DEF Sign
      <4> QED BY <2>3, <4>1, <4>2 DEF IdBefore
    <3> QED BY <3>1, <3>3, <3>4
  <2> QED BY <2>6, <2>7
<1> QED BY <1>2, <1>3

LEMMA IdsAreOrdered ==
  ASSUME NEW a \in Seq(Int), NEW b \in Seq(Int), NEW c \in Seq(Int)
  PROVE  /\ CompareIds(a, b) \in {-1, 0, 1}
         /\ CompareIds(b, a) = -CompareIds(a, b)
         /\ CompareIds(a, b) = 0 <=> a = b
         /\ CompareIds(a, b) = -1 /\ CompareIds(b, c) = -1 => CompareIds(a, c) = -1
<1>1. ASSUME NEW x \in Seq(Int), NEW y \in Seq(Int)
      PROVE  /\ CompareIds(x, y) \in {-1, 0, 1}
             /\ CompareIds(x, y) = -1 <=> IdBefore(x, y)
             /\ CompareIds(x, y) = 1 <=> IdBefore(y, x)
             /\ CompareIds(x, y) = 0 <=> x = y
  BY <1>1, IdsCompared, OneWay
<1>2. CompareIds(b, a) = -CompareIds(a, b)
  BY <1>1
<1>3. CompareIds(a, b) = -1 /\ CompareIds(b, c) = -1 => CompareIds(a, c) = -1
  BY <1>1, IdsGoOn
<1> QED BY <1>1, <1>2, <1>3

LEMMA KeyIsItsParts ==
  ASSUME NEW x \in CueKeys
  PROVE  x = [time |-> x.time, priority |-> x.priority, thread |-> x.thread, delta |-> x.delta]
BY DEF CueKeys

\* CueEvent's <=> is a total order of what it compares: of two different keys one
\* comes first, whichever is asked, and the order goes on from the second to a third.
\* ThreadId's loop, which looks at one of its two ids only, does not spoil it.
THEOREM KeysAreOrdered ==
  ASSUME NEW k \in CueKeys, NEW l \in CueKeys, NEW m \in CueKeys
  PROVE  /\ Compare(k, l) \in {-1, 0, 1}
         /\ Compare(l, k) = -Compare(k, l)
         /\ Compare(k, l) = 0 <=> k = l
         /\ Compare(k, l) = -1 /\ Compare(l, m) = -1 => Compare(k, m) = -1
<1>1. ASSUME NEW x \in CueKeys
      PROVE  x.time \in Int /\ x.priority \in Int /\ x.thread \in Seq(Int) /\ x.delta \in Int
  BY DEF CueKeys
<1>2. ASSUME NEW x \in CueKeys, NEW y \in CueKeys, x.time = y.time, x.priority = y.priority,
             x.thread = y.thread, x.delta = y.delta
      PROVE  x = y
  BY <1>2, KeyIsItsParts
<1>3. \A x \in Int, y \in Int : /\ x < y => Sign(x, y) = -1
                                /\ x > y => Sign(x, y) = 1
                                /\ x = y => Sign(x, y) = 0
  BY DEF Sign
<1> DEFINE ById(x, y) == CompareIds(x.thread, y.thread)
           Less(x, y) == \/ x.time < y.time
                         \/ /\ x.time = y.time
                            /\ \/ x.priority < y.priority
                               \/ /\ x.priority = y.priority
                                  /\ \/ ById(x, y) = -1
                                     \/ ById(x, y) = 0 /\ x.delta < y.delta
<1>4. ASSUME NEW x \in CueKeys, NEW y \in CueKeys
      PROVE  /\ ById(x, y) \in {-1, 0, 1} /\ ById(y, x) = -ById(x, y)
             /\ ById(x, y) = 0 <=> x.thread = y.thread
  BY <1>1, IdsAreOrdered
<1>5. ById(k, l) = -1 /\ ById(l, m) = -1 => ById(k, m) = -1
  BY <1>1, IdsAreOrdered
<1>6. ASSUME NEW x \in CueKeys, NEW y \in CueKeys
      PROVE  \/ Compare(x, y) = -1 /\ Less(x, y) /\ ~Less(y, x)
             \/ Compare(x, y) = 0 /\ x = y /\ ~Less(x, y) /\ ~Less(y, x)
             \/ Compare(x, y) = 1 /\ Less(y, x) /\ ~Less(x, y)
  <2>1. /\ x.time \in Int /\ y.time \in Int /\ x.priority \in Int /\ y.priority \in Int
        /\ x.delta \in Int /\ y.delta \in Int
    BY <1>1
  <2>2. CASE x.time # y.time
    BY <1>3, <2>1, <2>2 DEF Compare
  <2>3. CASE x.time = y.time /\ x.priority # y.priority
    BY <1>3, <2>1, <2>3 DEF Compare
  <2>4. CASE x.time = y.time /\ x.priority = y.priority
    <3>1. /\ ById(x, y) \in {-1, 0, 1} /\ ById(y, x) = -ById(x, y)
          /\ ById(x, y) = 0 <=> x.thread = y.thread
      BY <1>4
    <3>2. Compare(x, y) = IF ById(x, y) # 0 THEN ById(x, y) ELSE Sign(x.delta, y.delta)
      BY <2>4 DEF Compare
    <3>3. x = y => x.delta = y.delta /\ x.thread = y.thread
      OBVIOUS
    <3>4. x.delta = y.delta /\ x.thread = y.thread => x = y
      BY <1>2, <2>4
    <3> HIDE DEF ById
    <3> QED BY <1>3, <2>1, <2>4, <3>1, <3>2, <3>4
  <2> QED BY <2>1, <2>2, <2>3, <2>4
<1>7. Less(k, l) /\ Less(l, m) => Less(k, m)
  <2>1. ById(k, l) = 0 => ById(k, m) = ById(l, m)
    BY <1>4
  <2>2. ById(l, m) = 0 => ById(k, m) = ById(k, l)
    BY <1>4
  <2>3. /\ k.time \in Int /\ l.time \in Int /\ m.time \in Int
        /\ k.priority \in Int /\ l.priority \in Int /\ m.priority \in Int
        /\ k.delta \in Int /\ l.delta \in Int /\ m.delta \in Int
    BY <1>1
  <2> HIDE DEF ById
  <2> QED BY <1>5, <2>1, <2>2, <2>3
<1> HIDE DEF Less, ById
<1>8. ASSUME NEW x \in CueKeys PROVE Compare(x, x) = 0
  BY <1>6
<1>9. Compare(k, l) \in {-1, 0, 1} /\ (Compare(k, l) = 0 <=> k = l)
  BY <1>6, <1>8
<1>10. Compare(l, k) = -Compare(k, l)
  BY <1>6
<1>11. Compare(k, l) = -1 /\ Compare(l, m) = -1 => Compare(k, m) = -1
  BY <1>6, <1>7
<1> QED BY <1>9, <1>10, <1>11

\* At one time and priority, what a thread does comes before what an in_thread of it
\* does, and an in_thread before those spawned after it, whatever each has done before.
THEOREM ParentsComeFirst ==
  ASSUME NEW a \in Seq(Int), NEW n \in Int, NEW m \in Int
  PROVE  /\ CompareIds(a, Append(a, n)) = -1
         /\ n < m => CompareIds(Append(a, n), Append(a, m)) = -1
<1>1. /\ Len(a) \in Nat
      /\ \A x \in Int : /\ Append(a, x) \in Seq(Int) /\ Len(Append(a, x)) = Len(a) + 1
                        /\ \A j \in 1 .. Len(a) : Append(a, x)[j] = a[j]
                        /\ Append(a, x)[Len(a) + 1] = x
  OBVIOUS
<1>2. IdBefore(a, Append(a, n))
  <2>1. SplitsAt(a, Append(a, n), Len(a))
    BY <1>1 DEF SplitsAt
  <2> QED BY <1>1, <2>1 DEF IdBefore
<1>3. ASSUME n < m PROVE IdBefore(Append(a, n), Append(a, m))
  <2>1. SplitsAt(Append(a, n), Append(a, m), Len(a))
    BY <1>1, <1>3 DEF SplitsAt
  <2> QED BY <1>1, <2>1 DEF IdBefore
<1> QED BY <1>1, <1>2, <1>3, IdsCompared, OneWay

\* The keys of all the events of a history can be numbered in their order: a moment
\* can be a natural number.
THEOREM MomentsExist ==
  ASSUME NEW K \in SUBSET CueKeys, IsFiniteSet(K)
  PROVE  \E key \in [1 .. Cardinality(K) -> K] :
           /\ \A k \in K : \E r \in 1 .. Cardinality(K) : key[r] = k
           /\ \A r, s \in 1 .. Cardinality(K) : r < s => Compare(key[r], key[s]) = -1
<1> DEFINE n == Cardinality(K)
           Under(k) == {l \in K : Compare(l, k) = -1}
           rank == [k \in K |-> Cardinality(Under(k)) + 1]
<1>1. n \in Nat
  BY FS_CardinalityType
<1>2. ASSUME NEW k \in K
      PROVE  /\ k \in CueKeys /\ k \notin Under(k) /\ IsFiniteSet(Under(k))
             /\ Cardinality(Under(k)) \in Nat /\ Cardinality(Under(k)) < n
  <2>1. k \in CueKeys /\ k \notin Under(k)
    BY KeysAreOrdered
  <2>2. Under(k) \in SUBSET K /\ Under(k) # K
    BY <2>1
  <2>3. /\ IsFiniteSet(Under(k)) /\ Cardinality(Under(k)) <= n
        /\ n = Cardinality(Under(k)) => K = Under(k)
    BY <2>2, FS_Subset
  <2>4. Cardinality(Under(k)) \in Nat
    BY <2>3, FS_CardinalityType
  <2> HIDE DEF Under, n
  <2> QED BY <1>1, <2>1, <2>2, <2>3, <2>4
<1>3. ASSUME NEW k \in K, NEW l \in K, Compare(k, l) = -1
      PROVE  Cardinality(Under(k)) < Cardinality(Under(l))
  <2>1. Under(k) \in SUBSET Under(l)
    BY <1>2, <1>3, KeysAreOrdered
  <2>2. Under(k) # Under(l)
    BY <1>2, <1>3
  <2>3. IsFiniteSet(Under(l))
    BY <1>2
  <2>4. /\ Cardinality(Under(k)) <= Cardinality(Under(l))
        /\ Cardinality(Under(l)) = Cardinality(Under(k)) => Under(l) = Under(k)
    BY <2>1, <2>3, FS_Subset
  <2> HIDE DEF Under
  <2> QED BY <1>2, <2>2, <2>4
<1>4. \A k \in K : rank[k] \in 1 .. n /\ rank[k] = Cardinality(Under(k)) + 1
  <2>1. \A k \in K : rank[k] = Cardinality(Under(k)) + 1
    OBVIOUS
  <2> HIDE DEF rank, Under, n
  <2> QED BY <1>1, <1>2, <2>1
<1>5. \A k, l \in K : Compare(k, l) = -1 => rank[k] < rank[l]
  <2> HIDE DEF rank, Under, n
  <2> QED BY <1>2, <1>3, <1>4
<1>6. \A k, l \in K : k # l => Compare(k, l) = -1 \/ Compare(l, k) = -1
  BY <1>2, KeysAreOrdered
<1>7. \A k, l \in K : k # l => rank[k] # rank[l]
  <2> HIDE DEF rank, Under
  <2> QED BY <1>4, <1>5, <1>6
<1>8. rank \in Surjection(K, 1 .. n)
  <2>1. rank \in [K -> 1 .. n]
    <3> HIDE DEF n
    <3> QED BY <1>4
  <2>2. rank \in Injection(K, 1 .. n)
    <3> HIDE DEF rank, Under, n
    <3> QED BY <1>7, <2>1 DEF Injection, IsInjective
  <2>3. IsFiniteSet(1 .. n) /\ Cardinality(1 .. n) = n
    <3> HIDE DEF n
    <3>1. 1 \in Int /\ n \in Int
      BY <1>1
    <3> QED BY <1>1, <3>1, FS_Interval
  <2> HIDE DEF rank, Under
  <2> QED BY <2>2, <2>3, FS_Injection
<1>9. \A r \in 1 .. n : \E k \in K : rank[k] = r
  <2> HIDE DEF rank, Under, n
  <2> QED BY <1>8 DEF Surjection
<1> DEFINE key == [r \in 1 .. n |-> CHOOSE k \in K : rank[k] = r]
<1> HIDE DEF rank, Under, n
<1>10. \A r \in 1 .. n : key[r] \in K /\ rank[key[r]] = r
  BY <1>9
<1>11. key \in [1 .. n -> K]
  BY <1>10
<1>12. \A k \in K : \E r \in 1 .. n : key[r] = k
  <2>1. ASSUME NEW k \in K PROVE key[rank[k]] = k /\ rank[k] \in 1 .. n
    BY <1>4, <1>7, <1>10
  <2> QED BY <2>1
<1>13. ASSUME NEW r \in 1 .. n, NEW s \in 1 .. n, r < s
       PROVE  Compare(key[r], key[s]) = -1
  <2>1. key[r] \in K /\ key[s] \in K /\ rank[key[r]] = r /\ rank[key[s]] = s
    BY <1>10
  <2>2. key[r] # key[s] /\ ~(s < r)
    BY <1>13, <2>1
  <2> QED BY <1>5, <1>6, <2>1, <2>2
<1> HIDE DEF key
<1> QED BY <1>11, <1>12, <1>13 DEF n

-----------------------------------------------------------------------------
(* One leaf.                                                               *)

\* What an event is made of.
LEMMA EventFields ==
  ASSUME NEW e \in Event
  PROVE  e.at \in Nat /\ e.at >= 1 /\ e.at <= MaxRank /\ e.val \in Vals /\ e.path \in Paths
<1>1. e.at \in 1 .. MaxRank /\ e.val \in Vals /\ e.path \in Paths
  BY DEF Event, Ranks
<1> QED BY <1>1, BoundsAssumption

\* The elements of a leaf are events.
LEMMA LeafFields ==
  ASSUME NEW evs \in Seq(Event), NEW i \in 1 .. Len(evs)
  PROVE  evs[i] \in Event /\ evs[i].at \in Nat /\ evs[i].val \in Vals
<1>1. evs[i] \in Event
  OBVIOUS
<1> QED BY <1>1, EventFields

\* The index of find_index splits a list: what is before it is later than r.
LEMMA FirstUpToSplits ==
  ASSUME NEW evs \in Seq(Event), NEW r \in Nat
  PROVE  /\ FirstUpTo(evs, r) \in 1 .. Len(evs) + 1
         /\ \A i \in 1 .. Len(evs) : i < FirstUpTo(evs, r) => evs[i].at > r
         /\ FirstUpTo(evs, r) <= Len(evs) => evs[FirstUpTo(evs, r)].at <= r
<1> DEFINE S == {i \in 1 .. Len(evs) : evs[i].at <= r} \cup {Len(evs) + 1}
<1>1. S \in SUBSET Nat /\ S # {}
  <2>1. Len(evs) + 1 \in S /\ Len(evs) \in Nat
    OBVIOUS
  <2>2. \A x \in S : x \in 1 .. Len(evs) + 1
    BY <2>1
  <2> QED BY <2>1, <2>2
<1>2. Min(S) \in S /\ \A x \in S : Min(S) <= x
  BY <1>1, MinIsLeast
<1>3. FirstUpTo(evs, r) = Min(S)
  BY DEF FirstUpTo
<1>4. \A i \in 1 .. Len(evs) : evs[i].at \in Nat
  BY LeafFields
<1> HIDE DEF S
<1>5. Min(S) \in 1 .. Len(evs) + 1
  BY <1>2 DEF S
<1>6. \A i \in 1 .. Len(evs) : i < Min(S) => evs[i].at > r
  BY <1>2, <1>4, <1>5 DEF S
<1>7. Min(S) <= Len(evs) => evs[Min(S)].at <= r
  BY <1>2 DEF S
<1> QED BY <1>3, <1>5, <1>6, <1>7

\* unshift and bubble_up_sort!: the events before the inserted one keep their
\* places, those behind it move down by one.
LEMMA SinkPlaces ==
  ASSUME NEW evs \in Seq(Event), NEW e \in Event
  PROVE  LET i == FirstUpTo(evs, e.at)
             s == Sink(evs, e)
         IN  /\ i \in 1 .. Len(evs) + 1
             /\ s \in Seq(Event) /\ Len(s) = Len(evs) + 1
             /\ \A j \in 1 .. i - 1 : s[j] = evs[j]
             /\ s[i] = e
             /\ \A j \in i + 1 .. Len(s) : s[j] = evs[j - 1]
<1> DEFINE i == FirstUpTo(evs, e.at)
           L == SubSeq(evs, 1, i - 1)
           R == SubSeq(evs, i, Len(evs))
           s == Sink(evs, e)
<1>1. i \in 1 .. Len(evs) + 1
  <2>1. e.at \in Nat
    BY EventFields
  <2> QED BY <2>1, FirstUpToSplits
<1>2. s = L \o <<e>> \o R
  BY DEF Sink
<1> HIDE DEF i, s
<1>3. /\ L \in Seq(Event) /\ Len(L) = i - 1 /\ \A j \in 1 .. i - 1 : L[j] = evs[j]
  BY <1>1, SubSeqProperties
<1>4. /\ R \in Seq(Event) /\ Len(R) = Len(evs) - i + 1
      /\ \A j \in 1 .. Len(evs) - i + 1 : R[j] = evs[i + j - 1]
  BY <1>1, SubSeqProperties
<1> HIDE DEF L, R
<1>5. /\ s \in Seq(Event) /\ Len(s) = Len(evs) + 1
      /\ \A j \in 1 .. i - 1 : s[j] = evs[j]
      /\ s[i] = e
      /\ \A j \in i + 1 .. Len(s) : s[j] = evs[j - 1]
  <2>1. /\ L \o <<e>> \in Seq(Event) /\ Len(L \o <<e>>) = i
        /\ \A j \in 1 .. i - 1 : (L \o <<e>>)[j] = evs[j]
        /\ (L \o <<e>>)[i] = e
    BY <1>1, <1>3
  <2>2. s \in Seq(Event) /\ Len(s) = Len(evs) + 1
    <3>1. s \in Seq(Event) /\ Len(s) = Len(L \o <<e>>) + Len(R)
      BY <1>2, <1>4, <2>1, ConcatProperties, Zenon
    <3>2. Len(L \o <<e>>) = i /\ Len(R) = Len(evs) - i + 1
      BY <1>4, <2>1
    <3>3. i \in Nat /\ Len(evs) \in Nat
      BY <1>1
    <3> QED BY <3>1, <3>2, <3>3
  <2>3. \A j \in 1 .. Len(s) :
          s[j] = IF j <= i THEN (L \o <<e>>)[j] ELSE R[j - i]
    BY <1>1, <1>2, <1>4, <2>1, <2>2
  <2>4. \A j \in i + 1 .. Len(s) : s[j] = evs[j - 1]
    <3> SUFFICES ASSUME NEW j \in i + 1 .. Len(s) PROVE s[j] = evs[j - 1]
      OBVIOUS
    <3>1. j - i \in 1 .. Len(evs) - i + 1 /\ i + (j - i) - 1 = j - 1
      BY <1>1, <2>2
    <3>2. R[j - i] = evs[i + (j - i) - 1]
      BY <1>4, <3>1
    <3>3. s[j] = R[j - i]
      BY <1>1, <2>2, <2>3
    <3> QED BY <3>1, <3>2, <3>3
  <2>5. ASSUME NEW j \in 1 .. i PROVE s[j] = (L \o <<e>>)[j]
    <3>1. j \in 1 .. Len(s) /\ j <= i
      BY <1>1, <2>2
    <3> QED BY <2>3, <3>1
  <2>6. i \in 1 .. i /\ 1 .. i - 1 \subseteq 1 .. i
    BY <1>1
  <2> QED BY <2>1, <2>2, <2>4, <2>5, <2>6
<1> QED BY <1>1, <1>5 DEF i, s

\* unshift and bubble_up_sort! keep a leaf sorted, and its newest event is not
\* older than before, nor than the inserted one.
LEMMA SinkIsSorted ==
  ASSUME NEW evs \in Seq(Event), Newest(evs), NEW e \in Event
  PROVE  /\ Sink(evs, e) \in Seq(Event)
         /\ Sink(evs, e) # <<>>
         /\ Newest(Sink(evs, e))
         /\ Sink(evs, e)[1].at >= e.at
         /\ evs # <<>> => Sink(evs, e)[1].at >= evs[1].at
<1> DEFINE i == FirstUpTo(evs, e.at)
           s == Sink(evs, e)
<1>0. e.at \in Nat /\ \A j \in 1 .. Len(evs) : evs[j].at \in Nat
  BY LeafFields, EventFields
<1>1. /\ i \in 1 .. Len(evs) + 1
      /\ \A j \in 1 .. Len(evs) : j < i => evs[j].at > e.at
      /\ i <= Len(evs) => evs[i].at <= e.at
  <2>1. e.at \in Nat
    BY <1>0
  <2> QED BY <2>1, FirstUpToSplits
<1>5. /\ s \in Seq(Event) /\ Len(s) = Len(evs) + 1
      /\ \A j \in 1 .. i - 1 : s[j] = evs[j]
      /\ s[i] = e
      /\ \A j \in i + 1 .. Len(s) : s[j] = evs[j - 1]
  BY SinkPlaces
<1> HIDE DEF i, s
<1>6. \A j \in 1 .. Len(s) : /\ j < i => s[j].at > e.at
                             /\ j > i => s[j].at <= e.at
  <2>1. ASSUME NEW j \in 1 .. Len(evs), j >= i PROVE evs[j].at <= e.at
    <3>1. i \in 1 .. Len(evs) /\ evs[i].at \in Nat /\ evs[j].at \in Nat
      BY <1>0, <1>1, <2>1
    <3>2. evs[j].at <= evs[i].at
      BY <2>1, <3>1 DEF Newest
    <3> QED BY <1>0, <1>1, <3>1, <3>2
  <2>2. ASSUME NEW j \in 1 .. Len(s), j > i PROVE s[j].at <= e.at
    <3>1. j - 1 \in 1 .. Len(evs) /\ j - 1 >= i /\ s[j] = evs[j - 1]
      BY <1>1, <1>5, <2>2
    <3> QED BY <2>1, <3>1
  <2>3. ASSUME NEW j \in 1 .. Len(s), j < i PROVE s[j].at > e.at
    <3>1. j \in 1 .. Len(evs) /\ s[j] = evs[j]
      BY <1>1, <1>5, <2>3
    <3> QED BY <1>1, <2>3, <3>1
  <2> QED BY <2>2, <2>3
<1>7. Newest(s)
  <2> SUFFICES ASSUME NEW j \in 1 .. Len(s), NEW k \in 1 .. Len(s), j < k
               PROVE  s[j].at >= s[k].at
    BY <1>5 DEF Newest
  <2>1. CASE k < i
    BY <1>1, <1>5, <2>1, SMTT(20) DEF Newest
  <2>2. CASE j > i
    <3>1. /\ j - 1 \in 1 .. Len(evs) /\ k - 1 \in 1 .. Len(evs) /\ j - 1 < k - 1
          /\ s[j] = evs[j - 1] /\ s[k] = evs[k - 1]
      BY <1>1, <1>5, <2>2
    <3> QED BY <3>1 DEF Newest
  <2>3. CASE j <= i /\ k >= i
    <3>1. s[j].at \in Nat /\ s[k].at \in Nat
      BY <1>5, LeafFields
    <3> QED BY <1>0, <1>1, <1>5, <1>6, <2>3, <3>1
  <2> QED BY <1>1, <2>1, <2>2, <2>3
<1>8. s[1].at >= e.at
  BY <1>0, <1>1, <1>5, <1>6
<1>9. ASSUME evs # <<>> PROVE s[1].at >= evs[1].at
  <2>1. 1 \in 1 .. Len(evs) /\ evs[1].at \in Nat
    BY <1>0, <1>9
  <2>2. CASE i = 1
    BY <1>0, <1>1, <1>5, <2>1, <2>2
  <2>3. CASE i > 1
    BY <1>1, <1>5, <2>1, <2>3
  <2> QED BY <1>1, <2>2, <2>3
<1> QED BY <1>5, <1>7, <1>8, <1>9 DEF s

\* Trimming keeps a front of the list: @min_history_size not being 0, never
\* an empty one.
LEMMA TrimPlaces ==
  ASSUME NEW evs \in Seq(Event), evs # <<>>, NEW h
  PROVE  /\ Trim(evs, h) \in Seq(Event)
         /\ Len(Trim(evs, h)) \in 1 .. Len(evs)
         /\ \A j \in 1 .. Len(Trim(evs, h)) : Trim(evs, h)[j] = evs[j]
<1> DEFINE S == {n \in 0 .. Len(evs) :
                   \/ n = Len(evs)
                   \/ n >= MinHistory /\ \A i \in n + 1 .. Len(evs) : evs[i].at < h}
           size == Min(S)
<1>1. S \in SUBSET Nat /\ S # {}
  <2>1. Len(evs) \in S
    OBVIOUS
  <2> QED BY <2>1
<1>2. size \in S
  BY <1>1, MinIsLeast
<1>3. Len(evs) >= 1
  OBVIOUS
<1>4. size \in 1 .. Len(evs)
  BY <1>2, <1>3, MinHistoryAssumption
<1>5. Trim(evs, h) = SubSeq(evs, 1, size)
  BY DEF Trim
<1> HIDE DEF size
<1>6. /\ SubSeq(evs, 1, size) \in Seq(Event)
      /\ Len(SubSeq(evs, 1, size)) = size
      /\ \A j \in 1 .. size : SubSeq(evs, 1, size)[j] = evs[j]
  BY <1>4, SubSeqProperties
<1> QED BY <1>4, <1>5, <1>6

\* Trimming keeps a leaf sorted and never removes its newest event.
LEMMA TrimKeepsTheNewest ==
  ASSUME NEW evs \in Seq(Event), Newest(evs), evs # <<>>, NEW h
  PROVE  /\ Trim(evs, h) \in Seq(Event)
         /\ Trim(evs, h) # <<>>
         /\ Newest(Trim(evs, h))
         /\ Trim(evs, h)[1] = evs[1]
<1> DEFINE s == Trim(evs, h)
<1>1. /\ s \in Seq(Event) /\ Len(s) \in 1 .. Len(evs)
      /\ \A j \in 1 .. Len(s) : s[j] = evs[j]
  BY TrimPlaces
<1> HIDE DEF s
<1>2. Newest(s)
  BY <1>1 DEF Newest
<1> QED BY <1>1, <1>2 DEF s

\* find_next_event without a value matcher finds something in every sorted leaf
\* whose newest event is later than r.
LEMMA SomethingNext ==
  ASSUME NEW evs \in Seq(Event), NEW r \in Nat, evs # <<>>, evs[1].at > r
  PROVE  NextHits(evs, r, Vals) # {}
<1> DEFINE i == FirstUpTo(evs, r)
<1>1. /\ i \in 1 .. Len(evs) + 1
      /\ i <= Len(evs) => evs[i].at <= r
  BY FirstUpToSplits
<1>2. Len(evs) >= 1 /\ \A k \in 1 .. Len(evs) : evs[k].val \in Vals /\ evs[k].at \in Nat
  BY LeafFields
<1> HIDE DEF i
<1>3. CASE i <= Len(evs)
  <2>1. i # 1
    BY <1>1, <1>2, <1>3
  <2>2. 1 \in 1 .. i - 1 /\ evs[1].val \in Vals
    BY <1>1, <1>2, <2>1
  <2> QED BY <1>3, <2>2 DEF NextHits, i
<1>4. CASE ~(i <= Len(evs))
  <2>1. Len(evs) \in {Len(evs)} \ {0} /\ evs[Len(evs)].val \in Vals
    BY <1>2
  <2> QED BY <1>4, <2>1 DEF NextHits, i
<1> QED BY <1>3, <1>4

\* What find_next_event returns is an event of the leaf.
LEMMA NextIsEvent ==
  ASSUME NEW evs \in Seq(Event), NEW r \in Nat, NEW m, NextHits(evs, r, m) # {}
  PROVE  FindNext(evs, r, m) \in Event
<1>1. FirstUpTo(evs, r) \in 1 .. Len(evs) + 1
  BY FirstUpToSplits
<1>2. NextHits(evs, r, m) \subseteq 1 .. Len(evs)
  BY <1>1 DEF NextHits
<1>3. Len(evs) \in Nat /\ NextHits(evs, r, m) \in SUBSET (0 .. Len(evs))
  <2>1. Len(evs) \in Nat
    OBVIOUS
  <2> QED BY <1>2, <2>1
<1>4. Max(NextHits(evs, r, m)) \in NextHits(evs, r, m)
  BY <1>3, MaxIsGreatest
<1> QED BY <1>2, <1>4 DEF FindNext

\* In a sorted leaf the events up to a rank are those from find_index on.
LEMMA SplitOfSorted ==
  ASSUME NEW evs \in Seq(Event), Newest(evs), NEW r \in Nat, NEW j \in 1 .. Len(evs)
  PROVE  evs[j].at <= r <=> FirstUpTo(evs, r) <= j
<1> DEFINE i == FirstUpTo(evs, r)
<1>1. /\ i \in 1 .. Len(evs) + 1
      /\ \A k \in 1 .. Len(evs) : k < i => evs[k].at > r
      /\ i <= Len(evs) => evs[i].at <= r
  BY FirstUpToSplits
<1>2. \A k \in 1 .. Len(evs) : evs[k].at \in Nat
  BY LeafFields
<1> HIDE DEF i
<1>3. ASSUME i <= j PROVE evs[j].at <= r
  <2>1. i \in 1 .. Len(evs) /\ evs[i].at <= r
    BY <1>1, <1>3
  <2>2. evs[j].at <= evs[i].at
    BY <1>2, <1>3, <2>1 DEF Newest
  <2> QED BY <1>2, <2>1, <2>2
<1>4. ASSUME ~(i <= j) PROVE ~(evs[j].at <= r)
  BY <1>1, <1>2, <1>4
<1>5. evs[j].at <= r <=> i <= j
  BY <1>3, <1>4
<1> QED BY <1>5 DEF i

\* What find_next_event returns of a sorted leaf: the earliest event after r
\* that m accepts; and when it returns nothing, every event after r that m
\* accepts lies behind an earlier one that m does not.
LEMMA NextIsEarliest ==
  ASSUME NEW evs \in Seq(Event), Newest(evs), NEW r \in Nat, NEW m
  PROVE  LET hits == NextHits(evs, r, m)
             k == Max(hits)
         IN  /\ hits # {} => /\ k \in 1 .. Len(evs) /\ evs[k].at > r /\ evs[k].val \in m
                             /\ \A j \in 1 .. Len(evs) :
                                  evs[j].at > r /\ evs[j].val \in m => evs[k].at <= evs[j].at
             /\ hits = {} => \A j \in 1 .. Len(evs) :
                               evs[j].at > r /\ evs[j].val \in m =>
                                 /\ r < evs[Len(evs)].at /\ evs[Len(evs)].at <= evs[j].at
                                 /\ evs[Len(evs)].val \notin m
<1> DEFINE hits == NextHits(evs, r, m)
           k == Max(hits)
           i == FirstUpTo(evs, r)
           n == Len(evs)
<1>1. n \in Nat /\ i \in 1 .. n + 1
  BY FirstUpToSplits
<1>2. \A j \in 1 .. n : evs[j].at \in Nat
  BY LeafFields
<1>3. \A j \in 1 .. n : evs[j].at > r <=> j < i
  <2> SUFFICES ASSUME NEW j \in 1 .. n PROVE evs[j].at > r <=> j < i
    OBVIOUS
  <2>1. evs[j].at <= r <=> i <= j
    BY SplitOfSorted
  <2> HIDE DEF i
  <2> QED BY <1>1, <1>2, <2>1
<1>4. hits = {j \in (IF i <= n THEN 1 .. i - 1 ELSE {n} \ {0}) : evs[j].val \in m}
  BY DEF NextHits
<1> HIDE DEF i, hits
<1>5. \A j \in hits : j \in 1 .. n /\ evs[j].at > r /\ evs[j].val \in m
  BY <1>1, <1>3, <1>4
<1>6. hits \in SUBSET (0 .. n)
  BY <1>1, <1>5
<1>7. hits # {} => k \in hits /\ \A j \in hits : j <= k
  BY <1>1, <1>6, MaxIsGreatest
<1> HIDE DEF k
<1>8. ASSUME hits # {}, NEW j \in 1 .. n, evs[j].at > r, evs[j].val \in m
      PROVE  evs[k].at <= evs[j].at
  <2>1. k \in 1 .. n /\ k \in hits /\ j < i
    BY <1>3, <1>5, <1>7, <1>8
  <2>2. j <= k
    <3>1. CASE i <= n
      BY <1>1, <1>4, <1>7, <1>8, <2>1, <3>1
    <3>2. CASE ~(i <= n)
      BY <1>1, <1>4, <2>1, <3>2
    <3> QED BY <3>1, <3>2
  <2> QED BY <1>2, <2>1, <2>2 DEF Newest
<1>9. ASSUME hits = {}, NEW j \in 1 .. n, evs[j].at > r, evs[j].val \in m
      PROVE  r < evs[n].at /\ evs[n].at <= evs[j].at /\ evs[n].val \notin m
  <2>1. j < i
    BY <1>3, <1>9
  <2>2. ~(i <= n)
    BY <1>1, <1>4, <1>9, <2>1
  <2>3. n \in 1 .. n /\ n < i /\ n \in {n} \ {0}
    BY <1>1, <2>2
  <2>4. evs[n].val \notin m
    BY <1>4, <1>9, <2>2, <2>3
  <2>5. evs[n].at > r
    BY <1>3, <2>3
  <2>6. evs[n].at <= evs[j].at
    BY <1>2, <2>3 DEF Newest
  <2> QED BY <1>2, <2>3, <2>4, <2>5, <2>6
<1>10. /\ hits # {} => /\ k \in 1 .. n /\ evs[k].at > r /\ evs[k].val \in m
                       /\ \A j \in 1 .. n : evs[j].at > r /\ evs[j].val \in m
                                              => evs[k].at <= evs[j].at
       /\ hits = {} => \A j \in 1 .. n : evs[j].at > r /\ evs[j].val \in m =>
                         /\ r < evs[n].at /\ evs[n].at <= evs[j].at
                         /\ evs[n].val \notin m
  BY <1>5, <1>7, <1>8, <1>9
<1> QED BY <1>10 DEF k, hits

\* find_next_event without a value matcher finds something exactly when the
\* leaf has something later than r.
LEMMA NextExists ==
  ASSUME NEW evs \in Seq(Event), Newest(evs), NEW r \in Nat
  PROVE  NextHits(evs, r, Vals) # {} <=> \E j \in 1 .. Len(evs) : evs[j].at > r
<1>1. ASSUME NEW j \in NextHits(evs, r, Vals)
      PROVE  \E k \in 1 .. Len(evs) : evs[k].at > r
  BY <1>1, NextIsEarliest
<1>2. ASSUME NEW j \in 1 .. Len(evs), evs[j].at > r PROVE NextHits(evs, r, Vals) # {}
  <2>1. evs # <<>> /\ 1 \in 1 .. Len(evs) /\ Len(evs) \in Nat
    BY <1>2
  <2>2. evs[1].at \in Nat /\ evs[j].at \in Nat
    BY <2>1, LeafFields
  <2>3. evs[1].at >= evs[j].at
    BY <1>2, <2>1, <2>2 DEF Newest
  <2>4. evs[1].at > r
    BY <1>2, <2>2, <2>3
  <2> QED BY <2>1, <2>4, SomethingNext
<1> QED BY <1>1, <1>2

\* find_most_recent_event of a sorted leaf.
LEMMA RecentIsLatest ==
  ASSUME NEW evs \in Seq(Event), Newest(evs), NEW r \in Nat
  PROVE  /\ RecentHits(evs, r, Vals) = {j \in 1 .. Len(evs) : evs[j].at <= r}
         /\ \A j \in 1 .. Len(evs) : evs[j].at <= r => evs[j].at <= FindRecent(evs, r, Vals).at
<1> DEFINE hits == RecentHits(evs, r, Vals)
           k == Min(hits)
<1>1. \A j \in 1 .. Len(evs) : evs[j].at \in Nat /\ evs[j].val \in Vals
  BY LeafFields
<1>2. hits = {j \in 1 .. Len(evs) : evs[j].at <= r}
  BY <1>1 DEF RecentHits
<1>3. FindRecent(evs, r, Vals) = evs[k]
  BY DEF FindRecent
<1> HIDE DEF hits
<1>4. hits \in SUBSET Nat
  BY <1>2
<1>5. hits # {} => k \in hits /\ \A j \in hits : k <= j
  BY <1>4, MinIsLeast
<1> HIDE DEF k
<1>6. ASSUME NEW j \in 1 .. Len(evs), evs[j].at <= r PROVE evs[j].at <= evs[k].at
  <2>1. k \in 1 .. Len(evs) /\ k <= j
    BY <1>2, <1>5, <1>6
  <2> QED BY <1>1, <2>1 DEF Newest
<1> QED BY <1>2, <1>3, <1>6 DEF hits

-----------------------------------------------------------------------------
(* The inductive invariant.                                                *)

\* Who was woken is still in its sync, or was killed there.
WokenAreSyncing ==
  /\ \A t \in woken : pc[t] \in {"wait", "reseek", "dead", "error", "pruned"}
  /\ \A t \in Threads : pc[t] = "reseek" => t \in woken

\* Between the two locks of set, what is newest on the path of the event is no
\* older than the event, trimmed or not.
CueInHistory ==
  \A t \in Threads : pc[t] = "match" =>
    /\ cueing[t] \in Event
    /\ events[cueing[t].path] # <<>>
    /\ events[cueing[t].path][1].at >= cueing[t].at

\* A woken sync that accepts any value has something to find.
WokenCanFind ==
  \A t \in woken : ok[t] = Vals /\ Plain(want[t]) =>
    \E p \in Finds[want[t]] : events[p] # <<>> /\ events[p][1].at > moment[t]

IInv == /\ TypeOK
        /\ HistorySorted
        /\ MatchersHaveSleepers
        /\ WokenAreSyncing
        /\ CueInHistory
        /\ WokenCanFind
        /\ NoSyncError

\* Init establishes it.
LEMMA InitIInv == Init => IInv
<1> SUFFICES ASSUME Init PROVE IInv
  OBVIOUS
<1>1. SomePattern \in Patterns
  BY PathsAssumption DEF SomePattern
<1>2. TypeOK
  <2>1. moment \in [Threads -> Ranks] /\ nextId \in 0 .. MaxCues
    BY BoundsAssumption DEF Init
  <2> QED BY <1>1, <2>1 DEF Init, TypeOK
<1>3. HistorySorted /\ MatchersHaveSleepers /\ WokenAreSyncing /\ WokenCanFind
  BY DEF Init, HistorySorted, Newest, MatchersHaveSleepers, WokenAreSyncing, WokenCanFind
<1>4. CueInHistory /\ NoSyncError
  BY DEF Init, CueInHistory, NoSyncError
<1> QED BY <1>2, <1>3, <1>4 DEF IInv

\* What a sync returns lies at a moment of the model.
LEMMA ReturnedMoment ==
  ASSUME TypeOK, NEW t \in Threads, NEW e \in Earliest(Candidates(want[t], moment[t], ok[t]))
  PROVE  e.at \in Ranks
<1>1. PICK p \in Finds[want[t]] :
        /\ NextHits(events[p], moment[t], ok[t]) # {}
        /\ e = FindNext(events[p], moment[t], ok[t])
  BY DEF Earliest, Candidates
<1>2. events[p] \in Seq(Event) /\ moment[t] \in Nat
  BY BoundsAssumption, WakesAreFound DEF TypeOK, Ranks
<1>3. e \in Event
  BY <1>1, <1>2, NextIsEvent
<1> QED BY <1>3 DEF Event

\* An insertion keeps every leaf a sorted list of events, and leaves on the
\* event's path something no older than it and than what was newest there.
LEMMA InsertKeepsTheNewest ==
  ASSUME TypeOK, HistorySorted, NEW e \in Event, NEW h,
         events' = [events EXCEPT ![e.path] = Trim(Sink(@, e), h)]
  PROVE  /\ events' \in [Paths -> Seq(Event)]
         /\ HistorySorted'
         /\ events'[e.path] # <<>> /\ events'[e.path][1].at >= e.at
         /\ \A p \in Paths : events[p] # <<>> =>
              events'[p] # <<>> /\ events'[p][1].at >= events[p][1].at
<1>1. e.path \in Paths
  BY EventFields
<1> DEFINE old == events[e.path]
           sunk == Sink(old, e)
<1>2. old \in Seq(Event) /\ Newest(old)
  BY <1>1 DEF TypeOK, HistorySorted
<1>3. /\ sunk \in Seq(Event) /\ sunk # <<>> /\ Newest(sunk)
      /\ sunk[1].at >= e.at
      /\ old # <<>> => sunk[1].at >= old[1].at
  BY <1>2, SinkIsSorted
<1> HIDE DEF sunk
<1>4. /\ Trim(sunk, h) \in Seq(Event) /\ Trim(sunk, h) # <<>>
      /\ Newest(Trim(sunk, h)) /\ Trim(sunk, h)[1] = sunk[1]
  BY <1>3, TrimKeepsTheNewest
<1>5. events' = [events EXCEPT ![e.path] = Trim(sunk, h)]
  BY DEF sunk
<1>6. events'[e.path] = Trim(sunk, h) /\ \A p \in Paths \ {e.path} : events'[p] = events[p]
  BY <1>1, <1>5 DEF TypeOK
<1>7. events' \in [Paths -> Seq(Event)]
  BY <1>4, <1>5 DEF TypeOK
<1>8. HistorySorted'
  BY <1>4, <1>6 DEF HistorySorted
<1>9. ASSUME NEW p \in Paths, events[p] # <<>>
      PROVE  events'[p] # <<>> /\ events'[p][1].at >= events[p][1].at
  <2>1. CASE p = e.path
    <3>1. old # <<>> /\ events[p] = old /\ events'[p] = Trim(sunk, h)
      BY <1>6, <1>9, <2>1
    <3> HIDE DEF old
    <3> QED BY <1>3, <1>4, <3>1
  <2>2. CASE p # e.path
    <3>1. 1 \in 1 .. Len(events[p]) /\ events[p] \in Seq(Event)
      BY <1>9 DEF TypeOK
    <3>2. events[p][1].at \in Nat
      BY <3>1, LeafFields
    <3> QED BY <1>6, <1>9, <2>2, <3>2
  <2> QED BY <2>1, <2>2
<1> QED BY <1>3, <1>4, <1>6, <1>7, <1>8, <1>9

\* Every step keeps the types.
LEMMA TypeInductive == IInv /\ [Next]_vars => TypeOK'
<1> SUFFICES ASSUME IInv, [Next]_vars PROVE TypeOK'
  OBVIOUS
<1> USE DEF TypeOK
<1>0. TypeOK /\ HistorySorted
  BY DEF IInv
<1>a. SomePattern \in Patterns
  BY PathsAssumption DEF SomePattern
<1>1. CASE UNCHANGED vars
  BY <1>0, <1>1 DEF vars
<1>2. ASSUME NEW t \in Threads, Sleep(t) PROVE TypeOK'
  BY <1>0, <1>2 DEF Sleep, Own, histVars, syncVars, wakeVars, Ranks
<1>3. ASSUME NEW t \in Threads, StartSync(t) PROVE TypeOK'
  BY <1>0, <1>3, ValsAssumption DEF StartSync, Goto, histVars, wakeVars
<1>4. ASSUME NEW t \in Threads, Return(t) PROVE moment' \in [Threads -> Ranks]
  BY <1>0, <1>4, ReturnedMoment DEF Return
<1>5. ASSUME NEW t \in Threads, EndSync(t)
      PROVE  /\ want' \in [Threads -> Patterns] /\ ok' \in [Threads -> SUBSET Vals]
             /\ blind' \in [Threads -> SUBSET Ids]
  BY <1>0, <1>a, <1>5 DEF EndSync
<1>6. ASSUME NEW t \in Threads, SeekFound(t) PROVE TypeOK'
  BY <1>0, <1>4, <1>5, <1>6 DEF SeekFound, Goto, Return, histVars
<1>7. ASSUME NEW t \in Threads, SeekNothing(t) PROVE TypeOK'
  BY <1>0, <1>7 DEF SeekNothing, Goto, histVars, syncVars, wakeVars
<1>8. ASSUME NEW t \in Threads, PutMatcher(t) PROVE TypeOK'
  BY <1>0, <1>8, BoundsAssumption DEF PutMatcher, Goto, histVars, syncVars, Ids
<1>9. ASSUME NEW t \in Threads, Wake(t) PROVE TypeOK'
  BY <1>0, <1>9 DEF Wake, Goto, histVars, syncVars, wakeVars
<1>10. ASSUME NEW t \in Threads, ReseekFound(t) PROVE TypeOK'
  BY <1>0, <1>4, <1>5, <1>10 DEF ReseekFound, Goto, Return, histVars
<1>11. ASSUME NEW t \in Threads, ReseekNothing(t) PROVE TypeOK'
  BY <1>0, <1>11 DEF ReseekNothing, Goto, histVars, syncVars, wakeVars
<1>12. ASSUME NEW t \in Threads, InsertEvent(t) PROVE TypeOK'
  <2>1. PICK p \in Paths, r \in Own(t), v \in Vals, h \in 0 .. MaxRank + 1 :
          LET e == [id |-> nextId, path |-> p, at |-> r, val |-> v]
          IN  /\ events' = [events EXCEPT ![p] = Trim(Sink(@, e), h)]
              /\ cueing' = [cueing EXCEPT ![t] = e]
    BY <1>12 DEF InsertEvent
  <2> DEFINE e == [id |-> nextId, path |-> p, at |-> r, val |-> v]
  <2>2. nextId \in Ids
    BY <1>0, <1>12, BoundsAssumption DEF InsertEvent, Ids
  <2>3. e \in Event /\ e.path = p
    BY <2>2 DEF Event, Own
  <2>4. events' = [events EXCEPT ![e.path] = Trim(Sink(@, e), h)]
    BY <2>1, <2>3
  <2>5. cueing' \in [Threads -> Event \cup {NoCue}]
    BY <1>0, <2>1, <2>3
  <2> HIDE DEF e
  <2>6. events' \in [Paths -> Seq(Event)]
    BY <1>0, <2>3, <2>4, InsertKeepsTheNewest
  <2>7. nextId' \in 0 .. MaxCues /\ unmatched' \subseteq Ids
    BY <1>0, <1>12, <2>2, BoundsAssumption DEF InsertEvent
  <2> QED BY <1>0, <1>12, <2>5, <2>6, <2>7 DEF InsertEvent, Goto, syncVars, wakeVars
<1>13. ASSUME NEW t \in Threads, MatchEvent(t) PROVE TypeOK'
  BY <1>0, <1>13 DEF MatchEvent, Deliver, Hits, Goto, histVars, syncVars
<1>14. ASSUME NEW t \in Threads, Kill(t) PROVE TypeOK'
  BY <1>0, <1>14 DEF Kill, histVars, syncVars, wakeVars
<1>15. ASSUME NEW t \in Threads, Prune(t) PROVE TypeOK'
  BY <1>0, <1>15 DEF Prune, histVars, syncVars
<1> QED BY <1>1, <1>2, <1>3, <1>6, <1>7, <1>8, <1>9, <1>10, <1>11, <1>12, <1>13,
           <1>14, <1>15 DEF Next, Step

\* The steps other than InsertEvent leave the history alone; InsertEvent changes
\* it as InsertKeepsTheNewest says.
LEMMA HistorySteps ==
  ASSUME IInv, [Next]_vars
  PROVE  /\ HistorySorted'
         /\ \A p \in Paths : events[p] # <<>> =>
              events'[p] # <<>> /\ events'[p][1].at >= events[p][1].at
         /\ \A t \in Threads : InsertEvent(t) =>
              /\ cueing'[t] \in Event
              /\ events'[cueing'[t].path] # <<>>
              /\ events'[cueing'[t].path][1].at >= cueing'[t].at
              /\ \A u \in Threads \ {t} : cueing'[u] = cueing[u]
<1>0. TypeOK /\ HistorySorted
  BY DEF IInv
<1>1. ASSUME NEW t \in Threads, InsertEvent(t)
      PROVE  /\ HistorySorted'
             /\ \A p \in Paths : events[p] # <<>> =>
                  events'[p] # <<>> /\ events'[p][1].at >= events[p][1].at
             /\ cueing'[t] \in Event
             /\ events'[cueing'[t].path] # <<>>
             /\ events'[cueing'[t].path][1].at >= cueing'[t].at
             /\ \A u \in Threads \ {t} : cueing'[u] = cueing[u]
  <2>1. PICK q \in Paths, r \in Own(t), v \in Vals, h \in 0 .. MaxRank + 1 :
          LET e == [id |-> nextId, path |-> q, at |-> r, val |-> v]
          IN  /\ events' = [events EXCEPT ![q] = Trim(Sink(@, e), h)]
              /\ cueing' = [cueing EXCEPT ![t] = e]
    BY <1>1 DEF InsertEvent
  <2> DEFINE e == [id |-> nextId, path |-> q, at |-> r, val |-> v]
  <2>2. nextId \in Ids
    BY <1>0, <1>1, BoundsAssumption DEF InsertEvent, Ids, TypeOK
  <2>3. e \in Event /\ e.path = q
    BY <2>2 DEF Event, Own
  <2>4. events' = [events EXCEPT ![e.path] = Trim(Sink(@, e), h)]
    BY <2>1, <2>3
  <2>5. cueing'[t] = e /\ \A u \in Threads \ {t} : cueing'[u] = cueing[u]
    BY <1>0, <2>1 DEF TypeOK
  <2> HIDE DEF e
  <2> QED BY <1>0, <2>3, <2>4, <2>5, InsertKeepsTheNewest
<1>2. CASE \E t \in Threads : InsertEvent(t)
  BY <1>1, <1>2
<1>3. CASE ~ \E t \in Threads : InsertEvent(t)
  <2>1. events' = events
    BY <1>3 DEF Next, Step, vars, histVars, Sleep, StartSync, SeekFound, SeekNothing,
                PutMatcher, Wake, ReseekFound, ReseekNothing, MatchEvent, Deliver, Hits, Kill, Prune
  <2>2. \A p \in Paths : events[p] # <<>> => events[p][1].at \in Nat
    <3> SUFFICES ASSUME NEW p \in Paths, events[p] # <<>> PROVE events[p][1].at \in Nat
      OBVIOUS
    <3>1. events[p] \in Seq(Event) /\ 1 \in 1 .. Len(events[p])
      BY <1>0 DEF TypeOK
    <3> QED BY <3>1, LeafFields
  <2> QED BY <1>0, <1>3, <2>1, <2>2 DEF HistorySorted
<1> QED BY <1>2, <1>3

\* Every step keeps matchers and promises with the threads they belong to.
LEMMA SleepersInductive ==
  IInv /\ [Next]_vars => MatchersHaveSleepers' /\ WokenAreSyncing'
<1> SUFFICES ASSUME IInv, [Next]_vars PROVE MatchersHaveSleepers' /\ WokenAreSyncing'
  OBVIOUS
<1> DEFINE Places == /\ \A t \in matchers : t \notin woken /\ pc[t] \in {"wait", "dead", "pruned"}
                     /\ WokenAreSyncing
<1>0. /\ pc \in [Threads -> {"idle", "seek", "put", "wait", "reseek", "match",
                             "dead", "error", "pruned"}]
      /\ matchers \subseteq Threads /\ woken \subseteq Threads
      /\ moment \in [Threads -> Ranks] /\ MatchersHaveSleepers
      /\ Places
  BY DEF IInv, TypeOK, MatchersHaveSleepers
<1>p. Places'
  <2> USE DEF WokenAreSyncing
  <2>1. CASE UNCHANGED vars
    BY <1>0, <2>1 DEF vars
  <2>2. ASSUME NEW t \in Threads, Sleep(t) \/ StartSync(t) \/ SeekNothing(t) \/ SeekFound(t)
        PROVE  Places'
    BY <1>0, <2>2 DEF Sleep, StartSync, SeekNothing, SeekFound, Goto, wakeVars
  <2>3. ASSUME NEW t \in Threads, PutMatcher(t) PROVE Places'
    BY <1>0, <2>3 DEF PutMatcher, Goto
  <2>4. ASSUME NEW t \in Threads, Wake(t) \/ ReseekNothing(t) \/ Kill(t) PROVE Places'
    BY <1>0, <2>4 DEF Wake, ReseekNothing, Kill, Goto, wakeVars
  <2>5. ASSUME NEW t \in Threads, ReseekFound(t) PROVE Places'
    BY <1>0, <2>5 DEF ReseekFound, Goto
  <2>6. ASSUME NEW t \in Threads, InsertEvent(t) PROVE Places'
    BY <1>0, <2>6 DEF InsertEvent, Goto, wakeVars
  <2>7. ASSUME NEW t \in Threads, MatchEvent(t) PROVE Places'
    BY <1>0, <2>7 DEF MatchEvent, Deliver, Hits, Goto
  <2>8. ASSUME NEW t \in Threads, Prune(t) PROVE Places'
    <3>1. pc[t] \in {"dead", "error"} /\ pc' = [pc EXCEPT ![t] = "pruned"]
      BY <2>8 DEF Prune
    <3>2. matchers' \subseteq matchers /\ woken' = woken
      BY <2>8 DEF Prune
    <3> QED BY <1>0, <3>1, <3>2
  <2> QED BY <2>1, <2>2, <2>3, <2>4, <2>5, <2>6, <2>7, <2>8 DEF Next, Step
<1>h. ASSUME NEW u \in matchers', pc'[u] = "pruned" PROVE Handle(u)' # Id[u]
  <2>1. u \in matchers
    BY <1>0, <1>h DEF Next, Step, vars, wakeVars, Sleep, StartSync, SeekFound, SeekNothing,
         PutMatcher, Wake, ReseekFound, ReseekNothing, MatchEvent, Deliver, Kill, Prune,
         InsertEvent, Goto
  <2>2. u \in Threads /\ pc[u] \in {"wait", "dead", "pruned"}
    BY <1>0, <2>1
  <2>3. moment'[u] = moment[u]
    BY <1>0, <2>2 DEF Next, Step, vars, Sleep, StartSync, SeekFound, SeekNothing,
         PutMatcher, Wake, ReseekFound, ReseekNothing, MatchEvent, Deliver, Kill, Prune,
         InsertEvent, Goto, Return
  <2>4. Handle(u)' = Handle(u)
    BY <2>3 DEF Handle
  <2>5. CASE pc[u] = "pruned"
    BY <1>0, <2>1, <2>4, <2>5 DEF MatchersHaveSleepers
  <2>6. CASE pc[u] # "pruned"
    <3>1. Prune(u)
      BY <1>0, <1>h, <2>2, <2>6 DEF Next, Step, vars, Sleep, StartSync, SeekFound, SeekNothing,
         PutMatcher, Wake, ReseekFound, ReseekNothing, MatchEvent, Deliver, Kill, Prune,
         InsertEvent, Goto
    <3> QED BY <1>h, <2>4, <3>1 DEF Prune
  <2> QED BY <2>5, <2>6
<1> QED BY <1>p, <1>h DEF MatchersHaveSleepers

\* The event between the two locks of its set stays covered by its path.
LEMMA CueInductive == IInv /\ [Next]_vars => CueInHistory'
<1> SUFFICES ASSUME IInv, [Next]_vars, NEW u \in Threads, pc'[u] = "match"
             PROVE  /\ cueing'[u] \in Event
                    /\ events'[cueing'[u].path] # <<>>
                    /\ events'[cueing'[u].path][1].at >= cueing'[u].at
  BY DEF CueInHistory
<1>0. /\ pc \in [Threads -> {"idle", "seek", "put", "wait", "reseek", "match",
                             "dead", "error", "pruned"}]
      /\ cueing \in [Threads -> Event \cup {NoCue}]
      /\ TypeOK
  BY DEF IInv, TypeOK
<1>1. CASE InsertEvent(u)
  BY <1>1, HistorySteps
<1>2. CASE ~InsertEvent(u)
  <2>1. pc[u] = "match" /\ cueing'[u] = cueing[u]
    BY <1>0, <1>2, ZenonT(40) DEF Next, Step, vars, Sleep, StartSync, SeekFound, SeekNothing,
          PutMatcher, Wake, ReseekFound, ReseekNothing, MatchEvent, Deliver, Hits, Kill, Prune,
          InsertEvent, Goto
  <2>2. /\ cueing[u] \in Event /\ events[cueing[u].path] # <<>>
        /\ events[cueing[u].path][1].at >= cueing[u].at
    BY <2>1 DEF IInv, CueInHistory
  <2>3. cueing[u].path \in Paths /\ cueing[u].at \in Nat
    BY <2>2, EventFields
  <2> DEFINE old == events[cueing[u].path]
             new == events'[cueing[u].path]
  <2>4. new # <<>> /\ new[1].at >= old[1].at
    BY <2>2, <2>3, HistorySteps
  <2>5. TypeOK'
    BY TypeInductive
  <2>6. old[1].at \in Nat /\ new[1].at \in Nat
    <3>1. old \in Seq(Event) /\ new \in Seq(Event)
      BY <1>0, <2>3, <2>5 DEF TypeOK
    <3>2. 1 \in 1 .. Len(old) /\ 1 \in 1 .. Len(new)
      BY <2>2, <2>4, <3>1
    <3> QED BY <3>1, <3>2, LeafFields
  <2>7. new[1].at >= cueing[u].at
    BY <2>2, <2>3, <2>4, <2>6
  <2> QED BY <2>1, <2>2, <2>4, <2>7
<1> QED BY <1>1, <1>2

\* Whoever is woken has something to find, and goes on having it.
LEMMA WokenInductive == IInv /\ [Next]_vars => WokenCanFind'
<1> SUFFICES ASSUME IInv, [Next]_vars, NEW u \in woken', ok'[u] = Vals, Plain(want'[u])
             PROVE  \E p \in Finds[want'[u]] : events'[p] # <<>> /\ events'[p][1].at > moment'[u]
  BY DEF WokenCanFind
<1>0. /\ TypeOK /\ TypeOK' /\ MatchersHaveSleepers /\ WokenAreSyncing
      /\ CueInHistory /\ WokenCanFind
  BY TypeInductive DEF IInv
<1>1. u \in Threads
  BY <1>0 DEF TypeOK
<1>2. want'[u] = want[u] /\ moment'[u] = moment[u]
  BY <1>0, <1>1 DEF Next, Step, vars, syncVars, wakeVars, Sleep, StartSync, SeekFound,
         SeekNothing, PutMatcher, Wake, ReseekFound, ReseekNothing, MatchEvent, Deliver, Hits,
         Kill, Prune, InsertEvent, Goto, EndSync, Return, TypeOK, WokenAreSyncing,
         MatchersHaveSleepers
<1>3. want[u] \in Patterns /\ Plain(want[u])
  BY <1>0, <1>1, <1>2 DEF TypeOK
<1>4. PICK p \in Finds[want[u]] : events[p] # <<>> /\ events[p][1].at > moment[u]
  <2>1. CASE u \in woken
    <3>1. ok[u] = Vals
      <4>1. pc[u] \in {"wait", "reseek", "dead", "error", "pruned"}
        BY <1>0, <2>1 DEF WokenAreSyncing
      <4> QED BY <1>0, <1>1, <2>1, <4>1
                 DEF Next, Step, vars, syncVars, wakeVars, Sleep, StartSync, SeekFound,
                     SeekNothing, PutMatcher, Wake, ReseekFound, ReseekNothing, MatchEvent, Deliver, Hits,
                     Kill, Prune, InsertEvent, Goto, EndSync, Return, TypeOK
    <3> QED BY <1>0, <1>3, <2>1, <3>1 DEF WokenCanFind
  <2>2. CASE u \notin woken
    <3>1. PICK t \in Threads : MatchEvent(t)
      BY <2>2 DEF Next, Step, vars, wakeVars, Sleep, StartSync, SeekFound,
                  SeekNothing, PutMatcher, Wake, ReseekFound, ReseekNothing,
                  Kill, Prune, InsertEvent
    <3> DEFINE e == cueing[t]
    <3>2. u \in matchers /\ Accepts(u, e)
      BY <2>2, <3>1 DEF MatchEvent, Deliver, Hits
    <3>3. /\ e \in Event /\ events[e.path] # <<>> /\ events[e.path][1].at >= e.at
      BY <1>0, <3>1 DEF MatchEvent, Deliver, Hits, Goto, CueInHistory
    <3>4. e.path \in Finds[want[u]]
      BY <1>3, <3>2, WakesAreFound DEF Accepts
    <3>5. events[e.path][1].at \in Nat /\ e.at \in Nat /\ moment[u] \in Nat
      <4>1. e.path \in Paths /\ e.at \in Nat
        BY <3>3, EventFields
      <4>2. events[e.path] \in Seq(Event) /\ 1 \in 1 .. Len(events[e.path])
        BY <1>0, <3>3, <4>1 DEF TypeOK
      <4>3. moment[u] \in Nat
        BY <1>0, <1>1, BoundsAssumption DEF TypeOK, Ranks
      <4> QED BY <4>1, <4>2, <4>3, LeafFields
    <3>6. events[e.path][1].at > moment[u]
      BY <3>2, <3>3, <3>5 DEF Accepts
    <3> QED BY <3>3, <3>4, <3>6
  <2> QED BY <2>1, <2>2
<1>5. p \in Paths
  BY <1>4, <1>3, WakesAreFound
<1>6. events'[p] # <<>> /\ events'[p][1].at >= events[p][1].at
  BY <1>4, <1>5, HistorySteps
<1>7. events[p][1].at \in Nat /\ events'[p][1].at \in Nat /\ moment[u] \in Nat
  <2>1. events[p] \in Seq(Event) /\ events'[p] \in Seq(Event)
    BY <1>0, <1>5 DEF TypeOK
  <2>2. 1 \in 1 .. Len(events[p]) /\ 1 \in 1 .. Len(events'[p])
    BY <1>4, <1>6, <2>1
  <2>3. moment[u] \in Nat
    BY <1>0, <1>1, BoundsAssumption DEF TypeOK, Ranks
  <2> QED BY <2>1, <2>2, <2>3, LeafFields
<1> QED BY <1>4, <1>2, <1>6, <1>7

\* The second lookup of a sync that accepts any value finds something.
LEMMA NoSyncErrorInductive == IInv /\ [Next]_vars => NoSyncError'
<1> SUFFICES ASSUME IInv, [Next]_vars, NEW t \in Threads, ok'[t] = Vals,
                    Plain(want'[t])
             PROVE  pc'[t] # "error"
  BY DEF NoSyncError
<1>0. TypeOK /\ WokenAreSyncing /\ WokenCanFind /\ NoSyncError
  BY DEF IInv
<1>1. CASE ReseekNothing(t)
  <2>1. pc[t] = "reseek" /\ ok[t] = Vals /\ NothingFound(t) /\ Plain(want[t])
    BY <1>1 DEF ReseekNothing, Goto, syncVars
  <2>2. PICK p \in Finds[want[t]] : events[p] # <<>> /\ events[p][1].at > moment[t]
    BY <1>0, <2>1 DEF WokenAreSyncing, WokenCanFind
  <2>3. p \in Paths /\ moment[t] \in Nat
    BY <1>0, WakesAreFound, BoundsAssumption DEF TypeOK, Ranks
  <2>4. NextHits(events[p], moment[t], Vals) # {}
    BY <1>0, <2>2, <2>3, SomethingNext DEF TypeOK
  <2>5. Candidates(want[t], moment[t], ok[t]) # {}
    BY <2>1, <2>4 DEF Candidates
  <2> QED BY <2>1, <2>5 DEF NothingFound
<1>2. CASE ~ReseekNothing(t)
  <2>1. ASSUME pc'[t] = "error"
        PROVE  pc[t] = "error" /\ ok[t] = ok'[t] /\ want[t] = want'[t]
    BY <1>0, <1>2, <2>1 DEF Next, Step, vars, syncVars, wakeVars, Sleep, StartSync, SeekFound,
         SeekNothing, PutMatcher, Wake, ReseekFound, ReseekNothing, MatchEvent, Deliver, Hits,
         Kill, Prune, InsertEvent, Goto, EndSync, Return, TypeOK
  <2> QED BY <1>0, <2>1 DEF NoSyncError
<1> QED BY <1>1, <1>2

-----------------------------------------------------------------------------
(* The theorems.                                                           *)

\* IInv is an invariant of EventHistory.
THEOREM Inductive == Spec => []IInv
<1>1. IInv /\ [Next]_vars => IInv'
  BY TypeInductive, HistorySteps, SleepersInductive, CueInductive, WokenInductive,
     NoSyncErrorInductive DEF IInv
<1> QED BY InitIInv, <1>1, PTL DEF Spec

\* Every variable of the Time State keeps its type: in particular what sync
\* returns is always an event, with a moment for the thread to inherit.
THEOREM TypeCorrect == Spec => []TypeOK
<1>1. IInv => TypeOK
  BY DEF IInv
<1> QED BY Inductive, <1>1, PTL

\* Every leaf is sorted, newest event first, whatever the order in which
\* threads insert and whatever insertion trims (bubble_up_sort!).
THEOREM LeavesAreSorted == Spec => []HistorySorted
<1>1. IInv => HistorySorted
  BY DEF IInv
<1> QED BY Inductive, <1>1, PTL

\* The same in the order that the code compares by: of two events of a leaf, the
\* one that stands first is nowhere before the other for CueEvent's <=>.
THEOREM LeavesAreInCueOrder == Spec => []LeavesFollowCueOrder
<1>1. ASSUME NEW r \in Ranks, NEW s \in Ranks, r >= s
      PROVE  Compare(Key[r], Key[s]) >= 0
  <2>1. Key[r] \in CueKeys /\ Key[s] \in CueKeys
    BY KeyAssumption DEF Ranks
  <2>2. CASE r = s
    BY <2>1, <2>2, KeysAreOrdered
  <2>3. CASE s < r
    <3>1. Compare(Key[s], Key[r]) = -1
      BY <2>3, KeyAssumption DEF Ranks
    <3> QED BY <2>1, <3>1, KeysAreOrdered
  <2>4. r \in Nat /\ s \in Nat
    BY BoundsAssumption DEF Ranks
  <2> QED BY <1>1, <2>2, <2>3, <2>4
<1>2. TypeOK /\ HistorySorted => LeavesFollowCueOrder
  <2> SUFFICES ASSUME TypeOK, HistorySorted, NEW p \in Paths, NEW i \in DOMAIN events[p],
                      NEW j \in DOMAIN events[p], i < j
               PROVE  Compare(Key[events[p][i].at], Key[events[p][j].at]) >= 0
    BY DEF LeavesFollowCueOrder
  <2>1. events[p] \in Seq(Event)
    BY DEF TypeOK
  <2>2. events[p][i].at \in Ranks /\ events[p][j].at \in Ranks
    <3>1. events[p][i] \in Event /\ events[p][j] \in Event
      BY <2>1
    <3> QED BY <3>1 DEF Event
  <2>3. events[p][i].at >= events[p][j].at
    BY DEF HistorySorted, Newest
  <2> QED BY <1>1, <2>2, <2>3
<1> QED BY TypeCorrect, LeavesAreSorted, <1>2, PTL

\* Every lookup gives the event its caller means: get the latest event at or
\* before the moment it asks for, a sync without a value matcher the earliest
\* after it, though both stop at the first hit of a list whose order no lookup
\* checks (find_most_recent_event, find_next_event).
THEOREM LookupsFind == Spec => []LookupsAreExact
<1>1. IInv => LookupsAreExact
  <2> SUFFICES ASSUME IInv, NEW p \in Paths, NEW r \in 0 .. MaxRank
               PROVE  LET evs == events[p]
                          Before == {i \in DOMAIN evs : evs[i].at <= r}
                          After == DOMAIN evs \ Before
                      IN  /\ RecentHits(evs, r, Vals) # {} <=> Before # {}
                          /\ \A i \in Before : evs[i].at <= FindRecent(evs, r, Vals).at
                          /\ NextHits(evs, r, Vals) # {} <=> After # {}
                          /\ \A i \in After : evs[i].at >= FindNext(evs, r, Vals).at
    BY DEF LookupsAreExact
  <2> DEFINE evs == events[p]
             Before == {i \in 1 .. Len(evs) : evs[i].at <= r}
             After == {i \in 1 .. Len(evs) : evs[i].at > r}
  <2>1. evs \in Seq(Event) /\ Newest(evs) /\ r \in Nat
    BY BoundsAssumption DEF IInv, TypeOK, HistorySorted
  <2>2. \A i \in 1 .. Len(evs) : evs[i].at \in Nat /\ evs[i].val \in Vals
    BY <2>1, LeafFields
  <2>3. DOMAIN evs = 1 .. Len(evs)
    BY <2>1
  <2> HIDE DEF evs
  <2>4. DOMAIN evs \ Before = After
    BY <2>1, <2>2, <2>3
  <2>5. /\ RecentHits(evs, r, Vals) = Before
        /\ \A i \in Before : evs[i].at <= FindRecent(evs, r, Vals).at
    BY <2>1, RecentIsLatest
  <2>6. NextHits(evs, r, Vals) # {} <=> After # {}
    BY <2>1, NextExists
  <2>7. ASSUME NEW i \in After PROVE evs[i].at >= FindNext(evs, r, Vals).at
    <3>1. NextHits(evs, r, Vals) # {}
      BY <2>6
    <3>2. /\ Max(NextHits(evs, r, Vals)) \in 1 .. Len(evs)
          /\ evs[Max(NextHits(evs, r, Vals))].at <= evs[i].at
      BY <2>1, <2>2, <3>1, NextIsEarliest
    <3> QED BY <2>2, <3>2 DEF FindNext
  <2> QED BY <2>3, <2>4, <2>5, <2>6, <2>7 DEF evs
<1> QED BY Inductive, <1>1, PTL

\* A sync on a plain pattern (no "?", no "[!x]", no leading "*") that was woken and
\* accepts any value never raises "couldn't find result": for any threads, paths,
\* values, events and ids, and whatever the clean-ups of threads take away.
THEOREM WokenSyncsReturn == Spec => []NoSyncError
<1>1. IInv => NoSyncError
  BY DEF IInv
<1> QED BY Inductive, <1>1, PTL

\* A registered matcher belongs to a thread asleep on it or killed there, whose
\* promise is still empty: set never delivers a promise twice.  It outlives the
\* clean-up of its thread only if it was filed under another's id.
THEOREM MatchersAreOwned == Spec => []MatchersHaveSleepers
<1>1. IInv => MatchersHaveSleepers
  BY DEF IInv
<1> QED BY Inductive, <1>1, PTL

-----------------------------------------------------------------------------
(* The readings of a pattern.                                              *)

\* A lookup finds what its pattern describes, whatever is asked for.
THEOREM SearchIsThePattern == Spec => []TreeSearchIsThePattern
<1>1. SearchAgrees
  BY AskedAssumption, FindsWhatIsDescribed DEF SearchAgrees
<1>2. TypeOK => TreeSearchIsThePattern
  BY <1>1 DEF TreeSearchIsThePattern
<1> QED BY TypeCorrect, <1>2, PTL

\* What a match pass wakes a sync on a plain pattern with is on a path that its
\* second lookup finds.
THEOREM WakingIsFinding == Spec => []WakingImpliesFinding
<1>1. MatcherIsFound
  BY AskedAssumption, MatchedIsDescribed DEF MatcherIsFound, ProperPath
<1>2. TypeOK => WakingImpliesFinding
  BY <1>1 DEF WakingImpliesFinding
<1> QED BY TypeCorrect, <1>2, PTL

\* The one difference between what wakes a sync and what it finds, where each
\* "**" of its plain pattern is between named segments.
THEOREM WakingTakesOne == Spec => []WakesWhereEachTakesOne
<1>1. MatcherTakesOne
  BY AskedAssumption, MatchedTakesOne DEF MatcherTakesOne, ProperPath
<1>2. TypeOK => WakesWhereEachTakesOne
  BY <1>1 DEF WakesWhereEachTakesOne
<1> QED BY TypeCorrect, <1>2, PTL

-----------------------------------------------------------------------------
(* What an insertion adds and forgets.                                     *)

\* An insertion adds nothing but its event, to its path; what it forgets is no
\* later than anything it leaves there.
LEMMA InsertPlaces ==
  ASSUME TypeOK, HistorySorted, NEW e \in Event, NEW h,
         events' = [events EXCEPT ![e.path] = Trim(Sink(@, e), h)]
  PROVE  /\ \A p \in Paths : \A i \in 1 .. Len(events'[p]) :
              \/ p = e.path /\ events'[p][i] = e
              \/ \E j \in 1 .. Len(events[p]) : events'[p][i] = events[p][j]
         /\ \A p \in Paths : \A j \in 1 .. Len(events[p]) :
              \/ \E i \in 1 .. Len(events'[p]) : events'[p][i] = events[p][j]
              \/ /\ p = e.path
                 /\ \A i \in 1 .. Len(events'[p]) : events[p][j].at <= events'[p][i].at
<1>1. e.path \in Paths
  BY EventFields
<1> DEFINE old == events[e.path]
           at == FirstUpTo(old, e.at)
           sunk == Sink(old, e)
           new == Trim(sunk, h)
<1>2. old \in Seq(Event) /\ Newest(old)
  BY <1>1 DEF TypeOK, HistorySorted
<1>3. events'[e.path] = new /\ \A p \in Paths \ {e.path} : events'[p] = events[p]
  BY <1>1 DEF TypeOK
<1> HIDE DEF old
<1>4. /\ at \in 1 .. Len(old) + 1
      /\ sunk \in Seq(Event) /\ Len(sunk) = Len(old) + 1
      /\ \A j \in 1 .. at - 1 : sunk[j] = old[j]
      /\ sunk[at] = e
      /\ \A j \in at + 1 .. Len(sunk) : sunk[j] = old[j - 1]
  BY <1>2, SinkPlaces
<1>5. Newest(sunk) /\ sunk # <<>>
  BY <1>2, SinkIsSorted
<1> HIDE DEF sunk, at
<1>6. /\ new \in Seq(Event) /\ Len(new) \in 1 .. Len(sunk)
      /\ \A j \in 1 .. Len(new) : new[j] = sunk[j]
  BY <1>4, <1>5, TrimPlaces
<1> HIDE DEF new
<1>7. Len(old) \in Nat
  BY <1>2
<1>8. ASSUME NEW i \in 1 .. Len(sunk)
      PROVE  sunk[i] = e \/ \E j \in 1 .. Len(old) : sunk[i] = old[j]
  <2>1. CASE i < at
    BY <1>4, <1>7, <2>1
  <2>2. CASE i > at
    <3>1. i - 1 \in 1 .. Len(old) /\ i \in at + 1 .. Len(sunk)
      BY <1>4, <1>7, <2>2
    <3> QED BY <1>4, <3>1
  <2> QED BY <1>4, <1>7, <2>1, <2>2
<1>9. ASSUME NEW j \in 1 .. Len(old) PROVE \E i \in 1 .. Len(sunk) : sunk[i] = old[j]
  <2>1. CASE j < at
    BY <1>4, <1>7, <2>1
  <2>2. CASE ~(j < at)
    <3>1. j + 1 \in at + 1 .. Len(sunk) /\ j + 1 \in 1 .. Len(sunk) /\ (j + 1) - 1 = j
      BY <1>4, <1>7, <2>2
    <3>2. sunk[j + 1] = old[(j + 1) - 1]
      BY <1>4, <3>1
    <3> QED BY <3>1, <3>2
  <2> QED BY <2>1, <2>2
<1>10. ASSUME NEW p \in Paths, NEW i \in 1 .. Len(events'[p])
       PROVE  \/ p = e.path /\ events'[p][i] = e
              \/ \E j \in 1 .. Len(events[p]) : events'[p][i] = events[p][j]
  <2>1. CASE p # e.path
    BY <1>3, <2>1
  <2>2. CASE p = e.path
    <3>1. i \in 1 .. Len(new) /\ i \in 1 .. Len(sunk) /\ new[i] = sunk[i]
      BY <1>3, <1>4, <1>6, <1>7, <2>2
    <3>2. events[p] = old /\ events'[p] = new
      BY <1>3, <2>2 DEF old
    <3> QED BY <1>8, <2>2, <3>1, <3>2
  <2> QED BY <2>1, <2>2
<1>11. ASSUME NEW p \in Paths, NEW j \in 1 .. Len(events[p])
       PROVE  \/ \E i \in 1 .. Len(events'[p]) : events'[p][i] = events[p][j]
              \/ /\ p = e.path
                 /\ \A i \in 1 .. Len(events'[p]) : events[p][j].at <= events'[p][i].at
  <2>1. CASE p # e.path
    BY <1>3, <2>1
  <2>2. CASE p = e.path
    <3>1. events[p] = old /\ events'[p] = new
      BY <1>3, <2>2 DEF old
    <3>2. PICK k \in 1 .. Len(sunk) : sunk[k] = old[j]
      BY <1>9, <3>1
    <3>3. CASE k <= Len(new)
      <4>1. k \in 1 .. Len(new) /\ new[k] = old[j]
        BY <1>6, <3>2, <3>3
      <4> QED BY <3>1, <4>1
    <3>4. CASE ~(k <= Len(new))
      <4>1. ASSUME NEW i \in 1 .. Len(new) PROVE old[j].at <= new[i].at
        <5>1. i \in 1 .. Len(sunk) /\ i < k /\ new[i] = sunk[i]
          BY <1>4, <1>6, <1>7, <3>4
        <5>2. sunk[i].at >= sunk[k].at
          BY <1>4, <1>5, <5>1 DEF Newest
        <5>3. sunk[i].at \in Nat /\ sunk[k].at \in Nat
          BY <1>4, <5>1, LeafFields
        <5> QED BY <3>2, <5>1, <5>2, <5>3
      <4> QED BY <2>2, <3>1, <4>1
    <3> QED BY <3>3, <3>4
  <2> QED BY <2>1, <2>2
<1> QED BY <1>10, <1>11

\* What InsertEvent makes of the state, with the event it inserts named.
LEMMA Inserted ==
  ASSUME IInv, NEW t \in Threads, InsertEvent(t)
  PROVE  \E e \in Event, h \in 0 .. MaxRank + 1 :
           /\ e.id = nextId
           /\ events' = [events EXCEPT ![e.path] = Trim(Sink(@, e), h)]
           /\ cueing' = [cueing EXCEPT ![t] = e]
<1>1. PICK p \in Paths, r \in Own(t), v \in Vals, h \in 0 .. MaxRank + 1 :
        LET e == [id |-> nextId, path |-> p, at |-> r, val |-> v]
        IN  /\ events' = [events EXCEPT ![p] = Trim(Sink(@, e), h)]
            /\ cueing' = [cueing EXCEPT ![t] = e]
  BY DEF InsertEvent
<1> DEFINE e == [id |-> nextId, path |-> p, at |-> r, val |-> v]
<1>2. nextId \in Ids
  BY BoundsAssumption DEF InsertEvent, Ids, IInv, TypeOK
<1>3. e \in Event /\ e.path = p /\ e.id = nextId
  BY <1>2 DEF Event, Own
<1> QED BY <1>1, <1>3

\* No other step touches the history.
LEMMA HistoryUntouched ==
  ASSUME [Next]_vars, ~ \E t \in Threads : InsertEvent(t)
  PROVE  UNCHANGED histVars
BY DEF Next, Step, vars, histVars, Sleep, StartSync, SeekFound, SeekNothing, PutMatcher,
       Wake, ReseekFound, ReseekNothing, MatchEvent, Deliver, Kill, Prune

-----------------------------------------------------------------------------
(* The history as a filing of insertions.                                  *)

\* An event lies under its own path, and was inserted.
HistoryIsFiled ==
  \A p \in Paths : \A i \in 1 .. Len(events[p]) :
    events[p][i].path = p /\ events[p][i].id < nextId

\* Between the two locks of set, nothing in the history has the id of the event
\* but the event.
CueIsFiled ==
  \A t \in Threads : pc[t] = "match" =>
    /\ cueing[t].id < nextId
    /\ \A p \in Paths : \A i \in 1 .. Len(events[p]) :
         events[p][i].id = cueing[t].id => events[p][i] = cueing[t]

Filed == IInv /\ HistoryIsFiled /\ CueIsFiled

\* Init establishes it.
LEMMA InitFiled == Init => Filed
<1> SUFFICES ASSUME Init PROVE Filed
  OBVIOUS
<1>1. IInv
  BY InitIInv
<1>2. \A p \in Paths : 1 .. Len(events[p]) = {}
  BY DEF Init
<1>3. HistoryIsFiled
  BY <1>2 DEF HistoryIsFiled
<1>4. CueIsFiled
  BY DEF Init, CueIsFiled
<1> QED BY <1>1, <1>3, <1>4 DEF Filed

\* Every step keeps the history filed: the next id is above all that are used.
LEMMA FiledInductive == Filed /\ [Next]_vars => HistoryIsFiled' /\ CueIsFiled'
<1> SUFFICES ASSUME Filed, [Next]_vars PROVE HistoryIsFiled' /\ CueIsFiled'
  OBVIOUS
<1>0. /\ IInv /\ TypeOK /\ HistorySorted /\ HistoryIsFiled /\ CueIsFiled
      /\ nextId \in Nat
  BY BoundsAssumption DEF Filed, IInv, TypeOK
<1>a. pc \in [Threads -> {"idle", "seek", "put", "wait", "reseek", "match",
                          "dead", "error", "pruned"}]
  BY <1>0 DEF TypeOK
<1>1. ASSUME NEW t \in Threads, InsertEvent(t) PROVE HistoryIsFiled' /\ CueIsFiled'
  <2>1. PICK e \in Event, h \in 0 .. MaxRank + 1 :
          /\ e.id = nextId
          /\ events' = [events EXCEPT ![e.path] = Trim(Sink(@, e), h)]
          /\ cueing' = [cueing EXCEPT ![t] = e]
    BY <1>0, <1>1, Inserted
  <2>2. \A p \in Paths : \A i \in 1 .. Len(events'[p]) :
          \/ p = e.path /\ events'[p][i] = e
          \/ \E j \in 1 .. Len(events[p]) : events'[p][i] = events[p][j]
    BY <1>0, <2>1, InsertPlaces
  <2>3. nextId' = nextId + 1
    BY <1>1 DEF InsertEvent
  <2>4. \A p \in Paths : \A j \in 1 .. Len(events[p]) : events[p][j].id \in Nat
    <3> SUFFICES ASSUME NEW p \in Paths, NEW j \in 1 .. Len(events[p])
                 PROVE  events[p][j].id \in Nat
      OBVIOUS
    <3>1. events[p] \in Seq(Event)
      BY <1>0 DEF TypeOK
    <3>2. events[p][j] \in Event
      BY <3>1
    <3> QED BY <3>2, BoundsAssumption DEF Event, Ids
  <2>5. HistoryIsFiled'
    <3> SUFFICES ASSUME NEW p \in Paths, NEW i \in 1 .. Len(events'[p])
                 PROVE  events'[p][i].path = p /\ events'[p][i].id < nextId'
      BY DEF HistoryIsFiled
    <3>1. CASE p = e.path /\ events'[p][i] = e
      BY <1>0, <2>1, <2>3, <3>1
    <3>2. ASSUME NEW j \in 1 .. Len(events[p]), events'[p][i] = events[p][j]
          PROVE  events'[p][i].path = p /\ events'[p][i].id < nextId'
      BY <1>0, <2>3, <2>4, <3>2 DEF HistoryIsFiled
    <3> QED BY <2>2, <3>1, <3>2
  <2>6. CueIsFiled'
    <3> SUFFICES ASSUME NEW u \in Threads, pc'[u] = "match"
                 PROVE  /\ cueing'[u].id < nextId'
                        /\ \A p \in Paths : \A i \in 1 .. Len(events'[p]) :
                             events'[p][i].id = cueing'[u].id => events'[p][i] = cueing'[u]
      BY DEF CueIsFiled
    <3>1. CASE u = t
      <4>1. cueing'[u] = e
        BY <1>0, <2>1, <3>1 DEF TypeOK
      <4>2. ASSUME NEW p \in Paths, NEW i \in 1 .. Len(events'[p]),
                   NEW j \in 1 .. Len(events[p]), events'[p][i] = events[p][j]
            PROVE  events'[p][i].id # e.id
        BY <1>0, <2>1, <2>4, <4>2 DEF HistoryIsFiled
      <4> QED BY <1>0, <2>1, <2>2, <2>3, <4>1, <4>2
    <3>2. CASE u # t
      <4>1. pc[u] = "match" /\ cueing'[u] = cueing[u]
        BY <1>0, <1>1, <1>a, <2>1, <3>2 DEF InsertEvent, Goto, TypeOK
      <4>2. /\ cueing[u].id < nextId /\ cueing[u].id # e.id
            /\ cueing[u].id \in Nat
        <5>1. cueing[u] \in Event
          BY <1>0, <4>1 DEF IInv, CueInHistory
        <5>2. cueing[u].id \in Nat
          BY <5>1, BoundsAssumption DEF Event, Ids
        <5>3. cueing[u].id < nextId
          BY <1>0, <4>1 DEF CueIsFiled
        <5> QED BY <1>0, <2>1, <5>2, <5>3
      <4>3. cueing'[u].id < nextId'
        BY <1>0, <2>3, <4>1, <4>2
      <4>4. ASSUME NEW p \in Paths, NEW i \in 1 .. Len(events'[p]),
                   events'[p][i].id = cueing[u].id
            PROVE  events'[p][i] = cueing[u]
        <5>1. PICK j \in 1 .. Len(events[p]) : events'[p][i] = events[p][j]
          BY <2>2, <4>2, <4>4
        <5> QED BY <1>0, <4>1, <4>4, <5>1 DEF CueIsFiled
      <4> QED BY <4>1, <4>3, <4>4
    <3> QED BY <3>1, <3>2
  <2> QED BY <2>5, <2>6
<1>2. CASE ~ \E t \in Threads : InsertEvent(t)
  <2>1. events' = events /\ nextId' = nextId
    BY <1>2, HistoryUntouched DEF histVars
  <2>2. \A u \in Threads : pc'[u] = "match" => pc[u] = "match" /\ cueing'[u] = cueing[u]
    BY <1>0, <1>2, <1>a DEF Next, Step, vars, Sleep, StartSync, SeekFound, SeekNothing,
          PutMatcher, Wake, ReseekFound, ReseekNothing, MatchEvent, Deliver, Kill, Prune,
          Goto, TypeOK
  <2> QED BY <1>0, <2>1, <2>2 DEF HistoryIsFiled, CueIsFiled
<1> QED BY <1>1, <1>2

\* Filed is an invariant of EventHistory.
THEOREM FiledAlways == Spec => []Filed
<1>1. Spec => []IInv
  BY Inductive
<1>2. Filed /\ IInv' /\ [Next]_vars => Filed'
  BY FiledInductive DEF Filed
<1> QED BY InitFiled, <1>1, <1>2, PTL DEF Spec

-----------------------------------------------------------------------------
(* The gap of sync.                                                        *)

\* Who has been robbed of a matcher is so for as long as it sleeps.
LEMMA RobbedStays ==
  ASSUME TypeOK, [Next]_vars, NEW t \in Threads, moment'[t] = moment[t], Robbed(t)
  PROVE  Robbed(t)'
<1>1. PICK c \in Threads : pc[c] = "pruned" /\ Id[c] = Handle(t)
  BY DEF Robbed
<1>2. pc'[c] = "pruned"
  BY <1>1 DEF TypeOK, Next, Step, vars, Sleep, StartSync, SeekFound, SeekNothing, PutMatcher,
        Wake, ReseekFound, ReseekNothing, MatchEvent, Deliver, Kill, Prune, InsertEvent, Goto
<1>3. Handle(t)' = Handle(t)
  BY DEF Handle
<1> QED BY <1>1, <1>2, <1>3 DEF Robbed

\* A sleeper stays where its sync left it, and so does its matcher, until a match
\* pass of an event it accepts wakes it, or it is killed, or the clean-up of a thread
\* takes the matcher.
LEMMA SleeperStays ==
  ASSUME TypeOK, [Next]_vars, NEW t \in Threads, Asleep(t)'
  PROVE  \/ PutMatcher(t)
         \/ /\ Asleep(t)
            /\ want'[t] = want[t] /\ ok'[t] = ok[t] /\ moment'[t] = moment[t]
            /\ blind'[t] = blind[t]
            /\ t \in matchers' => t \in matchers
            /\ t \in matchers => t \in matchers' \/ Robbed(t)'
<1>0. /\ pc \in [Threads -> {"idle", "seek", "put", "wait", "reseek", "match",
                             "dead", "error", "pruned"}]
      /\ moment \in [Threads -> Ranks]
      /\ want \in [Threads -> Patterns] /\ ok \in [Threads -> SUBSET Vals]
      /\ blind \in [Threads -> SUBSET Ids]
  BY DEF TypeOK
<1>1. pc'[t] = "wait" /\ t \notin woken'
  BY DEF Asleep
<1> DEFINE Stays == /\ Asleep(t) /\ want'[t] = want[t] /\ ok'[t] = ok[t]
                    /\ moment'[t] = moment[t] /\ blind'[t] = blind[t]
                    /\ t \in matchers' => t \in matchers
                    /\ t \in matchers => t \in matchers' \/ Robbed(t)'
<1>2. CASE UNCHANGED vars
  BY <1>1, <1>2 DEF vars, Asleep
<1>3. ASSUME NEW u \in Threads, Sleep(u) \/ StartSync(u) \/ InsertEvent(u)
      PROVE  Stays
  <2>1. pc[t] = "wait" /\ t # u /\ t \notin woken /\ matchers' = matchers
    BY <1>0, <1>1, <1>3 DEF Sleep, StartSync, InsertEvent, Goto, wakeVars
  <2> QED BY <1>0, <1>3, <2>1
             DEF Sleep, StartSync, InsertEvent, syncVars, wakeVars, Asleep
<1>4. ASSUME NEW u \in Threads, Step(u) \/ Kill(u), ~PutMatcher(t)
      PROVE  Stays
  <2>1. pc[t] = "wait" /\ t # u
    BY <1>0, <1>1, <1>4 DEF Step, SeekFound, SeekNothing, PutMatcher, Wake, ReseekFound,
          ReseekNothing, MatchEvent, Deliver, Kill, Prune, Goto
  <2>2. t \notin woken
    BY <1>1, <1>4, <2>1 DEF Step, SeekFound, SeekNothing, PutMatcher, Wake, ReseekFound,
          ReseekNothing, MatchEvent, Deliver, Kill, Prune, wakeVars
  <2>3. want'[t] = want[t] /\ ok'[t] = ok[t]
    BY <1>0, <1>4, <2>1 DEF Step, SeekFound, SeekNothing, PutMatcher, Wake, ReseekFound,
          ReseekNothing, MatchEvent, Deliver, Kill, Prune, Return, EndSync, syncVars
  <2>4. moment'[t] = moment[t]
    BY <1>0, <1>4, <2>1 DEF Step, SeekFound, SeekNothing, PutMatcher, Wake, ReseekFound,
          ReseekNothing, MatchEvent, Deliver, Kill, Prune, Return
  <2>5. blind'[t] = blind[t]
    BY <1>0, <1>4, <2>1 DEF Step, SeekFound, SeekNothing, PutMatcher, Wake, ReseekFound,
          ReseekNothing, MatchEvent, Deliver, Kill, Prune, Return, EndSync, wakeVars
  <2>6. t \in matchers' => t \in matchers
    BY <1>4, <2>1 DEF Step, SeekFound, SeekNothing, PutMatcher, Wake, ReseekFound,
          ReseekNothing, MatchEvent, Deliver, Kill, Prune, wakeVars
  <2>7. ASSUME t \in matchers, t \notin matchers' PROVE Robbed(t)'
    <3>1. Prune(u)
      BY <1>1, <1>4, <2>7 DEF Step, SeekFound, SeekNothing, PutMatcher, Wake, ReseekFound,
          ReseekNothing, MatchEvent, Deliver, Kill, wakeVars
    <3>2. Handle(t) = Id[u] /\ pc'[u] = "pruned"
      BY <1>0, <2>7, <3>1 DEF Prune
    <3>3. Handle(t)' = Handle(t)
      BY <2>4 DEF Handle
    <3> QED BY <3>2, <3>3 DEF Robbed
  <2> QED BY <2>1, <2>2, <2>3, <2>4, <2>5, <2>6, <2>7 DEF Asleep
<1> HIDE DEF Stays
<1>5. PutMatcher(t) \/ Stays
  BY <1>2, <1>3, <1>4 DEF Next, Stays
<1> QED BY <1>5 DEF Stays

\* Missed, event by event.
MissedOneByOne ==
  \A t \in Threads : \A x : x \in Missed(t) <=>
    \E p \in Paths : \E i \in DOMAIN events[p] : Accepts(t, events[p][i]) /\ x = events[p][i].id

\* The union of Missed is over the paths and places of the history.
LEMMA MissedEvents == MissedOneByOne
<1> SUFFICES ASSUME NEW t \in Threads, NEW x
             PROVE  x \in Missed(t) <=>
                      \E p \in Paths : \E i \in DOMAIN events[p] :
                        Accepts(t, events[p][i]) /\ x = events[p][i].id
  BY DEF MissedOneByOne
<1> DEFINE Of(p) == {events[p][i].id : i \in {j \in DOMAIN events[p] : Accepts(t, events[p][j])}}
<1>1. \A p \in Paths : x \in Of(p) <=>
        \E i \in DOMAIN events[p] : Accepts(t, events[p][i]) /\ x = events[p][i].id
  OBVIOUS
<1>2. Missed(t) = UNION {Of(p) : p \in Paths}
  BY DEF Missed
<1> HIDE DEF Of
<1>3. x \in Missed(t) <=> \E p \in Paths : x \in Of(p)
  BY <1>2
<1> QED BY <1>1, <1>3

\* Every step keeps a sleeper from missing anything but what passed in the gap.
LEMMA GapInductive == Filed /\ SleepsOnlyThroughTheGap /\ [Next]_vars => SleepsOnlyThroughTheGap'
<1> SUFFICES ASSUME Filed, SleepsOnlyThroughTheGap, [Next]_vars,
                    NEW t \in Threads, Asleep(t)'
             PROVE  IF t \in matchers' THEN (Missed(t) \subseteq unmatched \cup blind[t])'
                                       ELSE Robbed(t)'
  BY DEF SleepsOnlyThroughTheGap
<1>0. IInv /\ TypeOK /\ TypeOK' /\ HistorySorted /\ HistoryIsFiled /\ CueIsFiled
  BY TypeInductive DEF Filed, IInv
<1>r. ASSUME t \notin matchers' PROVE Robbed(t)'
  <2>1. ~PutMatcher(t)
    BY <1>r DEF PutMatcher
  <2>2. /\ Asleep(t) /\ moment'[t] = moment[t]
        /\ t \in matchers => Robbed(t)'
    BY <1>0, <1>r, <2>1, SleeperStays
  <2>3. t \notin matchers => Robbed(t)
    BY <2>2 DEF SleepsOnlyThroughTheGap
  <2> QED BY <1>0, <2>2, <2>3, RobbedStays
<1> SUFFICES ASSUME t \in matchers' PROVE (Missed(t) \subseteq unmatched \cup blind[t])'
  BY <1>r
<1> SUFFICES ASSUME NEW p \in Paths, NEW i \in 1 .. Len(events'[p]),
                    Accepts(t, events[p][i])'
             PROVE  events'[p][i].id \in unmatched' \cup blind'[t]
  <2>1. events' \in [Paths -> Seq(Event)]
    BY <1>0 DEF TypeOK
  <2>2. \A p \in Paths : DOMAIN events'[p] = 1 .. Len(events'[p])
    BY <2>1
  <2>3. MissedOneByOne'
    BY MissedEvents, PTL
  <2>4. SUFFICES ASSUME NEW x, x \in Missed(t)' PROVE x \in unmatched' \cup blind'[t]
    OBVIOUS
  <2>5. PICK p \in Paths : \E i \in DOMAIN events'[p] :
               Accepts(t, events[p][i])' /\ x = events'[p][i].id
    BY <2>3, <2>4 DEF MissedOneByOne
  <2> QED BY <2>2, <2>5
<1>1. CASE PutMatcher(t)
  <2>1. /\ events' = events /\ unmatched' = unmatched
        /\ blind'[t] = (0 .. nextId - 1) \ unmatched
    BY <1>0, <1>1 DEF PutMatcher, histVars, TypeOK
  <2>2. events[p][i].id \in 0 .. nextId - 1
    <3>1. events[p] \in Seq(Event)
      BY <1>0 DEF TypeOK
    <3>2. events[p][i] \in Event
      BY <2>1, <3>1
    <3>3. events[p][i].id < nextId
      BY <1>0, <2>1 DEF HistoryIsFiled
    <3>4. events[p][i].id \in Nat
      BY <3>2, BoundsAssumption DEF Event, Ids
    <3>5. nextId \in Nat
      BY <1>0, BoundsAssumption DEF TypeOK
    <3> QED BY <3>3, <3>4, <3>5
  <2> QED BY <2>1, <2>2
<1>2. CASE ~PutMatcher(t)
  <2>1. /\ Asleep(t) /\ t \in matchers /\ t \notin woken'
        /\ want'[t] = want[t] /\ ok'[t] = ok[t] /\ moment'[t] = moment[t]
        /\ blind'[t] = blind[t]
    BY <1>0, <1>2, SleeperStays DEF Asleep
  <2>2. Accepts(t, events'[p][i])
    BY <2>1 DEF Accepts
  <2>3. \A q \in Paths : \A j \in 1 .. Len(events[q]) :
          Accepts(t, events[q][j]) => events[q][j].id \in unmatched \cup blind[t]
    <3>1. Missed(t) \subseteq unmatched \cup blind[t]
      BY <2>1 DEF SleepsOnlyThroughTheGap
    <3>2. \A q \in Paths : DOMAIN events[q] = 1 .. Len(events[q])
      BY <1>0 DEF TypeOK
    <3> QED BY <3>1, <3>2, MissedEvents DEF MissedOneByOne
  <2>4. CASE \E u \in Threads : InsertEvent(u)
    <3>1. PICK u \in Threads : InsertEvent(u)
      BY <2>4
    <3>2. PICK e \in Event, h \in 0 .. MaxRank + 1 :
            /\ e.id = nextId
            /\ events' = [events EXCEPT ![e.path] = Trim(Sink(@, e), h)]
      BY <1>0, <3>1, Inserted
    <3>3. unmatched' = unmatched \cup {nextId}
      BY <3>1 DEF InsertEvent
    <3>4. \/ events'[p][i] = e
          \/ \E j \in 1 .. Len(events[p]) : events'[p][i] = events[p][j]
      BY <1>0, <3>2, InsertPlaces
    <3> QED BY <2>1, <2>2, <2>3, <3>2, <3>3, <3>4
  <2>5. CASE ~ \E u \in Threads : InsertEvent(u)
    <3>1. events' = events
      BY <2>5, HistoryUntouched DEF histVars
    <3>2. events[p][i].id \in unmatched \cup blind[t]
      BY <2>2, <2>3, <3>1
    <3>3. CASE \E u \in Threads : MatchEvent(u)
      <4>1. PICK u \in Threads : MatchEvent(u)
        BY <3>3
      <4>2. /\ pc[u] = "match" /\ unmatched' = unmatched \ {cueing[u].id}
            /\ t \notin Hits(u)
        BY <2>1, <4>1 DEF MatchEvent, Deliver, Goto
      <4>3. ~Accepts(t, cueing[u])
        BY <2>1, <4>2 DEF Hits, Asleep
      <4>4. events[p][i].id # cueing[u].id
        <5>1. events[p][i].id = cueing[u].id => events[p][i] = cueing[u]
          BY <1>0, <3>1, <4>2 DEF CueIsFiled
        <5> QED BY <2>2, <3>1, <4>3, <5>1
      <4> QED BY <2>1, <3>1, <3>2, <4>2, <4>4
    <3>4. CASE ~ \E u \in Threads : MatchEvent(u)
      <4>1. unmatched' = unmatched
        BY <2>5, <3>4 DEF Next, Step, vars, Sleep, StartSync, SeekFound, SeekNothing,
              PutMatcher, Wake, ReseekFound, ReseekNothing, Kill, Prune
      <4> QED BY <2>1, <3>1, <3>2, <4>1
    <3> QED BY <3>3, <3>4
  <2> QED BY <2>4, <2>5
<1> QED BY <1>1, <1>2

\* A sync sleeps through a matching event only if its match pass ended before
\* the matcher was put, or has not run yet, or if the thread whose event the sleeper
\* last synced to has been cleaned up and its matcher with it: whatever else is
\* inserted, trimmed, matched or killed meanwhile (EventHistory#set, #sync, #prune).
THEOREM NothingElseIsMissed == Spec => []SleepsOnlyThroughTheGap
<1>1. Init => SleepsOnlyThroughTheGap
  BY DEF Init, SleepsOnlyThroughTheGap, Asleep
<1> QED BY <1>1, FiledAlways, GapInductive, PTL DEF Spec

-----------------------------------------------------------------------------
(* EventHistory implements TimeState.                                      *)

\* What EventHistory puts for the variables of TimeState.
Board == UNION {{events[p][i] : i \in DOMAIN events[p]} : p \in Paths}
Syncing == {"seek", "put", "wait", "reseek"}
Times == [r \in Ranks |-> Key[r].time]
Asking == [t \in Threads |-> IF pc[t] \in {"seek", "put", "wait", "reseek"}
                             THEN <<want[t], ok[t]>> ELSE <<>>]

\* The board, event by event.
BoardOneByOne ==
  \A x : x \in Board <=> \E p \in Paths : \E i \in 1 .. Len(events[p]) : x = events[p][i]

\* The union of Board is over the paths and places of the history.
LEMMA BoardEvents == TypeOK => BoardOneByOne
<1> SUFFICES ASSUME TypeOK, NEW x
             PROVE  x \in Board <=>
                      \E p \in Paths : \E i \in 1 .. Len(events[p]) : x = events[p][i]
  BY DEF BoardOneByOne
<1> DEFINE Of(p) == {events[p][i] : i \in DOMAIN events[p]}
<1>1. \A p \in Paths : x \in Of(p) <=> \E i \in DOMAIN events[p] : x = events[p][i]
  OBVIOUS
<1>2. \A p \in Paths : DOMAIN events[p] = 1 .. Len(events[p])
  BY DEF TypeOK
<1>3. Board = UNION {Of(p) : p \in Paths}
  BY DEF Board
<1> HIDE DEF Of
<1>4. x \in Board <=> \E p \in Paths : x \in Of(p)
  BY <1>3
<1> QED BY <1>1, <1>2, <1>4

\* An insertion posts its event.
LEMMA InsertPosts ==
  ASSUME Filed, TypeOK', BoardOneByOne, BoardOneByOne', NEW t \in Threads, InsertEvent(t)
  PROVE  Promise!Post
<1>0. IInv /\ TypeOK /\ HistorySorted /\ HistoryIsFiled
  BY DEF Filed, IInv
<1>a. pc \in [Threads -> {"idle", "seek", "put", "wait", "reseek", "match",
                          "dead", "error", "pruned"}]
  BY <1>0 DEF TypeOK
<1>1. PICK e \in Event, h \in 0 .. MaxRank + 1 :
        /\ e.id = nextId
        /\ events' = [events EXCEPT ![e.path] = Trim(Sink(@, e), h)]
  BY <1>0, Inserted
<1>2. /\ \A p \in Paths : \A i \in 1 .. Len(events'[p]) :
           \/ p = e.path /\ events'[p][i] = e
           \/ \E j \in 1 .. Len(events[p]) : events'[p][i] = events[p][j]
      /\ \A p \in Paths : \A j \in 1 .. Len(events[p]) :
           \/ \E i \in 1 .. Len(events'[p]) : events'[p][i] = events[p][j]
           \/ /\ p = e.path
              /\ \A i \in 1 .. Len(events'[p]) : events[p][j].at <= events'[p][i].at
  BY <1>0, <1>1, InsertPlaces
<1>3. \A x : x \in Board <=> \E p \in Paths : \E i \in 1 .. Len(events[p]) : x = events[p][i]
  BY DEF BoardOneByOne
<1>4. \A x : x \in Board' <=> \E p \in Paths : \E i \in 1 .. Len(events'[p]) : x = events'[p][i]
  BY DEF BoardOneByOne
<1>5. \A x \in Board' : x \in Board \/ x = e
  BY <1>2, <1>3, <1>4
<1>6. e \in Promise!Event
  <2>1. e \in [id : Ids, path : Paths, at : Ranks, val : Vals]
    BY DEF Event
  <2>2. Ids \subseteq Nat /\ Ranks \subseteq Nat
    BY BoundsAssumption DEF Ids, Ranks
  <2> QED BY <2>1, <2>2 DEF Promise!Event
<1>7. \A f \in Board : f.id < e.id
  BY <1>0, <1>1, <1>3 DEF HistoryIsFiled
<1>8. ASSUME NEW f \in Board, f \notin Board'
      PROVE  /\ \E g \in Board' : g.path = f.path
             /\ \A g \in Board' : g.path = f.path => f.at <= g.at
  <2>1. PICK p \in Paths : \E j \in 1 .. Len(events[p]) : f = events[p][j]
    BY <1>3
  <2>2. PICK j \in 1 .. Len(events[p]) : f = events[p][j]
    BY <2>1
  <2>3. f.path = p
    BY <1>0, <2>2 DEF HistoryIsFiled
  <2>4. p = e.path /\ \A i \in 1 .. Len(events'[p]) : f.at <= events'[p][i].at
    BY <1>2, <1>4, <1>8, <2>2
  <2>5. \A q \in Paths : \A i \in 1 .. Len(events'[q]) : events'[q][i].path = q
    <3> SUFFICES ASSUME NEW q \in Paths, NEW i \in 1 .. Len(events'[q])
                 PROVE  events'[q][i].path = q
      OBVIOUS
    <3>1. ASSUME NEW k \in 1 .. Len(events[q]), events'[q][i] = events[q][k]
          PROVE  events'[q][i].path = q
      BY <1>0, <3>1 DEF HistoryIsFiled
    <3> QED BY <1>2, <3>1
  <2>6. \A g \in Board' : g.path = p => f.at <= g.at
    BY <1>4, <2>4, <2>5
  <2>7. 1 \in 1 .. Len(events'[p])
    <3>1. events'[p] # <<>>
      BY <1>0, <1>1, <2>4, InsertKeepsTheNewest
    <3>2. events'[p] \in Seq(Event)
      BY DEF TypeOK
    <3> QED BY <3>1, <3>2
  <2>8. events'[p][1] \in Board' /\ events'[p][1].path = p
    BY <1>4, <2>5, <2>7
  <2> QED BY <2>3, <2>6, <2>8
<1>9. Asking' = Asking /\ moment' = moment
  <2>1. \A u \in Threads : /\ pc'[u] \in Syncing <=> pc[u] \in Syncing
                           /\ want'[u] = want[u] /\ ok'[u] = ok[u]
    BY <1>a DEF InsertEvent, Goto, syncVars, Syncing
  <2> QED BY <2>1 DEF Asking, Syncing, InsertEvent
<1>10. /\ Board' \subseteq Board \cup Promise!Event
       /\ \A x, y \in Board' \ Board : x = y
       /\ \A x \in Board' \ Board, f \in Board : f.id < x.id
  BY <1>5, <1>6, <1>7
<1> QED BY <1>8, <1>9, <1>10 DEF Promise!Post, Board, Asking
\* Where a thread's question changes, and no one else's.
LEMMA AskingOfOne ==
  ASSUME NEW t \in Threads, NEW v,
         \A u \in Threads \ {t} : /\ pc'[u] = pc[u]
                                  /\ want'[u] = want[u] /\ ok'[u] = ok[u],
         v = IF pc'[t] \in Syncing THEN <<want'[t], ok'[t]>> ELSE <<>>
  PROVE  Asking' = [Asking EXCEPT ![t] = v]
BY DEF Asking, Syncing

\* A later moment is at no earlier time.
LEMMA TimeGoesOn ==
  ASSUME NEW r \in Ranks, NEW s \in Ranks, r > s
  PROVE  Key[r].time >= Key[s].time
<1>1. r \in Nat /\ s \in Nat /\ r \in 1 .. MaxRank /\ s \in 1 .. MaxRank
  BY BoundsAssumption DEF Ranks
<1>2. Key[r].time \in Int /\ Key[s].time \in Int
  BY <1>1, KeyAssumption DEF CueKeys
<1>3. Compare(Key[s], Key[r]) = -1
  BY <1>1, KeyAssumption
<1> QED BY <1>2, <1>3 DEF Compare, Sign

\* What a sync returns is what TimeState releases it with.
LEMMA ReturnReleases ==
  ASSUME Filed, TypeOK', BoardOneByOne, NEW t \in Threads,
         pc[t] \in {"seek", "reseek"}, pc' = [pc EXCEPT ![t] = "idle"],
         Return(t), events' = events
  PROVE  Promise!Release(t)
<1>0. IInv /\ TypeOK /\ HistorySorted /\ HistoryIsFiled
  BY DEF Filed, IInv
<1>a. /\ pc \in [Threads -> {"idle", "seek", "put", "wait", "reseek", "match",
                             "dead", "error", "pruned"}]
      /\ want \in [Threads -> Patterns] /\ ok \in [Threads -> SUBSET Vals]
  BY <1>0 DEF TypeOK
<1>b. moment[t] \in Nat
  BY <1>0, BoundsAssumption DEF TypeOK, Ranks
<1>1. PICK e \in Earliest(Candidates(want[t], moment[t], ok[t])) :
        moment' = [moment EXCEPT ![t] = e.at]
  BY DEF Return
<1>2. PICK p \in Finds[want[t]] : /\ NextHits(events[p], moment[t], ok[t]) # {}
                                  /\ e = FindNext(events[p], moment[t], ok[t])
  BY DEF Earliest, Candidates
<1>3. Finds[want[t]] \subseteq Paths
  BY <1>a, WakesAreFound
<1>4. \A q \in Paths : events[q] \in Seq(Event) /\ Newest(events[q])
  BY <1>0 DEF TypeOK, HistorySorted
<1>5. \A x : x \in Board <=> \E q \in Paths : \E i \in 1 .. Len(events[q]) : x = events[q][i]
  BY DEF BoardOneByOne
<1>6. \A q \in Paths : \A i \in 1 .. Len(events[q]) : events[q][i].path = q
  BY <1>0 DEF HistoryIsFiled
<1>7. Asking[t] = <<want[t], ok[t]>>
  BY DEF Asking
<1> DEFINE Sought == {x \in Board : /\ x.path \in Finds[want[t]]
                                    /\ x.at > moment[t] /\ x.val \in ok[t]}
           Behind(f) == \E g \in Board : /\ g.path = f.path
                                         /\ moment[t] < g.at /\ g.at <= f.at
                                         /\ g.val \notin ok[t]
<1>8. e \in Sought
  <2>1. /\ Max(NextHits(events[p], moment[t], ok[t])) \in 1 .. Len(events[p])
        /\ e = events[p][Max(NextHits(events[p], moment[t], ok[t]))]
        /\ e.at > moment[t] /\ e.val \in ok[t]
    BY <1>b, <1>2, <1>3, <1>4, NextIsEarliest DEF FindNext
  <2> QED BY <1>2, <1>3, <1>5, <1>6, <2>1
<1>9. ASSUME NEW f \in Sought, f.at < e.at PROVE Behind(f)
  <2>1. PICK q \in Paths : \E i \in 1 .. Len(events[q]) : f = events[q][i]
    BY <1>5
  <2>2. PICK i \in 1 .. Len(events[q]) : f = events[q][i]
    BY <2>1
  <2>3. q \in Finds[want[t]] /\ f.path = q
    BY <1>6, <2>2
  <2>4. CASE NextHits(events[q], moment[t], ok[t]) # {}
    <3>1. FindNext(events[q], moment[t], ok[t]) \in Candidates(want[t], moment[t], ok[t])
      BY <2>3, <2>4 DEF Candidates
    <3>2. e.at <= FindNext(events[q], moment[t], ok[t]).at
      BY <3>1 DEF Earliest
    <3>3. FindNext(events[q], moment[t], ok[t]).at <= f.at
      BY <1>b, <1>4, <2>2, <2>4, NextIsEarliest DEF FindNext
    <3>4. FindNext(events[q], moment[t], ok[t]) \in Event /\ f \in Event /\ e \in Event
      <4>1. f \in Event
        BY <1>4, <2>2
      <4>2. FindNext(events[q], moment[t], ok[t]) \in Event
        BY <1>b, <1>4, <2>4, NextIsEvent
      <4>3. FindNext(events[p], moment[t], ok[t]) \in Event
        BY <1>b, <1>2, <1>3, <1>4, NextIsEvent
      <4> QED BY <1>2, <4>1, <4>2, <4>3
    <3>5. FindNext(events[q], moment[t], ok[t]).at \in Nat /\ f.at \in Nat /\ e.at \in Nat
      BY <3>4, EventFields
    <3> QED BY <1>9, <3>2, <3>3, <3>5
  <2>5. CASE NextHits(events[q], moment[t], ok[t]) = {}
    <3> DEFINE g == events[q][Len(events[q])]
    <3>1. moment[t] < g.at /\ g.at <= f.at /\ g.val \notin ok[t]
      BY <1>b, <1>4, <2>2, <2>5, NextIsEarliest
    <3>2. Len(events[q]) \in 1 .. Len(events[q])
      BY <1>4, <2>2
    <3>3. g \in Board /\ g.path = q
      BY <1>5, <1>6, <3>2
    <3> QED BY <2>3, <3>1, <3>3
  <2> QED BY <2>4, <2>5
<1>10. Asking' = [Asking EXCEPT ![t] = <<>>]
  <2>1. pc'[t] = "idle" /\ \A u \in Threads \ {t} : pc'[u] = pc[u]
    BY <1>a
  <2>2. \A u \in Threads \ {t} : want'[u] = want[u] /\ ok'[u] = ok[u]
    BY <1>a DEF Return, EndSync
  <2> QED BY <2>1, <2>2, AskingOfOne DEF Syncing
<1>11. Board' = Board
  BY DEF Board
<1>12. Sought = Promise!Awaited(t)
  BY <1>7 DEF Promise!Awaited, Board, Asking
<1>13. \A f : Behind(f) => Promise!Hidden(t, f)
  BY <1>7 DEF Promise!Hidden, Board, Asking
<1> HIDE DEF Sought, Behind
<1>14. Asking[t] # <<>>
  BY <1>7
<1>15. e \in Promise!Awaited(t)
  BY <1>8, <1>12
<1>16. ASSUME NEW f \in Promise!Awaited(t), f.at < e.at PROVE Promise!Hidden(t, f)
  <2>1. f \in Sought
    BY <1>12, <1>16
  <2>2. Behind(f)
    BY <1>9, <1>16, <2>1
  <2> QED BY <1>13, <2>2
<1>17. Times[e.at] >= Times[moment[t]]
  <2>1. e.at \in Ranks /\ moment[t] \in Ranks /\ e.at > moment[t]
    BY <1>0, <1>1, <1>8, ReturnedMoment DEF TypeOK, Sought
  <2> QED BY <2>1, TimeGoesOn DEF Times
<1>18. \E x \in Promise!Awaited(t) :
         /\ \A f \in Promise!Awaited(t) : f.at < x.at => Promise!Hidden(t, f)
         /\ Times[x.at] >= Times[moment[t]]
         /\ moment' = [moment EXCEPT ![t] = x.at]
  BY <1>1, <1>15, <1>16, <1>17
<1> QED BY <1>10, <1>11, <1>14, <1>18 DEF Promise!Release, Board, Asking, Times

\* Every step of EventHistory is one of TimeState, or none.
LEMMA StepsAreKept ==
  ASSUME Filed, TypeOK', BoardOneByOne, BoardOneByOne', [Next]_vars
  PROVE  [Promise!Next]_(Promise!vars)
<1>0. IInv /\ TypeOK
  BY DEF Filed, IInv
<1>a. /\ pc \in [Threads -> {"idle", "seek", "put", "wait", "reseek", "match",
                             "dead", "error", "pruned"}]
      /\ want \in [Threads -> Patterns] /\ ok \in [Threads -> SUBSET Vals]
      /\ moment \in [Threads -> Ranks]
  BY <1>0 DEF TypeOK
<1>b. ASSUME NEW t \in Threads, pc' = [pc EXCEPT ![t] = pc'[t]]
      PROVE  \A u \in Threads \ {t} : pc'[u] = pc[u]
  BY <1>a, <1>b
<1>c. ASSUME events' = events, moment' = moment, Asking' = Asking
      PROVE  UNCHANGED Promise!vars
  BY <1>c DEF Promise!vars, Asking
<1>1. CASE UNCHANGED vars
  BY <1>1, <1>c DEF vars, Asking
<1>2. ASSUME NEW t \in Threads, Sleep(t) PROVE Promise!Next
  <2>1. Asking' = Asking /\ Asking[t] = <<>>
    BY <1>2 DEF Sleep, Asking, syncVars
  <2>2. events' = events
    BY <1>2 DEF Sleep, histVars
  <2>3. PICK r \in Own(t) : Key[r].time >= Key[moment[t]].time /\ moment' = [moment EXCEPT ![t] = r]
    BY <1>2 DEF Sleep
  <2>4. moment'[t] = r /\ r \in Ranks /\ moment[t] \in Ranks
    BY <1>a, <2>3 DEF Own
  <2>5. Times[moment'[t]] >= Times[moment[t]] /\ moment'[t] \in DOMAIN Times
    BY <2>3, <2>4 DEF Times
  <2>6. moment' = [moment EXCEPT ![t] = moment'[t]]
    BY <2>3, <2>4
  <2> HIDE DEF Times
  <2>7. Promise!Pass(t)
    <3>1. Asking[t] = <<>> /\ UNCHANGED <<Board, Asking>>
      BY <2>1, <2>2 DEF Board
    <3> QED BY <2>5, <2>6, <3>1, Zenon DEF Promise!Pass, Asking, Times, Board
  <2> QED BY <2>7 DEF Promise!Next
<1>3. ASSUME NEW t \in Threads, StartSync(t) PROVE Promise!Next
  <2>1. PICK pat \in Patterns, m \in Matchers :
          want' = [want EXCEPT ![t] = pat] /\ ok' = [ok EXCEPT ![t] = m]
    BY <1>3 DEF StartSync
  <2>2. pc[t] = "idle" /\ pc' = [pc EXCEPT ![t] = "seek"]
    BY <1>3 DEF StartSync, Goto
  <2>3. Asking[t] = <<>>
    BY <2>2 DEF Asking
  <2>4. Asking' = [Asking EXCEPT ![t] = <<pat, m>>]
    <3>1. pc'[t] = "seek" /\ want'[t] = pat /\ ok'[t] = m
      BY <1>a, <2>1, <2>2
    <3>2. \A u \in Threads \ {t} : pc'[u] = pc[u] /\ want'[u] = want[u] /\ ok'[u] = ok[u]
      BY <1>a, <2>1, <2>2
    <3> QED BY <3>1, <3>2, AskingOfOne DEF Syncing
  <2>5. events' = events /\ moment' = moment
    BY <1>3 DEF StartSync, histVars
  <2>6. Promise!Ask(t)
    <3>1. \E x \in Patterns, y \in Matchers : Asking' = [Asking EXCEPT ![t] = <<x, y>>]
      BY <2>4
    <3>2. UNCHANGED <<Board, moment>>
      BY <2>5 DEF Board
    <3> QED BY <2>3, <3>1, <3>2, Zenon DEF Promise!Ask, Asking, Board
  <2> QED BY <2>6 DEF Promise!Next
<1>4. ASSUME NEW t \in Threads, InsertEvent(t) PROVE Promise!Next
  BY <1>4, InsertPosts DEF Promise!Next
<1>5. ASSUME NEW t \in Threads, SeekFound(t) \/ ReseekFound(t) PROVE Promise!Next
  <2>1. /\ pc[t] \in {"seek", "reseek"} /\ pc' = [pc EXCEPT ![t] = "idle"]
        /\ Return(t) /\ events' = events
    BY <1>5 DEF SeekFound, ReseekFound, Goto, histVars
  <2>2. Promise!Release(t)
    BY <2>1, ReturnReleases
  <2> QED BY <2>2 DEF Promise!Next
<1>6. ASSUME NEW t \in Threads, SeekNothing(t) \/ PutMatcher(t) \/ Wake(t)
      PROVE  UNCHANGED Promise!vars
  <2>1. /\ pc[t] \in Syncing /\ pc'[t] \in Syncing
        /\ \A u \in Threads \ {t} : pc'[u] = pc[u]
    BY <1>a, <1>6 DEF SeekNothing, PutMatcher, Wake, Goto, Syncing
  <2>2. want' = want /\ ok' = ok /\ events' = events /\ moment' = moment
    BY <1>6 DEF SeekNothing, PutMatcher, Wake, histVars, syncVars
  <2>3. Asking' = Asking
    BY <2>1, <2>2 DEF Asking, Syncing
  <2> QED BY <1>c, <2>2, <2>3
<1>7. ASSUME NEW t \in Threads, MatchEvent(t) PROVE UNCHANGED Promise!vars
  <2>1. \A u \in Threads : pc'[u] \in Syncing <=> pc[u] \in Syncing
    BY <1>a, <1>7 DEF MatchEvent, Deliver, Goto, Syncing
  <2>2. want' = want /\ ok' = ok /\ events' = events /\ moment' = moment
    BY <1>7 DEF MatchEvent, Deliver, histVars, syncVars
  <2>3. Asking' = Asking
    BY <2>1, <2>2 DEF Asking, Syncing
  <2> QED BY <1>c, <2>2, <2>3
<1>8. ASSUME NEW t \in Threads, Kill(t) \/ ReseekNothing(t)
      PROVE  [Promise!Next]_(Promise!vars)
  <2>1. /\ pc'[t] \notin Syncing /\ \A u \in Threads \ {t} : pc'[u] = pc[u]
    BY <1>a, <1>8 DEF Kill, ReseekNothing, Goto, Syncing
  <2>2. want' = want /\ ok' = ok /\ events' = events /\ moment' = moment
    BY <1>8 DEF Kill, ReseekNothing, histVars, syncVars
  <2>3. Asking' = [Asking EXCEPT ![t] = <<>>]
    BY <2>1, <2>2, AskingOfOne
  <2>4. CASE pc[t] \in Syncing
    <3>1. Asking[t] # <<>>
      BY <2>4 DEF Asking, Syncing
    <3>2. Promise!Leave(t)
      BY <2>2, <2>3, <3>1 DEF Promise!Leave, Asking
    <3> QED BY <3>2 DEF Promise!Next
  <2>5. CASE pc[t] \notin Syncing
    <3>1. Asking' = Asking
      BY <2>1, <2>2, <2>5 DEF Asking, Syncing
    <3> QED BY <1>c, <2>2, <3>1
  <2> QED BY <2>4, <2>5
<1>9. ASSUME NEW t \in Threads, Prune(t) PROVE UNCHANGED Promise!vars
  <2>1. /\ pc[t] \notin Syncing /\ pc'[t] \notin Syncing
        /\ \A u \in Threads \ {t} : pc'[u] = pc[u]
        /\ want' = want /\ ok' = ok
    BY <1>a, <1>9 DEF Prune, syncVars, Syncing
  <2>2. events' = events /\ moment' = moment
    BY <1>9 DEF Prune, histVars
  <2>3. Asking' = Asking
    BY <2>1 DEF Asking, Syncing
  <2> QED BY <1>c, <2>2, <2>3
<1> QED BY <1>1, <1>2, <1>3, <1>4, <1>5, <1>6, <1>7, <1>8, <1>9 DEF Next, Step

\* The initial states are initial states of TimeState.
LEMMA StartsAsPromised == Init => Promise!Init
<1> SUFFICES ASSUME Init PROVE Promise!Init
  OBVIOUS
<1>1. Board = {}
  <2>1. TypeOK
    BY InitIInv DEF IInv
  <2>2. \A p \in Paths : 1 .. Len(events[p]) = {}
    BY DEF Init
  <2> QED BY <2>1, <2>2, BoardEvents DEF BoardOneByOne
<1>2. Asking = [t \in Threads |-> <<>>]
  BY DEF Init, Asking
<1>3. moment \in [Threads -> DOMAIN Times]
  BY DEF Init, Times
<1> QED BY <1>1, <1>2, <1>3 DEF Promise!Init, Board, Asking, Times

\* EventHistory implements TimeState, for every choice of threads, paths,
\* patterns, values and history size: a sync moves its thread on to the earliest
\* event it asked for, the time of a thread never goes back though its moment can,
\* and what is forgotten of a path is no later than what stays (EventHistory#set,
\* #get and #sync, sleep).
THEOREM PromiseIsKept == Spec => ImplementsTimeState
<1>1. Filed => TypeOK /\ BoardOneByOne
  BY BoardEvents DEF Filed, IInv
<1>2. Filed => TypeOK
  BY <1>1
<1>3. TypeOK => BoardOneByOne
  BY BoardEvents
<1>4. Filed /\ TypeOK' /\ BoardOneByOne /\ BoardOneByOne' /\ [Next]_vars
        => [Promise!Next]_(Promise!vars)
  BY StepsAreKept
<1> QED BY FiledAlways, StartsAsPromised, <1>2, <1>3, <1>4, PTL
        DEF Spec, ImplementsTimeState, Promise!Spec
=============================================================================
