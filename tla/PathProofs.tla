----------------------------- MODULE PathProofs -----------------------------
(***************************************************************************)
(* Proofs about PathMatch, for patterns and paths of any length over any   *)
(* names: the tree search of EventHistory finds what the tutorial says a   *)
(* pattern describes, and the regular expression of EventMatcher accepts   *)
(* nothing else.  Both walks are recursive functions.  That such a         *)
(* function is what its definition says is the lemma FixedPoint; what it   *)
(* computes is shown from the pattern's end back to its beginning.         *)
(***************************************************************************)
EXTENDS PathMatch, TLAPS, WellFoundedInduction, SequenceTheorems

-----------------------------------------------------------------------------
(* Induction and recursion.                                                *)

\* Induction over the naturals, of a set instead of a predicate.
LEMMA AllNaturals ==
  ASSUME NEW S \in SUBSET Nat, 0 \in S, \A n \in S : n + 1 \in S
  PROVE  S = Nat
<1> SUFFICES ASSUME S # Nat PROVE FALSE
  OBVIOUS
<1> DEFINE T == Nat \ S
<1>1. T \in SUBSET Nat /\ T # {}
  OBVIOUS
<1>2. PICK m \in T : \A y \in T : ~ (<<y, m>> \in OpToRel(<, Nat))
  BY <1>1, NatLessThanWellFounded, WFMin, Zenon
<1>3. \A y \in T : ~ (y < m)
  BY <1>2, <1>1, Zenon DEF OpToRel
<1>4. m \in Nat /\ m # 0 /\ m - 1 \in Nat
  OBVIOUS
<1>5. m - 1 \in S
  BY <1>3, <1>4
<1> QED BY <1>4, <1>5

\* Induction from the end of a pattern to its beginning.
LEMMA Backwards ==
  ASSUME NEW N \in Nat, NEW P \in SUBSET (1 .. N + 1), N + 1 \in P,
         \A i \in 1 .. N : (\A j \in i + 1 .. N + 1 : j \in P) => i \in P
  PROVE  P = 1 .. N + 1
<1> DEFINE S == {n \in Nat : \A i \in 1 .. N + 1 : i >= N + 1 - n => i \in P}
<1>1. 0 \in S
  OBVIOUS
<1>2. ASSUME NEW n \in S PROVE n + 1 \in S
  <2> SUFFICES ASSUME NEW i \in 1 .. N + 1, i = N + 1 - (n + 1) PROVE i \in P
    OBVIOUS
  <2>1. i \in 1 .. N /\ \A j \in i + 1 .. N + 1 : j \in P
    OBVIOUS
  <2> QED BY <2>1
<1>3. S = Nat
  <2>1. S \in SUBSET Nat
    OBVIOUS
  <2> HIDE DEF S
  <2> QED BY <1>1, <1>2, <2>1, AllNaturals
<1>4. \A i \in 1 .. N + 1 : i >= N + 1 - N => i \in P
  BY <1>3
<1>5. \A i \in 1 .. N + 1 : i \in P
  BY <1>4
<1> HIDE DEF S
<1> QED BY <1>5

(* Definition by recursion, the definition being a function B from          *)
(* candidates to candidates: B[g][i] looks at g only where a rank is        *)
(* smaller than that of i.                                                  *)
Recursive(D, V, B, rank, top) ==
  /\ V # {} /\ B \in [[D -> V] -> [D -> V]]
  /\ rank \in [D -> Nat] /\ top \in Nat /\ \A i \in D : rank[i] < top
  /\ \A g \in [D -> V], h \in [D -> V], i \in D :
       (\A j \in D : rank[j] < rank[i] => g[j] = h[j]) => B[g][i] = B[h][i]

\* What is defined by recursion exists.
LEMMA FixedPoint ==
  ASSUME NEW D, NEW V, NEW B, NEW rank, NEW top, Recursive(D, V, B, rank, top)
  PROVE  \E f \in [D -> V] : B[f] = f
<1> USE DEF Recursive
<1> DEFINE S == {n \in Nat : \E g \in [D -> V] : \A i \in D : rank[i] < n => B[g][i] = g[i]}
<1>1. 0 \in S
  <2>1. PICK v \in V : TRUE
    OBVIOUS
  <2>2. [i \in D |-> v] \in [D -> V]
    BY <2>1
  <2>3. \A i \in D : ~ (rank[i] < 0)
    OBVIOUS
  <2> QED BY <2>2, <2>3
<1>2. ASSUME NEW n \in S PROVE n + 1 \in S
  <2>1. PICK g \in [D -> V] : \A i \in D : rank[i] < n => B[g][i] = g[i]
    OBVIOUS
  <2>2. B[g] \in [D -> V]
    OBVIOUS
  <2>3. ASSUME NEW i \in D, rank[i] < n + 1
        PROVE  B[B[g]][i] = B[g][i]
    <3>1. \A j \in D : rank[j] < rank[i] => rank[j] < n
      BY <2>3
    <3>2. \A j \in D : rank[j] < rank[i] => g[j] = B[g][j]
      BY <2>1, <3>1
    <3> QED BY <2>2, <3>2
  <2> QED BY <2>2, <2>3
<1>3. top \in S
  BY <1>1, <1>2, AllNaturals
<1>4. PICK f \in [D -> V] : \A i \in D : rank[i] < top => B[f][i] = f[i]
  BY <1>3
<1>5. B[f] \in [D -> V] /\ \A i \in D : B[f][i] = f[i]
  BY <1>4
<1> QED BY <1>5


-----------------------------------------------------------------------------
(* The tree search.                                                        *)

\* What a pattern and a path are made of.
LEMMA Pieces ==
  ASSUME NEW pat \in Seq(Segments), NEW path \in Seq(Names)
  PROVE  /\ Len(pat) \in Nat /\ Len(path) \in Nat /\ DOMAIN pat = 1 .. Len(pat)
         /\ \A i : IsDeep(pat, i) => i \in 1 .. Len(pat)
         /\ Depths(path) \subseteq Nat /\ 0 \in Depths(path) /\ Len(path) \in Depths(path)
         /\ \A d \in Depths(path) : d <= Len(path)
BY DEF IsDeep, Depths

IsBelow(pat, path, f) == f = [i \in 1 .. Len(pat) + 1 |-> Below(pat, path, f, i)]

\* below is the function its definition describes.
LEMMA BelowExists ==
  ASSUME NEW pat \in Seq(Segments), NEW path \in Seq(Names)
  PROVE  \E f : IsBelow(pat, path, f)
<1> DEFINE D == 1 .. Len(pat) + 1
           V == SUBSET Depths(path)
           B == [g \in [D -> V] |-> [i \in D |-> Below(pat, path, g, i)]]
           rank == [i \in D |-> Len(pat) + 1 - i]
<1>1. /\ Len(pat) \in Nat /\ Len(path) \in Depths(path)
      /\ \A i : IsDeep(pat, i) => i \in 1 .. Len(pat)
  BY Pieces
<1>2. rank \in [D -> Nat] /\ \A i \in D : rank[i] < Len(pat) + 1
  BY <1>1
<1>3. ASSUME NEW g \in [D -> V], NEW i \in D
      PROVE  Below(pat, path, g, i) \in V
  <2>1. CASE i > Len(pat)
    BY <1>1, <2>1 DEF Below
  <2>2. CASE i <= Len(pat)
    <3>1. i + 1 \in D
      BY <1>1, <2>2
    <3>2. g[i + 1] \in V
      BY <3>1
    <3> QED BY <1>1, <2>2, <3>2 DEF Below, Above, Ancestors
  <2> QED BY <1>1, <2>1, <2>2
<1>4. B \in [[D -> V] -> [D -> V]]
  BY <1>3
<1>5. ASSUME NEW g \in [D -> V], NEW h \in [D -> V], NEW i \in D,
             \A j \in D : rank[j] < rank[i] => g[j] = h[j]
      PROVE  Below(pat, path, g, i) = Below(pat, path, h, i)
  <2>1. \A j \in D : j > i => g[j] = h[j]
    BY <1>1, <1>5
  <2>2. CASE i > Len(pat)
    BY <1>1, <2>2 DEF Below
  <2>3. CASE i <= Len(pat)
    <3>1. g[i + 1] = h[i + 1]
      BY <1>1, <2>1, <2>3
    <3>2. i < Len(pat) => g[i + 2] = h[i + 2]
      BY <1>1, <2>1, <2>3
    <3> QED BY <1>1, <2>3, <3>1, <3>2 DEF Below
  <2> QED BY <1>1, <2>2, <2>3
<1>6. \A g \in [D -> V], h \in [D -> V], i \in D :
        (\A j \in D : rank[j] < rank[i] => g[j] = h[j]) => B[g][i] = B[h][i]
  BY <1>5
<1>7. V # {}
  OBVIOUS
<1>8. \A f \in [D -> V] : B[f] = [i \in D |-> Below(pat, path, f, i)]
  OBVIOUS
<1> DEFINE top == Len(pat) + 1
<1>9. Recursive(D, V, B, rank, top)
  <2>1. top \in Nat /\ \A i \in D : rank[i] < top
    BY <1>1, <1>2
  <2> HIDE DEF B, rank, V, D, top
  <2> QED BY <1>2, <1>4, <1>6, <1>7, <2>1 DEF Recursive
<1> HIDE DEF B, rank, V, D, top
<1>10. PICK f \in [D -> V] : B[f] = f
  BY <1>9, FixedPoint
<1> QED BY <1>8, <1>10 DEF D, IsBelow


LEMMA TreeWalk ==
  ASSUME NEW pat \in Seq(Segments), NEW path \in Seq(Names)
  PROVE  \E f : /\ IsBelow(pat, path, f)
                /\ TreeFinds(pat, path) <=> 0 \in f[1]
<1> DEFINE f == CHOOSE f : IsBelow(pat, path, f)
<1>1. IsBelow(pat, path, f)
  BY BelowExists, Zenon
<1>2. TreeFinds(pat, path) <=> 0 \in f[1]
  BY Zenon DEF TreeFinds, IsBelow
<1> QED BY <1>1, <1>2, Zenon

-----------------------------------------------------------------------------
(* Ways along a path.  T[i] holds the pairs of depths that segment i may    *)
(* begin and end at.                                                        *)
Moves(pat, path) == [1 .. Len(pat) -> SUBSET (Depths(path) \X Depths(path))]

\* The depths from which the segments from i on lead to the end of the path.
Leads(pat, path, T, At, i) ==
  At[Len(pat)] = Len(path) /\ \A j \in i .. Len(pat) : <<At[j - 1], At[j]>> \in T[j]

Tails(pat, path, T, i) ==
  {d \in Depths(path) :
     \E At \in [0 .. Len(pat) -> Depths(path)] : At[i - 1] = d /\ Leads(pat, path, T, At, i)}

LEMMA LedTo ==
  ASSUME NEW pat, NEW path, NEW T, NEW i, NEW way \in [0 .. Len(pat) -> Depths(path)],
         Leads(pat, path, T, way, i), way[i - 1] \in Depths(path)
  PROVE  way[i - 1] \in Tails(pat, path, T, i)
BY DEF Tails

\* With no segments left, a path has to have ended.
LEMMA LastTail ==
  ASSUME NEW pat \in Seq(Segments), NEW path \in Seq(Names), NEW T \in Moves(pat, path)
  PROVE  Tails(pat, path, T, Len(pat) + 1) = {Len(path)}
<1>1. Len(pat) \in Nat /\ Len(path) \in Depths(path)
  BY Pieces
<1> DEFINE At == [j \in 0 .. Len(pat) |-> Len(path)]
<1>2. At \in [0 .. Len(pat) -> Depths(path)] /\ At[Len(pat)] = Len(path)
  BY <1>1
<1>3. Len(pat) + 1 - 1 = Len(pat) /\ Len(pat) + 1 .. Len(pat) = {}
  BY <1>1
<1> HIDE DEF At
<1> QED BY <1>1, <1>2, <1>3 DEF Tails, Leads

\* The way from segment i on is a move and the way from the next segment on.
LEMMA TailStep ==
  ASSUME NEW pat \in Seq(Segments), NEW path \in Seq(Names), NEW T \in Moves(pat, path),
         NEW i \in 1 .. Len(pat)
  PROVE  \A d \in Depths(path) :
           d \in Tails(pat, path, T, i) <=>
             \E k \in Tails(pat, path, T, i + 1) : <<d, k>> \in T[i]
<1> DEFINE N == Len(pat)
<1>1. N \in Nat /\ i - 1 \in 0 .. N /\ i \in 0 .. N /\ i + 1 - 1 = i /\ i \in i .. N
  BY Pieces
<1>2. \A j \in i + 1 .. N : j \in i .. N /\ j - 1 # i - 1 /\ j # i - 1 /\ j - 1 \in 0 .. N /\ j \in 0 .. N
  BY <1>1
<1>3. \A j \in i .. N : j = i \/ j \in i + 1 .. N
  BY <1>1
<1>4. ASSUME NEW d \in Tails(pat, path, T, i)
      PROVE  \E k \in Tails(pat, path, T, i + 1) : <<d, k>> \in T[i]
  <2>1. PICK At \in [0 .. N -> Depths(path)] :
          /\ At[i - 1] = d /\ At[N] = Len(path)
          /\ \A j \in i .. N : <<At[j - 1], At[j]>> \in T[j]
    BY DEF Tails, Leads
  <2>2. At[i] \in Depths(path) /\ <<d, At[i]>> \in T[i]
    BY <1>1, <2>1
  <2>3. At[i + 1 - 1] = At[i] /\ Leads(pat, path, T, At, i + 1)
    BY <1>1, <1>2, <2>1 DEF Leads
  <2>4. At[i] \in Tails(pat, path, T, i + 1)
    BY <2>2, <2>3, LedTo
  <2> QED BY <2>2, <2>4
<1>5. ASSUME NEW d \in Depths(path), NEW k \in Tails(pat, path, T, i + 1), <<d, k>> \in T[i]
      PROVE  d \in Tails(pat, path, T, i)
  <2>1. PICK At \in [0 .. N -> Depths(path)] :
          /\ At[i] = k /\ At[N] = Len(path)
          /\ \A j \in i + 1 .. N : <<At[j - 1], At[j]>> \in T[j]
    <3>1. PICK At \in [0 .. N -> Depths(path)] :
            At[i + 1 - 1] = k /\ Leads(pat, path, T, At, i + 1)
      BY DEF Tails
    <3>2. At[i] = k /\ At[N] = Len(path)
      BY <1>1, <3>1 DEF Leads
    <3>3. \A j \in i + 1 .. N : <<At[j - 1], At[j]>> \in T[j]
      BY <3>1 DEF Leads
    <3> QED BY <3>2, <3>3
  <2> DEFINE new == [At EXCEPT ![i - 1] = d]
  <2>2. new \in [0 .. N -> Depths(path)] /\ new[i - 1] = d
    BY <1>1, <2>1
  <2>3. new[i] = k /\ new[N] = Len(path)
    BY <1>1, <2>1
  <2>4. \A j \in i + 1 .. N : new[j - 1] = At[j - 1] /\ new[j] = At[j]
    BY <1>2, <2>1
  <2> HIDE DEF new
  <2>5. \A j \in i .. N : <<new[j - 1], new[j]>> \in T[j]
    BY <1>3, <1>5, <2>1, <2>2, <2>3, <2>4
  <2> QED BY <2>2, <2>3, <2>5 DEF Tails, Leads
<1> QED BY <1>4, <1>5 DEF Tails

-----------------------------------------------------------------------------
(* The tree search and the tutorial's reading.                             *)

\* The names a segment takes, as the tutorial reads it.
AsTold(pat, path) ==
  [i \in 1 .. Len(pat) |->
     {m \in Depths(path) \X Depths(path) :
        IF IsDeep(pat, i) THEN m[2] >= m[1] + (IF i = Len(pat) THEN 1 ELSE 0)
                          ELSE m[2] = m[1] + 1 /\ path[m[2]] \in pat[i].names}]

LEMMA ToldMoves ==
  ASSUME NEW pat \in Seq(Segments), NEW path \in Seq(Names)
  PROVE  /\ AsTold(pat, path) \in Moves(pat, path)
         /\ \A i \in 1 .. Len(pat), d \in Depths(path), k \in Depths(path) :
              <<d, k>> \in AsTold(pat, path)[i] <=>
                IF IsDeep(pat, i) THEN k >= d + (IF i = Len(pat) THEN 1 ELSE 0)
                                  ELSE k = d + 1 /\ path[k] \in pat[i].names
BY DEF AsTold, Moves

ToldTails(pat, path, i) == Tails(pat, path, AsTold(pat, path), i)

LEMMA ToldStep ==
  ASSUME NEW pat \in Seq(Segments), NEW path \in Seq(Names), NEW i \in 1 .. Len(pat)
  PROVE  ToldTails(pat, path, i) =
           {d \in Depths(path) : \E k \in ToldTails(pat, path, i + 1) :
              IF IsDeep(pat, i) THEN k >= d + (IF i = Len(pat) THEN 1 ELSE 0)
                                ELSE k = d + 1 /\ path[k] \in pat[i].names}
<1>1. \A d \in Depths(path) :
        d \in ToldTails(pat, path, i) <=>
          \E k \in ToldTails(pat, path, i + 1) : <<d, k>> \in AsTold(pat, path)[i]
  <2>1. AsTold(pat, path) \in Moves(pat, path)
    BY ToldMoves
  <2> QED BY <2>1, TailStep DEF ToldTails
<1>2. /\ ToldTails(pat, path, i) \subseteq Depths(path)
      /\ ToldTails(pat, path, i + 1) \subseteq Depths(path)
  BY DEF ToldTails, Tails
<1>3. \A d \in Depths(path), k \in ToldTails(pat, path, i + 1) :
        <<d, k>> \in AsTold(pat, path)[i] <=>
          IF IsDeep(pat, i) THEN k >= d + (IF i = Len(pat) THEN 1 ELSE 0)
                            ELSE k = d + 1 /\ path[k] \in pat[i].names
  BY <1>2, ToldMoves
<1> QED BY <1>1, <1>2, <1>3, ZenonT(40)

\* A named segment takes the name below.
LEMMA NamedTail ==
  ASSUME NEW pat \in Seq(Segments), NEW path \in Seq(Names), NEW i \in 1 .. Len(pat),
         ~IsDeep(pat, i)
  PROVE  ToldTails(pat, path, i) = Above(pat, path, i, ToldTails(pat, path, i + 1))
<1>1. ToldTails(pat, path, i + 1) \subseteq Depths(path)
  BY DEF ToldTails, Tails
<1>2. /\ Len(path) \in Nat /\ Depths(path) \subseteq Nat
      /\ \A d \in Depths(path) : d <= Len(path)
  BY Pieces
<1>3. ToldTails(pat, path, i) =
        {d \in Depths(path) : \E k \in ToldTails(pat, path, i + 1) :
           k = d + 1 /\ path[k] \in pat[i].names}
  BY ToldStep
<1>4. ToldTails(pat, path, i) =
        {d \in Depths(path) : d + 1 \in ToldTails(pat, path, i + 1) /\ path[d + 1] \in pat[i].names}
  BY <1>3
<1>5. \A d \in Depths(path) : d + 1 \in ToldTails(pat, path, i + 1) => d < Len(path)
  BY <1>1, <1>2
<1> QED BY <1>4, <1>5 DEF Above

\* A final "**" takes all there is below, and that has to be something.
LEMMA FinalTail ==
  ASSUME NEW pat \in Seq(Segments), NEW path \in Seq(Names), IsDeep(pat, Len(pat))
  PROVE  ToldTails(pat, path, Len(pat)) = {d \in Depths(path) : d < Len(path)}
<1>1. /\ Len(pat) \in 1 .. Len(pat) /\ Len(path) \in Nat /\ Depths(path) \subseteq Nat
  BY Pieces
<1>2. ToldTails(pat, path, Len(pat) + 1) = {Len(path)}
  BY LastTail, ToldMoves DEF ToldTails
<1>3. ToldTails(pat, path, Len(pat)) =
        {d \in Depths(path) : \E k \in {Len(path)} : k >= d + 1}
  BY <1>1, <1>2, ToldStep
<1> QED BY <1>1, <1>3

\* Any other "**" takes the names down to the parent of one the next names.
LEMMA DeepTail ==
  ASSUME NEW pat \in Seq(Segments), NEW path \in Seq(Names), NEW i \in 1 .. Len(pat),
         i < Len(pat), IsDeep(pat, i)
  PROVE  ToldTails(pat, path, i) = Ancestors(path, ToldTails(pat, path, i + 1))
<1>1. Depths(path) \subseteq Nat /\ ToldTails(pat, path, i + 1) \subseteq Depths(path)
  BY Pieces DEF ToldTails, Tails
<1>2. i # Len(pat)
  BY Pieces
<1>3. ToldTails(pat, path, i) =
        {d \in Depths(path) : \E k \in ToldTails(pat, path, i + 1) : k >= d + 0}
  BY <1>2, ToldStep
<1>4. \A d \in Depths(path) : \A k \in ToldTails(pat, path, i + 1) : k >= d + 0 <=> d <= k
  BY <1>1
<1> QED BY <1>3, <1>4 DEF Ancestors

\* Of neighbouring "**" the first may as well take nothing.
LEMMA DoubledTail ==
  ASSUME NEW pat \in Seq(Segments), NEW path \in Seq(Names), NEW i \in 1 .. Len(pat),
         i < Len(pat), IsDeep(pat, i), IsDeep(pat, i + 1)
  PROVE  ToldTails(pat, path, i) = ToldTails(pat, path, i + 1)
<1>1. /\ Depths(path) \subseteq Nat /\ Len(pat) \in Nat /\ i + 1 \in 1 .. Len(pat)
      /\ Len(path) \in Nat
      /\ \A j : ToldTails(pat, path, j) \subseteq Depths(path)
  BY Pieces DEF ToldTails, Tails
<1>2. ToldTails(pat, path, i) = Ancestors(path, ToldTails(pat, path, i + 1))
  BY DeepTail
<1>3. CASE i + 1 = Len(pat)
  <2>1. ToldTails(pat, path, i + 1) = {d \in Depths(path) : d < Len(path)}
    BY <1>3, FinalTail
  <2> QED BY <1>1, <1>2, <2>1 DEF Ancestors
<1>4. CASE i + 1 # Len(pat)
  <2>1. ToldTails(pat, path, i + 1) = Ancestors(path, ToldTails(pat, path, i + 1 + 1))
    BY <1>1, <1>4, DeepTail
  <2> QED BY <1>1, <1>2, <2>1 DEF Ancestors
<1> QED BY <1>3, <1>4

\* The tree search, with the segments from i on, goes the way of the pattern.
LEMMA BelowIsTails ==
  ASSUME NEW pat \in Seq(Segments), NEW path \in Seq(Names),
         NEW f, IsBelow(pat, path, f)
  PROVE  \A i \in 1 .. Len(pat) + 1 : f[i] = ToldTails(pat, path, i)
<1> DEFINE N == Len(pat)
           P == {i \in 1 .. N + 1 : f[i] = ToldTails(pat, path, i)}
<1>1. N \in Nat /\ \A i \in 1 .. N + 1 : f[i] = Below(pat, path, f, i)
  BY Pieces DEF IsBelow
<1>2. f[N + 1] = ToldTails(pat, path, N + 1)
  <2>1. Below(pat, path, f, N + 1) = {Len(path)}
    <3>1. N + 1 > Len(pat) /\ ~IsDeep(pat, N + 1)
      BY <1>1, Pieces
    <3> QED BY <3>1 DEF Below
  <2>2. ToldTails(pat, path, N + 1) = {Len(path)}
    BY LastTail, ToldMoves DEF ToldTails
  <2>3. N + 1 \in 1 .. N + 1
    BY <1>1
  <2> QED BY <1>1, <2>1, <2>2, <2>3
<1>3. N + 1 \in P
  BY <1>1, <1>2
<1>4. ASSUME NEW i \in 1 .. N, \A j \in i + 1 .. N + 1 : j \in P
      PROVE  f[i] = ToldTails(pat, path, i)
  <2>1. ~ (i > N) /\ i \in 1 .. N + 1 /\ i + 1 \in i + 1 .. N + 1
    BY <1>1
  <2>2. f[i] = Below(pat, path, f, i) /\ f[i + 1] = ToldTails(pat, path, i + 1)
    BY <1>1, <1>4, <2>1
  <2>3. i < N => i + 2 \in i + 1 .. N + 1 /\ i + 2 = i + 1 + 1 /\ i + 1 \in 1 .. N
    BY <1>1
  <2>8. i < N => f[i + 2] = ToldTails(pat, path, i + 2)
    BY <1>4, <2>3
  <2>4. CASE ~IsDeep(pat, i)
    BY <2>1, <2>2, <2>4, NamedTail DEF Below
  <2>5. CASE IsDeep(pat, i) /\ i = N
    <3>1. Below(pat, path, f, i) = {d \in Depths(path) : d < Len(path)}
      <4>1. ~IsDeep(pat, i + 1)
        BY <1>1, <2>5, Pieces
      <4> QED BY <2>1, <2>5, <4>1 DEF Below
    <3> QED BY <2>2, <2>5, <3>1, FinalTail
  <2>6. CASE IsDeep(pat, i) /\ i # N /\ IsDeep(pat, i + 1)
    <3>1. i < N
      BY <1>1, <2>1, <2>6
    <3> QED BY <2>1, <2>2, <2>6, <3>1, DoubledTail DEF Below
  <2>7. CASE IsDeep(pat, i) /\ i # N /\ ~IsDeep(pat, i + 1)
    <3>1. i < N
      BY <1>1, <2>1, <2>7
    <3>2. f[i] = Ancestors(path, Above(pat, path, i + 1, f[i + 2]))
      BY <2>1, <2>2, <2>7, <3>1 DEF Below
    <3>3. ToldTails(pat, path, i + 1) = Above(pat, path, i + 1, ToldTails(pat, path, i + 1 + 1))
      BY <2>3, <2>7, <3>1, NamedTail
    <3> QED BY <2>3, <2>7, <2>8, <3>1, <3>2, <3>3, DeepTail
  <2> QED BY <2>4, <2>5, <2>6, <2>7
<1>5. P = 1 .. N + 1
  <2>1. ASSUME NEW i \in 1 .. N, \A j \in i + 1 .. N + 1 : j \in P PROVE i \in P
    <3>1. i \in 1 .. N + 1
      BY <1>1
    <3> QED BY <1>4, <2>1, <3>1
  <2>2. P \in SUBSET (1 .. N + 1)
    OBVIOUS
  <2> HIDE DEF P, N
  <2> QED BY <1>1, <1>3, <2>1, <2>2, Backwards
<1> QED BY <1>5

LEMMA ToldIsDescribed ==
  ASSUME NEW pat \in Seq(Segments), NEW path \in Seq(Names)
  PROVE  Describes(pat, path) <=> 0 \in ToldTails(pat, path, 1)
<1>1. Len(pat) \in Nat /\ 0 \in Depths(path) /\ 1 - 1 = 0
  BY Pieces
<1>2. ASSUME NEW At \in [0 .. Len(pat) -> Depths(path)], NEW i \in 1 .. Len(pat)
      PROVE  Takes(pat, path, At, i) <=> <<At[i - 1], At[i]>> \in AsTold(pat, path)[i]
  <2>1. At[i - 1] \in Depths(path) /\ At[i] \in Depths(path)
    BY <1>1
  <2> QED BY <2>1, ToldMoves DEF Takes
<1> QED BY <1>1, <1>2 DEF Describes, ToldTails, Tails, Leads

\* For any pattern and any path: the tree search finds an event exactly when
\* the pattern, as the tutorial reads it, describes the event's path.
THEOREM FindsWhatIsDescribed ==
  ASSUME NEW pat \in Seq(Segments), NEW path \in Seq(Names)
  PROVE  TreeFinds(pat, path) <=> Describes(pat, path)
<1>1. 1 \in 1 .. Len(pat) + 1
  BY Pieces
<1>2. PICK f : /\ IsBelow(pat, path, f)
               /\ TreeFinds(pat, path) <=> 0 \in f[1]
  BY TreeWalk
<1>3. f[1] = ToldTails(pat, path, 1)
  BY <1>1, <1>2, BelowIsTails
<1> QED BY <1>2, <1>3, ToldIsDescribed

-----------------------------------------------------------------------------
(* The regular expression.                                                 *)

\* mid is the function its definition describes.
LEMMA RewrittenExists ==
  ASSUME NEW pat \in Seq(Segments)
  PROVE  \E f : f = [i \in 0 .. Len(pat) |-> Rewritten(pat, f, i)]
<1> DEFINE D == 0 .. Len(pat)
           V == BOOLEAN
           B == [g \in [D -> V] |-> [i \in D |-> Rewritten(pat, g, i)]]
           rank == [i \in D |-> i]
           top == Len(pat) + 1
<1>1. Len(pat) \in Nat
  OBVIOUS
<1>2. /\ rank \in [D -> Nat] /\ top \in Nat /\ \A i \in D : rank[i] < top
      /\ V # {}
  <2>1. TRUE \in V
    OBVIOUS
  <2>2. rank \in [D -> Nat] /\ top \in Nat /\ \A i \in D : rank[i] = i /\ i < top
    BY <1>1
  <2> QED BY <2>1, <2>2
<1>8. B \in [[D -> V] -> [D -> V]]
  <2>1. \A g, i : Rewritten(pat, g, i) \in BOOLEAN
    BY DEF Rewritten
  <2> QED BY <2>1
<1>3. ASSUME NEW g \in [D -> V], NEW h \in [D -> V], NEW i \in D,
             \A j \in D : rank[j] < rank[i] => g[j] = h[j]
      PROVE  Rewritten(pat, g, i) = Rewritten(pat, h, i)
  <2>1. i > 1 => i - 1 \in D /\ rank[i - 1] < rank[i]
    BY <1>1
  <2> QED BY <1>3, <2>1 DEF Rewritten
<1>4. \A g \in [D -> V], h \in [D -> V], i \in D :
        (\A j \in D : rank[j] < rank[i] => g[j] = h[j]) => B[g][i] = B[h][i]
  BY <1>3
<1>5. \A f \in [D -> V] : B[f] = [i \in D |-> Rewritten(pat, f, i)]
  OBVIOUS
<1>6. Recursive(D, V, B, rank, top)
  <2> HIDE DEF B, rank, V, D, top
  <2> QED BY <1>2, <1>4, <1>8 DEF Recursive
<1> HIDE DEF B, rank, V, D, top
<1>7. PICK f \in [D -> V] : B[f] = f
  BY <1>6, FixedPoint
<1> QED BY <1>5, <1>7 DEF D

\* What ".*" spans is a "**"; and it spans every "**" between named segments.
LEMMA SpansDeep ==
  ASSUME NEW pat \in Seq(Segments)
  PROVE  /\ \A i \in Spans(pat) : i \in 1 .. Len(pat) /\ IsDeep(pat, i)
         /\ BetweenNamed(pat) => \A i : IsDeep(pat, i) => i \in Spans(pat)
<1> DEFINE mid == CHOOSE f : f = [i \in 0 .. Len(pat) |-> Rewritten(pat, f, i)]
<1>1. mid = [i \in 0 .. Len(pat) |-> Rewritten(pat, mid, i)]
  BY RewrittenExists, Zenon
<1>2. Spans(pat) = {i \in 2 .. Len(pat) : IsDeep(pat, i) /\ (mid[i] \/ i = Len(pat))}
  BY Zenon DEF Spans
<1> HIDE DEF mid
<1>3. /\ Len(pat) \in Nat /\ \A i : IsDeep(pat, i) => i \in 1 .. Len(pat)
  BY DEF IsDeep
<1>4. ASSUME BetweenNamed(pat), NEW i, IsDeep(pat, i) PROVE i \in Spans(pat)
  <2>1. i \in 2 .. Len(pat) /\ i > 1 /\ i < Len(pat) /\ ~IsDeep(pat, i - 1)
    BY <1>3, <1>4 DEF BetweenNamed
  <2>2. i \in 0 .. Len(pat) /\ i - 1 \in 0 .. Len(pat)
    BY <2>1
  <2>3. ~mid[i - 1]
    BY <1>1, <2>1, <2>2 DEF Rewritten
  <2>4. mid[i]
    BY <1>1, <1>4, <2>1, <2>2, <2>3 DEF Rewritten
  <2> QED BY <1>2, <1>4, <2>1, <2>4
<1> QED BY <1>2, <1>3, <1>4

IsRest(pat, path, f) == f = [i \in 1 .. Len(pat) + 1 |-> Rest(pat, path, f, i)]

\* rest is the function its definition describes.
LEMMA RestExists ==
  ASSUME NEW pat \in Seq(Segments), NEW path \in Seq(Names)
  PROVE  \E f : IsRest(pat, path, f)
<1> DEFINE D == 1 .. Len(pat) + 1
           V == SUBSET Depths(path)
           B == [g \in [D -> V] |-> [i \in D |-> Rest(pat, path, g, i)]]
           rank == [i \in D |-> Len(pat) + 1 - i]
           top == Len(pat) + 1
<1>1. Len(pat) \in Nat /\ Len(path) \in Depths(path)
  BY Pieces
<1>2. /\ rank \in [D -> Nat] /\ top \in Nat /\ \A i \in D : rank[i] < top
      /\ V # {}
  <2>1. \A i \in D : rank[i] = Len(pat) + 1 - i /\ rank[i] \in Nat /\ rank[i] < top
    BY <1>1
  <2>2. rank \in [D -> Nat] /\ top \in Nat
    BY <1>1, <2>1
  <2>3. {} \in V
    OBVIOUS
  <2> HIDE DEF rank, top, V, D
  <2> QED BY <2>1, <2>2, <2>3
<1>3. ASSUME NEW g \in [D -> V], NEW i \in D
      PROVE  Rest(pat, path, g, i) \in V
  <2>1. CASE i > Len(pat)
    <3>1. i \notin Spans(pat) /\ ~IsDeep(pat, i)
      BY <1>1, <2>1, SpansDeep, Pieces
    <3> QED BY <1>1, <2>1, <3>1 DEF Rest
  <2>2. CASE ~ (i > Len(pat))
    BY <2>2 DEF Rest, Some, Spelled
  <2> QED BY <2>1, <2>2
<1>4. B \in [[D -> V] -> [D -> V]]
  BY <1>3
<1>5. ASSUME NEW g \in [D -> V], NEW h \in [D -> V], NEW i \in D,
             \A j \in D : rank[j] < rank[i] => g[j] = h[j]
      PROVE  Rest(pat, path, g, i) = Rest(pat, path, h, i)
  <2>1. CASE i > Len(pat)
    <3>1. i \notin Spans(pat) /\ ~IsDeep(pat, i)
      BY <1>1, <2>1, SpansDeep, Pieces
    <3> QED BY <2>1, <3>1 DEF Rest
  <2>2. CASE ~ (i > Len(pat))
    <3>1. i + 1 \in D /\ rank[i + 1] < rank[i]
      BY <1>1, <2>2
    <3>2. g[i + 1] = h[i + 1]
      BY <1>5, <3>1
    <3> QED BY <3>2 DEF Rest
  <2> QED BY <2>1, <2>2
<1>6. \A g \in [D -> V], h \in [D -> V], i \in D :
        (\A j \in D : rank[j] < rank[i] => g[j] = h[j]) => B[g][i] = B[h][i]
  BY <1>5
<1>7. \A f \in [D -> V] : B[f] = [i \in D |-> Rest(pat, path, f, i)]
  OBVIOUS
<1>8. Recursive(D, V, B, rank, top)
  <2> HIDE DEF B, rank, V, D, top
  <2> QED BY <1>2, <1>4, <1>6 DEF Recursive
<1> HIDE DEF B, rank, V, D, top
<1>9. PICK f \in [D -> V] : B[f] = f
  BY <1>8, FixedPoint
<1> QED BY <1>7, <1>9 DEF D, IsRest

LEMMA RestWalk ==
  ASSUME NEW pat \in Seq(Segments), NEW path \in Seq(Names)
  PROVE  \E f : /\ IsRest(pat, path, f)
                /\ Reads(pat, path) <=> 0 \in f[1]
<1> DEFINE f == CHOOSE f : IsRest(pat, path, f)
<1>1. IsRest(pat, path, f)
  BY RestExists, Zenon
<1>2. Reads(pat, path) <=> 0 \in f[1]
  BY Zenon DEF Reads, IsRest
<1> QED BY <1>1, <1>2, Zenon

\* The expression of every kind of segment.
LEMMA RestStep ==
  ASSUME NEW pat \in Seq(Segments), NEW path \in Seq(Names), NEW f,
         IsRest(pat, path, f)
  PROVE  /\ f[Len(pat) + 1] = {Len(path)}
         /\ \A i \in 1 .. Len(pat) :
              /\ i \in Spans(pat) => f[i] = Some(path, f[i + 1])
              /\ IsDeep(pat, i) /\ i \notin Spans(pat) =>
                   f[i] = {d \in Depths(path) : d + 1 \in f[i + 1]}
              /\ ~IsDeep(pat, i) => f[i] = Spelled(pat, path, i, f[i + 1])
<1>1. Len(pat) \in Nat /\ Len(pat) + 1 \in 1 .. Len(pat) + 1
  OBVIOUS
<1>2. f[Len(pat) + 1] = {Len(path)}
  <2>1. Len(pat) + 1 > Len(pat) /\ Len(pat) + 1 \notin Spans(pat) /\ ~IsDeep(pat, Len(pat) + 1)
    BY <1>1, SpansDeep, Pieces
  <2>2. Rest(pat, path, f, Len(pat) + 1) = {Len(path)}
    BY <2>1 DEF Rest
  <2> QED BY <1>1, <2>2 DEF IsRest
<1>3. ASSUME NEW i \in 1 .. Len(pat)
      PROVE  /\ i \in Spans(pat) => f[i] = Some(path, f[i + 1])
             /\ IsDeep(pat, i) /\ i \notin Spans(pat) =>
                  f[i] = {d \in Depths(path) : d + 1 \in f[i + 1]}
             /\ ~IsDeep(pat, i) => f[i] = Spelled(pat, path, i, f[i + 1])
  <2>1. ~ (i > Len(pat)) /\ i \in 1 .. Len(pat) + 1
    BY <1>1
  <2>2. f[i] = Rest(pat, path, f, i)
    BY <2>1 DEF IsRest
  <2>3. i \in Spans(pat) => IsDeep(pat, i)
    BY SpansDeep
  <2> QED BY <2>1, <2>2, <2>3 DEF Rest
<1> QED BY <1>2, <1>3

\* A piece accepts the text of one name that stands for that name.
LEMMA SpellsAlone ==
  ASSUME NEW path \in Seq(Names), NEW d \in Depths(path), NEW k \in Depths(path), d < k,
         NEW n, SubSeq(path, d + 1, k) = <<n>>
  PROVE  k = d + 1 /\ path[d + 1] = n
<1> DEFINE piece == SubSeq(path, d + 1, k)
<1>1. Len(path) \in Nat /\ d \in Nat /\ k \in Nat /\ d + 1 \in Int /\ k \in Int /\ k <= Len(path)
  BY DEF Depths
<1>2. \A j \in d + 1 .. k : path[j] \in Names
  BY <1>1
<1>3. /\ Len(piece) = k - (d + 1) + 1
      /\ \A j \in 1 .. k - (d + 1) + 1 : piece[j] = path[d + 1 + j - 1]
  <2>1. d + 1 <= k
    BY <1>1
  <2> QED BY <1>1, <1>2, <2>1, SubSeqProperties
<1>4. piece = <<n>>
  OBVIOUS
<1> HIDE DEF piece
<1>5. Len(piece) = 1 /\ piece[1] = n
  BY <1>4
<1>6. k = d + 1
  <2>1. \A x \in Nat, y \in Nat : x - (y + 1) + 1 = 1 => x = y + 1
    OBVIOUS
  <2> QED BY <1>1, <1>3, <1>5, <2>1, Zenon
<1>7. piece[1] = path[d + 1 + 1 - 1] /\ d + 1 + 1 - 1 = d + 1
  BY <1>1, <1>3, <1>6
<1> QED BY <1>5, <1>6, <1>7

\* A segment of a plain pattern accepts a name of its own and nothing else.
LEMMA PlainStep ==
  ASSUME NEW pat \in Seq(Segments), NEW path \in Seq(Names), Plain(pat),
         NEW i \in 1 .. Len(pat), ~IsDeep(pat, i), NEW S \in SUBSET Depths(path)
  PROVE  Spelled(pat, path, i, S) \subseteq Above(pat, path, i, S)
<1> SUFFICES ASSUME NEW d \in Depths(path), NEW k \in S, d < k,
                    SubSeq(path, d + 1, k) \in pat[i].spells
             PROVE  d \in Above(pat, path, i, S)
  BY DEF Spelled
<1>1. PICK n \in pat[i].names : SubSeq(path, d + 1, k) = <<n>>
  BY DEF Plain, Alone
<1>2. k = d + 1 /\ path[d + 1] = n
  BY <1>1, SpellsAlone
<1>3. d < Len(path)
  BY <1>2 DEF Depths
<1> QED BY <1>1, <1>2, <1>3 DEF Above

\* A segment of an exact pattern accepts every name it stands for.
LEMMA ExactStep ==
  ASSUME NEW pat \in Seq(Segments), NEW path \in Seq(Names), Exact(pat),
         NEW i \in 1 .. Len(pat), ~IsDeep(pat, i), NEW S \in SUBSET Depths(path)
  PROVE  Above(pat, path, i, S) \subseteq Spelled(pat, path, i, S)
<1> SUFFICES ASSUME NEW d \in Depths(path), d < Len(path), path[d + 1] \in pat[i].names,
                    d + 1 \in S
             PROVE  d \in Spelled(pat, path, i, S)
  BY DEF Above
<1>1. Len(path) \in Nat /\ d \in Nat /\ d + 1 \in 1 .. Len(path) /\ d < d + 1
  BY DEF Depths
<1>2. SubSeq(path, d + 1, d + 1) = <<path[d + 1]>>
  <2> DEFINE piece == SubSeq(path, d + 1, d + 1)
  <2>1. d + 1 \in Int /\ \A j \in d + 1 .. d + 1 : path[j] \in Names
    BY <1>1
  <2>2. /\ piece \in Seq(Names) /\ Len(piece) = (d + 1) - (d + 1) + 1
        /\ \A j \in 1 .. (d + 1) - (d + 1) + 1 : piece[j] = path[d + 1 + j - 1]
    BY <2>1, SubSeqProperties
  <2> HIDE DEF piece
  <2>3. Len(piece) = 1 /\ piece[1] = path[d + 1]
    BY <1>1, <2>2
  <2>4. piece = <<path[d + 1]>>
    <3> DEFINE one == <<path[d + 1]>>
    <3>1. one \in Seq(Names) /\ Len(one) = 1 /\ one[1] = path[d + 1]
      BY <1>1
    <3> HIDE DEF one
    <3>2. \A j \in 1 .. Len(piece) : piece[j] = one[j]
      BY <2>3, <3>1
    <3> QED BY <2>2, <2>3, <3>1, <3>2, SeqEqual DEF one
  <2> QED BY <2>4 DEF piece
<1>3. <<path[d + 1]>> \in pat[i].spells
  BY DEF Exact, Alone
<1> QED BY <1>1, <1>2, <1>3 DEF Spelled

\* What the expression accepts from segment i on, the pattern describes.
LEMMA RestInTails ==
  ASSUME NEW pat \in Seq(Segments), NEW path \in Seq(Names), Plain(pat), NEW f,
         IsRest(pat, path, f)
  PROVE  \A i \in 1 .. Len(pat) + 1 : f[i] \subseteq ToldTails(pat, path, i)
<1> DEFINE N == Len(pat)
           P == {i \in 1 .. N + 1 : f[i] \subseteq ToldTails(pat, path, i)}
<1>1. N \in Nat
  OBVIOUS
<1>2. f[N + 1] \subseteq ToldTails(pat, path, N + 1)
  <2>1. ToldTails(pat, path, N + 1) = {Len(path)}
    BY LastTail, ToldMoves DEF ToldTails
  <2> QED BY <2>1, RestStep
<1>3. N + 1 \in P
  BY <1>1, <1>2
<1>4. ASSUME NEW i \in 1 .. N, \A j \in i + 1 .. N + 1 : j \in P
      PROVE  f[i] \subseteq ToldTails(pat, path, i)
  <2>1. i + 1 \in 1 .. N + 1 /\ i + 1 \in i + 1 .. N + 1
    BY <1>1
  <2>2. f[i + 1] \subseteq ToldTails(pat, path, i + 1)
    BY <1>4, <2>1
  <2>3. /\ ToldTails(pat, path, i + 1) \subseteq Depths(path) /\ Depths(path) \subseteq Nat
    BY Pieces DEF ToldTails, Tails
  <2>4. CASE ~IsDeep(pat, i)
    <3>1. f[i] \subseteq Above(pat, path, i, f[i + 1])
      <4>1. f[i] = Spelled(pat, path, i, f[i + 1])
        BY <2>4, RestStep
      <4>2. f[i + 1] \in SUBSET Depths(path)
        BY <2>2, <2>3
      <4> QED BY <2>4, <4>1, <4>2, PlainStep
    <3>2. ToldTails(pat, path, i) = Above(pat, path, i, ToldTails(pat, path, i + 1))
      BY <2>4, NamedTail
    <3> QED BY <2>2, <3>1, <3>2 DEF Above
  <2>5. CASE IsDeep(pat, i)
    <3>1. f[i] = Some(path, f[i + 1]) \/ f[i] = {d \in Depths(path) : d + 1 \in f[i + 1]}
      <4>1. IsDeep(pat, i) /\ i \notin Spans(pat) => f[i] = {d \in Depths(path) : d + 1 \in f[i + 1]}
        BY RestStep
      <4>2. i \in Spans(pat) => f[i] = Some(path, f[i + 1])
        BY RestStep
      <4> QED BY <2>5, <4>1, <4>2
    <3>2. ASSUME NEW d \in f[i]
          PROVE  d \in Depths(path) /\ \E k \in f[i + 1] : k >= d + 1 /\ k >= d
      <4>1. CASE f[i] = Some(path, f[i + 1])
        <5>1. PICK k \in f[i + 1] : d < k /\ d \in Depths(path)
          BY <4>1 DEF Some
        <5>2. k \in Nat /\ d \in Nat
          BY <2>2, <2>3, <5>1
        <5> QED BY <5>1, <5>2
      <4>2. CASE f[i] = {x \in Depths(path) : x + 1 \in f[i + 1]}
        <5>1. d \in Depths(path) /\ d + 1 \in f[i + 1]
          BY <4>2
        <5> QED BY <2>3, <5>1
      <4> QED BY <3>1, <4>1, <4>2
    <3>3. ASSUME NEW d \in f[i] PROVE d \in ToldTails(pat, path, i)
      <4>1. PICK k \in f[i + 1] : d \in Depths(path) /\ k >= d + 1 /\ k >= d
        BY <3>2
      <4>2. k \in ToldTails(pat, path, i + 1) /\ k >= d + (IF i = Len(pat) THEN 1 ELSE 0)
        BY <2>2, <2>3, <4>1
      <4> QED BY <2>5, <4>1, <4>2, ToldStep
    <3> QED BY <3>3
  <2> QED BY <2>4, <2>5
<1>5. P = 1 .. N + 1
  <2>1. ASSUME NEW i \in 1 .. N, \A j \in i + 1 .. N + 1 : j \in P PROVE i \in P
    <3>1. i \in 1 .. N + 1
      BY <1>1
    <3> QED BY <1>4, <2>1, <3>1
  <2>2. P \in SUBSET (1 .. N + 1)
    OBVIOUS
  <2> HIDE DEF P, N
  <2> QED BY <1>1, <1>3, <2>1, <2>2, Backwards
<1> QED BY <1>5

\* What the expression reads to the end, the pattern describes.
LEMMA ReadIsDescribed ==
  ASSUME NEW pat \in Seq(Segments), NEW path \in Seq(Names), Plain(pat), Reads(pat, path)
  PROVE  Describes(pat, path)
<1>1. 1 \in 1 .. Len(pat) + 1
  BY Pieces
<1>2. PICK f : IsRest(pat, path, f) /\ (Reads(pat, path) <=> 0 \in f[1])
  BY RestWalk
<1>3. 0 \in ToldTails(pat, path, 1)
  BY <1>1, <1>2, RestInTails
<1> QED BY <1>3, ToldIsDescribed

\* The way on from behind a leading empty name is a way along the path itself.
LEMMA ShiftedTails ==
  ASSUME NEW pat \in Seq(Segments), NEW path \in Seq(Names), NEW text \in Seq(Names),
         Len(text) = Len(path) + 1, \A j \in 1 .. Len(path) : text[j + 1] = path[j]
  PROVE  \A i \in 1 .. Len(pat) + 1 : \A d \in ToldTails(pat, text, i) :
           d > 0 => d - 1 \in ToldTails(pat, path, i)
<1>0. ASSUME NEW i \in 1 .. Len(pat), NEW d \in ToldTails(pat, text, i)
      PROVE  \E k \in ToldTails(pat, text, i + 1) :
               IF IsDeep(pat, i) THEN k >= d + (IF i = Len(pat) THEN 1 ELSE 0)
                                 ELSE k = d + 1 /\ text[k] \in pat[i].names
  BY ToldStep
<1> DEFINE N == Len(pat)
           P == {i \in 1 .. N + 1 : \A d \in ToldTails(pat, text, i) :
                                     d > 0 => d - 1 \in ToldTails(pat, path, i)}
<1>1. N \in Nat /\ Len(path) \in Nat
  OBVIOUS
<1>2. text \in Seq(Names) /\ Len(text) = Len(path) + 1
  OBVIOUS
<1>3. \A j \in 1 .. Len(path) : text[j + 1] = path[j]
  OBVIOUS
<1>4. N + 1 \in P
  <2>1. ToldTails(pat, text, N + 1) = {Len(text)} /\ ToldTails(pat, path, N + 1) = {Len(path)}
    BY <1>2, LastTail, ToldMoves DEF ToldTails
  <2> QED BY <1>1, <1>2, <2>1
<1>5. ASSUME NEW i \in 1 .. N, \A j \in i + 1 .. N + 1 : j \in P,
             NEW d \in ToldTails(pat, text, i), d > 0
      PROVE  d - 1 \in ToldTails(pat, path, i)
  <2>1. i + 1 \in i + 1 .. N + 1
    BY <1>1
  <2>2. PICK k \in ToldTails(pat, text, i + 1) :
          IF IsDeep(pat, i) THEN k >= d + (IF i = N THEN 1 ELSE 0)
                            ELSE k = d + 1 /\ text[k] \in pat[i].names
    BY <1>0
  <2>3. d \in 0 .. Len(text) /\ k \in 0 .. Len(text)
    BY DEF ToldTails, Tails, Depths
  <2>4. k > 0 /\ d - 1 \in Depths(path) /\ k - 1 \in Depths(path)
    BY <1>1, <1>2, <1>5, <2>2, <2>3 DEF Depths
  <2>5. k - 1 \in ToldTails(pat, path, i + 1)
    BY <1>5, <2>1, <2>4
  <2>6. IF IsDeep(pat, i) THEN k - 1 >= d - 1 + (IF i = N THEN 1 ELSE 0)
                          ELSE k - 1 = d - 1 + 1 /\ path[k - 1] \in pat[i].names
    <3>1. CASE IsDeep(pat, i)
      BY <2>2, <2>3, <3>1
    <3>2. CASE ~IsDeep(pat, i)
      <4>1. k = d + 1 /\ text[k] \in pat[i].names
        BY <2>2, <3>2
      <4>2. k - 1 \in 1 .. Len(path) /\ (k - 1) + 1 = k
        BY <1>1, <1>2, <1>5, <2>3, <4>1
      <4>3. path[k - 1] = text[k]
        BY <1>3, <4>2
      <4>4. k - 1 = d - 1 + 1
        BY <2>3, <4>1
      <4> QED BY <3>2, <4>1, <4>3, <4>4
    <3> QED BY <3>1, <3>2
  <2> QED BY <2>4, <2>5, <2>6, ToldStep
<1>6. P = 1 .. N + 1
  <2>1. ASSUME NEW i \in 1 .. N, \A j \in i + 1 .. N + 1 : j \in P PROVE i \in P
    <3>1. i \in 1 .. N + 1
      BY <1>1
    <3> QED BY <1>5, <2>1, <3>1
  <2>2. P \in SUBSET (1 .. N + 1)
    OBVIOUS
  <2> HIDE DEF P, N
  <2> QED BY <1>1, <1>4, <2>1, <2>2, Backwards
<1> QED BY <1>6

\* Where a plain pattern is read with the leading slash, its opening "**" took the
\* empty name before it.
LEMMA ReadWithSlash ==
  ASSUME NEW pat \in Seq(Segments), NEW path \in Seq(Names), Plain(pat), path # <<>>,
         Reads(pat, <<Empty>> \o path)
  PROVE  pat # <<>> /\ IsDeep(pat, 1) /\ Describes(pat, path)
<1> DEFINE text == <<Empty>> \o path
<1>1. /\ text \in Seq(Names) /\ Len(text) = Len(path) + 1 /\ text[1] = Empty
      /\ Len(path) \in Nat /\ Len(path) # 0 /\ Len(pat) \in Nat
      /\ \A j \in 1 .. Len(path) : text[j + 1] = path[j]
  BY NamesAssumption
<1>2. PICK f : IsRest(pat, text, f) /\ 0 \in f[1]
  BY <1>1, RestWalk
<1> HIDE DEF text
<1>3. f[Len(pat) + 1] = {Len(text)}
  BY <1>1, <1>2, RestStep
<1>4. Len(pat) # 0 /\ 1 \in 1 .. Len(pat)
  BY <1>1, <1>2, <1>3
<1>5. f[2] \subseteq ToldTails(pat, text, 2) /\ f[2] \in SUBSET Depths(text)
  <2>1. 2 \in 1 .. Len(pat) + 1
    BY <1>1, <1>4
  <2> QED BY <1>1, <1>2, <2>1, RestInTails DEF ToldTails, Tails
<1>6. IsDeep(pat, 1)
  <2> SUFFICES ASSUME ~IsDeep(pat, 1) PROVE FALSE
    OBVIOUS
  <2>1. 1 + 1 = 2
    OBVIOUS
  <2>2. f[1] = Spelled(pat, text, 1, f[2])
    BY <1>1, <1>2, <1>4, <2>1, RestStep
  <2>3. 0 \in Above(pat, text, 1, f[2])
    BY <1>1, <1>2, <1>4, <1>5, <2>2, PlainStep
  <2>4. text[1] \in pat[1].names
    BY <2>3 DEF Above
  <2> QED BY <1>1, <1>4, <2>4 DEF Plain
<1>7. 1 \in f[2]
  <2>1. 1 \notin Spans(pat)
    BY DEF Spans
  <2>2. f[1] = {d \in Depths(text) : d + 1 \in f[1 + 1]}
    BY <1>1, <1>2, <1>4, <1>6, <2>1, RestStep
  <2> QED BY <1>2, <2>2
<1>8. Len(pat) # 1
  <2> SUFFICES ASSUME Len(pat) = 1 PROVE FALSE
    OBVIOUS
  <2>1. f[2] = {Len(text)}
    <3>1. Len(pat) + 1 = 2
      OBVIOUS
    <3> QED BY <1>3, <3>1
  <2> QED BY <1>1, <1>7, <2>1
<1>9. 0 \in ToldTails(pat, path, 2)
  <2>1. 2 \in 1 .. Len(pat) + 1 /\ 1 - 1 = 0 /\ 1 > 0
    BY <1>1, <1>4
  <2> QED BY <1>1, <1>5, <1>7, <2>1, ShiftedTails
<1>10. 0 \in ToldTails(pat, path, 1)
  <2>1. 0 \in Depths(path) /\ 1 + 1 = 2 /\ 0 >= 0 + (IF 1 = Len(pat) THEN 1 ELSE 0)
    BY <1>1, <1>8, Pieces
  <2>2. ToldTails(pat, path, 1) =
          {d \in Depths(path) : \E k \in ToldTails(pat, path, 1 + 1) :
             IF IsDeep(pat, 1) THEN k >= d + (IF 1 = Len(pat) THEN 1 ELSE 0)
                               ELSE k = d + 1 /\ path[k] \in pat[1].names}
    BY <1>4, ToldStep
  <2>3. 0 \in ToldTails(pat, path, 1 + 1)
    BY <1>9, <2>1
  <2> QED BY <1>6, <2>1, <2>2, <2>3
<1> QED BY <1>4, <1>6, <1>10, ToldIsDescribed

\* For any plain pattern and any path: an event whose path the expression accepts is
\* one the pattern describes, so one the tree search finds.
THEOREM MatchedIsDescribed ==
  ASSUME NEW pat \in Seq(Segments), NEW path \in Seq(Names), Plain(pat), path # <<>>,
         MatcherMatches(pat, path)
  PROVE  Describes(pat, path) /\ TreeFinds(pat, path)
BY ReadIsDescribed, ReadWithSlash, FindsWhatIsDescribed DEF MatcherMatches

-----------------------------------------------------------------------------
(* The regular expression, where every "**" is between two named segments. *)

\* The names a segment takes if every one takes a name.
OneAtLeast(pat, path) ==
  [i \in 1 .. Len(pat) |->
     {m \in Depths(path) \X Depths(path) :
        m[2] > m[1] /\ (IsDeep(pat, i) \/ (m[2] = m[1] + 1 /\ path[m[2]] \in pat[i].names))}]

OneTails(pat, path, i) == Tails(pat, path, OneAtLeast(pat, path), i)

LEMMA OneMoves ==
  ASSUME NEW pat \in Seq(Segments), NEW path \in Seq(Names)
  PROVE  /\ OneAtLeast(pat, path) \in Moves(pat, path)
         /\ \A i \in 1 .. Len(pat), d \in Depths(path), k \in Depths(path) :
              <<d, k>> \in OneAtLeast(pat, path)[i] <=>
                k > d /\ (IsDeep(pat, i) \/ (k = d + 1 /\ path[k] \in pat[i].names))
BY DEF OneAtLeast, Moves

LEMMA OneStep ==
  ASSUME NEW pat \in Seq(Segments), NEW path \in Seq(Names), NEW i \in 1 .. Len(pat)
  PROVE  /\ IsDeep(pat, i) => OneTails(pat, path, i) = Some(path, OneTails(pat, path, i + 1))
         /\ ~IsDeep(pat, i) =>
              OneTails(pat, path, i) = Above(pat, path, i, OneTails(pat, path, i + 1))
<1>1. \A d \in Depths(path) :
        d \in OneTails(pat, path, i) <=>
          \E k \in OneTails(pat, path, i + 1) : <<d, k>> \in OneAtLeast(pat, path)[i]
  <2>1. OneAtLeast(pat, path) \in Moves(pat, path)
    BY OneMoves
  <2> QED BY <2>1, TailStep DEF OneTails
<1> DEFINE Next1 == OneTails(pat, path, i + 1)
<1>2. OneTails(pat, path, i) \subseteq Depths(path) /\ Next1 \subseteq Depths(path)
  BY DEF OneTails, Tails
<1>3. /\ Len(path) \in Nat /\ Depths(path) \subseteq Nat
      /\ \A d \in Depths(path) : d <= Len(path)
  BY Pieces
<1> HIDE DEF Next1
<1>4. OneTails(pat, path, i) = {d \in Depths(path) :
        \E k \in Next1 : k > d /\ (IsDeep(pat, i) \/ (k = d + 1 /\ path[k] \in pat[i].names))}
  BY <1>1, <1>2, OneMoves DEF Next1
<1>5. IsDeep(pat, i) => OneTails(pat, path, i) = Some(path, Next1)
  <2>1. \A d \in Depths(path), k \in Next1 : k > d <=> d < k
    BY <1>2, <1>3
  <2> QED BY <1>4, <2>1 DEF Some
<1>6. ~IsDeep(pat, i) => OneTails(pat, path, i) = Above(pat, path, i, Next1)
  <2>1. \A d \in Depths(path) : d + 1 \in Next1 => d < Len(path) /\ d + 1 > d
    BY <1>2, <1>3
  <2> QED BY <1>4, <2>1 DEF Above
<1> QED BY <1>5, <1>6 DEF Next1

LEMMA RestIsOneTails ==
  ASSUME NEW pat \in Seq(Segments), NEW path \in Seq(Names), BetweenNamed(pat),
         Plain(pat), Exact(pat), NEW f, IsRest(pat, path, f)
  PROVE  \A i \in 1 .. Len(pat) + 1 : f[i] = OneTails(pat, path, i)
<1> DEFINE N == Len(pat)
           P == {i \in 1 .. N + 1 : f[i] = OneTails(pat, path, i)}
<1>1. N \in Nat
  OBVIOUS
<1>2. f[N + 1] = OneTails(pat, path, N + 1)
  <2>1. OneTails(pat, path, N + 1) = {Len(path)}
    BY LastTail, OneMoves DEF OneTails
  <2> QED BY <2>1, RestStep
<1>3. N + 1 \in P
  BY <1>1, <1>2
<1>4. ASSUME NEW i \in 1 .. N, \A j \in i + 1 .. N + 1 : j \in P
      PROVE  f[i] = OneTails(pat, path, i)
  <2>1. i + 1 \in 1 .. N + 1 /\ i + 1 \in i + 1 .. N + 1
    BY <1>1
  <2>2. f[i + 1] = OneTails(pat, path, i + 1)
    BY <1>4, <2>1
  <2>3. /\ IsDeep(pat, i) => f[i] = Some(path, f[i + 1])
        /\ ~IsDeep(pat, i) => f[i] = Above(pat, path, i, f[i + 1])
    <3>1. IsDeep(pat, i) => i \in Spans(pat)
      BY SpansDeep
    <3>2. f[i + 1] \in SUBSET Depths(path)
      BY <2>2 DEF OneTails, Tails
    <3>3. ~IsDeep(pat, i) => f[i] = Spelled(pat, path, i, f[i + 1])
      BY RestStep
    <3>4. ~IsDeep(pat, i) => f[i] = Above(pat, path, i, f[i + 1])
      BY <3>2, <3>3, PlainStep, ExactStep
    <3> QED BY <3>1, <3>4, RestStep
  <2> QED BY <2>2, <2>3, OneStep
<1>5. P = 1 .. N + 1
  <2>1. ASSUME NEW i \in 1 .. N, \A j \in i + 1 .. N + 1 : j \in P PROVE i \in P
    <3>1. i \in 1 .. N + 1
      BY <1>1
    <3> QED BY <1>4, <2>1, <3>1
  <2>2. P \in SUBSET (1 .. N + 1)
    OBVIOUS
  <2> HIDE DEF P, N
  <2> QED BY <1>1, <1>3, <2>1, <2>2, Backwards
<1> QED BY <1>5

\* For any path, and any plain and exact pattern whose "**" are each between two named
\* segments: the expression accepts the path exactly when the pattern describes it
\* with every segment taking one name at least.
THEOREM MatchedTakesOne ==
  ASSUME NEW pat \in Seq(Segments), NEW path \in Seq(Names), BetweenNamed(pat),
         Plain(pat), Exact(pat), path # <<>>
  PROVE  MatcherMatches(pat, path) <=> EachTakesOne(pat, path)
<1>1. Len(pat) \in Nat /\ 0 \in Depths(path) /\ 1 - 1 = 0 /\ 1 \in 1 .. Len(pat) + 1
  BY Pieces
<1>2. PICK f : /\ IsRest(pat, path, f)
               /\ Reads(pat, path) <=> 0 \in f[1]
  BY RestWalk
<1>3. f[1] = OneTails(pat, path, 1)
  BY <1>1, <1>2, RestIsOneTails
<1>4. ASSUME NEW At \in [0 .. Len(pat) -> Depths(path)], NEW i \in 1 .. Len(pat)
      PROVE  At[i] > At[i - 1] /\ (IsDeep(pat, i) \/ Takes(pat, path, At, i))
               <=> <<At[i - 1], At[i]>> \in OneAtLeast(pat, path)[i]
  <2>1. At[i - 1] \in Depths(path) /\ At[i] \in Depths(path)
    BY <1>1
  <2> QED BY <2>1, OneMoves DEF Takes
<1>5. EachTakesOne(pat, path) <=> 0 \in OneTails(pat, path, 1)
  BY <1>1, <1>4 DEF EachTakesOne, OneTails, Tails, Leads
<1>6. ~IsDeep(pat, 1)
  BY <1>1 DEF BetweenNamed, IsDeep
<1>7. ~Reads(pat, <<Empty>> \o path)
  BY <1>6, ReadWithSlash
<1> QED BY <1>2, <1>3, <1>5, <1>7 DEF MatcherMatches
=============================================================================
