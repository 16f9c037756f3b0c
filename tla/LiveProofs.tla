----------------------------- MODULE LiveProofs -----------------------------
(***************************************************************************)
(* Proofs about LiveCore, for any synths, samples, programs and bounds, and *)
(* whether or not programs replace and free what is loading.  The argument: *)
(* each operator on the line takes sounds from its front or puts new ones   *)
(* at its end (Kept), so that what is held is always the end of what was    *)
(* made; a promise awaited is one that was made, for promises are never     *)
(* taken back and a sound's needs are asked for as it is made.              *)
(***************************************************************************)
EXTENDS LiveCore, TLAPS, WellFoundedInduction, SequenceTheorems

Fates == {"held", "sent", "failed", "stopped"}
Pairs(a) == UNION {{x} \X DOMAIN a[x] : x \in Things}   \* Made, of any promises
Asks == [Things -> Seq(Promises)]
Given(a) == {x \in Things : a[x] # <<>>}

LineSet(a) ==
  [queue : Seq(Sounds), needs : Seq(SUBSET Given(a)), fate : Seq(Fates),
   gate : {"none", "open", "waiting"},
   pump : [on : SUBSET Pairs(a), since : 0..(MaxStops + 1)],
   failed : SUBSET Sounds,
   wait : [Epochs -> [busy : BOOLEAN, held : SUBSET [sound : Sounds, on : SUBSET Pairs(a)]]]]

Gone(l) == Len(l.fate) - Len(l.queue)     \* how many sounds have left the line

(* What is held is the end of what was made.                                *)
Ordered(l) ==
  /\ Len(l.fate) = Len(l.needs) /\ Len(l.fate) <= MaxSounds
  /\ Len(l.queue) <= Len(l.fate)
  /\ \A i \in 1..Len(l.queue) : l.queue[i] = Gone(l) + i
  /\ \A i \in 1..Len(l.fate) : l.fate[i] = "held" <=> i > Gone(l)

LineInv(l, a) == l \in LineSet(a) /\ Ordered(l)

(* The line k is l with n sounds more, some of the first gone.              *)
Kept(l, k, n) == Len(k.fate) = Len(l.fate) + n /\ Gone(l) <= Gone(k)

IInv ==
  /\ LoaderTypeOK
  /\ LineInv(line, asks)
  /\ running \in BOOLEAN /\ stops \in Epochs
  /\ runs \in [Runs -> [phase : {"unpressed", "fetching", "joining", "started", "failed"},
                        heard : Epochs, at : Epochs]]

-----------------------------------------------------------------------------
(* How far a line leads.                                                    *)

\* Every non-empty set of naturals has a least element.
LEMMA Least ==
  ASSUME NEW S \in SUBSET Nat, S # {}
  PROVE  \E m \in S : \A x \in S : m <= x
<1>1. PICK m \in S : \A y \in S : ~ (<<y, m>> \in OpToRel(<, Nat))
  BY NatLessThanWellFounded, WFMin, Zenon
<1>2. \A y \in S : ~ (y < m)
  BY <1>1, Zenon DEF OpToRel
<1> QED BY <1>2, SMT

\* Leading is the number of sounds of the line before the first not in S.
LEMMA LeadingIs ==
  ASSUME NEW l, NEW T, l.queue \in Seq(T), NEW S
  PROVE  /\ Leading(l, S) \in 0..Len(l.queue)
         /\ \A m \in 1..Leading(l, S) : l.queue[m] \in S
         /\ Leading(l, S) = Len(l.queue) \/ l.queue[Leading(l, S) + 1] \notin S
<1> DEFINE N == Len(l.queue)
           E == {n \in 0..N : n = N \/ l.queue[n + 1] \notin S}
<1>0. N \in Nat
  BY LenProperties
<1>1. N \in E
  BY <1>0
<1>2. PICK n \in E : \A x \in E : n <= x
  <2>1. E \in SUBSET Nat /\ E # {}
    BY <1>0, <1>1
  <2> HIDE DEF E
  <2> QED BY <2>1, Least
<1>3. \A m \in 1..n : l.queue[m] \in S
  <2> SUFFICES ASSUME NEW m \in 1..n, l.queue[m] \notin S
               PROVE  FALSE
    OBVIOUS
  <2>1. m - 1 \in E /\ n \in Nat /\ m - 1 < n
    BY <1>0, <1>2
  <2> HIDE DEF E
  <2>2. n <= m - 1
    BY <1>2, <2>1
  <2> QED BY <2>1, <2>2
<1>4. /\ n \in 0..Len(l.queue)
      /\ \A m \in 1..n : l.queue[m] \in S
      /\ n = Len(l.queue) \/ l.queue[n + 1] \notin S
  BY <1>2, <1>3
<1> HIDE DEF N, E
<1> QED BY <1>4, Zenon DEF Leading

LEMMA LeadingIsANumber ==
  ASSUME NEW l, NEW T, l.queue \in Seq(T), NEW S
  PROVE  Leading(l, S) \in 0..Len(l.queue)
BY LeadingIs

-----------------------------------------------------------------------------
(* The operators on the line.                                               *)

\* The fields of a line.
LEMMA Fields ==
  ASSUME NEW a, NEW l \in LineSet(a)
  PROVE  /\ l.queue \in Seq(Sounds) /\ Len(l.queue) \in Nat /\ DOMAIN l.queue = 1..Len(l.queue)
         /\ l.needs \in Seq(SUBSET Given(a)) /\ Len(l.needs) \in Nat
         /\ DOMAIN l.needs = 1..Len(l.needs)
         /\ l.fate \in Seq(Fates) /\ Len(l.fate) \in Nat /\ DOMAIN l.fate = 1..Len(l.fate)
<1>1. l.queue \in Seq(Sounds) /\ l.needs \in Seq(SUBSET Given(a)) /\ l.fate \in Seq(Fates)
  BY DEF LineSet
<1> QED BY <1>1, LenProperties

\* What is held, counted from what has left.
LEMMA Counts ==
  ASSUME NEW a, NEW l, LineInv(l, a)
  PROVE  /\ Gone(l) \in Nat /\ Gone(l) + Len(l.queue) = Len(l.fate)
         /\ \A i \in 1..Len(l.queue) : l.queue[i] = Gone(l) + i
         /\ \A i \in 1..Len(l.fate) : l.fate[i] = "held" <=> i > Gone(l)
<1>1. Len(l.queue) \in Nat /\ Len(l.fate) \in Nat
  BY Fields DEF LineInv
<1>2. Ordered(l)
  BY DEF LineInv
<1>3. Gone(l) = Len(l.fate) - Len(l.queue)
  BY DEF Gone
<1>4. Len(l.queue) <= Len(l.fate)
  BY <1>2 DEF Ordered
<1>5. Gone(l) \in Nat /\ Gone(l) + Len(l.queue) = Len(l.fate)
  BY <1>1, <1>3, <1>4
<1>6. /\ \A i \in 1..Len(l.queue) : l.queue[i] = Gone(l) + i
      /\ \A i \in 1..Len(l.fate) : l.fate[i] = "held" <=> i > Gone(l)
  BY <1>2, Zenon DEF Ordered
<1> QED BY <1>5, <1>6

LEMMA Fewer ==
  ASSUME NEW f \in Nat, NEW q \in Nat, NEW n \in 0..q, NEW g \in Nat, g + q = f
  PROVE  f - (q - n) = g + n
OBVIOUS

\* A line whose first n sounds have gone is a line.
LEMMA FrontLeaves ==
  ASSUME NEW a, NEW l, LineInv(l, a), NEW n \in 0..Len(l.queue),
         NEW k \in LineSet(a), k.needs = l.needs, Len(k.fate) = Len(l.fate),
         Len(k.queue) = Len(l.queue) - n,
         \A i \in 1..Len(k.queue) : k.queue[i] = l.queue[n + i],
         \A i \in 1..Len(l.fate) : k.fate[i] = "held" <=> i > Gone(l) + n
  PROVE  LineInv(k, a) /\ Kept(l, k, 0)
<1>0. l \in LineSet(a) /\ Ordered(l)
  BY DEF LineInv
<1>1. Len(l.queue) \in Nat /\ Len(l.fate) \in Nat
  BY <1>0, Fields
<1>2. Gone(l) \in Nat /\ Gone(l) + Len(l.queue) = Len(l.fate)
  BY Counts
<1>3. Gone(k) = Gone(l) + n
  <2>1. Gone(k) = Len(l.fate) - (Len(l.queue) - n)
    BY Zenon DEF Gone
  <2>2. Len(l.fate) - (Len(l.queue) - n) = Gone(l) + n
    BY <1>1, <1>2, Fewer, ZenonT(40)
  <2> QED BY <2>1, <2>2, Zenon
<1>4. \A i \in 1..Len(k.queue) : k.queue[i] = Gone(k) + i
  <2> SUFFICES ASSUME NEW i \in 1..Len(k.queue)
               PROVE  k.queue[i] = Gone(k) + i
    OBVIOUS
  <2>1. k.queue[i] = l.queue[n + i] /\ n + i \in 1..Len(l.queue) /\ i \in Nat
    BY <1>1
  <2>2. l.queue[n + i] = Gone(l) + (n + i)
    BY <2>1, Counts, Zenon
  <2> QED BY <1>2, <1>3, <2>1, <2>2
<1>5. \A i \in 1..Len(k.fate) : k.fate[i] = "held" <=> i > Gone(k)
  BY <1>3
<1>6. /\ Len(k.fate) = Len(k.needs) /\ Len(k.fate) <= MaxSounds
      /\ Len(k.queue) <= Len(k.fate)
  BY <1>0, <1>1, <1>2 DEF Ordered
<1>7. Kept(l, k, 0)
  BY <1>1, <1>2, <1>3 DEF Kept
<1> QED BY <1>4, <1>5, <1>6, <1>7 DEF Ordered, LineInv

\* The first n leave.
LEMMA LeaveKeeps ==
  ASSUME NEW a, NEW l, LineInv(l, a), NEW n \in 0..Len(l.queue)
  PROVE  LineInv(Leave(l, a, n), a) /\ Kept(l, Leave(l, a, n), 0)
<1> DEFINE q == SubSeq(l.queue, n + 1, Len(l.queue))
           gone == ToSet(SubSeq(l.queue, 1, n))
           f == [i \in DOMAIN l.fate |-> IF i \notin gone THEN l.fate[i]
                                         ELSE IF Ready(l, a, i) /\ i \notin l.failed
                                         THEN "sent" ELSE "failed"]
           k == [l EXCEPT !.queue = q, !.fate = f]
<1>0. l \in LineSet(a) /\ Ordered(l)
  BY DEF LineInv
<1>1. /\ l.queue \in Seq(Sounds) /\ Len(l.queue) \in Nat
      /\ l.fate \in Seq(Fates) /\ Len(l.fate) \in Nat /\ DOMAIN l.fate = 1..Len(l.fate)
  BY <1>0, Fields
<1>2. q \in Seq(Sounds) /\ Len(q) = Len(l.queue) - n
      /\ \A i \in 1..Len(q) : q[i] = l.queue[n + i]
  <2>1. \A i \in (n + 1)..Len(l.queue) : l.queue[i] \in Sounds
    BY <1>1, ElementOfSeq
  <2> QED BY <1>1, <2>1, SubSeqProperties
<1>3. \A i \in 1..Len(l.fate) : i \in gone <=> i > Gone(l) /\ i <= Gone(l) + n
  <2>1. /\ SubSeq(l.queue, 1, n) \in Seq(Sounds) /\ Len(SubSeq(l.queue, 1, n)) = n
        /\ \A i \in 1..n : SubSeq(l.queue, 1, n)[i] = l.queue[i]
    <3>1. \A i \in 1..n : l.queue[i] \in Sounds
      BY <1>1, ElementOfSeq
    <3> QED BY <1>1, <3>1, SubSeqProperties
  <2>2. gone = {l.queue[i] : i \in 1..n}
    BY <2>1, LenProperties DEF ToSet
  <2> HIDE DEF gone
  <2>3. \A i \in 1..n : l.queue[i] = Gone(l) + i
    BY <1>1, Counts
  <2>4. Gone(l) \in Nat
    BY Counts
  <2> SUFFICES ASSUME NEW i \in 1..Len(l.fate)
               PROVE  i \in gone <=> i > Gone(l) /\ i <= Gone(l) + n
    OBVIOUS
  <2>5. ASSUME i \in gone PROVE i > Gone(l) /\ i <= Gone(l) + n
    BY <2>2, <2>3, <2>4, <2>5
  <2>6. ASSUME i > Gone(l), i <= Gone(l) + n PROVE i \in gone
    <3>1. i - Gone(l) \in 1..n /\ l.queue[i - Gone(l)] = i
      BY <1>1, <2>3, <2>4, <2>6
    <3> QED BY <2>2, <3>1
  <2> QED BY <2>5, <2>6
<1>4. f \in Seq(Fates) /\ Len(f) = Len(l.fate)
  <2>1. \A i \in 1..Len(l.fate) : f[i] \in Fates
    BY <1>1, ElementOfSeq DEF Fates
  <2>2. f \in [1..Len(l.fate) -> Fates]
    BY <1>1, <2>1
  <2> QED BY <1>1, <2>2, SeqDef
<1>5. \A i \in 1..Len(l.fate) : f[i] = "held" <=> i > Gone(l) + n
  <2> SUFFICES ASSUME NEW i \in 1..Len(l.fate)
               PROVE  f[i] = "held" <=> i > Gone(l) + n
    OBVIOUS
  <2>1. Gone(l) \in Nat /\ (l.fate[i] = "held" <=> i > Gone(l))
    BY Counts
  <2>2. f[i] = l.fate[i] \/ (i \in gone /\ f[i] \in {"sent", "failed"})
    BY <1>1
  <2>3. i \notin gone => f[i] = l.fate[i]
    BY <1>1
  <2>4. i \in gone => f[i] # "held"
    BY <1>1
  <2> HIDE DEF f, gone
  <2> QED BY <1>3, <2>1, <2>3, <2>4
<1> HIDE DEF q, f
<1>6. k \in LineSet(a) /\ k.queue = q /\ k.fate = f /\ k.needs = l.needs
  BY <1>0, <1>2, <1>4 DEF LineSet
<1>8. k = Leave(l, a, n)
  BY DEF Leave, k, q, f
<1> HIDE DEF k
<1>7. /\ Len(k.fate) = Len(l.fate) /\ Len(k.queue) = Len(l.queue) - n
      /\ \A i \in 1..Len(k.queue) : k.queue[i] = l.queue[n + i]
      /\ \A i \in 1..Len(l.fate) : k.fate[i] = "held" <=> i > Gone(l) + n
  BY <1>2, <1>4, <1>5, <1>6, Zenon
<1> QED BY <1>6, <1>7, <1>8, FrontLeaves

\* The sounds held are sounds made, and their needs have been asked for.
LEMMA HeldAreMade ==
  ASSUME NEW a, NEW l, LineInv(l, a), NEW i \in ToSet(l.queue)
  PROVE  i \in Sounds /\ i \in DOMAIN l.needs /\ l.needs[i] \in SUBSET Given(a)
         /\ i \in DOMAIN l.fate
<1>0. l \in LineSet(a) /\ Ordered(l)
  BY DEF LineInv
<1>1. /\ l.queue \in Seq(Sounds) /\ Len(l.queue) \in Nat /\ DOMAIN l.queue = 1..Len(l.queue)
      /\ l.needs \in Seq(SUBSET Given(a)) /\ DOMAIN l.needs = 1..Len(l.needs)
      /\ DOMAIN l.fate = 1..Len(l.fate) /\ Len(l.fate) \in Nat
  BY <1>0, Fields
<1>2. PICK m \in 1..Len(l.queue) : i = l.queue[m]
  BY <1>1 DEF ToSet
<1>3. i = Gone(l) + m /\ Gone(l) \in Nat /\ Gone(l) + Len(l.queue) = Len(l.fate)
  BY <1>2, Counts
<1>4. i \in 1..Len(l.fate)
  BY <1>1, <1>2, <1>3
<1>5. Len(l.fate) = Len(l.needs)
  BY <1>0 DEF Ordered
<1> QED BY <1>1, <1>2, <1>4, <1>5, ElementOfSeq

\* What is awaited is a promise made.
LEMMA AwaitsAreMade ==
  ASSUME NEW a \in Asks, NEW need \in SUBSET Given(a)
  PROVE  Awaits(a, need) \in SUBSET Pairs(a)
<1> SUFFICES ASSUME NEW x \in need \ freed
             PROVE  <<x, Len(a[x])>> \in Pairs(a)
  BY DEF Awaits
<1>1. x \in Things /\ a[x] \in Seq(Promises) /\ a[x] # <<>>
  BY DEF Given, Asks
<1>2. Len(a[x]) \in DOMAIN a[x]
  BY <1>1, EmptySeq, LenProperties
<1>3. <<x, Len(a[x])>> \in {x} \X DOMAIN a[x]
  BY <1>2
<1> QED BY <1>1, <1>3 DEF Pairs

\* The head leaves.
LEMMA ShiftKeeps ==
  ASSUME NEW a, NEW l, LineInv(l, a), l.queue # <<>>, NEW ok \in BOOLEAN
  PROVE  LineInv(Shift(l, ok), a) /\ Kept(l, Shift(l, ok), 0)
<1> DEFINE h == Head(l.queue)
           e == IF ok THEN "sent" ELSE "failed"
           f == [l.fate EXCEPT ![h] = e]
           k == [l EXCEPT !.queue = Tail(l.queue), !.fate = f]
<1>0. l \in LineSet(a) /\ Ordered(l)
  BY DEF LineInv
<1>1. /\ l.queue \in Seq(Sounds) /\ Len(l.queue) \in Nat
      /\ l.fate \in Seq(Fates) /\ Len(l.fate) \in Nat
  BY <1>0, Fields
<1>2. /\ Tail(l.queue) \in Seq(Sounds) /\ Len(Tail(l.queue)) = Len(l.queue) - 1
      /\ 1 \in 0..Len(l.queue) /\ h = l.queue[1]
      /\ \A i \in 1..Len(Tail(l.queue)) : Tail(l.queue)[i] = l.queue[1 + i]
  BY <1>1, EmptySeq, HeadTailProperties
<1>3. /\ h = Gone(l) + 1 /\ Gone(l) \in Nat /\ Gone(l) + Len(l.queue) = Len(l.fate)
      /\ \A i \in 1..Len(l.fate) : l.fate[i] = "held" <=> i > Gone(l)
  BY <1>1, <1>2, Counts
<1>4. h \in 1..Len(l.fate)
  BY <1>1, <1>2, <1>3
<1>5. /\ f \in Seq(Fates) /\ Len(f) = Len(l.fate)
      /\ \A i \in 1..Len(l.fate) : f[i] = IF i = h THEN e ELSE l.fate[i]
  BY <1>1, <1>4, ExceptSeq DEF Fates
<1> HIDE DEF f
<1>6. \A i \in 1..Len(l.fate) : f[i] = "held" <=> i > Gone(l) + 1
  BY <1>1, <1>3, <1>5
<1>7. k \in LineSet(a) /\ k.queue = Tail(l.queue) /\ k.fate = f /\ k.needs = l.needs
  BY <1>0, <1>2, <1>5 DEF LineSet
<1>8. k = Shift(l, ok)
  BY DEF Shift, k, f
<1> HIDE DEF k
<1>9. /\ Len(k.fate) = Len(l.fate) /\ Len(k.queue) = Len(l.queue) - 1
      /\ \A i \in 1..Len(k.queue) : k.queue[i] = l.queue[1 + i]
      /\ \A i \in 1..Len(l.fate) : k.fate[i] = "held" <=> i > Gone(l) + 1
  BY <1>2, <1>5, <1>6, <1>7, Zenon
<1> QED BY <1>2, <1>7, <1>8, <1>9, FrontLeaves

\* A change of what holds the line, not of the line.
LEMMA SameLine ==
  ASSUME NEW a, NEW l, LineInv(l, a), NEW k \in LineSet(a),
         k.queue = l.queue, k.needs = l.needs, k.fate = l.fate
  PROVE  LineInv(k, a) /\ Kept(l, k, 0) /\ Gone(k) = Gone(l)
<1>1. Gone(k) = Gone(l)
  BY Zenon DEF Gone
<1>2. Len(l.fate) \in Nat /\ Gone(l) \in Nat
  BY Fields, Counts DEF LineInv
<1>3. Ordered(k)
  BY <1>1 DEF Ordered, LineInv
<1> QED BY <1>1, <1>2, <1>3 DEF LineInv, Kept

\* Two steps of a line are one.
LEMMA KeptTwice ==
  ASSUME NEW a, NEW l, NEW j, NEW k, NEW n \in Nat, NEW m \in Nat, LineInv(l, a), LineInv(j, a), LineInv(k, a),
         Kept(l, j, n), Kept(j, k, m)
  PROVE  Kept(l, k, n + m)
<1>1. Len(l.fate) \in Nat /\ Gone(l) \in Nat /\ Gone(j) \in Nat /\ Gone(k) \in Nat
  BY Fields, Counts DEF LineInv
<1>2. \A x, y, z \in Nat : x <= y /\ y <= z => x <= z
  OBVIOUS
<1>3. Gone(l) <= Gone(k)
  BY <1>1, <1>2, Zenon DEF Kept
<1>4. Len(k.fate) = Len(l.fate) + n + m
  BY Zenon DEF Kept
<1>5. Len(l.fate) + n + m = Len(l.fate) + (n + m)
  <2>1. \A x, y, z \in Nat : x + y + z = x + (y + z)
    OBVIOUS
  <2> QED BY <1>1, <2>1, ZenonT(40)
<1> QED BY <1>3, <1>4, <1>5, Zenon DEF Kept

\* The pump takes sounds from the front, and awaits promises made.
LEMMA PumpKeeps ==
  ASSUME NEW a \in Asks, NEW l, LineInv(l, a), stops \in Epochs
  PROVE  LineInv(Pump(l, a), a) /\ Kept(l, Pump(l, a), 0)
<1> DEFINE n == Leading(l, Loaded(l, a))
           on == Leave(l, a, n)
           p == [on |-> Awaits(a, l.needs[Head(on.queue)]), since |-> stops]
           k == [on EXCEPT !.pump = p]
<1>1. LineInv(l, a) /\ Kept(l, l, 0)
  <2>1. Len(l.fate) \in Nat /\ Gone(l) \in Nat
    BY Fields, Counts DEF LineInv
  <2> QED BY <2>1 DEF Kept
<1>2. n \in 0..Len(l.queue)
  BY LeadingIsANumber, Fields DEF LineInv
<1> HIDE DEF n
<1>3. LineInv(on, a) /\ Kept(l, on, 0)
  BY <1>2, LeaveKeeps
<1>4. on.needs = l.needs
  BY DEF Leave, LineInv, LineSet
<1> HIDE DEF on
<1>5. ASSUME on.queue # <<>> PROVE LineInv(k, a) /\ Kept(l, k, 0)
  <2>1. Head(on.queue) \in ToSet(on.queue)
    <3>1. on.queue \in Seq(Sounds) /\ Len(on.queue) \in Nat \ {0}
      BY <1>3, <1>5, Fields, EmptySeq DEF LineInv
    <3> QED BY <3>1, LenProperties DEF ToSet
  <2>2. l.needs[Head(on.queue)] \in SUBSET Given(a)
    BY <1>3, <1>4, <2>1, HeldAreMade
  <2>3. p \in [on : SUBSET Pairs(a), since : 0..(MaxStops + 1)]
    BY <2>2, AwaitsAreMade, LiveAssumption DEF Epochs
  <2> HIDE DEF p
  <2>4. k \in LineSet(a) /\ k.queue = on.queue /\ k.needs = on.needs /\ k.fate = on.fate
    BY <1>3, <2>3 DEF LineInv, LineSet
  <2> HIDE DEF k
  <2>5. LineInv(k, a) /\ Kept(on, k, 0)
    BY <1>3, <2>4, SameLine
  <2> QED BY <1>1, <1>3, <2>5, KeptTwice
<1>6. Pump(l, a) \in {l, on} \/ (on.queue # <<>> /\ Pump(l, a) = k)
  BY DEF Pump, on, n
<1> QED BY <1>1, <1>3, <1>5, <1>6

\* So does the turn that resumes it.
LEMMA ResumeKeeps ==
  ASSUME NEW a \in Asks, NEW l, LineInv(l, a), stops \in Epochs
  PROVE  LineInv(Resume(l, a), a) /\ Kept(l, Resume(l, a), 0)
<1> DEFINE idle == [l EXCEPT !.pump = NoPump]
           ok == \A p \in l.pump.on : a[p[1]][p[2]] = "ok"
           j == Shift(idle, ok)
<1>1. LineInv(l, a) /\ Kept(l, l, 0)
  <2>1. Len(l.fate) \in Nat /\ Gone(l) \in Nat
    BY Fields, Counts DEF LineInv
  <2> QED BY <2>1 DEF Kept
<1>2. LineInv(idle, a) /\ Kept(l, idle, 0)
  <2>1. NoPump \in [on : SUBSET Pairs(a), since : 0..(MaxStops + 1)]
    BY LiveAssumption DEF NoPump
  <2>2. idle \in LineSet(a) /\ idle.queue = l.queue /\ idle.needs = l.needs /\ idle.fate = l.fate
    BY <2>1 DEF LineInv, LineSet
  <2> HIDE DEF idle
  <2> QED BY <2>2, SameLine
<1>3. idle.queue = l.queue
  BY DEF LineInv, LineSet
<1> HIDE DEF idle
<1>4. LineInv(Pump(idle, a), a) /\ Kept(l, Pump(idle, a), 0)
  <2>1. LineInv(Pump(idle, a), a) /\ Kept(idle, Pump(idle, a), 0)
    BY <1>2, PumpKeeps
  <2> QED BY <1>1, <1>2, <2>1, KeptTwice
<1>5. ASSUME l.queue # <<>>
      PROVE  LineInv(Pump(j, a), a) /\ Kept(l, Pump(j, a), 0)
  <2>1. ok \in BOOLEAN
    OBVIOUS
  <2> HIDE DEF ok
  <2>2. LineInv(j, a) /\ Kept(idle, j, 0)
    BY <1>2, <1>3, <1>5, <2>1, ShiftKeeps
  <2> HIDE DEF j
  <2>3. LineInv(Pump(j, a), a) /\ Kept(j, Pump(j, a), 0)
    BY <2>2, PumpKeeps
  <2>4. Kept(l, j, 0)
    BY <1>1, <1>2, <2>2, KeptTwice
  <2> QED BY <1>1, <2>2, <2>3, <2>4, KeptTwice
<1>6. \/ Resume(l, a) \in {l, idle, Pump(idle, a)}
      \/ l.queue # <<>> /\ Resume(l, a) = Pump(j, a)
  BY DEF Resume, idle, j, ok
<1> HIDE DEF j
<1> QED BY <1>1, <1>2, <1>4, <1>5, <1>6

\* A round of the gate's wait changes nothing of the line.
LEMMA RoundKeeps ==
  ASSUME NEW a \in Asks, NEW l, LineInv(l, a), stops \in Epochs
  PROVE  LineInv(Round(l, a), a) /\ Kept(l, Round(l, a), 0)
<1> DEFINE w == [busy |-> TRUE,
                 held |-> {[sound |-> i, on |-> Awaits(a, l.needs[i])] :
                             i \in ToSet(l.queue) \ l.failed}]
           k == [l EXCEPT !.gate = "waiting", !.wait[stops] = w]
<1>1. \A i \in ToSet(l.queue) : i \in Sounds /\ Awaits(a, l.needs[i]) \in SUBSET Pairs(a)
  BY HeldAreMade, AwaitsAreMade
<1>2. w \in [busy : BOOLEAN, held : SUBSET [sound : Sounds, on : SUBSET Pairs(a)]]
  BY <1>1
<1> HIDE DEF w
<1>3. k \in LineSet(a) /\ k.queue = l.queue /\ k.needs = l.needs /\ k.fate = l.fate
  BY <1>2 DEF LineInv, LineSet
<1>4. k = Round(l, a)
  BY DEF Round, k, w
<1> HIDE DEF k
<1> QED BY <1>3, <1>4, SameLine

\* Sounds made go to the end.
MadeLine(l, out) ==
  [l EXCEPT !.needs = @ \o out,
            !.fate = @ \o [n \in 1..Len(out) |-> "held"],
            !.queue = @ \o [n \in 1..Len(out) |-> Len(l.needs) + n]]

LEMMA MadeKeeps ==
  ASSUME NEW a, NEW l, LineInv(l, a), NEW out \in Seq(SUBSET Given(a)),
         Len(l.needs) + Len(out) <= MaxSounds
  PROVE  LineInv(MadeLine(l, out), a) /\ Kept(l, MadeLine(l, out), Len(out))
<1> DEFINE h == [n \in 1..Len(out) |-> "held"]
           q == [n \in 1..Len(out) |-> Len(l.needs) + n]
           k == MadeLine(l, out)
<1>0. l \in LineSet(a) /\ Ordered(l) /\ Len(l.fate) = Len(l.needs)
  BY DEF LineInv, Ordered
<1>1. /\ l.queue \in Seq(Sounds) /\ Len(l.queue) \in Nat
      /\ l.fate \in Seq(Fates) /\ Len(l.fate) \in Nat
      /\ l.needs \in Seq(SUBSET Given(a)) /\ Len(out) \in Nat
  BY <1>0, Fields, LenProperties
<1>2. /\ h \in Seq(Fates) /\ Len(h) = Len(out) /\ \A i \in 1..Len(out) : h[i] = "held"
      /\ q \in Seq(Sounds) /\ Len(q) = Len(out) /\ \A i \in 1..Len(out) : q[i] = Len(l.fate) + i
  <2>1. h \in [1..Len(out) -> Fates] /\ q \in [1..Len(out) -> Sounds]
    BY <1>0, <1>1, LiveAssumption DEF Fates, Sounds
  <2>2. h \in Seq(Fates) /\ q \in Seq(Sounds)
    BY <1>1, <2>1, SeqDef, SMTT(20)
  <2>3. Len(h) = Len(out) /\ Len(q) = Len(out)
    BY <1>1, <2>1, <2>2, LenProperties
  <2> QED BY <1>0, <2>2, <2>3
<1> HIDE DEF h, q
<1>3. k \in LineSet(a) /\ k.needs = l.needs \o out /\ k.fate = l.fate \o h /\ k.queue = l.queue \o q
  <2>1. /\ l.needs \o out \in Seq(SUBSET Given(a)) /\ l.fate \o h \in Seq(Fates)
        /\ l.queue \o q \in Seq(Sounds)
    BY <1>1, <1>2, ConcatProperties
  <2>2. k = [l EXCEPT !.needs = l.needs \o out, !.fate = l.fate \o h, !.queue = l.queue \o q]
    BY <1>0 DEF MadeLine, h, q, LineSet
  <2> HIDE DEF k
  <2> QED BY <1>0, <2>1, <2>2 DEF LineSet
<1> HIDE DEF k
<1>4. /\ Len(k.needs) = Len(l.fate) + Len(out) /\ Len(k.fate) = Len(l.fate) + Len(out)
      /\ Len(k.queue) = Len(l.queue) + Len(out)
  <2>1. Len(l.needs \o out) = Len(l.needs) + Len(out)
    BY <1>1, ConcatProperties, Zenon
  <2>2. Len(l.fate \o h) = Len(l.fate) + Len(h)
    <3>1. l.fate \in Seq(Fates) /\ h \in Seq(Fates)
      BY <1>1, <1>2, Zenon
    <3> QED BY <3>1, ConcatProperties, Zenon
  <2>3. Len(l.queue \o q) = Len(l.queue) + Len(q)
    <3>1. l.queue \in Seq(Sounds) /\ q \in Seq(Sounds)
      BY <1>1, <1>2, Zenon
    <3> QED BY <3>1, ConcatProperties, Zenon
  <2> QED BY <1>0, <1>2, <1>3, <2>1, <2>2, <2>3, Zenon
<1>5. PICK f \in Nat, x \in Nat, n \in Nat, g \in Nat :
        f = Len(l.fate) /\ x = Len(l.queue) /\ n = Len(out) /\ g = Gone(l)
  BY <1>1, Counts, Zenon
<1>6. /\ g + x = f /\ \A i \in 1..x : l.queue[i] = g + i
      /\ \A i \in 1..f : l.fate[i] = "held" <=> i > g
  BY <1>5, Counts, Zenon
<1>7. \A i \in 1..(f + n) : k.fate[i] = IF i <= f THEN l.fate[i] ELSE "held"
  <2>1. \A i \in 1..(f + n) : (l.fate \o h)[i] = IF i <= f THEN l.fate[i] ELSE h[i - f]
    <3>1. \A i \in 1..(Len(l.fate) + Len(h)) :
             (l.fate \o h)[i] = IF i <= Len(l.fate) THEN l.fate[i] ELSE h[i - Len(l.fate)]
      <4>1. l.fate \in Seq(Fates) /\ h \in Seq(Fates)
        BY <1>1, <1>2, Zenon
      <4> HIDE DEF k
      <4> QED BY <4>1, ConcatProperties, Zenon
    <3>2. Len(l.fate) = f /\ Len(h) = n
      BY <1>2, <1>5, Zenon
    <3> QED BY <3>1, <3>2, Zenon
  <2>2. \A i \in 1..(f + n) : i > f => i - f \in 1..n
    OBVIOUS
  <2>3. \A i \in 1..n : h[i] = "held"
    BY <1>2, <1>5, Zenon
  <2>4. \A i \in 1..(f + n) : i <= f \/ i > f
    OBVIOUS
  <2> QED BY <1>3, <2>1, <2>2, <2>3, <2>4, Zenon
<1>8. \A i \in 1..(x + n) : k.queue[i] = IF i <= x THEN l.queue[i] ELSE f + (i - x)
  <2>1. \A i \in 1..(x + n) : (l.queue \o q)[i] = IF i <= x THEN l.queue[i] ELSE q[i - x]
    <3>1. \A i \in 1..(Len(l.queue) + Len(q)) :
             (l.queue \o q)[i] = IF i <= Len(l.queue) THEN l.queue[i] ELSE q[i - Len(l.queue)]
      <4>1. l.queue \in Seq(Sounds) /\ q \in Seq(Sounds)
        BY <1>1, <1>2, Zenon
      <4> HIDE DEF k
      <4> QED BY <4>1, ConcatProperties, Zenon
    <3>2. Len(l.queue) = x /\ Len(q) = n
      BY <1>2, <1>5, Zenon
    <3> QED BY <3>1, <3>2, Zenon
  <2>2. \A i \in 1..(x + n) : i > x => i - x \in 1..n
    OBVIOUS
  <2>3. \A i \in 1..n : q[i] = f + i
    BY <1>2, <1>5, Zenon
  <2>4. \A i \in 1..(x + n) : i <= x \/ i > x
    OBVIOUS
  <2> QED BY <1>3, <2>1, <2>2, <2>3, <2>4, Zenon
<1>9. Len(k.needs) = f + n /\ Len(k.fate) = f + n /\ Len(k.queue) = x + n
  BY <1>4, <1>5, Zenon
<1>10. Gone(k) = g
  <2>1. (f + n) - (x + n) = g
    BY <1>6
  <2> QED BY <1>9, <2>1, Zenon DEF Gone
<1>11. \A i \in 1..(x + n) : k.queue[i] = g + i
  <2>1. \A i \in 1..(x + n) : (i \in 1..x /\ i <= x) \/ (~(i <= x) /\ f + (i - x) = g + i)
    BY <1>6
  <2> QED BY <1>6, <1>8, <2>1, Zenon
<1>12. \A i \in 1..(f + n) : k.fate[i] = "held" <=> i > g
  <2>1. \A i \in 1..(f + n) : (i \in 1..f /\ i <= f) \/ (~(i <= f) /\ i > g)
    BY <1>6
  <2> QED BY <1>6, <1>7, <2>1, Zenon
<1>13. f + n <= MaxSounds /\ x + n <= f + n
  <2>1. f + n <= MaxSounds
    BY <1>0, <1>5, Zenon
  <2>2. x + n <= f + n
    BY <1>6
  <2> QED BY <2>1, <2>2
<1>14. Ordered(k)
  BY <1>9, <1>10, <1>11, <1>12, <1>13, Zenon DEF Ordered
<1>15. Gone(l) <= Gone(k)
  <2>1. g <= g
    OBVIOUS
  <2> QED BY <1>5, <1>10, <2>1, Zenon
<1>16. Kept(l, k, Len(out))
  BY <1>4, <1>15, Zenon DEF Kept
<1> QED BY <1>3, <1>14, <1>16 DEF LineInv, k

\* What a call of the runtime made, wherever it goes.
LEMMA DrainKeeps ==
  ASSUME NEW a \in Asks, NEW l, LineInv(l, a), NEW out \in Seq(SUBSET Given(a)),
         Len(l.needs) + Len(out) <= MaxSounds, stops \in Epochs
  PROVE  LineInv(Drain(l, a, out), a) /\ Kept(l, Drain(l, a, out), Len(out))
<1> DEFINE made == MadeLine(l, out)
           n == Leading(made, Readies(made, a))
           ready == Leave(made, a, n)
<1>0. Len(out) \in Nat /\ Len(out) + 0 = Len(out) /\ 0 \in Nat
  <2>1. Len(out) \in Nat
    BY LenProperties
  <2> QED BY <2>1
<1>1. LineInv(made, a) /\ Kept(l, made, Len(out))
  BY MadeKeeps
<1>2. CASE out = <<>>
  <2>1. Len(l.fate) \in Nat /\ Gone(l) \in Nat
    BY Fields, Counts DEF LineInv
  <2>2. Len(out) = 0
    BY <1>2
  <2>3. Drain(l, a, out) = l
    BY <1>2 DEF Drain
  <2>4. Kept(l, l, 0)
    BY <2>1 DEF Kept
  <2> QED BY <2>2, <2>3, <2>4
<1>3. CASE out # <<>>
  <2> HIDE DEF made
  <2>1. n \in 0..Len(made.queue)
    BY <1>1, LeadingIsANumber, Fields DEF LineInv
  <2> HIDE DEF n
  <2>2. LineInv(ready, a) /\ Kept(made, ready, 0)
    BY <1>1, <2>1, LeaveKeeps
  <2> HIDE DEF ready
  <2>3. LineInv(Pump(ready, a), a) /\ Kept(ready, Pump(ready, a), 0)
    BY <2>2, PumpKeeps
  <2>4. LineInv(Pump(made, a), a) /\ Kept(made, Pump(made, a), 0)
    BY <1>1, PumpKeeps
  <2>5. LineInv(Round(made, a), a) /\ Kept(made, Round(made, a), 0)
    BY <1>1, RoundKeeps
  <2>6. Drain(l, a, out) \in {Round(made, a), Pump(made, a), Pump(ready, a)}
    BY <1>3 DEF Drain, MadeLine, made, ready, n
  <2>7. Kept(l, ready, Len(out))
    BY <1>0, <1>1, <2>2, KeptTwice, Zenon
  <2>8. Kept(l, Pump(ready, a), Len(out))
    BY <1>0, <2>2, <2>3, <2>7, KeptTwice, Zenon
  <2>9. Kept(l, Pump(made, a), Len(out)) /\ Kept(l, Round(made, a), Len(out))
    BY <1>0, <1>1, <2>4, <2>5, KeptTwice, Zenon
  <2> QED BY <2>3, <2>4, <2>5, <2>6, <2>8, <2>9, Zenon
<1> QED BY <1>2, <1>3

-----------------------------------------------------------------------------
(* The loads.                                                               *)

\* Promises are added, never taken back.
Grows(a, b) == Pairs(a) \subseteq Pairs(b) /\ Given(a) \subseteq Given(b)

\* A line is one for every promise made after.
LEMMA GrowKeeps ==
  ASSUME NEW a, NEW b, Grows(a, b), NEW l, LineInv(l, a)
  PROVE  LineInv(l, b)
<1>1. l \in LineSet(a) /\ Ordered(l)
  BY DEF LineInv
<1>2. l.needs \in Seq(SUBSET Given(b))
  <2>1. l.needs \in Seq(SUBSET Given(a)) /\ Len(l.needs) \in Nat
    BY <1>1, Fields
  <2>2. \A i \in 1..Len(l.needs) : l.needs[i] \in SUBSET Given(b)
    BY <2>1, ElementOfSeq DEF Grows
  <2>3. l.needs \in [1..Len(l.needs) -> SUBSET Given(b)]
    BY <2>1, <2>2, LenProperties
  <2> QED BY <2>1, <2>3, SeqDef
<1>3. /\ l.pump \in [on : SUBSET Pairs(b), since : 0..(MaxStops + 1)]
      /\ l.wait \in [Epochs -> [busy : BOOLEAN,
                                 held : SUBSET [sound : Sounds, on : SUBSET Pairs(b)]]]
  BY <1>1 DEF LineSet, Grows
<1>4. l \in LineSet(b)
  BY <1>1, <1>2, <1>3 DEF LineSet
<1> QED BY <1>1, <1>4 DEF LineInv

\* More promises of each thing are more promises.
LEMMA MorePromises ==
  ASSUME NEW a \in Asks, NEW b \in Asks,
         \A x \in Things : Len(a[x]) <= Len(b[x])
  PROVE  Grows(a, b)
<1>1. \A x \in Things : /\ a[x] \in Seq(Promises) /\ b[x] \in Seq(Promises)
                        /\ DOMAIN a[x] = 1..Len(a[x]) /\ DOMAIN b[x] = 1..Len(b[x])
                        /\ Len(a[x]) \in Nat /\ Len(b[x]) \in Nat
  BY LenProperties DEF Asks
<1>2. \A x \in Things : DOMAIN a[x] \subseteq DOMAIN b[x]
  BY <1>1
<1>3. \A x \in Things : a[x] # <<>> => b[x] # <<>>
  BY <1>1, EmptySeq
<1> QED BY <1>2, <1>3 DEF Grows, Pairs, Given

LEMMA Loads ==
  ASSUME LoaderTypeOK
  PROVE  /\ asks \in Asks /\ unanswered \subseteq Given(asks) /\ Made = Pairs(asks)
         /\ \A l \in loading : l.thing \in Given(asks)
<1>1. asks \in Asks /\ unanswered \subseteq Given(asks) /\ Made = Pairs(asks)
  BY DEF LoaderTypeOK, Asks, Given, Pairs, Made
<1>2. ASSUME NEW l \in loading PROVE l.thing \in Given(asks)
  <2>1. PICK x \in Things : <<l.thing, l.nth>> \in {x} \X DOMAIN asks[x]
    BY DEF LoaderTypeOK, Made
  <2>2. l.thing = x /\ l.nth \in DOMAIN asks[x]
    BY <2>1
  <2>3. asks[x] # <<>>
    BY <2>2
  <2> QED BY <2>2, <2>3 DEF Given
<1> QED BY <1>1, <1>2

\* A thing asked for has a promise.
LEMMA AskKeeps ==
  ASSUME LoaderTypeOK, NEW X \in SUBSET Things, Ask(X)
  PROVE  /\ LoaderTypeOK' /\ asks' = Asked(X) /\ Asked(X) \in Asks
         /\ Grows(asks, Asked(X)) /\ X \subseteq Given(Asked(X))
<1> DEFINE b == Asked(X)
<1>0. asks \in Asks /\ asks' = b
  BY Loads DEF Ask
<1>1. <<"pending">> \in Seq(Promises) /\ Len(<<"pending">>) = 1 /\ <<"pending">>[1] = "pending"
  BY DEF Promises
<1>2. b \in Asks
  BY <1>0, <1>1 DEF Asked, Asks
<1>3. \A x \in Unasked(X) : x \in Things /\ b[x] = <<"pending">> /\ asks[x] = <<>>
  BY DEF Asked, Unasked
<1>4. \A x \in Things \ Unasked(X) : b[x] = asks[x]
  BY DEF Asked
<1> HIDE DEF b
<1>5. \A x \in Things : Len(asks[x]) <= Len(b[x])
  <2>1. \A x \in Things : asks[x] \in Seq(Promises) /\ Len(asks[x]) \in Nat
    BY <1>0, LenProperties DEF Asks
  <2>2. \A x \in Unasked(X) : Len(asks[x]) = 0 /\ Len(b[x]) = 1
    <3>1. Len(<<>>) = 0
      OBVIOUS
    <3> QED BY <1>1, <1>3, <3>1, Zenon
  <2> QED BY <1>4, <2>1, <2>2
<1>6. Grows(asks, b)
  BY <1>0, <1>2, <1>5, MorePromises
<1>7. Unasked(X) \subseteq Given(b) /\ X \subseteq Given(b)
  <2>1. \A x \in X \ Unasked(X) : asks[x] # <<>>
    BY DEF Unasked
  <2>2. <<"pending">> # <<>>
    OBVIOUS
  <2>3. \A x \in Unasked(X) : x \in Given(b)
    BY <1>3, <2>2, Zenon DEF Given
  <2>4. \A x \in X \ Unasked(X) : x \in Given(b)
    BY <1>4, <2>1, Zenon DEF Given
  <2> QED BY <2>3, <2>4
<1>8. \A x \in Unasked(X) : <<x, 1>> \in Pairs(b)
  BY <1>1, <1>3 DEF Pairs
<1>9. \A l \in loading' : <<l.thing, l.nth>> \in Pairs(b) /\ l.from \in Urls \cup {Own}
  <2>1. \A l \in loading : <<l.thing, l.nth>> \in Pairs(b) /\ l.from \in Urls \cup {Own}
    BY <1>6, Loads DEF LoaderTypeOK, Grows
  <2>2. loading' = loading \cup {[thing |-> x, from |-> Own, nth |-> 1] : x \in Unasked(X)}
    BY DEF Ask
  <2>3. ASSUME NEW x \in Unasked(X), NEW l, l = [thing |-> x, from |-> Own, nth |-> 1]
        PROVE  <<l.thing, l.nth>> \in Pairs(b) /\ l.from \in Urls \cup {Own}
    <3>1. l.thing = x /\ l.nth = 1 /\ l.from = Own
      BY <2>3
    <3> QED BY <1>8, <3>1
  <2> QED BY <2>1, <2>2, <2>3, Zenon
<1>10. unanswered' \subseteq Given(b)
  BY <1>6, <1>7, Loads DEF Ask, Grows
<1>11. Made' = Pairs(b)
  BY <1>0 DEF Made, Pairs
<1>12. {x \in Things : asks'[x] # <<>>} = Given(b)
  BY <1>0 DEF Given
<1>13. LoaderTypeOK'
  BY <1>0, <1>2, <1>9, <1>10, <1>11, <1>12 DEF LoaderTypeOK, Asks, Ask
<1> QED BY <1>0, <1>2, <1>6, <1>7, <1>13 DEF b

LEMMA AskUrlKeeps ==
  ASSUME LoaderTypeOK, NEW d \in Defs, NEW u \in Urls, AskUrl(d, u)
  PROVE  LoaderTypeOK' /\ Grows(asks, asks')
<1> DEFINE s == Append(asks[d], "pending")
<1>0. asks \in Asks /\ d \in Things /\ asks[d] \in Seq(Promises) /\ Len(asks[d]) \in Nat
  BY Loads, LenProperties DEF Asks, Things
<1>1. /\ s \in Seq(Promises) /\ Len(s) = Len(asks[d]) + 1
      /\ Len(asks[d]) + 1 \in DOMAIN s /\ s # <<>>
  BY <1>0, AppendProperties DEF Promises
<1> HIDE DEF s
<1>2. asks' = [asks EXCEPT ![d] = s]
  BY DEF AskUrl, s
<1>3. asks' \in Asks /\ asks'[d] = s /\ \A x \in Things \ {d} : asks'[x] = asks[x]
  BY <1>0, <1>1, <1>2 DEF Asks
<1>4. Grows(asks, asks')
  <2>1. \A x \in Things : Len(asks[x]) \in Nat
    BY <1>0, LenProperties DEF Asks
  <2>2. \A x \in Things : Len(asks[x]) <= Len(asks'[x])
    BY <1>0, <1>1, <1>3, <2>1
  <2> QED BY <1>0, <1>3, <2>2, MorePromises
<1>5. d \in Given(asks') /\ <<d, Len(asks[d]) + 1>> \in Pairs(asks')
  BY <1>0, <1>1, <1>3 DEF Given, Pairs
<1>6. \A l \in loading' : <<l.thing, l.nth>> \in Pairs(asks') /\ l.from \in Urls \cup {Own}
  <2>1. \A l \in loading : <<l.thing, l.nth>> \in Pairs(asks') /\ l.from \in Urls \cup {Own}
    BY <1>4, Loads DEF LoaderTypeOK, Grows
  <2>2. loading' = loading \cup {[thing |-> d, from |-> u, nth |-> Len(asks[d]) + 1]}
    BY DEF AskUrl
  <2>3. ASSUME NEW l, l = [thing |-> d, from |-> u, nth |-> Len(asks[d]) + 1]
        PROVE  <<l.thing, l.nth>> \in Pairs(asks') /\ l.from \in Urls \cup {Own}
    <3>1. l.thing = d /\ l.nth = Len(asks[d]) + 1 /\ l.from = u
      BY <2>3
    <3> QED BY <1>5, <3>1
  <2>4. ASSUME NEW l \in loading' PROVE l \in loading \/ l = [thing |-> d, from |-> u, nth |-> Len(asks[d]) + 1]
    BY <2>2
  <2> QED BY <2>1, <2>3, <2>4, Zenon
<1>7. unanswered' \subseteq Given(asks')
  BY <1>4, <1>5, Loads DEF AskUrl, Grows
<1>8. Made' = Pairs(asks') /\ {x \in Things : asks'[x] # <<>>} = Given(asks')
  BY DEF Made, Pairs, Given
<1>9. url' \in [Defs -> Urls \cup {Own}] /\ UNCHANGED <<engine, freed>>
  BY DEF AskUrl, LoaderTypeOK
<1>10. LoaderTypeOK'
  BY <1>3, <1>6, <1>7, <1>8, <1>9 DEF LoaderTypeOK, Asks
<1> QED BY <1>4, <1>10

LEMMA AnswerKeeps ==
  ASSUME LoaderTypeOK, NEW l \in loading, NEW said \in {"ok", "failed"}, Answer(l, said)
  PROVE  LoaderTypeOK' /\ asks' = Answered(l, said) /\ asks' \in Asks /\ Grows(asks, asks')
<1> DEFINE t == l.thing
           s == [asks[t] EXCEPT ![Len(asks[t])] = said]
<1>0. asks \in Asks /\ t \in Things /\ asks[t] \in Seq(Promises) /\ asks[t] # <<>>
  BY Loads DEF Asks, Given
<1>1. Len(asks[t]) \in 1..Len(asks[t]) /\ Len(asks[t]) \in Nat
  BY <1>0, EmptySeq, LenProperties
<1>2. s \in Seq(Promises) /\ Len(s) = Len(asks[t])
  BY <1>0, <1>1, ExceptSeq DEF Promises
<1>3. asks' = asks \/ asks' = [asks EXCEPT ![t] = s]
  BY DEF Answer, Answered
<1>4. asks' = Answered(l, said)
  BY DEF Answer
<1> HIDE DEF s
<1>5. asks' \in Asks /\ \A x \in Things : Len(asks'[x]) = Len(asks[x])
  BY <1>0, <1>2, <1>3 DEF Asks
<1>6. Grows(asks, asks')
  <2>1. \A x \in Things : Len(asks[x]) \in Nat
    BY <1>0, LenProperties DEF Asks
  <2> QED BY <1>0, <1>5, <2>1, MorePromises
<1>7. \A k \in loading' : <<k.thing, k.nth>> \in Pairs(asks') /\ k.from \in Urls \cup {Own}
  BY <1>6, Loads DEF LoaderTypeOK, Grows, Answer
<1>8. unanswered' \subseteq Given(asks')
  BY <1>6, Loads DEF Answer, Grows
<1>9. Made' = Pairs(asks') /\ {x \in Things : asks'[x] # <<>>} = Given(asks')
  BY DEF Made, Pairs, Given
<1>10. engine' \in [Things -> Urls \cup {Own, Nothing}]
  BY DEF Answer, LoaderTypeOK
<1>11. UNCHANGED <<url, freed>>
  BY DEF Answer
<1>12. LoaderTypeOK'
  BY <1>5, <1>7, <1>8, <1>9, <1>10, <1>11 DEF LoaderTypeOK, Asks
<1> QED BY <1>4, <1>5, <1>6, <1>12

LEMMA FreeKeeps ==
  ASSUME LoaderTypeOK, NEW b \in Bufs, Free(b)
  PROVE  LoaderTypeOK' /\ asks' = asks
<1>1. engine' \in [Things -> Urls \cup {Own, Nothing}] /\ freed' \in SUBSET Bufs
  BY DEF Free, LoaderTypeOK
<1>2. UNCHANGED <<asks, unanswered, url, loading>> /\ Made' = Made
  BY DEF Free, Made
<1> QED BY <1>1, <1>2 DEF LoaderTypeOK

-----------------------------------------------------------------------------
(* The steps.                                                               *)

\* A step of the line, with n sounds made.
Moves(n) == n \in Nat /\ LineInv(line', asks') /\ Kept(line, line', n)

LEMMA GateKeeps ==
  ASSUME NEW a, NEW l, LineInv(l, a), NEW g \in {"none", "open", "waiting"}
  PROVE  LineInv([l EXCEPT !.gate = g], a) /\ Kept(l, [l EXCEPT !.gate = g], 0)
<1> DEFINE k == [l EXCEPT !.gate = g]
<1>1. k \in LineSet(a) /\ k.queue = l.queue /\ k.needs = l.needs /\ k.fate = l.fate
  BY DEF LineInv, LineSet
<1> HIDE DEF k
<1>2. LineInv(k, a) /\ Kept(l, k, 0)
  BY <1>1, SameLine
<1> QED BY <1>2 DEF k

\* Sounds made, their needs asked for.
LEMMA Emits ==
  ASSUME LoaderTypeOK, stops \in Epochs, NEW l, NEW a \in Asks, LineInv(l, a),
         NEW out \in Outboxes, NeedsOf(out) \subseteq Given(a),
         Len(l.needs) + Len(out) <= MaxSounds
  PROVE  /\ LineInv(Drain(l, a, out), a) /\ Kept(l, Drain(l, a, out), Len(out))
         /\ Len(out) \in Nat
<1>1. out \in Seq(SUBSET Things) /\ Len(out) \in Nat /\ DOMAIN out = 1..Len(out)
  BY LiveAssumption, LenProperties
<1>2. out \in Seq(SUBSET Given(a))
  <2>1. \A i \in 1..Len(out) : out[i] \in SUBSET Given(a)
    BY <1>1 DEF NeedsOf, ToSet
  <2>2. out \in [1..Len(out) -> SUBSET Given(a)]
    BY <1>1, <2>1, LenProperties
  <2> QED BY <1>1, <2>2, SeqDef
<1> QED BY <1>1, <1>2, DrainKeeps

LEMMA NeedsAreThings ==
  ASSUME NEW out \in Outboxes
  PROVE  NeedsOf(out) \in SUBSET Things /\ out \in Seq(SUBSET Things) /\ Len(out) \in Nat
<1>1. out \in Seq(SUBSET Things) /\ Len(out) \in Nat /\ DOMAIN out = 1..Len(out)
  BY LiveAssumption, LenProperties
<1>2. \A i \in 1..Len(out) : out[i] \in SUBSET Things
  BY <1>1, ElementOfSeq
<1> QED BY <1>1, <1>2 DEF NeedsOf, ToSet

\* One call of the runtime, of the line l it is made to.
LEMMA CallMoves ==
  ASSUME LoaderTypeOK, stops \in Epochs, NEW out \in Outboxes, Ask(NeedsOf(out)),
         LineInv(line, asks), NEW l, LineInv(l, asks), Kept(line, l, 0),
         Len(l.needs) + Len(out) <= MaxSounds,
         line' = Drain(l, Asked(NeedsOf(out)), out)
  PROVE  LoaderTypeOK' /\ Moves(Len(out))
<1> DEFINE b == Asked(NeedsOf(out))
<1>1. /\ LoaderTypeOK' /\ asks' = b /\ b \in Asks /\ Grows(asks, b)
      /\ NeedsOf(out) \subseteq Given(b)
  BY NeedsAreThings, AskKeeps
<1> HIDE DEF b
<1>2. LineInv(l, b) /\ LineInv(line, b)
  BY <1>1, GrowKeeps
<1>3. LineInv(line', b) /\ Kept(l, line', Len(out)) /\ Len(out) \in Nat
  BY <1>1, <1>2, Emits DEF b
<1>4. Kept(line, line', 0 + Len(out)) /\ 0 + Len(out) = Len(out)
  BY <1>2, <1>3, KeptTwice
<1> QED BY <1>1, <1>3, <1>4 DEF Moves

LEMMA Unmoved ==
  ASSUME LineInv(line, asks), LoaderTypeOK, LoaderTypeOK', Grows(asks, asks'), line' = line
  PROVE  Moves(0)
<1>1. LineInv(line', asks')
  BY GrowKeeps, Zenon
<1>2. Len(line.fate) \in Nat /\ Gone(line) \in Nat
  BY Fields, Counts DEF LineInv
<1>3. Kept(line, line', 0)
  BY <1>2 DEF Kept
<1> QED BY <1>1, <1>3 DEF Moves

LEMMA StartMoves ==
  ASSUME IInv, NEW r \in Runs, NEW head \in Outboxes, NEW out \in Outboxes,
         NEW more \in BOOLEAN, Start(r, head, out, more)
  PROVE  LoaderTypeOK' /\ Moves(Len(head) + Len(out))
<1> DEFINE X == Names[r] \cup NeedsOf(head) \cup NeedsOf(out)
           b == Asked(X)
           once == Drain(Opened, b, head)
<1>1. X \in SUBSET Things /\ Ask(X)
  BY NeedsAreThings, LiveAssumption DEF Start
<1>2. line' = Drain(once, b, out) /\ Len(line.needs) + Len(head \o out) <= MaxSounds
  BY DEF Start, Room
<1>3. /\ LoaderTypeOK /\ stops \in Epochs /\ LineInv(line, asks)
  BY DEF IInv
<1>4. LoaderTypeOK' /\ asks' = b /\ b \in Asks /\ Grows(asks, b) /\ X \subseteq Given(b)
  BY <1>1, <1>3, AskKeeps
<1>5. NeedsOf(head) \subseteq Given(b) /\ NeedsOf(out) \subseteq Given(b)
  BY <1>4
<1> HIDE DEF X, b
<1>6. LineInv(Opened, b) /\ Kept(line, Opened, 0) /\ Opened.needs = line.needs /\ LineInv(line, b)
  <2>1. LineInv(line, b)
    BY <1>3, <1>4, GrowKeeps
  <2>2. line \in LineSet(b)
    BY <2>1 DEF LineInv
  <2>3. (IF ~running /\ line.gate = "none" THEN "open" ELSE line.gate)
           \in {"none", "open", "waiting"}
    BY <2>2 DEF LineSet
  <2>4. LineInv(Opened, b) /\ Kept(line, Opened, 0)
    BY <2>1, <2>3, GateKeeps DEF Opened
  <2> QED BY <2>1, <2>2, <2>4 DEF Opened, LineSet
<1>7. /\ Len(head) \in Nat /\ Len(out) \in Nat /\ Len(line.needs) \in Nat
      /\ Len(head \o out) = Len(head) + Len(out)
  <2>1. head \in Seq(SUBSET Things) /\ out \in Seq(SUBSET Things)
    BY NeedsAreThings
  <2>2. Len(head \o out) = Len(head) + Len(out)
    BY <2>1, ConcatProperties, Zenon
  <2> QED BY <2>1, <2>2, <1>3, LenProperties, Fields DEF LineInv
<1>8. Len(line.needs) + Len(head) <= MaxSounds /\ Len(line.needs) + Len(head) + Len(out) <= MaxSounds
  <2>1. \A x, y, z, m \in Nat : x + (y + z) <= m => x + y <= m /\ x + y + z <= m
    OBVIOUS
  <2> QED BY <1>2, <1>7, <2>1, LiveAssumption, Zenon
<1>9. LineInv(once, b) /\ Kept(Opened, once, Len(head))
  BY <1>3, <1>4, <1>5, <1>6, <1>8, Emits
<1>10. Len(once.needs) = Len(line.needs) + Len(head)
  <2>1. Len(once.needs) = Len(once.fate) /\ Len(line.needs) = Len(line.fate)
    BY <1>6, <1>9, Zenon DEF LineInv, Ordered
  <2>2. Len(once.fate) = Len(Opened.fate) + Len(head) /\ Len(Opened.fate) = Len(Opened.needs)
    BY <1>6, <1>9, Zenon DEF Kept, LineInv, Ordered
  <2> QED BY <1>6, <2>1, <2>2, Zenon
<1> HIDE DEF once
<1>11. LineInv(line', b) /\ Kept(once, line', Len(out))
  BY <1>2, <1>3, <1>4, <1>5, <1>8, <1>9, <1>10, Emits
<1>12. Kept(line, once, 0 + Len(head)) /\ 0 + Len(head) = Len(head)
  BY <1>6, <1>7, <1>9, KeptTwice
<1>13. Kept(line, line', Len(head) + Len(out)) /\ Len(head) + Len(out) \in Nat
  BY <1>6, <1>7, <1>9, <1>11, <1>12, KeptTwice
<1> QED BY <1>4, <1>11, <1>13 DEF Moves

\* Stop takes all that is held.
LEMMA StopMoves ==
  ASSUME IInv, Stop
  PROVE  LoaderTypeOK' /\ Moves(0) /\ stops' \in Epochs
<1> DEFINE f == [i \in DOMAIN line.fate |-> IF line.fate[i] = "held" THEN "stopped"
                                           ELSE line.fate[i]]
           k == [line EXCEPT !.queue = <<>>, !.gate = "none", !.fate = f]
<1>0. LineInv(line, asks) /\ line \in LineSet(asks) /\ LoaderTypeOK
  BY DEF IInv, LineInv
<1>1. /\ line.fate \in Seq(Fates) /\ Len(line.fate) \in Nat /\ Len(line.queue) \in Nat
      /\ DOMAIN line.fate = 1..Len(line.fate)
  BY <1>0, Fields
<1>2. f \in Seq(Fates) /\ Len(f) = Len(line.fate)
      /\ \A i \in 1..Len(line.fate) : f[i] # "held"
  <2>1. \A i \in 1..Len(line.fate) : f[i] \in Fates /\ f[i] # "held"
    BY <1>1, ElementOfSeq DEF Fates
  <2>2. f \in [1..Len(line.fate) -> Fates]
    BY <1>1, <2>1
  <2> QED BY <1>1, <2>1, <2>2, SeqDef, LenProperties
<1> HIDE DEF f
<1>3. k \in LineSet(asks) /\ k.queue = <<>> /\ k.needs = line.needs /\ k.fate = f
  <2> DEFINE J(q, h) == [line EXCEPT !.queue = q, !.gate = "none", !.fate = h]
  <2>1. \A q \in Seq(Sounds), h \in Seq(Fates) :
          /\ J(q, h) \in LineSet(asks) /\ J(q, h).queue = q
          /\ J(q, h).needs = line.needs /\ J(q, h).fate = h
    BY <1>0 DEF LineSet
  <2>2. <<>> \in Seq(Sounds)
    OBVIOUS
  <2>3. k = J(<<>>, f)
    OBVIOUS
  <2> HIDE DEF J, k
  <2> QED BY <1>2, <2>1, <2>2, <2>3, Zenon
<1>4. line' = k /\ UNCHANGED loaderVars /\ stops' \in Epochs
  BY LiveAssumption DEF Stop, IInv, Epochs, f
<1> HIDE DEF k
<1>5. Len(line.queue) \in 0..Len(line.queue) /\ Len(line.queue) - Len(line.queue) = 0
  BY <1>1
<1>6. Len(k.queue) = 0 /\ \A i \in 1..Len(k.queue) : FALSE
  <2>1. Len(<<>>) = 0
    OBVIOUS
  <2>2. \A i \in 1..0 : FALSE
    OBVIOUS
  <2> QED BY <1>3, <2>1, <2>2, Zenon
<1>7. \A i \in 1..Len(line.fate) : k.fate[i] = "held" <=> i > Gone(line) + Len(line.queue)
  <2>1. Gone(line) + Len(line.queue) = Len(line.fate)
    BY <1>0, Counts
  <2>2. \A n \in Nat : \A i \in 1..n : ~(i > n)
    OBVIOUS
  <2> QED BY <1>1, <1>2, <1>3, <2>1, <2>2, Zenon
<1>8. LineInv(k, asks) /\ Kept(line, k, 0)
  BY <1>0, <1>2, <1>3, <1>5, <1>6, <1>7, FrontLeaves, Zenon
<1>9. asks' = asks /\ LoaderTypeOK'
  BY <1>0, <1>4 DEF loaderVars, LoaderTypeOK, Made
<1> QED BY <1>4, <1>8, <1>9 DEF Moves

\* A load's end moves the line no further than its pump takes it.
LEMMA LoadMoves ==
  ASSUME IInv, NEW l \in loading, NEW said \in {"ok", "failed"}, LoadEnds(l, said)
  PROVE  LoaderTypeOK' /\ Moves(0)
<1>1. LoaderTypeOK /\ stops \in Epochs /\ LineInv(line, asks)
  BY DEF IInv
<1>2. Answer(l, said) /\ line' = Resume(line, Answered(l, said))
  BY DEF LoadEnds
<1>3. LoaderTypeOK' /\ asks' = Answered(l, said) /\ asks' \in Asks /\ Grows(asks, asks')
  BY <1>1, <1>2, AnswerKeeps
<1>4. LineInv(line, asks')
  BY <1>1, <1>3, GrowKeeps
<1>5. LineInv(Resume(line, asks'), asks') /\ Kept(line, Resume(line, asks'), 0)
  BY <1>1, <1>3, <1>4, ResumeKeeps
<1> QED BY <1>2, <1>3, <1>5 DEF Moves

\* A gate's wait ends, or waits again: what was held goes, from the front.
LEMMA GateMoves ==
  ASSUME IInv, NEW e \in Epochs, NEW out \in Outboxes, NEW more \in BOOLEAN,
         GateSettles(e, out, more)
  PROVE  LoaderTypeOK' /\ \E n \in Nat : Moves(n)
<1> DEFINE round == line.wait[e].held
           over == {h.sound : h \in {k \in round :
                                       \E p \in k.on : asks[p[1]][p[2]] = "failed"}}
           ended == [line EXCEPT !.wait[e] = NoWait, !.failed = @ \cup over]
           left == Leave(ended, asks, Len(ended.queue))
           released == [left EXCEPT !.gate = "open"]
<1>0. /\ LoaderTypeOK /\ stops \in Epochs /\ LineInv(line, asks) /\ line \in LineSet(asks)
      /\ asks \in Asks
  BY Loads DEF IInv, LineInv
<1>1. /\ \/ line' = ended /\ UNCHANGED loaderVars
         \/ line' = Round(ended, asks) /\ UNCHANGED loaderVars
         \/ /\ Ask(NeedsOf(out))
            /\ line' = Drain(released, Asked(NeedsOf(out)), out)
      /\ Room(out)
  BY DEF GateSettles
<1>2. over \subseteq Sounds
  <2>1. round \in SUBSET [sound : Sounds, on : SUBSET Pairs(asks)]
    BY <1>0 DEF LineSet
  <2> QED BY <2>1
<1>3. LineInv(ended, asks) /\ Kept(line, ended, 0) /\ ended.needs = line.needs
  <2> HIDE DEF over
  <2>1. NoWait \in [busy : BOOLEAN, held : SUBSET [sound : Sounds, on : SUBSET Pairs(asks)]]
    BY DEF NoWait
  <2>2. /\ ended \in LineSet(asks)
        /\ ended.queue = line.queue /\ ended.needs = line.needs /\ ended.fate = line.fate
    BY <1>0, <1>2, <2>1 DEF LineSet
  <2> HIDE DEF ended
  <2> QED BY <1>0, <2>2, SameLine
<1> HIDE DEF ended
<1>4. CASE UNCHANGED loaderVars /\ line' \in {ended, Round(ended, asks)}
  <2>1. asks' = asks /\ LoaderTypeOK'
    BY <1>0, <1>4 DEF loaderVars, LoaderTypeOK, Made
  <2>2. LineInv(Round(ended, asks), asks) /\ Kept(ended, Round(ended, asks), 0)
    BY <1>0, <1>3, RoundKeeps
  <2>3. Kept(line, Round(ended, asks), 0 + 0)
    BY <1>0, <1>3, <2>2, KeptTwice
  <2> QED BY <1>3, <1>4, <2>1, <2>2, <2>3 DEF Moves
<1>5. CASE Ask(NeedsOf(out)) /\ line' = Drain(released, Asked(NeedsOf(out)), out)
  <2>1. Len(ended.queue) \in 0..Len(ended.queue)
    BY <1>3, Fields DEF LineInv
  <2>2. LineInv(left, asks) /\ Kept(ended, left, 0)
    BY <1>3, <2>1, LeaveKeeps
  <2>3. left.needs = ended.needs
    BY <1>3 DEF Leave, LineInv, LineSet
  <2> HIDE DEF left
  <2>4. LineInv(released, asks) /\ Kept(left, released, 0) /\ released.needs = line.needs
    BY <1>3, <2>2, <2>3, GateKeeps DEF LineInv, LineSet
  <2> HIDE DEF released
  <2>5. Kept(line, left, 0 + 0)
    BY <1>0, <1>3, <2>2, KeptTwice
  <2>6. Kept(line, released, 0 + 0)
    BY <1>0, <2>2, <2>4, <2>5, KeptTwice
  <2>7. LoaderTypeOK' /\ Moves(Len(out))
    BY <1>0, <1>1, <1>5, <2>4, <2>6, CallMoves DEF Room
  <2> QED BY <2>7 DEF Moves
<1> QED BY <1>1, <1>4, <1>5

\* Every step keeps the line, and only adds to it or takes from its front.
LEMMA StepMoves ==
  ASSUME IInv, Next
  PROVE  IInv' /\ \E n \in Nat : Moves(n)
<1> DEFINE Rest == /\ running' \in BOOLEAN /\ stops' \in Epochs
                   /\ runs' \in [Runs -> [phase : {"unpressed", "fetching", "joining",
                                                  "started", "failed"},
                                          heard : Epochs, at : Epochs]]
           Goal == LoaderTypeOK' /\ (\E n \in Nat : Moves(n)) /\ Rest
<1>0. /\ LoaderTypeOK /\ LineInv(line, asks) /\ asks \in Asks
      /\ running \in BOOLEAN /\ stops \in Epochs
      /\ runs \in [Runs -> [phase : {"unpressed", "fetching", "joining", "started", "failed"},
                            heard : Epochs, at : Epochs]]
      /\ 0 \in Nat
  BY Loads DEF IInv
<1>1. Grows(asks, asks)
  BY DEF Grows
<1>2. ASSUME UNCHANGED loaderVars PROVE LoaderTypeOK' /\ asks' = asks
  BY <1>0, <1>2 DEF loaderVars, LoaderTypeOK, Made
<1>3. ASSUME UNCHANGED <<loaderVars, line, running, stops>>,
             runs' \in [Runs -> [phase : {"unpressed", "fetching", "joining", "started", "failed"},
                            heard : Epochs, at : Epochs]]
      PROVE  Goal
  <2>1. LoaderTypeOK' /\ asks' = asks /\ line' = line /\ Grows(asks, asks')
    BY <1>1, <1>2, <1>3
  <2>2. Moves(0)
    BY <1>0, <2>1, Unmoved
  <2> QED BY <1>0, <1>3, <2>1, <2>2
<1>4. ASSUME NEW r \in Runs, RunArrives(r) \/ FetchFails(r) \/ Join(r)
      PROVE  Goal
  BY <1>0, <1>3, <1>4 DEF RunArrives, FetchFails, Join
<1>5. ASSUME NEW r \in Runs, StartFails(r)
      PROVE  Goal
  <2>1. Ask(Names[r]) /\ Names[r] \in SUBSET Things /\ line' = Opened
    BY <1>5, LiveAssumption DEF StartFails
  <2>2. LoaderTypeOK' /\ asks' = Asked(Names[r]) /\ Grows(asks, asks')
    BY <1>0, <2>1, AskKeeps
  <2>3. LineInv(line, asks') /\ line \in LineSet(asks')
    BY <1>0, <2>2, GrowKeeps DEF LineInv
  <2>4. (IF ~running /\ line.gate = "none" THEN "open" ELSE line.gate)
           \in {"none", "open", "waiting"}
    BY <2>3 DEF LineSet
  <2>5. Moves(0)
    BY <1>0, <2>1, <2>3, <2>4, GateKeeps DEF Opened, Moves
  <2>6. Rest
    BY <1>0, <1>5 DEF StartFails
  <2> QED BY <1>0, <2>2, <2>5, <2>6
<1>6. ASSUME NEW r \in Runs, NEW head \in Outboxes, NEW out \in Outboxes, NEW more \in BOOLEAN,
             Start(r, head, out, more)
      PROVE  Goal
  <2>1. LoaderTypeOK' /\ Moves(Len(head) + Len(out))
    BY <1>6, StartMoves
  <2>2. Rest
    BY <1>0, <1>6 DEF Start
  <2> QED BY <2>1, <2>2 DEF Moves
<1>7. ASSUME NEW out \in Outboxes, NEW more \in BOOLEAN, Tick(out, more) \/ Cue(out, more)
      PROVE  Goal
  <2>1. /\ Ask(NeedsOf(out)) /\ line' = Drain(line, Asked(NeedsOf(out)), out)
        /\ Len(line.needs) + Len(out) <= MaxSounds
    BY <1>7 DEF Tick, Cue, Room
  <2>2. Kept(line, line, 0)
    <3>1. Len(line.fate) \in Nat /\ Gone(line) \in Nat
      BY <1>0, Fields, Counts DEF LineInv
    <3> QED BY <3>1 DEF Kept
  <2>3. LoaderTypeOK' /\ Moves(Len(out))
    BY <1>0, <2>1, <2>2, CallMoves
  <2>4. Rest
    BY <1>0, <1>7 DEF Tick, Cue
  <2> QED BY <2>3, <2>4 DEF Moves
<1>8. ASSUME NEW d \in Defs, NEW u \in Urls, TickLoadsUrl(d, u)
      PROVE  Goal
  <2>1. AskUrl(d, u) /\ UNCHANGED <<line, running, stops, runs>>
    BY <1>8 DEF TickLoadsUrl, liveVars
  <2>2. LoaderTypeOK' /\ Grows(asks, asks')
    BY <1>0, <2>1, AskUrlKeeps
  <2>3. Moves(0)
    BY <1>0, <2>1, <2>2, Unmoved
  <2> QED BY <1>0, <2>1, <2>2, <2>3
<1>9. ASSUME NEW b \in Bufs, TickFrees(b)
      PROVE  Goal
  <2>1. Free(b) /\ UNCHANGED <<line, running, stops, runs>>
    BY <1>9 DEF TickFrees, liveVars
  <2>2. LoaderTypeOK' /\ asks' = asks
    BY <1>0, <2>1, FreeKeeps
  <2>3. Moves(0)
    BY <1>0, <1>1, <2>1, <2>2, Unmoved
  <2> QED BY <1>0, <2>1, <2>2, <2>3
<1>10. ASSUME Frees
       PROVE  Goal
  <2>1. /\ UNCHANGED <<loaderVars, running, stops, runs>> /\ line' = Drain(line, asks, <<{}>>)
        /\ Len(line.needs) + Len(<<{}>>) <= MaxSounds
    BY <1>10 DEF Frees, Room
  <2>2. <<{}>> \in Seq(SUBSET Given(asks)) /\ Len(<<{}>>) \in Nat
    OBVIOUS
  <2>3. LineInv(line', asks) /\ Kept(line, line', Len(<<{}>>))
    BY <1>0, <2>1, <2>2, DrainKeeps
  <2>4. LoaderTypeOK' /\ asks' = asks
    BY <1>2, <2>1
  <2>5. Moves(Len(<<{}>>))
    BY <2>2, <2>3, <2>4 DEF Moves
  <2> QED BY <1>0, <2>1, <2>2, <2>4, <2>5
<1>11. ASSUME Stop
       PROVE  Goal
  <2>1. LoaderTypeOK' /\ Moves(0) /\ stops' \in Epochs
    BY <1>11, StopMoves
  <2> QED BY <1>0, <1>11, <2>1 DEF Stop
<1>12. ASSUME WindowPasses
       PROVE  Goal
  <2>1. UNCHANGED <<loaderVars, running, stops, runs>> /\ line' = [line EXCEPT !.gate = "none"]
    BY <1>12 DEF WindowPasses
  <2>2. LoaderTypeOK' /\ asks' = asks
    BY <1>2, <2>1
  <2>3. Moves(0)
    BY <1>0, <2>1, <2>2, GateKeeps DEF Moves
  <2> QED BY <1>0, <2>1, <2>2, <2>3
<1>13. ASSUME NEW l \in loading, NEW said \in {"ok", "failed"}, LoadEnds(l, said)
       PROVE  Goal
  <2>1. LoaderTypeOK' /\ Moves(0)
    BY <1>13, LoadMoves
  <2> QED BY <1>0, <1>13, <2>1 DEF LoadEnds
<1>14. ASSUME NEW e \in Epochs, NEW out \in Outboxes, NEW more \in BOOLEAN,
              GateSettles(e, out, more)
       PROVE  Goal
  <2>1. LoaderTypeOK' /\ \E n \in Nat : Moves(n)
    BY <1>14, GateMoves
  <2>2. Rest
    BY <1>0, <1>14 DEF GateSettles
  <2> QED BY <2>1, <2>2
<1>15. Goal
  <2> HIDE DEF Goal
  <2> QED BY <1>4, <1>5, <1>6, <1>7, <1>8, <1>9, <1>10, <1>11, <1>12, <1>13, <1>14, Zenon DEF Next
<1> QED BY <1>15 DEF IInv, Moves

\* The steps that are not the program's change nothing.
LEMMA StutterKeeps ==
  ASSUME IInv, UNCHANGED vars
  PROVE  IInv'
<1>1. /\ UNCHANGED <<asks, unanswered, url, loading, engine, freed>>
      /\ UNCHANGED <<line, running, stops, runs>> /\ Made' = Made
  BY DEF vars, loaderVars, liveVars, Made
<1> QED BY <1>1 DEF IInv, LoaderTypeOK

LEMMA InitKeeps ==
  ASSUME Init
  PROVE  IInv /\ Len(line.fate) = 0 /\ Gone(line) = 0
<1>1. /\ <<>> \in Seq(Promises) /\ <<>> \in Seq(Sounds) /\ <<>> \in Seq(Fates)
      /\ <<>> \in Seq(SUBSET Given(asks)) /\ Len(<<>>) = 0 /\ \A i \in 1..0 : FALSE
  OBVIOUS
<1>2. LoaderTypeOK
  BY <1>1 DEF Init, LoaderInit, LoaderTypeOK
<1>3. line \in LineSet(asks)
  <2>1. NoPump \in [on : SUBSET Pairs(asks), since : 0..(MaxStops + 1)]
    BY LiveAssumption DEF NoPump
  <2>2. NoWait \in [busy : BOOLEAN, held : SUBSET [sound : Sounds, on : SUBSET Pairs(asks)]]
    BY DEF NoWait
  <2>3. line = [queue |-> <<>>, needs |-> <<>>, fate |-> <<>>, gate |-> "none", pump |-> NoPump,
                failed |-> {}, wait |-> [e \in Epochs |-> NoWait]]
    BY DEF Init
  <2> QED BY <1>1, <2>1, <2>2, <2>3 DEF LineSet
<1>4. line.queue = <<>> /\ line.needs = <<>> /\ line.fate = <<>>
  BY DEF Init
<1>5. Len(line.fate) = 0 /\ Len(line.queue) = 0 /\ Len(line.needs) = 0
  BY <1>1, <1>4
<1>6. Gone(line) = 0
  BY <1>5 DEF Gone
<1>7. Ordered(line)
  BY <1>1, <1>5, <1>6, LiveAssumption DEF Ordered
<1>8. /\ running \in BOOLEAN /\ stops \in Epochs
      /\ runs \in [Runs -> [phase : {"unpressed", "fetching", "joining", "started", "failed"},
                            heard : Epochs, at : Epochs]]
  <2>1. 0 \in Epochs
    BY LiveAssumption DEF Epochs
  <2> QED BY <2>1 DEF Init
<1> QED BY <1>2, <1>3, <1>5, <1>6, <1>7, <1>8 DEF IInv, LineInv

-----------------------------------------------------------------------------
(* The theorems.                                                            *)

LEMMA Always == Spec => []IInv
<1>1. Init => IInv
  BY InitKeeps
<1>2. IInv /\ [Next]_vars => IInv'
  BY StepMoves, StutterKeeps
<1> QED BY <1>1, <1>2, PTL DEF Spec

\* The line of the live core keeps its types, whatever is loaded, replaced,
\* freed and stopped: what it awaits are promises the loader made.
THEOREM LineTypes == Spec => []TypeOK
<1>1. IInv => TypeOK
  <2> SUFFICES ASSUME IInv PROVE TypeOK
    OBVIOUS
  <2>1. LoaderTypeOK /\ LineInv(line, asks) /\ line \in LineSet(asks) /\ Made = Pairs(asks)
    BY Loads DEF IInv, LineInv
  <2>2. line.queue \in Seq(Sounds) /\ line.needs \in Seq(SUBSET Things)
    <3>1. line.needs \in Seq(SUBSET Given(asks)) /\ Len(line.needs) \in Nat
      BY <2>1, Fields
    <3>2. \A i \in 1..Len(line.needs) : line.needs[i] \in SUBSET Things
      BY <3>1, ElementOfSeq DEF Given
    <3>3. line.needs \in [1..Len(line.needs) -> SUBSET Things]
      BY <3>1, <3>2, LenProperties
    <3>4. line.needs \in Seq(SUBSET Things)
      BY <3>1, <3>3, SeqDef
    <3>5. line.queue \in Seq(Sounds)
      BY <2>1, Fields
    <3> QED BY <3>4, <3>5
  <2>3. line.fate \in [DOMAIN line.needs -> Fates]
    <3>1. /\ line.fate \in Seq(Fates) /\ DOMAIN line.needs = 1..Len(line.needs)
          /\ Len(line.fate) = Len(line.needs)
      BY <2>1, Fields DEF LineInv, Ordered
    <3> QED BY <3>1, LenProperties, Zenon
  <2>4. /\ line.gate \in {"none", "open", "waiting"}
        /\ line.pump.on \subseteq Made /\ line.pump.since \in 0..(MaxStops + 1)
        /\ line.failed \subseteq Sounds
    BY <2>1 DEF LineSet
  <2>5. \A e \in Epochs : /\ line.wait[e].busy \in BOOLEAN
                          /\ line.wait[e].held \subseteq [sound : Sounds, on : SUBSET Made]
    BY <2>1 DEF LineSet
  <2> QED BY <2>1, <2>2, <2>3, <2>4, <2>5 DEF TypeOK, LineTypeOK, IInv, Fates
<1> QED BY <1>1, Always, PTL

\* Nothing overtakes: whatever waits for its loads, what is held is the end of
\* what the runtime made, in its order (a control never before its synth).
THEOREM InOrder == Spec => []NothingOvertakes
<1>1. IInv => NothingOvertakes
  <2> SUFFICES ASSUME IInv PROVE NothingOvertakes
    OBVIOUS
  <2>1. LineInv(line, asks) /\ line \in LineSet(asks)
    BY DEF IInv, LineInv
  <2>2. /\ line.queue \in Seq(Sounds) /\ Len(line.queue) \in Nat
        /\ DOMAIN line.queue = 1..Len(line.queue) /\ DOMAIN line.fate = 1..Len(line.fate)
    BY <2>1, Fields
  <2>3. line.queue = [i \in 1..Len(line.queue) |-> line.queue[i]]
    BY <2>2
  <2>4. \A i \in 1..Len(line.queue) : line.queue[i] = Gone(line) + i
    BY <2>1, Counts
  <2>5. \A i \in DOMAIN line.fate : line.fate[i] = "held" <=> i > Gone(line)
    BY <2>1, <2>2, Counts
  <2>6. [i \in 1..Len(line.queue) |-> line.queue[i]] = [i \in 1..Len(line.queue) |-> Gone(line) + i]
    BY <2>4, Zenon
  <2> QED BY <2>3, <2>5, <2>6, Zenon DEF NothingOvertakes, Gone
<1> QED BY <1>1, Always, PTL

\* The live core keeps the first half of its promise: sounds are settled in
\* the order they were made (that each is settled in the end is TLC's).
THEOREM SettledInOrder == Spec => Promised!Init /\ [][Promised!Next]_(Promised!lineVars)
<1>1. Init => Promised!Init
  BY InitKeeps DEF Promised!Init, Gone
<1>2. IInv /\ IInv' /\ [Next]_vars => [Promised!Next]_(Promised!lineVars)
  <2> SUFFICES ASSUME IInv, IInv', [Next]_vars PROVE [Promised!Next]_(Promised!lineVars)
    OBVIOUS
  <2>1. CASE UNCHANGED vars
    <3>1. UNCHANGED line
      BY <2>1 DEF vars, liveVars
    <3> QED BY <3>1 DEF Promised!lineVars
  <2>2. CASE Next
    <3>1. PICK n \in Nat : Moves(n)
      BY <2>2, StepMoves
    <3>2. LineInv(line, asks) /\ LineInv(line', asks')
      BY DEF IInv
    <3>3. /\ Len(line.fate) \in Nat /\ Len(line'.fate) \in Nat /\ Len(line'.fate) <= MaxSounds
          /\ Len(line'.queue) \in Nat
      BY <3>2, Fields DEF LineInv, Ordered
    <3>4. Gone(line) \in Nat /\ Gone(line') \in Nat /\ Gone(line') + Len(line'.queue) = Len(line'.fate)
      BY <3>2, Counts
    <3>5. Len(line'.fate) = Len(line.fate) + n /\ Gone(line) <= Gone(line')
      BY <3>1, Zenon DEF Moves, Kept
    <3>6. \A f, k, g, h, q, m \in Nat :
             k = f + n /\ k <= m /\ g <= h /\ h + q = k => k \in f..(f + m) /\ h \in g..k
      OBVIOUS
    <3>7. /\ Len(line'.fate) \in Len(line.fate)..(Len(line.fate) + MaxSounds)
          /\ Gone(line') \in Gone(line)..Len(line'.fate)
      BY <3>3, <3>4, <3>5, <3>6, LiveAssumption, Zenon
    <3> QED BY <3>7, Zenon DEF Promised!Next, Gone
  <2> QED BY <2>1, <2>2
<1> QED BY <1>1, <1>2, Always, PTL DEF Spec

-----------------------------------------------------------------------------
(* While a gate waits.                                                      *)

\* Nothing that was made before changes; what is made is held.
Holds == /\ \A i \in 1..Len(line.fate) : line'.fate[i] = line.fate[i]
         /\ \A i \in 1..Len(line'.fate) : i > Len(line.fate) => line'.fate[i] = "held"
\* All that was made before has gone.
AllGo == Len(line.fate) <= Gone(line')

LEMMA SameFates ==
  ASSUME IInv, line'.fate = line.fate
  PROVE  Holds
<1>1. Len(line.fate) \in Nat
  BY Fields DEF IInv, LineInv
<1>2. \A n \in Nat : \A i \in 1..n : ~(i > n)
  OBVIOUS
<1> QED BY <1>1, <1>2, Zenon DEF Holds

\* Sounds made while it waits are put in the line and stay.
LEMMA FreesHold ==
  ASSUME IInv, Frees, line.gate = "waiting", line.queue # <<>>
  PROVE  Holds
<1> DEFINE h == [n \in 1..Len(<<{}>>) |-> "held"]
           k == MadeLine(line, <<{}>>)
<1>1. line \in LineSet(asks) /\ line.fate \in Seq(Fates) /\ Len(line.fate) \in Nat
  BY Fields DEF IInv, LineInv
<1>2. line' = Drain(line, asks, <<{}>>)
  BY DEF Frees
<1>3. k.gate = "waiting" /\ k.fate = line.fate \o h
  BY <1>1 DEF MadeLine, LineSet
<1>4. line' = Pump(k, asks)
  <2>1. <<{}>> # <<>> /\ ~(line.gate = "open")
    OBVIOUS
  <2> QED BY <1>2, <2>1, Zenon DEF Drain, MadeLine
<1> HIDE DEF k
<1>5. line' = k
  BY <1>3, <1>4 DEF Pump
<1>6. Len(<<{}>>) = 1
  OBVIOUS
<1>7. h \in Seq(Fates) /\ Len(h) = 1 /\ h[1] = "held"
  <2>1. h = <<"held">>
    BY <1>6
  <2> HIDE DEF h
  <2> QED BY <2>1 DEF Fates
<1> HIDE DEF h
<1>8. /\ Len(line'.fate) = Len(line.fate) + 1
      /\ \A i \in 1..(Len(line.fate) + 1) :
            line'.fate[i] = IF i <= Len(line.fate) THEN line.fate[i] ELSE h[i - Len(line.fate)]
  <2>1. /\ Len(line.fate \o h) = Len(line.fate) + Len(h)
        /\ \A i \in 1..(Len(line.fate) + Len(h)) :
            (line.fate \o h)[i] = IF i <= Len(line.fate) THEN line.fate[i] ELSE h[i - Len(line.fate)]
    BY <1>1, <1>7, ConcatProperties, Zenon
  <2> QED BY <1>3, <1>5, <1>7, <2>1, Zenon
<1>9. \A n \in Nat : /\ \A i \in 1..n : i \in 1..(n + 1) /\ i <= n
                     /\ \A i \in 1..(n + 1) : i > n => ~(i <= n) /\ i - n = 1
  OBVIOUS
<1>10. \A i \in 1..Len(line.fate) : line'.fate[i] = line.fate[i]
  BY <1>1, <1>8, <1>9, Zenon
<1>11. \A i \in 1..Len(line'.fate) : i > Len(line.fate) => line'.fate[i] = "held"
  <2> SUFFICES ASSUME NEW i \in 1..(Len(line.fate) + 1), i > Len(line.fate)
               PROVE  line'.fate[i] = "held"
    BY <1>8, Zenon
  <2>1. ~(i <= Len(line.fate)) /\ i - Len(line.fate) = 1
    BY <1>1, <1>9, Zenon
  <2> QED BY <1>7, <1>8, <2>1, Zenon
<1> QED BY <1>10, <1>11, Zenon DEF Holds

\* A load's end moves nothing.
LEMMA LoadHolds ==
  ASSUME IInv, NEW l \in loading, NEW said \in {"ok", "failed"}, LoadEnds(l, said),
         line.gate = "waiting"
  PROVE  Holds
<1> DEFINE idle == [line EXCEPT !.pump = NoPump]
           a == Answered(l, said)
<1>1. line \in LineSet(asks) /\ line' = Resume(line, a)
  BY DEF IInv, LineInv, LoadEnds
<1>2. idle.gate = "waiting" /\ idle.fate = line.fate
  BY <1>1 DEF LineSet
<1> HIDE DEF idle, a
<1>3. Pump(idle, a) = idle
  BY <1>2 DEF Pump
<1>4. Resume(line, a) \in {line, idle, Pump(idle, a)}
  BY DEF Resume, idle
<1>5. line'.fate = line.fate
  BY <1>1, <1>2, <1>3, <1>4
<1> QED BY <1>5, SameFates

\* At a wait's end all go; before it none.
LEMMA GateHolds ==
  ASSUME IInv, NEW e \in Epochs, NEW out \in Outboxes, NEW more \in BOOLEAN,
         GateSettles(e, out, more)
  PROVE  Holds \/ AllGo
<1> DEFINE round == line.wait[e].held
           over == {h.sound : h \in {k \in round :
                                       \E p \in k.on : asks[p[1]][p[2]] = "failed"}}
           ended == [line EXCEPT !.wait[e] = NoWait, !.failed = @ \cup over]
           left == Leave(ended, asks, Len(ended.queue))
           released == [left EXCEPT !.gate = "open"]
<1>0. /\ LoaderTypeOK /\ stops \in Epochs /\ LineInv(line, asks) /\ line \in LineSet(asks)
      /\ asks \in Asks
  BY Loads DEF IInv, LineInv
<1>1. /\ \/ line' \in {ended, Round(ended, asks)}
         \/ /\ Ask(NeedsOf(out))
            /\ line' = Drain(released, Asked(NeedsOf(out)), out)
      /\ Room(out)
  BY DEF GateSettles
<1>2. over \subseteq Sounds
  <2>1. round \in SUBSET [sound : Sounds, on : SUBSET Pairs(asks)]
    BY <1>0 DEF LineSet
  <2> QED BY <2>1
<1>3. /\ LineInv(ended, asks) /\ ended.needs = line.needs /\ ended.fate = line.fate
      /\ ended \in LineSet(asks)
  <2> HIDE DEF over
  <2>1. NoWait \in [busy : BOOLEAN, held : SUBSET [sound : Sounds, on : SUBSET Pairs(asks)]]
    BY DEF NoWait
  <2>2. /\ ended \in LineSet(asks)
        /\ ended.queue = line.queue /\ ended.needs = line.needs /\ ended.fate = line.fate
    BY <1>0, <1>2, <2>1 DEF LineSet
  <2> HIDE DEF ended
  <2> QED BY <1>0, <2>2, SameLine
<1> HIDE DEF ended
<1>4. CASE line' \in {ended, Round(ended, asks)}
  <2>1. Round(ended, asks).fate = ended.fate
    BY <1>3 DEF Round, LineSet
  <2>2. line'.fate = line.fate
    BY <1>3, <1>4, <2>1
  <2> QED BY <2>2, SameFates
<1>5. CASE Ask(NeedsOf(out)) /\ line' = Drain(released, Asked(NeedsOf(out)), out)
  <2>1. Len(ended.queue) \in 0..Len(ended.queue) /\ Len(ended.queue) \in Nat
        /\ ended.queue \in Seq(Sounds)
    <3>1. Len(ended.queue) \in Nat /\ ended.queue \in Seq(Sounds)
      BY <1>3, Fields, Zenon
    <3>2. \A n \in Nat : n \in 0..n
      OBVIOUS
    <3> QED BY <3>1, <3>2, Zenon
  <2>2. LineInv(left, asks) /\ Kept(ended, left, 0) /\ left \in LineSet(asks)
    BY <1>3, <2>1, LeaveKeeps DEF LineInv
  <2>3. left.needs = ended.needs /\ Len(left.queue) = 0
    <3>1. left.needs = ended.needs /\ left.queue = SubSeq(ended.queue, Len(ended.queue) + 1, Len(ended.queue))
      BY <1>3 DEF Leave, LineSet
    <3>2. left.queue = <<>>
      BY <2>1, <3>1
    <3>3. Len(<<>>) = 0
      OBVIOUS
    <3> QED BY <3>1, <3>2, <3>3
  <2>4. /\ Gone(left) = Len(left.fate) /\ Len(left.fate) = Len(line.fate)
        /\ Len(line.fate) \in Nat
    <3>1. Len(left.fate) \in Nat /\ Len(line.fate) \in Nat
      BY <1>0, <2>2, Fields
    <3>2. Len(left.fate) = Len(line.fate) + 0
      BY <1>3, <2>2, Zenon DEF Kept
    <3>3. \A n \in Nat : n + 0 = n /\ n - 0 = n
      OBVIOUS
    <3> QED BY <2>3, <3>1, <3>2, <3>3, Zenon DEF Gone
  <2> HIDE DEF left
  <2>5. LineInv(released, asks) /\ Kept(left, released, 0) /\ released.needs = line.needs
    BY <1>3, <2>2, <2>3, GateKeeps DEF LineSet
  <2> HIDE DEF released
  <2>6. /\ Asked(NeedsOf(out)) \in Asks /\ Grows(asks, Asked(NeedsOf(out)))
        /\ NeedsOf(out) \subseteq Given(Asked(NeedsOf(out)))
    BY <1>0, <1>5, NeedsAreThings, AskKeeps
  <2>7. LineInv(released, Asked(NeedsOf(out)))
    BY <2>5, <2>6, GrowKeeps
  <2>8. LineInv(line', Asked(NeedsOf(out))) /\ Kept(released, line', Len(out))
    BY <1>0, <1>1, <1>5, <2>5, <2>6, <2>7, Emits DEF Room
  <2>9. Gone(left) <= Gone(released) /\ Gone(released) <= Gone(line')
    BY <2>5, <2>8, Zenon DEF Kept
  <2>10. Gone(released) \in Nat /\ Gone(line') \in Nat
    BY <2>5, <2>8, Counts
  <2>11. \A x, y, z \in Nat : x <= y /\ y <= z => x <= z
    OBVIOUS
  <2> QED BY <2>4, <2>9, <2>10, <2>11, Zenon DEF AllGo
<1> QED BY <1>1, <1>4, <1>5

LEMMA WaitingHolds ==
  ASSUME IInv, [Next]_vars, line.gate = "waiting", line.queue # <<>>
  PROVE  Holds \/ AllGo
<1>1. CASE UNCHANGED line
  BY <1>1, SameFates
<1>2. ASSUME NEW r \in Runs, RunArrives(r) \/ FetchFails(r) \/ Join(r) \/ StartFails(r)
      PROVE  UNCHANGED line
  BY <1>2 DEF RunArrives, FetchFails, Join, StartFails, MayStart
<1>3. ASSUME NEW r \in Runs, NEW head \in Outboxes, NEW out \in Outboxes, NEW more \in BOOLEAN,
             Start(r, head, out, more)
      PROVE  FALSE
  BY <1>3 DEF Start, MayStart
<1>4. ASSUME NEW out \in Outboxes, NEW more \in BOOLEAN, Tick(out, more) \/ Cue(out, more)
      PROVE  UNCHANGED line
  BY <1>4 DEF Tick, Cue, Drain
<1>5. ASSUME NEW d, NEW u, NEW b, TickLoadsUrl(d, u) \/ TickFrees(b)
      PROVE  UNCHANGED line
  BY <1>5 DEF TickLoadsUrl, TickFrees, liveVars
<1>6. CASE Frees
  BY <1>6, FreesHold
<1>7. CASE Stop
  <2>1. Moves(0) /\ line'.queue = <<>> /\ Len(line.fate) \in Nat
    <3>1. line \in LineSet(asks)
      BY DEF IInv, LineInv
    <3> QED BY <1>7, <3>1, StopMoves, Fields DEF Stop, LineSet
  <2>2. Len(line'.fate) = Len(line.fate) + 0 /\ Len(line'.fate) - 0 = Gone(line')
    <3>1. Len(<<>>) = 0
      OBVIOUS
    <3> QED BY <2>1, <3>1, Zenon DEF Moves, Kept, Gone
  <2>3. \A n \in Nat : n + 0 = n /\ n - 0 = n /\ n <= n
    OBVIOUS
  <2> QED BY <2>1, <2>2, <2>3, Zenon DEF AllGo
<1>8. CASE WindowPasses
  BY <1>8 DEF WindowPasses
<1>9. ASSUME NEW l \in loading, NEW said \in {"ok", "failed"}, LoadEnds(l, said)
      PROVE  Holds
  BY <1>9, LoadHolds
<1>10. ASSUME NEW e \in Epochs, NEW out \in Outboxes, NEW more \in BOOLEAN,
              GateSettles(e, out, more)
       PROVE  Holds \/ AllGo
  BY <1>10, GateHolds
<1>11. CASE UNCHANGED vars
  BY <1>1, <1>11 DEF vars, liveVars
<1> QED BY <1>1, <1>2, <1>3, <1>4, <1>5, <1>6, <1>7, <1>8, <1>9, <1>10, <1>11, Zenon DEF Next

\* A run from rest does not start in pieces: while its gate waits nothing goes,
\* and at its end nothing that was held is left.
THEOREM StartTogether == Spec => HeldTogether
<1>1. IInv /\ IInv' /\ [Next]_vars =>
        [line.gate = "waiting" =>
           LET still == {i \in ToSet(line.queue) : line'.fate[i] = "held"}
           IN still \in {{}, ToSet(line.queue)} /\ (still # {} => Leaves("sent") = {})]_vars
  <2> SUFFICES ASSUME IInv, IInv', [Next]_vars, line.gate = "waiting"
               PROVE  LET still == {i \in ToSet(line.queue) : line'.fate[i] = "held"}
                      IN still \in {{}, ToSet(line.queue)} /\ (still # {} => Leaves("sent") = {})
    OBVIOUS
  <2> DEFINE still == {i \in ToSet(line.queue) : line'.fate[i] = "held"}
  <2>0. LineInv(line, asks) /\ LineInv(line', asks')
    BY DEF IInv
  <2>1. /\ Len(line.fate) \in Nat /\ DOMAIN line.fate = 1..Len(line.fate)
        /\ Len(line'.fate) \in Nat /\ DOMAIN line'.fate = 1..Len(line'.fate)
        /\ Gone(line') \in Nat
        /\ \A i \in 1..Len(line'.fate) : line'.fate[i] = "held" <=> i > Gone(line')
    BY <2>0, Fields, Counts DEF LineInv
  <2>2. \A i \in ToSet(line.queue) : i \in 1..Len(line.fate) /\ line.fate[i] = "held"
    <3>1. \A i \in ToSet(line.queue) : i \in 1..Len(line.fate)
      BY <2>0, <2>1, HeldAreMade
    <3>2. line.queue \in Seq(Sounds) /\ DOMAIN line.queue = 1..Len(line.queue)
          /\ Len(line.queue) \in Nat
      BY <2>0, Fields DEF LineInv
    <3>3. \A m \in 1..Len(line.queue) : line.queue[m] = Gone(line) + m /\ Gone(line) \in Nat
      BY <2>0, Counts
    <3>4. \A m \in 1..Len(line.queue) : line.queue[m] > Gone(line)
      BY <3>2, <3>3
    <3>5. \A i \in ToSet(line.queue) : i > Gone(line)
      BY <3>2, <3>4, Zenon DEF ToSet
    <3> QED BY <2>0, <3>1, <3>5, Counts, Zenon
  <2>3. CASE line.queue = <<>>
    <3>1. ToSet(line.queue) = {}
      BY <2>3 DEF ToSet
    <3> QED BY <3>1
  <2>4. CASE Holds
    <3>1. \A i \in ToSet(line.queue) : line'.fate[i] = "held"
      BY <2>2, <2>4 DEF Holds
    <3>2. Leaves("sent") = {}
      <4> SUFFICES ASSUME NEW i \in 1..Len(line'.fate), line'.fate[i] = "sent",
                          i \in 1..Len(line.fate) => line.fate[i] = "held"
                   PROVE  FALSE
        BY <2>1 DEF Leaves
      <4>1. i \in 1..Len(line.fate) \/ i > Len(line.fate)
        BY <2>1
      <4> QED BY <2>4, <4>1 DEF Holds
    <3> QED BY <3>1, <3>2
  <2>5. CASE AllGo
    <3>1. \A i \in ToSet(line.queue) : line'.fate[i] # "held"
      <4> SUFFICES ASSUME NEW i \in ToSet(line.queue), line'.fate[i] = "held"
                   PROVE  FALSE
        OBVIOUS
      <4>1. i \in 1..Len(line.fate)
        BY <2>2
      <4>2. i <= Gone(line') /\ Len(line.fate) <= Len(line'.fate)
        <5>1. Gone(line') <= Len(line'.fate)
          <6>1. Gone(line') + Len(line'.queue) = Len(line'.fate) /\ Len(line'.queue) \in Nat
            BY <2>0, Counts, Fields DEF LineInv
          <6>2. \A g, q, f \in Nat : g + q = f => g <= f
            OBVIOUS
          <6> QED BY <2>1, <6>1, <6>2, Zenon
        <5> QED BY <2>1, <2>5, <4>1, <5>1 DEF AllGo
      <4>3. i \in 1..Len(line'.fate) /\ ~(i > Gone(line'))
        BY <2>1, <4>1, <4>2
      <4> QED BY <2>1, <4>3
    <3> QED BY <3>1
  <2> QED BY <2>3, <2>4, <2>5, WaitingHolds
<1> QED BY <1>1, Always, PTL DEF HeldTogether, Spec

=============================================================================
