--------------------------- MODULE SessionProofs ---------------------------
(***************************************************************************)
(* Proofs about Session, as the deck runs it, for any runs, cards and      *)
(* bounds.  The argument: at most one step of the chain is with the worker *)
(* (Protocol), and an engine made again is told to the runtime before any  *)
(* run pressed since gets there (Losses).                                  *)
(***************************************************************************)
EXTENDS Deck, TLAPS, FiniteSetTheorems, SequenceTheorems, WellFoundedInduction

(* Members of M are at one place of s at most.                              *)
Once(s, M) == \A i, j \in DOMAIN s : s[i] \in M /\ s[j] \in M => i = j

(* No member of M is before a member of N in s.                             *)
NeverBefore(s, M, N) == \A i, j \in DOMAIN s : i < j /\ s[i] \in M => s[j] \notin N

-----------------------------------------------------------------------------
(* Sequences                                                                *)

\* What the elements of a sequence are is what is at its places.
LEMMA Places ==
  ASSUME NEW S, NEW s \in Seq(S)
  PROVE  /\ DOMAIN s = 1..Len(s) /\ Len(s) \in Nat
         /\ ToSet(s) \subseteq S
         /\ \A x : x \in ToSet(s) <=> \E i \in 1..Len(s) : s[i] = x
<1>1. DOMAIN s = 1..Len(s) /\ Len(s) \in Nat /\ s \in [1..Len(s) -> S]
  BY LenProperties
<1> QED BY <1>1 DEF ToSet

\* A sequence that is put behind another.
LEMMA Concat ==
  ASSUME NEW S, NEW s \in Seq(S), NEW t \in Seq(S)
  PROVE  /\ s \o t \in Seq(S)
         /\ ToSet(s \o t) = ToSet(s) \cup ToSet(t)
         /\ \A M : Once(s, M) /\ Once(t, M) /\ (ToSet(s) \cap M = {} \/ ToSet(t) \cap M = {})
                     => Once(s \o t, M)
         /\ \A M, N : NeverBefore(s, M, N) /\ NeverBefore(t, M, N)
                        /\ (ToSet(s) \cap M = {} \/ ToSet(t) \cap N = {})
                     => NeverBefore(s \o t, M, N)
<1> DEFINE st == s \o t
<1>1. st \in Seq(S) /\ Len(st) = Len(s) + Len(t)
      /\ \A i \in 1..Len(s) + Len(t) : st[i] = IF i <= Len(s) THEN s[i] ELSE t[i - Len(s)]
  BY ConcatProperties
<1>2. DOMAIN s = 1..Len(s) /\ Len(s) \in Nat /\ DOMAIN t = 1..Len(t) /\ Len(t) \in Nat
      /\ DOMAIN st = 1..Len(st)
  BY <1>1, Places
<1> HIDE DEF st
<1>3. \A x : x \in ToSet(st) <=> x \in ToSet(s) \/ x \in ToSet(t)
  <2> SUFFICES ASSUME NEW x
               PROVE  x \in ToSet(st) <=> x \in ToSet(s) \/ x \in ToSet(t)
    OBVIOUS
  <2>1. x \in ToSet(st) => x \in ToSet(s) \/ x \in ToSet(t)
    <3> SUFFICES ASSUME NEW i \in 1..Len(st), st[i] = x
                 PROVE  x \in ToSet(s) \/ x \in ToSet(t)
      BY <1>1, Places
    <3>1. CASE i <= Len(s)
      BY <3>1, <1>1, <1>2 DEF ToSet
    <3>2. CASE ~(i <= Len(s))
      <4>1. i - Len(s) \in 1..Len(t) /\ t[i - Len(s)] = x
        BY <3>2, <1>1, <1>2
      <4> QED BY <4>1, Places
    <3> QED BY <3>1, <3>2
  <2>2. x \in ToSet(s) => x \in ToSet(st)
    <3> SUFFICES ASSUME NEW i \in 1..Len(s), s[i] = x
                 PROVE  x \in ToSet(st)
      BY Places
    <3>1. i \in 1..Len(st) /\ st[i] = x
      BY <1>1, <1>2
    <3> QED BY <3>1, <1>1, Places
  <2>3. x \in ToSet(t) => x \in ToSet(st)
    <3> SUFFICES ASSUME NEW i \in 1..Len(t), t[i] = x
                 PROVE  x \in ToSet(st)
      BY Places
    <3>1. i + Len(s) \in 1..Len(st) /\ st[i + Len(s)] = x
      BY <1>1, <1>2
    <3> QED BY <3>1, <1>1, Places
  <2> QED BY <2>1, <2>2, <2>3
<1>4. \A i \in DOMAIN st : \/ i \in DOMAIN s /\ st[i] = s[i]
                           \/ i - Len(s) \in DOMAIN t /\ i > Len(s) /\ st[i] = t[i - Len(s)]
  BY <1>1, <1>2
<1>5. /\ \A i \in DOMAIN s : s[i] \in ToSet(s) /\ i \in Nat /\ i <= Len(s)
      /\ \A i \in DOMAIN t : t[i] \in ToSet(t)
  BY <1>2 DEF ToSet
<1>6. ASSUME NEW M, Once(s, M), Once(t, M), ToSet(s) \cap M = {} \/ ToSet(t) \cap M = {}
      PROVE  Once(st, M)
  <2> SUFFICES ASSUME NEW i \in DOMAIN st, NEW j \in DOMAIN st, st[i] \in M, st[j] \in M
               PROVE  i = j
    BY DEF Once
  <2>1. i \in Nat /\ j \in Nat
    BY <1>1, <1>2
  <2>2. CASE i \in DOMAIN s /\ st[i] = s[i] /\ j \in DOMAIN s /\ st[j] = s[j]
    BY <2>2, <1>6 DEF Once
  <2>3. CASE /\ i - Len(s) \in DOMAIN t /\ st[i] = t[i - Len(s)]
             /\ j - Len(s) \in DOMAIN t /\ st[j] = t[j - Len(s)]
    <3>1. i - Len(s) = j - Len(s)
      BY <2>3, <1>6, Zenon DEF Once
    <3> QED BY <3>1, <2>1, <1>2
  <2> QED BY <2>2, <2>3, <1>4, <1>5, <1>6, Zenon
<1>7. ASSUME NEW M, NEW N, NeverBefore(s, M, N), NeverBefore(t, M, N),
             ToSet(s) \cap M = {} \/ ToSet(t) \cap N = {}
      PROVE  NeverBefore(st, M, N)
  <2> SUFFICES ASSUME NEW i \in DOMAIN st, NEW j \in DOMAIN st, i < j, st[i] \in M
               PROVE  st[j] \notin N
    BY DEF NeverBefore
  <2>1. i \in Nat /\ j \in Nat
    BY <1>1, <1>2
  <2>2. CASE j \in DOMAIN s /\ st[j] = s[j]
    <3>1. i \in DOMAIN s /\ st[i] = s[i]
      BY <2>1, <2>2, <1>2, <1>4
    <3> QED BY <2>2, <3>1, <1>7 DEF NeverBefore
  <2>3. CASE j - Len(s) \in DOMAIN t /\ j > Len(s) /\ st[j] = t[j - Len(s)]
    <3>1. CASE i \in DOMAIN s /\ st[i] = s[i]
      BY <2>3, <3>1, <1>5, <1>7
    <3>2. CASE i - Len(s) \in DOMAIN t /\ st[i] = t[i - Len(s)]
      <4>1. i - Len(s) < j - Len(s)
        BY <2>1, <1>2
      <4> QED BY <4>1, <2>3, <3>2, <1>7 DEF NeverBefore
    <3> QED BY <3>1, <3>2, <1>4
  <2> QED BY <2>2, <2>3, <1>4
<1> QED BY <1>1, <1>3, <1>6, <1>7 DEF st

\* A sequence of one, and of none.
LEMMA Singles ==
  ASSUME NEW S, NEW x \in S
  PROVE  /\ <<>> \in Seq(S) /\ ToSet(<<>>) = {}
         /\ <<x>> \in Seq(S) /\ ToSet(<<x>>) = {x}
         /\ \A M : Once(<<>>, M) /\ Once(<<x>>, M)
         /\ \A M, N : NeverBefore(<<>>, M, N) /\ NeverBefore(<<x>>, M, N)
<1>1. <<x>> \in Seq(S) /\ Len(<<x>>) = 1 /\ <<x>>[1] = x
  OBVIOUS
<1>2. DOMAIN <<x>> = {1}
  BY <1>1, LenProperties
<1>3. <<>> \in Seq(S) /\ DOMAIN <<>> = {}
  OBVIOUS
<1> QED BY <1>1, <1>2, <1>3 DEF ToSet, Once, NeverBefore

\* What is behind the first element.
LEMMA Behind ==
  ASSUME NEW S, NEW s \in Seq(S), s # <<>>
  PROVE  /\ Head(s) \in S /\ Head(s) = s[1] /\ Tail(s) \in Seq(S)
         /\ ToSet(s) = {Head(s)} \cup ToSet(Tail(s))
         /\ \A M : Once(s, M) => /\ Once(Tail(s), M)
                                 /\ Head(s) \in M => ToSet(Tail(s)) \cap M = {}
         /\ \A M, N : NeverBefore(s, M, N) =>
              /\ NeverBefore(Tail(s), M, N)
              /\ Head(s) \in M => ToSet(Tail(s)) \cap N = {}
<1> DEFINE t == Tail(s)
<1>1. /\ Head(s) \in S /\ Head(s) = s[1] /\ t \in Seq(S) /\ Len(t) = Len(s) - 1
      /\ \A i \in 1..Len(t) : t[i] = s[i + 1]
  BY HeadTailProperties
<1>2. DOMAIN s = 1..Len(s) /\ Len(s) \in Nat /\ DOMAIN t = 1..Len(t) /\ Len(t) \in Nat
      /\ Len(s) # 0
  BY <1>1, Places, EmptySeq
<1> HIDE DEF t
<1>3. \A i \in DOMAIN t : i \in Nat /\ i + 1 \in DOMAIN s /\ t[i] = s[i + 1] /\ i > 0
  BY <1>1, <1>2
<1>4. \A i \in DOMAIN s : i \in Nat /\ (i = 1 \/ (i > 1 /\ i - 1 \in DOMAIN t /\ s[i] = t[i - 1]))
  BY <1>1, <1>2
<1>5. 1 \in DOMAIN s /\ s[1] = Head(s)
  BY <1>1, <1>2
<1>6. \A x : x \in ToSet(t) <=> \E i \in DOMAIN t : t[i] = x
  BY DEF ToSet
<1>7. \A x : x \in ToSet(s) <=> x = Head(s) \/ x \in ToSet(t)
  <2>1. \A i \in DOMAIN s : s[i] = Head(s) \/ s[i] \in ToSet(t)
    BY <1>4, <1>5, <1>6
  <2>2. \A i \in DOMAIN t : t[i] \in ToSet(s)
    BY <1>3 DEF ToSet
  <2>3. Head(s) \in ToSet(s)
    BY <1>5 DEF ToSet
  <2>4. \A x : x \in ToSet(s) <=> \E i \in DOMAIN s : s[i] = x
    BY DEF ToSet
  <2> QED BY <2>1, <2>2, <2>3, <2>4, <1>6
<1>8. ASSUME NEW M, Once(s, M)
      PROVE  Once(t, M) /\ (Head(s) \in M => ToSet(t) \cap M = {})
  <2>1. ASSUME NEW i \in DOMAIN t, NEW j \in DOMAIN t, t[i] \in M, t[j] \in M
        PROVE  i = j
    <3>1. i + 1 = j + 1
      BY <1>3, <1>8, <2>1, Zenon DEF Once
    <3> QED BY <3>1, <1>3
  <2>2. ASSUME Head(s) \in M, NEW i \in DOMAIN t, t[i] \in M
        PROVE  FALSE
    <3>1. i + 1 = 1
      BY <1>3, <1>5, <1>8, <2>2, Zenon DEF Once
    <3> QED BY <3>1, <1>3
  <2> QED BY <2>1, <2>2, <1>6, Zenon DEF Once
<1>9. ASSUME NEW M, NEW N, NeverBefore(s, M, N)
      PROVE  NeverBefore(t, M, N) /\ (Head(s) \in M => ToSet(t) \cap N = {})
  <2>1. ASSUME NEW i \in DOMAIN t, NEW j \in DOMAIN t, i < j, t[i] \in M
        PROVE  t[j] \notin N
    <3>1. i + 1 < j + 1
      BY <1>3, <2>1
    <3> QED BY <3>1, <1>3, <1>9, <2>1, Zenon DEF NeverBefore
  <2>2. ASSUME Head(s) \in M, NEW i \in DOMAIN t, t[i] \in N
        PROVE  FALSE
    <3>1. 1 < i + 1
      BY <1>3
    <3> QED BY <3>1, <1>3, <1>5, <1>9, <2>2, Zenon DEF NeverBefore
  <2> QED BY <2>1, <2>2, <1>6, Zenon DEF NeverBefore
<1> QED BY <1>1, <1>7, <1>8, <1>9 DEF t

\* An element put at the end.
LEMMA AtTheEnd ==
  ASSUME NEW S, NEW s \in Seq(S), NEW y \in S
  PROVE  /\ Append(s, y) \in Seq(S)
         /\ Append(s, y) = s \o <<y>>
         /\ ToSet(Append(s, y)) = ToSet(s) \cup {y}
<1>1. Append(s, y) \in Seq(S)
  BY AppendProperties
<1>2. Append(s, y) = s \o <<y>>
  BY AppendIsConcat
<1>3. <<y>> \in Seq(S) /\ ToSet(<<y>>) = {y}
  BY Singles
<1>4. ToSet(s \o <<y>>) = ToSet(s) \cup ToSet(<<y>>)
  BY <1>3, Concat, ZenonT(40)
<1> QED BY <1>1, <1>2, <1>3, <1>4

\* ... and what is then there.
LEMMA Appended ==
  ASSUME NEW S, NEW s \in Seq(S), NEW y \in S
  PROVE  /\ Append(s, y) = s \o <<y>> /\ s \o <<y>> \in Seq(S)
         /\ ToSet(s \o <<y>>) = ToSet(s) \cup {y}
<1>1. Append(s, y) = s \o <<y>> /\ s \o <<y>> \in Seq(S)
  BY AppendIsConcat
<1>2. <<y>> \in Seq(S) /\ ToSet(<<y>>) = {y}
  BY Singles
<1>3. ToSet(s \o <<y>>) = ToSet(s) \cup ToSet(<<y>>)
  BY <1>2, Concat, ZenonT(40)
<1> QED BY <1>1, <1>2, <1>3

\* Every non-empty set of naturals has a least element.
LEMMA Least ==
  ASSUME NEW S \in SUBSET Nat, S # {}
  PROVE  \E m \in S : \A x \in S : m <= x
<1>1. PICK m \in S : \A y \in S : ~ (<<y, m>> \in OpToRel(<, Nat))
  BY NatLessThanWellFounded, WFMin, Zenon
<1>2. \A y \in S : ~ (y < m)
  BY <1>1, Zenon DEF OpToRel
<1> QED BY <1>2, SMT

\* The two parts of a sequence are ordered as it is.
LEMMA Parts ==
  ASSUME NEW S, NEW s \in Seq(S), NEW t \in Seq(S)
  PROVE  /\ \A M : Once(s \o t, M) => /\ Once(s, M) /\ Once(t, M)
                                      /\ ToSet(s) \cap M = {} \/ ToSet(t) \cap M = {}
         /\ \A M, N : NeverBefore(s \o t, M, N) =>
              /\ NeverBefore(s, M, N) /\ NeverBefore(t, M, N)
              /\ ToSet(s) \cap M = {} \/ ToSet(t) \cap N = {}
<1> DEFINE st == s \o t
<1>1. st \in Seq(S) /\ Len(st) = Len(s) + Len(t)
      /\ \A i \in 1..Len(s) + Len(t) : st[i] = IF i <= Len(s) THEN s[i] ELSE t[i - Len(s)]
  BY ConcatProperties
<1>2. DOMAIN s = 1..Len(s) /\ Len(s) \in Nat /\ DOMAIN t = 1..Len(t) /\ Len(t) \in Nat
      /\ DOMAIN st = 1..Len(st)
  BY <1>1, Places
<1> HIDE DEF st
<1>3. \A i \in DOMAIN s : i \in DOMAIN st /\ st[i] = s[i] /\ i \in Nat /\ i <= Len(s)
  BY <1>1, <1>2
<1>4. \A i \in DOMAIN t : /\ i + Len(s) \in DOMAIN st /\ st[i + Len(s)] = t[i]
                          /\ i \in Nat /\ i + Len(s) > Len(s)
  BY <1>1, <1>2
<1>5. /\ \A x : x \in ToSet(s) <=> \E i \in DOMAIN s : s[i] = x
      /\ \A x : x \in ToSet(t) <=> \E i \in DOMAIN t : t[i] = x
  BY DEF ToSet
<1>6. ASSUME NEW M, Once(st, M)
      PROVE  /\ Once(s, M) /\ Once(t, M)
             /\ ToSet(s) \cap M = {} \/ ToSet(t) \cap M = {}
  <2>1. Once(s, M)
    BY <1>3, <1>6 DEF Once
  <2>2. ASSUME NEW i \in DOMAIN t, NEW j \in DOMAIN t, t[i] \in M, t[j] \in M
        PROVE  i = j
    <3>1. i + Len(s) = j + Len(s)
      BY <1>4, <1>6, <2>2, Zenon DEF Once
    <3> QED BY <3>1, <1>2, <1>4
  <2>3. ASSUME NEW i \in DOMAIN s, NEW j \in DOMAIN t, s[i] \in M, t[j] \in M
        PROVE  FALSE
    <3>1. i = j + Len(s)
      BY <1>3, <1>4, <1>6, <2>3, Zenon DEF Once
    <3> QED BY <3>1, <1>2, <1>3, <1>4
  <2>4. ToSet(s) \cap M = {} \/ ToSet(t) \cap M = {}
    BY <2>3, <1>5
  <2>5. Once(t, M)
    BY <2>2 DEF Once
  <2> QED BY <2>1, <2>4, <2>5
<1>7. ASSUME NEW M, NEW N, NeverBefore(st, M, N)
      PROVE  /\ NeverBefore(s, M, N) /\ NeverBefore(t, M, N)
             /\ ToSet(s) \cap M = {} \/ ToSet(t) \cap N = {}
  <2>1. NeverBefore(s, M, N)
    BY <1>3, <1>7 DEF NeverBefore
  <2>2. ASSUME NEW i \in DOMAIN t, NEW j \in DOMAIN t, i < j, t[i] \in M
        PROVE  t[j] \notin N
    <3>1. i + Len(s) < j + Len(s)
      BY <1>2, <1>4, <2>2
    <3> QED BY <3>1, <1>4, <1>7, <2>2, Zenon DEF NeverBefore
  <2>3. ASSUME NEW i \in DOMAIN s, NEW j \in DOMAIN t, s[i] \in M, t[j] \in N
        PROVE  FALSE
    <3>1. i < j + Len(s)
      BY <1>2, <1>3, <1>4
    <3> QED BY <3>1, <1>3, <1>4, <1>7, <2>3, Zenon DEF NeverBefore
  <2>4. ToSet(s) \cap M = {} \/ ToSet(t) \cap N = {}
    BY <2>3, <1>5
  <2>5. NeverBefore(t, M, N)
    BY <2>2 DEF NeverBefore
  <2> QED BY <2>1, <2>4, <2>5
<1> QED BY <1>6, <1>7 DEF st

-----------------------------------------------------------------------------
(* What is posted, what follows what, and what is sent                      *)

RunCalls == {"run"} \X Runs
StopCalls == {"stopRun"} \X Runs
Calls == {<<"stop">>, <<"lost">>, <<"silence">>}
Items == RunCalls \cup ({"stop"} \X Nat \X Nat) \cup {<<"lost">>}
Msgs == RunCalls \cup StopCalls \cup Calls
Answers == {"job", "refused"} \X Runs
Mails == Answers \cup ({"table"} \X SUBSET Runs) \cup {<<"reply">>}
Bases == {"studio", "epoch", "place"}
Fades == {"fade"} \X Nat
LineSends == ({"sound"} \X Runs \X Nat \X SUBSET Bases) \cup Fades
Sends == LineSends \cup ({"sync"} \X Nat)

Engines == [up : BOOLEAN, studio : BOOLEAN, groups : SUBSET (Runs \X Nat),
            due : SUBSET (Runs \X Nat), heard : SUBSET (Runs \X Nat),
            dying : SUBSET Nat, freeing : BOOLEAN, since : Nat]

Pressed == {r \in Runs : run[r].told # "unpressed"}

WorkTypes ==
  /\ preparing \subseteq Runs /\ live \subseteq Runs /\ places \subseteq Runs
  /\ studio \in BOOLEAN /\ epoch \in Nat
  /\ line \in Seq(LineSends) /\ waiting \in BOOLEAN
  /\ holding \subseteq Runs /\ answering \subseteq Runs
  /\ waiting => line # <<>>
  /\ ~waiting => holding = {}

SessionTypes ==
  /\ run \in [Runs -> [told : {"unpressed", "called", "job", "refused"}, at : Nat]]
  /\ chain \in Seq(Items) /\ step \in {"rest", "called", "settle", "purge", "silence"}
  /\ presses \in Nat /\ gen \in Nat
  /\ inbox \in Seq(Msgs) /\ mail \in Seq(Mails)
  /\ WorkTypes /\ ring \in Seq(Sends) /\ engine \in Engines

DeckTypes ==
  /\ playing.jobs \subseteq Pressed /\ IsFiniteSet(Pressed)
  /\ playing \in [id : Nat, card : Cards \cup {NoCard}, jobs : SUBSET Runs, starting : Int]
  /\ plays \in Nat

\* The Runs that lead a chain are those before its first Stop or loss.
LEMMA LeadIsANumber ==
  ASSUME NEW c \in Seq(Items)
  PROVE  /\ Lead(c) \in 0..Len(c)
         /\ \A m \in 1..Lead(c) : IsRun(c[m])
         /\ Lead(c) = Len(c) \/ ~IsRun(c[Lead(c) + 1])
<1> DEFINE N == Len(c)
           E == {n \in 0..N : n = N \/ ~IsRun(c[n + 1])}
<1>0. N \in Nat
  BY LenProperties
<1>1. N \in E
  BY <1>0
<1>2. PICK n \in E : \A x \in E : n <= x
  <2>1. E \in SUBSET Nat /\ E # {}
    BY <1>0, <1>1
  <2> HIDE DEF E
  <2> QED BY <2>1, Least
<1>3. \A m \in 1..n : IsRun(c[m])
  <2> SUFFICES ASSUME NEW m \in 1..n, ~IsRun(c[m])
               PROVE  FALSE
    OBVIOUS
  <2>1. m - 1 \in E /\ n \in Nat /\ m - 1 < n
    BY <1>0, <1>2
  <2> HIDE DEF E
  <2>2. n <= m - 1
    BY <1>2, <2>1
  <2> QED BY <2>1, <2>2
<1>4. \E k \in 0..N : /\ \A m \in 1..k : IsRun(c[m])
                      /\ k = N \/ ~IsRun(c[k + 1])
  BY <1>2, <1>3
<1> HIDE DEF E
<1> QED BY <1>4 DEF Lead

\* What a run, a Stop, a loss and their messages are.
LEMMA Kinds ==
  /\ \A i \in Items : /\ IsRun(i) => i \in RunCalls /\ i[2] \in Runs
                      /\ ~IsRun(i) => i[1] \in {"stop", "lost"} /\ Call(i) = <<i[1]>>
                      /\ i[1] = "stop" => i[2] \in Nat /\ i[3] \in Nat
                      /\ i[1] = "lost" => i = <<"lost">>
  /\ RunCalls \subseteq Items /\ RunCalls \subseteq Msgs /\ StopCalls \subseteq Msgs
  /\ RunCalls \cap StopCalls = {} /\ RunCalls \cap Calls = {} /\ StopCalls \cap Calls = {}
  /\ \A i \in RunCalls : IsRun(i)
<1>1. \A i \in RunCalls : IsRun(i) /\ i[2] \in Runs
  BY DEF RunCalls, IsRun
<1>2. \A i \in {"stop"} \X Nat \X Nat : i[1] = "stop" /\ i[2] \in Nat /\ i[3] \in Nat /\ ~IsRun(i)
  BY DEF IsRun
<1>3. ~IsRun(<<"lost">>) /\ <<"lost">>[1] = "lost"
  BY DEF IsRun
<1>4. RunCalls \cap StopCalls = {} /\ RunCalls \cap Calls = {} /\ StopCalls \cap Calls = {}
  BY DEF RunCalls, StopCalls, Calls
<1> QED BY <1>1, <1>2, <1>3, <1>4 DEF Items, Msgs, Call, IsRun, RunCalls

\* The chain comes to c: its first Runs are posted, then the first step of the
\* next Stop or loss, if there is one.
LEMMA Coming ==
  ASSUME inbox \in Seq(Msgs), NEW c \in Seq(Items), NEW posted \in Seq(StopCalls),
         Comes(c, posted)
  PROVE  \E lead \in Seq(RunCalls), call \in Seq(Calls) :
           /\ c = lead \o chain' /\ chain' \in Seq(Items)
           /\ inbox' = ((inbox \o posted) \o lead) \o call
           /\ chain' = <<>> => call = <<>> /\ step' = "rest"
           /\ chain' # <<>> => /\ Head(chain') \in Items /\ ~IsRun(Head(chain'))
                               /\ call = <<Call(Head(chain'))>>
                               /\ step' = "called"
<1> DEFINE n == Lead(c)
           rest == SubSeq(c, n + 1, Len(c))
           lead == SubSeq(c, 1, n)
           call == IF rest = <<>> THEN <<>> ELSE <<Call(Head(rest))>>
<1>1. n \in 0..Len(c) /\ Len(c) \in Nat /\ n \in Nat
  BY LeadIsANumber, LenProperties
<1>2. /\ \A m \in 1..n : c[m] \in Items /\ IsRun(c[m])
      /\ n = Len(c) \/ ~IsRun(c[n + 1])
      /\ \A m \in 1..Len(c) : c[m] \in Items
  BY <1>1, LeadIsANumber, ElementOfSeq
<1>3. \A m \in 1..n : c[m] \in RunCalls
  BY <1>2, Kinds, Zenon
<1>4. /\ chain' = rest /\ step' = IF rest = <<>> THEN "rest" ELSE "called"
      /\ inbox' = ((inbox \o posted) \o lead) \o call
  BY Zenon DEF Comes
<1> HIDE DEF n
<1>5. lead \in Seq(RunCalls)
  BY <1>1, <1>3, SubSeqProperties
<1>6. rest \in Seq(Items)
  BY <1>1, <1>2, SubSeqProperties
<1>7. lead \o rest = SubSeq(c, 1, Len(c))
  <2>1. 1 \in 1..Len(c) + 1 /\ n \in 1 - 1..Len(c) /\ Len(c) \in n..Len(c)
    BY <1>1
  <2> HIDE DEF rest, lead
  <2>2. SubSeq(c, 1, n) \o SubSeq(c, n + 1, Len(c)) = SubSeq(c, 1, Len(c))
    BY <2>1, ConcatAdjacentSubSeq
  <2> QED BY <2>2 DEF rest, lead
<1>8. c = lead \o rest
  BY <1>7, SubSeqFull
<1>9. rest # <<>> => Head(rest) \in Items /\ ~IsRun(Head(rest))
  <2> SUFFICES ASSUME rest # <<>>
               PROVE  Head(rest) \in Items /\ ~IsRun(Head(rest))
    OBVIOUS
  <2>1. n # Len(c)
    <3> SUFFICES ASSUME n = Len(c)
                 PROVE  FALSE
      OBVIOUS
    <3>1. rest = <<>>
      BY <1>1, SubSeqEmpty
    <3> QED BY <3>1
  <2>2. n + 1 \in 1..Len(c) /\ Len(c) \in n + 1..Len(c)
    BY <1>1, <2>1
  <2>3. Head(rest) = c[n + 1]
    BY <2>2, HeadTailOfSubSeq
  <2> QED BY <1>2, <2>1, <2>2, <2>3
<1> HIDE DEF rest, lead
<1>10. call \in Seq(Calls)
  <2>1. CASE rest = <<>>
    BY <2>1
  <2>2. CASE rest # <<>>
    <3>1. Call(Head(rest)) \in Calls
      BY <1>9, <2>2, Kinds DEF Calls
    <3> QED BY <2>2, <3>1
  <2> QED BY <2>1, <2>2
<1>11. /\ chain' = <<>> => call = <<>> /\ step' = "rest"
       /\ chain' # <<>> => /\ Head(chain') \in Items /\ ~IsRun(Head(chain'))
                           /\ call = <<Call(Head(chain'))>>
                           /\ step' = "called"
  BY <1>4, <1>9
<1> HIDE DEF call
<1> QED BY <1>4, <1>5, <1>6, <1>8, <1>10, <1>11

\* ... and what is then in the chain and with the worker.
LEMMA Arriving ==
  ASSUME NEW before \in Seq(Msgs), NEW posted \in Seq(StopCalls), NEW lead \in Seq(RunCalls),
         NEW call \in Seq(Calls), NEW rest \in Seq(Items)
  PROVE  LET c == lead \o rest
             after == ((before \o posted) \o lead) \o call
         IN  /\ after \in Seq(Msgs)
             /\ ToSet(c) = ToSet(lead) \cup ToSet(rest)
             /\ ToSet(after) = ToSet(before) \cup ToSet(posted) \cup ToSet(lead) \cup ToSet(call)
             /\ ToSet(lead) \subseteq RunCalls /\ ToSet(posted) \subseteq StopCalls
             /\ ToSet(call) \subseteq Calls
             /\ \A M : Once(c, M) => /\ Once(lead, M) /\ Once(rest, M)
                                     /\ ToSet(lead) \cap M = {} \/ ToSet(rest) \cap M = {}
             /\ \A M, N : NeverBefore(c, M, N) =>
                  /\ NeverBefore(rest, M, N)
                  /\ ToSet(lead) \cap M = {} \/ ToSet(rest) \cap N = {}
             /\ \A M : Once(before, M) /\ Once(posted, M) /\ Once(lead, M) /\ Once(call, M)
                        /\ ToSet(posted) \cap M = {} /\ ToSet(call) \cap M = {}
                        /\ (ToSet(lead) \cap M = {} \/ ToSet(before) \cap M = {})
                     => Once(after, M)
             /\ Once(call, Calls) /\ ToSet(before) \cap Calls = {} => Once(after, Calls)
<1> DEFINE c == lead \o rest
           after == ((before \o posted) \o lead) \o call
           a == before \o posted
           b == a \o lead
<1>1. /\ posted \in Seq(Msgs) /\ lead \in Seq(Msgs) /\ call \in Seq(Msgs) /\ lead \in Seq(Items)
      /\ ToSet(lead) \subseteq RunCalls /\ ToSet(posted) \subseteq StopCalls
      /\ ToSet(call) \subseteq Calls
  <2>1. StopCalls \subseteq Msgs /\ RunCalls \subseteq Msgs /\ Calls \subseteq Msgs /\ RunCalls \subseteq Items
    BY Kinds DEF Msgs
  <2>2. posted \in Seq(Msgs) /\ ToSet(posted) \subseteq StopCalls
    BY <2>1, SeqMonotonic, Places
  <2>3. lead \in Seq(Msgs) /\ lead \in Seq(Items) /\ ToSet(lead) \subseteq RunCalls
    BY <2>1, SeqMonotonic, Places
  <2>4. call \in Seq(Msgs) /\ ToSet(call) \subseteq Calls
    BY <2>1, SeqMonotonic, Places
  <2> QED BY <2>2, <2>3, <2>4
<1>2. /\ a \in Seq(Msgs) /\ ToSet(a) = ToSet(before) \cup ToSet(posted)
      /\ \A M : Once(before, M) /\ Once(posted, M) /\ ToSet(posted) \cap M = {} => Once(a, M)
      /\ \A M : Once(before, M) /\ Once(posted, M) /\ ToSet(before) \cap M = {} => Once(a, M)
  BY <1>1, Concat
<1> HIDE DEF a
<1>3. b \in Seq(Msgs) /\ ToSet(b) = ToSet(a) \cup ToSet(lead)
      /\ \A M : Once(a, M) /\ Once(lead, M) /\ (ToSet(a) \cap M = {} \/ ToSet(lead) \cap M = {})
                  => Once(b, M)
  BY <1>1, <1>2, Concat
<1> HIDE DEF b
<1>4. after = b \o call
  BY DEF a, b
<1>5. b \o call \in Seq(Msgs) /\ ToSet(b \o call) = ToSet(b) \cup ToSet(call)
      /\ \A M : Once(b, M) /\ Once(call, M) /\ (ToSet(b) \cap M = {} \/ ToSet(call) \cap M = {})
                  => Once(b \o call, M)
  BY <1>1, <1>3, Concat
<1>6. ToSet(c) = ToSet(lead) \cup ToSet(rest)
  BY <1>1, Concat
<1>7. /\ \A M : Once(c, M) => /\ Once(lead, M) /\ Once(rest, M)
                              /\ ToSet(lead) \cap M = {} \/ ToSet(rest) \cap M = {}
      /\ \A M, N : NeverBefore(c, M, N) =>
              /\ NeverBefore(rest, M, N)
              /\ ToSet(lead) \cap M = {} \/ ToSet(rest) \cap N = {}
  <2>1. lead \in Seq(Items) /\ rest \in Seq(Items)
    BY <1>1
  <2>2. /\ \A M : Once(lead \o rest, M) =>
                   /\ Once(lead, M) /\ Once(rest, M)
                   /\ ToSet(lead) \cap M = {} \/ ToSet(rest) \cap M = {}
        /\ \A M, N : NeverBefore(lead \o rest, M, N) =>
              /\ NeverBefore(lead, M, N) /\ NeverBefore(rest, M, N)
              /\ ToSet(lead) \cap M = {} \/ ToSet(rest) \cap N = {}
    BY <2>1, Parts
  <2> QED BY <2>2
<1>8. ASSUME NEW M, Once(before, M), Once(posted, M), Once(lead, M), Once(call, M),
             ToSet(posted) \cap M = {}, ToSet(call) \cap M = {},
             ToSet(lead) \cap M = {} \/ ToSet(before) \cap M = {}
      PROVE  Once(after, M)
  <2>1. Once(a, M)
    BY <1>2, <1>8
  <2>2. ToSet(a) \cap M = {} \/ ToSet(lead) \cap M = {}
    BY <1>2, <1>8
  <2>3. Once(b, M)
    BY <1>3, <1>8, <2>1, <2>2
  <2> QED BY <1>4, <1>5, <1>8, <2>3
<1>9. ASSUME Once(call, Calls), ToSet(before) \cap Calls = {}
      PROVE  Once(after, Calls)
  <2>1. ToSet(b) \cap Calls = {}
    BY <1>1, <1>2, <1>3, <1>9, Kinds
  <2>2. Once(b, Calls)
    BY <2>1 DEF Once, ToSet
  <2> QED BY <1>4, <1>5, <1>9, <2>1, <2>2
<1> QED BY <1>1, <1>2, <1>3, <1>4, <1>5, <1>6, <1>7, <1>8, <1>9

\* The stops of some runs are as many messages, one for each.
LEMMA StopRunsAre ==
  ASSUME NEW S \in SUBSET Runs, IsFiniteSet(S)
  PROVE  /\ StopRuns(S) \in Seq(StopCalls)
         /\ \A r \in Runs : <<"stopRun", r>> \in ToSet(StopRuns(S)) <=> r \in S
<1> DEFINE T == {<<"stopRun", r>> : r \in S}
           n == Cardinality(T)
           f == SetToSeq(T)
           g == [r \in S |-> <<"stopRun", r>>]
<1>1. g \in Surjection(S, T)
  BY DEF Surjection
<1>2. IsFiniteSet(T)
  BY <1>1, FS_Surjection
<1>3. n \in Nat /\ ExistsBijection(1..n, T)
  BY <1>2, FS_CardinalityType
<1>4. T \subseteq StopCalls
  BY DEF StopCalls
<1>5. \A r \in Runs : <<"stopRun", r>> \in T <=> r \in S
  OBVIOUS
<1> HIDE DEF T, n, g
<1>6. f \in [1..n -> T] /\ IsInjective(f)
  <2>1. \E h \in [1..n -> T] : IsInjective(h)
    BY <1>3 DEF ExistsBijection, Bijection, Injection
  <2> QED BY <2>1, Zenon DEF SetToSeq, n
<1>7. f \in Surjection(1..n, T)
  <2>1. f \in Injection(1..n, T)
    BY <1>6 DEF Injection
  <2>2. Cardinality(1..n) = n
    BY <1>3, FS_Interval
  <2> QED BY <1>2, <2>1, <2>2, FS_Injection DEF n
<1> HIDE DEF f
<1>8. f \in Seq(T) /\ DOMAIN f = 1..n
  BY <1>3, <1>6
<1>9. f \in Seq(StopCalls)
  BY <1>4, <1>8, SeqMonotonic
<1>10. \A x : x \in ToSet(f) <=> x \in T
  BY <1>6, <1>7, <1>8 DEF Surjection, ToSet
<1> QED BY <1>5, <1>9, <1>10 DEF StopRuns, f, T

-----------------------------------------------------------------------------
(* The deck's steps, as the session sees them                               *)

PostStops(posted) ==
  inbox' = inbox \o posted /\ UNCHANGED <<pageVars, mail, workerVars, ring, engine>>

TakeTable ==
  /\ mail # <<>> /\ Head(mail)[1] = "table" /\ mail' = Tail(mail)
  /\ UNCHANGED <<pageVars, inbox, workerVars, ring, engine>>

EngineStep ==
  \/ Take \/ FadeEnds \/ ReloadEnds
  \/ \E s \in engine.due : Heard(s)
  \/ \E s \in engine.heard : Quiet(s)

SessionStep ==
  \/ \E r \in Runs, posted \in Seq(StopCalls) : PressRun(r, posted) \/ HearAnswer(r, posted)
  \/ \E posted \in Seq(StopCalls) : PostStops(posted)
  \/ PressStop \/ ReloadStarts \/ TakeTable \/ HearReply \/ SettleTimesOut \/ Purge
  \/ Handle \/ \E r \in Runs : Fetched(r) \/ Sound(r) \/ Ends(r) \/ Answer(r)
  \/ Pump \/ Release
  \/ EngineStep
  \/ UNCHANGED sessionVars

\* The stops that a deck posts are of runs its card has had, so they are finitely
\* many and a sequence of messages.
LEMMA Steps ==
  ASSUME DeckTypes, [Next]_vars
  PROVE  SessionStep
<1>1. \A S \in SUBSET Pressed : StopRuns(S) \in Seq(StopCalls)
  <2> SUFFICES ASSUME NEW S \in SUBSET Pressed
               PROVE  StopRuns(S) \in Seq(StopCalls)
    OBVIOUS
  <2>1. IsFiniteSet(S) /\ S \in SUBSET Runs
    BY FS_Subset DEF DeckTypes, Pressed
  <2> QED BY <2>1, StopRunsAre
<1>2. <<>> \in Seq(StopCalls)
  OBVIOUS
<1>3. ASSUME NEW r \in Runs, Run(r)
      PROVE  SessionStep
  BY <1>2, <1>3 DEF Run, SessionStep
<1>4. ASSUME NEW r \in Runs, NEW c \in Cards, Play(c, r)
      PROVE  SessionStep
  <2>1. PICK S \in SUBSET Pressed : PressRun(r, StopRuns(S))
    <3>1. playing.jobs \in SUBSET Pressed /\ {} \in SUBSET Pressed
      BY DEF DeckTypes
    <3> QED BY <1>4, <3>1 DEF Play
  <2> QED BY <1>1, <2>1 DEF SessionStep
<1>5. ASSUME NEW r \in Runs, Answered(r)
      PROVE  SessionStep
  <2>1. PICK posted \in {StopRuns({r}), <<>>} : HearAnswer(r, posted)
    BY <1>5 DEF Answered
  <2>2. StopRuns({r}) \in Seq(StopCalls)
    <3>1. IsFiniteSet({r}) /\ {r} \in SUBSET Runs
      BY FS_Singleton
    <3> QED BY <3>1, StopRunsAre
  <2>3. posted \in Seq(StopCalls)
    BY <1>2, <2>1, <2>2
  <2> QED BY <2>1, <2>3 DEF SessionStep
<1>6. CASE StopCard
  <2>1. StopRuns(playing.jobs) \in Seq(StopCalls)
    BY <1>1 DEF DeckTypes
  <2>2. PostStops(StopRuns(playing.jobs))
    BY <1>6 DEF StopCard, PostStops
  <2> QED BY <2>1, <2>2 DEF SessionStep
<1>7. CASE HearTable
  <2>1. TakeTable
    BY <1>7 DEF HearTable, TakeTable
  <2> QED BY <2>1 DEF SessionStep
<1>8. CASE Refresh \/ UNCHANGED vars
  BY <1>8 DEF Refresh, vars, SessionStep
<1>9. CASE Stop
  BY <1>9 DEF Stop, SessionStep
<1>10. CASE Others
  BY <1>10 DEF Others, SessionStep, EngineStep
<1> QED BY <1>3, <1>4, <1>5, <1>6, <1>7, <1>8, <1>9, <1>10 DEF Next

\* A card's runs were pressed, and finitely many were.
LEMMA DeckTypesInductive ==
  ASSUME SessionTypes, DeckTypes, [Next]_vars
  PROVE  DeckTypes'
<1> DEFINE Plays == [id : Nat, card : Cards \cup {NoCard}, jobs : SUBSET Runs, starting : Int]
<1>0. Rest \in Plays /\ Rest.jobs = {}
  BY DEF Rest
<1>1. \A r \in Runs : IsFiniteSet(Pressed \cup {r})
  BY FS_AddElement DEF DeckTypes
<1>2. ASSUME UNCHANGED <<run, plays>>, playing' = playing \/ playing' = Rest
      PROVE  DeckTypes'
  <2>1. Pressed' = Pressed
    BY <1>2 DEF Pressed
  <2> QED BY <1>0, <1>2, <2>1 DEF DeckTypes
<1>3. \A r \in Runs : \A posted : PressRun(r, posted) =>
        /\ Pressed' = Pressed \cup {r}
        /\ run[r].told = "unpressed"
  BY DEF PressRun, Pressed, SessionTypes
<1>4. ASSUME NEW r \in Runs, Run(r)
      PROVE  DeckTypes'
  <2>1. PressRun(r, <<>>) /\ playing' = playing
    BY <1>4 DEF Run, deckVars
  <2>3. plays' = plays
    BY <1>4 DEF Run, deckVars
  <2>2. Pressed' = Pressed \cup {r} /\ IsFiniteSet(Pressed')
    BY <1>1, <1>3, <2>1
  <2> QED BY <2>1, <2>2, <2>3 DEF DeckTypes
<1>5. ASSUME NEW r \in Runs, NEW c \in Cards, Play(c, r)
      PROVE  DeckTypes'
  <2>1. Pressed' = Pressed \cup {r} /\ IsFiniteSet(Pressed')
    BY <1>1, <1>3, <1>5 DEF Play
  <2>2. /\ playing' \in Plays /\ (playing'.jobs = {} \/ playing'.jobs = playing.jobs)
        /\ plays' \in Nat
    BY <1>5 DEF Play, DeckTypes
  <2> QED BY <2>1, <2>2 DEF DeckTypes
<1>6. ASSUME NEW r \in Runs, Answered(r)
      PROVE  DeckTypes'
  <2>1. PICK posted : HearAnswer(r, posted)
    BY <1>6 DEF Answered
  <2>2. Pressed' = Pressed \cup {r}
    <3>1. Head(mail)[1] \in {"job", "refused"} /\ run' = [run EXCEPT ![r].told = Head(mail)[1]]
      BY <2>1 DEF HearAnswer
    <3> QED BY <3>1 DEF Pressed, SessionTypes
  <2>3. playing' \in Plays /\ playing'.jobs \subseteq playing.jobs \cup {r}
    <3>1. \/ playing' \in {playing, Rest}
          \/ playing' = [playing EXCEPT !.starting = @ - 1, !.jobs = @ \cup {r}]
          \/ playing' = [playing EXCEPT !.starting = @ - 1]
      BY <1>6 DEF Answered
    <3>2. playing \in Plays
      BY DEF DeckTypes
    <3>3. CASE playing' \in {playing, Rest}
      BY <1>0, <3>2, <3>3
    <3>4. CASE playing' = [playing EXCEPT !.starting = @ - 1, !.jobs = @ \cup {r}]
      <4>1. playing' = [id |-> playing.id, card |-> playing.card,
                        jobs |-> playing.jobs \cup {r}, starting |-> playing.starting - 1]
        BY <3>2, <3>4
      <4>2. playing.jobs \cup {r} \subseteq Runs /\ playing.starting - 1 \in Int
        BY <3>2
      <4> QED BY <3>2, <4>1, <4>2
    <3>5. CASE playing' = [playing EXCEPT !.starting = @ - 1]
      BY <3>2, <3>5
    <3> QED BY <3>1, <3>3, <3>4, <3>5
  <2>4. plays' = plays
    BY <1>6 DEF Answered
  <2> QED BY <1>1, <2>2, <2>3, <2>4 DEF DeckTypes
<1>7. CASE StopCard
  BY <1>2, <1>7 DEF StopCard, pageVars
<1>8. CASE HearTable
  BY <1>2, <1>8 DEF HearTable, pageVars, Now
<1>9. CASE Refresh
  BY <1>2, <1>9 DEF Refresh, sessionVars, pageVars, Now
<1>10. CASE Stop
  BY <1>2, <1>10 DEF Stop, Now, PressStop, ReloadStarts
<1>11. CASE Others
  BY <1>2, <1>11 DEF Others, deckVars, HearReply, SettleTimesOut, Purge, Handle, Fetched, Sound, Ends,
                     Answer, Pump, Release, Take, FadeEnds, ReloadEnds, Heard, Quiet, pageVars
<1>12. CASE UNCHANGED vars
  BY <1>2, <1>12 DEF vars, sessionVars, pageVars, deckVars
<1> QED BY <1>4, <1>5, <1>6, <1>7, <1>8, <1>9, <1>10, <1>11, <1>12 DEF Next

-----------------------------------------------------------------------------
(* One step of the chain at a time                                          *)

(* The step under way is the first of the chain's, and either the worker    *)
(* has its message, or the page its reply, or neither.                      *)
Protocol ==
  /\ step = "rest" <=> chain = <<>>
  /\ chain # <<>> => ~IsRun(Head(chain))
  /\ step \in {"settle", "purge", "silence"} => Head(chain)[1] = "stop"
  /\ Once(inbox, Calls) /\ Once(mail, {<<"reply">>})
  /\ <<"reply">> \in ToSet(mail) => ToSet(inbox) \cap Calls = {} /\ step \in {"called", "silence"}
  /\ \A m \in ToSet(inbox) \cap Calls : \/ step = "called" /\ m = Call(Head(chain))
                                        \/ step = "silence" /\ m = <<"silence">>

\* When no step is with the worker the next may be.
LEMMA ComesKeeps ==
  ASSUME SessionTypes, NEW c \in Seq(Items), NEW posted \in Seq(StopCalls), Comes(c, posted),
         ToSet(inbox) \cap Calls = {}, mail' \in Seq(Mails), <<"reply">> \notin ToSet(mail')
  PROVE  /\ chain' \in Seq(Items) /\ inbox' \in Seq(Msgs) /\ step' \in {"rest", "called"}
         /\ Protocol'
<1>0. inbox \in Seq(Msgs)
  BY DEF SessionTypes
<1>1. PICK lead \in Seq(RunCalls), call \in Seq(Calls) :
        /\ c = lead \o chain' /\ chain' \in Seq(Items)
        /\ inbox' = ((inbox \o posted) \o lead) \o call
        /\ chain' = <<>> => call = <<>> /\ step' = "rest"
        /\ chain' # <<>> => /\ Head(chain') \in Items /\ ~IsRun(Head(chain'))
                            /\ call = <<Call(Head(chain'))>>
                            /\ step' = "called"
  BY <1>0, Coming
<1>2. /\ inbox' \in Seq(Msgs)
      /\ ToSet(inbox') = ToSet(inbox) \cup ToSet(posted) \cup ToSet(lead) \cup ToSet(call)
      /\ ToSet(lead) \subseteq RunCalls /\ ToSet(posted) \subseteq StopCalls
      /\ Once(call, Calls) /\ ToSet(inbox) \cap Calls = {} => Once(inbox', Calls)
  BY <1>0, <1>1, Arriving
<1>3. ToSet(inbox') \cap Calls \subseteq ToSet(call)
  BY <1>2, Kinds
<1>4. CASE chain' = <<>>
  <2>1. ToSet(call) = {} /\ Once(call, Calls) /\ step' = "rest"
    BY <1>1, <1>4 DEF ToSet, Once
  <2> QED BY <1>1, <1>2, <1>3, <1>4, <2>1 DEF Protocol, Once, ToSet
<1>5. CASE chain' # <<>>
  <2>1. Call(Head(chain')) \in Calls
    BY <1>1, <1>5, Kinds DEF Calls
  <2>2. ToSet(call) = {Call(Head(chain'))} /\ Once(call, Calls) /\ step' = "called"
    BY <1>1, <1>5, <2>1, Singles
  <2>3. Once(mail', {<<"reply">>})
    BY DEF Once, ToSet
  <2> QED BY <1>1, <1>2, <1>3, <1>5, <2>2, <2>3 DEF Protocol
<1> QED BY <1>4, <1>5

\* What follows the chain is at its end, or at once under way.
LEMMA FollowKeeps ==
  ASSUME SessionTypes, Protocol, NEW items \in Seq(Items), NEW posted \in Seq(StopCalls),
         Follow(items, posted), mail' = mail
  PROVE  /\ chain' \in Seq(Items) /\ inbox' \in Seq(Msgs)
         /\ step' \in {"rest", "called", "settle", "purge", "silence"}
         /\ Protocol'
<1>1. CASE chain = <<>>
  <2>1. ToSet(inbox) \cap Calls = {} /\ <<"reply">> \notin ToSet(mail)
    BY <1>1 DEF Protocol
  <2>2. Comes(items, posted) /\ mail' \in Seq(Mails)
    BY <1>1 DEF Follow, SessionTypes
  <2> QED BY <2>1, <2>2, ComesKeeps
<1>2. CASE chain # <<>>
  <2>1. chain' = chain \o items /\ inbox' = inbox \o posted /\ step' = step
    BY <1>2 DEF Follow
  <2>2. /\ chain \in Seq(Items) /\ inbox \in Seq(Msgs) /\ posted \in Seq(Msgs)
        /\ ToSet(posted) \subseteq StopCalls
    BY SeqMonotonic, Kinds, Places DEF SessionTypes
  <2>3. /\ inbox \o posted \in Seq(Msgs) /\ ToSet(inbox \o posted) = ToSet(inbox) \cup ToSet(posted)
        /\ Once(inbox, Calls) /\ Once(posted, Calls) /\ ToSet(posted) \cap Calls = {}
             => Once(inbox \o posted, Calls)
    BY <2>2, Concat
  <2>4. ToSet(posted) \cap Calls = {} /\ Once(posted, Calls)
    <3>1. ToSet(posted) \cap Calls = {}
      BY <2>2, Kinds
    <3> QED BY <3>1 DEF Once, ToSet
  <2>5. /\ chain' \in Seq(Items) /\ chain' # <<>> /\ Head(chain') = Head(chain)
    <3>1. Len(chain) \in Nat /\ Len(items) \in Nat /\ Len(chain) # 0
      BY <1>2, <2>2, LenProperties, EmptySeq
    <3>2. /\ chain \o items \in Seq(Items) /\ Len(chain \o items) = Len(chain) + Len(items)
          /\ (chain \o items)[1] = chain[1]
      BY <2>2, <3>1, ConcatProperties
    <3>3. chain \o items # <<>>
      BY <3>1, <3>2
    <3> QED BY <1>2, <2>1, <2>2, <3>2, <3>3, Behind
  <2>6. inbox' \in Seq(Msgs) /\ ToSet(inbox') \cap Calls = ToSet(inbox) \cap Calls
        /\ Once(inbox', Calls)
    BY <2>1, <2>3, <2>4 DEF Protocol
  <2> QED BY <1>2, <2>1, <2>5, <2>6 DEF Protocol, SessionTypes
<1> QED BY <1>1, <1>2

\* The worker's answers and the step that has come back.
LEMMA MailKinds ==
  /\ Answers \subseteq Mails /\ <<"reply">> \in Mails
  /\ \A T \in SUBSET Runs : <<"table", T>> \in Mails
  /\ <<"reply">> \notin Answers /\ \A T : <<"table", T>> \notin Answers \cup {<<"reply">>}
  /\ \A m \in Mails : /\ m[1] = "table" => m[2] \in SUBSET Runs
                      /\ m[1] \in {"job", "refused"} => m \in Answers
                      /\ m \in Answers => m[1] \in {"job", "refused"}
<1>1. /\ Answers \subseteq Mails /\ <<"reply">> \in Mails
      /\ \A T \in SUBSET Runs : <<"table", T>> \in Mails
  BY DEF Mails
<1>2. <<"reply">> \notin Answers /\ \A T : <<"table", T>> \notin Answers \cup {<<"reply">>}
  BY DEF Answers
<1>3. \A m \in Answers : m[1] \in {"job", "refused"}
  BY DEF Answers
<1>4. \A m \in {"table"} \X SUBSET Runs : m[1] = "table" /\ m[2] \in SUBSET Runs
  OBVIOUS
<1>5. <<"reply">>[1] = "reply"
  OBVIOUS
<1> QED BY <1>1, <1>2, <1>3, <1>4, <1>5 DEF Mails

\* Two mails posted together.
LEMMA Doubles ==
  ASSUME NEW S, NEW x \in S, NEW y \in S
  PROVE  /\ <<x, y>> \in Seq(S) /\ ToSet(<<x, y>>) = {x, y}
         /\ \A M : x \notin M \/ y \notin M => Once(<<x, y>>, M)
<1>1. <<x, y>> \in Seq(S) /\ Len(<<x, y>>) = 2 /\ <<x, y>>[1] = x /\ <<x, y>>[2] = y
  OBVIOUS
<1>2. DOMAIN <<x, y>> = {1, 2}
  BY <1>1, LenProperties
<1> QED BY <1>1, <1>2 DEF ToSet, Once

\* What the page posts, and what is sent.
LEMMA MsgKinds ==
  \A m \in Msgs : /\ m[1] = "run" => m \in RunCalls /\ m[2] \in Runs /\ m = <<"run", m[2]>>
                  /\ m[1] = "stopRun" => m \in StopCalls /\ m[2] \in Runs /\ m = <<"stopRun", m[2]>>
                  /\ m[1] = "stop" => m = <<"stop">>
                  /\ m[1] = "lost" => m = <<"lost">>
                  /\ m[1] = "silence" => m = <<"silence">>
                  /\ m[1] \in {"stop", "lost", "silence"} <=> m \in Calls
<1>1. \A m \in RunCalls : m[1] = "run" /\ m[2] \in Runs /\ m = <<"run", m[2]>>
  BY DEF RunCalls
<1>2. \A m \in StopCalls : m[1] = "stopRun" /\ m[2] \in Runs /\ m = <<"stopRun", m[2]>>
  BY DEF StopCalls
<1>3. <<"stop">>[1] = "stop" /\ <<"lost">>[1] = "lost" /\ <<"silence">>[1] = "silence"
  OBVIOUS
<1>4. \A m \in Calls : m \in {<<"stop">>, <<"lost">>, <<"silence">>}
  BY DEF Calls
<1>5. Calls = {<<"stop">>, <<"lost">>, <<"silence">>}
  BY DEF Calls
<1> QED BY <1>1, <1>2, <1>3, <1>5 DEF Msgs

LEMMA SendKinds ==
  /\ \A r \in Runs, e \in Nat, w \in SUBSET Bases : <<"sound", r, e, w>> \in LineSends
  /\ \A e \in Nat : <<"fade", e>> \in LineSends /\ <<"fade", e>> \in Fades /\ <<"fade", e>>[1] # "sound"
  /\ \A n \in Nat : <<"sync", n>> \in Sends /\ <<"sync", n>>[1] = "sync" /\ <<"sync", n>> \notin Fades
  /\ LineSends \subseteq Sends
  /\ \A m \in Sends : /\ m[1] \in {"sound", "fade", "sync"}
                      /\ m[1] = "sound" => /\ m[2] \in Runs /\ m[3] \in Nat
                                           /\ m[4] \in SUBSET Bases
                                           /\ m = <<"sound", m[2], m[3], m[4]>>
                      /\ m[1] = "fade" => m[2] \in Nat /\ m = <<"fade", m[2]>>
                      /\ m[1] = "sync" => m[2] \in Nat /\ m = <<"sync", m[2]>>
                      /\ m \in LineSends <=> m[1] # "sync"
                      /\ m \in Fades <=> m[1] = "fade"
<1>1. \A m \in {"sound"} \X Runs \X Nat \X SUBSET Bases :
        /\ m[1] = "sound" /\ m[2] \in Runs /\ m[3] \in Nat /\ m[4] \in SUBSET Bases
        /\ m = <<"sound", m[2], m[3], m[4]>>
  OBVIOUS
<1>2. \A m \in Fades : m[1] = "fade" /\ m[2] \in Nat /\ m = <<"fade", m[2]>>
  BY DEF Fades
<1>3. \A m \in {"sync"} \X Nat : m[1] = "sync" /\ m[2] \in Nat /\ m = <<"sync", m[2]>>
  OBVIOUS
<1>4. /\ \A r \in Runs, e \in Nat, w \in SUBSET Bases : <<"sound", r, e, w>> \in LineSends
      /\ \A e \in Nat : <<"fade", e>> \in LineSends /\ <<"fade", e>> \in Fades /\ <<"fade", e>>[1] # "sound"
      /\ \A n \in Nat : <<"sync", n>> \in Sends /\ <<"sync", n>>[1] = "sync" /\ <<"sync", n>> \notin Fades
      /\ LineSends \subseteq Sends
  BY DEF Sends, LineSends, Fades
<1>5. \A m \in LineSends : /\ m[1] \in {"sound", "fade"}
                           /\ m[1] = "sound" => m \in {"sound"} \X Runs \X Nat \X SUBSET Bases
                           /\ m[1] = "fade" => m \in Fades
  BY <1>1, <1>2 DEF LineSends
<1>6. \A m \in Sends : m \in LineSends \/ m \in {"sync"} \X Nat
  BY DEF Sends
<1> QED BY <1>1, <1>2, <1>3, <1>4, <1>5, <1>6

(* What is on its way to the engine: what has been sent, then what waits.   *)
Queue == ring \o line

\* The queue is of what is in the ring and in the line.
LEMMA Queued ==
  ASSUME SessionTypes
  PROVE  /\ ring \in Seq(Sends) /\ line \in Seq(Sends) /\ Queue \in Seq(Sends)
         /\ ToSet(Queue) = ToSet(ring) \cup ToSet(line)
         /\ ToSet(ring) \subseteq Sends /\ ToSet(line) \subseteq LineSends
<1>1. ring \in Seq(Sends) /\ line \in Seq(LineSends)
  BY DEF SessionTypes, WorkTypes
<1>2. LineSends \subseteq Sends
  BY SendKinds
<1>3. line \in Seq(Sends)
  BY <1>1, <1>2, SeqMonotonic
<1>4. ToSet(ring) \subseteq Sends /\ ToSet(line) \subseteq LineSends
  BY <1>1, Places
<1> QED BY <1>1, <1>3, <1>4, Concat DEF Queue

\* What is sent, or held, goes to the end of the queue.
LEMMA Sending ==
  ASSUME SessionTypes, NEW m \in LineSends, Send(m) \/ Hold(m), ~waiting
  PROVE  /\ ring' \in Seq(Sends) /\ line' \in Seq(LineSends) /\ waiting' \in BOOLEAN
         /\ waiting' => line' # <<>>
         /\ Queue' = Append(Queue, m)
         /\ ToSet(ring') \cup ToSet(line') = ToSet(ring) \cup ToSet(line) \cup {m}
         /\ \/ ring' = Append(ring, m) /\ line = <<>> /\ UNCHANGED <<line, waiting>>
            \/ line' = Append(line, m) /\ ring' = ring
<1>0. /\ ring \in Seq(Sends) /\ line \in Seq(LineSends) /\ waiting \in BOOLEAN /\ m \in Sends
      /\ line \in Seq(Sends) /\ Queue \in Seq(Sends)
  BY Queued, SendKinds DEF SessionTypes, WorkTypes
<1>1. CASE Send(m)
  <2>1. line = <<>> /\ ring' = Append(ring, m) /\ UNCHANGED <<line, waiting>>
    BY <1>1 DEF Send
  <2>2. Queue = ring /\ Queue' = ring'
    <3>1. ring' \in Seq(Sends)
      BY <1>0, <2>1
    <3> QED BY <1>0, <2>1, <3>1, ConcatEmptySeq DEF Queue
  <2>3. ring' \in Seq(Sends) /\ ToSet(ring') = ToSet(ring) \cup {m}
    <3>1. /\ Append(ring, m) = ring \o <<m>> /\ ring \o <<m>> \in Seq(Sends)
          /\ ToSet(ring \o <<m>>) = ToSet(ring) \cup {m}
      BY <1>0, Appended
    <3> QED BY <2>1, <3>1
  <2>4. ToSet(ring') \cup ToSet(line') = ToSet(ring) \cup ToSet(line) \cup {m}
    BY <2>1, <2>3
  <2> QED BY <1>0, <2>1, <2>2, <2>3, <2>4
<1>2. CASE Hold(m)
  <2>1. line' = Append(line, m) /\ ring' = ring /\ (waiting' = TRUE \/ waiting' = FALSE)
    BY <1>2 DEF Hold
  <2>2. line' \in Seq(LineSends) /\ ToSet(line') = ToSet(line) \cup {m} /\ line' = line \o <<m>>
    <3>1. /\ Append(line, m) = line \o <<m>> /\ line \o <<m>> \in Seq(LineSends)
          /\ ToSet(line \o <<m>>) = ToSet(line) \cup {m}
      BY <1>0, Appended
    <3> QED BY <2>1, <3>1
  <2>3. line' # <<>>
    BY <1>0, <2>1
  <2>4. Queue' = Append(Queue, m)
    <3>1. Append(Queue, m) = (ring \o line) \o <<m>>
      BY <1>0, AppendIsConcat DEF Queue
    <3>2. <<m>> \in Seq(Sends)
      BY <1>0
    <3>3. (ring \o line) \o <<m>> = ring \o (line \o <<m>>)
      BY <1>0, <3>2, ConcatAssociative
    <3> QED BY <2>1, <2>2, <3>1, <3>3 DEF Queue
  <2>5. ToSet(ring') \cup ToSet(line') = ToSet(ring) \cup ToSet(line) \cup {m}
    BY <2>1, <2>2
  <2> QED BY <1>0, <2>1, <2>2, <2>3, <2>4, <2>5
<1> QED BY <1>1, <1>2

\* The sound of a run is of the epoch there is.
LEMMA SoundOfRun ==
  ASSUME SessionTypes, NEW r \in Runs
  PROVE  /\ SoundOf(r) \in LineSends
         /\ SoundOf(r)[1] = "sound" /\ SoundOf(r)[2] = r /\ SoundOf(r)[3] = epoch
         /\ SoundOf(r)[4] = (IF studio THEN {} ELSE {"studio"})
                              \cup (IF places = {} THEN {"epoch"} ELSE {})
                              \cup (IF r \in places THEN {} ELSE {"place"})
<1> DEFINE w == (IF studio THEN {} ELSE {"studio"}) \cup (IF places = {} THEN {"epoch"} ELSE {})
                  \cup (IF r \in places THEN {} ELSE {"place"})
<1>1. w \in SUBSET Bases
  BY DEF Bases
<1>2. SoundOf(r) = <<"sound", r, epoch, w>>
  BY DEF SoundOf
<1> HIDE DEF w
<1>3. epoch \in Nat
  BY DEF SessionTypes, WorkTypes
<1> QED BY <1>1, <1>2, <1>3, SendKinds DEF w

\* A run that a gate holds as it starts.
LEMMA HeldStart ==
  ASSUME SessionTypes, NEW r \in Runs, StartsHeld(r), ~waiting
  PROVE  /\ live' = live \cup {r} /\ holding' = {r} /\ places' = places \cup {r}
         /\ ring' = ring /\ line' = Append(line, SoundOf(r)) /\ line' \in Seq(LineSends)
         /\ line' # <<>> /\ Queue' = Append(Queue, SoundOf(r))
         /\ ToSet(ring') \cup ToSet(line') = ToSet(ring) \cup ToSet(line) \cup {SoundOf(r)}
         /\ waiting' /\ waiting' \in BOOLEAN /\ studio' /\ studio' \in BOOLEAN
         /\ UNCHANGED <<mail, answering, dropped, epoch>>
<1>1. Hold(SoundOf(r)) /\ SoundOf(r) \in LineSends
  BY SoundOfRun DEF StartsHeld
<1>2. /\ ring' \in Seq(Sends) /\ line' \in Seq(LineSends) /\ waiting' \in BOOLEAN
      /\ waiting' => line' # <<>>
      /\ Queue' = Append(Queue, SoundOf(r))
      /\ ToSet(ring') \cup ToSet(line') = ToSet(ring) \cup ToSet(line) \cup {SoundOf(r)}
  BY <1>1, Sending
<1>3. line' = Append(line, SoundOf(r)) /\ ring' = ring
  BY <1>1 DEF Hold
<1>4. waiting' /\ holding' = {r} /\ live' = live \cup {r} /\ places' = places \cup {r}
      /\ UNCHANGED <<mail, answering, dropped, epoch>>
  BY Zenon DEF StartsHeld, Sounding
<1>5. studio' /\ studio' \in BOOLEAN
  BY Zenon DEF StartsHeld, Sounding
<1> QED BY <1>2, <1>3, <1>4, <1>5

\* A run's head having run, the page is told so, with the runs that go on; or a
\* gate holds it.
LEMMA StartsPosts ==
  ASSUME SessionTypes, NEW r \in Runs, Starts(r), ~waiting
  PROVE  \E ms \in Seq(Mails) :
           /\ mail' = mail \o ms /\ <<"reply">> \notin ToSet(ms)
           /\ \/ /\ UNCHANGED <<studio, epoch, places, coreVars, ring>>
                 /\ \/ live' = live \cup {r} /\ ms = <<<<"table", live'>>, <<"job", r>>>>
                    \/ live' = live /\ ms = <<<<"job", r>>>>
                    \/ live' = live /\ ms = <<<<"refused", r>>>>
              \/ StartsHeld(r) /\ ms = <<>>
<1>1. <<"job", r>> \in Mails /\ <<"refused", r>> \in Mails
      /\ <<"reply">> \notin {<<"job", r>>, <<"refused", r>>}
  BY MailKinds DEF Answers
<1>2. live \cup {r} \in SUBSET Runs
  BY DEF SessionTypes, WorkTypes
<1>3. <<"table", live \cup {r}>> \in Mails /\ <<"reply">> # <<"table", live \cup {r}>>
  BY <1>2, MailKinds
<1>4. ASSUME live' = live \cup {r}, Post(<<<<"table", live'>>, <<"job", r>>>>),
             UNCHANGED <<studio, epoch, places, coreVars, ring>>
      PROVE  \E ms \in Seq(Mails) :
               /\ mail' = mail \o ms /\ <<"reply">> \notin ToSet(ms)
               /\ ms = <<<<"table", live'>>, <<"job", r>>>>
  <2>1. <<<<"table", live'>>, <<"job", r>>>> \in Seq(Mails)
        /\ ToSet(<<<<"table", live'>>, <<"job", r>>>>) = {<<"table", live'>>, <<"job", r>>}
    BY <1>1, <1>3, <1>4, Doubles
  <2> QED BY <1>1, <1>3, <1>4, <2>1 DEF Post
<1>5. ASSUME Post(<<<<"job", r>>>>)
      PROVE  \E ms \in Seq(Mails) :
               mail' = mail \o ms /\ <<"reply">> \notin ToSet(ms) /\ ms = <<<<"job", r>>>>
  <2>1. <<<<"job", r>>>> \in Seq(Mails) /\ ToSet(<<<<"job", r>>>>) = {<<"job", r>>}
    BY <1>1, Singles
  <2> QED BY <1>1, <1>5, <2>1 DEF Post
<1>6. ASSUME Post(<<<<"refused", r>>>>)
      PROVE  \E ms \in Seq(Mails) :
               mail' = mail \o ms /\ <<"reply">> \notin ToSet(ms) /\ ms = <<<<"refused", r>>>>
  <2>1. <<<<"refused", r>>>> \in Seq(Mails) /\ ToSet(<<<<"refused", r>>>>) = {<<"refused", r>>}
    BY <1>1, Singles
  <2> QED BY <1>1, <1>6, <2>1 DEF Post
<1>7. CASE StartsHeld(r)
  <2>1. mail' = mail
    BY <1>7, HeldStart
  <2>2. <<>> \in Seq(Mails) /\ mail = mail \o <<>> /\ ToSet(<<>>) = {}
    BY ConcatEmptySeq DEF SessionTypes, ToSet
  <2> QED BY <1>7, <2>1, <2>2
<1>8. CASE StartsAtOnce(r)
  <2>1. UNCHANGED <<studio, epoch, places, coreVars, ring>>
    BY <1>8 DEF StartsAtOnce
  <2>2. CASE live' = live \cup {r} /\ Post(<<<<"table", live'>>, <<"job", r>>>>)
    BY <1>4, <2>1, <2>2
  <2>3. CASE live' = live /\ Post(<<<<"job", r>>>>)
    BY <1>5, <2>1, <2>3
  <2>4. CASE live' = live /\ Post(<<<<"refused", r>>>>)
    BY <1>6, <2>1, <2>4
  <2> QED BY <1>8, <2>2, <2>3, <2>4 DEF StartsAtOnce
<1> QED BY <1>7, <1>8 DEF Starts

\* ... and is of the types it was.
LEMMA StartsTypes ==
  ASSUME SessionTypes, NEW r \in Runs, Starts(r), ~waiting, preparing' \subseteq Runs
  PROVE  WorkTypes' /\ ring' \in Seq(Sends)
<1>0. WorkTypes /\ ring \in Seq(Sends) /\ live \cup {r} \subseteq Runs
  BY DEF SessionTypes, WorkTypes
<1>1. CASE StartsAtOnce(r)
  <2>1. UNCHANGED <<studio, epoch, places, line, waiting, holding, answering, ring>>
    BY <1>1 DEF StartsAtOnce, coreVars
  <2>2. live' \subseteq Runs
    BY <1>0, <1>1 DEF StartsAtOnce
  <2> QED BY <1>0, <2>1, <2>2 DEF WorkTypes
<1>2. CASE StartsHeld(r)
  <2>1. /\ live' = live \cup {r} /\ holding' = {r} /\ places' = places \cup {r}
        /\ ring' = ring /\ line' \in Seq(LineSends) /\ line' # <<>>
        /\ waiting' /\ waiting' \in BOOLEAN /\ studio' \in BOOLEAN
        /\ UNCHANGED <<answering, epoch>>
    BY <1>2, HeldStart
  <2>2. /\ preparing' \subseteq Runs /\ live' \subseteq Runs /\ places' \subseteq Runs
        /\ epoch' \in Nat /\ holding' \subseteq Runs /\ answering' \subseteq Runs
        /\ ring' \in Seq(Sends)
    BY <1>0, <2>1 DEF WorkTypes
  <2> QED BY <2>1, <2>2, Zenon DEF WorkTypes
<1> QED BY <1>1, <1>2 DEF Starts

\* The worker replies to the steps of the chain, and to nothing else.
LEMMA HandlePosts ==
  ASSUME SessionTypes, Handle
  PROVE  /\ inbox # <<>> /\ Head(inbox) \in Msgs /\ inbox' = Tail(inbox) /\ UNCHANGED <<pageVars, engine>>
         /\ WorkTypes' /\ ring' \in Seq(Sends)
         /\ \E ms \in Seq(Mails) :
              /\ mail' = mail \o ms /\ Once(ms, {<<"reply">>})
              /\ <<"reply">> \in ToSet(ms) <=> Head(inbox) \in Calls
<1> DEFINE m == Head(inbox)
           Posts == \E ms \in Seq(Mails) :
                      /\ mail' = mail \o ms /\ Once(ms, {<<"reply">>})
                      /\ <<"reply">> \in ToSet(ms) <=> m \in Calls
           Types == WorkTypes' /\ ring' \in Seq(Sends)
<1>1. /\ inbox # <<>> /\ inbox' = Tail(inbox) /\ UNCHANGED <<pageVars, engine>>
      /\ \/ m[1] = "run" /\ HandleRun(m[2])
         \/ m[1] = "stop" /\ HandleStop
         \/ m[1] = "silence" /\ HandleSilence
         \/ m[1] = "lost" /\ HandleLost
         \/ m[1] = "stopRun" /\ HandleStopRun(m[2])
  BY DEF Handle
<1>2. m \in Msgs
  BY <1>1, Behind DEF SessionTypes
<1>3. mail \in Seq(Mails) /\ <<>> \in Seq(Mails) /\ mail = mail \o <<>> /\ ToSet(<<>>) = {}
      /\ Once(<<>>, {<<"reply">>})
  BY ConcatEmptySeq DEF SessionTypes, ToSet, Once
<1>4. <<<<"reply">>>> \in Seq(Mails) /\ ToSet(<<<<"reply">>>>) = {<<"reply">>}
      /\ Once(<<<<"reply">>>>, {<<"reply">>})
  BY MailKinds, Singles
<1>5. m[1] = "run" => m[2] \in Runs /\ m \notin Calls
  BY <1>2, MsgKinds
<1>11. WorkTypes /\ ring \in Seq(Sends)
  BY DEF SessionTypes
<1> HIDE DEF m, Posts, Types
<1>6. CASE m[1] = "run" /\ HandleRun(m[2])
  <2>1. CASE m[2] \in Slow \/ waiting
    <3>1. preparing' = preparing \cup {m[2]} /\ mail' = mail
          /\ UNCHANGED <<live, studio, epoch, places, coreVars, ring>>
      BY <1>6, <2>1 DEF HandleRun
    <3>2. Posts
      BY <1>3, <1>5, <1>6, <3>1 DEF Posts
    <3>3. Types
      BY <1>5, <1>6, <1>11, <3>1 DEF Types, WorkTypes, coreVars
    <3> QED BY <1>1, <1>2, <3>2, <3>3 DEF Posts, Types, m
  <2>2. CASE ~(m[2] \in Slow \/ waiting)
    <3>1. Starts(m[2]) /\ preparing' = preparing /\ ~waiting
      BY <1>6, <2>2 DEF HandleRun
    <3>2. PICK ms \in Seq(Mails) : mail' = mail \o ms /\ <<"reply">> \notin ToSet(ms)
      BY <1>5, <1>6, <3>1, StartsPosts
    <3>3. Once(ms, {<<"reply">>})
      BY <3>2 DEF Once, ToSet
    <3>4. Posts
      BY <1>5, <1>6, <3>2, <3>3 DEF Posts
    <3>5. Types
      <4>1. preparing' \subseteq Runs
        BY <1>11, <3>1 DEF WorkTypes
      <4> QED BY <1>5, <1>6, <3>1, <4>1, StartsTypes DEF Types
    <3> QED BY <1>1, <1>2, <3>4, <3>5 DEF Posts, Types, m
  <2> QED BY <2>1, <2>2
<1>7. CASE m[1] = "stop" /\ HandleStop
  <2>1. <<"table", {}>> \in Mails /\ <<"reply">> \in Mails /\ <<"table", {}>> # <<"reply">>
    BY MailKinds
  <2>2. <<<<"table", {}>>, <<"reply">>>> \in Seq(Mails)
        /\ ToSet(<<<<"table", {}>>, <<"reply">>>>) = {<<"table", {}>>, <<"reply">>}
        /\ Once(<<<<"table", {}>>, <<"reply">>>>, {<<"reply">>})
    BY <2>1, Doubles
  <2>3. m \in Calls
    BY <1>2, <1>7, MsgKinds
  <2>4. Posts
    BY <1>7, <2>2, <2>3 DEF HandleStop, Post, Posts
  <2>5. Types
    <3>1. /\ live' = {} /\ line' = <<>> /\ waiting' = FALSE /\ holding' = {}
          /\ answering' = answering \cup holding
          /\ UNCHANGED <<preparing, studio, epoch, places, ring>>
      BY <1>7 DEF HandleStop
    <3>2. waiting' \in BOOLEAN /\ ~waiting'
      BY <3>1, Zenon
    <3>3. /\ preparing' \subseteq Runs /\ live' \subseteq Runs /\ places' \subseteq Runs
          /\ studio' \in BOOLEAN /\ epoch' \in Nat /\ line' \in Seq(LineSends)
          /\ holding' \subseteq Runs /\ answering' \subseteq Runs /\ ring' \in Seq(Sends)
      BY <1>11, <3>1 DEF WorkTypes
    <3> QED BY <3>1, <3>2, <3>3, Zenon DEF Types, WorkTypes
  <2> QED BY <1>1, <1>2, <2>4, <2>5 DEF Posts, Types, m
<1>8. CASE m[1] = "silence" /\ HandleSilence
  <2>1. m \in Calls
    BY <1>2, <1>8, MsgKinds
  <2>2. Posts
    BY <1>4, <1>8, <2>1 DEF HandleSilence, Post, Posts
  <2>3. /\ ring' \in Seq(Sends) /\ line' \in Seq(LineSends)
        /\ line' = line \/ line' # <<>>
    <3>1. /\ <<"fade", epoch>> \in Sends /\ <<"fade", epoch>> \in LineSends
          /\ ring \in Seq(Sends) /\ line \in Seq(LineSends)
      BY <1>11, SendKinds DEF WorkTypes
    <3>2. /\ Append(ring, <<"fade", epoch>>) \in Seq(Sends)
          /\ Append(line, <<"fade", epoch>>) \in Seq(LineSends)
          /\ Append(line, <<"fade", epoch>>) # <<>>
      BY <3>1
    <3>3. /\ ring' = ring \/ ring' = Append(ring, <<"fade", epoch>>)
          /\ line' = line \/ line' = Append(line, <<"fade", epoch>>)
      BY <1>8 DEF HandleSilence
    <3> QED BY <3>1, <3>2, <3>3
  <2>4. /\ places' \subseteq Runs /\ epoch' \in Nat
        /\ UNCHANGED <<preparing, live, studio, waiting, holding, answering>>
    BY <1>8, <1>11 DEF HandleSilence, WorkTypes
  <2>5. Types
    BY <1>11, <2>3, <2>4 DEF Types, WorkTypes
  <2> QED BY <1>1, <1>2, <2>2, <2>5 DEF Posts, Types, m
<1>9. CASE m[1] = "lost" /\ HandleLost
  <2>1. m \in Calls
    BY <1>2, <1>9, MsgKinds
  <2>2. Posts
    BY <1>4, <1>9, <2>1 DEF HandleLost, Post, Posts
  <2>3. Types
    <3>1. /\ studio' = FALSE /\ places' = {} /\ epoch' = epoch + 1
          /\ UNCHANGED <<preparing, live, line, waiting, holding, answering, ring>>
      BY <1>9, Zenon DEF HandleLost
    <3>2. studio' \in BOOLEAN
      BY <3>1, Zenon
    <3>3. /\ preparing' \subseteq Runs /\ live' \subseteq Runs /\ places' \subseteq Runs
          /\ epoch' \in Nat /\ line' \in Seq(LineSends) /\ waiting' \in BOOLEAN
          /\ holding' \subseteq Runs /\ answering' \subseteq Runs /\ ring' \in Seq(Sends)
          /\ (waiting' => line' # <<>>) /\ (~waiting' => holding' = {})
      BY <1>11, <3>1 DEF WorkTypes
    <3> QED BY <3>2, <3>3, Zenon DEF Types, WorkTypes
  <2> QED BY <1>1, <1>2, <2>2, <2>3 DEF Posts, Types, m
<1>10. CASE m[1] = "stopRun" /\ HandleStopRun(m[2])
  <2>1. m \notin Calls
    BY <1>2, <1>10, MsgKinds
  <2>2. live' \in SUBSET Runs
    BY <1>10, <1>11 DEF HandleStopRun, WorkTypes
  <2>3. <<"table", live'>> \in Mails /\ <<"table", live'>> # <<"reply">>
    BY <2>2, MailKinds
  <2>4. <<<<"table", live'>>>> \in Seq(Mails) /\ ToSet(<<<<"table", live'>>>>) = {<<"table", live'>>}
        /\ Once(<<<<"table", live'>>>>, {<<"reply">>})
    BY <2>3, Singles
  <2>5. Posts
    BY <1>10, <2>1, <2>3, <2>4 DEF HandleStopRun, Post, Posts
  <2>6. Types
    BY <1>10, <1>11, <2>2 DEF HandleStopRun, Types, WorkTypes, coreVars
  <2> QED BY <1>1, <1>2, <2>5, <2>6 DEF Posts, Types, m
<1> QED BY <1>1, <1>6, <1>7, <1>8, <1>9, <1>10

\* A sound has a group and is due in it, or is refused.
LEMMA SoundTaken ==
  ASSUME engine \in Engines, NEW r \in Runs, NEW e \in Nat, NEW with
  PROVE  LET k == TakeSound(r, e, with)
         IN  /\ k \in Engines
             /\ k.up = engine.up /\ k.heard = engine.heard /\ k.dying = engine.dying
             /\ k.freeing = engine.freeing /\ k.since = engine.since
             /\ k.studio <=> engine.studio \/ "studio" \in with
             /\ \/ k.due = engine.due /\ k.groups = engine.groups
                \/ /\ k.due = engine.due \cup {<<r, e>>} /\ k.groups = engine.groups \cup {<<r, e>>}
                   /\ k.studio
<1> DEFINE made == engine.studio \/ "studio" \in with
           begun == made /\ ("epoch" \in with \/ \E x \in engine.groups : x[2] = e)
           placed == begun /\ ("place" \in with \/ <<r, e>> \in engine.groups)
           now == IF placed THEN {<<r, e>>} ELSE {}
           k == [engine EXCEPT !.studio = made, !.groups = @ \cup now, !.due = @ \cup now]
<1>1. made \in BOOLEAN /\ now \in SUBSET (Runs \X Nat)
  OBVIOUS
<1>2. now = {} \/ (now = {<<r, e>>} /\ made)
  OBVIOUS
<1> HIDE DEF made, now
<1>3. engine.groups \cup now \in SUBSET (Runs \X Nat) /\ engine.due \cup now \in SUBSET (Runs \X Nat)
  BY <1>1 DEF Engines
<1>4. k \in Engines
  BY <1>1, <1>3 DEF Engines
<1>5. /\ k.up = engine.up /\ k.heard = engine.heard /\ k.dying = engine.dying
      /\ k.freeing = engine.freeing /\ k.since = engine.since
      /\ k.groups = engine.groups \cup now /\ k.due = engine.due \cup now
  BY DEF Engines
<1>6. k.studio <=> made
  BY <1>1 DEF Engines
<1>7. k = TakeSound(r, e, with)
  BY DEF TakeSound, made, now
<1> HIDE DEF k
<1> QED BY <1>2, <1>4, <1>5, <1>6, <1>7 DEF made

\* What each of the engine's steps leaves: it has fields of the types it had.
LEMMA EngineTypes ==
  ASSUME SessionTypes, EngineStep
  PROVE  /\ engine' \in Engines /\ ring' \in Seq(Sends)
         /\ UNCHANGED <<run, chain, presses, gen, inbox, mail, workerVars>>
         /\ step' = step \/ (step = "settle" /\ step' = "purge")
<1>0. engine \in Engines /\ ring \in Seq(Sends) /\ <<>> \in Seq(Sends)
  BY DEF SessionTypes
<1>1. CASE Take
  <2> DEFINE m == Head(ring)
  <2>1. m \in Sends /\ ring' \in Seq(Sends) /\ ring # <<>> /\ ring' = Tail(ring) /\ engine.up
        /\ UNCHANGED <<run, chain, presses, gen, inbox, mail, workerVars>>
    BY <1>0, <1>1, Behind DEF Take
  <2>2. \/ /\ m[1] = "sync" /\ UNCHANGED engine
           /\ step' = step \/ (step = "settle" /\ step' = "purge")
        \/ m[1] = "fade" /\ engine' = TakeFade(m[2]) /\ UNCHANGED step
        \/ m[1] = "sound" /\ engine' = TakeSound(m[2], m[3], m[4]) /\ UNCHANGED step
    BY <1>1 DEF Take
  <2> HIDE DEF m
  <2>3. CASE m[1] = "sync" /\ UNCHANGED engine /\ (step' = step \/ (step = "settle" /\ step' = "purge"))
    BY <1>0, <2>1, <2>3
  <2>4. CASE m[1] = "fade" /\ engine' = TakeFade(m[2]) /\ UNCHANGED step
    <3>1. m[2] \in Nat
      BY <2>1, <2>4, SendKinds
    <3>2. TakeFade(m[2]) \in Engines
      BY <1>0, <3>1 DEF TakeFade, Engines
    <3> QED BY <2>1, <2>4, <3>2
  <2>5. CASE m[1] = "sound" /\ engine' = TakeSound(m[2], m[3], m[4]) /\ UNCHANGED step
    <3>1. m[2] \in Runs /\ m[3] \in Nat /\ m[4] \in SUBSET Bases
      BY <2>1, <2>5, SendKinds
    <3>2. TakeSound(m[2], m[3], m[4]) \in Engines
      BY <1>0, <3>1, SoundTaken
    <3>3. engine' \in Engines /\ step' = step
      BY <2>5, <3>2
    <3> QED BY <2>1, <3>3, Zenon
  <2> QED BY <2>2, <2>3, <2>4, <2>5
<1>2. CASE FadeEnds
  BY <1>0, <1>2 DEF FadeEnds, Engines, pageVars
<1>3. CASE ReloadEnds
  BY <1>0, <1>3 DEF ReloadEnds, Engines, pageVars
<1>4. ASSUME NEW s \in engine.due, Heard(s)
      PROVE  /\ engine' \in Engines /\ ring' \in Seq(Sends)
             /\ UNCHANGED <<run, chain, presses, gen, inbox, mail, workerVars>> /\ step' = step
  <2>1. s \in Runs \X Nat
    BY <1>0 DEF Engines
  <2> QED BY <1>0, <1>4, <2>1 DEF Heard, Engines, pageVars
<1>5. ASSUME NEW s \in engine.heard, Quiet(s)
      PROVE  /\ engine' \in Engines /\ ring' \in Seq(Sends)
             /\ UNCHANGED <<run, chain, presses, gen, inbox, mail, workerVars>> /\ step' = step
  BY <1>0, <1>5 DEF Quiet, Engines, pageVars
<1> QED BY <1>1, <1>2, <1>3, <1>4, <1>5 DEF EngineStep

\* Stops of runs posted, and a mail that is no step's reply heard.
LEMMA AsideKeeps ==
  ASSUME SessionTypes, Protocol, UNCHANGED <<chain, step>>, NEW posted \in Seq(StopCalls),
         inbox' = inbox \o posted,
         mail' = mail \/ (mail # <<>> /\ mail' = Tail(mail))
  PROVE  inbox' \in Seq(Msgs) /\ mail' \in Seq(Mails) /\ Protocol'
<1>1. inbox \in Seq(Msgs) /\ posted \in Seq(Msgs) /\ ToSet(posted) \subseteq StopCalls
  BY SeqMonotonic, Kinds, Places DEF SessionTypes
<1>2. ToSet(posted) \cap Calls = {}
  BY <1>1, Kinds
<1>3. Once(posted, Calls)
  BY <1>2 DEF Once, ToSet
<1>4. inbox' \in Seq(Msgs) /\ ToSet(inbox') = ToSet(inbox) \cup ToSet(posted) /\ Once(inbox', Calls)
  BY <1>1, <1>2, <1>3, Concat DEF Protocol
<1>5. mail' \in Seq(Mails) /\ ToSet(mail') \subseteq ToSet(mail) /\ Once(mail', {<<"reply">>})
  <2>1. CASE mail' = mail
    BY <2>1 DEF SessionTypes, Protocol
  <2>2. CASE mail # <<>> /\ mail' = Tail(mail)
    BY <2>2, Behind DEF SessionTypes, Protocol
  <2> QED BY <2>1, <2>2
<1>6. ToSet(inbox') \cap Calls = ToSet(inbox) \cap Calls
  BY <1>2, <1>4
<1> QED BY <1>4, <1>5, <1>6 DEF Protocol

\* What the worker does aside from the steps of the chain.
LEMMA WorkKeeps ==
  ASSUME SessionTypes, Protocol, UNCHANGED <<chain, step, inbox>>, NEW ms \in Seq(Mails),
         mail' = mail \o ms, <<"reply">> \notin ToSet(ms)
  PROVE  mail' \in Seq(Mails) /\ Protocol'
<1>1. mail \in Seq(Mails)
  BY DEF SessionTypes
<1>2. Once(ms, {<<"reply">>})
  BY DEF Once, ToSet
<1>3. mail' \in Seq(Mails) /\ ToSet(mail') = ToSet(mail) \cup ToSet(ms) /\ Once(mail', {<<"reply">>})
  BY <1>1, <1>2, Concat DEF Protocol
<1> QED BY <1>3 DEF Protocol

\* The step that was with the worker comes back as it is handled.
LEMMA HandleKeeps ==
  ASSUME SessionTypes, Protocol, Handle
  PROVE  SessionTypes' /\ Protocol'
<1>1. /\ inbox # <<>> /\ Head(inbox) \in Msgs /\ inbox' = Tail(inbox) /\ UNCHANGED <<pageVars, engine>>
      /\ WorkTypes' /\ ring' \in Seq(Sends)
  BY HandlePosts
<1>2. PICK ms \in Seq(Mails) : /\ mail' = mail \o ms /\ Once(ms, {<<"reply">>})
                               /\ <<"reply">> \in ToSet(ms) <=> Head(inbox) \in Calls
  BY HandlePosts
<1>3. /\ inbox' \in Seq(Msgs) /\ ToSet(inbox) = {Head(inbox)} \cup ToSet(inbox')
      /\ Once(inbox', Calls) /\ (Head(inbox) \in Calls => ToSet(inbox') \cap Calls = {})
  BY <1>1, Behind DEF SessionTypes, Protocol
<1>4. Head(inbox) \in Calls => <<"reply">> \notin ToSet(mail) /\ step \in {"called", "silence"}
  BY <1>3 DEF Protocol
<1>5. mail' \in Seq(Mails) /\ ToSet(mail') = ToSet(mail) \cup ToSet(ms) /\ Once(mail', {<<"reply">>})
  <2>1. ToSet(mail) \cap {<<"reply">>} = {} \/ ToSet(ms) \cap {<<"reply">>} = {}
    BY <1>2, <1>4
  <2> QED BY <1>2, <2>1, Concat DEF SessionTypes, Protocol
<1>6. UNCHANGED <<run, chain, step, presses, gen, engine>>
  BY <1>1 DEF pageVars
<1>7. <<"reply">> \in ToSet(mail') => ToSet(inbox') \cap Calls = {} /\ step \in {"called", "silence"}
  <2>1. ASSUME <<"reply">> \in ToSet(mail)
        PROVE  ToSet(inbox') \cap Calls = {} /\ step \in {"called", "silence"}
    <3>1. ToSet(inbox) \cap Calls = {} /\ step \in {"called", "silence"}
      BY <2>1 DEF Protocol
    <3> QED BY <1>3, <3>1
  <2>2. ASSUME <<"reply">> \in ToSet(ms)
        PROVE  ToSet(inbox') \cap Calls = {} /\ step \in {"called", "silence"}
    <3>1. Head(inbox) \in Calls
      BY <1>2, <2>2
    <3> QED BY <1>3, <1>4, <3>1
  <2> QED BY <1>5, <2>1, <2>2
<1>8. Protocol'
  <2>1. \A m \in ToSet(inbox') \cap Calls : \/ step = "called" /\ m = Call(Head(chain))
                                            \/ step = "silence" /\ m = <<"silence">>
    <3>1. ToSet(inbox') \cap Calls \subseteq ToSet(inbox) \cap Calls
      BY <1>3
    <3> QED BY <3>1 DEF Protocol
  <2>2. /\ step = "rest" <=> chain = <<>>
        /\ chain # <<>> => ~IsRun(Head(chain))
        /\ step \in {"settle", "purge", "silence"} => Head(chain)[1] = "stop"
    BY DEF Protocol
  <2>3. step' = step /\ chain' = chain
    BY <1>6
  <2> QED BY <1>3, <1>5, <1>7, <2>1, <2>2, <2>3 DEF Protocol
<1>9. SessionTypes'
  BY <1>1, <1>3, <1>5, <1>6 DEF SessionTypes
<1> QED BY <1>8, <1>9

\* Each step keeps to one step of the chain at a time.
LEMMA FlowInductive ==
  ASSUME SessionTypes, Protocol, SessionStep
  PROVE  SessionTypes' /\ Protocol'
<1>0. /\ inbox \in Seq(Msgs) /\ mail \in Seq(Mails) /\ chain \in Seq(Items) /\ ring \in Seq(Sends)
      /\ <<>> \in Seq(StopCalls) /\ inbox \o <<>> = inbox
  BY ConcatEmptySeq DEF SessionTypes
<1>1. ASSUME NEW r \in Runs, NEW posted \in Seq(StopCalls), PressRun(r, posted)
      PROVE  SessionTypes' /\ Protocol'
  <2>1. <<"run", r>> \in Items
    BY DEF Items, RunCalls
  <2>2. <<<<"run", r>>>> \in Seq(Items)
    BY <2>1
  <2>3. /\ chain' \in Seq(Items) /\ inbox' \in Seq(Msgs)
        /\ step' \in {"rest", "called", "settle", "purge", "silence"}
        /\ Protocol'
    <3>1. Follow(<<<<"run", r>>>>, posted) /\ mail' = mail
      BY <1>1 DEF PressRun
    <3> QED BY <2>2, <3>1, FollowKeeps
  <2>4. run' \in [Runs -> [told : {"unpressed", "called", "job", "refused"}, at : Nat]]
    BY <1>1 DEF PressRun, SessionTypes
  <2> QED BY <1>1, <2>3, <2>4 DEF PressRun, SessionTypes, WorkTypes, workerVars, runtimeVars, coreVars
<1>2. ASSUME NEW r \in Runs, NEW posted \in Seq(StopCalls), HearAnswer(r, posted)
      PROVE  SessionTypes' /\ Protocol'
  <2>1. /\ inbox' = inbox \o posted /\ mail # <<>> /\ mail' = Tail(mail)
        /\ UNCHANGED <<chain, step, presses, gen, workerVars, ring, engine>>
    BY <1>2 DEF HearAnswer
  <2>2. inbox' \in Seq(Msgs) /\ mail' \in Seq(Mails) /\ Protocol'
    BY <2>1, AsideKeeps
  <2>3. run' \in [Runs -> [told : {"unpressed", "called", "job", "refused"}, at : Nat]]
    <3>1. Head(mail)[1] \in {"job", "refused"} /\ run' = [run EXCEPT ![r].told = Head(mail)[1]]
      BY <1>2 DEF HearAnswer
    <3> QED BY <3>1 DEF SessionTypes
  <2> QED BY <2>1, <2>2, <2>3 DEF SessionTypes, WorkTypes, workerVars, runtimeVars, coreVars
<1>3. ASSUME NEW posted \in Seq(StopCalls), PostStops(posted)
      PROVE  SessionTypes' /\ Protocol'
  <2>1. inbox' = inbox \o posted /\ UNCHANGED <<pageVars, mail, workerVars, ring, engine>>
    BY <1>3 DEF PostStops
  <2>2. inbox' \in Seq(Msgs) /\ mail' \in Seq(Mails) /\ Protocol'
    BY <2>1, AsideKeeps DEF pageVars
  <2> QED BY <2>1, <2>2 DEF SessionTypes, WorkTypes, workerVars, runtimeVars, coreVars, pageVars
<1>4. CASE TakeTable
  <2>1. mail # <<>> /\ mail' = Tail(mail) /\ UNCHANGED <<pageVars, inbox, workerVars, ring, engine>>
    BY <1>4 DEF TakeTable
  <2>2. inbox' = inbox \o <<>> /\ UNCHANGED <<chain, step>>
    BY <1>0, <2>1 DEF pageVars
  <2>3. inbox' \in Seq(Msgs) /\ mail' \in Seq(Mails) /\ Protocol'
    BY <1>0, <2>1, <2>2, AsideKeeps
  <2> QED BY <2>1, <2>3 DEF SessionTypes, WorkTypes, workerVars, runtimeVars, coreVars, pageVars
<1>5. CASE PressStop
  <2>1. <<"stop", presses + 1, gen>> \in Items
    BY DEF Items, SessionTypes
  <2>2. <<<<"stop", presses + 1, gen>>>> \in Seq(Items)
    BY <2>1
  <2>3. Follow(<<<<"stop", presses + 1, gen>>>>, <<>>) /\ mail' = mail
    BY <1>5 DEF PressStop
  <2>4. /\ chain' \in Seq(Items) /\ inbox' \in Seq(Msgs)
        /\ step' \in {"rest", "called", "settle", "purge", "silence"}
        /\ Protocol'
    BY <1>0, <2>2, <2>3, FollowKeeps
  <2> QED BY <1>5, <2>4 DEF PressStop, SessionTypes, WorkTypes, workerVars, runtimeVars, coreVars
<1>6. CASE ReloadStarts
  <2>1. <<"stop", presses + 1, gen>> \in Items /\ <<"lost">> \in Items
    BY DEF Items, SessionTypes
  <2>2. <<<<"stop", presses + 1, gen>>, <<"lost">>>> \in Seq(Items)
    BY <2>1, Doubles
  <2>3. Follow(<<<<"stop", presses + 1, gen>>, <<"lost">>>>, <<>>) /\ mail' = mail
    BY <1>6 DEF ReloadStarts
  <2>4. /\ chain' \in Seq(Items) /\ inbox' \in Seq(Msgs)
        /\ step' \in {"rest", "called", "settle", "purge", "silence"}
        /\ Protocol'
    BY <1>0, <2>2, <2>3, FollowKeeps
  <2>5. engine' \in Engines
    <3>1. NewEngine \in Engines
      BY DEF NewEngine, Engines
    <3>2. presses + 1 \in Nat
      BY DEF SessionTypes
    <3>3. [NewEngine EXCEPT !.up = FALSE, !.since = presses + 1] \in Engines
      BY <3>1, <3>2 DEF Engines
    <3> QED BY <1>6, <3>3 DEF ReloadStarts
  <2>6. presses' \in Nat /\ gen' \in Nat /\ UNCHANGED <<run, mail, workerVars, ring>>
    BY <1>6 DEF ReloadStarts, SessionTypes
  <2> QED BY <2>4, <2>5, <2>6 DEF SessionTypes, WorkTypes, workerVars, runtimeVars, coreVars
<1>7. CASE HearReply
  <2>1. /\ mail # <<>> /\ Head(mail) = <<"reply">> /\ mail' = Tail(mail)
        /\ UNCHANGED <<run, presses, gen, workerVars, engine>>
    BY <1>7 DEF HearReply
  <2>2. mail' \in Seq(Mails) /\ ToSet(mail) = {Head(mail)} \cup ToSet(mail')
        /\ <<"reply">> \notin ToSet(mail')
    <3>1. /\ Tail(mail) \in Seq(Mails) /\ ToSet(mail) = {Head(mail)} \cup ToSet(Tail(mail))
          /\ \A M : Once(mail, M) /\ Head(mail) \in M => ToSet(Tail(mail)) \cap M = {}
      BY <1>0, <2>1, Behind
    <3>2. Once(mail, {<<"reply">>}) /\ Head(mail) \in {<<"reply">>}
      BY <2>1 DEF Protocol
    <3>3. ToSet(Tail(mail)) \cap {<<"reply">>} = {}
      BY <3>1, <3>2
    <3> QED BY <2>1, <3>1, <3>3
  <2>3. ToSet(inbox) \cap Calls = {} /\ step \in {"called", "silence"} /\ chain # <<>>
    BY <2>1, <2>2 DEF Protocol
  <2>4. Head(chain) = chain[1] /\ Tail(chain) \in Seq(Items)
    BY <1>0, <2>3, Behind
  <2>5. CASE chain[1][1] = "stop" /\ step = "called"
    <3>1. step' = "settle" /\ ring' = Append(ring, <<"sync", chain[1][2]>>) /\ UNCHANGED <<chain, inbox>>
      BY <1>7, <2>5 DEF HearReply
    <3>2. ring' \in Seq(Sends)
      <4>1. chain[1][2] \in Nat
        BY <1>0, <2>3, <2>5, Behind, Kinds
      <4>2. <<"sync", chain[1][2]>> \in Sends
        BY <4>1, SendKinds
      <4> QED BY <1>0, <3>1, <4>2
    <3>3. Once(mail', {<<"reply">>})
      BY <2>2 DEF Once, ToSet
    <3>4. Protocol'
      BY <2>2, <2>3, <2>4, <2>5, <3>1, <3>3 DEF Protocol
    <3> QED BY <2>1, <2>2, <3>1, <3>2, <3>4 DEF SessionTypes, WorkTypes, workerVars, runtimeVars, coreVars
  <2>6. CASE ~(chain[1][1] = "stop" /\ step = "called")
    <3>1. Comes(Tail(chain), <<>>) /\ UNCHANGED ring
      BY <1>7, <2>6 DEF HearReply
    <3>2. chain' \in Seq(Items) /\ inbox' \in Seq(Msgs) /\ step' \in {"rest", "called"} /\ Protocol'
      BY <1>0, <2>2, <2>3, <2>4, <3>1, ComesKeeps
    <3> QED BY <2>1, <2>2, <3>1, <3>2 DEF SessionTypes, WorkTypes, workerVars, runtimeVars, coreVars
  <2> QED BY <2>5, <2>6
<1>8. CASE SettleTimesOut
  <2>1. /\ step = "settle" /\ step' = "purge"
        /\ UNCHANGED <<run, chain, presses, gen, inbox, mail, workerVars, ring, engine>>
    BY <1>8 DEF SettleTimesOut
  <2>2. Protocol'
    BY <2>1 DEF Protocol
  <2> QED BY <2>1, <2>2 DEF SessionTypes, WorkTypes, workerVars, runtimeVars, coreVars
<1>9. CASE Purge
  <2>1. /\ step = "purge" /\ UNCHANGED <<run, presses, gen, mail, workerVars>>
        /\ \/ ring' = <<>> /\ engine' = [engine EXCEPT !.due = {}, !.freeing = FALSE]
           \/ UNCHANGED <<ring, engine>>
        /\ \/ step' = "silence" /\ inbox' = Append(inbox, <<"silence">>) /\ UNCHANGED chain
           \/ Comes(Tail(chain), <<>>)
    BY <1>9 DEF Purge
  <2>2. /\ ToSet(inbox) \cap Calls = {} /\ <<"reply">> \notin ToSet(mail) /\ chain # <<>>
        /\ Head(chain)[1] = "stop"
    BY <2>1 DEF Protocol
  <2>3. engine' \in Engines /\ ring' \in Seq(Sends)
    <3>1. engine \in Engines /\ <<>> \in Seq(Sends)
      BY DEF SessionTypes
    <3>2. [engine EXCEPT !.due = {}, !.freeing = FALSE] \in Engines
      BY <3>1 DEF Engines
    <3> QED BY <1>0, <2>1, <3>1, <3>2
  <2>4. CASE step' = "silence" /\ inbox' = Append(inbox, <<"silence">>) /\ UNCHANGED chain
    <3>1. <<"silence">> \in Msgs /\ <<"silence">> \in Calls
      BY DEF Msgs, Calls
    <3>2. inbox' = inbox \o <<<<"silence">>>> /\ inbox' \in Seq(Msgs)
          /\ ToSet(inbox') = ToSet(inbox) \cup {<<"silence">>}
      BY <1>0, <2>4, <3>1, AtTheEnd
    <3>3. Once(inbox', Calls)
      <4>1. Once(inbox, Calls)
        BY DEF Protocol
      <4>2. <<<<"silence">>>> \in Seq(Msgs) /\ Once(<<<<"silence">>>>, Calls)
        BY <3>1, Singles
      <4>3. Once(inbox \o <<<<"silence">>>>, Calls)
        BY <1>0, <2>2, <4>1, <4>2, Concat
      <4> QED BY <3>2, <4>3
    <3>4. ToSet(inbox') \cap Calls = {<<"silence">>}
      BY <2>2, <3>1, <3>2
    <3>5. Protocol'
      BY <2>1, <2>2, <2>4, <3>3, <3>4 DEF Protocol
    <3> QED BY <2>1, <2>3, <2>4, <3>2, <3>5 DEF SessionTypes, WorkTypes, workerVars, runtimeVars, coreVars
  <2>5. CASE Comes(Tail(chain), <<>>)
    <3>1. Tail(chain) \in Seq(Items) /\ mail' \in Seq(Mails) /\ <<"reply">> \notin ToSet(mail')
      BY <1>0, <2>1, <2>2, Behind
    <3>2. chain' \in Seq(Items) /\ inbox' \in Seq(Msgs) /\ step' \in {"rest", "called"} /\ Protocol'
      BY <1>0, <2>2, <2>5, <3>1, ComesKeeps
    <3> QED BY <2>1, <2>3, <3>1, <3>2 DEF SessionTypes, WorkTypes, workerVars, runtimeVars, coreVars
  <2> QED BY <2>1, <2>4, <2>5
<1>10. CASE Handle
  BY <1>10, HandleKeeps
<1>11. ASSUME NEW r \in Runs, Fetched(r)
       PROVE  SessionTypes' /\ Protocol'
  <2>1. /\ Starts(r) /\ preparing' = preparing \ {r} /\ UNCHANGED <<pageVars, inbox, engine>>
        /\ ~waiting
    BY <1>11 DEF Fetched
  <2>2. PICK ms \in Seq(Mails) : mail' = mail \o ms /\ <<"reply">> \notin ToSet(ms)
    BY <2>1, StartsPosts
  <2>3. UNCHANGED <<chain, step, inbox>>
    BY <2>1 DEF pageVars
  <2>4. mail' \in Seq(Mails) /\ Protocol'
    BY <2>2, <2>3, WorkKeeps
  <2>5. WorkTypes' /\ ring' \in Seq(Sends)
    <3>1. preparing' \subseteq Runs
      BY <2>1 DEF SessionTypes, WorkTypes
    <3> QED BY <2>1, <3>1, StartsTypes
  <2> QED BY <2>1, <2>4, <2>5 DEF SessionTypes, pageVars
<1>12. ASSUME NEW r \in Runs, Sound(r)
       PROVE  SessionTypes' /\ Protocol'
  <2>1. /\ Send(SoundOf(r)) \/ Hold(SoundOf(r))
        /\ ~waiting /\ UNCHANGED <<pageVars, inbox, mail, preparing, live, holding, answering, engine>>
    BY <1>12 DEF Sound
  <2>2. studio' = TRUE /\ places' = places \cup {r} /\ epoch' = epoch
    BY <1>12, Zenon DEF Sound, Sounding
  <2>3. /\ ring' \in Seq(Sends) /\ line' \in Seq(LineSends) /\ waiting' \in BOOLEAN
        /\ waiting' => line' # <<>>
    BY <2>1, SoundOfRun, Sending
  <2>4. studio' \in BOOLEAN
    BY <2>2, Zenon
  <2>5. Protocol'
    BY <2>1 DEF Protocol, pageVars
  <2>6. WorkTypes'
    <3>1. /\ preparing' \subseteq Runs /\ live' \subseteq Runs /\ places' \subseteq Runs
          /\ epoch' \in Nat /\ holding' \subseteq Runs /\ answering' \subseteq Runs
          /\ holding' = {}
      BY <2>1, <2>2 DEF SessionTypes, WorkTypes
    <3> QED BY <2>3, <2>4, <3>1, Zenon DEF WorkTypes
  <2> QED BY <2>1, <2>3, <2>5, <2>6 DEF SessionTypes, pageVars
<1>13. ASSUME NEW r \in Runs, Ends(r)
       PROVE  SessionTypes' /\ Protocol'
  <2>1. /\ live' = live \ {r} /\ mail' = mail \o <<<<"table", live'>>>>
        /\ UNCHANGED <<pageVars, inbox, preparing, studio, epoch, places, coreVars, ring, engine>>
    BY <1>13 DEF Ends, Post
  <2>2. live' \in SUBSET Runs
    BY <2>1 DEF SessionTypes, WorkTypes
  <2>3. <<"table", live'>> \in Mails /\ <<"table", live'>> # <<"reply">>
    BY <2>2, MailKinds
  <2>4. <<<<"table", live'>>>> \in Seq(Mails) /\ <<"reply">> \notin ToSet(<<<<"table", live'>>>>)
    BY <2>3, Singles
  <2>5. UNCHANGED <<chain, step, inbox>>
    BY <2>1 DEF pageVars
  <2>6. mail' \in Seq(Mails) /\ Protocol'
    BY <2>1, <2>4, <2>5, WorkKeeps
  <2> QED BY <2>1, <2>2, <2>6 DEF SessionTypes, WorkTypes, pageVars, coreVars
<1>14. CASE EngineStep
  <2>1. /\ engine' \in Engines /\ ring' \in Seq(Sends)
        /\ UNCHANGED <<run, chain, presses, gen, inbox, mail, workerVars>>
        /\ step' = step \/ (step = "settle" /\ step' = "purge")
    BY <1>14, EngineTypes
  <2>2. Protocol'
    BY <2>1 DEF Protocol
  <2>3. step' \in {"rest", "called", "settle", "purge", "silence"}
    BY <2>1 DEF SessionTypes
  <2> QED BY <2>1, <2>2, <2>3 DEF SessionTypes, WorkTypes, workerVars, runtimeVars, coreVars
<1>16. CASE Pump
  <2>1. /\ line # <<>> /\ ~waiting /\ ring' = Append(ring, Head(line)) /\ line' = Tail(line)
        /\ UNCHANGED <<pageVars, inbox, mail, runtimeVars, waiting, holding, answering, engine>>
    BY <1>16 DEF Pump
  <2>2. Head(line) \in Sends /\ line' \in Seq(LineSends)
    <3>1. line \in Seq(LineSends)
      BY DEF SessionTypes, WorkTypes
    <3>2. Head(line) \in LineSends /\ Tail(line) \in Seq(LineSends)
      BY <2>1, <3>1, Behind
    <3> QED BY <2>1, <3>2, SendKinds
  <2>3. ring' \in Seq(Sends)
    BY <1>0, <2>1, <2>2
  <2>4. Protocol'
    BY <2>1 DEF Protocol, pageVars
  <2> QED BY <2>1, <2>2, <2>3, <2>4 DEF SessionTypes, WorkTypes, pageVars, runtimeVars
<1>17. CASE Release
  <2>1. /\ waiting /\ ring' = ring \o line /\ line' = <<>> /\ waiting' = FALSE /\ holding' = {}
        /\ UNCHANGED <<pageVars, inbox, runtimeVars, answering, engine>>
    BY <1>17 DEF Release
  <2>2. PICK ms \in Seq(Mails) : mail' = mail \o ms /\ <<"reply">> \notin ToSet(ms)
    <3>1. CASE Post(<<>>)
      <4>1. <<>> \in Seq(Mails) /\ ToSet(<<>>) = {}
        BY DEF ToSet
      <4> QED BY <3>1, <4>1 DEF Post
    <3>2. ASSUME NEW r \in holding, Post(<<<<"table", live>>, <<"job", r>>>>)
          PROVE  \E ms \in Seq(Mails) : mail' = mail \o ms /\ <<"reply">> \notin ToSet(ms)
      <4>1. <<"table", live>> \in Mails /\ <<"job", r>> \in Mails
            /\ <<"reply">> \notin {<<"table", live>>, <<"job", r>>}
        BY MailKinds DEF Answers, SessionTypes, WorkTypes
      <4>2. <<<<"table", live>>, <<"job", r>>>> \in Seq(Mails)
            /\ ToSet(<<<<"table", live>>, <<"job", r>>>>) = {<<"table", live>>, <<"job", r>>}
        BY <4>1, Doubles
      <4> QED BY <3>2, <4>1, <4>2 DEF Post
    <3> QED BY <1>17, <3>1, <3>2 DEF Release
  <2>3. UNCHANGED <<chain, step, inbox>>
    BY <2>1 DEF pageVars
  <2>4. mail' \in Seq(Mails) /\ Protocol'
    BY <2>2, <2>3, WorkKeeps
  <2>5. ring' \in Seq(Sends)
    BY <2>1, Queued DEF Queue
  <2>6. waiting' \in BOOLEAN /\ ~waiting'
    BY <2>1, Zenon
  <2>7. WorkTypes'
    <3>1. /\ preparing' \subseteq Runs /\ live' \subseteq Runs /\ places' \subseteq Runs
          /\ studio' \in BOOLEAN /\ epoch' \in Nat /\ line' \in Seq(LineSends)
          /\ holding' \subseteq Runs /\ answering' \subseteq Runs /\ holding' = {}
      BY <2>1 DEF SessionTypes, WorkTypes, runtimeVars
    <3> QED BY <2>6, <3>1, Zenon DEF WorkTypes
  <2> QED BY <2>1, <2>4, <2>5, <2>7 DEF SessionTypes, pageVars
<1>18. ASSUME NEW r \in Runs, Answer(r)
       PROVE  SessionTypes' /\ Protocol'
  <2>1. /\ answering' = answering \ {r} /\ mail' = mail \o <<<<"job", r>>>>
        /\ UNCHANGED <<pageVars, inbox, runtimeVars, line, waiting, holding, ring, engine>>
    BY <1>18 DEF Answer, Post
  <2>2. <<"job", r>> \in Mails /\ <<"job", r>> # <<"reply">>
    BY MailKinds DEF Answers
  <2>3. <<<<"job", r>>>> \in Seq(Mails) /\ <<"reply">> \notin ToSet(<<<<"job", r>>>>)
    BY <2>2, Singles
  <2>4. UNCHANGED <<chain, step, inbox>>
    BY <2>1 DEF pageVars
  <2>5. mail' \in Seq(Mails) /\ Protocol'
    BY <2>1, <2>3, <2>4, WorkKeeps
  <2> QED BY <2>1, <2>5 DEF SessionTypes, WorkTypes, pageVars, runtimeVars
<1>15. CASE UNCHANGED sessionVars
  <2>1. UNCHANGED <<run, chain, step, presses, gen, inbox, mail, preparing, live, studio, epoch,
                    places, line, waiting, holding, answering, ring, engine>>
    BY <1>15 DEF sessionVars, pageVars, workerVars, runtimeVars, coreVars
  <2>2. Protocol'
    BY <2>1 DEF Protocol
  <2> QED BY <2>1, <2>2 DEF SessionTypes, WorkTypes
<1> QED BY <1>1, <1>2, <1>3, <1>4, <1>5, <1>6, <1>7, <1>8, <1>9, <1>10, <1>11, <1>12, <1>13, <1>14,
           <1>15, <1>16, <1>17, <1>18 DEF SessionStep
-----------------------------------------------------------------------------
(* The runtime hears of a loss before any run pressed since                 *)

(* The worker, the ring and the engine have nothing of r.                   *)
Absent(r) ==
  /\ r \notin live \cup preparing \cup holding \cup answering
  /\ <<"run", r>> \notin ToSet(inbox)
  /\ \A m \in ToSet(ring) \cup ToSet(line) : m[1] = "sound" => m[2] # r
  /\ \A s \in engine.due \cup engine.heard : s[1] # r

(* The Runs of the engine there is, or that is being made.                  *)
Fresh == {<<"run", r>> : r \in {x \in Runs : run[x].at >= engine.since}}

LostAhead == \/ <<"lost">> \in ToSet(inbox)
             \/ chain # <<>> /\ <<"lost">> \in ToSet(Tail(chain))

Losses ==
  /\ \A r \in Runs : run[r].told = "unpressed" => Absent(r) /\ <<"run", r>> \notin ToSet(chain)
  /\ engine.since <= presses /\ \A r \in Runs : run[r].at <= presses
  /\ LostAhead => \A r \in Runs : run[r].at >= engine.since => Absent(r)
  /\ NeverBefore(chain, Fresh, {<<"lost">>})

\* Of a run that is nowhere there is nothing until its message comes.
LEMMA AbsentStays ==
  ASSUME SessionTypes, SessionStep, NEW r \in Runs, Absent(r), <<"run", r>> \notin ToSet(inbox')
  PROVE  Absent(r)'
<1> DEFINE Busy == live \cup preparing \cup holding \cup answering
           Sent == ToSet(ring) \cup ToSet(line)
<1>0. /\ ring \in Seq(Sends) /\ line \in Seq(LineSends) /\ engine \in Engines /\ inbox \in Seq(Msgs)
      /\ r \notin Busy /\ <<"run", r>> \notin ToSet(inbox)
      /\ \A m \in Sent : m[1] = "sound" => m[2] # r
      /\ \A s \in engine.due \cup engine.heard : s[1] # r
      /\ epoch \in Nat
  BY DEF SessionTypes, WorkTypes, Absent
<1>1. ASSUME Busy' \subseteq Busy,
             \A m \in Sent' : m[1] = "sound" => m \in Sent,
             engine'.due \cup engine'.heard \subseteq engine.due \cup engine.heard
      PROVE  Absent(r)'
  <2>1. r \notin Busy'
    BY <1>0, <1>1
  <2>2. \A m \in Sent' : m[1] = "sound" => m[2] # r
    BY <1>0, <1>1
  <2>3. \A s \in engine'.due \cup engine'.heard : s[1] # r
    BY <1>0, <1>1
  <2> QED BY <2>1, <2>2, <2>3 DEF Absent
<1>2. ASSUME NEW x \in Runs, x # r, Busy' \subseteq Busy \cup {x}, UNCHANGED engine,
             \A m \in Sent' : m[1] = "sound" => m \in Sent \/ m[2] = x
      PROVE  Absent(r)'
  <2>1. r \notin Busy'
    BY <1>0, <1>2
  <2>2. \A m \in Sent' : m[1] = "sound" => m[2] # r
    BY <1>0, <1>2
  <2>3. \A s \in engine'.due \cup engine'.heard : s[1] # r
    BY <1>0, <1>2
  <2> QED BY <2>1, <2>2, <2>3 DEF Absent
<1>3. ASSUME UNCHANGED workerVars
      PROVE  Busy' = Busy /\ line' = line
  BY <1>3 DEF workerVars, runtimeVars, coreVars
<1>4. ASSUME NEW x \in Runs, x \in preparing \/ <<"run", x>> \in ToSet(inbox), Starts(x), ~waiting,
             preparing' \subseteq preparing, engine' = engine
      PROVE  Absent(r)'
  <2>1. x # r
    BY <1>0, <1>4
  <2>2. CASE StartsAtOnce(x)
    <3>1. UNCHANGED <<holding, answering, line, ring>> /\ live' \subseteq live \cup {x}
      BY <2>2 DEF StartsAtOnce, coreVars
    <3> QED BY <1>2, <1>4, <2>1, <3>1
  <2>3. CASE StartsHeld(x)
    <3>1. /\ live' = live \cup {x} /\ holding' = {x} /\ answering' = answering
          /\ Sent' = Sent \cup {SoundOf(x)} /\ SoundOf(x)[2] = x
      BY <1>4, <2>3, HeldStart, SoundOfRun
    <3> QED BY <1>2, <1>4, <2>1, <3>1
  <2> QED BY <1>4, <2>2, <2>3 DEF Starts
<1>5. ASSUME NEW x \in Runs, NEW posted \in Seq(StopCalls), PressRun(x, posted) \/ HearAnswer(x, posted)
      PROVE  Absent(r)'
  BY <1>1, <1>3, <1>5 DEF PressRun, HearAnswer
<1>6. CASE (\E posted \in Seq(StopCalls) : PostStops(posted)) \/ PressStop \/ TakeTable \/ SettleTimesOut
  BY <1>1, <1>3, <1>6 DEF PostStops, PressStop, TakeTable, SettleTimesOut
<1>7. CASE ReloadStarts
  <2>1. engine'.due = {} /\ engine'.heard = {} /\ UNCHANGED <<workerVars, ring>>
    BY <1>7 DEF ReloadStarts, NewEngine
  <2> QED BY <1>1, <1>3, <2>1
<1>8. CASE HearReply
  <2> DEFINE y == <<"sync", chain[1][2]>>
  <2>1. UNCHANGED <<workerVars, engine>> /\ (ring' = ring \/ ring' = Append(ring, y))
    BY <1>8 DEF HearReply
  <2>2. y[1] # "sound"
    OBVIOUS
  <2> HIDE DEF y
  <2>3. ring \in Seq(Sends \cup {y}) /\ y \in Sends \cup {y}
    BY <1>0, SeqMonotonic
  <2>4. Append(ring, y) = ring \o <<y>> /\ ToSet(ring \o <<y>>) = ToSet(ring) \cup {y}
    BY <2>3, Appended
  <2>5. ToSet(ring') \subseteq ToSet(ring) \cup {y} /\ ToSet(line') = ToSet(line)
    BY <1>3, <2>1, <2>4
  <2>6. \A m \in Sent' : m[1] = "sound" => m \in Sent
    BY <2>2, <2>5
  <2> QED BY <1>1, <1>3, <2>1, <2>6
<1>9. CASE Purge
  <2>1. UNCHANGED workerVars
        /\ \/ UNCHANGED <<ring, engine>>
           \/ ring' = <<>> /\ engine' = [engine EXCEPT !.due = {}, !.freeing = FALSE]
    BY <1>9 DEF Purge
  <2>2. CASE UNCHANGED <<ring, engine>>
    BY <1>1, <1>3, <2>1, <2>2
  <2>3. CASE ring' = <<>> /\ engine' = [engine EXCEPT !.due = {}, !.freeing = FALSE]
    <3>1. engine'.due = {} /\ engine'.heard = engine.heard /\ ToSet(ring') = {}
      BY <1>0, <2>3 DEF Engines, ToSet
    <3> QED BY <1>1, <1>3, <2>1, <3>1
  <2> QED BY <2>1, <2>2, <2>3
<1>10. CASE Handle
  <2> DEFINE m == Head(inbox)
  <2>1. /\ engine' = engine
        /\ \/ m[1] = "run" /\ HandleRun(m[2])
           \/ m[1] = "stop" /\ HandleStop
           \/ m[1] = "silence" /\ HandleSilence
           \/ m[1] = "lost" /\ HandleLost
           \/ m[1] = "stopRun" /\ HandleStopRun(m[2])
    BY <1>10 DEF Handle
  <2>2. m \in ToSet(inbox) /\ m \in Msgs
    BY <1>0, <1>10, Behind DEF Handle
  <2> HIDE DEF m
  <2>3. CASE m[1] = "run" /\ HandleRun(m[2])
    <3>1. m[2] \in Runs /\ m = <<"run", m[2]>>
      BY <2>2, <2>3, MsgKinds
    <3>2. m[2] # r
      BY <1>0, <2>2, <3>1
    <3>3. CASE m[2] \in Slow \/ waiting
      <4>1. preparing' = preparing \cup {m[2]} /\ UNCHANGED <<live, coreVars, ring>>
        BY <2>3, <3>3 DEF HandleRun
      <4>2. Busy' \subseteq Busy \cup {m[2]} /\ Sent' = Sent
        BY <4>1 DEF coreVars
      <4> QED BY <1>2, <2>1, <3>1, <3>2, <4>2
    <3>4. CASE ~(m[2] \in Slow \/ waiting)
      BY <1>4, <2>1, <2>2, <2>3, <3>1, <3>4 DEF HandleRun
    <3> QED BY <3>3, <3>4
  <2>4. CASE HandleStop
    <3>1. Busy' \subseteq Busy /\ line' = <<>> /\ ring' = ring
      BY <2>4 DEF HandleStop
    <3>2. ToSet(line') = {}
      BY <3>1 DEF ToSet
    <3> QED BY <1>1, <2>1, <3>1, <3>2
  <2>5. CASE HandleSilence
    <3> DEFINE f == <<"fade", epoch>>
    <3>1. f \in Sends /\ f \in LineSends /\ f[1] # "sound"
      BY <1>0, SendKinds
    <3>2. /\ UNCHANGED <<live, preparing, holding, answering>>
          /\ ring' = ring \/ ring' = Append(ring, f)
          /\ line' = line \/ line' = Append(line, f)
      BY <2>5 DEF HandleSilence
    <3> HIDE DEF f
    <3>3. /\ Append(ring, f) = ring \o <<f>> /\ ToSet(ring \o <<f>>) = ToSet(ring) \cup {f}
          /\ Append(line, f) = line \o <<f>> /\ ToSet(line \o <<f>>) = ToSet(line) \cup {f}
      BY <1>0, <3>1, Appended
    <3>4. Sent' \subseteq Sent \cup {f}
      BY <3>2, <3>3
    <3> QED BY <1>1, <2>1, <3>1, <3>2, <3>4
  <2>6. CASE HandleLost
    BY <1>1, <2>1, <2>6 DEF HandleLost
  <2>7. CASE HandleStopRun(m[2])
    BY <1>1, <2>1, <2>7 DEF HandleStopRun, coreVars
  <2> QED BY <2>1, <2>3, <2>4, <2>5, <2>6, <2>7
<1>11. ASSUME NEW x \in Runs, Fetched(x)
       PROVE  Absent(r)'
  BY <1>4, <1>11 DEF Fetched
<1>12. ASSUME NEW x \in Runs, Ends(x) \/ Answer(x)
       PROVE  Absent(r)'
  BY <1>1, <1>12 DEF Ends, Answer, coreVars, runtimeVars
<1>13. ASSUME NEW x \in Runs, Sound(x)
       PROVE  Absent(r)'
  <2>1. /\ Send(SoundOf(x)) \/ Hold(SoundOf(x))
        /\ ~waiting /\ x \in live /\ UNCHANGED <<live, preparing, holding, answering, engine>>
    BY <1>13 DEF Sound
  <2>2. Sent' = Sent \cup {SoundOf(x)} /\ SoundOf(x)[2] = x
    BY <2>1, Sending, SoundOfRun
  <2>3. x # r
    BY <1>0, <2>1
  <2> QED BY <1>2, <2>1, <2>2, <2>3
<1>14. CASE Pump
  <2>1. /\ line # <<>> /\ ring' = Append(ring, Head(line)) /\ line' = Tail(line)
        /\ UNCHANGED <<live, preparing, holding, answering, engine>>
    BY <1>14 DEF Pump, runtimeVars
  <2>2. Head(line) \in LineSends /\ ToSet(line) = {Head(line)} \cup ToSet(Tail(line))
    BY <1>0, <2>1, Behind
  <2>3. /\ Append(ring, Head(line)) = ring \o <<Head(line)>>
        /\ ToSet(ring \o <<Head(line)>>) = ToSet(ring) \cup {Head(line)}
    <3>1. Head(line) \in Sends
      BY <2>2, SendKinds
    <3> QED BY <1>0, <3>1, Appended
  <2>4. Sent' \subseteq Sent
    BY <2>1, <2>2, <2>3
  <2> QED BY <1>1, <2>1, <2>4
<1>15. CASE Release
  <2>1. /\ ring' = Queue /\ line' = <<>> /\ holding' = {}
        /\ UNCHANGED <<live, preparing, answering, engine>>
    BY <1>15 DEF Release, runtimeVars, Queue
  <2>2. Sent' = Sent
    <3>1. ToSet(Queue) = Sent
      BY Queued
    <3>2. ToSet(line') = {}
      BY <2>1 DEF ToSet
    <3> QED BY <2>1, <3>1, <3>2
  <2> QED BY <1>1, <2>1, <2>2
<1>16. CASE EngineStep
  <2>1. Busy' = Busy /\ line' = line
    BY <1>3, <1>16, EngineTypes
  <2>2. CASE Take
    <3> DEFINE m == Head(ring)
    <3>1. /\ ring # <<>> /\ ring' = Tail(ring)
          /\ \/ engine' = engine \/ engine' = TakeFade(m[2])
             \/ m[1] = "sound" /\ engine' = TakeSound(m[2], m[3], m[4])
      BY <2>2 DEF Take
    <3>2. m \in ToSet(ring) /\ m \in Sends /\ ToSet(ring') \subseteq ToSet(ring)
      BY <1>0, <3>1, Behind
    <3> HIDE DEF m
    <3>3. CASE engine' = engine \/ engine' = TakeFade(m[2])
      <4>1. engine'.due = engine.due /\ engine'.heard = engine.heard
        BY <1>0, <3>3 DEF TakeFade, Engines
      <4> QED BY <1>1, <2>1, <3>2, <4>1
    <3>4. CASE m[1] = "sound" /\ engine' = TakeSound(m[2], m[3], m[4])
      <4>1. m[2] \in Runs /\ m[3] \in Nat /\ m[2] # r
        BY <1>0, <3>2, <3>4, SendKinds
      <4>2. engine'.heard = engine.heard /\ engine'.due \subseteq engine.due \cup {<<m[2], m[3]>>}
        BY <1>0, <3>4, <4>1, SoundTaken
      <4>3. \A s \in engine'.due \cup engine'.heard : s[1] # r
        BY <1>0, <4>1, <4>2
      <4>4. r \notin Busy' /\ \A x \in Sent' : x[1] = "sound" => x[2] # r
        BY <1>0, <2>1, <3>2
      <4> QED BY <4>3, <4>4 DEF Absent
    <3> QED BY <3>1, <3>3, <3>4
  <2>3. CASE FadeEnds
    BY <1>0, <1>1, <2>1, <2>3 DEF FadeEnds, Engines
  <2>4. CASE ReloadEnds
    BY <1>0, <1>1, <2>1, <2>4 DEF ReloadEnds, Engines
  <2>5. ASSUME NEW s \in engine.due, Heard(s)
        PROVE  Absent(r)'
    BY <1>0, <1>1, <2>1, <2>5 DEF Heard, Engines
  <2>6. ASSUME NEW s \in engine.heard, Quiet(s)
        PROVE  Absent(r)'
    BY <1>0, <1>1, <2>1, <2>6 DEF Quiet, Engines
  <2> QED BY <1>16, <2>2, <2>3, <2>4, <2>5, <2>6 DEF EngineStep
<1>17. CASE UNCHANGED sessionVars
  BY <1>1, <1>3, <1>17 DEF sessionVars
<1> QED BY <1>5, <1>6, <1>7, <1>8, <1>9, <1>10, <1>11, <1>12, <1>13, <1>14, <1>15, <1>16, <1>17
        DEF SessionStep

\* What follows the chain is at its end, and with the worker only if it was empty.
LEMMA Followed ==
  ASSUME SessionTypes, Protocol, NEW items \in Seq(Items), NEW posted \in Seq(StopCalls),
         Follow(items, posted)
  PROVE  /\ ToSet(chain') \subseteq ToSet(chain) \cup ToSet(items)
         /\ ToSet(inbox') \cap RunCalls \subseteq
              ToSet(inbox) \cup (IF chain = <<>> THEN ToSet(items) ELSE {})
         /\ LostAhead' => LostAhead \/ <<"lost">> \in ToSet(items)
         /\ \A M : NeverBefore(chain, M, {<<"lost">>}) /\ <<"lost">> \notin ToSet(items)
                     => NeverBefore(chain', M, {<<"lost">>})
<1>0. inbox \in Seq(Msgs) /\ chain \in Seq(Items) /\ <<"lost">> \in Calls
  BY DEF SessionTypes, Calls
<1>1. CASE chain = <<>>
  <2>1. PICK lead \in Seq(RunCalls), call \in Seq(Calls) :
           /\ items = lead \o chain' /\ chain' \in Seq(Items)
           /\ inbox' = ((inbox \o posted) \o lead) \o call
           /\ chain' = <<>> => call = <<>> /\ step' = "rest"
           /\ chain' # <<>> => /\ Head(chain') \in Items /\ ~IsRun(Head(chain'))
                               /\ call = <<Call(Head(chain'))>>
                               /\ step' = "called"
    <3>1. Comes(items, posted)
      BY <1>1 DEF Follow
    <3> QED BY <1>0, <3>1, Coming
  <2>2. /\ ToSet(items) = ToSet(lead) \cup ToSet(chain')
        /\ ToSet(inbox') = ToSet(inbox) \cup ToSet(posted) \cup ToSet(lead) \cup ToSet(call)
        /\ ToSet(lead) \subseteq RunCalls /\ ToSet(posted) \subseteq StopCalls
        /\ ToSet(call) \subseteq Calls
    BY <1>0, <2>1, Arriving
  <2>3. ToSet(inbox') \cap RunCalls \subseteq ToSet(inbox) \cup ToSet(items)
    BY <2>2, Kinds
  <2>4. <<"lost">> \in ToSet(call) => <<"lost">> \in ToSet(chain')
    <3> SUFFICES ASSUME <<"lost">> \in ToSet(call)
                 PROVE  <<"lost">> \in ToSet(chain')
      OBVIOUS
    <3>1. chain' # <<>>
      BY <2>1 DEF ToSet
    <3>2. Call(Head(chain')) \in Calls /\ call = <<Call(Head(chain'))>>
      BY <2>1, <3>1, Kinds DEF Calls
    <3>3. <<"lost">> = Call(Head(chain'))
      BY <3>2, Singles
    <3>4. Head(chain')[1] = "lost"
      BY <3>3 DEF Call
    <3>5. Head(chain') = <<"lost">>
      BY <2>1, <3>1, <3>4, Kinds
    <3>6. Head(chain') \in ToSet(chain')
      BY <2>1, <3>1, Behind
    <3> QED BY <3>5, <3>6
  <2>5. LostAhead' => <<"lost">> \in ToSet(items)
    <3>1. ToSet(inbox) \cap Calls = {}
      BY <1>1 DEF Protocol
    <3>2. <<"lost">> \in ToSet(inbox') => <<"lost">> \in ToSet(items)
      BY <1>0, <2>2, <2>4, <3>1, Kinds
    <3>3. chain' # <<>> => ToSet(Tail(chain')) \subseteq ToSet(chain')
      BY <2>1, Behind
    <3> QED BY <2>2, <3>2, <3>3 DEF LostAhead
  <2>6. \A M : <<"lost">> \notin ToSet(items) => NeverBefore(chain', M, {<<"lost">>})
    BY <2>2 DEF NeverBefore, ToSet
  <2> QED BY <1>1, <2>2, <2>3, <2>5, <2>6
<1>2. CASE chain # <<>>
  <2>1. chain' = chain \o items /\ inbox' = inbox \o posted
    BY <1>2 DEF Follow
  <2>2. posted \in Seq(Msgs) /\ ToSet(posted) \subseteq StopCalls
    BY SeqMonotonic, Kinds, Places
  <2>3. ToSet(inbox \o posted) = ToSet(inbox) \cup ToSet(posted)
    BY <1>0, <2>2, Concat
  <2>4. /\ chain' \in Seq(Items) /\ ToSet(chain') = ToSet(chain) \cup ToSet(items)
        /\ \A M : NeverBefore(chain, M, {<<"lost">>}) /\ NeverBefore(items, M, {<<"lost">>})
                    /\ ToSet(items) \cap {<<"lost">>} = {}
                      => NeverBefore(chain', M, {<<"lost">>})
    BY <1>0, <2>1, Concat
  <2>5. \A M : <<"lost">> \notin ToSet(items) => NeverBefore(items, M, {<<"lost">>})
    BY DEF NeverBefore, ToSet
  <2>6. <<"lost">> \notin StopCalls
    BY <1>0, Kinds
  <2>7. ToSet(Tail(chain')) = ToSet(Tail(chain)) \cup ToSet(items)
    <3> DEFINE t == Tail(chain)
               h == Head(chain)
    <3>1. h \in Items /\ t \in Seq(Items) /\ chain = <<h>> \o t
      <4>1. h \in Items /\ t \in Seq(Items)
        BY <1>0, <1>2, Behind
      <4>2. chain = <<h>> \o t
        BY <1>0, <1>2
      <4> QED BY <4>1, <4>2
    <3> HIDE DEF h, t
    <3>2. t \o items \in Seq(Items) /\ ToSet(t \o items) = ToSet(t) \cup ToSet(items)
      BY <3>1, Concat
    <3>3. Tail((<<h>> \o t) \o items) = t \o items
      BY <3>1, <3>2
    <3> QED BY <2>1, <3>1, <3>2, <3>3 DEF t
  <2>8. LostAhead' => LostAhead \/ <<"lost">> \in ToSet(items)
    BY <1>2, <2>1, <2>2, <2>3, <2>6, <2>7 DEF LostAhead
  <2>9. ToSet(inbox') \cap RunCalls \subseteq ToSet(inbox)
    BY <2>1, <2>2, <2>3, Kinds
  <2> QED BY <1>2, <2>4, <2>5, <2>8, <2>9
<1> QED BY <1>1, <1>2

(* How a step moves the chain, but for what is pressed and an engine made   *)
(* again.                                                                   *)
SameRuns ==
  /\ presses' = presses /\ engine'.since = engine.since
  /\ \A r \in Runs : /\ run'[r].at = run[r].at
                     /\ run'[r].told = "unpressed" => run[r].told = "unpressed"

Onward == chain # <<>> /\ ToSet(inbox) \cap Calls = {} /\ Comes(Tail(chain), <<>>)

Still == chain' = chain /\ ToSet(inbox') \cap (RunCalls \cup {<<"lost">>}) \subseteq ToSet(inbox)

LEMMA Moves ==
  ASSUME SessionTypes, Protocol, SessionStep
  PROVE  \/ \E r \in Runs, posted \in Seq(StopCalls) : PressRun(r, posted)
         \/ PressStop \/ ReloadStarts
         \/ SameRuns /\ (Onward \/ Still)
<1>0. /\ inbox \in Seq(Msgs) /\ mail \in Seq(Mails) /\ chain \in Seq(Items) /\ engine \in Engines
      /\ RunCalls \cup {<<"lost">>} \subseteq Msgs /\ <<"lost">> \in Calls
  BY DEF SessionTypes, Msgs, Calls
<1>1. ASSUME UNCHANGED <<run, presses>>, engine'.since = engine.since
      PROVE  SameRuns
  BY <1>1 DEF SameRuns
<1>2. ASSUME UNCHANGED <<chain, inbox>>
      PROVE  Still
  BY <1>2 DEF Still
<1>3. ASSUME NEW posted \in Seq(StopCalls), chain' = chain, inbox' = inbox \o posted
      PROVE  Still
  <2>1. posted \in Seq(Msgs) /\ ToSet(posted) \subseteq StopCalls
    BY SeqMonotonic, Kinds, Places
  <2>2. ToSet(inbox \o posted) = ToSet(inbox) \cup ToSet(posted)
    BY <1>0, <2>1, Concat
  <2> QED BY <1>0, <1>3, <2>1, <2>2, Kinds DEF Still
<1>4. ASSUME NEW r \in Runs, NEW posted \in Seq(StopCalls), HearAnswer(r, posted)
      PROVE  SameRuns /\ Still
  <2>1. /\ chain' = chain /\ inbox' = inbox \o posted /\ UNCHANGED <<presses, engine>>
        /\ Head(mail)[1] \in {"job", "refused"} /\ run' = [run EXCEPT ![r].told = Head(mail)[1]]
        /\ mail # <<>> /\ Head(mail) \in {<<"job", r>>, <<"refused", r>>}
    BY <1>4 DEF HearAnswer
  <2>2. \A x \in Runs \ {r} : run'[x] = run[x]
    BY <2>1 DEF SessionTypes
  <2>3. run'[r].told # "unpressed" /\ run'[r].at = run[r].at
    BY <2>1 DEF SessionTypes
  <2>4. SameRuns
    BY <2>1, <2>2, <2>3 DEF SameRuns
  <2> QED BY <1>3, <2>1, <2>4
<1>5. ASSUME NEW posted \in Seq(StopCalls), PostStops(posted)
      PROVE  SameRuns /\ Still
  BY <1>1, <1>3, <1>5 DEF PostStops, pageVars
<1>6. CASE TakeTable \/ SettleTimesOut \/ UNCHANGED sessionVars
  BY <1>1, <1>2, <1>6 DEF TakeTable, SettleTimesOut, sessionVars, pageVars
<1>7. CASE HearReply
  <2>1. UNCHANGED <<run, presses, engine>>
    BY <1>7 DEF HearReply
  <2>2. UNCHANGED <<chain, inbox>> \/ Comes(Tail(chain), <<>>)
    BY <1>7 DEF HearReply
  <2>3. ToSet(inbox) \cap Calls = {} /\ chain # <<>>
    <3>1. mail # <<>> /\ Head(mail) = <<"reply">>
      BY <1>7 DEF HearReply
    <3>2. Head(mail) \in ToSet(mail)
      BY <1>0, <3>1, Behind
    <3> QED BY <3>1, <3>2 DEF Protocol
  <2> QED BY <1>1, <1>2, <2>1, <2>2, <2>3 DEF Onward
<1>8. CASE Purge
  <2>1. SameRuns
    <3>1. UNCHANGED <<run, presses>>
          /\ (engine' = engine \/ engine' = [engine EXCEPT !.due = {}, !.freeing = FALSE])
      BY <1>8 DEF Purge
    <3>2. engine'.since = engine.since
      BY <1>0, <3>1 DEF Engines
    <3> QED BY <1>1, <3>1, <3>2
  <2>2. step = "purge" /\ ToSet(inbox) \cap Calls = {} /\ chain # <<>>
    BY <1>8 DEF Purge, Protocol
  <2>3. CASE inbox' = Append(inbox, <<"silence">>) /\ UNCHANGED chain
    <3>1. <<"silence">> \in Msgs
      BY DEF Msgs, Calls
    <3>2. <<"silence">> \notin RunCalls \cup {<<"lost">>}
      BY DEF RunCalls
    <3>3. PICK m \in Msgs : m = <<"silence">> /\ inbox' = Append(inbox, m)
      BY <2>3, <3>1
    <3>4. inbox \in Seq(Msgs)
      BY <1>0
    <3>5. inbox' \in Seq(Msgs) /\ inbox' = inbox \o <<m>> /\ ToSet(inbox') = ToSet(inbox) \cup {m}
      BY <3>3, <3>4, AtTheEnd
    <3> QED BY <2>1, <2>3, <3>2, <3>3, <3>5 DEF Still
  <2> QED BY <1>8, <2>1, <2>2, <2>3 DEF Purge, Onward
<1>9. CASE Handle
  <2>1. inbox # <<>> /\ inbox' = Tail(inbox) /\ UNCHANGED <<pageVars, engine>>
    BY <1>9 DEF Handle
  <2>2. ToSet(inbox') \subseteq ToSet(inbox)
    BY <1>0, <2>1, Behind
  <2> QED BY <1>1, <2>1, <2>2 DEF pageVars, Still
<1>10. ASSUME NEW r \in Runs, Fetched(r) \/ Sound(r) \/ Ends(r) \/ Answer(r)
       PROVE  SameRuns /\ Still
  BY <1>1, <1>2, <1>10 DEF Fetched, Sound, Ends, Answer, pageVars
<1>12. CASE Pump \/ Release
  BY <1>1, <1>2, <1>12 DEF Pump, Release, pageVars
<1>11. CASE EngineStep
  <2>1. UNCHANGED <<run, chain, presses, inbox>>
    BY <1>11, EngineTypes
  <2>2. engine'.since = engine.since
    <3>1. CASE Take
      <4> DEFINE m == Head(ring)
      <4>1. /\ m \in Sends
            /\ \/ engine' = engine
               \/ engine' = TakeFade(m[2])
               \/ m[1] = "sound" /\ engine' = TakeSound(m[2], m[3], m[4])
        BY <3>1, Behind DEF Take, SessionTypes
      <4> HIDE DEF m
      <4>2. m[1] = "sound" => m[2] \in Runs /\ m[3] \in Nat
        BY <4>1, SendKinds
      <4>3. CASE engine' = engine \/ engine' = TakeFade(m[2])
        BY <1>0, <4>3 DEF TakeFade, Engines
      <4>4. CASE m[1] = "sound" /\ engine' = TakeSound(m[2], m[3], m[4])
        BY <1>0, <4>2, <4>4, SoundTaken
      <4> QED BY <4>1, <4>3, <4>4
    <3> QED BY <1>0, <1>11, <3>1 DEF EngineStep, FadeEnds, ReloadEnds, Heard, Quiet, Engines
  <2> QED BY <1>1, <1>2, <2>1, <2>2
<1> QED BY <1>4, <1>5, <1>6, <1>7, <1>8, <1>9, <1>10, <1>11, <1>12 DEF SessionStep

\* With what comes to the worker as the chain goes on.
LEMMA GoingOn ==
  ASSUME SessionTypes, Onward
  PROVE  /\ ToSet(chain') \subseteq ToSet(Tail(chain))
         /\ ToSet(inbox') \cap RunCalls \subseteq ToSet(inbox) \cup ToSet(Tail(chain))
         /\ LostAhead' => <<"lost">> \in ToSet(chain')
         /\ \A M : NeverBefore(chain, M, {<<"lost">>}) => NeverBefore(chain', M, {<<"lost">>})
         /\ \A M : NeverBefore(chain, M, {<<"lost">>}) /\ M \subseteq RunCalls /\ LostAhead'
                     => ToSet(inbox') \cap M \subseteq ToSet(inbox)
<1> DEFINE c == Tail(chain)
<1>0. /\ inbox \in Seq(Msgs) /\ c \in Seq(Items) /\ <<>> \in Seq(StopCalls) /\ <<"lost">> \in Calls
      /\ \A M, N : NeverBefore(chain, M, N) => NeverBefore(c, M, N)
      /\ Comes(c, <<>>) /\ ToSet(inbox) \cap Calls = {}
  <2>1. chain # <<>> /\ chain \in Seq(Items) /\ inbox \in Seq(Msgs)
    BY DEF SessionTypes, Onward
  <2>2. c \in Seq(Items) /\ \A M, N : NeverBefore(chain, M, N) => NeverBefore(c, M, N)
    BY <2>1, Behind
  <2> QED BY <2>1, <2>2 DEF Calls, Onward
<1> HIDE DEF c
<1>9. PICK posted \in Seq(StopCalls) : posted = <<>> /\ Comes(c, posted)
  BY <1>0
<1>1. PICK lead \in Seq(RunCalls), call \in Seq(Calls) :
         /\ c = lead \o chain' /\ chain' \in Seq(Items)
         /\ inbox' = ((inbox \o posted) \o lead) \o call
         /\ chain' = <<>> => call = <<>> /\ step' = "rest"
         /\ chain' # <<>> => /\ Head(chain') \in Items /\ ~IsRun(Head(chain'))
                             /\ call = <<Call(Head(chain'))>>
                             /\ step' = "called"
  BY <1>0, <1>9, Coming
<1>2. /\ ToSet(c) = ToSet(lead) \cup ToSet(chain')
      /\ ToSet(inbox') = ToSet(inbox) \cup ToSet(posted) \cup ToSet(lead) \cup ToSet(call)
      /\ ToSet(lead) \subseteq RunCalls /\ ToSet(call) \subseteq Calls
      /\ \A M, N : NeverBefore(c, M, N) =>
           /\ NeverBefore(chain', M, N)
           /\ ToSet(lead) \cap M = {} \/ ToSet(chain') \cap N = {}
  <2>1. inbox \in Seq(Msgs) /\ chain' \in Seq(Items)
    BY <1>0, <1>1
  <2>2. /\ ToSet(lead \o chain') = ToSet(lead) \cup ToSet(chain')
        /\ ToSet(lead) \subseteq RunCalls /\ ToSet(call) \subseteq Calls
        /\ \A M, N : NeverBefore(lead \o chain', M, N) =>
             /\ NeverBefore(chain', M, N)
             /\ ToSet(lead) \cap M = {} \/ ToSet(chain') \cap N = {}
    BY <2>1, Arriving, ZenonT(40)
  <2>3. ToSet(((inbox \o posted) \o lead) \o call)
           = ToSet(inbox) \cup ToSet(posted) \cup ToSet(lead) \cup ToSet(call)
    BY <2>1, Arriving
  <2> QED BY <1>1, <2>2, <2>3, Zenon
<1>3. ToSet(posted) = {}
  BY <1>9 DEF ToSet
<1>4. <<"lost">> \in ToSet(call) => <<"lost">> \in ToSet(chain')
  <2> SUFFICES ASSUME <<"lost">> \in ToSet(call)
               PROVE  <<"lost">> \in ToSet(chain')
    OBVIOUS
  <2>1. chain' # <<>>
    BY <1>1 DEF ToSet
  <2>2. Call(Head(chain')) \in Calls /\ call = <<Call(Head(chain'))>>
    BY <1>1, <2>1, Kinds DEF Calls
  <2>3. <<"lost">> = Call(Head(chain'))
    BY <2>2, Singles
  <2>4. Head(chain')[1] = "lost"
    BY <2>3 DEF Call
  <2>5. Head(chain') = <<"lost">>
    BY <1>1, <2>1, <2>4, Kinds
  <2>6. Head(chain') \in ToSet(chain')
    BY <1>1, <2>1, Behind
  <2> QED BY <2>5, <2>6
<1>5. LostAhead' => <<"lost">> \in ToSet(chain')
  <2>1. <<"lost">> \in ToSet(inbox') => <<"lost">> \in ToSet(call)
    BY <1>0, <1>2, <1>3, Kinds
  <2>2. chain' # <<>> => ToSet(Tail(chain')) \subseteq ToSet(chain')
    BY <1>1, Behind
  <2> QED BY <1>4, <2>1, <2>2 DEF LostAhead
<1>6. ToSet(inbox') \cap RunCalls \subseteq ToSet(inbox) \cup ToSet(lead)
  BY <1>2, <1>3, Kinds
<1>7. ASSUME NEW M, NeverBefore(chain, M, {<<"lost">>}), M \subseteq RunCalls, LostAhead'
      PROVE  ToSet(inbox') \cap M \subseteq ToSet(inbox)
  <2>1. ToSet(lead) \cap M = {}
    <3>1. NeverBefore(c, M, {<<"lost">>})
      BY <1>0, <1>7
    <3>2. ToSet(lead) \cap M = {} \/ ToSet(chain') \cap {<<"lost">>} = {}
      BY <1>2, <3>1
    <3> QED BY <1>5, <1>7, <3>2
  <2> QED BY <1>6, <1>7, <2>1
<1>8. \A M : NeverBefore(chain, M, {<<"lost">>}) => NeverBefore(chain', M, {<<"lost">>})
  BY <1>0, <1>2
<1> QED BY <1>2, <1>5, <1>6, <1>7, <1>8 DEF c

\* The runs of the engine that is made are those pressed since it was lost.
LEMMA FreshRuns ==
  /\ Fresh \subseteq RunCalls
  /\ \A r \in Runs : <<"run", r>> \in Fresh <=> run[r].at >= engine.since
  /\ \A r \in Runs : <<"run", r>> \in RunCalls /\ <<"run", r>> # <<"lost">>
BY DEF Fresh, RunCalls

LEMMA LossesInductive ==
  ASSUME SessionTypes, SessionTypes', Protocol, Losses, SessionStep
  PROVE  Losses'
<1>0. /\ engine.since \in Nat /\ presses \in Nat /\ \A r \in Runs : run[r].at \in Nat
      /\ chain \in Seq(Items) /\ inbox \in Seq(Msgs) /\ <<>> \in Seq(StopCalls)
  BY DEF SessionTypes, Engines
<1>1. /\ \A r \in Runs : run[r].told = "unpressed" => Absent(r) /\ <<"run", r>> \notin ToSet(chain)
      /\ engine.since <= presses /\ \A r \in Runs : run[r].at <= presses
      /\ LostAhead => \A r \in Runs : run[r].at >= engine.since => Absent(r)
      /\ NeverBefore(chain, Fresh, {<<"lost">>})
  BY DEF Losses
<1>2. \A r \in Runs : Absent(r) => <<"run", r>> \notin ToSet(inbox)
  BY DEF Absent
<1>3. \A r \in Runs : Absent(r) /\ <<"run", r>> \notin ToSet(inbox') => Absent(r)'
  BY AbsentStays
<1>4. ASSUME NEW r \in Runs, NEW posted \in Seq(StopCalls), PressRun(r, posted)
      PROVE  Losses'
  <2>1. /\ run[r].told = "unpressed" /\ run'[r].told # "unpressed" /\ run'[r].at = presses
        /\ \A x \in Runs : x # r => run'[x] = run[x]
        /\ UNCHANGED <<presses, engine>> /\ Follow(<<<<"run", r>>>>, posted)
    BY <1>4 DEF PressRun, SessionTypes
  <2>2. <<<<"run", r>>>> \in Seq(Items) /\ ToSet(<<<<"run", r>>>>) = {<<"run", r>>}
    <3>1. <<"run", r>> \in Items
      BY FreshRuns, Kinds
    <3> QED BY <3>1, Singles
  <2>3. /\ ToSet(chain') \subseteq ToSet(chain) \cup {<<"run", r>>}
        /\ ToSet(inbox') \cap RunCalls \subseteq
             ToSet(inbox) \cup (IF chain = <<>> THEN {<<"run", r>>} ELSE {})
        /\ LostAhead' => LostAhead
        /\ \A M : NeverBefore(chain, M, {<<"lost">>}) => NeverBefore(chain', M, {<<"lost">>})
    BY <2>1, <2>2, FreshRuns, Followed
  <2>4. chain = <<>> => ~LostAhead
    BY DEF LostAhead, Protocol, Calls
  <2>5. \A x \in Runs : x # r => <<"run", x>> # <<"run", r>>
    OBVIOUS
  <2>6. \A x \in Runs : Absent(x) /\ (x # r \/ chain # <<>>) => Absent(x)'
    BY <1>2, <1>3, <2>3, <2>5, FreshRuns
  <2>7. \A x \in Runs : run'[x].told = "unpressed" => Absent(x)' /\ <<"run", x>> \notin ToSet(chain')
    BY <1>1, <2>1, <2>3, <2>5, <2>6
  <2>8. LostAhead' => \A x \in Runs : run'[x].at >= engine'.since => Absent(x)'
    BY <1>1, <2>1, <2>3, <2>4, <2>6
  <2>9. NeverBefore(chain', Fresh', {<<"lost">>})
    <3>1. \A i \in DOMAIN chain : chain[i] \in ToSet(chain)
      BY DEF ToSet
    <3>2. \A y \in Fresh' : y \in Fresh \/ y = <<"run", r>>
      BY <2>1 DEF Fresh
    <3>3. NeverBefore(chain, Fresh', {<<"lost">>})
      BY <1>1, <2>1, <3>1, <3>2 DEF NeverBefore
    <3> QED BY <2>3, <3>3
  <2>10. engine'.since <= presses' /\ \A x \in Runs : run'[x].at <= presses'
    BY <1>0, <1>1, <2>1
  <2> QED BY <2>7, <2>8, <2>9, <2>10 DEF Losses
<1>5. CASE PressStop
  <2>1. /\ presses' = presses + 1 /\ UNCHANGED <<run, engine>>
        /\ Follow(<<<<"stop", presses + 1, gen>>>>, <<>>)
    BY <1>5 DEF PressStop
  <2>2. PICK i \in Items : i = <<"stop", presses + 1, gen>>
    <3>1. <<"stop", presses + 1, gen>> \in Items
      BY DEF Items, SessionTypes
    <3> QED BY <3>1
  <2>3. <<i>> \in Seq(Items) /\ ToSet(<<i>>) = {i} /\ i # <<"lost">> /\ i \notin RunCalls
    <3>1. i # <<"lost">> /\ i \notin RunCalls
      BY <2>2 DEF RunCalls
    <3> QED BY <3>1, Singles
  <2>4. /\ ToSet(chain') \subseteq ToSet(chain) \cup {i}
        /\ ToSet(inbox') \cap RunCalls \subseteq ToSet(inbox) \cup {i}
        /\ LostAhead' => LostAhead
        /\ \A M : NeverBefore(chain, M, {<<"lost">>}) => NeverBefore(chain', M, {<<"lost">>})
    BY <1>0, <2>1, <2>2, <2>3, Followed
  <2>5. \A x \in Runs : Absent(x) => Absent(x)'
    BY <1>2, <1>3, <2>3, <2>4, FreshRuns
  <2>6. \A x \in Runs : run'[x].told = "unpressed" => Absent(x)' /\ <<"run", x>> \notin ToSet(chain')
    BY <1>1, <2>1, <2>3, <2>4, <2>5, FreshRuns
  <2>7. NeverBefore(chain', Fresh', {<<"lost">>})
    <3>1. Fresh' = Fresh
      BY <2>1 DEF Fresh
    <3> QED BY <1>1, <2>4, <3>1
  <2>8. engine'.since <= presses' /\ \A x \in Runs : run'[x].at <= presses'
    BY <1>0, <1>1, <2>1
  <2> QED BY <1>1, <2>1, <2>4, <2>5, <2>6, <2>7, <2>8 DEF Losses
<1>6. CASE ReloadStarts
  <2>1. /\ presses' = presses + 1 /\ run' = run /\ engine'.since = presses + 1
        /\ Follow(<<<<"stop", presses + 1, gen>>, <<"lost">>>>, <<>>)
    BY <1>6 DEF ReloadStarts, NewEngine
  <2>2. PICK i \in Items : i = <<"stop", presses + 1, gen>>
    <3>1. <<"stop", presses + 1, gen>> \in Items
      BY DEF Items, SessionTypes
    <3> QED BY <3>1
  <2>3. <<i, <<"lost">>>> \in Seq(Items) /\ ToSet(<<i, <<"lost">>>>) = {i, <<"lost">>}
        /\ <<"lost">> \notin RunCalls /\ i \notin RunCalls
    <3>1. i \notin RunCalls /\ <<"lost">> \notin RunCalls
      BY <2>2 DEF RunCalls
    <3>2. <<"lost">> \in Items
      BY DEF Items
    <3> QED BY <3>1, <3>2, Doubles
  <2>4. /\ ToSet(chain') \subseteq ToSet(chain) \cup {i, <<"lost">>}
        /\ ToSet(inbox') \cap RunCalls \subseteq ToSet(inbox) \cup {i, <<"lost">>}
    BY <1>0, <2>1, <2>2, <2>3, Followed
  <2>5. \A x \in Runs : Absent(x) => Absent(x)'
    <3>1. \A x \in Runs : <<"run", x>> \in RunCalls /\ <<"run", x>> \notin {i, <<"lost">>}
      BY <2>3, FreshRuns
    <3> QED BY <1>2, <1>3, <2>4, <3>1
  <2>6. \A x \in Runs : run'[x].told = "unpressed" => Absent(x)' /\ <<"run", x>> \notin ToSet(chain')
    BY <1>1, <2>1, <2>3, <2>4, <2>5, FreshRuns
  <2>7. \A x \in Runs : ~(run'[x].at >= engine'.since)
    BY <1>0, <1>1, <2>1
  <2>8. NeverBefore(chain', Fresh', {<<"lost">>})
    <3>1. Fresh' = {}
      BY <2>7 DEF Fresh
    <3> QED BY <3>1 DEF NeverBefore
  <2>9. engine'.since <= presses' /\ \A x \in Runs : run'[x].at <= presses'
    BY <1>0, <1>1, <2>1
  <2> QED BY <2>6, <2>7, <2>8, <2>9 DEF Losses
<1>7. CASE SameRuns /\ (Onward \/ Still)
  <2>1. /\ presses' = presses /\ engine'.since = engine.since
        /\ \A x \in Runs : /\ run'[x].at = run[x].at
                           /\ run'[x].told = "unpressed" => run[x].told = "unpressed"
    BY <1>7 DEF SameRuns
  <2>2. Fresh' = Fresh
    BY <2>1 DEF Fresh
  <2>3. engine'.since <= presses' /\ \A x \in Runs : run'[x].at <= presses'
    BY <1>1, <2>1
  <2>4. CASE Onward
    <3>1. ToSet(Tail(chain)) \subseteq ToSet(chain) /\ chain # <<>>
      BY <1>0, <2>4, Behind DEF Onward
    <3>2. /\ ToSet(chain') \subseteq ToSet(Tail(chain))
          /\ ToSet(inbox') \cap RunCalls \subseteq ToSet(inbox) \cup ToSet(Tail(chain))
          /\ LostAhead' => <<"lost">> \in ToSet(chain')
          /\ \A M : NeverBefore(chain, M, {<<"lost">>}) => NeverBefore(chain', M, {<<"lost">>})
          /\ \A M : NeverBefore(chain, M, {<<"lost">>}) /\ M \subseteq RunCalls /\ LostAhead'
                      => ToSet(inbox') \cap M \subseteq ToSet(inbox)
      BY <2>4, GoingOn
    <3>3. LostAhead' => LostAhead
      BY <3>1, <3>2 DEF LostAhead
    <3>4. LostAhead' => ToSet(inbox') \cap Fresh \subseteq ToSet(inbox)
      BY <1>1, <3>2, FreshRuns
    <3>5. \A x \in Runs : run'[x].told = "unpressed" => Absent(x)' /\ <<"run", x>> \notin ToSet(chain')
      BY <1>1, <1>2, <1>3, <2>1, <3>1, <3>2, FreshRuns
    <3>6. LostAhead' => \A x \in Runs : run'[x].at >= engine'.since => Absent(x)'
      <4> SUFFICES ASSUME LostAhead', NEW x \in Runs, run'[x].at >= engine'.since
                   PROVE  Absent(x)'
        OBVIOUS
      <4>1. <<"run", x>> \in Fresh /\ Absent(x)
        BY <1>1, <2>1, <3>3, FreshRuns
      <4> QED BY <1>2, <1>3, <3>4, <4>1
    <3> QED BY <1>1, <2>2, <2>3, <3>2, <3>5, <3>6 DEF Losses
  <2>5. CASE Still
    <3>1. chain' = chain /\ ToSet(inbox') \cap (RunCalls \cup {<<"lost">>}) \subseteq ToSet(inbox)
      BY <2>5 DEF Still
    <3>2. LostAhead' => LostAhead
      BY <3>1 DEF LostAhead
    <3>3. \A x \in Runs : Absent(x) => Absent(x)'
      BY <1>2, <1>3, <3>1, FreshRuns
    <3> QED BY <1>1, <2>1, <2>2, <2>3, <3>1, <3>2, <3>3 DEF Losses
  <2> QED BY <1>7, <2>4, <2>5
<1> QED BY <1>4, <1>5, <1>6, <1>7, Moves

-----------------------------------------------------------------------------
(* What is due or heard is so in a group, and groups are in the studio      *)

Housed ==
  /\ engine.due \cup engine.heard \subseteq engine.groups
  /\ ~(engine.up /\ engine.studio) => engine.groups = {}
  /\ places # {} => studio

\* Where the worker's side of it changes, the engine does not.
LEMMA HousedFrame ==
  ASSUME Housed, UNCHANGED engine, places' # {} => studio' \/ (UNCHANGED <<places, studio>>)
  PROVE  Housed'
BY DEF Housed

\* A run that starts has its places in the studio it makes.
LEMMA StartsHoused ==
  ASSUME SessionTypes, Housed, NEW r \in Runs, Starts(r), ~waiting
  PROVE  places' # {} => studio' \/ (UNCHANGED <<places, studio>>)
<1>1. CASE StartsHeld(r)
  BY <1>1, HeldStart
<1>2. CASE StartsAtOnce(r)
  BY <1>2 DEF StartsAtOnce
<1> QED BY <1>1, <1>2 DEF Starts

LEMMA HousedInductive ==
  ASSUME SessionTypes, Housed, SessionStep
  PROVE  Housed'
<1>0. engine \in Engines /\ ring \in Seq(Sends)
  BY DEF SessionTypes
<1>1. ASSUME UNCHANGED <<engine, studio, places>>
      PROVE  Housed'
  BY <1>1 DEF Housed
<1>2. ASSUME NEW r \in Runs, NEW posted \in Seq(StopCalls), PressRun(r, posted) \/ HearAnswer(r, posted)
      PROVE  Housed'
  BY <1>1, <1>2 DEF PressRun, HearAnswer, workerVars, runtimeVars
<1>3. ASSUME NEW posted \in Seq(StopCalls), PostStops(posted)
      PROVE  Housed'
  BY <1>1, <1>3 DEF PostStops, workerVars, runtimeVars
<1>4. CASE PressStop \/ TakeTable \/ HearReply \/ SettleTimesOut \/ UNCHANGED sessionVars
  BY <1>1, <1>4 DEF PressStop, TakeTable, HearReply, SettleTimesOut, sessionVars, workerVars, runtimeVars
<1>5. CASE ReloadStarts
  <2>1. engine'.due = {} /\ engine'.heard = {} /\ engine'.groups = {} /\ UNCHANGED <<studio, places>>
    BY <1>5 DEF ReloadStarts, NewEngine, workerVars, runtimeVars
  <2> QED BY <2>1 DEF Housed
<1>6. CASE Purge
  <2>1. UNCHANGED <<studio, places>>
    BY <1>6 DEF Purge, workerVars, runtimeVars
  <2>2. engine' = engine \/ engine' = [engine EXCEPT !.due = {}, !.freeing = FALSE]
    BY <1>6 DEF Purge
  <2>3. /\ engine'.due \subseteq engine.due /\ engine'.heard = engine.heard
        /\ engine'.groups = engine.groups /\ engine'.studio = engine.studio /\ engine'.up = engine.up
    BY <1>0, <2>2 DEF Engines
  <2> QED BY <2>1, <2>3 DEF Housed
<1>7. CASE Handle
  <2> DEFINE m == Head(inbox)
  <2>1. /\ UNCHANGED engine
        /\ \/ m[1] = "run" /\ HandleRun(m[2])
           \/ m[1] = "stop" /\ HandleStop
           \/ m[1] = "silence" /\ HandleSilence
           \/ m[1] = "lost" /\ HandleLost
           \/ m[1] = "stopRun" /\ HandleStopRun(m[2])
    BY <1>7 DEF Handle
  <2>2. m[1] = "run" => m[2] \in Runs
    BY <1>7, Behind, MsgKinds DEF Handle, SessionTypes
  <2> HIDE DEF m
  <2>3. CASE m[1] = "run" /\ HandleRun(m[2])
    <3>1. CASE m[2] \in Slow \/ waiting
      BY <1>1, <2>1, <2>3, <3>1 DEF HandleRun
    <3>2. CASE ~(m[2] \in Slow \/ waiting)
      <4>1. Starts(m[2]) /\ ~waiting /\ m[2] \in Runs
        BY <2>2, <2>3, <3>2 DEF HandleRun
      <4> QED BY <2>1, <4>1, StartsHoused, HousedFrame
    <3> QED BY <3>1, <3>2
  <2>4. CASE HandleStop \/ HandleStopRun(m[2])
    BY <1>1, <2>1, <2>4 DEF HandleStop, HandleStopRun
  <2>5. CASE HandleSilence
    <3>1. places' = {} \/ UNCHANGED <<places, studio>>
      BY <2>5 DEF HandleSilence
    <3> QED BY <2>1, <3>1, HousedFrame
  <2>6. CASE HandleLost
    <3>1. places' = {}
      BY <2>6 DEF HandleLost
    <3> QED BY <2>1, <3>1, HousedFrame
  <2> QED BY <2>1, <2>3, <2>4, <2>5, <2>6
<1>8. ASSUME NEW r \in Runs, Fetched(r)
      PROVE  Housed'
  <2>1. Starts(r) /\ ~waiting /\ UNCHANGED engine
    BY <1>8 DEF Fetched
  <2> QED BY <2>1, StartsHoused, HousedFrame
<1>9. ASSUME NEW r \in Runs, Sound(r)
      PROVE  Housed'
  <2>1. studio' /\ UNCHANGED engine
    BY <1>9, Zenon DEF Sound, Sounding
  <2> QED BY <2>1, HousedFrame
<1>10. ASSUME NEW r \in Runs, Ends(r) \/ Answer(r)
       PROVE  Housed'
  BY <1>1, <1>10 DEF Ends, Answer, runtimeVars
<1>12. CASE Pump \/ Release
  BY <1>1, <1>12 DEF Pump, Release, runtimeVars
<1>11. CASE EngineStep
  <2>1. UNCHANGED <<studio, places>>
    BY <1>11, EngineTypes DEF workerVars, runtimeVars
  <2>2. CASE Take
    <3> DEFINE m == Head(ring)
    <3>1. /\ engine.up /\ m \in Sends
          /\ \/ m[1] = "sync" /\ UNCHANGED engine
             \/ m[1] = "fade" /\ engine' = TakeFade(m[2])
             \/ m[1] = "sound" /\ engine' = TakeSound(m[2], m[3], m[4])
      BY <1>0, <2>2, Behind DEF Take
    <3> HIDE DEF m
    <3>2. CASE UNCHANGED engine
      BY <1>1, <2>1, <3>2
    <3>3. CASE engine' = TakeFade(m[2])
      <4>1. /\ engine'.due = engine.due /\ engine'.heard = engine.heard
            /\ engine'.groups = engine.groups /\ engine'.studio = engine.studio
            /\ engine'.up = engine.up
        BY <1>0, <3>3 DEF TakeFade, Engines
      <4> QED BY <2>1, <4>1 DEF Housed
    <3>4. CASE m[1] = "sound" /\ engine' = TakeSound(m[2], m[3], m[4])
      <4>1. m[2] \in Runs /\ m[3] \in Nat
        BY <3>1, <3>4, SendKinds
      <4>2. /\ engine'.up = engine.up /\ engine'.heard = engine.heard
            /\ engine'.studio <=> engine.studio \/ "studio" \in m[4]
            /\ \/ engine'.due = engine.due /\ engine'.groups = engine.groups
               \/ /\ engine'.due = engine.due \cup {<<m[2], m[3]>>}
                  /\ engine'.groups = engine.groups \cup {<<m[2], m[3]>>}
                  /\ engine'.studio
        BY <1>0, <3>4, <4>1, SoundTaken
      <4> QED BY <2>1, <3>1, <4>2 DEF Housed
    <3> QED BY <3>1, <3>2, <3>3, <3>4
  <2>3. CASE FadeEnds
    <3>1. /\ engine'.heard = {s \in engine.heard : s[2] \notin engine.dying}
          /\ engine'.due = {s \in engine.due : s[2] \notin engine.dying}
          /\ engine'.groups = {s \in engine.groups : s[2] \notin engine.dying}
          /\ engine'.up = engine.up /\ engine'.studio = engine.studio
      BY <1>0, <2>3 DEF FadeEnds, Engines
    <3> QED BY <2>1, <3>1 DEF Housed
  <2>4. CASE ReloadEnds
    <3>1. /\ ~engine.up /\ engine'.heard = engine.heard /\ engine'.due = engine.due
          /\ engine'.groups = engine.groups
      BY <1>0, <2>4 DEF ReloadEnds, Engines
    <3> QED BY <2>1, <3>1 DEF Housed
  <2>5. ASSUME NEW s, (s \in engine.due /\ Heard(s)) \/ (s \in engine.heard /\ Quiet(s))
        PROVE  Housed'
    <3>1. /\ engine'.due \cup engine'.heard \subseteq engine.due \cup engine.heard
          /\ engine'.groups = engine.groups /\ engine'.up = engine.up /\ engine'.studio = engine.studio
      BY <1>0, <2>5 DEF Heard, Quiet, Engines
    <3> QED BY <2>1, <3>1 DEF Housed
  <2> QED BY <1>11, <2>2, <2>3, <2>4, <2>5 DEF EngineStep
<1> QED BY <1>2, <1>3, <1>4, <1>5, <1>6, <1>7, <1>8, <1>9, <1>10, <1>12, <1>11 DEF SessionStep

-----------------------------------------------------------------------------
SessionInv == SessionTypes /\ DeckTypes /\ Protocol /\ Losses /\ Housed

LEMMA InvInit ==
  ASSUME Init
  PROVE  SessionInv
<1>1. /\ run = [r \in Runs |-> [told |-> "unpressed", at |-> 0]]
      /\ chain = <<>> /\ step = "rest" /\ presses = 0 /\ gen = 0
      /\ inbox = <<>> /\ mail = <<>>
      /\ preparing = {} /\ live = {} /\ studio = FALSE /\ epoch = 0 /\ places = {}
      /\ line = <<>> /\ waiting = FALSE /\ holding = {} /\ answering = {}
      /\ ring = <<>> /\ engine = NewEngine
      /\ playing = Rest /\ plays = 0
  BY Zenon DEF Init, SessionInit
<1>2. NewEngine \in Engines /\ NewEngine.since = 0 /\ NewEngine.due = {} /\ NewEngine.heard = {}
      /\ NewEngine.groups = {}
  BY DEF NewEngine, Engines
<1>3. SessionTypes
  <2>1. studio \in BOOLEAN /\ waiting \in BOOLEAN /\ ~waiting
    BY <1>1, Zenon
  <2>2. WorkTypes
    <3>1. /\ preparing \subseteq Runs /\ live \subseteq Runs /\ places \subseteq Runs
          /\ epoch \in Nat /\ line \in Seq(LineSends) /\ holding \subseteq Runs
          /\ answering \subseteq Runs /\ holding = {}
      BY <1>1
    <3> QED BY <2>1, <3>1, Zenon DEF WorkTypes
  <2>3. /\ run \in [Runs -> [told : {"unpressed", "called", "job", "refused"}, at : Nat]]
        /\ chain \in Seq(Items) /\ step \in {"rest", "called", "settle", "purge", "silence"}
        /\ presses \in Nat /\ gen \in Nat
        /\ inbox \in Seq(Msgs) /\ mail \in Seq(Mails) /\ ring \in Seq(Sends) /\ engine \in Engines
    BY <1>1, <1>2
  <2> QED BY <2>2, <2>3 DEF SessionTypes
<1>4. DeckTypes
  <2>1. Pressed = {}
    BY <1>1 DEF Pressed
  <2> QED BY <1>1, <2>1, FS_EmptySet DEF DeckTypes, Rest
<1>5. Protocol
  BY <1>1 DEF Protocol, Once, ToSet
<1>7. Losses
  <2>1. \A r \in Runs : Absent(r)
    BY <1>1, <1>2 DEF Absent, ToSet
  <2> QED BY <1>1, <1>2, <2>1 DEF Losses, NeverBefore, ToSet, LostAhead
<1>8. Housed
  BY <1>1, <1>2 DEF Housed
<1> QED BY <1>3, <1>4, <1>5, <1>7, <1>8 DEF SessionInv

LEMMA InvInductive ==
  ASSUME SessionInv, [Next]_vars
  PROVE  SessionInv'
<1>1. SessionTypes /\ DeckTypes /\ Protocol /\ Losses /\ Housed
  BY DEF SessionInv
<1>2. SessionStep
  BY <1>1, Steps
<1>3. SessionTypes' /\ Protocol'
  BY <1>1, <1>2, FlowInductive
<1>4. DeckTypes'
  BY <1>1, DeckTypesInductive
<1>5. Losses'
  BY <1>1, <1>2, <1>3, LossesInductive
<1>6. Housed'
  BY <1>1, <1>2, HousedInductive
<1> QED BY <1>3, <1>4, <1>5, <1>6 DEF SessionInv

\* The chain is one step at a time, whose message and reply are never both under
\* way; the worker hears that the engine was made again before any run pressed
\* since is with it; what is heard is in a group, and groups are in the studio:
\* always (WorkerSession's #stopping, Scheduler#engine_lost).
THEOREM SessionKeeps == Spec => []SessionInv
<1>1. SessionInv /\ [Next]_vars => SessionInv'
  BY InvInductive
<1> QED BY <1>1, InvInit, PTL DEF Spec
=============================================================================
