----------------------------- MODULE LoadProofs -----------------------------
(***************************************************************************)
(* Proofs that a sound goes only with its loads in the engine, and is      *)
(* dropped only for one of them that failed, in the sessions of programs   *)
(* that are not Impatient.  The argument: a thing's last promise alone may *)
(* be pending, and says what the engine has (InTime, Present); what pump   *)
(* and gate await are the promises of the sounds they then let go, last    *)
(* ones but for a synthdef replaced meanwhile (PumpsHead, Rounds).         *)
(***************************************************************************)
EXTENDS LiveProofs

Patient == Impatient = FALSE

-----------------------------------------------------------------------------
(* What promises say                                                        *)

From(x) == IF x \in Defs THEN url[x] ELSE Own

(* What is loading is what was asked for last; only its promise is pending. *)
InTime ==
  /\ loading \subseteq [thing : Things, from : Urls \cup {Own}, nth : Nat]
  /\ \A l \in loading : /\ l.thing \in unanswered
                        /\ l.nth = Len(asks[l.thing]) /\ l.from = From(l.thing)
  /\ \A x \in Things : \A n \in DOMAIN asks[x] :
       asks[x][n] = "pending" <=> n = Len(asks[x]) /\ x \in unanswered
  /\ freed \cap unanswered = {}
  /\ \A x \in Things : asks[x] = <<>> => x \notin freed /\ From(x) = Own

(* A promise kept is a load in the engine, the last one the last asked for. *)
Present ==
  \A x \in Things \ freed : \A n \in DOMAIN asks[x] : asks[x][n] = "ok" =>
    /\ engine[x] # Nothing
    /\ n = Len(asks[x]) => engine[x] = From(x)

-----------------------------------------------------------------------------
(* What is awaited                                                          *)

(* The pump awaits the head of the line.                                    *)
PumpsHead(l) ==
  l.pump # NoPump =>
    /\ l.pump.since <= stops
    /\ l.pump.since = stops =>
         /\ l.queue # <<>>
         /\ \A p \in l.pump.on : p[1] \in l.needs[Head(l.queue)]
         /\ \A x \in l.needs[Head(l.queue)] \ freed : \E p \in l.pump.on : p[1] = x

(* What has failed is dropped as the gate's wait ends, and for a load.      *)
Failing(l, a) ==
  /\ \A i \in l.failed : i <= Len(l.needs)
  /\ \A i \in l.failed \cap ToSet(l.queue) :
       /\ l.gate = "waiting"
       /\ \E x \in l.needs[i] : State(a, x) = "failed"
       /\ \A x \in l.needs[i] \ freed : State(a, x) # "pending"

(* A gate's round awaits the last promises; of a wait before a Stop nothing *)
(* is in the line.                                                          *)
Rounds(l, a) ==
  /\ \A e \in Epochs : e > stops => l.wait[e] = NoWait
  /\ l.gate # "waiting" => l.wait[stops] = NoWait
  /\ \A e \in Epochs : \A h \in l.wait[e].held :
       IF e = stops THEN h.sound <= Len(l.needs) /\ h.on = Awaits(a, l.needs[h.sound])
                    ELSE h.sound <= Gone(l)

Good(l, a) ==
  /\ PumpsHead(l) /\ (l.pump # NoPump => ~Settled(a, l.pump.on))
  /\ Failing(l, a) /\ Rounds(l, a)

LoadInv == IInv /\ InTime /\ Present /\ Good(line, asks)

-----------------------------------------------------------------------------
(* The loads                                                                *)

\* The last promise of a thing that was asked for.
LEMMA LastPromise ==
  ASSUME NEW a \in Asks, NEW x \in Given(a)
  PROVE  /\ x \in Things /\ a[x] \in Seq(Promises) /\ Len(a[x]) \in Nat /\ Len(a[x]) > 0
         /\ DOMAIN a[x] = 1..Len(a[x]) /\ Len(a[x]) \in DOMAIN a[x]
         /\ State(a, x) = a[x][Len(a[x])] /\ State(a, x) \in Promises
<1>1. x \in Things /\ a[x] \in Seq(Promises) /\ a[x] # <<>>
  BY DEF Given, Asks
<1>2. Len(a[x]) \in Nat /\ Len(a[x]) > 0 /\ DOMAIN a[x] = 1..Len(a[x])
  BY <1>1, EmptySeq, LenProperties
<1>3. Len(a[x]) \in DOMAIN a[x] /\ a[x][Len(a[x])] \in Promises
  BY <1>1, <1>2, ElementOfSeq
<1> QED BY <1>1, <1>2, <1>3 DEF State, Last

\* What is asked for the first time.
LEMMA Asking ==
  ASSUME LoaderTypeOK, InTime, Present, NEW X \in SUBSET Things, Ask(X)
  PROVE  /\ InTime' /\ Present' /\ freed' = freed
         /\ \A x \in Given(asks) : Asked(X)[x] = asks[x]
<1>0. /\ asks \in Asks /\ \A l \in loading : l.thing \in Given(asks)
      /\ unanswered \subseteq Given(asks) /\ freed \subseteq Bufs
  BY Loads DEF LoaderTypeOK
<1>1. /\ asks' = Asked(X) /\ UNCHANGED <<url, engine, freed>>
      /\ unanswered' = unanswered \cup Unasked(X)
      /\ loading' = loading \cup {[thing |-> x, from |-> Own, nth |-> 1] : x \in Unasked(X)}
  BY DEF Ask
<1>2. /\ \A x \in Unasked(X) : x \in Things /\ asks'[x] = <<"pending">> /\ asks[x] = <<>>
      /\ \A x \in Things \ Unasked(X) : asks'[x] = asks[x]
      /\ \A x \in Given(asks) : x \in Things /\ x \notin Unasked(X)
  BY <1>0, <1>1 DEF Asked, Unasked, Given, Asks
<1>3. /\ Len(<<"pending">>) = 1 /\ DOMAIN <<"pending">> = {1} /\ <<"pending">>[1] = "pending"
  OBVIOUS
<1>4. /\ \A x \in Things \ Unasked(X) : x \in unanswered' <=> x \in unanswered
      /\ \A x \in Unasked(X) : x \in unanswered' /\ x \notin freed /\ From(x) = Own
      /\ \A x : From(x)' = From(x)
  BY <1>1, <1>2 DEF InTime, From
<1>5. ASSUME NEW l \in loading'
      PROVE  /\ l \in [thing : Things, from : Urls \cup {Own}, nth : Nat]
             /\ l.thing \in unanswered' /\ l.nth = Len(asks'[l.thing]) /\ l.from = From(l.thing)'
  <2>1. CASE l \in loading
    <3>1. l.thing \in Given(asks) /\ l.thing \in unanswered
      BY <1>0, <2>1 DEF InTime
    <3> QED BY <1>1, <1>2, <1>4, <2>1, <3>1 DEF InTime
  <2>2. CASE \E x \in Unasked(X) : l = [thing |-> x, from |-> Own, nth |-> 1]
    <3>1. PICK x \in Unasked(X) : l = [thing |-> x, from |-> Own, nth |-> 1]
      BY <2>2
    <3>2. l.thing = x /\ l.from = Own /\ l.nth = 1
      BY <3>1
    <3>3. x \in Things /\ x \in unanswered' /\ Len(asks'[x]) = 1 /\ From(x)' = Own
      BY <1>2, <1>3, <1>4, Zenon
    <3> QED BY <3>1, <3>2, <3>3
  <2> QED BY <1>1, <2>1, <2>2
<1>6. ASSUME NEW x \in Things, NEW n \in DOMAIN asks'[x]
      PROVE  asks'[x][n] = "pending" <=> n = Len(asks'[x]) /\ x \in unanswered'
  <2>1. CASE x \in Unasked(X)
    BY <1>2, <1>3, <1>4, <2>1
  <2>2. CASE x \notin Unasked(X)
    BY <1>2, <1>4, <2>2 DEF InTime
  <2> QED BY <2>1, <2>2
<1>7. freed' \cap unanswered' = {}
  BY <1>1, <1>4 DEF InTime
<1>8. ASSUME NEW x \in Things, asks'[x] = <<>>
      PROVE  x \notin freed' /\ From(x)' = Own
  <2>1. x \notin Unasked(X)
    BY <1>2, <1>8
  <2> QED BY <1>1, <1>2, <1>4, <1>8, <2>1 DEF InTime
<1>9. InTime'
  BY <1>5, <1>6, <1>7, <1>8 DEF InTime
<1>10. Present'
  <2> SUFFICES ASSUME NEW x \in Things \ freed, NEW n \in DOMAIN asks'[x], asks'[x][n] = "ok"
               PROVE  /\ engine[x] # Nothing
                      /\ n = Len(asks'[x]) => engine[x] = From(x)
    BY <1>1, <1>4 DEF Present
  <2>1. x \notin Unasked(X)
    BY <1>2, <1>3
  <2> QED BY <1>2, <2>1 DEF Present
<1> QED BY <1>1, <1>2, <1>9, <1>10

\* A synthdef that is asked for again, when it has been answered.
LEMMA AskingUrl ==
  ASSUME LoaderTypeOK, InTime, Present, NEW d \in Defs, NEW u \in Urls, AskUrl(d, u),
         d \notin unanswered
  PROVE  /\ InTime' /\ Present' /\ asks' \in Asks /\ freed' = freed
         /\ \A x \in Things : /\ x # d => asks'[x] = asks[x]
                              /\ Len(asks[x]) <= Len(asks'[x])
                              /\ \A n \in DOMAIN asks[x] : asks'[x][n] = asks[x][n]
<1> DEFINE s == Append(asks[d], "pending")
           new == [thing |-> d, from |-> u, nth |-> Len(asks[d]) + 1]
<1>0. /\ asks \in Asks /\ d \in Things /\ asks[d] \in Seq(Promises) /\ Len(asks[d]) \in Nat
      /\ DOMAIN asks[d] = 1..Len(asks[d])
  BY Loads, LenProperties DEF Asks, Things
<1>1. /\ s \in Seq(Promises) /\ Len(s) = Len(asks[d]) + 1 /\ s[Len(asks[d]) + 1] = "pending"
      /\ DOMAIN s = 1..Len(asks[d]) + 1 /\ s # <<>>
      /\ \A n \in 1..Len(asks[d]) : s[n] = asks[d][n]
  BY <1>0, AppendProperties, LenProperties, EmptySeq DEF Promises
<1>2. /\ asks' = [asks EXCEPT ![d] = s] /\ UNCHANGED <<engine, freed>>
      /\ url' = [url EXCEPT ![d] = u] /\ unanswered' = unanswered \cup {d}
      /\ loading' = loading \cup {new}
  BY DEF AskUrl
<1> HIDE DEF s
<1>3. asks' \in Asks /\ asks'[d] = s /\ \A x \in Things \ {d} : asks'[x] = asks[x]
  BY <1>0, <1>1, <1>2 DEF Asks
<1>4. /\ From(d)' = u /\ \A x \in Things \ {d} : From(x)' = From(x)
      /\ d \notin Bufs /\ freed \subseteq Bufs
  BY <1>2, LoaderAssumption DEF From, LoaderTypeOK
<1>5. ASSUME NEW l \in loading'
      PROVE  /\ l \in [thing : Things, from : Urls \cup {Own}, nth : Nat]
             /\ l.thing \in unanswered' /\ l.nth = Len(asks'[l.thing]) /\ l.from = From(l.thing)'
  <2>1. CASE l \in loading
    <3>1. l.thing \in Things /\ l.thing # d
      BY <2>1 DEF InTime
    <3> QED BY <1>2, <1>3, <1>4, <2>1, <3>1 DEF InTime
  <2>2. CASE l = new
    BY <1>0, <1>1, <1>2, <1>3, <1>4, <2>2
  <2> QED BY <1>2, <2>1, <2>2
<1> HIDE DEF new
<1>6. ASSUME NEW x \in Things, NEW n \in DOMAIN asks'[x]
      PROVE  asks'[x][n] = "pending" <=> n = Len(asks'[x]) /\ x \in unanswered'
  <2>1. CASE x = d
    <3>1. n \in 1..Len(asks[d]) => asks[d][n] # "pending"
      BY <1>0 DEF InTime
    <3>2. n \in 1..Len(asks[d]) \/ n = Len(asks[d]) + 1
      BY <1>0, <1>1, <1>3, <1>6, <2>1
    <3>3. n \in 1..Len(asks[d]) => n # Len(asks[d]) + 1
      BY <1>0
    <3> QED BY <1>1, <1>2, <1>3, <2>1, <3>1, <3>2, <3>3
  <2>2. CASE x # d
    BY <1>2, <1>3, <2>2 DEF InTime
  <2> QED BY <2>1, <2>2
<1>7. freed' \cap unanswered' = {}
  BY <1>2, <1>4 DEF InTime
<1>8. ASSUME NEW x \in Things, asks'[x] = <<>>
      PROVE  x \notin freed' /\ From(x)' = Own
  <2>1. x # d
    BY <1>1, <1>3, <1>8
  <2> QED BY <1>2, <1>3, <1>4, <1>8, <2>1 DEF InTime
<1>9. InTime'
  BY <1>5, <1>6, <1>7, <1>8 DEF InTime
<1>10. Present'
  <2> SUFFICES ASSUME NEW x \in Things \ freed, NEW n \in DOMAIN asks'[x], asks'[x][n] = "ok"
               PROVE  /\ engine[x] # Nothing
                      /\ n = Len(asks'[x]) => engine[x] = From(x)'
    BY <1>2 DEF Present
  <2>1. CASE x = d
    <3>1. n \in 1..Len(asks[d]) /\ asks[d][n] = "ok" /\ n # Len(asks'[d])
      BY <1>0, <1>1, <1>3, <2>1
    <3> QED BY <1>0, <2>1, <3>1 DEF Present
  <2>2. CASE x # d
    BY <1>3, <1>4, <2>2 DEF Present
  <2> QED BY <2>1, <2>2
<1>11. \A x \in Things : /\ x # d => asks'[x] = asks[x]
                         /\ Len(asks[x]) <= Len(asks'[x])
                         /\ \A n \in DOMAIN asks[x] : asks'[x][n] = asks[x][n]
  <2> SUFFICES ASSUME NEW x \in Things
               PROVE  /\ x # d => asks'[x] = asks[x]
                      /\ Len(asks[x]) <= Len(asks'[x])
                      /\ \A n \in DOMAIN asks[x] : asks'[x][n] = asks[x][n]
    OBVIOUS
  <2>1. CASE x = d
    BY <1>0, <1>1, <1>3, <2>1
  <2>2. CASE x # d
    <3>1. asks'[x] = asks[x] /\ Len(asks[x]) \in Nat
      BY <1>0, <1>3, <2>2, LenProperties DEF Asks
    <3> QED BY <2>2, <3>1
  <2> QED BY <2>1, <2>2
<1> QED BY <1>2, <1>3, <1>9, <1>10, <1>11

\* What is answered is the last promise of its thing, and its last load.
LEMMA Answering ==
  ASSUME LoaderTypeOK, InTime, Present, NEW l \in loading, NEW said \in {"ok", "failed"},
         Answer(l, said)
  PROVE  /\ InTime' /\ Present' /\ freed' = freed /\ asks' \in Asks
         /\ \A x \in Things : /\ Len(asks'[x]) = Len(asks[x])
                              /\ \A n \in DOMAIN asks[x] :
                                   asks[x][n] # "pending" => asks'[x][n] = asks[x][n]
<1> DEFINE t == l.thing
           N == Len(asks[t])
           s == [asks[t] EXCEPT ![N] = said]
<1>0. /\ asks \in Asks /\ t \in Given(asks) /\ t \in Things /\ t \in unanswered
      /\ l.nth = N /\ l.from = From(t)
  BY Loads DEF InTime, Given
<1>1. /\ asks[t] \in Seq(Promises) /\ N \in Nat /\ N > 0 /\ DOMAIN asks[t] = 1..N
      /\ asks[t][N] = "pending" /\ asks[t] # <<>>
  BY <1>0, LastPromise DEF InTime, Given
<1>2. /\ s \in Seq(Promises) /\ Len(s) = N /\ DOMAIN s = 1..N /\ s # <<>> /\ s[N] = said
      /\ \A n \in 1..N : n # N => s[n] = asks[t][n]
  BY <1>1, ExceptSeq, LenProperties, EmptySeq DEF Promises
<1>3. /\ asks' = [asks EXCEPT ![t] = s] /\ UNCHANGED <<url, freed>>
      /\ unanswered' = unanswered \ {t} /\ loading' = loading \ {l}
      /\ engine' = IF said = "ok" THEN [engine EXCEPT ![t] = l.from] ELSE engine
  BY <1>0 DEF Answer, Answered
<1> HIDE DEF s
<1>4. asks' \in Asks /\ asks'[t] = s /\ \A x \in Things \ {t} : asks'[x] = asks[x]
  BY <1>0, <1>2, <1>3 DEF Asks
<1>5. ASSUME NEW k \in loading, k.thing = t
      PROVE  k = l
  <2>1. k.nth = l.nth /\ k.from = l.from
    BY <1>0, <1>5 DEF InTime
  <2>2. /\ k \in [thing : Things, from : Urls \cup {Own}, nth : Nat]
        /\ l \in [thing : Things, from : Urls \cup {Own}, nth : Nat]
    BY DEF InTime
  <2> QED BY <1>5, <2>1, <2>2
<1>6. \A x : From(x)' = From(x)
  BY <1>3 DEF From
<1>7. ASSUME NEW k \in loading'
      PROVE  /\ k \in [thing : Things, from : Urls \cup {Own}, nth : Nat]
             /\ k.thing \in unanswered' /\ k.nth = Len(asks'[k.thing]) /\ k.from = From(k.thing)'
  <2>1. k \in loading /\ k.thing \in Things /\ k.thing # t
    BY <1>3, <1>5 DEF InTime
  <2> QED BY <1>3, <1>4, <1>6, <2>1 DEF InTime
<1>8. ASSUME NEW x \in Things, NEW n \in DOMAIN asks'[x]
      PROVE  asks'[x][n] = "pending" <=> n = Len(asks'[x]) /\ x \in unanswered'
  <2>1. CASE x = t
    <3>1. n \in 1..N /\ x \notin unanswered'
      BY <1>2, <1>3, <1>4, <2>1
    <3>2. n # N => asks[t][n] # "pending"
      BY <1>1, <1>0, <3>1 DEF InTime
    <3> QED BY <1>2, <1>4, <2>1, <3>1, <3>2
  <2>2. CASE x # t
    BY <1>3, <1>4, <2>2 DEF InTime
  <2> QED BY <2>1, <2>2
<1>9. freed' \cap unanswered' = {}
  BY <1>3 DEF InTime
<1>10. ASSUME NEW x \in Things, asks'[x] = <<>>
       PROVE  x \notin freed' /\ From(x)' = Own
  <2>1. x # t
    BY <1>2, <1>4, <1>10
  <2> QED BY <1>3, <1>4, <1>6, <1>10, <2>1 DEF InTime
<1>11. InTime'
  BY <1>7, <1>8, <1>9, <1>10 DEF InTime
<1>12. Present'
  <2> SUFFICES ASSUME NEW x \in Things \ freed, NEW n \in DOMAIN asks'[x], asks'[x][n] = "ok"
               PROVE  /\ engine'[x] # Nothing
                      /\ n = Len(asks'[x]) => engine'[x] = From(x)
    BY <1>3, <1>6 DEF Present
  <2>1. CASE x # t
    <3>1. engine'[x] = engine[x] /\ asks'[x] = asks[x]
      BY <1>3, <1>4, <2>1
    <3> QED BY <3>1 DEF Present
  <2>2. CASE x = t /\ said = "ok"
    <3>1. engine'[t] = From(t)
      BY <1>0, <1>3, <2>2 DEF LoaderTypeOK
    <3>2. From(t) # Nothing
      BY <1>0, LoaderAssumption DEF LoaderTypeOK
    <3> QED BY <2>2, <3>1, <3>2
  <2>3. CASE x = t /\ said # "ok"
    <3>1. n \in 1..N /\ n # N /\ asks[t][n] = "ok" /\ engine' = engine
      BY <1>2, <1>3, <1>4, <2>3
    <3> QED BY <1>1, <1>2, <1>4, <2>3, <3>1 DEF Present
  <2> QED BY <2>1, <2>2, <2>3
<1>13. \A x \in Things : /\ Len(asks'[x]) = Len(asks[x])
                         /\ \A n \in DOMAIN asks[x] :
                              asks[x][n] # "pending" => asks'[x][n] = asks[x][n]
  BY <1>1, <1>2, <1>4
<1> QED BY <1>3, <1>4, <1>11, <1>12, <1>13

\* A sample whose load has been answered is let go.
LEMMA Freeing ==
  ASSUME LoaderTypeOK, InTime, Present, NEW b \in Bufs, Free(b), State(asks, b) # "pending"
  PROVE  InTime' /\ Present' /\ asks' = asks /\ freed' = freed \cup {b}
<1>1. /\ freed' = freed \cup {b} /\ engine' = [engine EXCEPT ![b] = Nothing] /\ asks[b] # <<>>
      /\ UNCHANGED <<asks, unanswered, url, loading>> /\ b \in Things /\ asks \in Asks
  BY Loads DEF Free, Things
<1>2. b \notin unanswered
  <2>1. b \in Given(asks)
    BY <1>1 DEF Given
  <2> QED BY <1>1, <2>1, LastPromise DEF InTime
<1>3. \A x : From(x)' = From(x)
  BY <1>1 DEF From
<1>4. InTime'
  BY <1>1, <1>2, <1>3 DEF InTime
<1>5. Present'
  BY <1>1, <1>3 DEF Present, LoaderTypeOK
<1> QED BY <1>1, <1>4, <1>5


-----------------------------------------------------------------------------
(* The line                                                                 *)

(* The line k is l later: what is settled stays so.                         *)
Follows(l, k) ==
  /\ Len(l.fate) <= Len(k.fate) /\ Gone(l) <= Gone(k)
  /\ \A i \in 1..Len(l.fate) : /\ k.needs[i] = l.needs[i]
                               /\ l.fate[i] # "held" => k.fate[i] = l.fate[i]

(* What has left it since, but for E, went with its loads or was dropped    *)
(* for one that failed.                                                     *)
Fairly(l, k, a, E) ==
  /\ Follows(l, k)
  /\ \A i \in 1..Len(k.fate) \ E : (i <= Len(l.fate) => l.fate[i] = "held") =>
       /\ k.fate[i] = "sent" => Ready(k, a, i)
       /\ k.fate[i] = "failed" => \E x \in k.needs[i] : State(a, x) = "failed"

\* A line in numbers: what is held are the last sounds.
LEMMA InNumbers ==
  ASSUME NEW a, NEW l, LineInv(l, a)
  PROVE  /\ l \in LineSet(a) /\ l.queue \in Seq(Sounds) /\ DOMAIN l.queue = 1..Len(l.queue)
         /\ Len(l.fate) \in Nat /\ Len(l.queue) \in Nat /\ Gone(l) \in Nat
         /\ Gone(l) + Len(l.queue) = Len(l.fate) /\ Len(l.needs) = Len(l.fate)
         /\ ToSet(l.queue) = {i \in 1..Len(l.fate) : i > Gone(l)}
         /\ \A m \in 1..Len(l.queue) : l.queue[m] = Gone(l) + m
         /\ \A i \in 1..Len(l.fate) : /\ l.needs[i] \in SUBSET Given(a)
                                      /\ l.fate[i] = "held" <=> i > Gone(l)
         /\ l.queue # <<>> => /\ Len(l.queue) > 0 /\ Head(l.queue) = Gone(l) + 1
                              /\ Head(l.queue) \in 1..Len(l.fate)
         /\ l.queue = <<>> => Len(l.queue) = 0
<1>1. l \in LineSet(a) /\ Ordered(l)
  BY DEF LineInv
<1>2. /\ l.queue \in Seq(Sounds) /\ Len(l.queue) \in Nat /\ DOMAIN l.queue = 1..Len(l.queue)
      /\ l.needs \in Seq(SUBSET Given(a)) /\ Len(l.fate) \in Nat
  BY <1>1, Fields
<1>3. /\ Gone(l) \in Nat /\ Gone(l) + Len(l.queue) = Len(l.fate)
      /\ \A m \in 1..Len(l.queue) : l.queue[m] = Gone(l) + m
      /\ \A i \in 1..Len(l.fate) : l.fate[i] = "held" <=> i > Gone(l)
  BY Counts
<1>4. Len(l.needs) = Len(l.fate)
  BY <1>1 DEF Ordered
<1>5. \A i \in 1..Len(l.fate) : l.needs[i] \in SUBSET Given(a)
  BY <1>2, <1>4, ElementOfSeq
<1>6. ToSet(l.queue) = {i \in 1..Len(l.fate) : i > Gone(l)}
  <2>1. ToSet(l.queue) = {l.queue[m] : m \in 1..Len(l.queue)}
    BY <1>2 DEF ToSet
  <2>2. ASSUME NEW m \in 1..Len(l.queue)
        PROVE  l.queue[m] \in 1..Len(l.fate) /\ l.queue[m] > Gone(l)
    BY <1>2, <1>3
  <2>3. ASSUME NEW i \in 1..Len(l.fate), i > Gone(l)
        PROVE  \E m \in 1..Len(l.queue) : i = l.queue[m]
    <3>1. i - Gone(l) \in 1..Len(l.queue) /\ l.queue[i - Gone(l)] = i
      BY <1>2, <1>3, <2>3
    <3> QED BY <3>1
  <2> QED BY <2>1, <2>2, <2>3
<1>7. ASSUME l.queue # <<>>
      PROVE  /\ Len(l.queue) > 0 /\ Head(l.queue) = Gone(l) + 1
             /\ Head(l.queue) \in 1..Len(l.fate)
  <2>1. Len(l.queue) > 0
    BY <1>2, <1>7, EmptySeq
  <2>2. Head(l.queue) = l.queue[1] /\ l.queue[1] = Gone(l) + 1
    BY <1>2, <1>3, <1>7, <2>1, HeadTailProperties
  <2> QED BY <1>2, <1>3, <2>1, <2>2
<1>8. l.queue = <<>> => Len(l.queue) = 0
  BY EmptySeq
<1> QED BY <1>1, <1>2, <1>3, <1>4, <1>5, <1>6, <1>7, <1>8

\* A line as good as one before it, that awaits the same.
LEMMA Onward ==
  ASSUME NEW a, NEW l, NEW k, LineInv(l, a), LineInv(k, a), Good(l, a), Follows(l, k),
         k.pump = l.pump, k.failed = l.failed, k.wait = l.wait,
         k.gate = l.gate \/ "waiting" \notin {k.gate, l.gate},
         l.pump # NoPump /\ l.pump.since = stops => Gone(k) = Gone(l)
  PROVE  Good(k, a)
<1>1. /\ Len(l.fate) \in Nat /\ Len(k.fate) \in Nat /\ Gone(l) \in Nat /\ Gone(k) \in Nat
      /\ Len(l.needs) = Len(l.fate) /\ Len(k.needs) = Len(k.fate)
      /\ ToSet(l.queue) = {i \in 1..Len(l.fate) : i > Gone(l)}
      /\ ToSet(k.queue) = {i \in 1..Len(k.fate) : i > Gone(k)}
      /\ Gone(l) + Len(l.queue) = Len(l.fate) /\ Len(l.queue) \in Nat
      /\ Gone(k) + Len(k.queue) = Len(k.fate) /\ Len(k.queue) \in Nat
      /\ l \in LineSet(a)
  BY InNumbers
<1>2. Len(l.fate) <= Len(k.fate) /\ Gone(l) <= Gone(k)
      /\ \A i \in 1..Len(l.fate) : k.needs[i] = l.needs[i]
  BY DEF Follows
<1>3. PumpsHead(k)
  <2> SUFFICES ASSUME l.pump # NoPump, l.pump.since = stops
               PROVE  /\ k.queue # <<>>
                      /\ k.needs[Head(k.queue)] = l.needs[Head(l.queue)]
    BY DEF PumpsHead, Good
  <2>1. /\ l.queue # <<>> /\ Gone(k) = Gone(l)
    BY DEF PumpsHead, Good
  <2>2. Head(l.queue) = Gone(l) + 1 /\ Head(l.queue) \in 1..Len(l.fate) /\ Len(l.queue) > 0
    BY <2>1, InNumbers
  <2>3. Len(k.queue) > 0
    BY <1>1, <1>2, <2>1, <2>2
  <2>4. k.queue # <<>>
    BY <2>3, InNumbers
  <2>5. Head(k.queue) = Head(l.queue)
    BY <2>1, <2>2, <2>4, InNumbers
  <2> QED BY <1>2, <2>2, <2>4, <2>5
<1>4. Failing(k, a)
  <2>1. \A i \in l.failed : i \in Nat /\ i <= Len(l.fate) /\ i > 0
    BY <1>1 DEF Failing, Good, LineSet, Sounds
  <2>2. \A i \in l.failed : i <= Len(k.needs)
    BY <1>1, <1>2, <2>1
  <2>3. \A i \in l.failed \cap ToSet(k.queue) :
          i \in l.failed \cap ToSet(l.queue) /\ k.needs[i] = l.needs[i]
    BY <1>1, <1>2, <2>1
  <2> QED BY <2>2, <2>3 DEF Failing, Good
<1>5. Rounds(k, a)
  <2>1. ASSUME NEW e \in Epochs, NEW h \in l.wait[e].held
        PROVE  IF e = stops THEN h.sound <= Len(k.needs) /\ h.on = Awaits(a, k.needs[h.sound])
                            ELSE h.sound <= Gone(k)
    <3>1. h.sound \in Sounds /\ h.sound \in Nat /\ h.sound > 0
      BY <1>1 DEF LineSet, Sounds
    <3>2. IF e = stops THEN h.sound <= Len(l.needs) /\ h.on = Awaits(a, l.needs[h.sound])
                       ELSE h.sound <= Gone(l)
      BY DEF Good, Rounds
    <3>3. CASE e = stops
      <4>1. h.sound \in 1..Len(l.fate) /\ h.on = Awaits(a, l.needs[h.sound])
        BY <1>1, <3>1, <3>2, <3>3
      <4>2. k.needs[h.sound] = l.needs[h.sound] /\ h.sound <= Len(k.needs)
        BY <1>1, <1>2, <4>1
      <4> QED BY <3>3, <4>1, <4>2
    <3>4. CASE e # stops
      BY <1>1, <1>2, <3>1, <3>2, <3>4
    <3> QED BY <3>3, <3>4
  <2> QED BY <2>1 DEF Rounds, Good
<1> QED BY <1>3, <1>4, <1>5 DEF Good


\* What happens of one line and then of the next happens of the first.
LEMMA FairlyTwice ==
  ASSUME NEW a, NEW l, NEW j, NEW k, LineInv(l, a), LineInv(j, a), LineInv(k, a), NEW E,
         Fairly(l, j, a, E), Fairly(j, k, a, {})
  PROVE  Fairly(l, k, a, E)
<1>1. /\ Len(l.fate) \in Nat /\ Len(j.fate) \in Nat /\ Len(k.fate) \in Nat
      /\ Gone(l) \in Nat /\ Gone(j) \in Nat /\ Gone(k) \in Nat
  BY InNumbers
<1>2. Follows(l, j) /\ Follows(j, k)
  BY DEF Fairly
<1>3. Len(l.fate) <= Len(k.fate) /\ Gone(l) <= Gone(k)
  BY <1>1, <1>2 DEF Follows
<1>4. ASSUME NEW i \in 1..Len(l.fate)
      PROVE  k.needs[i] = l.needs[i] /\ (l.fate[i] # "held" => k.fate[i] = l.fate[i])
  <2>1. i \in 1..Len(j.fate)
    BY <1>1, <1>2 DEF Follows
  <2> QED BY <1>2, <2>1 DEF Follows
<1>5. ASSUME NEW i \in 1..Len(k.fate) \ E, i <= Len(l.fate) => l.fate[i] = "held"
      PROVE  /\ k.fate[i] = "sent" => Ready(k, a, i)
             /\ k.fate[i] = "failed" => \E x \in k.needs[i] : State(a, x) = "failed"
  <2>1. CASE i <= Len(j.fate) => j.fate[i] = "held"
    <3>1. i \in 1..Len(k.fate) \ {}
      OBVIOUS
    <3> QED BY <2>1, <3>1 DEF Fairly
  <2>2. CASE i <= Len(j.fate) /\ j.fate[i] # "held"
    <3>1. i \in 1..Len(j.fate) \ E
      BY <1>1, <2>2
    <3>2. k.fate[i] = j.fate[i] /\ k.needs[i] = j.needs[i]
      BY <1>2, <2>2, <3>1 DEF Follows
    <3>3. /\ j.fate[i] = "sent" => Ready(j, a, i)
          /\ j.fate[i] = "failed" => \E x \in j.needs[i] : State(a, x) = "failed"
      BY <1>5, <3>1 DEF Fairly
    <3> QED BY <3>2, <3>3 DEF Ready
  <2> QED BY <2>1, <2>2
<1>6. Follows(l, k)
  BY <1>3, <1>4 DEF Follows
<1> QED BY <1>5, <1>6 DEF Fairly

\* A line that only adds sounds, or nothing, is fair.
LEMMA FairlyHeld ==
  ASSUME NEW a, NEW l, NEW k, LineInv(l, a), LineInv(k, a), Follows(l, k), Gone(k) = Gone(l)
  PROVE  Fairly(l, k, a, {})
<1>1. /\ Len(l.fate) \in Nat /\ Len(k.fate) \in Nat /\ Gone(l) \in Nat
      /\ Gone(l) + Len(l.queue) = Len(l.fate) /\ Len(l.queue) \in Nat
      /\ \A i \in 1..Len(l.fate) : l.fate[i] = "held" <=> i > Gone(l)
      /\ \A i \in 1..Len(k.fate) : k.fate[i] = "held" <=> i > Gone(l)
  BY InNumbers
<1>2. ASSUME NEW i \in 1..Len(k.fate), i <= Len(l.fate) => l.fate[i] = "held"
      PROVE  k.fate[i] = "held"
  <2>1. i > Gone(l)
    BY <1>1, <1>2
  <2> QED BY <1>1, <2>1
<1> QED BY <1>2 DEF Fairly

\* The same line with another gate, pump or wait.
LEMMA FollowsSame ==
  ASSUME NEW a, NEW l, NEW k, LineInv(l, a), k.queue = l.queue, k.needs = l.needs,
         k.fate = l.fate
  PROVE  Follows(l, k) /\ Gone(k) = Gone(l)
<1>1. Len(l.fate) \in Nat /\ Gone(l) \in Nat
  BY InNumbers
<1>2. Gone(k) = Gone(l)
  BY Zenon DEF Gone
<1> QED BY <1>1, <1>2 DEF Follows

\* The first n leave, each for a reason.
LEMMA LeavesFairly ==
  ASSUME NEW a \in Asks, NEW l, LineInv(l, a), Good(l, a), NEW n \in 0..Len(l.queue),
         l.pump # NoPump => l.pump.since # stops,
         \A m \in 1..n : \/ Ready(l, a, l.queue[m])
                         \/ \E x \in l.needs[l.queue[m]] : State(a, x) = "failed"
  PROVE  /\ Good(Leave(l, a, n), a) /\ Fairly(l, Leave(l, a, n), a, {})
         /\ LineInv(Leave(l, a, n), a)
<1> DEFINE k == Leave(l, a, n)
           gone == ToSet(SubSeq(l.queue, 1, n))
<1>1. LineInv(k, a) /\ Kept(l, k, 0)
  BY LeaveKeeps
<1>2. /\ l \in LineSet(a) /\ l.queue \in Seq(Sounds) /\ Len(l.queue) \in Nat
      /\ Len(l.fate) \in Nat /\ Gone(l) \in Nat /\ DOMAIN l.fate = 1..Len(l.fate)
      /\ ToSet(l.queue) = {i \in 1..Len(l.fate) : i > Gone(l)}
      /\ \A i \in 1..Len(l.fate) : l.fate[i] = "held" <=> i > Gone(l)
      /\ DOMAIN l.queue = 1..Len(l.queue)
  BY InNumbers, Fields
<1>3. /\ k.needs = l.needs /\ k.pump = l.pump /\ k.failed = l.failed /\ k.wait = l.wait
      /\ k.gate = l.gate
      /\ k.fate = [i \in 1..Len(l.fate) |->
                     IF i \notin gone THEN l.fate[i]
                     ELSE IF Ready(l, a, i) /\ i \notin l.failed THEN "sent" ELSE "failed"]
  BY <1>2 DEF Leave, LineSet
<1>4. ASSUME NEW i \in gone
      PROVE  \E m \in 1..n : i = l.queue[m]
  <2>1. \A m \in 1..n : l.queue[m] \in Sounds
    BY <1>2, ElementOfSeq
  <2>2. /\ SubSeq(l.queue, 1, n) \in Seq(Sounds) /\ Len(SubSeq(l.queue, 1, n)) = n
        /\ \A m \in 1..n : SubSeq(l.queue, 1, n)[m] = l.queue[m]
    BY <1>2, <2>1, SubSeqProperties
  <2>3. PICK m \in DOMAIN SubSeq(l.queue, 1, n) : i = SubSeq(l.queue, 1, n)[m]
    BY DEF ToSet
  <2> QED BY <2>2, <2>3, LenProperties
<1> HIDE DEF k, gone
<1>5. Len(k.fate) = Len(l.fate)
  <2>1. Len(k.fate) = Len(l.fate) + 0
    BY <1>1, Zenon DEF Kept
  <2> QED BY <1>2, <2>1
<1>6. ASSUME NEW i \in gone
      PROVE  /\ i \in 1..Len(l.fate) /\ l.fate[i] = "held" /\ i \in ToSet(l.queue)
             /\ Ready(l, a, i) \/ \E x \in l.needs[i] : State(a, x) = "failed"
  <2>1. PICK m \in 1..n : i = l.queue[m]
    BY <1>4
  <2>2. i \in ToSet(l.queue)
    BY <1>2, <2>1 DEF ToSet
  <2> QED BY <1>2, <2>1, <2>2
<1>7. Follows(l, k)
  <2>1. \A i \in 1..Len(l.fate) : l.fate[i] # "held" => k.fate[i] = l.fate[i]
    BY <1>3, <1>6
  <2>2. Len(l.fate) <= Len(k.fate)
    BY <1>2, <1>5
  <2> QED BY <1>1, <1>3, <2>1, <2>2 DEF Follows, Kept
<1>8. Good(k, a)
  BY <1>1, <1>3, <1>7, Onward
<1>9. ASSUME NEW i \in 1..Len(k.fate), i <= Len(l.fate) => l.fate[i] = "held"
      PROVE  /\ k.fate[i] = "sent" => Ready(k, a, i)
             /\ k.fate[i] = "failed" => \E x \in k.needs[i] : State(a, x) = "failed"
  <2>1. i \in 1..Len(l.fate) /\ l.fate[i] = "held"
    BY <1>2, <1>5, <1>9
  <2>2. CASE i \notin gone
    <3>1. k.fate[i] = "held"
      BY <1>3, <2>1, <2>2
    <3> QED BY <3>1
  <2>3. CASE i \in gone /\ Ready(l, a, i) /\ i \notin l.failed
    <3>1. k.fate[i] = "sent"
      BY <1>3, <2>1, <2>3
    <3> QED BY <1>3, <2>3, <3>1 DEF Ready
  <2>4. CASE i \in gone /\ ~(Ready(l, a, i) /\ i \notin l.failed)
    <3>1. k.fate[i] = "failed"
      BY <1>3, <2>1, <2>4
    <3>2. \E x \in l.needs[i] : State(a, x) = "failed"
      BY <1>6, <2>4 DEF Good, Failing
    <3> QED BY <1>3, <3>1, <3>2
  <2> QED BY <2>2, <2>3, <2>4
<1>10. Fairly(l, k, a, {})
  BY <1>7, <1>9 DEF Fairly
<1> QED BY <1>1, <1>8, <1>10 DEF k

\* What a sound awaits has come: all of it loaded, or something failed.
LEMMA Come ==
  ASSUME NEW a \in Asks, NEW need \in SUBSET Given(a), Settled(a, Awaits(a, need))
  PROVE  /\ \A x \in need \ freed : State(a, x) # "pending"
         /\ IsReady(a, need) \/ \E x \in need : State(a, x) = "failed"
<1>1. ASSUME NEW x \in need \ freed
      PROVE  State(a, x) \in {"ok", "failed"}
  <2>1. /\ State(a, x) = a[x][Len(a[x])] /\ State(a, x) \in Promises
    BY LastPromise
  <2>2. <<x, Len(a[x])>> \in Awaits(a, need)
    BY DEF Awaits
  <2>3. a[x][Len(a[x])] # "pending"
    BY <2>2 DEF Settled
  <2> QED BY <2>1, <2>3 DEF Promises
<1> QED BY <1>1 DEF IsReady


\* The pump: what leaves had come, and the new head has not.
LEMMA PumpsFairly ==
  ASSUME NEW a \in Asks, NEW l, LineInv(l, a), Good(l, a), stops \in Epochs
  PROVE  Good(Pump(l, a), a) /\ Fairly(l, Pump(l, a), a, {})
<1> DEFINE n == Leading(l, Loaded(l, a))
           on == Leave(l, a, n)
           p == [on |-> Awaits(a, l.needs[Head(on.queue)]), since |-> stops]
           k == [on EXCEPT !.pump = p]
<1>1. /\ l.queue \in Seq(Sounds) /\ Len(l.queue) \in Nat /\ Len(l.fate) \in Nat
      /\ ToSet(l.queue) = {i \in 1..Len(l.fate) : i > Gone(l)}
      /\ DOMAIN l.queue = 1..Len(l.queue) /\ l \in LineSet(a)
      /\ \A i \in 1..Len(l.fate) : l.needs[i] \in SUBSET Given(a)
  BY InNumbers
<1>2. /\ n \in 0..Len(l.queue)
      /\ \A m \in 1..n : l.queue[m] \in Loaded(l, a)
      /\ n = Len(l.queue) \/ l.queue[n + 1] \notin Loaded(l, a)
  BY <1>1, LeadingIs
<1> HIDE DEF n
<1>3. CASE Pump(l, a) = l
  <2>1. Fairly(l, l, a, {})
    BY FollowsSame, FairlyHeld
  <2> QED BY <1>3, <2>1
<1>4. CASE Pump(l, a) # l
  <2>1. /\ l.pump = NoPump
        /\ Pump(l, a) = IF on.queue = <<>> THEN on ELSE k
    BY <1>4 DEF Pump, n
  <2>2. \A m \in 1..n : \/ Ready(l, a, l.queue[m])
                        \/ \E x \in l.needs[l.queue[m]] : State(a, x) = "failed"
    <3> SUFFICES ASSUME NEW m \in 1..n
                 PROVE  \/ Ready(l, a, l.queue[m])
                        \/ \E x \in l.needs[l.queue[m]] : State(a, x) = "failed"
      OBVIOUS
    <3>1. l.queue[m] \in ToSet(l.queue) /\ Settled(a, Awaits(a, l.needs[l.queue[m]]))
      BY <1>2 DEF Loaded
    <3>2. l.needs[l.queue[m]] \in SUBSET Given(a)
      BY <1>1, <3>1
    <3> QED BY <3>1, <3>2, Come DEF Ready
  <2>3. Good(on, a) /\ Fairly(l, on, a, {}) /\ LineInv(on, a)
    BY <1>2, <2>1, <2>2, LeavesFairly
  <2>4. CASE on.queue = <<>>
    BY <2>1, <2>3, <2>4
  <2>5. CASE on.queue # <<>>
    <3>1. on.queue = SubSeq(l.queue, n + 1, Len(l.queue)) /\ on.needs = l.needs
          /\ on \in LineSet(a)
      BY <1>1, <2>3 DEF Leave, LineSet, LineInv
    <3>2. n < Len(l.queue)
      <4> SUFFICES ASSUME n = Len(l.queue) PROVE FALSE
        BY <1>1, <1>2
      <4>1. SubSeq(l.queue, n + 1, Len(l.queue)) = <<>>
        BY <1>1
      <4> QED BY <2>5, <3>1, <4>1
    <3> HIDE DEF on
    <3>3. Head(on.queue) = l.queue[n + 1] /\ l.queue[n + 1] \in ToSet(l.queue)
      <4>1. \A m \in (n + 1)..Len(l.queue) : l.queue[m] \in Sounds
        BY <1>1, <1>2, ElementOfSeq
      <4>2. \A m \in 1..(Len(l.queue) - n) : SubSeq(l.queue, n + 1, Len(l.queue))[m] = l.queue[n + m]
            /\ Len(SubSeq(l.queue, n + 1, Len(l.queue))) = Len(l.queue) - n
            /\ SubSeq(l.queue, n + 1, Len(l.queue)) \in Seq(Sounds)
        BY <1>1, <1>2, <3>2, <4>1, SubSeqProperties
      <4>3. 1 \in 1..(Len(l.queue) - n) /\ n + 1 \in 1..Len(l.queue)
        BY <1>1, <1>2, <3>2
      <4>4. on.queue[1] = l.queue[n + 1] /\ on.queue \in Seq(Sounds)
        BY <3>1, <4>2, <4>3
      <4>5. Head(on.queue) = on.queue[1]
        BY <2>5, <4>4, HeadTailProperties
      <4> QED BY <1>1, <4>3, <4>4, <4>5 DEF ToSet
    <3>4. ~Settled(a, p.on) /\ n # Len(l.queue)
      BY <1>1, <1>2, <3>2, <3>3 DEF Loaded
    <3>5. /\ k.queue = on.queue /\ k.needs = on.needs /\ k.fate = on.fate /\ k.pump = p
          /\ k.failed = on.failed /\ k.wait = on.wait /\ k.gate = on.gate
      BY <3>1 DEF LineSet
    <3>6. LineInv(k, a)
      <4>1. Pump(l, a) = k
        BY <2>1, <2>5
      <4> QED BY <4>1, PumpKeeps
    <3> HIDE DEF k
    <3>7. Follows(on, k) /\ Gone(k) = Gone(on)
      BY <2>3, <3>5, FollowsSame
    <3>8. Fairly(l, k, a, {})
      BY <2>3, <3>6, <3>7, FairlyHeld, FairlyTwice
    <3>9. PumpsHead(k)
      <4>1. /\ p.since = stops /\ stops <= stops
            /\ p.on = Awaits(a, k.needs[Head(k.queue)])
        <5>1. stops <= stops
          BY LiveAssumption DEF Epochs
        <5>2. k.needs[Head(k.queue)] = l.needs[Head(on.queue)]
          BY <3>1, <3>5
        <5>3. p.since = stops /\ p.on = Awaits(a, l.needs[Head(on.queue)])
          OBVIOUS
        <5> QED BY <5>1, <5>2, <5>3
      <4> HIDE DEF p
      <4>2. ASSUME NEW q \in p.on PROVE q[1] \in k.needs[Head(k.queue)]
        <5>1. PICK x \in k.needs[Head(k.queue)] : q = <<x, Len(a[x])>>
          BY <4>1 DEF Awaits
        <5> QED BY <5>1
      <4>3. ASSUME NEW x \in k.needs[Head(k.queue)] \ freed PROVE \E q \in p.on : q[1] = x
        <5>1. <<x, Len(a[x])>> \in p.on
          BY <4>1 DEF Awaits
        <5>2. <<x, Len(a[x])>>[1] = x
          OBVIOUS
        <5> QED BY <5>1, <5>2
      <4> QED BY <2>5, <3>5, <4>1, <4>2, <4>3 DEF PumpsHead
    <3>10. Failing(k, a) /\ Rounds(k, a)
      BY <2>3, <3>5, <3>7 DEF Good, Failing, Rounds
    <3>11. Good(k, a)
      BY <3>4, <3>5, <3>9, <3>10 DEF Good
    <3> QED BY <2>1, <2>5, <3>8, <3>11
  <2> QED BY <2>4, <2>5
<1> QED BY <1>3, <1>4

\* The head leaves, its pump over.
LEMMA ShiftGood ==
  ASSUME NEW a, NEW l, LineInv(l, a), Good(l, a), l.queue # <<>>, l.pump = NoPump,
         NEW ok \in BOOLEAN
  PROVE  /\ Good(Shift(l, ok), a) /\ Fairly(l, Shift(l, ok), a, {Head(l.queue)})
         /\ Shift(l, ok).needs = l.needs /\ LineInv(Shift(l, ok), a)
         /\ Shift(l, ok).fate[Head(l.queue)] = IF ok THEN "sent" ELSE "failed"
<1> DEFINE k == Shift(l, ok)
           h == Head(l.queue)
<1>1. LineInv(k, a) /\ Kept(l, k, 0)
  BY ShiftKeeps
<1>2. /\ l \in LineSet(a) /\ Len(l.fate) \in Nat /\ Gone(l) \in Nat
      /\ h \in 1..Len(l.fate) /\ h = Gone(l) + 1 /\ DOMAIN l.fate = 1..Len(l.fate)
      /\ \A i \in 1..Len(l.fate) : l.fate[i] = "held" <=> i > Gone(l)
  BY InNumbers, Fields
<1>3. /\ k.needs = l.needs /\ k.pump = l.pump /\ k.failed = l.failed /\ k.wait = l.wait
      /\ k.gate = l.gate
      /\ k.fate = [l.fate EXCEPT ![h] = IF ok THEN "sent" ELSE "failed"]
  BY <1>2 DEF Shift, LineSet
<1> HIDE DEF k, h
<1>4. /\ k.fate[h] = IF ok THEN "sent" ELSE "failed"
      /\ \A i \in 1..Len(l.fate) : i # h => k.fate[i] = l.fate[i]
      /\ l.fate[h] = "held"
  BY <1>2, <1>3
<1>5. Len(k.fate) = Len(l.fate)
  <2>1. Len(k.fate) = Len(l.fate) + 0
    BY <1>1, Zenon DEF Kept
  <2> QED BY <1>2, <2>1
<1>6. Follows(l, k)
  <2>1. Len(l.fate) <= Len(k.fate)
    BY <1>2, <1>5
  <2> QED BY <1>1, <1>3, <1>4, <2>1 DEF Follows, Kept
<1>7. Good(k, a)
  BY <1>1, <1>3, <1>6, Onward
<1>8. Fairly(l, k, a, {h})
  <2>1. \A i \in 1..Len(k.fate) \ {h} : i <= Len(l.fate) /\ k.fate[i] = l.fate[i]
    BY <1>2, <1>4, <1>5
  <2> QED BY <1>6, <2>1 DEF Fairly
<1> QED BY <1>1, <1>3, <1>4, <1>7, <1>8 DEF k, h

\* A round awaits what is held.
LEMMA RoundGood ==
  ASSUME NEW a \in Asks, NEW l, LineInv(l, a), Good(l, a), stops \in Epochs
  PROVE  Good(Round(l, a), a) /\ Fairly(l, Round(l, a), a, {})
<1> DEFINE w == [busy |-> TRUE,
                 held |-> {[sound |-> i, on |-> Awaits(a, l.needs[i])] :
                             i \in ToSet(l.queue) \ l.failed}]
           k == Round(l, a)
<1>1. LineInv(k, a)
  BY RoundKeeps
<1>2. /\ l \in LineSet(a) /\ Len(l.fate) \in Nat /\ Len(l.needs) = Len(l.fate)
      /\ ToSet(l.queue) = {i \in 1..Len(l.fate) : i > Gone(l)}
  BY InNumbers
<1>3. /\ k.queue = l.queue /\ k.needs = l.needs /\ k.fate = l.fate /\ k.pump = l.pump
      /\ k.failed = l.failed /\ k.gate = "waiting" /\ k.wait = [l.wait EXCEPT ![stops] = w]
  BY <1>2 DEF Round, LineSet
<1> HIDE DEF k
<1>4. Follows(l, k) /\ Gone(k) = Gone(l)
  BY <1>3, FollowsSame
<1>5. Fairly(l, k, a, {})
  BY <1>1, <1>4, FairlyHeld
<1>6. k.wait[stops] = w /\ \A e \in Epochs \ {stops} : k.wait[e] = l.wait[e]
  BY <1>2, <1>3 DEF LineSet
<1>7. \A g \in w.held : g.sound <= Len(l.needs) /\ g.on = Awaits(a, l.needs[g.sound])
  <2> SUFFICES ASSUME NEW i \in ToSet(l.queue), NEW g,
                      g = [sound |-> i, on |-> Awaits(a, l.needs[i])]
               PROVE  g.sound <= Len(l.needs) /\ g.on = Awaits(a, l.needs[g.sound])
    OBVIOUS
  <2>1. g.sound = i /\ g.on = Awaits(a, l.needs[i])
    OBVIOUS
  <2> QED BY <1>2, <2>1
<1> HIDE DEF w
<1>8. \A e \in Epochs : e > stops => e # stops
  BY DEF Epochs
<1>9. Rounds(k, a)
  BY <1>3, <1>4, <1>6, <1>7, <1>8 DEF Rounds, Good
<1>10. PumpsHead(k) /\ Failing(k, a) /\ (k.pump # NoPump => ~Settled(a, k.pump.on))
  BY <1>3 DEF PumpsHead, Failing, Good
<1> QED BY <1>5, <1>9, <1>10 DEF Good, k

\* What is made waits at the end.
LEMMA MadeGood ==
  ASSUME NEW a, NEW l, LineInv(l, a), NEW out \in Seq(SUBSET Given(a)),
         Len(l.needs) + Len(out) <= MaxSounds, Good(l, a)
  PROVE  LET k == MadeLine(l, out)
         IN /\ LineInv(k, a) /\ Good(k, a) /\ Fairly(l, k, a, {})
            /\ k.pump = l.pump /\ k.gate = l.gate
<1> DEFINE k == MadeLine(l, out)
           h == [n \in 1..Len(out) |-> "held"]
<1>1. LineInv(k, a) /\ Kept(l, k, Len(out))
  BY MadeKeeps
<1>2. /\ l \in LineSet(a) /\ Len(l.fate) \in Nat /\ Gone(l) \in Nat /\ Len(l.needs) = Len(l.fate)
      /\ Len(l.queue) \in Nat /\ Gone(l) + Len(l.queue) = Len(l.fate)
      /\ Len(out) \in Nat /\ l.fate \in Seq(Fates) /\ l.needs \in Seq(SUBSET Given(a))
  BY InNumbers, Fields, LenProperties
<1>3. /\ k.needs = l.needs \o out /\ k.pump = l.pump /\ k.failed = l.failed /\ k.wait = l.wait
      /\ k.gate = l.gate /\ k.fate = l.fate \o h
      /\ k.queue = l.queue \o [n \in 1..Len(out) |-> Len(l.needs) + n]
  BY <1>2 DEF MadeLine, LineSet
<1>4. h \in Seq(Fates) /\ Len(h) = Len(out)
  <2>1. h \in [1..Len(out) -> Fates]
    BY DEF Fates
  <2>2. h \in Seq(Fates)
    BY <1>2, <2>1, SeqDef, SMTT(20)
  <2> QED BY <1>2, <2>1, <2>2, LenProperties
<1> HIDE DEF k, h
<1>5. \A i \in 1..Len(l.fate) : k.needs[i] = l.needs[i] /\ k.fate[i] = l.fate[i]
  <2>1. \A i \in 1..(Len(l.needs) + Len(out)) :
          (l.needs \o out)[i] = IF i <= Len(l.needs) THEN l.needs[i] ELSE out[i - Len(l.needs)]
    <3>1. l.needs \in Seq(SUBSET Given(a)) /\ out \in Seq(SUBSET Given(a))
      BY <1>2
    <3> QED BY <3>1, ConcatProperties, Zenon
  <2>2. \A i \in 1..(Len(l.fate) + Len(h)) :
          (l.fate \o h)[i] = IF i <= Len(l.fate) THEN l.fate[i] ELSE h[i - Len(l.fate)]
    <3>1. l.fate \in Seq(Fates) /\ h \in Seq(Fates)
      BY <1>2, <1>4
    <3> QED BY <3>1, ConcatProperties, Zenon
  <2>3. \A i \in 1..Len(l.fate) : i \in 1..(Len(l.fate) + Len(out)) /\ i <= Len(l.fate)
    BY <1>2
  <2> QED BY <1>2, <1>3, <1>4, <2>1, <2>2, <2>3, Zenon
<1>6. Len(k.fate) = Len(l.fate) + Len(out)
  BY <1>1, Zenon DEF Kept
<1>7. Follows(l, k)
  <2>1. Len(l.fate) <= Len(k.fate)
    BY <1>2, <1>6
  <2> QED BY <1>1, <1>5, <2>1 DEF Follows, Kept
<1>8. Gone(k) = Gone(l)
  <2> SUFFICES ASSUME Gone(l) < Gone(k) PROVE FALSE
    <3>1. Gone(k) \in Nat /\ Gone(l) <= Gone(k)
      BY <1>1, InNumbers DEF Kept
    <3> QED BY <1>2, <3>1
  <2>1. Gone(k) \in Nat /\ Gone(k) + Len(k.queue) = Len(k.fate) /\ Len(k.queue) \in Nat
    BY <1>1, InNumbers
  <2>2. Len(k.queue) = Len(l.queue) + Len(out)
    <3> DEFINE q == [n \in 1..Len(out) |-> Len(l.needs) + n]
    <3>1. q \in [1..Len(out) -> Nat]
      BY <1>2
    <3>2. q \in Seq(Nat)
      BY <1>2, <3>1, SeqDef, SMTT(20)
    <3>3. Len(q) = Len(out)
      BY <1>2, <3>1, <3>2, LenProperties
    <3>4. l.queue \in Seq(Nat)
      <4>1. l.queue \in Seq(Sounds) /\ \A i \in 1..Len(l.queue) : l.queue[i] \in Nat
        BY InNumbers, ElementOfSeq DEF Sounds
      <4>2. l.queue \in [1..Len(l.queue) -> Nat]
        BY <4>1, LenProperties
      <4> QED BY <1>2, <4>2, SeqDef, SMTT(20)
    <3> HIDE DEF q
    <3>5. Len(l.queue \o q) = Len(l.queue) + Len(q)
      BY <3>2, <3>4, ConcatProperties, Zenon
    <3> QED BY <1>3, <3>3, <3>5, Zenon DEF q
  <2> QED BY <1>2, <1>6, <2>1, <2>2
<1>9. Good(k, a)
  BY <1>1, <1>3, <1>7, <1>8, Onward
<1>10. Fairly(l, k, a, {})
  BY <1>1, <1>7, <1>8, FairlyHeld
<1> QED BY <1>1, <1>3, <1>9, <1>10 DEF k


\* What a call of the runtime makes, wherever it goes.
LEMMA DrainsFairly ==
  ASSUME NEW a \in Asks, NEW l, LineInv(l, a), NEW out \in Seq(SUBSET Given(a)),
         Len(l.needs) + Len(out) <= MaxSounds, stops \in Epochs, Good(l, a)
  PROVE  /\ Good(Drain(l, a, out), a) /\ Fairly(l, Drain(l, a, out), a, {})
         /\ LineInv(Drain(l, a, out), a)
<1> DEFINE made == MadeLine(l, out)
           n == Leading(made, Readies(made, a))
           ready == Leave(made, a, n)
<1>1. LineInv(Drain(l, a, out), a)
  BY DrainKeeps
<1>2. CASE out = <<>>
  <2>1. Drain(l, a, out) = l
    BY <1>2 DEF Drain
  <2>2. Fairly(l, l, a, {})
    BY FollowsSame, FairlyHeld
  <2> QED BY <1>1, <2>1, <2>2
<1>3. CASE out # <<>>
  <2>1. /\ LineInv(made, a) /\ Good(made, a) /\ Fairly(l, made, a, {})
        /\ made.pump = l.pump
    BY MadeGood
  <2>2. \/ Drain(l, a, out) \in {Round(made, a), Pump(made, a)}
        \/ l.queue = <<>> /\ Drain(l, a, out) = Pump(ready, a)
    BY <1>3 DEF Drain, MadeLine
  <2> HIDE DEF made
  <2>3. CASE Drain(l, a, out) = Round(made, a)
    <3>1. Good(Round(made, a), a) /\ Fairly(made, Round(made, a), a, {})
      BY <2>1, RoundGood
    <3> QED BY <1>1, <2>1, <2>3, <3>1, FairlyTwice
  <2>4. CASE Drain(l, a, out) = Pump(made, a)
    <3>1. Good(Pump(made, a), a) /\ Fairly(made, Pump(made, a), a, {})
      BY <2>1, PumpsFairly
    <3> QED BY <1>1, <2>1, <2>4, <3>1, FairlyTwice
  <2>5. CASE l.queue = <<>> /\ Drain(l, a, out) = Pump(ready, a)
    <3>1. made.pump # NoPump => made.pump.since # stops
      BY <2>1, <2>5 DEF Good, PumpsHead
    <3>2. n \in 0..Len(made.queue) /\ \A m \in 1..n : made.queue[m] \in Readies(made, a)
      BY <2>1, InNumbers, LeadingIs
    <3> HIDE DEF n
    <3>3. \A m \in 1..n : Ready(made, a, made.queue[m])
      BY <3>2 DEF Readies
    <3>4. Good(ready, a) /\ Fairly(made, ready, a, {}) /\ LineInv(ready, a)
      BY <2>1, <3>1, <3>2, <3>3, LeavesFairly
    <3> HIDE DEF ready
    <3>5. Good(Pump(ready, a), a) /\ Fairly(ready, Pump(ready, a), a, {})
      BY <3>4, PumpsFairly
    <3>6. Fairly(l, ready, a, {})
      BY <2>1, <3>4, FairlyTwice
    <3> QED BY <1>1, <2>5, <3>4, <3>5, <3>6, FairlyTwice
  <2> QED BY <2>2, <2>3, <2>4, <2>5
<1> QED BY <1>2, <1>3

\* What is asked for does not change what is awaited, nor what was fair.
LEMMA AskedGood ==
  ASSUME LoaderTypeOK, NEW a \in Asks, Grows(asks, a), \A x \in Given(asks) : a[x] = asks[x],
         NEW l, LineInv(l, asks), Good(l, asks)
  PROVE  Good(l, a)
<1>1. /\ l \in LineSet(asks) /\ Len(l.needs) = Len(l.fate)
      /\ ToSet(l.queue) = {i \in 1..Len(l.fate) : i > Gone(l)}
      /\ \A i \in 1..Len(l.fate) : l.needs[i] \in SUBSET Given(asks)
      /\ Len(l.fate) \in Nat
  BY InNumbers
<1>2. \A x \in Given(asks) : State(a, x) = State(asks, x)
  BY DEF State
<1>3. \A p \in Pairs(asks) : p[1] \in Given(asks)
  <2> SUFFICES ASSUME NEW x \in Things, NEW p \in {x} \X DOMAIN asks[x]
               PROVE  p[1] \in Given(asks)
    BY DEF Pairs
  <2>1. p[1] = x /\ DOMAIN asks[x] # {}
    OBVIOUS
  <2>2. asks[x] # <<>>
    BY <2>1
  <2> QED BY <2>1, <2>2 DEF Given
<1>4. \A i \in 1..Len(l.fate) : Awaits(a, l.needs[i]) = Awaits(asks, l.needs[i])
  <2> SUFFICES ASSUME NEW i \in 1..Len(l.fate)
               PROVE  Awaits(a, l.needs[i]) = Awaits(asks, l.needs[i])
    OBVIOUS
  <2>1. \A x \in l.needs[i] \ freed : <<x, Len(a[x])>> = <<x, Len(asks[x])>>
    BY <1>1
  <2> QED BY <2>1 DEF Awaits
<1>5. l.pump # NoPump => ~Settled(a, l.pump.on)
  <2>1. \A p \in l.pump.on : p[1] \in Given(asks)
    BY <1>1, <1>3 DEF LineSet
  <2>2. \A p \in l.pump.on : a[p[1]][p[2]] = asks[p[1]][p[2]]
    BY <2>1
  <2> QED BY <2>2 DEF Good, Settled
<1>6. Failing(l, a)
  <2>1. \A i \in l.failed \cap ToSet(l.queue) : \A x \in l.needs[i] : State(a, x) = State(asks, x)
    BY <1>1, <1>2
  <2> QED BY <2>1 DEF Failing, Good
<1>7. Rounds(l, a)
  <2>1. ASSUME NEW h \in l.wait[stops].held, stops \in Epochs, h.sound <= Len(l.needs)
        PROVE  h.sound \in 1..Len(l.fate)
    BY <1>1, <2>1 DEF LineSet, Sounds
  <2> QED BY <1>4, <2>1 DEF Good, Rounds
<1> QED BY <1>5, <1>6, <1>7 DEF Good

LEMMA AskedFairly ==
  ASSUME LoaderTypeOK, NEW a \in Asks, \A x \in Given(asks) : a[x] = asks[x],
         NEW l, NEW k, LineInv(k, asks), Fairly(l, k, asks, {})
  PROVE  Fairly(l, k, a, {})
<1>1. \A x \in Given(asks) : State(a, x) = State(asks, x)
  BY DEF State
<1>2. \A i \in 1..Len(k.fate) : \A x \in k.needs[i] : State(a, x) = State(asks, x)
  BY <1>1, InNumbers
<1> QED BY <1>2 DEF Fairly, Ready, IsReady


\* An answer changes nothing but what was pending.
LEMMA AnsweredGood ==
  ASSUME NEW a \in Asks, asks \in Asks,
         \A x \in Things : /\ Len(a[x]) = Len(asks[x])
                           /\ \A n \in DOMAIN asks[x] :
                                asks[x][n] # "pending" => a[x][n] = asks[x][n],
         NEW l, LineInv(l, asks), Good(l, asks)
  PROVE  PumpsHead(l) /\ Failing(l, a) /\ Rounds(l, a)
<1>1. /\ l \in LineSet(asks) /\ Len(l.needs) = Len(l.fate)
      /\ ToSet(l.queue) = {i \in 1..Len(l.fate) : i > Gone(l)}
      /\ \A i \in 1..Len(l.fate) : l.needs[i] \in SUBSET Given(asks)
      /\ Len(l.fate) \in Nat
  BY InNumbers
<1>2. ASSUME NEW x \in Given(asks), State(asks, x) # "pending"
      PROVE  State(a, x) = State(asks, x)
  <2>1. /\ x \in Things /\ Len(asks[x]) \in DOMAIN asks[x] /\ Len(asks[x]) > 0
        /\ State(asks, x) = asks[x][Len(asks[x])] /\ Len(asks[x]) \in Nat
    BY LastPromise
  <2>2. a[x] # <<>>
    <3>1. a[x] \in Seq(Promises) /\ Len(a[x]) # 0
      BY <2>1 DEF Asks
    <3> QED BY <3>1, EmptySeq
  <2>3. State(a, x) = a[x][Len(a[x])]
    BY <2>2 DEF State, Last
  <2> QED BY <1>2, <2>1, <2>3
<1>3. Failing(l, a)
  <2> SUFFICES ASSUME NEW i \in l.failed \cap ToSet(l.queue)
               PROVE  /\ \E x \in l.needs[i] : State(a, x) = "failed"
                      /\ \A x \in l.needs[i] \ freed : State(a, x) # "pending"
    BY DEF Good, Failing
  <2>1. /\ \E x \in l.needs[i] : State(asks, x) = "failed"
        /\ \A x \in l.needs[i] \ freed : State(asks, x) # "pending"
    BY DEF Good, Failing
  <2>2. l.needs[i] \in SUBSET Given(asks)
    BY <1>1
  <2> QED BY <1>2, <2>1, <2>2
<1>4. \A i \in 1..Len(l.fate) : Awaits(a, l.needs[i]) = Awaits(asks, l.needs[i])
  <2> SUFFICES ASSUME NEW i \in 1..Len(l.fate)
               PROVE  Awaits(a, l.needs[i]) = Awaits(asks, l.needs[i])
    OBVIOUS
  <2>1. \A x \in l.needs[i] \ freed : <<x, Len(a[x])>> = <<x, Len(asks[x])>>
    BY <1>1 DEF Given
  <2> QED BY <2>1 DEF Awaits
<1>5. Rounds(l, a)
  <2>1. ASSUME NEW h \in l.wait[stops].held, stops \in Epochs, h.sound <= Len(l.needs)
        PROVE  h.sound \in 1..Len(l.fate)
    BY <1>1, <2>1 DEF LineSet, Sounds
  <2> QED BY <1>4, <2>1 DEF Good, Rounds
<1> QED BY <1>3, <1>5 DEF Good

\* The pump's turn: the head goes by what was awaited, the rest is fair.
LEMMA ResumesFairly ==
  ASSUME NEW a \in Asks, NEW l, LineInv(l, a), PumpsHead(l), Failing(l, a), Rounds(l, a),
         stops \in Epochs
  PROVE  LET h == Head(l.queue)
             k == Resume(l, a)
         IN /\ Good(k, a)
            /\ \/ Fairly(l, k, a, {})
               \/ /\ l.queue # <<>> /\ l.pump # NoPump /\ l.pump.since = stops
                  /\ Fairly(l, k, a, {h}) /\ Settled(a, l.pump.on)
                  /\ k.fate[h] = IF \A p \in l.pump.on : a[p[1]][p[2]] = "ok"
                                 THEN "sent" ELSE "failed"
<1> DEFINE h == Head(l.queue)
           k == Resume(l, a)
           idle == [l EXCEPT !.pump = NoPump]
           ok == \A p \in l.pump.on : a[p[1]][p[2]] = "ok"
           j == Shift(idle, ok)
<1>0. l \in LineSet(a)
  BY DEF LineInv
<1>1. LineInv(k, a)
  BY ResumeKeeps
<1>2. CASE l.pump = NoPump \/ ~Settled(a, l.pump.on)
  <2>1. k = l
    BY <1>2 DEF Resume
  <2>2. Good(l, a)
    BY <1>2 DEF Good
  <2>3. Fairly(l, l, a, {})
    BY FollowsSame, FairlyHeld
  <2> QED BY <2>1, <2>2, <2>3
<1>3. CASE l.pump # NoPump /\ Settled(a, l.pump.on)
  <2>1. /\ idle.queue = l.queue /\ idle.needs = l.needs /\ idle.fate = l.fate
        /\ idle.pump = NoPump /\ idle.failed = l.failed /\ idle.wait = l.wait
        /\ idle.gate = l.gate
    BY <1>0 DEF LineSet
  <2>2. LineInv(idle, a)
    <3>1. NoPump \in [on : SUBSET Pairs(a), since : 0..(MaxStops + 1)]
      BY LiveAssumption DEF NoPump
    <3>2. idle \in LineSet(a)
      BY <1>0, <3>1 DEF LineSet
    <3> HIDE DEF idle
    <3> QED BY <2>1, <3>2, SameLine
  <2>3. \/ k \in {idle, Pump(idle, a)}
        \/ l.pump.since = stops /\ l.queue # <<>> /\ k = Pump(j, a)
    BY <1>3 DEF Resume
  <2> HIDE DEF idle
  <2>4. Follows(l, idle) /\ Gone(idle) = Gone(l)
    BY <2>1, FollowsSame
  <2>5. Good(idle, a)
    BY <2>1, <2>4 DEF Good, PumpsHead, Failing, Rounds
  <2>6. Fairly(l, idle, a, {})
    BY <2>2, <2>4, FairlyHeld
  <2>7. CASE k = idle
    BY <2>5, <2>6, <2>7
  <2>8. CASE k = Pump(idle, a)
    <3>1. Good(k, a) /\ Fairly(idle, k, a, {})
      BY <2>2, <2>5, <2>8, PumpsFairly
    <3>2. Fairly(l, k, a, {})
      BY <1>1, <2>2, <2>6, <3>1, FairlyTwice
    <3> QED BY <3>1, <3>2
  <2>9. CASE l.pump.since = stops /\ l.queue # <<>> /\ k = Pump(j, a)
    <3>1. ok \in BOOLEAN
      OBVIOUS
    <3>2. h = Head(idle.queue) /\ idle.queue # <<>>
      BY <2>1, <2>9
    <3> HIDE DEF ok
    <3>3. /\ Good(j, a) /\ Fairly(idle, j, a, {h}) /\ LineInv(j, a)
          /\ j.fate[h] = IF ok THEN "sent" ELSE "failed"
      BY <2>1, <2>2, <2>5, <3>1, <3>2, ShiftGood, ZenonT(60)
    <3> HIDE DEF j
    <3>4. Good(k, a) /\ Fairly(j, k, a, {})
      BY <2>9, <3>3, PumpsFairly
    <3>5. Fairly(l, j, a, {h})
      BY <2>1, <2>4, <3>3 DEF Fairly, Follows
    <3>6. Fairly(l, k, a, {h})
      BY <1>1, <3>3, <3>4, <3>5, FairlyTwice
    <3>7. k.fate[h] = j.fate[h]
      <4>1. h \in 1..Len(l.fate) /\ Len(l.fate) \in Nat /\ Len(j.fate) \in Nat
        BY <2>9, <3>3, InNumbers
      <4>2. h \in 1..Len(j.fate)
        BY <3>5, <4>1 DEF Fairly, Follows
      <4>3. j.fate[h] # "held"
        BY <3>3
      <4> QED BY <3>4, <4>2, <4>3 DEF Fairly, Follows
    <3> QED BY <1>3, <2>9, <3>3, <3>4, <3>6, <3>7 DEF ok
  <2> QED BY <2>3, <2>7, <2>8, <2>9
<1> QED BY <1>2, <1>3

-----------------------------------------------------------------------------
(* The steps                                                                *)

(* What a step has let go it let go as the properties say.                  *)
Sent(i) ==
  \A x \in line'.needs[i] \ freed' :
    /\ engine'[x] # Nothing
    /\ x \in Defs => engine'[x] = url'[x] \/ Replaced(i, x)
Dropped(i) ==
  \E x \in line'.needs[i] : \/ State(asks', x) = "failed"
                            \/ Replaced(i, x) /\ "failed" \in ToSet(asks[x])
Honest ==
  \A i \in 1..Len(line'.fate) : (i <= Len(line.fate) => line.fate[i] = "held") =>
    (line'.fate[i] = "sent" => Sent(i)) /\ (line'.fate[i] = "failed" => Dropped(i))

\* What is fair is honest, the loads being in the engine.
LEMMA FairIsHonest ==
  ASSUME LineInv(line', asks'), LoaderTypeOK', Present', freed \subseteq freed', NEW E,
         Fairly(line, line', asks', E),
         \A i \in E : /\ line'.fate[i] = "sent" => Sent(i)
                      /\ line'.fate[i] = "failed" => Dropped(i)
  PROVE  Honest
<1> SUFFICES ASSUME NEW i \in 1..Len(line'.fate) \ E,
                    i <= Len(line.fate) => line.fate[i] = "held"
             PROVE  /\ line'.fate[i] = "sent" => Sent(i)
                    /\ line'.fate[i] = "failed" => Dropped(i)
  BY DEF Honest
<1>1. /\ line'.fate[i] = "sent" => Ready(line', asks', i)
      /\ line'.fate[i] = "failed" => \E x \in line'.needs[i] : State(asks', x) = "failed"
  BY DEF Fairly
<1>2. line'.needs[i] \in SUBSET Given(asks') /\ asks' \in Asks
  BY InNumbers DEF LoaderTypeOK, Asks
<1>3. ASSUME Ready(line', asks', i), NEW x \in line'.needs[i] \ freed'
      PROVE  engine'[x] # Nothing /\ (x \in Defs => engine'[x] = url'[x])
  <2>1. State(asks', x) = "ok"
    BY <1>3 DEF Ready, IsReady
  <2>2. /\ x \in Things /\ Len(asks'[x]) \in DOMAIN asks'[x]
        /\ asks'[x][Len(asks'[x])] = "ok"
    BY <1>2, <2>1, LastPromise
  <2>3. engine'[x] # Nothing /\ engine'[x] = From(x)'
    BY <2>2 DEF Present
  <2> QED BY <2>3 DEF From
<1> QED BY <1>1, <1>3 DEF Sent, Dropped

\* Where nothing is asked, freed or stopped.
LEMMA SameGood ==
  ASSUME freed' = freed, stops' = stops, Good(line', asks')
  PROVE  Good(line, asks)'
BY DEF Good, PumpsHead, Failing, Rounds, Awaits, Gone, Settled, State


StepGood == InTime' /\ Present' /\ Good(line, asks)' /\ Honest

\* What LoadInv says of the line.
LEMMA LineNow ==
  ASSUME LoadInv
  PROVE  /\ LoaderTypeOK /\ asks \in Asks /\ LineInv(line, asks) /\ stops \in Epochs
         /\ InTime /\ Present /\ Good(line, asks) /\ Fairly(line, line, asks, {})
<1>1. LoaderTypeOK /\ LineInv(line, asks) /\ stops \in Epochs
  BY DEF LoadInv, IInv
<1>2. asks \in Asks
  BY <1>1, Loads
<1>3. Fairly(line, line, asks, {})
  BY <1>1, FollowsSame, FairlyHeld
<1> QED BY <1>1, <1>2, <1>3 DEF LoadInv

\* A step of the line, with nothing asked for, answered or freed.
LEMMA CalmStep ==
  ASSUME LoadInv, IInv', UNCHANGED <<loaderVars, stops>>, Good(line', asks),
         Fairly(line, line', asks, {})
  PROVE  StepGood
<1>1. /\ UNCHANGED <<asks, unanswered, url, loading, engine, freed, stops>>
      /\ LineInv(line', asks') /\ LoaderTypeOK'
  BY DEF loaderVars, IInv
<1>2. InTime' /\ Present'
  BY <1>1, LineNow DEF InTime, Present, From
<1>3. Good(line, asks)'
  BY <1>1, SameGood
<1>4. Honest
  BY <1>1, <1>2, FairIsHonest
<1> QED BY <1>2, <1>3, <1>4 DEF StepGood

\* A step that asks for X.
LEMMA AskStep ==
  ASSUME LoadInv, IInv', NEW X \in SUBSET Things, Ask(X), stops' = stops,
         Good(line', Asked(X)), Fairly(line, line', Asked(X), {})
  PROVE  StepGood
<1>1. InTime' /\ Present' /\ freed' = freed /\ asks' = Asked(X)
  BY LineNow, Asking DEF Ask
<1>2. LineInv(line', asks') /\ LoaderTypeOK'
  BY DEF IInv
<1>3. Good(line, asks)'
  BY <1>1, SameGood
<1>4. Honest
  BY <1>1, <1>2, FairIsHonest
<1> QED BY <1>1, <1>3, <1>4 DEF StepGood

\* The line l a step has come to, as the things it needs are asked for.
LEMMA AskedLine ==
  ASSUME LoadInv, NEW X \in SUBSET Things, Ask(X), NEW l, LineInv(l, asks), Good(l, asks),
         Fairly(line, l, asks, {})
  PROVE  /\ Asked(X) \in Asks /\ LineInv(l, Asked(X)) /\ Good(l, Asked(X))
         /\ LineInv(line, Asked(X)) /\ Fairly(line, l, Asked(X), {})
         /\ X \subseteq Given(Asked(X))
<1> DEFINE b == Asked(X)
<1>1. /\ b \in Asks /\ Grows(asks, b) /\ X \subseteq Given(b)
      /\ \A x \in Given(asks) : b[x] = asks[x]
  BY LineNow, AskKeeps, Asking
<1> HIDE DEF b
<1>2. LineInv(l, b) /\ LineInv(line, b)
  BY <1>1, LineNow, GrowKeeps
<1>3. Good(l, b)
  BY <1>1, LineNow, AskedGood
<1>4. Fairly(line, l, b, {})
  BY <1>1, LineNow, AskedFairly
<1> QED BY <1>1, <1>2, <1>3, <1>4 DEF b

\* A call of the runtime, made to such a line.
LEMMA CallFairly ==
  ASSUME stops \in Epochs, NEW b \in Asks, NEW l, LineInv(line, b), LineInv(l, b), Good(l, b),
         Fairly(line, l, b, {}), NEW out \in Outboxes, NeedsOf(out) \subseteq Given(b),
         Len(l.needs) + Len(out) <= MaxSounds
  PROVE  LET k == Drain(l, b, out)
         IN Good(k, b) /\ Fairly(line, k, b, {}) /\ LineInv(k, b)
<1>1. out \in Seq(SUBSET Given(b))
  <2>1. out \in Seq(SUBSET Things) /\ Len(out) \in Nat /\ DOMAIN out = 1..Len(out)
    BY LiveAssumption, LenProperties
  <2>2. \A i \in 1..Len(out) : out[i] \in SUBSET Given(b)
    BY <2>1 DEF NeedsOf, ToSet
  <2>3. out \in [1..Len(out) -> SUBSET Given(b)]
    BY <2>1, <2>2, LenProperties
  <2> QED BY <2>1, <2>3, SeqDef
<1>2. LET k == Drain(l, b, out) IN Good(k, b) /\ Fairly(l, k, b, {}) /\ LineInv(k, b)
  BY <1>1, DrainsFairly
<1> QED BY <1>2, FairlyTwice

LEMMA CallStep ==
  ASSUME LoadInv, IInv', stops' = stops, NEW out \in Outboxes, Ask(NeedsOf(out)),
         NEW l, LineInv(l, asks), Good(l, asks), Fairly(line, l, asks, {}),
         Len(l.needs) + Len(out) <= MaxSounds,
         line' = Drain(l, Asked(NeedsOf(out)), out)
  PROVE  StepGood
<1>1. NeedsOf(out) \in SUBSET Things
  BY NeedsAreThings
<1>2. LET b == Asked(NeedsOf(out))
      IN /\ b \in Asks /\ LineInv(l, b) /\ Good(l, b) /\ LineInv(line, b)
         /\ Fairly(line, l, b, {}) /\ NeedsOf(out) \subseteq Given(b)
  BY <1>1, AskedLine
<1>3. Good(line', Asked(NeedsOf(out))) /\ Fairly(line, line', Asked(NeedsOf(out)), {})
  BY <1>2, LineNow, CallFairly
<1> QED BY <1>1, <1>3, AskStep

\* A gate opened or closed where none waits.
LEMMA GateGood ==
  ASSUME NEW a, NEW l, LineInv(l, a), Good(l, a), NEW g \in {"none", "open", "waiting"},
         g = l.gate \/ "waiting" \notin {g, l.gate}
  PROVE  LET k == [l EXCEPT !.gate = g]
         IN Good(k, a) /\ Fairly(l, k, a, {}) /\ LineInv(k, a)
            /\ k.needs = l.needs
<1> DEFINE k == [l EXCEPT !.gate = g]
<1>1. LineInv(k, a)
  BY GateKeeps
<1>2. /\ k.queue = l.queue /\ k.needs = l.needs /\ k.fate = l.fate /\ k.gate = g
      /\ k.pump = l.pump /\ k.failed = l.failed /\ k.wait = l.wait
  BY DEF LineInv, LineSet
<1> HIDE DEF k
<1>3. Follows(l, k) /\ Gone(k) = Gone(l)
  BY <1>2, FollowsSame
<1>4. Good(k, a) /\ Fairly(l, k, a, {})
  BY <1>1, <1>2, <1>3, Onward, FairlyHeld
<1> QED BY <1>1, <1>2, <1>4 DEF k

LEMMA OpenedGood ==
  ASSUME LoadInv
  PROVE  /\ Good(Opened, asks) /\ Fairly(line, Opened, asks, {}) /\ LineInv(Opened, asks)
         /\ Opened.needs = line.needs
<1> DEFINE g == IF ~running /\ line.gate = "none" THEN "open" ELSE line.gate
<1>1. /\ g \in {"none", "open", "waiting"} /\ (g = line.gate \/ "waiting" \notin {g, line.gate})
      /\ Opened = [line EXCEPT !.gate = g]
  BY LineNow DEF LineInv, LineSet, Opened
<1> HIDE DEF g
<1> QED BY <1>1, LineNow, GateGood

LEMMA StartGood ==
  ASSUME LoadInv, IInv', NEW r \in Runs, NEW head \in Outboxes, NEW out \in Outboxes,
         NEW more \in BOOLEAN, Start(r, head, out, more)
  PROVE  StepGood
<1> DEFINE X == Names[r] \cup NeedsOf(head) \cup NeedsOf(out)
           b == Asked(X)
           once == Drain(Opened, b, head)
<1>1. /\ X \in SUBSET Things /\ Ask(X) /\ stops' = stops
      /\ line' = Drain(once, b, out) /\ Len(line.needs) + Len(head \o out) <= MaxSounds
      /\ NeedsOf(head) \subseteq X /\ NeedsOf(out) \subseteq X
  BY NeedsAreThings, LiveAssumption DEF Start, Room
<1> HIDE DEF X
<1>2. /\ b \in Asks /\ LineInv(Opened, b) /\ Good(Opened, b) /\ LineInv(line, b)
      /\ Fairly(line, Opened, b, {}) /\ X \subseteq Given(b)
  BY <1>1, OpenedGood, AskedLine
<1> HIDE DEF b
<1>3. /\ Len(head) \in Nat /\ Len(out) \in Nat /\ Len(line.needs) \in Nat
      /\ Len(head \o out) = Len(head) + Len(out)
  <2>1. head \in Seq(SUBSET Things) /\ out \in Seq(SUBSET Things)
    BY NeedsAreThings
  <2>2. Len(head \o out) = Len(head) + Len(out)
    BY <2>1, ConcatProperties, Zenon
  <2> QED BY <2>1, <2>2, LineNow, LenProperties, InNumbers
<1>4. Len(line.needs) + Len(head) <= MaxSounds /\ Len(line.needs) + Len(head) + Len(out) <= MaxSounds
  <2>1. \A x, y, z, m \in Nat : x + (y + z) <= m => x + y <= m /\ x + y + z <= m
    OBVIOUS
  <2> QED BY <1>1, <1>3, <2>1, LiveAssumption, Zenon
<1>5. NeedsOf(head) \subseteq Given(b) /\ NeedsOf(out) \subseteq Given(b)
      /\ Opened.needs = line.needs
  BY <1>1, <1>2, OpenedGood
<1>6. Good(once, b) /\ Fairly(line, once, b, {}) /\ LineInv(once, b)
  BY <1>2, <1>4, <1>5, LineNow, CallFairly
<1>7. Len(once.needs) = Len(line.needs) + Len(head)
  <2>1. Kept(Opened, once, Len(head))
    BY <1>2, <1>4, <1>5, LineNow, Emits
  <2>2. Len(once.needs) = Len(once.fate) /\ Len(Opened.needs) = Len(Opened.fate)
    BY <1>2, <1>6, InNumbers
  <2> QED BY <1>5, <2>1, <2>2, Zenon DEF Kept
<1> HIDE DEF once
<1>8. Good(line', b) /\ Fairly(line, line', b, {})
  BY <1>1, <1>2, <1>4, <1>5, <1>6, <1>7, LineNow, CallFairly
<1> QED BY <1>1, <1>8, AskStep DEF b


LEMMA StartFailsGood ==
  ASSUME LoadInv, IInv', NEW r \in Runs, StartFails(r)
  PROVE  StepGood
<1>1. /\ Names[r] \in SUBSET Things /\ Ask(Names[r]) /\ stops' = stops /\ line' = Opened
  BY LiveAssumption DEF StartFails
<1>2. Good(line', Asked(Names[r])) /\ Fairly(line, line', Asked(Names[r]), {})
  BY <1>1, OpenedGood, AskedLine
<1> QED BY <1>1, <1>2, AskStep

LEMMA TickGood ==
  ASSUME LoadInv, IInv', NEW out \in Outboxes, NEW more \in BOOLEAN,
         Tick(out, more) \/ Cue(out, more)
  PROVE  StepGood
<1>1. /\ Ask(NeedsOf(out)) /\ line' = Drain(line, Asked(NeedsOf(out)), out)
      /\ Len(line.needs) + Len(out) <= MaxSounds /\ stops' = stops
  BY DEF Tick, Cue, Room
<1> QED BY <1>1, LineNow, CallStep

LEMMA FreesGood ==
  ASSUME LoadInv, IInv', Frees
  PROVE  StepGood
<1>1. /\ UNCHANGED <<loaderVars, stops>> /\ line' = Drain(line, asks, <<{}>>)
      /\ Len(line.needs) + Len(<<{}>>) <= MaxSounds
  BY DEF Frees, Room
<1>2. <<{}>> \in Seq(SUBSET Given(asks))
  OBVIOUS
<1>3. Good(line', asks) /\ Fairly(line, line', asks, {})
  BY <1>1, <1>2, LineNow, DrainsFairly
<1> QED BY <1>1, <1>3, CalmStep

\* A program loads a synthdef from another URL: what waits awaits what it did.
LEMMA UrlGood ==
  ASSUME LoadInv, IInv', Patient, NEW d \in Defs, NEW u \in Urls, TickLoadsUrl(d, u)
  PROVE  StepGood
<1>1. /\ AskUrl(d, u) /\ UNCHANGED <<line, running, stops, runs>> /\ line.gate # "waiting"
      /\ d \notin unanswered
  BY DEF TickLoadsUrl, liveVars, Patient
<1>2. /\ InTime' /\ Present' /\ freed' = freed
      /\ \A x \in Things : \A n \in DOMAIN asks[x] : asks'[x][n] = asks[x][n]
  BY <1>1, LineNow, AskingUrl
<1>3. /\ line \in LineSet(asks) /\ LineInv(line', asks') /\ LoaderTypeOK'
  BY LineNow DEF LineInv, IInv
<1>4. line.pump # NoPump => ~Settled(asks', line.pump.on)
  <2> SUFFICES ASSUME line.pump # NoPump, Settled(asks', line.pump.on)
               PROVE  FALSE
    OBVIOUS
  <2>1. PICK p \in line.pump.on : asks[p[1]][p[2]] = "pending"
    BY LineNow DEF Good, Settled
  <2>2. p \in Pairs(asks)
    BY <1>3 DEF LineSet
  <2>3. PICK x \in Things : p \in {x} \X DOMAIN asks[x]
    BY <2>2 DEF Pairs
  <2>4. p[1] = x /\ p[2] \in DOMAIN asks[x]
    BY <2>3
  <2>5. asks'[p[1]][p[2]] = "pending"
    BY <1>2, <2>1, <2>4
  <2> QED BY <2>5 DEF Settled
<1>5. Rounds(line, asks')
  <2>1. line.wait[stops] = NoWait
    BY <1>1, LineNow DEF Good, Rounds
  <2>2. \A h \in line.wait[stops].held : FALSE
    BY <2>1 DEF NoWait
  <2> QED BY <2>2, LineNow DEF Good, Rounds
<1>6. Failing(line, asks')
  BY <1>1, LineNow DEF Good, Failing
<1>7. Good(line', asks')
  BY <1>1, <1>4, <1>5, <1>6, LineNow DEF Good
<1>8. Good(line, asks)'
  BY <1>1, <1>2, <1>7, SameGood
<1>9. Fairly(line, line', asks', {})
  <2>1. Follows(line, line') /\ Gone(line') = Gone(line)
    BY <1>1, LineNow, FollowsSame
  <2>2. LineInv(line, asks')
    BY <1>1, <1>3
  <2> QED BY <1>3, <2>1, <2>2, FairlyHeld
<1>10. Honest
  BY <1>2, <1>3, <1>9, FairIsHonest
<1> QED BY <1>2, <1>8, <1>10 DEF StepGood

\* A program frees a sample that has been answered.
LEMMA FreedGood ==
  ASSUME LoadInv, IInv', Patient, NEW b \in Bufs, TickFrees(b)
  PROVE  StepGood
<1>1. /\ Free(b) /\ UNCHANGED <<line, running, stops, runs>> /\ line.gate # "waiting"
      /\ State(asks, b) # "pending"
  BY DEF TickFrees, liveVars, Patient
<1>2. InTime' /\ Present' /\ asks' = asks /\ freed' = freed \cup {b}
  BY <1>1, LineNow, Freeing
<1>3. /\ LineInv(line', asks') /\ LoaderTypeOK'
  BY DEF IInv
<1>4. Good(line, asks)'
  <2>1. PumpsHead(line)'
    <3>1. PumpsHead(line)
      BY LineNow DEF Good
    <3> QED BY <1>1, <1>2, <3>1 DEF PumpsHead
  <2>2. (line.pump # NoPump => ~Settled(asks, line.pump.on))'
    BY <1>1, <1>2, LineNow DEF Good, Settled
  <2>3. Failing(line, asks)'
    BY <1>1, <1>2, LineNow DEF Good, Failing, State
  <2>4. Rounds(line, asks)'
    <3>1. line.wait[stops] = NoWait
      BY <1>1, LineNow DEF Good, Rounds
    <3>2. \A h \in line.wait[stops].held : FALSE
      BY <3>1 DEF NoWait
    <3>3. Gone(line)' = Gone(line)
      BY <1>1 DEF Gone
    <3>4. Rounds(line, asks)
      BY LineNow DEF Good
    <3> QED BY <1>1, <3>1, <3>2, <3>3, <3>4 DEF Rounds
  <2> QED BY <2>1, <2>2, <2>3, <2>4 DEF Good
<1>5. Fairly(line, line', asks', {})
  BY <1>1, <1>2, LineNow
<1>6. Honest
  BY <1>2, <1>3, <1>5, FairIsHonest
<1> QED BY <1>2, <1>4, <1>6 DEF StepGood

\* Stop: what was awaited is of a session that is over.
LEMMA StopGood ==
  ASSUME LoadInv, IInv', Stop
  PROVE  StepGood
<1>0. /\ LineInv(line, asks) /\ Good(line, asks) /\ line \in LineSet(asks) /\ stops \in Nat
      /\ Len(line.fate) \in Nat /\ Gone(line) \in Nat /\ Len(line.needs) = Len(line.fate)
      /\ DOMAIN line.fate = 1..Len(line.fate) /\ Gone(line) <= Len(line.fate)
  <2>1. stops \in Nat /\ LineInv(line, asks) /\ Good(line, asks)
    BY LineNow, LiveAssumption DEF Epochs
  <2>2. /\ line \in LineSet(asks) /\ Len(line.fate) \in Nat /\ Gone(line) \in Nat
        /\ Len(line.needs) = Len(line.fate) /\ Len(line.queue) \in Nat
        /\ Gone(line) + Len(line.queue) = Len(line.fate)
    BY <2>1, InNumbers
  <2>3. DOMAIN line.fate = 1..Len(line.fate)
    BY <2>2, Fields
  <2>4. Gone(line) <= Len(line.fate)
    BY <2>2
  <2> QED BY <2>1, <2>2, <2>3, <2>4
<1>1. /\ UNCHANGED <<asks, unanswered, url, loading, engine, freed>> /\ stops' = stops + 1
      /\ line'.queue = <<>> /\ line'.gate = "none" /\ line'.needs = line.needs
      /\ line'.pump = line.pump /\ line'.failed = line.failed /\ line'.wait = line.wait
      /\ line'.fate = [i \in DOMAIN line.fate |->
                         IF line.fate[i] = "held" THEN "stopped" ELSE line.fate[i]]
  BY <1>0 DEF Stop, loaderVars, LineSet
<1>2. /\ LineInv(line', asks') /\ LoaderTypeOK' /\ stops' \in Epochs
  BY DEF IInv
<1>3. InTime' /\ Present'
  BY <1>1, LineNow DEF InTime, Present, From
<1>4. /\ Len(line'.fate) = Len(line.fate) /\ Gone(line') = Len(line.fate)
      /\ ToSet(line'.queue) = {}
  <2>1. Len(line'.needs) = Len(line'.fate) /\ Len(line'.fate) \in Nat
    BY <1>2, InNumbers
  <2>2. Len(line'.queue) = 0 /\ Gone(line') + Len(line'.queue) = Len(line'.fate)
        /\ Gone(line') \in Nat
    BY <1>1, <1>2, InNumbers
  <2>3. ToSet(<<>>) = {}
    BY DEF ToSet
  <2> QED BY <1>0, <1>1, <2>1, <2>2, <2>3
<1>5. PumpsHead(line)'
  <2>1. line.pump # NoPump => line.pump.since <= stops /\ line.pump.since \in Nat
    BY <1>0, LiveAssumption DEF Good, PumpsHead, LineSet
  <2>2. line.pump # NoPump => line.pump.since <= stops + 1 /\ line.pump.since # stops + 1
    BY <1>0, <2>1
  <2> QED BY <1>1, <2>2 DEF PumpsHead
<1>6. (line.pump # NoPump => ~Settled(asks, line.pump.on))'
  BY <1>0, <1>1 DEF Good, Settled
<1>7. Failing(line, asks)'
  BY <1>0, <1>1, <1>4 DEF Good, Failing
<1>8. Rounds(line, asks)'
  <2>1. ASSUME NEW e \in Epochs, e >= stops + 1 PROVE line.wait[e] = NoWait
    <3>1. e > stops
      BY <1>0, <2>1, LiveAssumption DEF Epochs
    <3> QED BY <1>0, <3>1 DEF Good, Rounds
  <2>2. \A e \in Epochs : e > stops + 1 => e >= stops + 1
    BY <1>0, LiveAssumption DEF Epochs
  <2>3. line.wait[stops + 1] = NoWait /\ \A h \in line.wait[stops + 1].held : FALSE
    <3>1. line.wait[stops + 1] = NoWait
      BY <1>0, <1>1, <1>2, <2>1
    <3> QED BY <3>1 DEF NoWait
  <2>4. ASSUME NEW e \in Epochs, NEW h \in line.wait[e].held
        PROVE  h.sound <= Len(line.fate)
    <3>1. h.sound \in Nat
      BY <1>0 DEF LineSet, Sounds
    <3>2. IF e = stops THEN h.sound <= Len(line.needs) ELSE h.sound <= Gone(line)
      BY <1>0 DEF Good, Rounds
    <3> QED BY <1>0, <3>1, <3>2
  <2> QED BY <1>1, <1>4, <2>1, <2>2, <2>3, <2>4 DEF Rounds
<1>9. Fairly(line, line', asks', {})
  <2>1. Follows(line, line')
    <3>1. Len(line.fate) <= Len(line'.fate) /\ Gone(line) <= Gone(line')
      BY <1>0, <1>4
    <3> QED BY <1>0, <1>1, <3>1 DEF Follows
  <2>2. \A i \in 1..Len(line'.fate) : (i <= Len(line.fate) => line.fate[i] = "held") =>
          line'.fate[i] = "stopped"
    BY <1>0, <1>1, <1>4
  <2> QED BY <2>1, <2>2 DEF Fairly
<1>10. Honest
  BY <1>1, <1>2, <1>3, <1>9, FairIsHonest
<1> QED BY <1>3, <1>5, <1>6, <1>7, <1>8, <1>10 DEF StepGood, Good

LEMMA WindowGood ==
  ASSUME LoadInv, IInv', WindowPasses
  PROVE  StepGood
<1>1. /\ line.gate = "open" /\ line' = [line EXCEPT !.gate = "none"]
      /\ UNCHANGED <<loaderVars, stops>>
  BY DEF WindowPasses
<1>2. Good(line', asks) /\ Fairly(line, line', asks, {})
  BY <1>1, LineNow, GateGood
<1> QED BY <1>1, <1>2, CalmStep

\* A load ends: the head that awaited it goes with it, or with one that was
\* there when it began to wait.
LEMMA LoadGood ==
  ASSUME LoadInv, IInv', NEW l \in loading, NEW said \in {"ok", "failed"}, LoadEnds(l, said)
  PROVE  StepGood
<1> DEFINE h == Head(line.queue)
<1>1. /\ Answer(l, said) /\ line' = Resume(line, asks') /\ stops' = stops
  <2>1. Answer(l, said) /\ asks' = Answered(l, said)
    BY DEF LoadEnds, Answer
  <2> QED BY <2>1 DEF LoadEnds
<1>2. /\ InTime' /\ Present' /\ freed' = freed /\ asks' \in Asks
      /\ \A x \in Things : /\ Len(asks'[x]) = Len(asks[x])
                           /\ \A n \in DOMAIN asks[x] :
                                asks[x][n] # "pending" => asks'[x][n] = asks[x][n]
  BY <1>1, LineNow, Answering
<1>3. /\ LineInv(line', asks') /\ LoaderTypeOK'
  BY DEF IInv
<1>4. PumpsHead(line) /\ Failing(line, asks') /\ Rounds(line, asks') /\ LineInv(line, asks')
  <2>1. LineInv(line, asks')
    BY <1>1, LineNow, AnswerKeeps, GrowKeeps
  <2> QED BY <1>2, <2>1, LineNow, AnsweredGood
<1>5. /\ Good(line', asks')
      /\ \/ Fairly(line, line', asks', {})
         \/ /\ line.queue # <<>> /\ line.pump # NoPump /\ line.pump.since = stops
            /\ Fairly(line, line', asks', {h}) /\ Settled(asks', line.pump.on)
            /\ line'.fate[h] = IF \A p \in line.pump.on : asks'[p[1]][p[2]] = "ok"
                               THEN "sent" ELSE "failed"
  BY <1>1, <1>2, <1>4, LineNow, ResumesFairly
<1>6. Good(line, asks)'
  BY <1>1, <1>2, <1>5, SameGood
<1>7. CASE Fairly(line, line', asks', {})
  <2>1. Honest
    BY <1>2, <1>3, <1>7, FairIsHonest
  <2> QED BY <1>2, <1>6, <2>1 DEF StepGood
<1>8. CASE /\ line.queue # <<>> /\ line.pump # NoPump /\ line.pump.since = stops
           /\ Fairly(line, line', asks', {h}) /\ Settled(asks', line.pump.on)
           /\ line'.fate[h] = IF \A p \in line.pump.on : asks'[p[1]][p[2]] = "ok"
                              THEN "sent" ELSE "failed"
  <2>1. /\ line'.needs[h] = line.needs[h]
        /\ \A p \in line.pump.on : p[1] \in line.needs[h]
        /\ \A x \in line.needs[h] \ freed : \E p \in line.pump.on : p[1] = x
    <3>1. h \in 1..Len(line.fate)
      BY <1>8, LineNow, InNumbers
    <3> QED BY <1>4, <1>8, <3>1 DEF PumpsHead, Fairly, Follows
  <2>2. ASSUME NEW p \in line.pump.on
        PROVE  /\ p[1] \in Things /\ p[2] \in DOMAIN asks[p[1]]
               /\ DOMAIN asks[p[1]] = 1..Len(asks[p[1]]) /\ Len(asks[p[1]]) \in Nat
               /\ DOMAIN asks'[p[1]] = 1..Len(asks[p[1]])
               /\ asks[p[1]] # <<>> /\ asks'[p[1]] # <<>>
    <3>1. p \in Pairs(asks)
      BY LineNow DEF LineInv, LineSet
    <3>2. PICK x \in Things : p \in {x} \X DOMAIN asks[x]
      BY <3>1 DEF Pairs
    <3>3. p[1] = x /\ p[2] \in DOMAIN asks[x]
      BY <3>2
    <3>4. asks[x] \in Seq(Promises) /\ asks'[x] \in Seq(Promises)
      BY <1>2, LineNow DEF Asks
    <3>5. DOMAIN asks[x] = 1..Len(asks[x]) /\ Len(asks[x]) \in Nat
          /\ DOMAIN asks'[x] = 1..Len(asks[x])
      BY <1>2, <3>4, LenProperties
    <3>6. asks[x] # <<>> /\ asks'[x] # <<>>
      BY <3>3, <3>5
    <3> QED BY <3>2, <3>3, <3>5, <3>6
  <2>3. \A p \in line.pump.on : p[2] # Len(asks[p[1]]) => Replaced(h, p[1])
    <3> SUFFICES ASSUME NEW p \in line.pump.on, p[2] # Len(asks[p[1]])
                 PROVE  Replaced(h, p[1])
      OBVIOUS
    <3>1. p[2] < Len(asks[p[1]])
      BY <2>2
    <3> QED BY <1>8, <3>1 DEF Replaced
  <2>4. ASSUME line'.fate[h] = "sent"
        PROVE  Sent(h)
    <3> SUFFICES ASSUME NEW x \in line.needs[h] \ freed
                 PROVE  /\ engine'[x] # Nothing
                        /\ x \in Defs => engine'[x] = url'[x] \/ Replaced(h, x)
      BY <1>2, <2>1 DEF Sent
    <3>1. PICK p \in line.pump.on : p[1] = x
      BY <2>1
    <3>2. asks'[x][p[2]] = "ok"
      BY <1>8, <2>4, <3>1
    <3>3. x \in Things \ freed' /\ p[2] \in DOMAIN asks'[x]
      BY <1>2, <2>2, <3>1
    <3>4. engine'[x] # Nothing /\ (p[2] = Len(asks'[x]) => engine'[x] = From(x)')
      BY <1>2, <3>2, <3>3 DEF Present
    <3>5. CASE p[2] = Len(asks[x])
      BY <1>2, <3>3, <3>4, <3>5 DEF From
    <3>6. CASE p[2] # Len(asks[x])
      BY <2>3, <3>1, <3>4, <3>6
    <3> QED BY <3>5, <3>6
  <2>5. ASSUME line'.fate[h] = "failed"
        PROVE  Dropped(h)
    <3>1. PICK p \in line.pump.on : asks'[p[1]][p[2]] # "ok"
      BY <1>8, <2>5
    <3>2. asks'[p[1]][p[2]] = "failed"
      <4>1. asks'[p[1]][p[2]] # "pending"
        BY <1>8 DEF Settled
      <4>2. asks'[p[1]][p[2]] \in Promises
        <5>1. asks'[p[1]] \in Seq(Promises) /\ Len(asks'[p[1]]) = Len(asks[p[1]])
          BY <1>2, <2>2 DEF Asks
        <5>2. p[2] \in 1..Len(asks'[p[1]])
          BY <2>2, <5>1
        <5> QED BY <5>1, <5>2, ElementOfSeq
      <4> QED BY <3>1, <4>1, <4>2 DEF Promises
    <3>3. CASE p[2] = Len(asks[p[1]])
      <4>1. State(asks', p[1]) = "failed"
        BY <1>2, <2>2, <3>2, <3>3 DEF State, Last
      <4> QED BY <2>1, <4>1 DEF Dropped
    <3>4. CASE p[2] # Len(asks[p[1]])
      <4>1. asks[p[1]][p[2]] # "pending"
        BY <2>2, <3>4, LineNow DEF InTime
      <4>2. asks[p[1]][p[2]] = "failed"
        BY <1>2, <2>2, <3>2, <4>1
      <4>3. "failed" \in ToSet(asks[p[1]])
        BY <2>2, <4>2 DEF ToSet
      <4> QED BY <2>1, <2>3, <3>4, <4>3 DEF Dropped
    <3> QED BY <3>3, <3>4
  <2>6. Honest
    BY <1>2, <1>3, <1>8, <2>4, <2>5, FairIsHonest
  <2> QED BY <1>2, <1>6, <2>6 DEF StepGood
<1> QED BY <1>5, <1>7, <1>8


Over(e) == {h.sound : h \in {k \in line.wait[e].held :
                                \E p \in k.on : asks[p[1]][p[2]] = "failed"}}
Ended(e) == [line EXCEPT !.wait[e] = NoWait, !.failed = @ \cup Over(e)]

\* A round ends: what failed was made before the Stop, or awaits its drop.
LEMMA EndedGood ==
  ASSUME LoadInv, NEW e \in Epochs, line.wait[e].busy,
         \A h \in line.wait[e].held : Settled(asks, h.on), NEW l, l = Ended(e)
  PROVE  /\ LineInv(l, asks) /\ Good(l, asks) /\ Fairly(line, l, asks, {})
         /\ l.needs = line.needs /\ l.gate = line.gate /\ l.pump = line.pump
         /\ e = stops => l.wait[stops] = NoWait /\ line.gate = "waiting"
<1> DEFINE over == Over(e)
<1>1. /\ LineInv(line, asks) /\ Good(line, asks) /\ line \in LineSet(asks) /\ asks \in Asks
      /\ stops \in Epochs /\ Len(line.fate) \in Nat /\ Gone(line) \in Nat
      /\ Len(line.needs) = Len(line.fate) /\ Gone(line) <= Len(line.fate)
      /\ ToSet(line.queue) = {i \in 1..Len(line.fate) : i > Gone(line)}
      /\ \A i \in 1..Len(line.fate) : line.needs[i] \in SUBSET Given(asks)
  <2>1. LineInv(line, asks) /\ Good(line, asks) /\ asks \in Asks /\ stops \in Epochs
    BY LineNow
  <2>2. /\ line \in LineSet(asks) /\ Len(line.fate) \in Nat /\ Gone(line) \in Nat
        /\ Len(line.needs) = Len(line.fate) /\ Len(line.queue) \in Nat
        /\ Gone(line) + Len(line.queue) = Len(line.fate)
        /\ ToSet(line.queue) = {i \in 1..Len(line.fate) : i > Gone(line)}
        /\ \A i \in 1..Len(line.fate) : line.needs[i] \in SUBSET Given(asks)
    BY <2>1, InNumbers
  <2>3. Gone(line) <= Len(line.fate)
    BY <2>2
  <2> QED BY <2>1, <2>2, <2>3
<1>2. ASSUME NEW i \in over
      PROVE  /\ i \in Sounds /\ i \in Nat /\ i > 0 /\ i <= Len(line.fate)
             /\ i \in ToSet(line.queue) =>
                  /\ e = stops
                  /\ \E x \in line.needs[i] : State(asks, x) = "failed"
                  /\ \A x \in line.needs[i] \ freed : State(asks, x) # "pending"
  <2>1. PICK h \in line.wait[e].held : /\ i = h.sound
                                       /\ \E p \in h.on : asks[p[1]][p[2]] = "failed"
    BY DEF Over
  <2>2. i \in Sounds /\ i \in Nat /\ i > 0
    BY <1>1, <2>1 DEF LineSet, Sounds
  <2>3. IF e = stops THEN i <= Len(line.needs) /\ h.on = Awaits(asks, line.needs[i])
                     ELSE i <= Gone(line)
    BY <1>1, <2>1 DEF Good, Rounds
  <2>4. CASE e # stops
    BY <1>1, <2>2, <2>3, <2>4
  <2>5. CASE e = stops
    <3>1. i \in 1..Len(line.fate) /\ line.needs[i] \in SUBSET Given(asks)
      BY <1>1, <2>2, <2>3, <2>5
    <3>2. Settled(asks, Awaits(asks, line.needs[i]))
      BY <2>1, <2>3, <2>5
    <3>3. \A x \in line.needs[i] \ freed : State(asks, x) # "pending"
      BY <1>1, <3>1, <3>2, Come
    <3>4. PICK p \in Awaits(asks, line.needs[i]) : asks[p[1]][p[2]] = "failed"
      BY <2>1, <2>3, <2>5
    <3>5. PICK x \in line.needs[i] \ freed : p = <<x, Len(asks[x])>>
      BY DEF Awaits
    <3>6. p[1] = x /\ p[2] = Len(asks[x])
      BY <3>5
    <3>7. State(asks, x) = "failed"
      BY <1>1, <3>1, <3>4, <3>5, <3>6, LastPromise
    <3> QED BY <1>1, <2>2, <2>3, <2>5, <3>3, <3>7
  <2> QED BY <2>4, <2>5
<1> HIDE DEF over
<1>3. /\ l.queue = line.queue /\ l.needs = line.needs /\ l.fate = line.fate
      /\ l.gate = line.gate /\ l.pump = line.pump /\ l.failed = line.failed \cup over
      /\ l.wait = [line.wait EXCEPT ![e] = NoWait] /\ l \in LineSet(asks)
  <2>1. NoWait \in [busy : BOOLEAN, held : SUBSET [sound : Sounds, on : SUBSET Pairs(asks)]]
    BY DEF NoWait
  <2>2. l = [line EXCEPT !.wait[e] = NoWait, !.failed = @ \cup over]
    BY DEF over, Ended
  <2>3. over \subseteq Sounds
    BY <1>2
  <2>4. l \in LineSet(asks)
    <3> DEFINE w == [line.wait EXCEPT ![e] = NoWait]
               f == line.failed \cup over
    <3>1. line \in LineSet(asks)
      BY <1>1
    <3>2. w \in [Epochs -> [busy : BOOLEAN, held : SUBSET [sound : Sounds, on : SUBSET Pairs(asks)]]]
      BY <2>1, <3>1 DEF LineSet
    <3>3. f \in SUBSET Sounds
      BY <2>3, <3>1 DEF LineSet
    <3>4. l = [line EXCEPT !.wait = w, !.failed = f]
      BY <2>2, <3>1 DEF LineSet
    <3> HIDE DEF w, f
    <3> QED BY <3>1, <3>2, <3>3, <3>4 DEF LineSet
  <2>5. /\ l.queue = line.queue /\ l.needs = line.needs /\ l.fate = line.fate
        /\ l.gate = line.gate /\ l.pump = line.pump
    BY <1>1, <2>2 DEF LineSet
  <2>6. l.failed = line.failed \cup over /\ l.wait = [line.wait EXCEPT ![e] = NoWait]
    BY <1>1, <2>2 DEF LineSet
  <2> QED BY <2>4, <2>5, <2>6
<1>4. /\ l.wait[e] = NoWait /\ \A f \in Epochs \ {e} : l.wait[f] = line.wait[f]
      /\ ~NoWait.busy /\ \A h \in NoWait.held : FALSE
  BY <1>1, <1>3 DEF LineSet, NoWait
<1>5. LineInv(l, asks) /\ Follows(line, l) /\ Gone(l) = Gone(line)
  BY <1>1, <1>3, SameLine, FollowsSame
<1>6. Fairly(line, l, asks, {})
  BY <1>1, <1>5, FairlyHeld
<1>7. e = stops => line.gate = "waiting"
  BY <1>1, <1>4 DEF Good, Rounds, NoWait
<1>8. Rounds(l, asks)
  BY <1>1, <1>3, <1>4, <1>5 DEF Good, Rounds
<1>9. Failing(l, asks)
  BY <1>1, <1>2, <1>3, <1>7 DEF Good, Failing
<1>10. PumpsHead(l) /\ (l.pump # NoPump => ~Settled(asks, l.pump.on))
  BY <1>1, <1>3 DEF Good, PumpsHead
<1> QED BY <1>3, <1>4, <1>5, <1>6, <1>7, <1>8, <1>9, <1>10 DEF Good

\* A pump that awaits the head still waits for its last load.
LEMMA PumpWaits ==
  ASSUME LoadInv, NEW l, LineInv(l, asks), Good(l, asks), l.pump # NoPump,
         l.pump.since = stops
  PROVE  /\ l.queue # <<>>
         /\ \E x \in l.needs[Head(l.queue)] \ freed : State(asks, x) = "pending"
<1>1. l.queue # <<>> /\ \A p \in l.pump.on : p[1] \in l.needs[Head(l.queue)]
  BY DEF Good, PumpsHead
<1>2. PICK p \in l.pump.on : asks[p[1]][p[2]] = "pending"
  BY DEF Good, Settled
<1>3. p \in Pairs(asks)
  BY DEF LineInv, LineSet
<1>4. PICK x \in Things : p \in {x} \X DOMAIN asks[x]
  BY <1>3 DEF Pairs
<1>5. p[1] = x /\ p[2] \in DOMAIN asks[x]
  BY <1>4
<1>6. p[2] = Len(asks[x]) /\ x \in unanswered /\ x \notin freed
  BY <1>2, <1>5, LineNow DEF InTime
<1>7. asks[x] # <<>>
  BY <1>5
<1>8. State(asks, x) = "pending"
  BY <1>2, <1>5, <1>6, <1>7 DEF State, Last
<1> QED BY <1>1, <1>5, <1>6, <1>8

\* A gate's wait ends: all that was held goes, with its loads, or is dropped.
LEMMA GateEnds ==
  ASSUME LoadInv, IInv', NEW e \in Epochs, NEW out \in Outboxes, NEW more \in BOOLEAN,
         GateSettles(e, out, more)
  PROVE  StepGood
<1> DEFINE round == line.wait[e].held
           ended == Ended(e)
           loaded == \A i \in ToSet(ended.queue) : i \in ended.failed \/ Ready(ended, asks, i)
           left == Leave(ended, asks, Len(ended.queue))
           released == [left EXCEPT !.gate = "open"]
<1>1. /\ line.wait[e].busy /\ stops' = stops
      /\ \A h \in round : Settled(asks, h.on)
      /\ Len(line.needs) + Len(out) <= MaxSounds
      /\ \/ line' = ended /\ UNCHANGED loaderVars
         \/ e = stops /\ line' = Round(ended, asks) /\ UNCHANGED loaderVars
         \/ /\ e = stops /\ loaded /\ Ask(NeedsOf(out))
            /\ line' = Drain(released, Asked(NeedsOf(out)), out)
  BY DEF GateSettles, Room, Ended, Over
<1>2. /\ LineInv(ended, asks) /\ Good(ended, asks) /\ Fairly(line, ended, asks, {})
      /\ ended.needs = line.needs /\ ended.gate = line.gate /\ ended.pump = line.pump
      /\ e = stops => ended.wait[stops] = NoWait /\ line.gate = "waiting"
  BY <1>1, EndedGood
<1> HIDE DEF ended
<1>3. CASE line' = ended /\ UNCHANGED loaderVars
  <2>1. UNCHANGED <<loaderVars, stops>> /\ Good(line', asks) /\ Fairly(line, line', asks, {})
    BY <1>1, <1>2, <1>3
  <2> QED BY <2>1, CalmStep
<1>4. CASE e = stops /\ line' = Round(ended, asks) /\ UNCHANGED loaderVars
  <2>1. Good(line', asks) /\ Fairly(ended, line', asks, {})
    BY <1>2, <1>4, LineNow, RoundGood
  <2>2. LineInv(line', asks)
    BY <1>2, <1>4, LineNow, RoundKeeps
  <2>3. Fairly(line, line', asks, {})
    BY <1>2, <2>1, <2>2, LineNow, FairlyTwice
  <2>4. UNCHANGED <<loaderVars, stops>>
    BY <1>1, <1>4
  <2> QED BY <2>1, <2>3, <2>4, CalmStep
<1>5. CASE /\ e = stops /\ loaded /\ Ask(NeedsOf(out))
           /\ line' = Drain(released, Asked(NeedsOf(out)), out)
  <2>1. /\ Len(ended.queue) \in Nat /\ ended \in LineSet(asks)
        /\ DOMAIN ended.queue = 1..Len(ended.queue)
        /\ ToSet(ended.queue) = {i \in 1..Len(ended.fate) : i > Gone(ended)}
        /\ ended.queue \in Seq(Sounds)
    BY <1>2, InNumbers
  <2>2. ended.pump # NoPump => ended.pump.since # stops
    <3> SUFFICES ASSUME ended.pump # NoPump, ended.pump.since = stops
                 PROVE  FALSE
      OBVIOUS
    <3>1. PICK x \in ended.needs[Head(ended.queue)] \ freed : State(asks, x) = "pending"
      BY <1>2, PumpWaits
    <3>2. Head(ended.queue) \in ToSet(ended.queue)
      <4>1. ended.queue # <<>>
        BY <1>2, PumpWaits
      <4>2. Head(ended.queue) \in 1..Len(ended.fate) /\ Head(ended.queue) = Gone(ended) + 1
            /\ Gone(ended) \in Nat
        BY <1>2, <4>1, InNumbers
      <4> QED BY <2>1, <4>2
    <3>3. Head(ended.queue) \in ended.failed \/ Ready(ended, asks, Head(ended.queue))
      BY <1>5, <3>2
    <3> QED BY <1>2, <3>1, <3>2, <3>3 DEF Good, Failing, Ready, IsReady
  <2>3. \A m \in 1..Len(ended.queue) :
          \/ Ready(ended, asks, ended.queue[m])
          \/ \E x \in ended.needs[ended.queue[m]] : State(asks, x) = "failed"
    <3> SUFFICES ASSUME NEW m \in 1..Len(ended.queue)
                 PROVE  \/ Ready(ended, asks, ended.queue[m])
                        \/ \E x \in ended.needs[ended.queue[m]] : State(asks, x) = "failed"
      OBVIOUS
    <3>1. ended.queue[m] \in ToSet(ended.queue)
      BY <2>1 DEF ToSet
    <3> QED BY <1>2, <1>5, <3>1 DEF Good, Failing
  <2>4. Len(ended.queue) \in 0..Len(ended.queue)
    BY <2>1
  <2>5. Good(left, asks) /\ Fairly(ended, left, asks, {}) /\ LineInv(left, asks)
    BY <1>2, <2>2, <2>3, <2>4, LineNow, LeavesFairly
  <2>6. /\ left.queue = <<>> /\ left.needs = ended.needs /\ left.wait = ended.wait
        /\ left.pump = ended.pump /\ left.failed = ended.failed
    <3>1. SubSeq(ended.queue, Len(ended.queue) + 1, Len(ended.queue)) = <<>>
      BY <2>1
    <3> QED BY <2>1, <3>1 DEF Leave, LineSet
  <2>7. left \in LineSet(asks)
    BY <2>5 DEF LineInv
  <2> HIDE DEF left
  <2>8. /\ released.queue = left.queue /\ released.needs = left.needs
        /\ released.fate = left.fate /\ released.gate = "open" /\ released.wait = left.wait
        /\ released.pump = left.pump /\ released.failed = left.failed
        /\ released \in LineSet(asks)
    BY <2>7 DEF LineSet
  <2> HIDE DEF released
  <2>9. LineInv(released, asks) /\ Follows(left, released) /\ Gone(released) = Gone(left)
    BY <2>5, <2>8, SameLine, FollowsSame
  <2>10. Good(released, asks)
    <3>1. ToSet(released.queue) = {}
      BY <2>6, <2>8 DEF ToSet
    <3>2. Failing(released, asks)
      BY <2>5, <2>8, <3>1 DEF Good, Failing
    <3>3. PumpsHead(released) /\ (released.pump # NoPump => ~Settled(asks, released.pump.on))
      BY <2>2, <2>5, <2>6, <2>8 DEF Good, PumpsHead
    <3>4. released.wait[stops] = NoWait
      BY <1>2, <1>5, <2>6, <2>8
    <3>5. Rounds(released, asks)
      BY <2>5, <2>8, <2>9, <3>4 DEF Good, Rounds
    <3> QED BY <3>2, <3>3, <3>5 DEF Good
  <2>11. Fairly(line, released, asks, {})
    <3>1. Fairly(left, released, asks, {})
      BY <2>5, <2>9, FairlyHeld
    <3>2. Fairly(line, left, asks, {})
      BY <1>2, <2>5, LineNow, FairlyTwice
    <3> QED BY <2>5, <2>9, <3>1, <3>2, LineNow, FairlyTwice
  <2>12. released.needs = line.needs
    BY <1>2, <2>6, <2>8
  <2>13. /\ stops' = stops /\ Ask(NeedsOf(out)) /\ Len(released.needs) + Len(out) <= MaxSounds
         /\ line' = Drain(released, Asked(NeedsOf(out)), out)
    BY <1>1, <1>5, <2>12
  <2> HIDE DEF loaded
  <2> QED BY <2>9, <2>10, <2>11, <2>13, CallStep
<1> QED BY <1>1, <1>3, <1>4, <1>5

\* A step that is none of the line's or the loads'.
LEMMA RestGood ==
  ASSUME LoadInv, IInv', UNCHANGED <<loaderVars, line, stops>>
  PROVE  StepGood
<1>1. Good(line', asks) /\ Fairly(line, line', asks, {})
  BY LineNow
<1> QED BY <1>1, CalmStep

LEMMA LoadSteps ==
  ASSUME LoadInv, [Next]_vars, Patient
  PROVE  LoadInv' /\ StepGood
<1>1. IInv'
  BY StepMoves, StutterKeeps DEF LoadInv
<1>2. ASSUME NEW r \in Runs, RunArrives(r) \/ FetchFails(r) \/ Join(r) \/ StartFails(r)
      PROVE  StepGood
  BY <1>1, <1>2, RestGood, StartFailsGood DEF RunArrives, FetchFails, Join
<1>3. ASSUME NEW r \in Runs, NEW head \in Outboxes, NEW out \in Outboxes, NEW more \in BOOLEAN,
             Start(r, head, out, more)
      PROVE  StepGood
  BY <1>1, <1>3, StartGood
<1>4. ASSUME NEW out \in Outboxes, NEW more \in BOOLEAN, Tick(out, more) \/ Cue(out, more)
      PROVE  StepGood
  BY <1>1, <1>4, TickGood
<1>5. ASSUME NEW d \in Defs, NEW u \in Urls, TickLoadsUrl(d, u)
      PROVE  StepGood
  BY <1>1, <1>5, UrlGood
<1>6. ASSUME NEW b \in Bufs, TickFrees(b)
      PROVE  StepGood
  BY <1>1, <1>6, FreedGood
<1>7. ASSUME Frees \/ Stop \/ WindowPasses
      PROVE  StepGood
  BY <1>1, <1>7, FreesGood, StopGood, WindowGood
<1>8. ASSUME NEW l \in loading, NEW said \in {"ok", "failed"}, LoadEnds(l, said)
      PROVE  StepGood
  BY <1>1, <1>8, LoadGood
<1>9. ASSUME NEW e \in Epochs, NEW out \in Outboxes, NEW more \in BOOLEAN,
             GateSettles(e, out, more)
      PROVE  StepGood
  BY <1>1, <1>9, GateEnds
<1>10. ASSUME UNCHANGED vars
       PROVE  StepGood
  <2>1. UNCHANGED <<loaderVars, line, stops>>
    BY <1>10 DEF vars, liveVars
  <2> QED BY <1>1, <2>1, RestGood
<1>11. StepGood
  BY <1>2, <1>3, <1>4, <1>5, <1>6, <1>7, <1>8, <1>9, <1>10, Zenon DEF Next
<1> QED BY <1>1, <1>11 DEF LoadInv, StepGood

LEMMA LoadInit ==
  ASSUME Init
  PROVE  LoadInv
<1>1. IInv /\ stops = 0 /\ line.queue = <<>> /\ line.pump = NoPump /\ line.failed = {}
      /\ line.wait = [e \in Epochs |-> NoWait] /\ line.gate = "none"
  BY InitKeeps DEF Init
<1>2. Good(line, asks)
  <2>1. PumpsHead(line) /\ (line.pump # NoPump => ~Settled(asks, line.pump.on))
    BY <1>1 DEF PumpsHead
  <2>2. Failing(line, asks)
    BY <1>1 DEF Failing
  <2>3. (\A e \in Epochs : line.wait[e] = NoWait) /\ 0 \in Epochs
    BY <1>1, LiveAssumption DEF Epochs
  <2>4. \A h \in NoWait.held : FALSE
    BY DEF NoWait
  <2>5. Rounds(line, asks)
    BY <1>1, <2>3, <2>4 DEF Rounds
  <2> QED BY <2>1, <2>2, <2>5 DEF Good
<1>3. /\ asks = [x \in Things |-> <<>>] /\ unanswered = {} /\ url = [d \in Defs |-> Own]
      /\ loading = {} /\ freed = {}
  BY DEF Init, LoaderInit
<1>4. InTime /\ Present
  BY <1>3 DEF InTime, Present, From
<1> QED BY <1>1, <1>2, <1>4 DEF LoadInv

-----------------------------------------------------------------------------
(* The theorems                                                             *)

LEMMA LoadsAlways ==
  ASSUME Patient
  PROVE  Spec => []LoadInv
<1>1. Init => LoadInv
  BY LoadInit
<1>2. LoadInv /\ [Next]_vars => LoadInv'
  BY LoadSteps
<1> QED BY <1>1, <1>2, PTL DEF Spec

\* A step lets go of what was held, or made, honestly.
LEMMA LeavesHonestly ==
  ASSUME LoadInv, [Next]_vars, Patient
  PROVE  /\ \A i \in Leaves("sent") : Sent(i)
         /\ \A i \in Leaves("failed") : Dropped(i)
<1>1. Honest /\ LineInv(line, asks) /\ LineInv(line', asks')
  BY LoadSteps DEF StepGood, LoadInv, IInv
<1>2. /\ DOMAIN line.fate = 1..Len(line.fate) /\ DOMAIN line'.fate = 1..Len(line'.fate)
      /\ Len(line.fate) \in Nat /\ Len(line'.fate) \in Nat
  BY <1>1, Fields DEF LineInv
<1>3. \A i \in DOMAIN line'.fate : i <= Len(line.fate) => i \in DOMAIN line.fate
  BY <1>2
<1> QED BY <1>1, <1>2, <1>3 DEF Honest, Leaves

\* A sound goes only with its loads in the engine, its synthdef the version last
\* asked for or, if that was replaced while the sound was awaited, one there is:
\* whatever is loaded, stopped and made, by programs that do not replace or free
\* what is loading.
THEOREM LoadsAreHeard ==
  ASSUME Patient
  PROVE  Spec => HeardAsLastLoaded
<1>1. LoadInv /\ [Next]_vars =>
        [\A i \in Leaves("sent") : \A x \in line'.needs[i] \ freed' :
           /\ engine'[x] # Nothing
           /\ x \in Defs => engine'[x] = url'[x] \/ Replaced(i, x)]_vars
  BY LeavesHonestly DEF Sent
<1> QED BY <1>1, LoadsAlways, PTL DEF HeardAsLastLoaded, Spec

\* No sound is dropped but for a load of its own that failed.
THEOREM DropsHaveCauses ==
  ASSUME Patient
  PROVE  Spec => NoCauselessDrop
<1>1. LoadInv /\ [Next]_vars =>
        [\A i \in Leaves("failed") : \E x \in line'.needs[i] :
           \/ State(asks', x) = "failed"
           \/ Replaced(i, x) /\ "failed" \in ToSet(asks[x])]_vars
  BY LeavesHonestly DEF Dropped
<1> QED BY <1>1, LoadsAlways, PTL DEF NoCauselessDrop, Spec
=============================================================================
