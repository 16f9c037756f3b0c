----------------------------- MODULE DeckProofs -----------------------------
(***************************************************************************)
(* Proofs about the deck of cards, for any runs, cards and bounds.  The    *)
(* argument: a run is answered once (Home), by then the tables the page    *)
(* has or is sent have it if it still goes (Tables), and whatever ends a   *)
(* card's play while a run of it goes sends that run a stop (Cards).       *)
(***************************************************************************)
EXTENDS SessionProofs

-----------------------------------------------------------------------------
(* A run is in one place until it is answered                               *)

Reply(r) == {<<"job", r>>, <<"refused", r>>}
Waits(r) == <<"run", r>> \in ToSet(chain)
Posted(r) == <<"run", r>> \in ToSet(inbox)
IsAnswered(r) == ToSet(mail) \cap Reply(r) # {}
Held(r) == r \in holding \cup answering

Home(r) ==
  /\ Once(chain, {<<"run", r>>}) /\ Once(inbox, {<<"run", r>>}) /\ Once(mail, Reply(r))
  /\ Waits(r) => ~Posted(r) /\ r \notin preparing /\ ~Held(r) /\ ~IsAnswered(r)
  /\ Posted(r) => r \notin preparing /\ ~Held(r) /\ ~IsAnswered(r)
  /\ r \in preparing => ~Held(r) /\ ~IsAnswered(r)
  /\ Held(r) => ~IsAnswered(r)
  /\ Waits(r) \/ Posted(r) \/ r \in preparing \/ Held(r) \/ IsAnswered(r) => run[r].told = "called"
  /\ r \in holding => holding = {r} /\ r \notin answering
  /\ r \in answering => r \notin live
  /\ r \in live => /\ ~Waits(r) /\ ~Posted(r) /\ r \notin preparing
                   /\ <<"refused", r>> \notin ToSet(mail)
                   /\ run[r].told = "job" \/ <<"job", r>> \in ToSet(mail) \/ r \in holding

(* A step that may let r's answer go, but holds none anew.                  *)
HeldOn(r) ==
  /\ Held(r)' => Held(r)
  /\ r \in holding' => r \in holding /\ holding' = holding
  /\ r \in answering' => r \in answering \/ (r \notin live' /\ r \notin holding')
  /\ r \in live' /\ r \in holding => r \in holding'

\* Runs that come to the worker leave the chain.
LEMMA Arrived ==
  ASSUME inbox \in Seq(Msgs), NEW c \in Seq(Items), NEW posted \in Seq(StopCalls), Comes(c, posted),
         NEW M \in SUBSET RunCalls, Once(c, M), Once(inbox, M),
         ToSet(c) \cap M = {} \/ ToSet(inbox) \cap M = {}
  PROVE  /\ Once(chain', M) /\ Once(inbox', M)
         /\ (ToSet(chain') \cup ToSet(inbox')) \cap M \subseteq ToSet(c) \cup ToSet(inbox)
         /\ ToSet(chain') \cap M = {} \/ ToSet(inbox') \cap M = {}
<1>1. PICK lead \in Seq(RunCalls), call \in Seq(Calls) :
         /\ c = lead \o chain' /\ chain' \in Seq(Items)
         /\ inbox' = ((inbox \o posted) \o lead) \o call
         /\ chain' = <<>> => call = <<>> /\ step' = "rest"
         /\ chain' # <<>> => /\ Head(chain') \in Items /\ ~IsRun(Head(chain'))
                             /\ call = <<Call(Head(chain'))>>
                             /\ step' = "called"
  BY Coming
<1>2. /\ ToSet(lead \o chain') = ToSet(lead) \cup ToSet(chain')
      /\ \A N : Once(lead \o chain', N) => /\ Once(lead, N) /\ Once(chain', N)
                                           /\ ToSet(lead) \cap N = {} \/ ToSet(chain') \cap N = {}
      /\ ToSet(posted) \subseteq StopCalls /\ ToSet(call) \subseteq Calls
  BY <1>1, Arriving, ZenonT(40)
<1>3. \A N : /\ Once(inbox, N) /\ Once(posted, N) /\ Once(lead, N) /\ Once(call, N)
             /\ ToSet(posted) \cap N = {} /\ ToSet(call) \cap N = {}
             /\ ToSet(lead) \cap N = {} \/ ToSet(inbox) \cap N = {}
             => Once(((inbox \o posted) \o lead) \o call, N)
  BY <1>1, Arriving, Zenon
<1>4. ToSet(((inbox \o posted) \o lead) \o call)
        = ToSet(inbox) \cup ToSet(posted) \cup ToSet(lead) \cup ToSet(call)
  BY <1>1, Arriving
<1>5. ToSet(posted) \cap M = {} /\ ToSet(call) \cap M = {}
  BY <1>2, Kinds
<1>6. Once(posted, M) /\ Once(call, M)
  BY <1>5 DEF Once, ToSet
<1>7. ToSet(c) = ToSet(lead) \cup ToSet(chain') /\ Once(lead, M) /\ Once(chain', M)
      /\ (ToSet(lead) \cap M = {} \/ ToSet(chain') \cap M = {})
  BY <1>1, <1>2, Zenon
<1>8. ToSet(inbox') = ToSet(inbox) \cup ToSet(posted) \cup ToSet(lead) \cup ToSet(call)
  BY <1>1, <1>4
<1>9. Once(inbox', M)
  <2>1. ToSet(lead) \cap M = {} \/ ToSet(inbox) \cap M = {}
    BY <1>7
  <2> QED BY <1>1, <1>3, <1>5, <1>6, <1>7, <2>1, Zenon
<1> QED BY <1>5, <1>7, <1>8, <1>9

\* A Run that follows the chain, or goes on with it, is still in one place.
LEMMA HomeFollows ==
  ASSUME SessionTypes, NEW items \in Seq(Items), NEW posted \in Seq(StopCalls),
         Follow(items, posted), NEW r \in Runs, Home(r), Once(items, {<<"run", r>>}),
         <<"run", r>> \in ToSet(items) => ~Waits(r) /\ ~Posted(r)
  PROVE  /\ Once(chain', {<<"run", r>>}) /\ Once(inbox', {<<"run", r>>})
         /\ Waits(r)' => ~Posted(r)'
         /\ Waits(r)' \/ Posted(r)' => Waits(r) \/ Posted(r) \/ <<"run", r>> \in ToSet(items)
<1> DEFINE M == {<<"run", r>>}
<1>0. /\ inbox \in Seq(Msgs) /\ chain \in Seq(Items)
      /\ Once(chain, M) /\ Once(inbox, M) /\ (Waits(r) => ~Posted(r))
      /\ M \in SUBSET RunCalls /\ Once(items, M)
      /\ \A S : <<"run", r>> \in S <=> S \cap M # {}
  BY FreshRuns DEF SessionTypes, Home
<1>1. /\ posted \in Seq(Msgs) /\ ToSet(posted) \cap M = {} /\ Once(posted, M)
  <2>1. posted \in Seq(Msgs) /\ ToSet(posted) \subseteq StopCalls
    BY SeqMonotonic, Kinds, Places
  <2>2. ToSet(posted) \cap M = {}
    BY <1>0, <2>1, Kinds
  <2> QED BY <2>1, <2>2 DEF Once, ToSet
<1> HIDE DEF M
<1>2. CASE chain = <<>>
  <2>1. Comes(items, posted)
    BY <1>2 DEF Follow
  <2>2. ToSet(items) \cap M = {} \/ ToSet(inbox) \cap M = {}
    BY <1>0 DEF Posted
  <2>3. /\ Once(chain', M) /\ Once(inbox', M)
        /\ (ToSet(chain') \cup ToSet(inbox')) \cap M \subseteq ToSet(items) \cup ToSet(inbox)
        /\ ToSet(chain') \cap M = {} \/ ToSet(inbox') \cap M = {}
    BY <1>0, <2>1, <2>2, Arrived
  <2> QED BY <1>0, <2>3 DEF M, Waits, Posted
<1>3. CASE chain # <<>>
  <2>1. chain' = chain \o items /\ inbox' = inbox \o posted
    BY <1>3 DEF Follow
  <2>2. ToSet(inbox') = ToSet(inbox) \cup ToSet(posted) /\ Once(inbox', M)
    BY <1>0, <1>1, <2>1, Concat
  <2>3. ToSet(chain) \cap M = {} \/ ToSet(items) \cap M = {}
    BY <1>0 DEF Waits
  <2>4. ToSet(chain') = ToSet(chain) \cup ToSet(items) /\ Once(chain', M)
    BY <1>0, <2>1, <2>3, Concat
  <2> QED BY <1>0, <1>1, <2>2, <2>4 DEF M, Waits, Posted
<1> QED BY <1>2, <1>3

LEMMA HomeGoesOn ==
  ASSUME SessionTypes, Onward, NEW r \in Runs, Home(r)
  PROVE  /\ Once(chain', {<<"run", r>>}) /\ Once(inbox', {<<"run", r>>})
         /\ Waits(r)' => ~Posted(r)'
         /\ Waits(r)' \/ Posted(r)' => Waits(r) \/ Posted(r)
<1> DEFINE M == {<<"run", r>>}
           c == Tail(chain)
<1>0. /\ inbox \in Seq(Msgs) /\ chain \in Seq(Items) /\ chain # <<>>
      /\ Once(chain, M) /\ Once(inbox, M) /\ (Waits(r) => ~Posted(r))
      /\ M \in SUBSET RunCalls
      /\ \A S : <<"run", r>> \in S <=> S \cap M # {}
  BY FreshRuns DEF SessionTypes, Home, Onward
<1> HIDE DEF M
<1>1. c \in Seq(Items) /\ Once(c, M) /\ ToSet(c) \subseteq ToSet(chain)
  BY <1>0, Behind
<1>2. Comes(c, <<>>) /\ <<>> \in Seq(StopCalls)
  BY DEF Onward
<1> HIDE DEF c
<1>3. ToSet(c) \cap M = {} \/ ToSet(inbox) \cap M = {}
  BY <1>0, <1>1 DEF Waits, Posted
<1>4. /\ Once(chain', M) /\ Once(inbox', M)
      /\ (ToSet(chain') \cup ToSet(inbox')) \cap M \subseteq ToSet(c) \cup ToSet(inbox)
      /\ ToSet(chain') \cap M = {} \/ ToSet(inbox') \cap M = {}
  BY <1>0, <1>1, <1>2, <1>3, Arrived
<1> QED BY <1>0, <1>1, <1>4 DEF M, Waits, Posted

\* Others put behind, or the first taken, leave what they are not as it was.
LEMMA Untouched ==
  ASSUME NEW S, NEW s \in Seq(S), NEW M, Once(s, M)
  PROVE  /\ \A t \in Seq(S) : ToSet(t) \cap M = {} =>
              Once(s \o t, M) /\ ToSet(s \o t) \cap M = ToSet(s) \cap M
         /\ s # <<>> /\ Head(s) \notin M =>
              Once(Tail(s), M) /\ ToSet(Tail(s)) \cap M = ToSet(s) \cap M
<1>1. ASSUME NEW t \in Seq(S), ToSet(t) \cap M = {}
      PROVE  Once(s \o t, M) /\ ToSet(s \o t) \cap M = ToSet(s) \cap M
  <2>1. Once(t, M)
    BY <1>1 DEF Once, ToSet
  <2> QED BY <1>1, <2>1, Concat
<1>2. ASSUME s # <<>>, Head(s) \notin M
      PROVE  Once(Tail(s), M) /\ ToSet(Tail(s)) \cap M = ToSet(s) \cap M
  BY <1>2, Behind
<1> QED BY <1>1, <1>2

LEMMA HomeFrame ==
  ASSUME NEW r \in Runs, Home(r),
         Once(chain', {<<"run", r>>}) /\ Once(inbox', {<<"run", r>>}), Waits(r)' => ~Posted(r)',
         Waits(r)' \/ Posted(r)' => Waits(r) \/ Posted(r),
         Once(mail', Reply(r)), ToSet(mail') \cap Reply(r) = ToSet(mail) \cap Reply(r),
         run'[r].told = run[r].told, r \in preparing' <=> r \in preparing, r \in live' => r \in live,
         HeldOn(r)
  PROVE  Home(r)'
<1>1. IsAnswered(r)' <=> IsAnswered(r)
  BY DEF IsAnswered, Reply
<1>2. (<<"job", r>> \in ToSet(mail') <=> <<"job", r>> \in ToSet(mail))
      /\ (<<"refused", r>> \in ToSet(mail') <=> <<"refused", r>> \in ToSet(mail))
  BY DEF Reply
<1>3. /\ r \in holding' => holding' = {r} /\ r \notin answering'
      /\ r \in answering' => r \notin live'
      /\ r \in live' /\ r \in holding => r \in holding'
      /\ Held(r)' => Held(r)
  BY DEF Home, HeldOn, Held
<1> QED BY <1>1, <1>2, <1>3 DEF Home, Reply

\* The worker has r's message, and answers it, or a gate holds its answer.
LEMMA HomeStarts ==
  ASSUME SessionTypes, NEW r \in Runs, Home(r), Posted(r) \/ r \in preparing, Starts(r), ~waiting,
         chain' = chain, run' = run, ~Posted(r)', Once(inbox', {<<"run", r>>}), r \notin preparing'
  PROVE  Home(r)'
<1>1. /\ ~Waits(r) /\ ~IsAnswered(r) /\ ~Held(r) /\ run[r].told = "called" /\ r \notin live
      /\ Once(chain, {<<"run", r>>}) /\ Once(mail, Reply(r)) /\ mail \in Seq(Mails)
  BY DEF Home, SessionTypes
<1>10. ~Waits(r)'
  BY <1>1 DEF Waits
<1>11. CASE StartsHeld(r)
  <2>1. live' = live \cup {r} /\ holding' = {r} /\ UNCHANGED <<mail, answering>>
    BY <1>11, HeldStart
  <2>2. ~IsAnswered(r)' /\ <<"refused", r>> \notin ToSet(mail') /\ Once(mail', Reply(r))
    BY <1>1, <2>1 DEF IsAnswered, Reply
  <2> QED BY <1>1, <1>10, <2>1, <2>2 DEF Home, Held
<1> SUFFICES ASSUME ~StartsHeld(r)
             PROVE  Home(r)'
  BY <1>11
<1>2. PICK ms \in Seq(Mails) :
         /\ mail' = mail \o ms /\ <<"reply">> \notin ToSet(ms)
         /\ UNCHANGED <<holding, answering>>
         /\ \/ live' = live \cup {r} /\ ms = <<<<"table", live'>>, <<"job", r>>>>
            \/ live' = live /\ ms = <<<<"job", r>>>>
            \/ live' = live /\ ms = <<<<"refused", r>>>>
  BY StartsPosts DEF coreVars
<1>3. <<"job", r>> \in Mails /\ <<"refused", r>> \in Mails /\ <<"job", r>> # <<"refused", r>>
  BY MailKinds DEF Answers
<1>4. /\ Once(ms, Reply(r))
      /\ \/ live' = live \cup {r} /\ ToSet(ms) \cap Reply(r) = {<<"job", r>>}
         \/ live' = live
  <2>1. CASE live' = live \cup {r} /\ ms = <<<<"table", live'>>, <<"job", r>>>>
    <3>1. live' \in SUBSET Runs
      BY <2>1 DEF SessionTypes, WorkTypes
    <3>2. <<"table", live'>> \in Mails
      BY <3>1, MailKinds
    <3>3. <<"table", live'>> \notin Reply(r)
      BY DEF Reply
    <3>4. /\ ToSet(<<<<"table", live'>>, <<"job", r>>>>) = {<<"table", live'>>, <<"job", r>>}
          /\ Once(<<<<"table", live'>>, <<"job", r>>>>, Reply(r))
      BY <1>3, <3>2, <3>3, Doubles
    <3>5. ToSet(ms) = {<<"table", live'>>, <<"job", r>>}
      BY <2>1, <3>4, Zenon
    <3>6. Once(ms, Reply(r))
      BY <2>1, <3>4, Zenon
    <3>7. ToSet(ms) \cap Reply(r) = {<<"job", r>>}
      BY <3>3, <3>5 DEF Reply
    <3> QED BY <2>1, <3>6, <3>7
  <2>2. CASE live' = live /\ ms = <<<<"job", r>>>>
    BY <1>3, <2>2, Singles
  <2>3. CASE live' = live /\ ms = <<<<"refused", r>>>>
    BY <1>3, <2>3, Singles
  <2> QED BY <1>2, <2>1, <2>2, <2>3
<1>5. Once(mail', Reply(r)) /\ ToSet(mail') = ToSet(mail) \cup ToSet(ms)
  BY <1>1, <1>2, <1>4, Concat DEF IsAnswered
<1>6. ~Held(r)'
  BY <1>1, <1>2 DEF Held
<1>7. r \in live' => <<"job", r>> \in ToSet(mail') /\ <<"refused", r>> \notin ToSet(mail')
  BY <1>1, <1>3, <1>4, <1>5 DEF IsAnswered, Reply
<1> QED BY <1>1, <1>10, <1>5, <1>6, <1>7 DEF Home, Held

\* What the worker posts of a run is of that run.
LEMMA StartsOthers ==
  ASSUME SessionTypes, NEW x \in Runs, NEW r \in Runs, r # x, Starts(x), ~waiting
  PROVE  /\ \E ms \in Seq(Mails) : mail' = mail \o ms /\ ToSet(ms) \cap Reply(r) = {}
         /\ r \in live' => r \in live
         /\ HeldOn(r)
<1>1. PICK ms \in Seq(Mails) :
         /\ mail' = mail \o ms /\ <<"reply">> \notin ToSet(ms)
         /\ \/ /\ UNCHANGED <<holding, answering>>
               /\ \/ live' = live \cup {x} /\ ms = <<<<"table", live'>>, <<"job", x>>>>
                  \/ live' = live /\ ms = <<<<"job", x>>>>
                  \/ live' = live /\ ms = <<<<"refused", x>>>>
            \/ StartsHeld(x) /\ ms = <<>>
  BY StartsPosts DEF coreVars
<1>4. /\ HeldOn(r)
      /\ live' = live \cup {x} \/ live' = live
  <2>1. CASE StartsHeld(x)
    <3>1. live' = live \cup {x} /\ holding' = {x} /\ answering' = answering /\ holding = {}
      BY <2>1, HeldStart DEF SessionTypes, WorkTypes
    <3> QED BY <3>1 DEF HeldOn, Held
  <2>2. CASE UNCHANGED <<holding, answering>>
    BY <1>1, <2>2, HeldStart DEF HeldOn, Held
  <2> QED BY <1>1, <2>1, <2>2
<1>2. <<"job", x>> \in Mails /\ <<"refused", x>> \in Mails
      /\ <<"job", x>> \notin Reply(r) /\ <<"refused", x>> \notin Reply(r)
  BY MailKinds DEF Answers, Reply
<1>3. ToSet(ms) \cap Reply(r) = {}
  <2>1. CASE live' = live \cup {x} /\ ms = <<<<"table", live'>>, <<"job", x>>>>
    <3>1. live' \in SUBSET Runs
      BY <2>1 DEF SessionTypes, WorkTypes
    <3>2. <<"table", live'>> \in Mails /\ <<"table", live'>> \notin Reply(r)
      BY <3>1, MailKinds DEF Reply
    <3>3. ToSet(<<<<"table", live'>>, <<"job", x>>>>) = {<<"table", live'>>, <<"job", x>>}
      BY <1>2, <3>2, Doubles
    <3>4. ToSet(ms) = {<<"table", live'>>, <<"job", x>>}
      BY <2>1, <3>3, Zenon
    <3> QED BY <1>2, <3>2, <3>4
  <2>2. CASE ms = <<<<"job", x>>>>
    <3>1. ToSet(ms) = {<<"job", x>>}
      BY <1>2, <2>2, Singles
    <3> QED BY <1>2, <3>1
  <2>3. CASE ms = <<<<"refused", x>>>>
    <3>1. ToSet(ms) = {<<"refused", x>>}
      BY <1>2, <2>3, Singles
    <3> QED BY <1>2, <3>1
  <2>4. CASE ms = <<>>
    BY <2>4 DEF ToSet
  <2> QED BY <1>1, <2>1, <2>2, <2>3, <2>4
<1> QED BY <1>1, <1>3, <1>4

\* ... and of the others it posts tables, and the chain's replies.
LEMMA TablesPosted ==
  ASSUME SessionTypes,
         \/ HandleStop \/ HandleSilence \/ HandleLost
         \/ \E x \in Runs : HandleStopRun(x) \/ Ends(x)
  PROVE  /\ \E ms \in Seq(Mails) : mail' = mail \o ms /\ ToSet(ms) \cap Answers = {}
         /\ live' \subseteq live /\ preparing' = preparing
         /\ \A r \in Runs : HeldOn(r)
<1>1. live' \subseteq live /\ preparing' = preparing
  BY DEF HandleStop, HandleSilence, HandleLost, HandleStopRun, Ends
<1>8. \A r \in Runs : HeldOn(r)
  <2>1. CASE HandleStop
    <3>1. live' = {} /\ holding' = {} /\ answering' = answering \cup holding
      BY <2>1 DEF HandleStop
    <3> QED BY <3>1 DEF HeldOn, Held
  <2>2. CASE UNCHANGED <<holding, answering>>
    BY <2>2 DEF HeldOn, Held
  <2> QED BY <2>1, <2>2 DEF HandleSilence, HandleLost, HandleStopRun, Ends, coreVars
<1>2. live' \in SUBSET Runs /\ {} \in SUBSET Runs
  BY <1>1 DEF SessionTypes, WorkTypes
<1>3. /\ <<"table", live'>> \in Mails /\ <<"table", {}>> \in Mails /\ <<"reply">> \in Mails
      /\ <<"table", live'>> \notin Answers /\ <<"table", {}>> \notin Answers
      /\ <<"reply">> \notin Answers
  BY <1>2, MailKinds
<1>4. /\ <<<<"table", live'>>>> \in Seq(Mails) /\ ToSet(<<<<"table", live'>>>>) = {<<"table", live'>>}
      /\ <<<<"reply">>>> \in Seq(Mails) /\ ToSet(<<<<"reply">>>>) = {<<"reply">>}
  BY <1>3, Singles
<1>5. /\ <<<<"table", {}>>, <<"reply">>>> \in Seq(Mails)
      /\ ToSet(<<<<"table", {}>>, <<"reply">>>>) = {<<"table", {}>>, <<"reply">>}
  BY <1>3, Doubles
<1>6. \/ mail' = mail \o <<<<"table", live'>>>>
      \/ mail' = mail \o <<<<"reply">>>>
      \/ mail' = mail \o <<<<"table", {}>>, <<"reply">>>>
  BY Zenon DEF HandleStop, HandleSilence, HandleLost, HandleStopRun, Ends, Post
<1>7. \E ms \in Seq(Mails) : mail' = mail \o ms /\ ToSet(ms) \cap Answers = {}
  <2>1. CASE mail' = mail \o <<<<"table", live'>>>>
    BY <1>3, <1>4, <2>1
  <2>2. CASE mail' = mail \o <<<<"reply">>>>
    BY <1>3, <1>4, <2>2
  <2>3. CASE mail' = mail \o <<<<"table", {}>>, <<"reply">>>>
    BY <1>3, <1>5, <2>3
  <2> QED BY <1>6, <2>1, <2>2, <2>3
<1> QED BY <1>1, <1>7, <1>8

LEMMA HomeInductive ==
  ASSUME SessionTypes, Protocol, SessionStep, NEW r \in Runs, Home(r)
  PROVE  Home(r)'
<1> DEFINE M == {<<"run", r>>}
           A == Reply(r)
<1>0. /\ inbox \in Seq(Msgs) /\ mail \in Seq(Mails) /\ chain \in Seq(Items)
      /\ Once(chain, M) /\ Once(inbox, M) /\ Once(mail, A) /\ (Waits(r) => ~Posted(r))
      /\ <<"run", r>> \in RunCalls /\ A \subseteq Answers
      /\ <<>> \in Seq(StopCalls)
  BY FreshRuns DEF SessionTypes, Home, Reply, Answers
<1>1. \A posted \in Seq(StopCalls) : inbox' = inbox \o posted =>
         Once(inbox', M) /\ (Posted(r)' <=> Posted(r))
  <2> SUFFICES ASSUME NEW posted \in Seq(StopCalls), inbox' = inbox \o posted
               PROVE  Once(inbox', M) /\ (Posted(r)' <=> Posted(r))
    OBVIOUS
  <2>1. posted \in Seq(Msgs) /\ ToSet(posted) \cap M = {}
    <3>1. posted \in Seq(Msgs) /\ ToSet(posted) \subseteq StopCalls
      BY SeqMonotonic, Kinds, Places
    <3> QED BY <1>0, <3>1, Kinds
  <2>2. Once(inbox', M) /\ ToSet(inbox') \cap M = ToSet(inbox) \cap M
    BY <1>0, <2>1, Untouched
  <2> QED BY <2>2 DEF Posted
<1>2. mail # <<>> /\ mail' = Tail(mail) /\ Head(mail) \notin A =>
         Once(mail', A) /\ ToSet(mail') \cap A = ToSet(mail) \cap A
  BY <1>0, Untouched
<1>3. \A ms \in Seq(Mails) : mail' = mail \o ms /\ ToSet(ms) \cap A = {} =>
         Once(mail', A) /\ ToSet(mail') \cap A = ToSet(mail) \cap A
  BY <1>0, Untouched
<1>4. chain' = chain => (Waits(r)' <=> Waits(r)) /\ Once(chain', M)
  BY <1>0 DEF Waits
<1>5. inbox' = inbox => (Posted(r)' <=> Posted(r)) /\ Once(inbox', M)
  BY <1>0 DEF Posted
<1>6. mail' = mail => Once(mail', A) /\ ToSet(mail') \cap A = ToSet(mail) \cap A
  BY <1>0
<1> HIDE DEF M, A
<1>7. ASSUME /\ Once(chain', M) /\ Once(inbox', M) /\ (Waits(r)' => ~Posted(r)')
             /\ Waits(r)' \/ Posted(r)' => Waits(r) \/ Posted(r)
             /\ Once(mail', A) /\ ToSet(mail') \cap A = ToSet(mail) \cap A
             /\ run'[r].told = run[r].told /\ preparing' = preparing /\ (r \in live' => r \in live)
             /\ HeldOn(r)
      PROVE  Home(r)'
  BY <1>7, HomeFrame DEF M, A
<1>23. UNCHANGED <<holding, answering>> => HeldOn(r) /\ (Held(r)' <=> Held(r))
  BY DEF HeldOn, Held
<1>8. ASSUME NEW x \in Runs, NEW posted \in Seq(StopCalls), PressRun(x, posted)
      PROVE  Home(r)'
  <2>1. /\ run[x].told = "unpressed" /\ run'[x].told = "called"
        /\ \A y \in Runs : y # x => run'[y] = run[y]
        /\ UNCHANGED <<mail, preparing, live, holding, answering>> /\ Follow(<<<<"run", x>>>>, posted)
    BY <1>8 DEF PressRun, SessionTypes, workerVars, runtimeVars, coreVars
  <2>2. <<<<"run", x>>>> \in Seq(Items) /\ ToSet(<<<<"run", x>>>>) = {<<"run", x>>}
        /\ Once(<<<<"run", x>>>>, M)
    <3>1. <<"run", x>> \in Items
      BY FreshRuns, Kinds
    <3> QED BY <3>1, Singles
  <2>3. CASE x = r
    <3>1. ~Waits(r) /\ ~Posted(r) /\ r \notin preparing /\ ~IsAnswered(r) /\ ~Held(r) /\ r \notin live
      BY <2>1, <2>3 DEF Home, Held, IsAnswered, Reply
    <3>2. /\ Once(chain', M) /\ Once(inbox', M) /\ (Waits(r)' => ~Posted(r)')
      BY <2>1, <2>2, <3>1, HomeFollows DEF M
    <3>3. ~IsAnswered(r)' /\ ~Held(r)' /\ Once(mail', A)
      BY <1>6, <1>23, <2>1, <3>1 DEF IsAnswered, A
    <3> QED BY <2>1, <2>3, <3>1, <3>2, <3>3 DEF Home, Held, M, A
  <2>4. CASE x # r
    <3>1. <<"run", r>> # <<"run", x>>
      BY <2>4
    <3>2. /\ Once(chain', M) /\ Once(inbox', M) /\ (Waits(r)' => ~Posted(r)')
          /\ Waits(r)' \/ Posted(r)' => Waits(r) \/ Posted(r)
      BY <2>1, <2>2, <3>1, HomeFollows DEF M
    <3> QED BY <1>6, <1>7, <1>23, <2>1, <2>4, <3>2
  <2> QED BY <2>3, <2>4
<1>9. ASSUME NEW x \in Runs, NEW posted \in Seq(StopCalls), HearAnswer(x, posted)
      PROVE  Home(r)'
  <2>1. /\ mail # <<>> /\ Head(mail) \in {<<"job", x>>, <<"refused", x>>} /\ mail' = Tail(mail)
        /\ inbox' = inbox \o posted
        /\ run'[x].told = Head(mail)[1] /\ \A y \in Runs : y # x => run'[y] = run[y]
        /\ UNCHANGED <<chain, preparing, live, holding, answering>>
    BY <1>9 DEF HearAnswer, SessionTypes, workerVars, runtimeVars, coreVars
  <2>2. CASE x # r
    <3>1. Head(mail) \notin A
      BY <2>1, <2>2 DEF A, Reply
    <3> QED BY <1>0, <1>1, <1>2, <1>4, <1>7, <1>23, <2>1, <2>2, <3>1
  <2>3. CASE x = r
    <3>1. Head(mail) \in A
      BY <2>1, <2>3 DEF A, Reply
    <3>2. Once(mail', A) /\ ToSet(mail') \cap A = {} /\ Head(mail) \in ToSet(mail)
      BY <1>0, <2>1, <3>1, Behind
    <3>3. IsAnswered(r) /\ ~Held(r) /\ ~Waits(r) /\ ~Posted(r) /\ r \notin preparing
      BY <3>1, <3>2 DEF IsAnswered, Home, A
    <3>4. ~IsAnswered(r)' /\ ~Held(r)' /\ ~Waits(r)' /\ ~Posted(r)' /\ Once(inbox', M) /\ Once(chain', M)
      BY <1>1, <1>4, <1>23, <2>1, <3>2, <3>3 DEF IsAnswered, A
    <3>5. r \in live => run'[r].told = "job" /\ <<"refused", r>> \notin ToSet(mail')
      <4>1. r \in live => Head(mail) = <<"job", r>>
        BY <2>1, <2>3, <3>2, <3>3 DEF Home, Held
      <4>2. <<"job", r>>[1] = "job" /\ <<"refused", r>> \in A
        BY DEF A, Reply
      <4> QED BY <2>1, <2>3, <3>2, <4>1, <4>2
    <3> QED BY <2>1, <3>2, <3>3, <3>4, <3>5 DEF Home, Held, M, A
  <2> QED BY <2>2, <2>3
<1>10. ASSUME NEW posted \in Seq(StopCalls), PostStops(posted)
       PROVE  Home(r)'
  BY <1>0, <1>1, <1>4, <1>6, <1>7, <1>10, <1>23 DEF PostStops, pageVars, workerVars, runtimeVars, coreVars
<1>11. CASE TakeTable
  <2>1. Head(mail) \notin A
    BY <1>11 DEF TakeTable, A, Reply
  <2> QED BY <1>0, <1>2, <1>4, <1>5, <1>7, <1>11, <1>23, <2>1 DEF TakeTable, pageVars, workerVars, runtimeVars, coreVars
<1>12. CASE PressStop \/ ReloadStarts
  <2>1. PICK items \in Seq(Items) : Follow(items, <<>>) /\ <<"run", r>> \notin ToSet(items)
    <3>1. <<"stop", presses + 1, gen>> \in Items /\ <<"lost">> \in Items
      BY DEF Items, SessionTypes
    <3>2. <<"run", r>> # <<"stop", presses + 1, gen>> /\ <<"run", r>> # <<"lost">>
      OBVIOUS
    <3>3. CASE PressStop
      <4>1. <<<<"stop", presses + 1, gen>>>> \in Seq(Items)
            /\ ToSet(<<<<"stop", presses + 1, gen>>>>) = {<<"stop", presses + 1, gen>>}
        BY <3>1, Singles
      <4>2. Follow(<<<<"stop", presses + 1, gen>>>>, <<>>)
        BY <3>3 DEF PressStop
      <4>3. <<"run", r>> \notin ToSet(<<<<"stop", presses + 1, gen>>>>)
        BY <3>2, <4>1
      <4> QED BY <4>1, <4>2, <4>3, Zenon
    <3>4. CASE ReloadStarts
      <4>1. <<<<"stop", presses + 1, gen>>, <<"lost">>>> \in Seq(Items)
            /\ ToSet(<<<<"stop", presses + 1, gen>>, <<"lost">>>>) = {<<"stop", presses + 1, gen>>, <<"lost">>}
        BY <3>1, Doubles
      <4>2. Follow(<<<<"stop", presses + 1, gen>>, <<"lost">>>>, <<>>)
        BY <3>4 DEF ReloadStarts
      <4>3. <<"run", r>> \notin ToSet(<<<<"stop", presses + 1, gen>>, <<"lost">>>>)
        BY <3>2, <4>1
      <4> QED BY <4>1, <4>2, <4>3, Zenon
    <3> QED BY <1>12, <3>3, <3>4
  <2>2. Once(items, M)
    BY <2>1 DEF M, Once, ToSet
  <2>3. /\ Once(chain', M) /\ Once(inbox', M) /\ (Waits(r)' => ~Posted(r)')
        /\ Waits(r)' \/ Posted(r)' => Waits(r) \/ Posted(r)
    BY <1>0, <2>1, <2>2, HomeFollows DEF M
  <2> QED BY <1>6, <1>7, <1>12, <1>23, <2>3 DEF PressStop, ReloadStarts, workerVars, runtimeVars, coreVars
<1>13. ASSUME Onward
       PROVE  /\ Once(chain', M) /\ Once(inbox', M) /\ (Waits(r)' => ~Posted(r)')
              /\ Waits(r)' \/ Posted(r)' => Waits(r) \/ Posted(r)
  BY <1>13, HomeGoesOn DEF M
<1>14. CASE HearReply
  <2>1. mail # <<>> /\ Head(mail) = <<"reply">> /\ mail' = Tail(mail)
        /\ UNCHANGED <<run, preparing, live, holding, answering>>
    BY <1>14 DEF HearReply, workerVars, runtimeVars, coreVars
  <2>2. Head(mail) \notin A /\ Head(mail) \in ToSet(mail)
    BY <1>0, <2>1, Behind DEF A, Reply
  <2>3. UNCHANGED <<chain, inbox>> \/ Onward
    <3>1. chain # <<>> /\ ToSet(inbox) \cap Calls = {}
      BY <2>1, <2>2 DEF Protocol
    <3> QED BY <1>14, <3>1 DEF HearReply, Onward
  <2> QED BY <1>0, <1>2, <1>4, <1>5, <1>7, <1>13, <1>23, <2>1, <2>2, <2>3
<1>15. CASE Purge
  <2>1. UNCHANGED <<run, mail, preparing, live, holding, answering>>
    BY <1>15 DEF Purge, workerVars, runtimeVars, coreVars
  <2>2. (chain' = chain /\ inbox' = Append(inbox, <<"silence">>)) \/ Onward
    <3>1. chain # <<>> /\ ToSet(inbox) \cap Calls = {}
      BY <1>15 DEF Purge, Protocol
    <3> QED BY <1>15, <3>1 DEF Purge, Onward
  <2>3. CASE chain' = chain /\ inbox' = Append(inbox, <<"silence">>)
    <3>1. PICK m \in Msgs : m = <<"silence">> /\ inbox' = Append(inbox, m)
      <4>1. <<"silence">> \in Msgs
        BY DEF Msgs, Calls
      <4> QED BY <2>3, <4>1
    <3>2. PICK t \in Seq(Msgs) : inbox' = inbox \o t /\ ToSet(t) = {m}
      <4>1. inbox \in Seq(Msgs)
        BY <1>0
      <4>2. Append(inbox, m) = inbox \o <<m>>
        BY <4>1, AtTheEnd
      <4>3. <<m>> \in Seq(Msgs) /\ ToSet(<<m>>) = {m}
        BY Singles
      <4> QED BY <3>1, <4>2, <4>3
    <3>3. ToSet(t) \cap M = {}
      BY <3>1, <3>2 DEF M
    <3>4. Once(inbox', M) /\ ToSet(inbox') \cap M = ToSet(inbox) \cap M
      <4>1. inbox \in Seq(Msgs) /\ Once(inbox, M)
        BY <1>0
      <4> QED BY <3>2, <3>3, <4>1, Untouched
    <3>5. Posted(r)' <=> Posted(r)
      BY <3>4 DEF Posted, M
    <3> QED BY <1>0, <1>4, <1>6, <1>7, <1>23, <2>1, <2>3, <3>4, <3>5
  <2> QED BY <1>6, <1>7, <1>13, <1>23, <2>1, <2>2, <2>3
<1>16. CASE Handle
  <2> DEFINE m == Head(inbox)
  <2>1. /\ inbox # <<>> /\ inbox' = Tail(inbox) /\ UNCHANGED <<run, chain>>
        /\ \/ m[1] = "run" /\ HandleRun(m[2])
           \/ m[1] = "stop" /\ HandleStop
           \/ m[1] = "silence" /\ HandleSilence
           \/ m[1] = "lost" /\ HandleLost
           \/ m[1] = "stopRun" /\ HandleStopRun(m[2])
    BY <1>16 DEF Handle, pageVars
  <2>2. /\ m \in Msgs /\ m \in ToSet(inbox) /\ ToSet(inbox') \subseteq ToSet(inbox)
        /\ Once(inbox', M) /\ (m \in M => ToSet(inbox') \cap M = {})
    BY <1>0, <2>1, Behind
  <2> HIDE DEF m
  <2>3. /\ m[1] = "run" => m[2] \in Runs /\ m = <<"run", m[2]>>
        /\ m[1] = "stopRun" => m[2] \in Runs
    BY <2>2, MsgKinds
  <2>4. Posted(r)' => Posted(r)
    BY <2>2 DEF Posted
  <2>5. CASE m[1] = "run" /\ HandleRun(m[2]) /\ m[2] # r
    <3>1. CASE m[2] \in Slow \/ waiting
      <4>1. preparing' = preparing \cup {m[2]} /\ UNCHANGED <<mail, live, holding, answering>>
        BY <2>5, <3>1 DEF HandleRun, coreVars
      <4> QED BY <1>0, <1>4, <1>6, <1>23, <2>1, <2>2, <2>4, <2>5, <4>1, HomeFrame DEF M, A
    <3>2. CASE ~(m[2] \in Slow \/ waiting)
      <4>1. Starts(m[2]) /\ ~waiting /\ preparing' = preparing
        BY <2>5, <3>2 DEF HandleRun
      <4>2. /\ \E ms \in Seq(Mails) : mail' = mail \o ms /\ ToSet(ms) \cap A = {}
            /\ r \in live' => r \in live
            /\ HeldOn(r)
        BY <2>3, <2>5, <4>1, StartsOthers DEF A
      <4> QED BY <1>0, <1>3, <1>4, <1>7, <2>1, <2>2, <2>4, <4>1, <4>2
    <3> QED BY <3>1, <3>2
  <2>6. CASE m[1] = "run" /\ HandleRun(m[2]) /\ m[2] = r
    <3>1. Posted(r) /\ ~Posted(r)'
      BY <2>2, <2>3, <2>6 DEF Posted, M
    <3>2. ~Waits(r) /\ r \notin preparing /\ ~Held(r) /\ ~IsAnswered(r) /\ run[r].told = "called" /\ r \notin live
      BY <3>1 DEF Home
    <3>3. CASE r \in Slow \/ waiting
      <4>1. preparing' = preparing \cup {r} /\ UNCHANGED <<mail, live, holding, answering>>
        BY <2>6, <3>3 DEF HandleRun, coreVars
      <4>2. ~Waits(r)' /\ ~IsAnswered(r)' /\ ~Held(r)'
        BY <1>23, <2>1, <3>2, <4>1 DEF Waits, IsAnswered
      <4> QED BY <1>0, <1>4, <1>6, <2>1, <2>2, <3>1, <3>2, <4>1, <4>2 DEF Home, Held, M, A
    <3>4. CASE ~(r \in Slow \/ waiting)
      <4>1. Starts(r) /\ ~waiting /\ preparing' = preparing
        BY <2>6, <3>4 DEF HandleRun
      <4> QED BY <2>1, <2>2, <3>1, <3>2, <4>1, HomeStarts DEF M
    <3> QED BY <3>3, <3>4
  <2>7. CASE \/ HandleStop \/ HandleSilence \/ HandleLost
             \/ \E x \in Runs : HandleStopRun(x)
    <3>1. /\ \E ms \in Seq(Mails) : mail' = mail \o ms /\ ToSet(ms) \cap Answers = {}
          /\ live' \subseteq live /\ preparing' = preparing /\ HeldOn(r)
      BY <2>7, TablesPosted
    <3>2. \E ms \in Seq(Mails) : mail' = mail \o ms /\ ToSet(ms) \cap A = {}
      BY <1>0, <3>1
    <3> QED BY <1>0, <1>3, <1>4, <1>7, <2>1, <2>2, <2>4, <3>1, <3>2
  <2> QED BY <2>1, <2>3, <2>5, <2>6, <2>7
<1>17. ASSUME NEW x \in Runs, Fetched(x)
       PROVE  Home(r)'
  <2>1. /\ x \in preparing /\ preparing' = preparing \ {x} /\ Starts(x) /\ ~waiting
        /\ UNCHANGED <<run, chain, inbox>>
    BY <1>17 DEF Fetched, pageVars
  <2>2. CASE x # r
    <3>1. /\ \E ms \in Seq(Mails) : mail' = mail \o ms /\ ToSet(ms) \cap A = {}
          /\ r \in live' => r \in live
          /\ HeldOn(r)
      BY <2>1, <2>2, StartsOthers DEF A
    <3> QED BY <1>0, <1>3, <1>4, <1>5, <2>1, <2>2, <3>1, HomeFrame DEF M, A
  <2>3. CASE x = r
    <3>1. ~Posted(r)' /\ Once(inbox', M) /\ r \notin preparing'
      BY <1>5, <2>1, <2>3 DEF Home
    <3> QED BY <2>1, <2>3, <3>1, HomeStarts DEF M
  <2> QED BY <2>2, <2>3
<1>18. ASSUME NEW x \in Runs, Ends(x)
       PROVE  Home(r)'
  <2>1. /\ \E ms \in Seq(Mails) : mail' = mail \o ms /\ ToSet(ms) \cap Answers = {}
        /\ live' \subseteq live /\ preparing' = preparing /\ HeldOn(r)
    BY <1>18, TablesPosted
  <2>2. \E ms \in Seq(Mails) : mail' = mail \o ms /\ ToSet(ms) \cap A = {}
    BY <1>0, <2>1
  <2>3. UNCHANGED <<run, chain, inbox>>
    BY <1>18 DEF Ends, pageVars
  <2> QED BY <1>0, <1>3, <1>4, <1>5, <1>7, <2>1, <2>2, <2>3
<1>19. ASSUME UNCHANGED <<run, chain, inbox, mail, preparing, live, holding, answering>>
       PROVE  Home(r)'
  BY <1>0, <1>4, <1>5, <1>6, <1>7, <1>19, <1>23
<1>20. ASSUME NEW x \in Runs, Sound(x)
       PROVE  Home(r)'
  BY <1>19, <1>20 DEF Sound, pageVars
<1>21. CASE EngineStep
  BY <1>19, <1>21, EngineTypes DEF workerVars, runtimeVars, coreVars
<1>22. CASE SettleTimesOut \/ UNCHANGED sessionVars
  BY <1>19, <1>22 DEF SettleTimesOut, sessionVars, pageVars, workerVars, runtimeVars, coreVars
<1>24. ASSUME <<"job", r>> \in A, NEW ms \in Seq(Mails), mail' = mail \o ms,
              ms = <<<<"job", r>>>> \/ \E T \in SUBSET Runs : ms = <<<<"table", T>>, <<"job", r>>>>,
              Held(r), ~Held(r)', UNCHANGED <<run, chain, inbox, preparing, live>>
       PROVE  Home(r)'
  <2>1. <<"job", r>> \in Mails /\ <<"job", r>> # <<"refused", r>>
    BY MailKinds DEF Answers
  <2>2. /\ ~Waits(r) /\ ~Posted(r) /\ r \notin preparing /\ ~IsAnswered(r) /\ run[r].told = "called"
        /\ ~Waits(r)' /\ ~Posted(r)' /\ r \notin preparing' /\ run'[r].told = "called"
        /\ Once(chain', M) /\ Once(inbox', M)
    BY <1>4, <1>5, <1>24 DEF Home
  <2>3. Once(ms, A) /\ ToSet(ms) \cap A = {<<"job", r>>}
    <3>1. CASE ms = <<<<"job", r>>>>
      BY <1>24, <2>1, <3>1, Singles
    <3>2. ASSUME NEW T \in SUBSET Runs, ms = <<<<"table", T>>, <<"job", r>>>>
          PROVE  Once(ms, A) /\ ToSet(ms) \cap A = {<<"job", r>>}
      <4>1. <<"table", T>> \in Mails /\ <<"table", T>> \notin A
        BY MailKinds DEF A, Reply
      <4>2. /\ ToSet(<<<<"table", T>>, <<"job", r>>>>) = {<<"table", T>>, <<"job", r>>}
            /\ Once(<<<<"table", T>>, <<"job", r>>>>, A)
        BY <2>1, <4>1, Doubles
      <4>3. ToSet(ms) = {<<"table", T>>, <<"job", r>>} /\ Once(ms, A)
        BY <3>2, <4>2, Zenon
      <4> QED BY <1>24, <4>1, <4>3
    <3> QED BY <1>24, <3>1, <3>2
  <2>4. ToSet(mail) \cap A = {}
    BY <2>2 DEF IsAnswered, A
  <2>5. Once(mail', A) /\ ToSet(mail') = ToSet(mail) \cup ToSet(ms)
    BY <1>0, <1>24, <2>3, <2>4, Concat
  <2>6. <<"job", r>> \in ToSet(mail') /\ <<"refused", r>> \notin ToSet(mail')
    BY <2>1, <2>3, <2>4, <2>5 DEF A, Reply
  <2> QED BY <1>24, <2>2, <2>5, <2>6 DEF Home, Held, M, A
<1>25. <<"job", r>> \in A
  BY DEF A, Reply
<1>26. ASSUME NEW x \in Runs, Answer(x)
       PROVE  Home(r)'
  <2>1. /\ x \in answering /\ answering' = answering \ {x} /\ mail' = mail \o <<<<"job", x>>>>
        /\ UNCHANGED <<run, chain, inbox, preparing, live, holding>>
    BY <1>26 DEF Answer, Post, pageVars, workerVars, runtimeVars, coreVars
  <2>2. <<"job", x>> \in Mails
    BY MailKinds DEF Answers
  <2>3. <<<<"job", x>>>> \in Seq(Mails) /\ ToSet(<<<<"job", x>>>>) = {<<"job", x>>}
    BY <2>2, Singles
  <2>4. CASE x = r
    <3>1. Held(r) /\ ~Held(r)'
      BY <2>1, <2>4 DEF Home, Held
    <3> QED BY <1>24, <1>25, <2>1, <2>3, <2>4, <3>1
  <2>5. CASE x # r
    <3>1. HeldOn(r)
      BY <2>1, <2>5 DEF HeldOn, Held
    <3>2. <<"job", x>> \notin A
      BY <2>5 DEF A, Reply
    <3>3. ToSet(<<<<"job", x>>>>) \cap A = {}
      BY <2>3, <3>2
    <3> QED BY <1>0, <1>3, <1>4, <1>5, <1>7, <2>1, <2>3, <3>1, <3>3
  <2> QED BY <2>4, <2>5
<1>27. CASE Pump
  BY <1>19, <1>27 DEF Pump, pageVars, workerVars, runtimeVars, coreVars
<1>28. CASE Release
  <2>1. /\ holding' = {} /\ UNCHANGED <<run, chain, inbox, preparing, live, answering>>
        /\ \/ holding = {} /\ mail' = mail \o <<>>
           \/ \E x \in holding : mail' = mail \o <<<<"table", live>>, <<"job", x>>>>
    BY <1>28, Zenon DEF Release, Post, pageVars, workerVars, runtimeVars, coreVars
  <2>2. live \in SUBSET Runs /\ holding \in SUBSET Runs
    BY DEF SessionTypes, WorkTypes
  <2>3. CASE holding = {} /\ mail' = mail \o <<>>
    <3>1. mail' = mail
      BY <1>0, <2>3, ConcatEmptySeq
    <3> QED BY <1>19, <2>1, <2>3, <3>1
  <2>4. ASSUME NEW x \in holding, mail' = mail \o <<<<"table", live>>, <<"job", x>>>>
        PROVE  Home(r)'
    <3>1. <<"job", x>> \in Mails /\ <<"table", live>> \in Mails
      BY <2>2, MailKinds DEF Answers
    <3>2. /\ <<<<"table", live>>, <<"job", x>>>> \in Seq(Mails)
          /\ ToSet(<<<<"table", live>>, <<"job", x>>>>) = {<<"table", live>>, <<"job", x>>}
      BY <3>1, Doubles
    <3>3. CASE x = r
      <4>1. Held(r) /\ ~Held(r)'
        BY <2>1, <2>4, <3>3 DEF Home, Held
      <4> QED BY <1>24, <1>25, <2>1, <2>2, <2>4, <3>2, <3>3, <4>1
    <3>4. CASE x # r
      <4>1. r \notin holding
        BY <2>4, <3>4 DEF Home
      <4>2. HeldOn(r)
        BY <2>1, <4>1 DEF HeldOn, Held
      <4>3. ToSet(<<<<"table", live>>, <<"job", x>>>>) \cap A = {}
        <5>1. <<"job", x>> \notin A /\ <<"table", live>> \notin A
          BY <3>4 DEF A, Reply
        <5> QED BY <3>2, <5>1
      <4> QED BY <1>0, <1>3, <1>4, <1>5, <1>7, <2>1, <2>4, <3>2, <4>2, <4>3
    <3> QED BY <3>3, <3>4
  <2> QED BY <2>1, <2>3, <2>4
<1> QED BY <1>8, <1>9, <1>10, <1>11, <1>12, <1>14, <1>15, <1>16, <1>17, <1>18, <1>20, <1>21, <1>22,
           <1>26, <1>27, <1>28 DEF SessionStep


-----------------------------------------------------------------------------
(* The tables a run is in                                                   *)

With(r) == {m \in Mails : m[1] = "table" /\ r \in m[2]}
Without(r) == {m \in Mails : m[1] = "table" /\ r \notin m[2]}

(* Between a member of B and an x behind it there is one of G, and none     *)
(* behind x; before x there is one of G.                                    *)
Mends(s, x, B, G) ==
  \A k, j \in DOMAIN s : s[k] = x /\ s[j] \in B => \E i \in DOMAIN s : j < i /\ i < k /\ s[i] \in G
Leads(s, x, G) == \A k \in DOMAIN s : s[k] = x => \E i \in DOMAIN s : i < k /\ s[i] \in G

(* A run that goes is in the last table before the page hears of its job,   *)
(* and in all the tables after.                                             *)
Tables(r) ==
  r \in live =>
    /\ run[r].told = "job" => r \in table /\ ToSet(mail) \cap Without(r) = {}
    /\ Mends(mail, <<"job", r>>, Without(r), With(r))
    /\ r \notin table => Leads(mail, <<"job", r>>, With(r))

LEMMA MendsBehind ==
  ASSUME NEW S, NEW s \in Seq(S), s # <<>>, NEW x, NEW B, NEW G
  PROVE  /\ Mends(s, x, B, G) => /\ Mends(Tail(s), x, B, G)
                                 /\ Head(s) \in B => Leads(Tail(s), x, G)
                                 /\ Head(s) = x => ToSet(s) \cap B = {}
         /\ Leads(s, x, G) => /\ Head(s) # x
                              /\ Head(s) \notin G => Leads(Tail(s), x, G)
<1> DEFINE t == Tail(s)
<1>1. /\ Head(s) = s[1] /\ t \in Seq(S) /\ Len(t) = Len(s) - 1
      /\ \A i \in 1..Len(t) : t[i] = s[i + 1]
  BY HeadTailProperties
<1>2. DOMAIN s = 1..Len(s) /\ Len(s) \in Nat /\ DOMAIN t = 1..Len(t) /\ Len(t) \in Nat
      /\ Len(s) # 0
  BY <1>1, Places, EmptySeq
<1> HIDE DEF t
<1>3. \A i \in DOMAIN t : i \in Nat /\ i + 1 \in DOMAIN s /\ t[i] = s[i + 1] /\ i > 0
  BY <1>1, <1>2
<1>4. \A i \in DOMAIN s : i \in Nat /\ (i = 1 \/ (i > 1 /\ i - 1 \in DOMAIN t /\ s[i] = t[i - 1]))
  BY <1>1, <1>2
<1>5. 1 \in DOMAIN s /\ s[1] = Head(s)
  BY <1>1, <1>2
<1>6. ASSUME Mends(s, x, B, G), NEW k \in DOMAIN t, NEW j \in DOMAIN t, t[k] = x, t[j] \in B
      PROVE  \E i \in DOMAIN t : j < i /\ i < k /\ t[i] \in G
  <2>1. PICK i \in DOMAIN s : j + 1 < i /\ i < k + 1 /\ s[i] \in G
    <3>1. k + 1 \in DOMAIN s /\ j + 1 \in DOMAIN s /\ s[k + 1] = x /\ s[j + 1] \in B
      BY <1>3, <1>6
    <3> QED BY <1>6, <3>1, Zenon DEF Mends
  <2>2. i - 1 \in DOMAIN t /\ j < i - 1 /\ i - 1 < k /\ t[i - 1] \in G
    BY <1>3, <1>4, <2>1
  <2> QED BY <2>2
<1>7. ASSUME Mends(s, x, B, G), Head(s) \in B, NEW k \in DOMAIN t, t[k] = x
      PROVE  \E i \in DOMAIN t : i < k /\ t[i] \in G
  <2>1. PICK i \in DOMAIN s : 1 < i /\ i < k + 1 /\ s[i] \in G
    <3>1. k + 1 \in DOMAIN s /\ s[k + 1] = x /\ s[1] \in B
      BY <1>3, <1>5, <1>7
    <3> QED BY <1>5, <1>7, <3>1, Zenon DEF Mends
  <2>2. i - 1 \in DOMAIN t /\ i - 1 < k /\ t[i - 1] \in G
    BY <1>3, <1>4, <2>1
  <2> QED BY <2>2
<1>8. ASSUME Mends(s, x, B, G), Head(s) = x, NEW j \in DOMAIN s, s[j] \in B
      PROVE  FALSE
  <2>1. PICK i \in DOMAIN s : j < i /\ i < 1 /\ s[i] \in G
    BY <1>5, <1>8, Zenon DEF Mends
  <2> QED BY <1>2, <2>1
<1>9. ASSUME Leads(s, x, G), Head(s) = x
      PROVE  FALSE
  <2>1. PICK i \in DOMAIN s : i < 1 /\ s[i] \in G
    BY <1>5, <1>9, Zenon DEF Leads
  <2> QED BY <1>2, <2>1
<1>10. ASSUME Leads(s, x, G), Head(s) \notin G, NEW k \in DOMAIN t, t[k] = x
       PROVE  \E i \in DOMAIN t : i < k /\ t[i] \in G
  <2>1. PICK i \in DOMAIN s : i < k + 1 /\ s[i] \in G
    <3>1. k + 1 \in DOMAIN s /\ s[k + 1] = x
      BY <1>3, <1>10
    <3> QED BY <1>10, <3>1, Zenon DEF Leads
  <2>2. i # 1
    BY <1>5, <1>10, <2>1
  <2>3. i - 1 \in DOMAIN t /\ i - 1 < k /\ t[i - 1] \in G
    BY <1>3, <1>4, <2>1, <2>2
  <2> QED BY <2>3
<1>11. Mends(s, x, B, G) => /\ Mends(t, x, B, G)
                            /\ Head(s) \in B => Leads(t, x, G)
                            /\ Head(s) = x => ToSet(s) \cap B = {}
  <2> SUFFICES ASSUME Mends(s, x, B, G)
               PROVE  /\ Mends(t, x, B, G)
                      /\ Head(s) \in B => Leads(t, x, G)
                      /\ Head(s) = x => ToSet(s) \cap B = {}
    OBVIOUS
  <2>1. Mends(t, x, B, G)
    BY <1>6, Zenon DEF Mends
  <2>2. Head(s) \in B => Leads(t, x, G)
    BY <1>7, Zenon DEF Leads
  <2>3. Head(s) = x => ToSet(s) \cap B = {}
    BY <1>8 DEF ToSet
  <2> QED BY <2>1, <2>2, <2>3
<1>12. Leads(s, x, G) => Head(s) # x /\ (Head(s) \notin G => Leads(t, x, G))
  BY <1>9, <1>10, Zenon DEF Leads
<1> QED BY <1>11, <1>12 DEF t

\* What is put behind has no x in it, nor any of B; or it is one of G and then x.
LEMMA MendsBefore ==
  ASSUME NEW S, NEW s \in Seq(S), NEW t \in Seq(S), NEW x, NEW B, NEW G, x \notin ToSet(t)
  PROVE  /\ Mends(s, x, B, G) /\ ToSet(t) \cap B = {} => Mends(s \o t, x, B, G)
         /\ Leads(s, x, G) => Leads(s \o t, x, G)
<1> DEFINE st == s \o t
<1>1. st \in Seq(S) /\ Len(st) = Len(s) + Len(t)
      /\ \A i \in 1..Len(s) + Len(t) : st[i] = IF i <= Len(s) THEN s[i] ELSE t[i - Len(s)]
  BY ConcatProperties
<1>2. DOMAIN s = 1..Len(s) /\ Len(s) \in Nat /\ DOMAIN t = 1..Len(t) /\ Len(t) \in Nat
      /\ DOMAIN st = 1..Len(st)
  BY <1>1, Places
<1> HIDE DEF st
<1>3. \A i \in DOMAIN st : (i \in DOMAIN s /\ st[i] = s[i]) \/ st[i] \in ToSet(t)
  <2> SUFFICES ASSUME NEW i \in DOMAIN st, i \notin DOMAIN s
               PROVE  st[i] \in ToSet(t)
    BY <1>1, <1>2
  <2>1. i - Len(s) \in DOMAIN t /\ st[i] = t[i - Len(s)]
    BY <1>1, <1>2
  <2> QED BY <2>1 DEF ToSet
<1>4. \A i \in DOMAIN s : i \in DOMAIN st /\ st[i] = s[i]
  BY <1>1, <1>2
<1>5. ASSUME Mends(s, x, B, G), ToSet(t) \cap B = {}
      PROVE  Mends(st, x, B, G)
  <2> SUFFICES ASSUME NEW k \in DOMAIN st, NEW j \in DOMAIN st, st[k] = x, st[j] \in B
               PROVE  \E i \in DOMAIN st : j < i /\ i < k /\ st[i] \in G
    BY DEF Mends
  <2>1. k \in DOMAIN s /\ s[k] = x /\ j \in DOMAIN s /\ s[j] \in B
    BY <1>3, <1>5
  <2> QED BY <1>4, <1>5, <2>1, Zenon DEF Mends
<1>6. ASSUME Leads(s, x, G)
      PROVE  Leads(st, x, G)
  <2> SUFFICES ASSUME NEW k \in DOMAIN st, st[k] = x
               PROVE  \E i \in DOMAIN st : i < k /\ st[i] \in G
    BY DEF Leads
  <2>1. k \in DOMAIN s /\ s[k] = x
    BY <1>3
  <2> QED BY <1>4, <1>6, <2>1, Zenon DEF Leads
<1> QED BY <1>5, <1>6 DEF st

LEMMA Mended ==
  ASSUME NEW S, NEW s \in Seq(S), NEW g \in S, NEW x \in S, NEW B, NEW G,
         x \notin ToSet(s), g \in G, g \notin B, x \notin B, g # x
  PROVE  Mends(s \o <<g, x>>, x, B, G) /\ Leads(s \o <<g, x>>, x, G)
<1> DEFINE t == <<g, x>>
           st == s \o t
           n == Len(s)
<1>0. t \in Seq(S) /\ Len(t) = 2 /\ t[1] = g /\ t[2] = x
  OBVIOUS
<1> HIDE DEF t
<1>1. st \in Seq(S) /\ Len(st) = n + 2
      /\ \A i \in 1..n + 2 : st[i] = IF i <= n THEN s[i] ELSE t[i - n]
  <2>1. t \in Seq(S) /\ Len(t) = 2
    BY <1>0
  <2>2. st \in Seq(S) /\ Len(st) = Len(s) + Len(t)
        /\ \A i \in 1..Len(s) + Len(t) : st[i] = IF i <= Len(s) THEN s[i] ELSE t[i - Len(s)]
    BY <2>1, ConcatProperties
  <2> QED BY <2>1, <2>2
<1>2. DOMAIN s = 1..n /\ n \in Nat /\ DOMAIN st = 1..Len(st)
  BY <1>1, Places
<1> HIDE DEF st, n
<1>3. \A i \in DOMAIN s : s[i] # x
  BY DEF ToSet
<1>4. /\ n + 1 \in DOMAIN st /\ st[n + 1] = g /\ n + 2 \in DOMAIN st /\ st[n + 2] = x
      /\ \A i \in 1..n : st[i] = s[i]
  <2>1. n + 1 \in 1..n + 2 /\ n + 2 \in 1..n + 2 /\ ~(n + 1 <= n) /\ ~(n + 2 <= n)
        /\ (n + 1) - n = 1 /\ (n + 2) - n = 2
    BY <1>2
  <2>2. st[n + 1] = t[1] /\ st[n + 2] = t[2]
    BY <1>1, <2>1
  <2>3. \A i \in 1..n : st[i] = s[i]
    BY <1>1, <1>2
  <2> QED BY <1>0, <1>1, <1>2, <2>1, <2>2, <2>3
<1>5. \A i \in DOMAIN st : i \in Nat /\ (i \in 1..n \/ i = n + 1 \/ i = n + 2)
  BY <1>1, <1>2
<1>6. \A k \in DOMAIN st : st[k] = x => k = n + 2
  BY <1>2, <1>3, <1>4, <1>5
<1>7. \A j \in DOMAIN st : st[j] \in B => j < n + 1
  BY <1>2, <1>4, <1>5
<1>8. n + 1 < n + 2
  BY <1>2
<1>9. Mends(st, x, B, G)
  BY <1>4, <1>6, <1>7, <1>8 DEF Mends
<1>10. Leads(st, x, G)
  BY <1>4, <1>6, <1>8 DEF Leads
<1> QED BY <1>9, <1>10 DEF st, t


\* What is told of others, and tables it is in, leave a run told of as it was.
LEMMA TablesTold ==
  ASSUME SessionTypes, NEW r \in Runs, Tables(r), NEW ms \in Seq(Mails), mail' = mail \o ms,
         r \in live' => /\ r \in live /\ <<"job", r>> \notin ToSet(ms)
                        /\ ToSet(ms) \cap Without(r) = {},
         run' = run, table' = table
  PROVE  Tables(r)'
<1> SUFFICES ASSUME r \in live'
             PROVE  /\ run'[r].told = "job" => r \in table' /\ ToSet(mail') \cap Without(r) = {}
                    /\ Mends(mail', <<"job", r>>, Without(r), With(r))
                    /\ r \notin table' => Leads(mail', <<"job", r>>, With(r))
  BY DEF Tables, With, Without
<1>1. /\ run[r].told = "job" => r \in table /\ ToSet(mail) \cap Without(r) = {}
      /\ Mends(mail, <<"job", r>>, Without(r), With(r))
      /\ r \notin table => Leads(mail, <<"job", r>>, With(r))
  BY DEF Tables
<1>2. mail \in Seq(Mails) /\ <<"job", r>> \notin ToSet(ms) /\ ToSet(ms) \cap Without(r) = {}
  BY DEF SessionTypes
<1>3. ToSet(mail \o ms) = ToSet(mail) \cup ToSet(ms)
  BY <1>2, Concat
<1>4. /\ Mends(mail \o ms, <<"job", r>>, Without(r), With(r))
      /\ r \notin table => Leads(mail \o ms, <<"job", r>>, With(r))
  BY <1>1, <1>2, MendsBefore
<1> QED BY <1>1, <1>2, <1>3, <1>4

\* The page takes what is first: a table is its own from then.
LEMMA TablesHeard ==
  ASSUME SessionTypes, NEW r \in Runs, Home(r), Tables(r), mail # <<>>, mail' = Tail(mail), live' = live,
         \/ Head(mail)[1] = "table" /\ table' = Head(mail)[2] /\ run'[r].told = run[r].told
         \/ Head(mail)[1] # "table" /\ table' = table
              /\ (run'[r].told = run[r].told \/ (Head(mail) \in Reply(r) /\ run'[r].told = Head(mail)[1]))
  PROVE  Tables(r)'
<1> SUFFICES ASSUME r \in live
             PROVE  /\ run'[r].told = "job" => r \in table' /\ ToSet(mail') \cap Without(r) = {}
                    /\ Mends(mail', <<"job", r>>, Without(r), With(r))
                    /\ r \notin table' => Leads(mail', <<"job", r>>, With(r))
  BY DEF Tables, With, Without
<1> DEFINE x == <<"job", r>>
           B == Without(r)
           G == With(r)
           h == Head(mail)
<1>1. /\ run[r].told = "job" => r \in table /\ ToSet(mail) \cap B = {}
      /\ Mends(mail, x, B, G) /\ (r \notin table => Leads(mail, x, G))
  BY DEF Tables
<1>2. h \in Mails /\ h \in ToSet(mail) /\ ToSet(mail') \subseteq ToSet(mail)
  BY Behind DEF SessionTypes
<1>3. mail \in Seq(Mails)
  BY DEF SessionTypes
<1>4. /\ Mends(mail, x, B, G) => /\ Mends(mail', x, B, G)
                                 /\ h \in B => Leads(mail', x, G)
                                 /\ h = x => ToSet(mail) \cap B = {}
      /\ Leads(mail, x, G) => h # x /\ (h \notin G => Leads(mail', x, G))
  BY <1>3, MendsBehind
<1>5. h[1] = "table" => (r \in h[2] /\ h \in G /\ h \notin B) \/ (r \notin h[2] /\ h \in B /\ h \notin G)
  BY <1>2 DEF With, Without
<1>6. h[1] # "table" => h \notin G
  BY DEF With
<1> HIDE DEF h
<1>7. CASE h[1] = "table" /\ table' = h[2] /\ run'[r].told = run[r].told
  BY <1>1, <1>2, <1>4, <1>5, <1>7
<1>8. CASE h[1] # "table" /\ table' = table /\ run'[r].told = run[r].told
  BY <1>1, <1>2, <1>4, <1>6, <1>8
<1>9. CASE h[1] # "table" /\ table' = table /\ h \in Reply(r) /\ run'[r].told = h[1]
  <2>1. <<"refused", r>> \notin ToSet(mail)
    BY DEF Home
  <2>2. h = x
    BY <1>2, <1>9, <2>1 DEF Reply
  <2>3. r \in table /\ ToSet(mail') \cap B = {}
    BY <1>1, <1>2, <1>4, <2>2
  <2> QED BY <1>1, <1>4, <1>9, <2>3
<1> QED BY <1>7, <1>8, <1>9 DEF h

\* A run is told to go on with the table it is in.
LEMMA TablesMend ==
  ASSUME SessionTypes, NEW r \in Runs, ~IsAnswered(r), run' = run, run[r].told = "called",
         r \in live', live' \in SUBSET Runs, mail' = mail \o <<<<"table", live'>>, <<"job", r>>>>
  PROVE  Tables(r)'
<1> DEFINE g == <<"table", live'>>
           x == <<"job", r>>
<1>1. mail \in Seq(Mails) /\ mail' = mail \o <<g, x>>
  BY DEF SessionTypes
<1>2. g \in Mails /\ x \in Mails
  BY MailKinds DEF Answers
<1>3. g \in With(r) /\ g \notin Without(r) /\ x \notin Without(r) /\ g # x /\ x \notin ToSet(mail)
  <2>1. g[1] = "table" /\ g[2] = live' /\ x[1] = "job"
    OBVIOUS
  <2>2. x \notin ToSet(mail)
    BY DEF IsAnswered, Reply
  <2> QED BY <1>2, <2>1, <2>2 DEF With, Without
<1> HIDE DEF g, x
<1>4. Mends(mail', x, Without(r), With(r)) /\ Leads(mail', x, With(r))
  BY <1>1, <1>2, <1>3, Mended
<1> QED BY <1>4 DEF x, Tables, With, Without

LEMMA TablesStart ==
  ASSUME SessionTypes, NEW r \in Runs, Home(r), Posted(r) \/ r \in preparing, Starts(r), ~waiting,
         run' = run
  PROVE  Tables(r)'
<1>1. run[r].told = "called" /\ r \notin live /\ ~IsAnswered(r) /\ mail \in Seq(Mails)
  BY DEF Home, SessionTypes
<1>2. \/ live' = live \cup {r} /\ mail' = mail \o <<<<"table", live'>>, <<"job", r>>>>
      \/ live' = live
      \/ StartsHeld(r)
  BY StartsPosts
<1>3. CASE live' = live \cup {r} /\ mail' = mail \o <<<<"table", live'>>, <<"job", r>>>>
  <2>1. live' \in SUBSET Runs /\ r \in live'
    BY <1>3 DEF SessionTypes, WorkTypes
  <2> QED BY <1>1, <1>3, <2>1, TablesMend
<1>4. CASE live' = live
  BY <1>1, <1>4 DEF Tables
<1>5. CASE StartsHeld(r)
  <2>1. mail' = mail
    BY <1>5, HeldStart
  <2>2. \A k \in DOMAIN mail' : mail'[k] # <<"job", r>>
    BY <1>1, <2>1 DEF IsAnswered, Reply, ToSet
  <2>3. run'[r].told # "job"
    BY <1>1
  <2> QED BY <2>2, <2>3 DEF Tables, Mends, Leads
<1> QED BY <1>2, <1>3, <1>4, <1>5

LEMMA TablesInductive ==
  ASSUME SessionTypes, [Next]_vars, NEW r \in Runs, Home(r), Tables(r)
  PROVE  Tables(r)'
<1>0. mail \in Seq(Mails) /\ <<>> \in Seq(Mails) /\ mail \o <<>> = mail /\ ToSet(<<>>) = {}
  BY ConcatEmptySeq DEF SessionTypes, ToSet
<1>1. ASSUME UNCHANGED <<mail, live, table>>,
             run'[r].told = "job" => run[r].told = "job"
      PROVE  Tables(r)'
  BY <1>1 DEF Tables, With, Without
<1>2. ASSUME NEW x \in Runs, NEW posted, PressRun(x, posted), table' = table
      PROVE  Tables(r)'
  <2>1. run'[r].told = "job" => run[r].told = "job"
    BY <1>2 DEF PressRun, SessionTypes
  <2> QED BY <1>1, <1>2, <2>1 DEF PressRun, workerVars, runtimeVars, coreVars
<1>3. ASSUME NEW x \in Runs, Answered(x)
      PROVE  Tables(r)'
  <2>1. /\ mail # <<>> /\ Head(mail) \in {<<"job", x>>, <<"refused", x>>} /\ mail' = Tail(mail)
        /\ run' = [run EXCEPT ![x].told = Head(mail)[1]]
        /\ live' = live /\ table' = table
    BY <1>3 DEF Answered, HearAnswer, workerVars, runtimeVars, coreVars
  <2>2. Head(mail)[1] # "table"
    BY <2>1
  <2>3. run'[r].told = run[r].told \/ (Head(mail) \in Reply(r) /\ run'[r].told = Head(mail)[1])
    BY <2>1 DEF SessionTypes, Reply
  <2> QED BY <2>1, <2>2, <2>3, TablesHeard
<1>4. CASE HearTable
  BY <1>4, TablesHeard DEF HearTable, pageVars, workerVars, runtimeVars, coreVars
<1>5. CASE HearReply /\ UNCHANGED deckVars
  <2>1. /\ mail # <<>> /\ Head(mail) = <<"reply">> /\ mail' = Tail(mail) /\ UNCHANGED <<run, live, table>>
    BY <1>5 DEF HearReply, workerVars, runtimeVars, coreVars, deckVars
  <2>2. Head(mail)[1] # "table"
    BY <2>1
  <2> QED BY <2>1, <2>2, TablesHeard
<1>6. ASSUME UNCHANGED <<run, table>>,
             \/ HandleStop \/ HandleSilence \/ HandleLost
             \/ \E x \in Runs : HandleStopRun(x) \/ Ends(x)
      PROVE  Tables(r)'
  <2> DEFINE t == <<"table", live'>>
  <2>1. CASE HandleStop
    BY <2>1 DEF HandleStop, Tables
  <2>2. CASE HandleSilence \/ HandleLost
    <3>1. mail' = mail \o <<<<"reply">>>> /\ live' = live
      BY <2>2 DEF HandleSilence, HandleLost, Post
    <3>2. <<"reply">> \in Mails /\ <<"reply">> # <<"job", r>> /\ <<"reply">> \notin Without(r)
      BY MailKinds DEF Without
    <3>3. PICK ms \in Seq(Mails) : mail' = mail \o ms /\ ToSet(ms) = {<<"reply">>}
      BY <3>1, <3>2, Singles
    <3> QED BY <1>6, <3>1, <3>2, <3>3, TablesTold
  <2>3. CASE \E x \in Runs : HandleStopRun(x) \/ Ends(x)
    <3>1. mail' = mail \o <<t>> /\ live' \subseteq live
      BY <2>3 DEF HandleStopRun, Ends, Post
    <3>2. live' \in SUBSET Runs
      BY <3>1 DEF SessionTypes, WorkTypes
    <3>3. t \in Mails /\ t # <<"job", r>> /\ (r \in live' => t \notin Without(r))
      BY <3>2, MailKinds DEF Without
    <3> HIDE DEF t
    <3>4. PICK ms \in Seq(Mails) : mail' = mail \o ms /\ ToSet(ms) = {t}
      BY <3>1, <3>3, Singles
    <3> QED BY <1>6, <3>1, <3>3, <3>4, TablesTold
  <2> QED BY <1>6, <2>1, <2>2, <2>3
<1>7. ASSUME NEW x \in Runs, Posted(x) \/ x \in preparing, Starts(x), ~waiting, UNCHANGED <<run, table>>
      PROVE  Tables(r)'
  <2>1. CASE x = r
    BY <1>7, <2>1, TablesStart
  <2>2. CASE x # r
    <3>1. PICK ms \in Seq(Mails) :
           /\ mail' = mail \o ms /\ <<"reply">> \notin ToSet(ms)
           /\ \/ live' = live \cup {x} /\ ms = <<<<"table", live'>>, <<"job", x>>>>
              \/ live' = live /\ ms = <<<<"job", x>>>>
              \/ live' = live /\ ms = <<<<"refused", x>>>>
              \/ live' = live \cup {x} /\ ms = <<>>
      BY <1>7, StartsPosts, HeldStart
    <3>2. /\ <<"job", x>> \in Mails /\ <<"refused", x>> \in Mails
          /\ <<"job", x>> # <<"job", r>> /\ <<"refused", x>> # <<"job", r>>
          /\ <<"job", x>> \notin Without(r) /\ <<"refused", x>> \notin Without(r)
      BY <2>2, MailKinds DEF Answers, Without
    <3>3. r \in live' => r \in live
      BY <2>2, <3>1
    <3>4. r \in live' => <<"job", r>> \notin ToSet(ms) /\ ToSet(ms) \cap Without(r) = {}
      <4>1. CASE live' = live \cup {x} /\ ms = <<<<"table", live'>>, <<"job", x>>>>
        <5> DEFINE t == <<"table", live'>>
        <5>1. live' \in SUBSET Runs
          BY <4>1 DEF SessionTypes, WorkTypes
        <5>2. t \in Mails /\ t # <<"job", r>> /\ (r \in live' => t \notin Without(r))
          BY <5>1, MailKinds DEF Without
        <5>3. ms = <<t, <<"job", x>>>>
          BY <4>1
        <5> HIDE DEF t
        <5>4. ToSet(ms) = {t, <<"job", x>>}
          BY <3>2, <5>2, <5>3, Doubles
        <5> QED BY <3>2, <5>2, <5>4
      <4>2. CASE ms = <<<<"job", x>>>>
        <5>1. ToSet(ms) = {<<"job", x>>}
          BY <3>2, <4>2, Singles
        <5> QED BY <3>2, <5>1
      <4>3. CASE ms = <<<<"refused", x>>>>
        <5>1. ToSet(ms) = {<<"refused", x>>}
          BY <3>2, <4>3, Singles
        <5> QED BY <3>2, <5>1
      <4>4. CASE ms = <<>>
        BY <1>0, <4>4
      <4> QED BY <3>1, <4>1, <4>2, <4>3, <4>4
    <3> QED BY <1>7, <3>1, <3>3, <3>4, TablesTold
  <2> QED BY <2>1, <2>2
<1>8. CASE Handle /\ UNCHANGED deckVars
  <2> DEFINE m == Head(inbox)
  <2>1. /\ inbox # <<>> /\ UNCHANGED <<run, table>>
        /\ \/ m[1] = "run" /\ HandleRun(m[2])
           \/ HandleStop \/ HandleSilence \/ HandleLost
           \/ m[1] = "stopRun" /\ HandleStopRun(m[2])
    BY <1>8 DEF Handle, pageVars, deckVars
  <2>2. m \in Msgs /\ m \in ToSet(inbox)
    BY <2>1, Behind DEF SessionTypes
  <2> HIDE DEF m
  <2>3. /\ m[1] = "run" => m[2] \in Runs /\ m = <<"run", m[2]>>
        /\ m[1] = "stopRun" => m[2] \in Runs
    BY <2>2, MsgKinds
  <2>4. CASE m[1] = "run" /\ HandleRun(m[2])
    <3>1. CASE m[2] \in Slow \/ waiting
      BY <1>1, <2>1, <2>4, <3>1 DEF HandleRun
    <3>2. CASE ~(m[2] \in Slow \/ waiting)
      BY <1>7, <2>1, <2>2, <2>3, <2>4, <3>2 DEF HandleRun, Posted
    <3> QED BY <3>1, <3>2
  <2> QED BY <1>6, <2>1, <2>3, <2>4
<1>9. ASSUME NEW x \in Runs, Fetched(x), UNCHANGED deckVars
      PROVE  Tables(r)'
  BY <1>7, <1>9 DEF Fetched, pageVars, deckVars
<1>10. ASSUME NEW x \in Runs, Ends(x), UNCHANGED deckVars
       PROVE  Tables(r)'
  BY <1>6, <1>10 DEF Ends, pageVars, deckVars
<1>11. CASE StopCard \/ Refresh \/ Stop \/ UNCHANGED vars
  BY <1>1, <1>11 DEF StopCard, Refresh, Stop, PressStop, ReloadStarts, vars, sessionVars, pageVars,
                     workerVars, runtimeVars, coreVars, deckVars
<1>12. ASSUME NEW x \in Runs, Run(x) \/ \E c \in Cards : Play(c, x)
       PROVE  Tables(r)'
  <2>1. \E posted : PressRun(x, posted) /\ table' = table
    BY <1>12, Zenon DEF Run, Play, deckVars
  <2> QED BY <1>2, <2>1
<1>13. ASSUME SettleTimesOut \/ Purge \/ Pump \/ (\E x \in Runs : Sound(x)), UNCHANGED deckVars
       PROVE  Tables(r)'
  BY <1>1, <1>13 DEF SettleTimesOut, Purge, Pump, Sound, pageVars, workerVars, runtimeVars, coreVars, deckVars
<1>14. ASSUME EngineStep, UNCHANGED deckVars
       PROVE  Tables(r)'
  BY <1>1, <1>14, EngineTypes DEF workerVars, runtimeVars, coreVars, deckVars
<1>15. ASSUME NEW x \in Runs, Answer(x), UNCHANGED deckVars
       PROVE  Tables(r)'
  <2>1. x \in answering /\ mail' = mail \o <<<<"job", x>>>> /\ UNCHANGED <<run, live, table>>
    BY <1>15 DEF Answer, Post, pageVars, runtimeVars, deckVars
  <2>2. CASE x = r
    BY <2>1, <2>2 DEF Home, Tables
  <2>3. CASE x # r
    <3>1. <<"job", x>> \in Mails /\ <<"job", x>> # <<"job", r>> /\ <<"job", x>> \notin Without(r)
      BY <2>3, MailKinds DEF Answers, Without
    <3>2. <<<<"job", x>>>> \in Seq(Mails) /\ ToSet(<<<<"job", x>>>>) = {<<"job", x>>}
      BY <3>1, Singles
    <3> QED BY <2>1, <3>1, <3>2, TablesTold
  <2> QED BY <2>2, <2>3
<1>16. CASE Release /\ UNCHANGED deckVars
  <2>1. /\ UNCHANGED <<run, live, table>>
        /\ \/ holding = {} /\ mail' = mail \o <<>>
           \/ \E x \in holding : mail' = mail \o <<<<"table", live>>, <<"job", x>>>>
    BY <1>16, Zenon DEF Release, Post, pageVars, runtimeVars, deckVars
  <2>2. live \in SUBSET Runs /\ holding \in SUBSET Runs
    BY DEF SessionTypes, WorkTypes
  <2>3. CASE mail' = mail \o <<>>
    BY <1>0, <1>1, <2>1, <2>3
  <2>4. ASSUME NEW x \in holding, mail' = mail \o <<<<"table", live>>, <<"job", x>>>>
        PROVE  Tables(r)'
    <3>1. <<"job", x>> \in Mails /\ <<"table", live>> \in Mails
      BY <2>2, MailKinds DEF Answers
    <3>2. /\ <<<<"table", live>>, <<"job", x>>>> \in Seq(Mails)
          /\ ToSet(<<<<"table", live>>, <<"job", x>>>>) = {<<"table", live>>, <<"job", x>>}
      BY <3>1, Doubles
    <3>3. CASE r \notin live
      BY <2>1, <3>3 DEF Tables
    <3>4. CASE r \in live /\ x = r
      <4>1. ~IsAnswered(r) /\ run[r].told = "called"
        BY <2>4, <3>4 DEF Home, Held
      <4>2. live' = live /\ run' = run
        BY <2>1
      <4> QED BY <2>2, <2>4, <3>4, <4>1, <4>2, TablesMend
    <3>5. CASE r \in live /\ x # r
      <4>1. /\ <<"job", x>> # <<"job", r>> /\ <<"table", live>> # <<"job", r>>
            /\ <<"job", x>> \notin Without(r) /\ <<"table", live>> \notin Without(r)
        BY <3>5 DEF Without
      <4> QED BY <2>1, <2>4, <3>2, <4>1, TablesTold
    <3> QED BY <3>3, <3>4, <3>5
  <2> QED BY <2>1, <2>3, <2>4
<1> QED BY <1>3, <1>4, <1>5, <1>8, <1>9, <1>10, <1>11, <1>12, <1>13, <1>14, <1>15, <1>16
        DEF Next, Others, EngineStep


-----------------------------------------------------------------------------
(* A play is its runs                                                       *)

Starting(i) == {r \in OfPlay(i) : run[r].told = "called"}
Given(r) == r \in halted \/ \E x \in OfPlay(playOf[r]) : run[x].told = "refused"

(* The deck counts the runs of the card that plays; those not answered yet  *)
(* of another play have lost it to a Stop, a card's Play or a refusal.      *)
Plays ==
  /\ playOf \in [Runs -> 0..plays] /\ playing.id \in 0..plays
  /\ \A r \in Runs : run[r].told = "unpressed" => playOf[r] = 0
  /\ playing.jobs = {r \in OfPlay(playing.id) : run[r].told = "job"}
  /\ playing.starting = Cardinality(Starting(playing.id))
  /\ \A r \in Runs : run[r].told = "called" /\ playOf[r] \notin {0, playing.id} => Given(r)

LEMMA GivenStays ==
  ASSUME NEW r \in Runs, Given(r), halted \subseteq halted', playOf'[r] = playOf[r],
         \A x \in Runs : run[x].told = "refused" => run'[x].told = "refused" /\ playOf'[x] = playOf[x]
  PROVE  Given(r)'
BY DEF Given, OfPlay

LEMMA StartingIsFinite ==
  ASSUME DeckTypes
  PROVE  \A i : IsFiniteSet(Starting(i))
<1>1. \A i : Starting(i) \subseteq Pressed
  BY DEF Starting, Pressed, OfPlay
<1> QED BY <1>1, FS_Subset DEF DeckTypes

\* What Plays is after a step, O being the runs of the play there is then.
LEMMA PlaysThen ==
  ASSUME NEW k, playing'.id = k, k \in 0..plays', playOf' \in [Runs -> 0..plays'],
         NEW O, \A r : r \in O <=> r \in Runs /\ k # 0 /\ playOf'[r] = k,
         \A r \in Runs : run'[r].told = "unpressed" => playOf'[r] = 0,
         playing'.jobs = {r \in O : run'[r].told = "job"},
         playing'.starting = Cardinality({r \in O : run'[r].told = "called"}),
         \A r \in Runs : run'[r].told = "called" /\ playOf'[r] \notin {0, k} => Given(r)'
  PROVE  Plays'
<1>1. O = {r \in Runs : playing'.id # 0 /\ playOf'[r] = playing'.id}
  OBVIOUS
<1>2. OfPlay(playing.id)' = O
  BY <1>1 DEF OfPlay
<1>3. Starting(playing.id)' = {r \in O : run'[r].told = "called"}
  BY <1>2 DEF Starting
<1> QED BY <1>2, <1>3 DEF Plays

\* The play goes on, or is over with none of its runs to be answered yet.
LEMMA PlaysGoOn ==
  ASSUME DeckTypes, Plays, UNCHANGED <<run, plays, playOf, halted>>, NEW S,
         playing' = playing \/ playing' = Now(S)
  PROVE  Plays'
<1>1. CASE playing' = playing
  BY <1>1 DEF Plays, Starting, Given, OfPlay
<1>2. CASE playing' # playing
  <2>1. playing' = Rest /\ playing.starting = 0
    BY <1>2 DEF Now
  <2>2. Starting(playing.id) = {}
    BY <2>1, StartingIsFinite, FS_EmptySet DEF Plays
  <2>3. playing'.id = 0 /\ playing'.jobs = {} /\ playing'.starting = 0
    BY <2>1 DEF Rest
  <2>4. ASSUME NEW r \in Runs, run'[r].told = "called", playOf'[r] # 0
        PROVE  Given(r)'
    <3>1. run[r].told = "called" /\ playOf[r] # 0 /\ playOf[r] # playing.id
      BY <2>2, <2>4 DEF Starting, OfPlay
    <3>2. Given(r)
      BY <3>1 DEF Plays
    <3> QED BY <3>2, GivenStays
  <2>5. Cardinality({}) = 0 /\ 0 \in 0..plays'
    BY FS_EmptySet DEF DeckTypes
  <2>6. \E O : O = {} /\ playing'.jobs = {r \in O : run'[r].told = "job"}
                    /\ playing'.starting = Cardinality({r \in O : run'[r].told = "called"})
    BY <2>3, <2>5
  <2>7. playOf' \in [Runs -> 0..plays'] /\ \A r \in Runs : run'[r].told = "unpressed" => playOf'[r] = 0
    BY DEF Plays
  <2> QED BY <2>3, <2>4, <2>5, <2>6, <2>7, PlaysThen
<1> QED BY <1>1, <1>2

LEMMA PlaysPressed ==
  ASSUME SessionTypes, DeckTypes, Plays, NEW p \in Runs, NEW c \in Cards, Play(c, p)
  PROVE  Plays'
<1> DEFINE other == playing.id # 0 /\ playing.card # c
           i == playing.id
           g == IF i = 0 \/ other THEN [id |-> plays + 1, card |-> c, jobs |-> {}, starting |-> 0]
                                  ELSE playing
<1>1. /\ run[p].told = "unpressed" /\ run'[p].told = "called"
      /\ \A x \in Runs : x # p => run'[x].told = run[x].told
  BY DEF Play, PressRun, SessionTypes
<1>2. /\ playOf[p] = 0 /\ playOf \in [Runs -> 0..plays] /\ i \in 0..plays /\ plays \in Nat
      /\ playing \in [id : Nat, card : Cards \cup {NoCard}, jobs : SUBSET Runs, starting : Int]
  BY <1>1 DEF Plays, DeckTypes
<1>3. /\ playing' = [g EXCEPT !.starting = @ + 1]
      /\ plays' = IF g.id > plays THEN g.id ELSE plays
      /\ playOf' = [playOf EXCEPT ![p] = g.id]
      /\ halted' = halted \cup (IF other THEN OfPlay(i) ELSE {})
  BY DEF Play
<1>4. /\ g.id = (IF i = 0 \/ other THEN plays + 1 ELSE i)
      /\ playing'.id = g.id /\ playing'.jobs = g.jobs /\ playing'.starting = g.starting + 1
      /\ plays' = (IF i = 0 \/ other THEN plays + 1 ELSE plays)
  <2>1. CASE i = 0 \/ other
    <3>1. g = [id |-> plays + 1, card |-> c, jobs |-> {}, starting |-> 0]
      BY <2>1
    <3> HIDE DEF g
    <3>2. playing' = [id |-> plays + 1, card |-> c, jobs |-> {}, starting |-> 0 + 1]
      BY <1>3, <3>1
    <3> QED BY <1>2, <1>3, <2>1, <3>1, <3>2
  <2>2. CASE ~(i = 0 \/ other)
    <3>1. g = playing
      BY <2>2
    <3> HIDE DEF g
    <3> QED BY <1>2, <1>3, <2>2, <3>1
  <2> QED BY <2>1, <2>2
<1>5. /\ playOf' \in [Runs -> 0..plays'] /\ playOf'[p] = playing'.id
      /\ \A x \in Runs : x # p => playOf'[x] = playOf[x]
      /\ playing'.id \in 0..plays' /\ playing'.id # 0
  <2>1. g.id \in 0..plays' /\ plays' \in Nat /\ plays <= plays' /\ g.id # 0
    BY <1>2, <1>4
  <2> HIDE DEF g
  <2> QED BY <1>2, <1>3, <1>4, <2>1
<1>6. \A r \in Runs : run'[r].told = "unpressed" => playOf'[r] = 0
  BY <1>1, <1>5 DEF Plays
<1>7. ASSUME NEW r \in Runs, run'[r].told = "called", playOf'[r] \notin {0, playing'.id}
      PROVE  Given(r)'
  <2>1. r # p /\ run[r].told = "called" /\ playOf'[r] = playOf[r] /\ playOf[r] # 0
    BY <1>1, <1>5, <1>7
  <2>2. CASE playOf[r] = i /\ other
    <3>1. r \in OfPlay(i)
      BY <2>1, <2>2 DEF OfPlay
    <3> QED BY <1>3, <2>2, <3>1 DEF Given
  <2>3. CASE playOf[r] # i
    <3>1. Given(r)
      BY <2>1, <2>3 DEF Plays
    <3>2. \A x \in Runs : run[x].told = "refused" =>
             run'[x].told = "refused" /\ playOf'[x] = playOf[x]
      BY <1>1, <1>5
    <3> QED BY <1>3, <2>1, <3>1, <3>2, GivenStays
  <2>4. playOf[r] = i => other
    BY <1>4, <1>7, <2>1
  <2> QED BY <2>2, <2>3, <2>4
<1>8. CASE i = 0 \/ other
  <2>1. \A r \in Runs : playOf'[r] = playing'.id <=> r = p
    <3>1. \A r \in Runs : playOf[r] # plays + 1
      BY <1>2
    <3> QED BY <1>4, <1>5, <1>8, <3>1
  <2>2. \A r : r \in {p} <=> r \in Runs /\ playing'.id # 0 /\ playOf'[r] = playing'.id
    BY <1>5, <2>1
  <2>3. g.jobs = {} /\ g.starting = 0
    BY <1>8
  <2>4. playing'.jobs = {r \in {p} : run'[r].told = "job"}
    BY <1>1, <1>4, <2>3
  <2>5. playing'.starting = Cardinality({r \in {p} : run'[r].told = "called"})
    <3>1. {r \in {p} : run'[r].told = "called"} = {p}
      BY <1>1
    <3>2. playing'.starting = 1
      BY <1>4, <2>3
    <3>3. Cardinality({p}) = 1
      BY FS_Singleton
    <3> QED BY <3>1, <3>2, <3>3
  <2> HIDE DEF g
  <2> QED BY <1>5, <1>6, <1>7, <2>2, <2>4, <2>5, PlaysThen
<1>9. CASE ~(i = 0 \/ other)
  <2>1. g = playing /\ playing'.id = i /\ i # 0
    BY <1>4, <1>9
  <2> DEFINE O == OfPlay(i) \cup {p}
  <2>2. \A r : r \in O <=> r \in Runs /\ playing'.id # 0 /\ playOf'[r] = playing'.id
    BY <1>2, <1>5, <2>1 DEF OfPlay
  <2>3. playing'.jobs = {r \in O : run'[r].told = "job"}
    <3>1. playing.jobs = {r \in OfPlay(i) : run[r].told = "job"} /\ playing'.jobs = playing.jobs
      BY <1>4, <2>1 DEF Plays
    <3> QED BY <1>1, <1>2, <3>1 DEF OfPlay
  <2>4. {r \in O : run'[r].told = "called"} = Starting(i) \cup {p} /\ p \notin Starting(i)
    BY <1>1, <1>2 DEF Starting, OfPlay
  <2>5. Cardinality(Starting(i) \cup {p}) = Cardinality(Starting(i)) + 1
    BY <2>4, StartingIsFinite, FS_AddElement
  <2>6. playing'.starting = Cardinality({r \in O : run'[r].told = "called"})
    <3>1. playing.starting = Cardinality(Starting(i)) /\ playing'.starting = playing.starting + 1
      BY <1>4, <2>1 DEF Plays
    <3> QED BY <2>4, <2>5, <3>1
  <2> HIDE DEF g, O
  <2> QED BY <1>5, <1>6, <1>7, <2>2, <2>3, <2>6, PlaysThen
<1> QED BY <1>8, <1>9


LEMMA PlaysAnswered ==
  ASSUME SessionTypes, DeckTypes, Plays, NEW p \in Runs, Home(p), Answered(p)
  PROVE  Plays'
<1> DEFINE i == playing.id
           mine == playOf[p] # 0 /\ playOf[p] = i
           told == Head(mail)[1]
           O == OfPlay(i)
<1>1. /\ mail # <<>> /\ Head(mail) \in {<<"job", p>>, <<"refused", p>>}
      /\ run' = [run EXCEPT ![p].told = told] /\ UNCHANGED <<plays, playOf, halted>>
      /\ playing' = IF ~mine THEN playing
                    ELSE IF told = "job" THEN [playing EXCEPT !.starting = @ - 1, !.jobs = @ \cup {p}]
                    ELSE IF playing.jobs = {} THEN Rest
                    ELSE [playing EXCEPT !.starting = @ - 1]
  BY DEF Answered, HearAnswer
<1>2. /\ told \in {"job", "refused"} /\ run'[p].told = told /\ run[p].told = "called"
      /\ \A x \in Runs : x # p => run'[x].told = run[x].told
  <2>1. Head(mail) \in ToSet(mail)
    BY <1>1, Behind DEF SessionTypes
  <2>2. run[p].told = "called"
    BY <1>1, <2>1 DEF Home, IsAnswered, Reply
  <2> QED BY <1>1, <2>2 DEF SessionTypes
<1>3. /\ playing \in [id : Nat, card : Cards \cup {NoCard}, jobs : SUBSET Runs, starting : Int]
      /\ i \in 0..plays /\ playOf \in [Runs -> 0..plays] /\ plays \in Nat
      /\ playing.jobs = {r \in O : run[r].told = "job"}
      /\ playing.starting = Cardinality(Starting(i))
  BY DEF DeckTypes, Plays
<1> HIDE DEF told
<1>4. \A r : r \in O <=> r \in Runs /\ i # 0 /\ playOf'[r] = i
  BY <1>1 DEF OfPlay
<1>5. \A r \in Runs : run'[r].told = "unpressed" => playOf'[r] = 0
  BY <1>1, <1>2 DEF Plays
<1>6. ASSUME NEW r \in Runs, run'[r].told = "called", playOf'[r] \notin {0, i}
      PROVE  Given(r)'
  <2>1. run[r].told = "called" /\ playOf[r] \notin {0, i}
    BY <1>1, <1>2, <1>6
  <2>2. Given(r)
    BY <2>1 DEF Plays
  <2> QED BY <1>1, <1>2, <2>2, GivenStays
<1>7. \/ ~mine /\ playing' = playing
      \/ mine /\ told = "job" /\ playing' = [playing EXCEPT !.starting = @ - 1, !.jobs = @ \cup {p}]
      \/ mine /\ told = "refused" /\ playing' = Rest
      \/ mine /\ told = "refused" /\ playing' = [playing EXCEPT !.starting = @ - 1]
  BY <1>1, <1>2
<1>8. mine => p \in O /\ {r \in O : run'[r].told = "called"} = Starting(i) \ {p} /\ p \in Starting(i)
  BY <1>2 DEF Starting, OfPlay
<1>9. mine => Cardinality(Starting(i) \ {p}) = Cardinality(Starting(i)) - 1
  BY <1>8, StartingIsFinite, FS_RemoveElement
<1>10. CASE ~mine /\ playing' = playing
  <2>1. p \notin O
    BY <1>10 DEF OfPlay
  <2>2. playing'.jobs = {r \in O : run'[r].told = "job"}
    BY <1>2, <1>3, <1>10, <2>1 DEF OfPlay
  <2>3. {r \in O : run'[r].told = "called"} = Starting(i)
    BY <1>2, <2>1 DEF Starting, OfPlay
  <2>4. playing'.starting = Cardinality({r \in O : run'[r].told = "called"})
    BY <1>3, <1>10, <2>3
  <2>5. playing'.id = i /\ plays' = plays /\ playOf' = playOf
    BY <1>1, <1>10
  <2> HIDE DEF O, mine
  <2> QED BY <1>3, <1>4, <1>5, <1>6, <2>2, <2>4, <2>5, PlaysThen
<1>11. CASE mine /\ told = "job" /\ playing' = [playing EXCEPT !.starting = @ - 1, !.jobs = @ \cup {p}]
  <2>1. playing'.id = i /\ playing'.jobs = playing.jobs \cup {p}
        /\ playing'.starting = playing.starting - 1
    BY <1>3, <1>11
  <2>2. playing'.jobs = {r \in O : run'[r].told = "job"}
    BY <1>2, <1>3, <1>8, <1>11, <2>1 DEF OfPlay
  <2>3. playing'.starting = Cardinality({r \in O : run'[r].told = "called"})
    BY <1>3, <1>8, <1>9, <1>11, <2>1
  <2>4. plays' = plays /\ playOf' = playOf
    BY <1>1
  <2> HIDE DEF O, mine
  <2> QED BY <1>3, <1>4, <1>5, <1>6, <2>1, <2>2, <2>3, <2>4, PlaysThen
<1>12. CASE mine /\ told = "refused" /\ playing' = [playing EXCEPT !.starting = @ - 1]
  <2>1. playing'.id = i /\ playing'.jobs = playing.jobs /\ playing'.starting = playing.starting - 1
    BY <1>3, <1>12
  <2>2. playing'.jobs = {r \in O : run'[r].told = "job"}
    BY <1>2, <1>3, <1>12, <2>1 DEF OfPlay
  <2>3. playing'.starting = Cardinality({r \in O : run'[r].told = "called"})
    BY <1>3, <1>8, <1>9, <1>12, <2>1
  <2>4. plays' = plays /\ playOf' = playOf
    BY <1>1
  <2> HIDE DEF O, mine
  <2> QED BY <1>3, <1>4, <1>5, <1>6, <2>1, <2>2, <2>3, <2>4, PlaysThen
<1>13. CASE mine /\ told = "refused" /\ playing' = Rest
  <2>1. playing'.id = 0 /\ playing'.jobs = {} /\ playing'.starting = 0
    BY <1>13 DEF Rest
  <2>2. ASSUME NEW r \in Runs, run'[r].told = "called", playOf'[r] # 0
        PROVE  Given(r)'
    <3>1. CASE playOf'[r] = i
      <4>1. p \in OfPlay(playOf[r])' /\ run'[p].told = "refused"
        BY <1>1, <1>2, <1>13, <2>2, <3>1 DEF OfPlay
      <4>2. \E x \in OfPlay(playOf[r])' : run'[x].told = "refused"
        BY <4>1
      <4> QED BY <4>2 DEF Given
    <3> QED BY <1>6, <2>2, <3>1
  <2>3. Cardinality({}) = 0 /\ 0 \in 0..plays'
    BY <1>1, <1>3, FS_EmptySet
  <2>4. \E S : S = {} /\ playing'.jobs = {r \in S : run'[r].told = "job"}
                    /\ playing'.starting = Cardinality({r \in S : run'[r].told = "called"})
    BY <2>1, <2>3
  <2>5. playOf' \in [Runs -> 0..plays']
    BY <1>1, <1>3
  <2> QED BY <1>5, <2>1, <2>2, <2>3, <2>4, <2>5, PlaysThen
<1> QED BY <1>7, <1>10, <1>11, <1>12, <1>13

LEMMA PlaysInductive ==
  ASSUME SessionTypes, DeckTypes, Plays, \A r \in Runs : Home(r), [Next]_vars
  PROVE  Plays'
<1>1. ASSUME NEW p \in Runs, Run(p)
      PROVE  Plays'
  <2>1. /\ run[p].told = "unpressed" /\ run'[p].told = "called" /\ UNCHANGED deckVars
        /\ \A x \in Runs : x # p => run'[x].told = run[x].told
    BY <1>1 DEF Run, PressRun, SessionTypes
  <2>2. playOf[p] = 0 /\ p \notin OfPlay(playing.id)
    BY <2>1 DEF Plays, OfPlay
  <2>3. \A r : r \in OfPlay(playing.id) <=> r \in Runs /\ playing.id # 0 /\ playOf'[r] = playing.id
    BY <2>1 DEF deckVars, OfPlay
  <2>4. playing'.jobs = {r \in OfPlay(playing.id) : run'[r].told = "job"}
    BY <2>1, <2>2 DEF deckVars, Plays, OfPlay
  <2>5. {r \in OfPlay(playing.id) : run'[r].told = "called"} = Starting(playing.id)
    BY <2>1, <2>2 DEF Starting, OfPlay
  <2>6. playing'.starting = Cardinality({r \in OfPlay(playing.id) : run'[r].told = "called"})
    BY <2>1, <2>5 DEF deckVars, Plays
  <2>7. ASSUME NEW r \in Runs, run'[r].told = "called", playOf'[r] \notin {0, playing.id}
        PROVE  Given(r)'
    <3>1. r # p /\ run[r].told = "called" /\ playOf[r] \notin {0, playing.id}
          /\ halted' = halted /\ playOf' = playOf
      BY <2>1, <2>2, <2>7 DEF deckVars
    <3>2. Given(r)
      BY <3>1 DEF Plays
    <3> QED BY <2>1, <3>1, <3>2, GivenStays
  <2>8. playing'.id = playing.id /\ playing.id \in 0..plays' /\ playOf' \in [Runs -> 0..plays']
        /\ \A r \in Runs : run'[r].told = "unpressed" => playOf'[r] = 0
    BY <2>1 DEF deckVars, Plays
  <2> QED BY <2>3, <2>4, <2>6, <2>7, <2>8, PlaysThen
<1>2. CASE StopCard
  <2>1. UNCHANGED <<run, plays, playOf>> /\ playing' = Rest /\ halted' = halted \cup OfPlay(playing.id)
    BY <1>2 DEF StopCard, pageVars
  <2>2. playing'.id = 0 /\ playing'.jobs = {} /\ playing'.starting = 0
    BY <2>1 DEF Rest
  <2>3. ASSUME NEW r \in Runs, run'[r].told = "called", playOf'[r] # 0
        PROVE  Given(r)'
    <3>1. CASE playOf[r] = playing.id
      BY <2>1, <2>3, <3>1 DEF Given, OfPlay
    <3>2. CASE playOf[r] # playing.id
      <4>1. Given(r)
        BY <2>1, <2>3, <3>2 DEF Plays
      <4> QED BY <2>1, <4>1, GivenStays
    <3> QED BY <3>1, <3>2
  <2>4. Cardinality({}) = 0 /\ 0 \in 0..plays'
    BY <2>1, FS_EmptySet DEF DeckTypes
  <2>5. \E S : S = {} /\ playing'.jobs = {r \in S : run'[r].told = "job"}
                    /\ playing'.starting = Cardinality({r \in S : run'[r].told = "called"})
    BY <2>2, <2>4
  <2>6. playOf' \in [Runs -> 0..plays'] /\ \A r \in Runs : run'[r].told = "unpressed" => playOf'[r] = 0
    BY <2>1 DEF Plays
  <2> QED BY <2>2, <2>3, <2>4, <2>5, <2>6, PlaysThen
<1>3. CASE HearTable
  BY <1>3, PlaysGoOn DEF HearTable, pageVars
<1>4. CASE Refresh
  BY <1>4, PlaysGoOn DEF Refresh, sessionVars, pageVars
<1>5. CASE Stop
  <2>1. UNCHANGED <<run, plays, playOf, halted>> /\ playing' = Now({})
    BY <1>5 DEF Stop, PressStop, ReloadStarts
  <2> QED BY <2>1, PlaysGoOn
<1>6. CASE UNCHANGED vars
  BY <1>6, PlaysGoOn DEF vars, sessionVars, pageVars, deckVars
<1>7. CASE Others
  <2>1. UNCHANGED <<run, playing, plays, playOf, halted>>
    <3>1. UNCHANGED <<playing, plays, playOf, halted>>
      BY <1>7 DEF Others, deckVars
    <3>2. CASE EngineStep
      BY <3>1, <3>2, EngineTypes
    <3> QED BY <1>7, <3>1, <3>2 DEF Others, EngineStep, HearReply, SettleTimesOut, Purge, Handle,
                                     Fetched, Sound, Ends, Answer, Pump, Release, pageVars
  <2> QED BY <2>1, PlaysGoOn
<1> QED BY <1>1, <1>2, <1>3, <1>4, <1>5, <1>6, <1>7, PlaysPressed, PlaysAnswered DEF Next


-----------------------------------------------------------------------------
(* Stops on their way                                                       *)

Stopped(r) == <<"stopRun", r>> \in ToSet(inbox)

IsSince(l, r) == l[1] = "stop" /\ l[2] > run[r].at

(* A Stop pressed since the run, that the worker has not handled yet.       *)
StopAhead(r) ==
  /\ chain # <<>>
  /\ \/ <<"stop">> \in ToSet(inbox) /\ IsSince(Head(chain), r)
     \/ \E l \in ToSet(Tail(chain)) : IsSince(l, r)

LEMMA AheadComes ==
  ASSUME inbox \in Seq(Msgs), NEW c \in Seq(Items), NEW posted \in Seq(StopCalls), Comes(c, posted),
         NEW r \in Runs
  PROVE  /\ Stopped(r)' <=> Stopped(r) \/ <<"stopRun", r>> \in ToSet(posted)
         /\ (\E l \in ToSet(c) : l[1] = "stop" /\ l[2] > run'[r].at) => StopAhead(r)'
<1>1. PICK lead \in Seq(RunCalls), call \in Seq(Calls) :
         /\ c = lead \o chain' /\ chain' \in Seq(Items)
         /\ inbox' = ((inbox \o posted) \o lead) \o call
         /\ chain' = <<>> => call = <<>> /\ step' = "rest"
         /\ chain' # <<>> => /\ Head(chain') \in Items /\ ~IsRun(Head(chain'))
                             /\ call = <<Call(Head(chain'))>>
                             /\ step' = "called"
  BY Coming
<1>2. /\ ToSet(lead \o chain') = ToSet(lead) \cup ToSet(chain')
      /\ ToSet(lead) \subseteq RunCalls
      /\ ToSet(posted) \subseteq StopCalls /\ ToSet(call) \subseteq Calls
  BY <1>1, Arriving, ZenonT(40)
<1>3. ToSet(inbox') = ToSet(inbox) \cup ToSet(posted) \cup ToSet(lead) \cup ToSet(call)
  BY <1>1, Arriving
<1>4. ToSet(c) = ToSet(lead) \cup ToSet(chain')
  BY <1>1, <1>2, Zenon
<1>5. <<"stopRun", r>> \in StopCalls
  BY DEF StopCalls
<1>6. Stopped(r)' <=> Stopped(r) \/ <<"stopRun", r>> \in ToSet(posted)
  BY <1>2, <1>3, <1>5, Kinds DEF Stopped
<1>7. ASSUME NEW l \in ToSet(c), l[1] = "stop", l[2] > run'[r].at
      PROVE  StopAhead(r)'
  <2>1. l \in ToSet(chain')
    <3>1. l \notin RunCalls
      BY <1>7, Kinds DEF IsRun
    <3> QED BY <1>2, <1>4, <3>1
  <2>2. chain' # <<>>
    BY <2>1 DEF ToSet
  <2>3. ToSet(chain') = {Head(chain')} \cup ToSet(Tail(chain'))
    BY <1>1, <2>2, Behind
  <2>4. CASE l \in ToSet(Tail(chain'))
    BY <1>7, <2>2, <2>4 DEF StopAhead, IsSince
  <2>5. CASE l = Head(chain')
    <3>1. Call(l) = <<"stop">> /\ call = <<Call(l)>>
      BY <1>1, <1>7, <2>2, <2>5 DEF Call
    <3>2. ToSet(call) = {<<"stop">>}
      <4>1. <<"stop">> \in Calls
        BY DEF Calls
      <4>2. ToSet(<<<<"stop">>>>) = {<<"stop">>}
        BY <4>1, Singles
      <4> QED BY <3>1, <4>2
    <3>3. <<"stop">> \in ToSet(inbox')
      BY <1>3, <3>2
    <3> QED BY <1>7, <2>2, <2>5, <3>3 DEF StopAhead, IsSince
  <2> QED BY <2>1, <2>3, <2>4, <2>5
<1> QED BY <1>6, <1>7

\* What is pressed follows the Stops on their way, and is followed by its own.
LEMMA AheadFollows ==
  ASSUME SessionTypes, Protocol, NEW items \in Seq(Items), NEW posted \in Seq(StopCalls),
         Follow(items, posted), NEW r \in Runs, run'[r].at = run[r].at
  PROVE  /\ Stopped(r)' <=> Stopped(r) \/ <<"stopRun", r>> \in ToSet(posted)
         /\ StopAhead(r) => StopAhead(r)'
         /\ (\E l \in ToSet(items) : IsSince(l, r)) => StopAhead(r)'
<1>0. inbox \in Seq(Msgs) /\ chain \in Seq(Items)
  BY DEF SessionTypes
<1>1. CASE chain = <<>>
  <2>1. Comes(items, posted) /\ ~StopAhead(r)
    BY <1>1 DEF Follow, StopAhead
  <2> QED BY <1>0, <2>1, AheadComes DEF IsSince
<1>2. CASE chain # <<>>
  <2>1. chain' = chain \o items /\ inbox' = inbox \o posted
    BY <1>2 DEF Follow
  <2>2. posted \in Seq(Msgs) /\ ToSet(posted) \subseteq StopCalls
    BY SeqMonotonic, Kinds, Places
  <2>3. ToSet(inbox') = ToSet(inbox) \cup ToSet(posted)
    BY <1>0, <2>1, <2>2, Concat
  <2>4. chain' # <<>> /\ Head(chain') = Head(chain)
        /\ ToSet(Tail(chain')) = ToSet(Tail(chain)) \cup ToSet(items)
    <3> DEFINE t == Tail(chain)
               h == Head(chain)
    <3>1. h \in Items /\ t \in Seq(Items) /\ chain = <<h>> \o t
      <4>1. h \in Items /\ t \in Seq(Items)
        BY <1>0, <1>2, Behind
      <4>2. chain = <<h>> \o t
        BY <1>0, <1>2
      <4> QED BY <4>1, <4>2
    <3> HIDE DEF h, t
    <3>2. t \o items \in Seq(Items) /\ ToSet(t \o items) = ToSet(t) \cup ToSet(items)
      BY <3>1, Concat
    <3>3. Tail((<<h>> \o t) \o items) = t \o items /\ Head((<<h>> \o t) \o items) = h
          /\ (<<h>> \o t) \o items # <<>>
      BY <3>1, <3>2
    <3> QED BY <2>1, <3>1, <3>2, <3>3 DEF t, h
  <2>5. Stopped(r)' <=> Stopped(r) \/ <<"stopRun", r>> \in ToSet(posted)
    BY <2>3 DEF Stopped
  <2>6. StopAhead(r) => StopAhead(r)'
    BY <2>3, <2>4 DEF StopAhead, IsSince
  <2>7. (\E l \in ToSet(items) : IsSince(l, r)) => StopAhead(r)'
    BY <2>4 DEF StopAhead, IsSince
  <2> QED BY <2>5, <2>6, <2>7
<1> QED BY <1>1, <1>2

\* Stops of runs that are posted come to those posted before.
LEMMA AheadPosted ==
  ASSUME SessionTypes, NEW posted \in Seq(StopCalls), inbox' = inbox \o posted, chain' = chain,
         NEW r \in Runs, run'[r].at = run[r].at
  PROVE  /\ Stopped(r)' <=> Stopped(r) \/ <<"stopRun", r>> \in ToSet(posted)
         /\ StopAhead(r) => StopAhead(r)'
<1>1. inbox \in Seq(Msgs) /\ posted \in Seq(Msgs)
  BY SeqMonotonic, Kinds, Places DEF SessionTypes
<1>2. ToSet(inbox') = ToSet(inbox) \cup ToSet(posted)
  BY <1>1, Concat
<1> QED BY <1>2 DEF Stopped, StopAhead, IsSince

\* The chain goes on to the next Stop.
LEMMA AheadGoesOn ==
  ASSUME SessionTypes, Onward, NEW r \in Runs, run'[r].at = run[r].at
  PROVE  /\ Stopped(r)' <=> Stopped(r)
         /\ StopAhead(r) => StopAhead(r)'
<1>0. /\ inbox \in Seq(Msgs) /\ Tail(chain) \in Seq(Items) /\ <<>> \in Seq(StopCalls)
      /\ ToSet(<<>>) = {}
  <2>1. chain # <<>> /\ chain \in Seq(Items) /\ inbox \in Seq(Msgs)
    BY DEF SessionTypes, Onward
  <2>2. Tail(chain) \in Seq(Items)
    BY <2>1, Behind
  <2> QED BY <2>1, <2>2 DEF ToSet
<1>1. PICK posted \in Seq(StopCalls) : posted = <<>> /\ Comes(Tail(chain), posted)
  BY <1>0 DEF Onward
<1>2. Stopped(r)' <=> Stopped(r) \/ <<"stopRun", r>> \in ToSet(posted)
  BY <1>0, <1>1, AheadComes
<1>3. (\E l \in ToSet(Tail(chain)) : l[1] = "stop" /\ l[2] > run'[r].at) => StopAhead(r)'
  BY <1>0, <1>1, AheadComes
<1>4. <<"stop">> \notin ToSet(inbox)
  BY DEF Onward, Calls
<1> QED BY <1>0, <1>1, <1>2, <1>3, <1>4 DEF StopAhead, IsSince


(* The steps that are not of a run pressed or told of, of a stop of runs    *)
(* posted, or of a message handled.                                         *)
Aside ==
  \/ PressStop \/ ReloadStarts \/ TakeTable \/ HearReply \/ SettleTimesOut \/ Purge
  \/ \E r \in Runs : Fetched(r) \/ Sound(r) \/ Ends(r) \/ Answer(r)
  \/ Pump \/ Release
  \/ EngineStep
  \/ UNCHANGED sessionVars

LEMMA AsideKeepsStops ==
  ASSUME SessionTypes, Protocol, Aside, NEW r \in Runs
  PROVE  /\ Stopped(r)' <=> Stopped(r)
         /\ StopAhead(r) => StopAhead(r)'
         /\ run' = run
<1>0. inbox \in Seq(Msgs) /\ mail \in Seq(Mails)
  BY DEF SessionTypes
<1>1. ASSUME UNCHANGED <<run, chain, inbox>>
      PROVE  (Stopped(r)' <=> Stopped(r)) /\ (StopAhead(r) => StopAhead(r)') /\ run' = run
  BY <1>1 DEF Stopped, StopAhead, IsSince
<1>2. ASSUME UNCHANGED run, Onward
      PROVE  (Stopped(r)' <=> Stopped(r)) /\ (StopAhead(r) => StopAhead(r)') /\ run' = run
  BY <1>2, AheadGoesOn
<1>3. CASE PressStop \/ ReloadStarts
  <2>1. run' = run /\ \E items \in Seq(Items) : Follow(items, <<>>)
    <3>1. <<"stop", presses + 1, gen>> \in Items /\ <<"lost">> \in Items
      BY DEF Items, SessionTypes
    <3>2. /\ <<<<"stop", presses + 1, gen>>>> \in Seq(Items)
          /\ <<<<"stop", presses + 1, gen>>, <<"lost">>>> \in Seq(Items)
      BY <3>1
    <3> QED BY <1>3, <3>2 DEF PressStop, ReloadStarts
  <2>2. <<>> \in Seq(StopCalls) /\ ToSet(<<>>) = {}
    BY DEF ToSet
  <2>3. PICK items \in Seq(Items), posted \in Seq(StopCalls) : posted = <<>> /\ Follow(items, posted)
    BY <2>1, <2>2
  <2>4. ToSet(posted) = {} /\ run'[r].at = run[r].at
    BY <2>1, <2>2, <2>3
  <2> QED BY <2>1, <2>3, <2>4, AheadFollows
<1>4. CASE HearReply
  <2>1. mail # <<>> /\ Head(mail) = <<"reply">> /\ run' = run
    BY <1>4 DEF HearReply
  <2>2. Head(mail) \in ToSet(mail)
    BY <1>0, <2>1, Behind
  <2>3. UNCHANGED <<chain, inbox>> \/ Onward
    <3>1. chain # <<>> /\ ToSet(inbox) \cap Calls = {}
      BY <2>1, <2>2 DEF Protocol
    <3> QED BY <1>4, <3>1 DEF HearReply, Onward
  <2> QED BY <1>1, <1>2, <2>1, <2>3
<1>5. CASE Purge
  <2>1. run' = run
    BY <1>5 DEF Purge
  <2>2. (chain' = chain /\ inbox' = Append(inbox, <<"silence">>)) \/ Onward
    <3>1. chain # <<>> /\ ToSet(inbox) \cap Calls = {}
      BY <1>5 DEF Purge, Protocol
    <3> QED BY <1>5, <3>1 DEF Purge, Onward
  <2>3. CASE chain' = chain /\ inbox' = Append(inbox, <<"silence">>)
    <3>1. <<"silence">> \in Msgs
      BY DEF Msgs, Calls
    <3>2. PICK m \in Msgs : m = <<"silence">> /\ inbox' = Append(inbox, m)
      BY <2>3, <3>1
    <3>3. ToSet(Append(inbox, m)) = ToSet(inbox) \cup {m}
      <4>1. inbox \in Seq(Msgs)
        BY <1>0
      <4>2. Append(inbox, m) = inbox \o <<m>>
        BY <4>1, AtTheEnd
      <4>3. <<m>> \in Seq(Msgs) /\ ToSet(<<m>>) = {m}
        BY Singles
      <4>4. ToSet(inbox \o <<m>>) = ToSet(inbox) \cup ToSet(<<m>>)
        BY <4>1, <4>3, Concat
      <4> QED BY <4>2, <4>3, <4>4
    <3>4. m # <<"stopRun", r>> /\ m # <<"stop">>
      BY <3>2
    <3> QED BY <2>1, <2>3, <3>2, <3>3, <3>4 DEF Stopped, StopAhead, IsSince
  <2> QED BY <1>2, <2>1, <2>2, <2>3
<1>6. CASE TakeTable \/ SettleTimesOut \/ UNCHANGED sessionVars
  BY <1>1, <1>6 DEF TakeTable, SettleTimesOut, sessionVars, pageVars
<1>7. ASSUME NEW x \in Runs, Fetched(x) \/ Sound(x) \/ Ends(x) \/ Answer(x)
      PROVE  (Stopped(r)' <=> Stopped(r)) /\ (StopAhead(r) => StopAhead(r)') /\ run' = run
  BY <1>1, <1>7 DEF Fetched, Sound, Ends, Answer, pageVars
<1>8. CASE EngineStep
  BY <1>1, <1>8, EngineTypes
<1>9. CASE Pump \/ Release
  BY <1>1, <1>9 DEF Pump, Release, pageVars
<1> QED BY <1>3, <1>4, <1>5, <1>6, <1>7, <1>8, <1>9 DEF Aside

\* The deck's steps by what they do to the stops.
LEMMA DeckSteps ==
  ASSUME [Next]_vars
  PROVE  \/ \E r \in Runs : Run(r) \/ Answered(r) \/ \E c \in Cards : Play(c, r)
         \/ StopCard
         \/ Handle /\ UNCHANGED deckVars
         \/ /\ Aside /\ UNCHANGED <<plays, playOf, halted>>
            /\ \/ HearTable \/ Refresh \/ Stop
               \/ playing' = playing
<1>1. CASE HearTable
  <2>1. TakeTable /\ UNCHANGED <<plays, playOf, halted>>
    BY <1>1 DEF HearTable, TakeTable
  <2> QED BY <1>1, <2>1 DEF Aside
<1>2. CASE Refresh
  BY <1>2 DEF Refresh, Aside
<1>3. CASE Stop
  BY <1>3 DEF Stop, Aside
<1>4. CASE UNCHANGED vars
  BY <1>4 DEF vars, deckVars, Aside
<1>5. CASE Others
  <2>1. (Aside \/ Handle) /\ UNCHANGED deckVars
    BY <1>5 DEF Others, Aside, EngineStep
  <2> QED BY <2>1 DEF deckVars
<1> QED BY <1>1, <1>2, <1>3, <1>4, <1>5 DEF Next

LEMMA RunHandled ==
  ASSUME SessionTypes, Handle, NEW r \in Runs
  PROVE  /\ run' = run /\ chain' = chain
         /\ Stopped(r)' => Stopped(r)
         /\ Stopped(r) => Stopped(r)' \/ r \notin live'
         /\ StopAhead(r) => StopAhead(r)' \/ r \notin live'
         /\ r \in live' => r \in live \/ Posted(r)
<1> DEFINE m == Head(inbox)
<1>1. /\ inbox # <<>> /\ inbox' = Tail(inbox) /\ run' = run /\ chain' = chain
      /\ \/ m[1] = "run" /\ HandleRun(m[2])
         \/ m[1] = "stop" /\ HandleStop
         \/ m[1] = "silence" /\ HandleSilence
         \/ m[1] = "lost" /\ HandleLost
         \/ m[1] = "stopRun" /\ HandleStopRun(m[2])
  BY DEF Handle, pageVars
<1>2. m \in Msgs /\ ToSet(inbox) = {m} \cup ToSet(inbox')
  BY <1>1, Behind DEF SessionTypes
<1> HIDE DEF m
<1>3. m[1] = "run" => m[2] \in Runs /\ m = <<"run", m[2]>>
  BY <1>2, MsgKinds
<1>4. Stopped(r)' => Stopped(r)
  BY <1>2 DEF Stopped
<1>5. Stopped(r) => Stopped(r)' \/ r \notin live'
  <2>1. CASE m = <<"stopRun", r>>
    <3>1. HandleStopRun(r)
      BY <1>1, <2>1
    <3> QED BY <3>1 DEF HandleStopRun
  <2>2. CASE m # <<"stopRun", r>>
    BY <1>2, <2>2 DEF Stopped
  <2> QED BY <2>1, <2>2
<1>6. StopAhead(r) => StopAhead(r)' \/ r \notin live'
  <2>1. CASE m = <<"stop">>
    <3>1. HandleStop
      BY <1>1, <2>1
    <3> QED BY <3>1 DEF HandleStop
  <2>2. CASE m # <<"stop">>
    BY <1>1, <1>2, <2>2 DEF StopAhead, IsSince
  <2> QED BY <2>1, <2>2
<1>7. r \in live' => r \in live \/ Posted(r)
  <2>1. CASE m[1] = "run" /\ HandleRun(m[2])
    BY <1>2, <1>3, <2>1 DEF HandleRun, Starts, StartsAtOnce, StartsHeld, Posted
  <2> QED BY <1>1, <2>1 DEF HandleStop, HandleSilence, HandleLost, HandleStopRun
<1> QED BY <1>1, <1>4, <1>5, <1>6, <1>7


(* A run told of that goes is of the card that plays, or is to be stopped.  *)
Kept(r) ==
  (r \in live /\ playOf[r] # 0 /\ run[r].told = "job") =>
    r \in playing.jobs \/ Stopped(r) \/ StopAhead(r)

(* A run is to be stopped for its card stopped, or another of it refused.   *)
Asked(r) == Stopped(r) => Given(r)

DeckInv ==
  /\ SessionInv /\ Plays
  /\ \A r \in Runs : Home(r) /\ Tables(r) /\ Kept(r) /\ Asked(r)

\* Which runs go changes as the worker says.
LEMMA LiveRuns ==
  ASSUME SessionTypes, Aside, NEW r \in Runs
  PROVE  r \in live' => r \in live \/ r \in preparing
<1>1. CASE EngineStep
  BY <1>1, EngineTypes DEF workerVars, runtimeVars, coreVars
<1>2. ASSUME NEW x \in Runs, Fetched(x) \/ Sound(x) \/ Ends(x) \/ Answer(x)
      PROVE  r \in live' => r \in live \/ r \in preparing
  BY <1>2 DEF Fetched, Starts, StartsAtOnce, StartsHeld, Sound, Ends, Answer, runtimeVars
<1>3. CASE Pump \/ Release
  BY <1>3 DEF Pump, Release, runtimeVars
<1> QED BY <1>1, <1>2, <1>3
        DEF Aside, PressStop, ReloadStarts, TakeTable, HearReply, SettleTimesOut, Purge, sessionVars, workerVars, runtimeVars, coreVars

\* Of a play that is over no run goes that is in its last table.
LEMMA NowKeeps ==
  ASSUME SessionTypes, Plays, NEW r \in Runs, Tables(r), r \in live, playOf[r] # 0,
         run[r].told = "job", r \in playing.jobs, HearTable \/ Refresh
  PROVE  playing' = playing
<1>1. r \in table /\ ToSet(mail) \cap Without(r) = {}
  BY DEF Tables
<1>2. CASE Refresh
  BY <1>1, <1>2 DEF Refresh, Now
<1>3. CASE HearTable
  <2>1. mail # <<>> /\ Head(mail)[1] = "table" /\ playing' = Now(Head(mail)[2])
    BY <1>3 DEF HearTable
  <2>2. Head(mail) \in Mails /\ Head(mail) \in ToSet(mail)
    BY <2>1, Behind DEF SessionTypes
  <2>3. r \in Head(mail)[2]
    BY <1>1, <2>1, <2>2 DEF Without
  <2> QED BY <2>1, <2>3 DEF Now
<1> QED BY <1>2, <1>3

\* The page's Stop is ahead of every run pressed before it.
LEMMA StopIsAhead ==
  ASSUME SessionTypes, Protocol, Losses, Stop, NEW r \in Runs
  PROVE  StopAhead(r)'
<1>1. /\ run' = run /\ presses \in Nat /\ run[r].at <= presses /\ run[r].at \in Nat
  BY DEF Stop, PressStop, ReloadStarts, SessionTypes, Losses
<1>2. PICK i \in Items : i = <<"stop", presses + 1, gen>>
  <2>1. <<"stop", presses + 1, gen>> \in Items
    BY DEF Items, SessionTypes
  <2> QED BY <2>1
<1>3. IsSince(i, r)
  BY <1>1, <1>2 DEF IsSince
<1>4. <<"lost">> \in Items
  BY DEF Items
<1>5. /\ <<i>> \in Seq(Items) /\ ToSet(<<i>>) = {i}
      /\ <<i, <<"lost">>>> \in Seq(Items) /\ ToSet(<<i, <<"lost">>>>) = {i, <<"lost">>}
  BY <1>4, Singles, Doubles
<1>6. Follow(<<i>>, <<>>) \/ Follow(<<i, <<"lost">>>>, <<>>)
  BY <1>2 DEF Stop, PressStop, ReloadStarts
<1>7. PICK items \in Seq(Items), posted \in Seq(StopCalls) : Follow(items, posted) /\ i \in ToSet(items)
  <2>1. <<>> \in Seq(StopCalls)
    OBVIOUS
  <2>2. CASE Follow(<<i>>, <<>>)
    <3>1. i \in ToSet(<<i>>)
      BY <1>5
    <3> QED BY <1>5, <2>1, <2>2, <3>1, Zenon
  <2>3. CASE Follow(<<i, <<"lost">>>>, <<>>)
    <3>1. i \in ToSet(<<i, <<"lost">>>>)
      BY <1>5
    <3> QED BY <1>5, <2>1, <2>3, <3>1, Zenon
  <2> QED BY <1>6, <2>2, <2>3
<1>8. run'[r].at = run[r].at /\ \E l \in ToSet(items) : IsSince(l, r)
  BY <1>1, <1>3, <1>7
<1> QED BY <1>7, <1>8, AheadFollows


LEMMA KeptInductive ==
  ASSUME SessionTypes, DeckTypes, Protocol, Losses, Plays, [Next]_vars,
         NEW r \in Runs, Home(r), Tables(r), Kept(r)
  PROVE  Kept(r)'
<1> SUFFICES ASSUME r \in live', playOf'[r] # 0, run'[r].told = "job"
             PROVE  r \in playing'.jobs \/ Stopped(r)' \/ StopAhead(r)'
  BY DEF Kept
<1>0. /\ playing \in [id : Nat, card : Cards \cup {NoCard}, jobs : SUBSET Runs, starting : Int]
      /\ playing.jobs = {x \in OfPlay(playing.id) : run[x].told = "job"}
      /\ playing.jobs \in SUBSET Runs /\ IsFiniteSet(playing.jobs)
  BY FS_Subset DEF DeckTypes, Plays
<1>1. ASSUME NEW p \in Runs, Run(p) \/ \E c \in Cards : Play(c, p)
      PROVE  r \in playing'.jobs \/ Stopped(r)' \/ StopAhead(r)'
  <2>1. PICK S \in {{}, playing.jobs} :
           /\ PressRun(p, StopRuns(S)) \/ (S = {} /\ PressRun(p, <<>>))
           /\ playing'.jobs = playing.jobs \/ (S = playing.jobs)
           /\ \A x \in Runs : x # p => playOf'[x] = playOf[x]
    <3>1. CASE Run(p)
      <4>1. PressRun(p, <<>>) /\ playing' = playing /\ playOf' = playOf
        BY <3>1 DEF Run, deckVars
      <4> QED BY <4>1
    <3>2. ASSUME NEW c \in Cards, Play(c, p)
          PROVE  \E S \in {{}, playing.jobs} :
                   /\ PressRun(p, StopRuns(S)) \/ (S = {} /\ PressRun(p, <<>>))
                   /\ playing'.jobs = playing.jobs \/ (S = playing.jobs)
                   /\ \A x \in Runs : x # p => playOf'[x] = playOf[x]
      <4> DEFINE other == playing.id # 0 /\ playing.card # c
                 S == IF other THEN playing.jobs ELSE {}
                 g == IF playing.id = 0 \/ other
                        THEN [id |-> plays + 1, card |-> c, jobs |-> {}, starting |-> 0] ELSE playing
      <4>1. /\ PressRun(p, StopRuns(S)) /\ playing' = [g EXCEPT !.starting = @ + 1]
            /\ playOf' = [playOf EXCEPT ![p] = g.id]
        BY <3>2 DEF Play
      <4>2. playing'.jobs = g.jobs
        BY <1>0, <4>1
      <4>3. playing.id = 0 => playing.jobs = {}
        BY <1>0 DEF OfPlay
      <4>4. playing'.jobs = playing.jobs \/ S = playing.jobs
        <5>1. CASE other
          BY <5>1
        <5>2. CASE playing.id = 0
          <6>1. g.jobs = {}
            BY <5>2
          <6> QED BY <4>2, <4>3, <5>2, <6>1
        <5>3. CASE ~other /\ playing.id # 0
          <6>1. g = playing
            BY <5>3
          <6> QED BY <4>2, <6>1
        <5> QED BY <5>1, <5>2, <5>3
      <4>5. \A x \in Runs : x # p => playOf'[x] = playOf[x]
        BY <4>1 DEF Plays
      <4>6. S \in {{}, playing.jobs}
        OBVIOUS
      <4> HIDE DEF S, g
      <4> QED BY <4>1, <4>4, <4>5, <4>6
    <3> QED BY <1>1, <3>1, <3>2
  <2>2. IsFiniteSet(S) /\ S \in SUBSET Runs
    BY <1>0, <2>1, FS_EmptySet
  <2>3. /\ StopRuns(S) \in Seq(StopCalls)
        /\ \A x \in Runs : <<"stopRun", x>> \in ToSet(StopRuns(S)) <=> x \in S
    BY <2>2, StopRunsAre
  <2>4. PICK posted \in Seq(StopCalls) :
           PressRun(p, posted) /\ \A x \in S : <<"stopRun", x>> \in ToSet(posted)
    <3>1. <<>> \in Seq(StopCalls)
      OBVIOUS
    <3> QED BY <2>1, <2>2, <2>3, <3>1
  <2>5. /\ run[p].told = "unpressed" /\ run'[p].told = "called" /\ live' = live
        /\ \A x \in Runs : x # p => run'[x] = run[x]
        /\ Follow(<<<<"run", p>>>>, posted)
    BY <2>4 DEF PressRun, SessionTypes, workerVars, runtimeVars, coreVars
  <2>6. r # p /\ run'[r] = run[r] /\ playOf'[r] = playOf[r] /\ r \in live /\ run'[r].at = run[r].at
    BY <2>1, <2>5
  <2>7. r \in playing.jobs \/ Stopped(r) \/ StopAhead(r)
    BY <2>6 DEF Kept
  <2>8. <<<<"run", p>>>> \in Seq(Items)
    <3>1. <<"run", p>> \in Items
      BY FreshRuns, Kinds
    <3> QED BY <3>1
  <2>9. /\ Stopped(r)' <=> Stopped(r) \/ <<"stopRun", r>> \in ToSet(posted)
        /\ StopAhead(r) => StopAhead(r)'
    BY <2>5, <2>6, <2>8, AheadFollows
  <2> QED BY <2>1, <2>4, <2>7, <2>9
<1>2. ASSUME NEW p \in Runs, Answered(p)
      PROVE  r \in playing'.jobs \/ Stopped(r)' \/ StopAhead(r)'
  <2> DEFINE mine == playOf[p] # 0 /\ playOf[p] = playing.id
             job == mail # <<>> /\ Head(mail)[1] = "job"
             S == {p}
  <2>1. /\ HearAnswer(p, IF job /\ playOf[p] # 0 /\ ~mine THEN StopRuns({p}) ELSE <<>>)
        /\ playing' = IF ~mine THEN playing
                      ELSE IF job THEN [playing EXCEPT !.starting = @ - 1, !.jobs = @ \cup {p}]
                      ELSE IF playing.jobs = {} THEN Rest
                      ELSE [playing EXCEPT !.starting = @ - 1]
        /\ playOf' = playOf
    BY <1>2 DEF Answered
  <2>2. StopRuns({p}) \in Seq(StopCalls) /\ <<"stopRun", p>> \in ToSet(StopRuns({p}))
    <3>1. IsFiniteSet({p}) /\ {p} \in SUBSET Runs
      BY FS_Singleton
    <3> QED BY <3>1, StopRunsAre
  <2>3. PICK posted \in Seq(StopCalls) :
           /\ HearAnswer(p, posted)
           /\ job /\ playOf[p] # 0 /\ ~mine => <<"stopRun", p>> \in ToSet(posted)
    <3>1. <<>> \in Seq(StopCalls)
      OBVIOUS
    <3> QED BY <2>1, <2>2, <3>1
  <2>4. /\ mail # <<>> /\ run' = [run EXCEPT ![p].told = Head(mail)[1]]
        /\ inbox' = inbox \o posted /\ chain' = chain /\ live' = live
    BY <2>3 DEF HearAnswer, workerVars, runtimeVars, coreVars
  <2>5. run'[r].at = run[r].at /\ (r # p => run'[r] = run[r]) /\ (r = p => Head(mail)[1] = "job")
    BY <2>4 DEF SessionTypes
  <2>6. /\ Stopped(r)' <=> Stopped(r) \/ <<"stopRun", r>> \in ToSet(posted)
        /\ StopAhead(r) => StopAhead(r)'
    BY <2>4, <2>5, AheadPosted
  <2>7. playing.jobs \subseteq playing'.jobs
    BY <1>0, <2>1 DEF Rest
  <2>8. CASE r # p
    <3>1. r \in playing.jobs \/ Stopped(r) \/ StopAhead(r)
      BY <2>1, <2>4, <2>5, <2>8 DEF Kept
    <3> QED BY <2>6, <2>7, <3>1
  <2>9. CASE r = p
    <3>1. job /\ playOf[p] # 0
      BY <2>1, <2>4, <2>5, <2>9
    <3>2. CASE mine
      <4>1. playing' = [playing EXCEPT !.starting = @ - 1, !.jobs = @ \cup {p}]
        BY <2>1, <3>1, <3>2
      <4> QED BY <1>0, <2>9, <4>1
    <3>3. CASE ~mine
      BY <2>3, <2>6, <2>9, <3>1, <3>3
    <3> QED BY <3>2, <3>3
  <2> QED BY <2>8, <2>9
<1>3. CASE StopCard
  <2>1. /\ inbox' = inbox \o StopRuns(playing.jobs) /\ UNCHANGED <<run, chain, live, playOf>>
    BY <1>3 DEF StopCard, pageVars, workerVars, runtimeVars, coreVars
  <2>2. /\ StopRuns(playing.jobs) \in Seq(StopCalls)
        /\ r \in playing.jobs => <<"stopRun", r>> \in ToSet(StopRuns(playing.jobs))
    BY <1>0, StopRunsAre
  <2>3. /\ Stopped(r)' <=> Stopped(r) \/ <<"stopRun", r>> \in ToSet(StopRuns(playing.jobs))
        /\ StopAhead(r) => StopAhead(r)'
    BY <2>1, <2>2, AheadPosted
  <2> QED BY <2>1, <2>2, <2>3 DEF Kept
<1>4. CASE Handle /\ UNCHANGED deckVars
  <2>1. /\ run' = run /\ playing' = playing /\ playOf' = playOf
        /\ Stopped(r) => Stopped(r)' \/ r \notin live'
        /\ StopAhead(r) => StopAhead(r)' \/ r \notin live'
        /\ r \in live' => r \in live \/ Posted(r)
    BY <1>4, RunHandled DEF deckVars
  <2>2. r \in live
    BY <2>1 DEF Home
  <2> QED BY <2>1, <2>2 DEF Kept
<1>5. CASE /\ Aside /\ UNCHANGED <<plays, playOf, halted>>
           /\ \/ HearTable \/ Refresh \/ Stop
              \/ playing' = playing
  <2>1. (Stopped(r)' <=> Stopped(r)) /\ (StopAhead(r) => StopAhead(r)') /\ run' = run
    BY <1>5, AsideKeepsStops
  <2>2. r \in live
    BY <1>5, <2>1, LiveRuns DEF Home
  <2>3. r \in playing.jobs \/ Stopped(r) \/ StopAhead(r)
    BY <1>5, <2>1, <2>2 DEF Kept
  <2>4. CASE Stop
    BY <2>4, StopIsAhead
  <2>5. CASE HearTable \/ Refresh
    BY <1>5, <2>1, <2>2, <2>3, <2>5, NowKeeps
  <2> QED BY <1>5, <2>1, <2>3, <2>4, <2>5
<1> QED BY <1>1, <1>2, <1>3, <1>4, <1>5, DeckSteps


\* Once a run's card has lost it, it has.
LEMMA GivenKept ==
  ASSUME SessionTypes, Protocol, Plays, \A x \in Runs : Home(x), [Next]_vars, NEW r \in Runs, Given(r)
  PROVE  Given(r)'
<1>1. ASSUME NEW p \in Runs, Run(p)
      PROVE  Given(r)'
  <2>1. /\ UNCHANGED <<playOf, halted>> /\ run[p].told = "unpressed"
        /\ \A x \in Runs : x # p => run'[x] = run[x]
    BY <1>1 DEF Run, PressRun, SessionTypes, deckVars
  <2> QED BY <2>1, GivenStays
<1>2. ASSUME NEW p \in Runs, NEW c \in Cards, Play(c, p)
      PROVE  Given(r)'
  <2>1. /\ run[p].told = "unpressed" /\ halted \subseteq halted'
        /\ \A x \in Runs : x # p => run'[x] = run[x] /\ playOf'[x] = playOf[x]
    BY <1>2 DEF Play, PressRun, SessionTypes, Plays
  <2>2. CASE r # p
    BY <2>1, <2>2, GivenStays
  <2>3. CASE r = p
    <3>1. OfPlay(playOf[r]) = {}
      BY <2>1, <2>3 DEF Plays, OfPlay
    <3>2. r \in halted'
      BY <2>1, <3>1 DEF Given
    <3> QED BY <3>2 DEF Given
  <2> QED BY <2>2, <2>3
<1>3. ASSUME NEW p \in Runs, Answered(p)
      PROVE  Given(r)'
  <2>1. PICK posted : HearAnswer(p, posted) /\ UNCHANGED <<playOf, halted>>
    BY <1>3 DEF Answered
  <2>2. mail # <<>> /\ Head(mail) \in {<<"job", p>>, <<"refused", p>>}
        /\ \A x \in Runs : x # p => run'[x] = run[x]
    BY <2>1 DEF HearAnswer, SessionTypes
  <2>3. Head(mail) \in ToSet(mail)
    BY <2>2, Behind DEF SessionTypes
  <2>4. run[p].told = "called"
    BY <2>2, <2>3 DEF Home, IsAnswered, Reply
  <2> QED BY <2>1, <2>2, <2>4, GivenStays
<1>4. CASE StopCard
  BY <1>4, GivenStays DEF StopCard, pageVars
<1>5. CASE Handle /\ UNCHANGED deckVars
  BY <1>5, GivenStays DEF Handle, pageVars, deckVars
<1>6. CASE Aside /\ UNCHANGED <<plays, playOf, halted>>
  BY <1>6, AsideKeepsStops, GivenStays
<1> QED BY <1>1, <1>2, <1>3, <1>4, <1>5, <1>6, DeckSteps

LEMMA AskedInductive ==
  ASSUME SessionTypes, DeckTypes, Protocol, Plays, \A x \in Runs : Home(x), [Next]_vars,
         NEW r \in Runs, Asked(r)
  PROVE  Asked(r)'
<1> SUFFICES ASSUME Stopped(r)', ~Stopped(r)
             PROVE  Given(r)'
  BY GivenKept DEF Asked
<1>0. /\ playing.jobs = {x \in OfPlay(playing.id) : run[x].told = "job"}
      /\ playing.jobs \in SUBSET Runs /\ IsFiniteSet(playing.jobs)
  BY FS_Subset DEF DeckTypes, Plays
<1>1. ASSUME NEW p \in Runs, NEW posted \in Seq(StopCalls), PressRun(p, posted)
      PROVE  <<"stopRun", r>> \in ToSet(posted)
  <2>1. run'[r].at = run[r].at \/ r = p
    BY <1>1 DEF PressRun, SessionTypes
  <2>2. Follow(<<<<"run", p>>>>, posted)
    BY <1>1 DEF PressRun
  <2>3. <<<<"run", p>>>> \in Seq(Items)
    <3>1. <<"run", p>> \in Items
      BY FreshRuns, Kinds
    <3> QED BY <3>1
  <2>4. CASE chain = <<>>
    <3>1. Comes(<<<<"run", p>>>>, posted) /\ inbox \in Seq(Msgs)
      BY <2>2, <2>4 DEF Follow, SessionTypes
    <3> QED BY <2>3, <3>1, AheadComes
  <2>5. CASE chain # <<>>
    <3>1. inbox' = inbox \o posted
      BY <2>2, <2>5 DEF Follow
    <3>2. inbox \in Seq(Msgs) /\ posted \in Seq(Msgs)
      BY SeqMonotonic, Kinds, Places DEF SessionTypes
    <3>3. ToSet(inbox') = ToSet(inbox) \cup ToSet(posted)
      BY <3>1, <3>2, Concat
    <3> QED BY <3>3 DEF Stopped
  <2> QED BY <2>4, <2>5
<1>2. ASSUME NEW p \in Runs, Run(p)
      PROVE  Given(r)'
  <2>1. PICK posted \in Seq(StopCalls) : posted = <<>> /\ PressRun(p, posted)
    <3>1. <<>> \in Seq(StopCalls)
      OBVIOUS
    <3> QED BY <1>2, <3>1 DEF Run
  <2>2. <<"stopRun", r>> \in ToSet(posted)
    BY <1>1, <2>1
  <2>3. ToSet(posted) = {}
    BY <2>1 DEF ToSet
  <2> QED BY <2>2, <2>3
<1>3. ASSUME NEW p \in Runs, NEW c \in Cards, Play(c, p)
      PROVE  Given(r)'
  <2> DEFINE other == playing.id # 0 /\ playing.card # c
             S == IF other THEN playing.jobs ELSE {}
  <2>1. /\ PressRun(p, StopRuns(S))
        /\ halted' = halted \cup (IF other THEN OfPlay(playing.id) ELSE {})
    BY <1>3 DEF Play
  <2>2. IsFiniteSet(S) /\ S \in SUBSET Runs
    BY <1>0, FS_EmptySet
  <2>3. other \/ S = {}
    OBVIOUS
  <2>4. S \subseteq playing.jobs
    OBVIOUS
  <2> HIDE DEF S
  <2>5. r \in S
    <3>1. StopRuns(S) \in Seq(StopCalls) /\ (<<"stopRun", r>> \in ToSet(StopRuns(S)) <=> r \in S)
      BY <2>2, StopRunsAre
    <3>2. <<"stopRun", r>> \in ToSet(StopRuns(S))
      BY <1>1, <2>1, <3>1
    <3> QED BY <3>1, <3>2
  <2>6. r \in halted'
    BY <1>0, <2>1, <2>3, <2>4, <2>5
  <2> QED BY <2>6 DEF Given
<1>4. ASSUME NEW p \in Runs, Answered(p)
      PROVE  Given(r)'
  <2> DEFINE mine == playOf[p] # 0 /\ playOf[p] = playing.id
             job == mail # <<>> /\ Head(mail)[1] = "job"
  <2>1. HearAnswer(p, IF job /\ playOf[p] # 0 /\ ~mine THEN StopRuns({p}) ELSE <<>>)
    BY <1>4 DEF Answered
  <2>2. StopRuns({p}) \in Seq(StopCalls) /\ (<<"stopRun", r>> \in ToSet(StopRuns({p})) <=> r \in {p})
    <3>1. IsFiniteSet({p}) /\ {p} \in SUBSET Runs
      BY FS_Singleton
    <3> QED BY <3>1, StopRunsAre
  <2>3. PICK posted \in Seq(StopCalls) :
           /\ HearAnswer(p, posted)
           /\ posted = <<>> \/ (posted = StopRuns({p}) /\ playOf[p] # 0 /\ ~mine)
    <3>1. <<>> \in Seq(StopCalls)
      OBVIOUS
    <3> QED BY <2>1, <2>2, <3>1
  <2>4. mail # <<>> /\ Head(mail) \in {<<"job", p>>, <<"refused", p>>} /\ inbox' = inbox \o posted
    BY <2>3 DEF HearAnswer
  <2>5. <<"stopRun", r>> \in ToSet(posted)
    <3>1. inbox \in Seq(Msgs) /\ posted \in Seq(Msgs)
      BY SeqMonotonic, Kinds, Places DEF SessionTypes
    <3>2. ToSet(inbox') = ToSet(inbox) \cup ToSet(posted)
      BY <2>4, <3>1, Concat
    <3> QED BY <3>2 DEF Stopped
  <2>6. posted # <<>>
    BY <2>5 DEF ToSet
  <2>7. r = p /\ playOf[p] \notin {0, playing.id}
    BY <2>2, <2>3, <2>5, <2>6
  <2>8. run[p].told = "called"
    <3>1. Head(mail) \in ToSet(mail)
      BY <2>4, Behind DEF SessionTypes
    <3> QED BY <2>4, <3>1 DEF Home, IsAnswered, Reply
  <2>9. Given(r)
    BY <2>7, <2>8 DEF Plays
  <2> QED BY <2>9, GivenKept
<1>5. CASE StopCard
  <2>1. inbox' = inbox \o StopRuns(playing.jobs) /\ halted' = halted \cup OfPlay(playing.id)
    BY <1>5 DEF StopCard
  <2>2. /\ StopRuns(playing.jobs) \in Seq(StopCalls)
        /\ <<"stopRun", r>> \in ToSet(StopRuns(playing.jobs)) <=> r \in playing.jobs
    BY <1>0, StopRunsAre
  <2>3. inbox \in Seq(Msgs) /\ StopRuns(playing.jobs) \in Seq(Msgs)
    BY <2>2, SeqMonotonic, Kinds, Places DEF SessionTypes
  <2>4. ToSet(inbox') = ToSet(inbox) \cup ToSet(StopRuns(playing.jobs))
    BY <2>1, <2>3, Concat
  <2>5. r \in playing.jobs
    BY <2>2, <2>4 DEF Stopped
  <2> QED BY <1>0, <2>1, <2>5 DEF Given
<1>6. CASE Handle /\ UNCHANGED deckVars
  BY <1>6, RunHandled
<1>7. CASE Aside
  BY <1>7, AsideKeepsStops
<1> QED BY <1>2, <1>3, <1>4, <1>5, <1>6, <1>7, DeckSteps


LEMMA DeckInit ==
  ASSUME Init
  PROVE  DeckInv
<1>1. /\ run = [r \in Runs |-> [told |-> "unpressed", at |-> 0]]
      /\ chain = <<>> /\ inbox = <<>> /\ mail = <<>>
      /\ preparing = {} /\ live = {} /\ holding = {} /\ answering = {}
      /\ playing = Rest /\ plays = 0 /\ playOf = [r \in Runs |-> 0]
  BY Zenon DEF Init, SessionInit
<1>2. ToSet(<<>>) = {} /\ \A M : Once(<<>>, M)
  BY DEF ToSet, Once
<1>3. \A r \in Runs : Home(r) /\ Tables(r) /\ Kept(r) /\ Asked(r)
  BY <1>1, <1>2 DEF Home, Held, Waits, Posted, IsAnswered, Tables, Kept, Asked, Stopped
<1>4. Plays
  <2>1. /\ playing.id = 0 /\ playing.jobs = {} /\ playing.starting = 0
    BY <1>1 DEF Rest
  <2>2. OfPlay(0) = {} /\ Starting(0) = {}
    BY DEF OfPlay, Starting
  <2>3. \A r \in Runs : run[r].told = "unpressed" /\ playOf[r] = 0
    BY <1>1
  <2>4. playOf \in [Runs -> 0..plays] /\ playing.id \in 0..plays
    BY <1>1, <2>1
  <2> QED BY <2>1, <2>2, <2>3, <2>4, FS_EmptySet DEF Plays
<1> QED BY <1>3, <1>4, InvInit DEF DeckInv

LEMMA DeckInductive ==
  ASSUME DeckInv, [Next]_vars
  PROVE  DeckInv'
<1>1. /\ SessionInv /\ Plays
      /\ \A r \in Runs : Home(r) /\ Tables(r) /\ Kept(r) /\ Asked(r)
  BY DEF DeckInv
<1>2. SessionTypes /\ DeckTypes /\ Protocol /\ Losses
  BY <1>1 DEF SessionInv
<1>3. SessionStep
  BY <1>2, Steps
<1>4. SessionInv'
  BY <1>1, InvInductive
<1>5. Plays'
  BY <1>1, <1>2, PlaysInductive
<1>6. ASSUME NEW r \in Runs
      PROVE  Home(r)' /\ Tables(r)' /\ Kept(r)' /\ Asked(r)'
  <2>1. Home(r) /\ Tables(r) /\ Kept(r) /\ Asked(r) /\ \A x \in Runs : Home(x)
    BY <1>1
  <2>2. Home(r)'
    BY <1>2, <1>3, <2>1, HomeInductive
  <2>3. Tables(r)'
    BY <1>2, <2>1, TablesInductive
  <2>4. Kept(r)'
    BY <1>1, <1>2, <2>1, KeptInductive
  <2>5. Asked(r)'
    BY <1>1, <1>2, <2>1, AskedInductive
  <2> QED BY <2>2, <2>3, <2>4, <2>5
<1> QED BY <1>4, <1>5, <1>6 DEF DeckInv

\* A run is answered once, the page has it in its tables while it goes, and the
\* deck's count of its card's runs is right: always.
THEOREM DeckKeeps == Spec => []DeckInv
<1>1. DeckInv /\ [Next]_vars => DeckInv'
  BY DeckInductive
<1> QED BY <1>1, DeckInit, PTL DEF Spec

\* No run is left behind (main.js, play and stopCard): a run of a card that the
\* page was told of and that still goes is of the card that plays, or its stop, or
\* a Stop pressed since it, is on its way to the worker.
THEOREM NoneIsOrphaned == Spec => []NoRunIsOrphaned
<1>1. DeckInv => NoRunIsOrphaned
  <2> SUFFICES ASSUME DeckInv, NEW r \in live, playOf[r] # 0, run[r].told = "job"
               PROVE  \/ r \in playing.jobs
                      \/ <<"stopRun", r>> \in ToSet(inbox)
                      \/ StopSince(r)
    BY DEF NoRunIsOrphaned
  <2>1. r \in Runs /\ chain \in Seq(Items)
    BY DEF DeckInv, SessionInv, SessionTypes, WorkTypes
  <2>2. r \in playing.jobs \/ Stopped(r) \/ StopAhead(r)
    BY <2>1 DEF DeckInv, Kept
  <2>3. StopAhead(r) => StopSince(r)
    <3>1. chain # <<>> => Head(chain) \in ToSet(chain) /\ ToSet(Tail(chain)) \subseteq ToSet(chain)
      BY <2>1, Behind
    <3> QED BY <3>1 DEF StopAhead, IsSince, StopSince
  <2> QED BY <2>2, <2>3 DEF Stopped
<1> QED BY <1>1, DeckKeeps, PTL

\* A card's run is stopped only for its card stopped or another played since, or
\* for another run of its play that did not start (main.js, play and stopCard).
THEOREM StopsAreAsked == Spec => []StoppedOnlyIfAsked
<1>1. DeckInv => StoppedOnlyIfAsked
  BY DEF DeckInv, Asked, Stopped, Given, StoppedOnlyIfAsked
<1> QED BY <1>1, DeckKeeps, PTL


-----------------------------------------------------------------------------
(* What the bounds keep, and that nothing is of an epoch still to come.     *)
Bounds == presses <= MaxPresses /\ gen <= MaxReloads

Epochs ==
  /\ \A m \in ToSet(ring) \cup ToSet(line) : m[1] = "sound" => m[3] <= epoch
  /\ \A s \in engine.groups : s[2] <= epoch

LEMMA BoundsInductive ==
  ASSUME SessionTypes, Bounds, SessionStep
  PROVE  Bounds'
<1>0. presses \in Nat /\ gen \in Nat /\ MaxPresses \in Nat /\ MaxReloads \in Nat
  BY SessionAssumption DEF SessionTypes
<1>1. ASSUME NEW r \in Runs, NEW posted \in Seq(StopCalls),
             PressRun(r, posted) \/ HearAnswer(r, posted)
      PROVE  Bounds'
  BY <1>1 DEF Bounds, PressRun, HearAnswer, PostStops, pageVars
<1>2. ASSUME NEW posted \in Seq(StopCalls), PostStops(posted)
      PROVE  Bounds'
  BY <1>2 DEF Bounds, PostStops, pageVars
<1>3. CASE PressStop \/ ReloadStarts
  BY <1>0, <1>3 DEF Bounds, PressStop, ReloadStarts
<1>4. CASE TakeTable \/ HearReply \/ SettleTimesOut \/ Purge \/ UNCHANGED sessionVars
  BY <1>4 DEF Bounds, TakeTable, HearReply, SettleTimesOut, Purge, sessionVars, pageVars
<1>5. CASE Handle \/ Pump \/ Release
  BY <1>5 DEF Bounds, Handle, Pump, Release, pageVars
<1>6. ASSUME NEW r \in Runs, Fetched(r) \/ Sound(r) \/ Ends(r) \/ Answer(r)
      PROVE  Bounds'
  BY <1>6 DEF Bounds, Fetched, Sound, Ends, Answer, pageVars
<1>7. CASE EngineStep
  BY <1>7, EngineTypes DEF Bounds
<1> QED BY <1>1, <1>2, <1>3, <1>4, <1>5, <1>6, <1>7 DEF SessionStep

\* What is sent or held, or stays in the engine, is of the epoch it was of.
LEMMA EpochsGoOn ==
  ASSUME SessionTypes, Epochs, epoch' \in Nat, epoch <= epoch',
         \A m \in ToSet(ring') \cup ToSet(line') :
            m[1] = "sound" => m \in ToSet(ring) \cup ToSet(line) \/ m[3] = epoch,
         engine'.groups \subseteq engine.groups
  PROVE  Epochs'
<1>0. epoch \in Nat /\ engine \in Engines /\ ToSet(ring) \cup ToSet(line) \subseteq Sends
  BY Queued, SendKinds DEF SessionTypes, WorkTypes
<1>1. \A s \in engine.groups : s[2] \in Nat
  BY <1>0 DEF Engines
<1>2. \A m \in ToSet(ring) \cup ToSet(line) : m[1] = "sound" => m[3] \in Nat
  BY <1>0, SendKinds
<1>3. ASSUME NEW m \in ToSet(ring') \cup ToSet(line'), m[1] = "sound"
      PROVE  m[3] <= epoch'
  <2>1. CASE m \in ToSet(ring) \cup ToSet(line)
    BY <1>0, <1>2, <1>3, <2>1 DEF Epochs
  <2>2. CASE m[3] = epoch
    BY <2>2
  <2> QED BY <1>3, <2>1, <2>2
<1>4. ASSUME NEW s \in engine'.groups
      PROVE  s[2] <= epoch'
  BY <1>0, <1>1, <1>4 DEF Epochs
<1> QED BY <1>3, <1>4 DEF Epochs

\* A run that starts sends nothing, or what is held is of the epoch there is.
LEMMA StartsEpochs ==
  ASSUME SessionTypes, Epochs, NEW r \in Runs, Starts(r), ~waiting, UNCHANGED engine
  PROVE  Epochs'
<1>0. epoch \in Nat
  BY DEF SessionTypes, WorkTypes
<1>1. CASE StartsHeld(r)
  <2>1. /\ ToSet(ring') \cup ToSet(line') = ToSet(ring) \cup ToSet(line) \cup {SoundOf(r)}
        /\ epoch' = epoch
    BY <1>1, HeldStart
  <2>2. SoundOf(r)[3] = epoch
    BY SoundOfRun
  <2> QED BY <1>0, <2>1, <2>2, EpochsGoOn
<1>2. CASE StartsAtOnce(r)
  <2>1. UNCHANGED <<ring, line, epoch>>
    BY <1>2 DEF StartsAtOnce, coreVars
  <2> QED BY <1>0, <2>1, EpochsGoOn
<1> QED BY <1>1, <1>2 DEF Starts

LEMMA EpochsInductive ==
  ASSUME SessionTypes, Epochs, SessionStep
  PROVE  Epochs'
<1>0. /\ epoch \in Nat /\ ring \in Seq(Sends) /\ line \in Seq(LineSends) /\ engine \in Engines
      /\ line \in Seq(Sends) /\ chain \in Seq(Items) /\ ToSet(<<>>) = {}
  BY Queued DEF SessionTypes, WorkTypes, ToSet
<1>1. ASSUME UNCHANGED <<ring, line, epoch, engine>>
      PROVE  Epochs'
  BY <1>0, <1>1, EpochsGoOn
<1>2. ASSUME NEW r \in Runs, NEW posted \in Seq(StopCalls), PressRun(r, posted) \/ HearAnswer(r, posted)
      PROVE  Epochs'
  BY <1>1, <1>2 DEF PressRun, HearAnswer, workerVars, runtimeVars, coreVars
<1>3. ASSUME NEW posted \in Seq(StopCalls), PostStops(posted)
      PROVE  Epochs'
  BY <1>1, <1>3 DEF PostStops, workerVars, runtimeVars, coreVars
<1>4. CASE PressStop \/ TakeTable \/ SettleTimesOut \/ UNCHANGED sessionVars
  BY <1>1, <1>4 DEF PressStop, TakeTable, SettleTimesOut, sessionVars, workerVars, runtimeVars, coreVars
<1>5. CASE ReloadStarts
  <2>1. engine'.groups = {} /\ UNCHANGED <<ring, line, epoch>>
    BY <1>5 DEF ReloadStarts, NewEngine, workerVars, runtimeVars, coreVars
  <2> QED BY <1>0, <2>1, EpochsGoOn
<1>6. CASE HearReply
  <2>1. UNCHANGED <<engine, epoch, line>>
    BY <1>6 DEF HearReply, workerVars, runtimeVars, coreVars
  <2>2. CASE ring' = ring
    BY <1>1, <2>1, <2>2
  <2>3. CASE ring' # ring
    <3>1. chain[1][1] = "stop" /\ ring' = Append(ring, <<"sync", chain[1][2]>>)
      BY <1>6, <2>3 DEF HearReply
    <3>2. chain # <<>> => Head(chain) \in Items /\ Head(chain) = chain[1]
      BY <1>0, Behind
    <3>3. <<"sync", chain[1][2]>>[1] = "sync"
      OBVIOUS
    <3>4. ToSet(ring') \subseteq ToSet(ring) \cup {<<"sync", chain[1][2]>>}
      BY <1>0, <3>1, <3>2 DEF ToSet
    <3>5. \A m \in ToSet(ring') \cup ToSet(line') :
             m[1] = "sound" => m \in ToSet(ring) \cup ToSet(line) \/ m[3] = epoch
      BY <2>1, <3>3, <3>4
    <3> QED BY <1>0, <2>1, <3>5, EpochsGoOn
  <2> QED BY <2>2, <2>3
<1>7. CASE Purge
  <2>1. epoch' = epoch /\ line' = line /\ engine'.groups = engine.groups
        /\ (ring' = ring \/ ring' = <<>>)
    BY <1>0, <1>7 DEF Purge, workerVars, runtimeVars, coreVars, Engines
  <2> QED BY <1>0, <2>1, EpochsGoOn
<1>8. CASE Handle
  <2> DEFINE m == Head(inbox)
  <2>1. /\ UNCHANGED engine
        /\ \/ m[1] = "run" /\ HandleRun(m[2])
           \/ m[1] = "stop" /\ HandleStop
           \/ m[1] = "silence" /\ HandleSilence
           \/ m[1] = "lost" /\ HandleLost
           \/ m[1] = "stopRun" /\ HandleStopRun(m[2])
    BY <1>8 DEF Handle
  <2>2. m[1] = "run" => m[2] \in Runs
    BY <1>8, Behind, MsgKinds DEF Handle, SessionTypes
  <2> HIDE DEF m
  <2>3. CASE m[1] = "run" /\ HandleRun(m[2])
    <3>1. CASE m[2] \in Slow \/ waiting
      <4>1. UNCHANGED <<ring, line, epoch>>
        BY <2>3, <3>1 DEF HandleRun, coreVars
      <4> QED BY <1>1, <2>1, <4>1
    <3>2. CASE ~(m[2] \in Slow \/ waiting)
      <4>1. Starts(m[2]) /\ ~waiting /\ m[2] \in Runs
        BY <2>2, <2>3, <3>2 DEF HandleRun
      <4> QED BY <2>1, <4>1, StartsEpochs
    <3> QED BY <3>1, <3>2
  <2>4. CASE HandleStop
    <3>1. ring' = ring /\ line' = <<>> /\ epoch' = epoch
      BY <2>4 DEF HandleStop
    <3> QED BY <1>0, <2>1, <3>1, EpochsGoOn
  <2>5. CASE HandleStopRun(m[2])
    <3>1. UNCHANGED <<ring, line, epoch>>
      BY <2>5 DEF HandleStopRun, coreVars
    <3> QED BY <1>1, <2>1, <3>1
  <2>6. CASE HandleLost
    <3>1. UNCHANGED <<ring, line>> /\ epoch' = epoch + 1
      BY <2>6 DEF HandleLost
    <3> QED BY <1>0, <2>1, <3>1, EpochsGoOn
  <2>7. CASE HandleSilence
    <3> DEFINE f == <<"fade", epoch>>
    <3>1. /\ epoch' \in {epoch, epoch + 1}
          /\ \/ UNCHANGED <<ring, line>>
             \/ ring' = Append(ring, f) /\ line' = line
             \/ line' = Append(line, f) /\ ring' = ring
      BY <2>7 DEF HandleSilence
    <3>2. f \in Sends /\ f[1] # "sound"
      BY <1>0, SendKinds
    <3> HIDE DEF f
    <3>3. /\ Append(ring, f) = ring \o <<f>> /\ ToSet(ring \o <<f>>) = ToSet(ring) \cup {f}
          /\ Append(line, f) = line \o <<f>> /\ ToSet(line \o <<f>>) = ToSet(line) \cup {f}
      BY <1>0, <3>2, Appended
    <3>4. ToSet(ring') \cup ToSet(line') \subseteq ToSet(ring) \cup ToSet(line) \cup {f}
      BY <3>1, <3>3, Zenon
    <3>5. epoch' \in Nat /\ epoch <= epoch'
      BY <1>0, <3>1
    <3> QED BY <2>1, <3>2, <3>4, <3>5, EpochsGoOn
  <2> QED BY <2>1, <2>3, <2>4, <2>5, <2>6, <2>7
<1>9. ASSUME NEW r \in Runs, Ends(r) \/ Answer(r)
      PROVE  Epochs'
  BY <1>1, <1>9 DEF Ends, Answer, runtimeVars, coreVars
<1>10. ASSUME NEW r \in Runs, Fetched(r)
       PROVE  Epochs'
  <2>1. Starts(r) /\ ~waiting /\ UNCHANGED engine
    BY <1>10 DEF Fetched
  <2> QED BY <2>1, StartsEpochs
<1>11. ASSUME NEW r \in Runs, Sound(r)
       PROVE  Epochs'
  <2>1. UNCHANGED <<epoch, engine>> /\ ~waiting /\ (Send(SoundOf(r)) \/ Hold(SoundOf(r)))
    BY <1>11 DEF Sound, Sounding
  <2>2. SoundOf(r) \in LineSends /\ SoundOf(r)[3] = epoch
    BY SoundOfRun
  <2>3. ToSet(ring') \cup ToSet(line') = ToSet(ring) \cup ToSet(line) \cup {SoundOf(r)}
    BY <2>1, <2>2, Sending
  <2> QED BY <1>0, <2>1, <2>2, <2>3, EpochsGoOn
<1>12. CASE Pump
  <2> DEFINE h == Head(line)
  <2>1. /\ line # <<>> /\ ring' = Append(ring, h) /\ line' = Tail(line)
        /\ UNCHANGED <<epoch, engine>>
    BY <1>12 DEF Pump, runtimeVars
  <2>2. h \in Sends /\ ToSet(line) = {h} \cup ToSet(Tail(line))
    BY <1>0, <2>1, Behind
  <2> HIDE DEF h
  <2>3. Append(ring, h) = ring \o <<h>> /\ ToSet(ring \o <<h>>) = ToSet(ring) \cup {h}
    BY <1>0, <2>2, Appended
  <2>4. ToSet(ring') \cup ToSet(line') = ToSet(ring) \cup ToSet(line)
    BY <2>1, <2>2, <2>3, Zenon
  <2> QED BY <1>0, <2>1, <2>4, EpochsGoOn
<1>13. CASE Release
  <2>1. ring' = ring \o line /\ line' = <<>> /\ UNCHANGED <<epoch, engine>>
    BY <1>13 DEF Release, runtimeVars
  <2>2. ToSet(ring \o line) = ToSet(ring) \cup ToSet(line)
    BY Queued DEF Queue
  <2>3. ToSet(ring') \cup ToSet(line') = ToSet(ring) \cup ToSet(line)
    BY <1>0, <2>1, <2>2, Zenon
  <2> QED BY <1>0, <2>1, <2>3, EpochsGoOn
<1>14. CASE EngineStep
  <2>1. epoch' = epoch /\ line' = line
    BY <1>14, EngineTypes DEF workerVars, runtimeVars, coreVars
  <2>2. CASE Take
    <3> DEFINE m == Head(ring)
    <3>1. m \in Sends /\ ToSet(ring) = {m} \cup ToSet(ring')
      BY <1>0, <2>2, Behind DEF Take
    <3>2. \/ engine'.groups = engine.groups
          \/ m[1] = "sound" /\ engine'.groups = engine.groups \cup {<<m[2], m[3]>>}
      <4>1. CASE m[1] = "sound" /\ engine' = TakeSound(m[2], m[3], m[4])
        <5>1. m[2] \in Runs /\ m[3] \in Nat
          BY <3>1, <4>1, SendKinds
        <5> QED BY <1>0, <4>1, <5>1, SoundTaken
      <4>2. CASE m[1] = "fade" /\ engine' = TakeFade(m[2])
        BY <1>0, <4>2 DEF TakeFade, Engines
      <4>3. CASE m[1] = "sync" /\ UNCHANGED engine
        BY <4>3
      <4> QED BY <2>2, <4>1, <4>2, <4>3 DEF Take
    <3>3. m[1] = "sound" => m[3] <= epoch
      BY <3>1 DEF Epochs
    <3> HIDE DEF m
    <3>4. \A s \in engine'.groups : s[2] <= epoch
      BY <3>2, <3>3 DEF Epochs
    <3>5. \A x \in ToSet(ring') \cup ToSet(line') : x[1] = "sound" => x[3] <= epoch
      BY <2>1, <3>1 DEF Epochs
    <3> QED BY <2>1, <3>4, <3>5 DEF Epochs
  <2>3. CASE FadeEnds
    <3>1. ring' = ring /\ engine'.groups \subseteq engine.groups
      BY <1>0, <2>3 DEF FadeEnds, Engines
    <3> QED BY <1>0, <2>1, <3>1, EpochsGoOn
  <2>4. CASE ReloadEnds
    <3>1. ring' = ring /\ engine'.groups = engine.groups
      BY <1>0, <2>4 DEF ReloadEnds, Engines
    <3> QED BY <1>0, <2>1, <3>1, EpochsGoOn
  <2>5. ASSUME NEW s, Heard(s) \/ Quiet(s)
        PROVE  Epochs'
    <3>1. ring' = ring /\ engine'.groups = engine.groups
      BY <1>0, <2>5 DEF Heard, Quiet, Engines
    <3> QED BY <1>0, <2>1, <3>1, EpochsGoOn
  <2> QED BY <1>14, <2>2, <2>3, <2>4, <2>5 DEF EngineStep
<1> QED BY <1>2, <1>3, <1>4, <1>5, <1>6, <1>7, <1>8, <1>9, <1>10, <1>11, <1>12, <1>13, <1>14
        DEF SessionStep

\* The session's and the deck's variables have their types, within the bounds, and
\* a card's count of its runs is what the page was told of them: always.
THEOREM TypesHold == Spec => []TypeOK
<1>1. Init => Bounds /\ Epochs
  <2> SUFFICES ASSUME Init PROVE Bounds /\ Epochs
    OBVIOUS
  <2>1. presses = 0 /\ gen = 0 /\ line = <<>> /\ ring = <<>> /\ engine.groups = {}
    BY DEF Init, SessionInit, NewEngine
  <2> QED BY <2>1, SessionAssumption DEF Bounds, Epochs, ToSet
<1>2. DeckInv /\ Bounds /\ Epochs /\ [Next]_vars => Bounds' /\ Epochs'
  <2> SUFFICES ASSUME DeckInv, Bounds, Epochs, [Next]_vars
               PROVE  Bounds' /\ Epochs'
    OBVIOUS
  <2>1. SessionTypes /\ DeckTypes
    BY DEF DeckInv, SessionInv
  <2> QED BY <2>1, Steps, BoundsInductive, EpochsInductive
<1>3. DeckInv /\ Bounds /\ Epochs => TypeOK
  <2> SUFFICES ASSUME DeckInv, Bounds, Epochs
               PROVE  TypeOK
    OBVIOUS
  <2>1. SessionTypes /\ DeckTypes /\ Protocol /\ Losses /\ Housed /\ Plays
    BY DEF DeckInv, SessionInv
  <2>2. run \in [Runs -> [told : {"unpressed", "called", "job", "refused"}, at : 0..MaxPresses]]
    <3>1. \A r \in Runs : run[r].at \in 0..MaxPresses
      BY <2>1, SessionAssumption DEF SessionTypes, Losses, Bounds
    <3> QED BY <2>1, <3>1 DEF SessionTypes
  <2>3. \A l \in ToSet(chain) : l[1] \in {"run", "stop", "lost"}
    BY <2>1, Places DEF SessionTypes, Items, RunCalls
  <2>4. presses \in 0..MaxPresses /\ gen \in 0..MaxReloads
    BY <2>1, SessionAssumption DEF SessionTypes, Bounds
  <2>5. engine.groups \subseteq Runs \X (0..epoch)
    <3>1. \A s \in engine.groups : s \in Runs \X Nat /\ s[2] \in 0..epoch
      BY <2>1 DEF SessionTypes, Engines, Epochs
    <3> QED BY <3>1
  <2>6. playing.starting = Cardinality({r \in OfPlay(playing.id) : run[r].told = "called"})
    BY <2>1 DEF Plays, Starting
  <2>7. studio \in BOOLEAN
    BY <2>1 DEF SessionTypes, WorkTypes
  <2>8. playing.card \in Cards \cup {NoCard}
    BY <2>1 DEF DeckTypes
  <2>9. step \in {"rest", "called", "settle", "purge", "silence"} /\ (step = "rest" <=> chain = <<>>)
    BY <2>1 DEF SessionTypes, Protocol
  <2>10. /\ preparing \cup live \cup places \cup answering \subseteq Runs
         /\ engine.due \cup engine.heard \subseteq engine.groups
    BY <2>1 DEF SessionTypes, WorkTypes, Housed
  <2>12. /\ waiting => line # <<>>
         /\ IF waiting THEN holding \subseteq Runs ELSE holding = {}
         /\ places # {} => studio
    BY <2>1, Zenon DEF SessionTypes, WorkTypes, Housed
  <2>11. playing.jobs = {r \in OfPlay(playing.id) : run[r].told = "job"}
    BY <2>1 DEF Plays
  <2> QED BY <2>2, <2>3, <2>4, <2>5, <2>6, <2>7, <2>8, <2>9, <2>10, <2>11, <2>12, Zenon DEF TypeOK
<1> QED BY <1>1, <1>2, <1>3, DeckKeeps, PTL DEF Spec
=============================================================================
