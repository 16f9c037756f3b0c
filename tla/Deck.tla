-------------------------------- MODULE Deck --------------------------------
(***************************************************************************)
(* A deck of cards over a session: one card plays at a time, and is its    *)
(* runs.  The deck knows a run by the worker's answer and what is live by  *)
(* the tables the worker posts.                                            *)
(***************************************************************************)
EXTENDS Session

CONSTANTS Cards, NoCard

VARIABLES playing,  \* the play: [id, card, jobs, starting], or Rest
          plays,    \* how many there were
          playOf,   \* [Runs -> the play it was pressed for, 0 for the editor's]
          table,    \* the runs live by the last table
          halted    \* history: the runs whose card was stopped, or another played

deckVars == <<playing, plays, playOf, table, halted>>
vars == <<sessionVars, deckVars>>

Rest == [id |-> 0, card |-> NoCard, jobs |-> {}, starting |-> 0]

Init ==
  /\ SessionInit
  /\ playing = Rest /\ plays = 0
  /\ playOf = [r \in Runs |-> 0]
  /\ table = {} /\ halted = {}

StopRuns(S) == SetToSeq({<<"stopRun", r>> : r \in S})
OfPlay(i) == {r \in Runs : i # 0 /\ playOf[r] = i}

(* a card's Play                                                            *)
Play(c, r) ==
  LET other == playing.id # 0 /\ playing.card # c
      g == IF playing.id = 0 \/ other
             THEN [id |-> plays + 1, card |-> c, jobs |-> {}, starting |-> 0] ELSE playing
  IN /\ PressRun(r, StopRuns(IF other THEN playing.jobs ELSE {}))
     /\ playing' = [g EXCEPT !.starting = @ + 1]
     /\ plays' = IF g.id > plays THEN g.id ELSE plays
     /\ playOf' = [playOf EXCEPT ![r] = g.id]
     /\ halted' = halted \cup (IF other THEN OfPlay(playing.id) ELSE {})
     /\ UNCHANGED table

(* the editor's Run: no card's                                              *)
Run(r) == PressRun(r, <<>>) /\ UNCHANGED deckVars

(* a card's Stop                                                            *)
StopCard ==
  /\ playing.id # 0
  /\ inbox' = inbox \o StopRuns(playing.jobs)
  /\ playing' = Rest
  /\ halted' = halted \cup OfPlay(playing.id)
  /\ UNCHANGED <<pageVars, mail, workerVars, ring, engine, plays, playOf, table>>

(* Mutant: a run that starts is not asked about.                            *)
NowHasty(S) == IF playing.jobs \cap S = {} THEN Rest ELSE playing

(* runs: a card none of whose runs is live has finished                     *)
Now(S) == IF playing.starting = 0 /\ playing.jobs \cap S = {} THEN Rest ELSE playing

(* Mutant: a run that did not start is still counted as starting.           *)
AnsweredStarting(r) ==
  LET mine == playOf[r] # 0 /\ playOf[r] = playing.id
      job == mail # <<>> /\ Head(mail)[1] = "job"
  IN /\ HearAnswer(r, IF job /\ playOf[r] # 0 /\ ~mine THEN StopRuns({r}) ELSE <<>>)
     /\ playing' = IF mine /\ job THEN [playing EXCEPT !.starting = @ - 1, !.jobs = @ \cup {r}]
                   ELSE playing
     /\ UNCHANGED <<plays, playOf, table, halted>>

(* the worker's answer to a run: the rest of play                           *)
Answered(r) ==
  LET mine == playOf[r] # 0 /\ playOf[r] = playing.id
      job == mail # <<>> /\ Head(mail)[1] = "job"
  IN /\ HearAnswer(r, IF job /\ playOf[r] # 0 /\ ~mine THEN StopRuns({r}) ELSE <<>>)
     /\ playing' = IF ~mine THEN playing
                   ELSE IF job THEN [playing EXCEPT !.starting = @ - 1, !.jobs = @ \cup {r}]
                   ELSE IF playing.jobs = {} THEN Rest
                   ELSE [playing EXCEPT !.starting = @ - 1]
     /\ UNCHANGED <<plays, playOf, table, halted>>

(* a batch's table, and the page's own look at it every half second         *)
HearTable ==
  /\ mail # <<>> /\ Head(mail)[1] = "table"
  /\ mail' = Tail(mail)
  /\ table' = Head(mail)[2]
  /\ playing' = Now(table')
  /\ UNCHANGED <<pageVars, inbox, workerVars, ring, engine, plays, playOf, halted>>

Refresh ==
  /\ playing' = Now(table)
  /\ UNCHANGED <<sessionVars, plays, playOf, table, halted>>

(* the page's Stop, and an engine made again                                *)
Stop ==
  /\ PressStop \/ ReloadStarts
  /\ playing' = Now({})
  /\ UNCHANGED <<plays, playOf, table, halted>>

Others ==
  /\ \/ HearReply \/ SettleTimesOut \/ Purge \/ Handle
     \/ \E r \in Runs : Fetched(r) \/ Sound(r) \/ Ends(r) \/ Answer(r)
     \/ Pump \/ Release
     \/ Take \/ FadeEnds \/ ReloadEnds
     \/ \E s \in engine.due : Heard(s)
     \/ \E s \in engine.heard : Quiet(s)
  /\ UNCHANGED deckVars

Next ==
  \/ \E r \in Runs : Run(r) \/ Answered(r) \/ \E c \in Cards : Play(c, r)
  \/ StopCard \/ HearTable \/ Refresh \/ Stop \/ Others

(* messages, fetches, loads and promises are served, the engine runs and is *)
(* made again in the end; nothing makes anyone press anything.  A gate may  *)
(* wait again before a run that joined it goes on, but what programs name   *)
(* to load is finite: in the end the run starts.                            *)
Fairness ==
  /\ WF_vars(HearReply /\ UNCHANGED deckVars)
  /\ WF_vars(SettleTimesOut /\ UNCHANGED deckVars)
  /\ WF_vars(Purge /\ UNCHANGED deckVars)
  /\ WF_vars(Handle /\ UNCHANGED deckVars)
  /\ WF_vars(Take /\ UNCHANGED deckVars)
  /\ WF_vars(FadeEnds /\ UNCHANGED deckVars)
  /\ WF_vars(ReloadEnds /\ UNCHANGED deckVars)
  /\ WF_vars(HearTable \/ \E r \in Runs : Answered(r))
  /\ WF_vars(Refresh)
  /\ WF_vars(Pump /\ UNCHANGED deckVars)
  /\ WF_vars(Release /\ UNCHANGED deckVars)
  /\ \A r \in Runs : /\ SF_vars(Fetched(r) /\ UNCHANGED deckVars)
                     /\ WF_vars(Answer(r) /\ UNCHANGED deckVars)

Spec == Init /\ [][Next]_vars /\ Fairness

-----------------------------------------------------------------------------
TypeOK ==
  /\ run \in [Runs -> [told : {"unpressed", "called", "job", "refused"}, at : 0..MaxPresses]]
  /\ \A l \in ToSet(chain) : l[1] \in {"run", "stop", "lost"}
  /\ step \in {"rest", "called", "settle", "purge", "silence"}
  /\ step = "rest" <=> chain = <<>>
  /\ presses \in 0..MaxPresses /\ gen \in 0..MaxReloads
  /\ preparing \cup live \cup places \cup answering \subseteq Runs /\ studio \in BOOLEAN
  /\ waiting => line # <<>>
  /\ IF waiting THEN holding \subseteq Runs ELSE holding = {}
  /\ places # {} => studio
  /\ engine.due \cup engine.heard \subseteq engine.groups
  /\ engine.groups \subseteq Runs \X (0..epoch)
  /\ playing.card \in Cards \cup {NoCard}
  /\ playing.starting = Cardinality({r \in OfPlay(playing.id) : run[r].told = "called"})
  /\ playing.jobs = {r \in OfPlay(playing.id) : run[r].told = "job"}

(* No run is left behind: a run of a card that the page knows and that      *)
(* still goes is a run of the card that plays, or its stop is on its way.   *)
NoRunIsOrphaned ==
  \A r \in live : (playOf[r] # 0 /\ run[r].told = "job") =>
    \/ r \in playing.jobs
    \/ <<"stopRun", r>> \in ToSet(inbox)
    \/ StopSince(r)

(* A card's run is stopped only for its card stopped or another played      *)
(* since, or for another run of the same play that did not start.           *)
StoppedOnlyIfAsked ==
  \A r \in Runs : <<"stopRun", r>> \in ToSet(inbox) =>
    r \in halted \/ \E x \in OfPlay(playOf[r]) : run[x].told = "refused"

(* A card whose runs have all ended, whoever else plays on, stops being     *)
(* shown as playing, unless it is played again.                             *)
Over(i) == \A r \in OfPlay(i) : run[r].told # "called" /\ r \notin live
CardsRest == \A i \in 1..Cardinality(Runs) : (playing.id = i /\ Over(i)) ~> (playing.id # i \/ ~Over(i))
=============================================================================
