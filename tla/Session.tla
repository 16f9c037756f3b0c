------------------------------ MODULE Session ------------------------------
(***************************************************************************)
(* Run, Stop and an engine made again, between the page (WorkerSession),   *)
(* the worker with the runtime's scheduler, and the audio engine.  The     *)
(* page posts to the worker and hears from it in order; the worker sends   *)
(* into the engine's ring, by way of a line where sounds wait for what     *)
(* they need loaded (LiveCore); a Stop is a chain of steps on both, and    *)
(* what is pressed meanwhile follows it (#stopping).                       *)
(***************************************************************************)
EXTENDS Naturals, Sequences, SequencesExt

CONSTANTS Runs,
          Slow,       \* runs whose tables and synths are fetched first
          Noisy,      \* runs that make sounds
          MaxPresses, \* bound: Stops, by hand or by an engine made again
          MaxReloads, \* bound: how often the engine is made again
          Hasty       \* whether a Run may be pressed, or wait to start, meanwhile

ASSUME SessionAssumption == /\ Slow \cup Noisy \subseteq Runs /\ Hasty \in BOOLEAN
                            /\ MaxPresses \in Nat /\ MaxReloads \in Nat

VARIABLES
  run,       \* [Runs -> [told: whether the page has its job, at: Stops pressed before it]]
  chain,     \* #stopping: Stops and losses under way, and Runs that wait for them
  step,      \* where the first of the chain is
  presses,   \* Stops pressed
  gen,       \* #engineGen
  inbox,     \* what the page has posted to the worker
  mail,      \* what the worker has posted to the page
  preparing, \* runs that wait to start, for their fetches or another's gate
  live,      \* runs with something going, in the runtime
  studio,    \* @studio: the runtime has made the engine's groups
  epoch,     \* @epoch: how many there were before
  places,    \* @jobs: runs with a group in the epoch's
  line,      \* #queue: what waits for a load, or behind what does
  waiting,   \* the gate's wait: what the line holds goes together
  holding,   \* the run that has started, whose answer waits for the gate
  answering, \* those that were held so as a Stop came
  dropped,   \* history: the fades, and the studio, that a Stop dropped from the line
  ring,      \* what the worker and the page have sent to the engine
  engine     \* what it has: the studio, the runs' groups, what is due and heard
             \* in them, the epochs in DYING, whether it is to be freed, and
             \* (history) the Stops pressed when it was made

pageVars == <<run, chain, step, presses, gen>>
runtimeVars == <<preparing, live, studio, epoch, places>>
coreVars == <<line, waiting, holding, answering, dropped>>
workerVars == <<runtimeVars, coreVars>>
sessionVars == <<pageVars, inbox, mail, workerVars, ring, engine>>

NewEngine == [up |-> TRUE, studio |-> FALSE, groups |-> {}, due |-> {}, heard |-> {},
              dying |-> {}, freeing |-> FALSE, since |-> 0]

SessionInit ==
  /\ run = [r \in Runs |-> [told |-> "unpressed", at |-> 0]]
  /\ chain = <<>> /\ step = "rest" /\ presses = 0 /\ gen = 0
  /\ inbox = <<>> /\ mail = <<>>
  /\ preparing = {} /\ live = {} /\ studio = FALSE /\ epoch = 0 /\ places = {}
  /\ line = <<>> /\ waiting = FALSE /\ holding = {} /\ answering = {} /\ dropped = {}
  /\ ring = <<>> /\ engine = NewEngine

-----------------------------------------------------------------------------
(* The page                                                                 *)

IsRun(item) == item[1] = "run"
Call(item) == <<item[1]>>
Lead(c) == CHOOSE n \in 0..Len(c) : /\ \A m \in 1..n : IsRun(c[m])
                                    /\ n = Len(c) \/ ~IsRun(c[n + 1])

(* The chain comes to c, these being posted: its first Runs are, then the   *)
(* first step of the next Stop or loss.                                     *)
Comes(c, posted) ==
  LET n == Lead(c)
      rest == SubSeq(c, n + 1, Len(c))
  IN /\ chain' = rest
     /\ step' = IF rest = <<>> THEN "rest" ELSE "called"
     /\ inbox' = inbox \o posted \o SubSeq(c, 1, n)
                       \o (IF rest = <<>> THEN <<>> ELSE <<Call(Head(rest))>>)

(* a promise continuation: at once when nothing is under way                *)
Follow(items, posted) ==
  IF chain = <<>> THEN Comes(items, posted)
  ELSE chain' = chain \o items /\ inbox' = inbox \o posted /\ UNCHANGED step

(* Mutant: a Run does not wait for the Stop before it.                      *)
PressRunAtOnce(r, posted) ==
  /\ run[r].told = "unpressed" /\ (engine.up \/ Hasty)
  /\ run' = [run EXCEPT ![r] = [told |-> "called", at |-> presses]]
  /\ inbox' = inbox \o posted \o <<<<"run", r>>>>
  /\ UNCHANGED <<chain, step, presses, gen, mail, workerVars, ring, engine>>

(* run                                                                      *)
PressRun(r, posted) ==
  /\ run[r].told = "unpressed" /\ (engine.up \/ Hasty)
  /\ run' = [run EXCEPT ![r] = [told |-> "called", at |-> presses]]
  /\ Follow(<<<<"run", r>>>>, posted)
  /\ UNCHANGED <<presses, gen, mail, workerVars, ring, engine>>

(* stop                                                                     *)
PressStop ==
  /\ presses < MaxPresses
  /\ presses' = presses + 1
  /\ Follow(<<<<"stop", presses + 1, gen>>>>, <<>>)
  /\ UNCHANGED <<run, gen, mail, workerVars, ring, engine>>

(* audioReloading: a Stop, then engineLost; what was in the engine is gone  *)
ReloadStarts ==
  /\ engine.up /\ gen < MaxReloads /\ presses < MaxPresses
  /\ Hasty \/ \A r \in Runs : run[r].told = "called" => r \in holding \cup answering
  /\ engine' = [NewEngine EXCEPT !.up = FALSE, !.since = presses + 1]
  /\ presses' = presses + 1
  /\ gen' = gen + 1
  /\ Follow(<<<<"stop", presses + 1, gen>>, <<"lost">>>>, <<>>)
  /\ UNCHANGED <<run, mail, workerVars, ring>>

(* the worker's answers, in order: to a Run (which posts these) ...         *)
HearAnswer(r, posted) ==
  /\ mail # <<>> /\ Head(mail) \in {<<"job", r>>, <<"refused", r>>}
  /\ mail' = Tail(mail)
  /\ run' = [run EXCEPT ![r].told = Head(mail)[1]]
  /\ inbox' = inbox \o posted
  /\ UNCHANGED <<chain, step, presses, gen, workerVars, ring, engine>>

(* ... and to a step of the chain                                           *)
HearReply ==
  /\ mail # <<>> /\ Head(mail) = <<"reply">>
  /\ mail' = Tail(mail)
  /\ IF chain[1][1] = "stop" /\ step = "called"
       THEN /\ step' = "settle"
            /\ ring' = Append(ring, <<"sync", chain[1][2]>>)
            /\ UNCHANGED <<chain, inbox>>
       ELSE Comes(Tail(chain), <<>>) /\ UNCHANGED ring
  /\ UNCHANGED <<run, presses, gen, workerVars, engine>>

(* settle: an engine being made again does not answer                       *)
SettleTimesOut ==
  /\ step = "settle" /\ ~engine.up
  /\ step' = "purge"
  /\ UNCHANGED <<run, chain, presses, gen, inbox, mail, workerVars, ring, engine>>

(* Mutant: a Stop of an engine since made again ends the chain.             *)
PurgeAndRest ==
  /\ step = "purge"
  /\ IF engine.up THEN ring' = <<>> /\ engine' = [engine EXCEPT !.due = {}, !.freeing = FALSE]
                  ELSE UNCHANGED <<ring, engine>>
  /\ chain[1][3] = gen
  /\ step' = "silence" /\ inbox' = Append(inbox, <<"silence">>)
  /\ UNCHANGED <<run, chain, presses, gen, mail, workerVars>>

(* purge: schedule and ring are emptied; silence, if it is the same engine  *)
Purge ==
  /\ step = "purge"
  /\ IF engine.up THEN ring' = <<>> /\ engine' = [engine EXCEPT !.due = {}, !.freeing = FALSE]
                  ELSE UNCHANGED <<ring, engine>>
  /\ IF chain[1][3] = gen
       THEN step' = "silence" /\ inbox' = Append(inbox, <<"silence">>) /\ UNCHANGED chain
       ELSE Comes(Tail(chain), <<>>)
  /\ UNCHANGED <<run, presses, gen, mail, workerVars>>

-----------------------------------------------------------------------------
(* The worker: messages in order, what a run waits for apart                *)

Post(ms) == mail' = mail \o ms

(* A sound brings what the runtime thinks the engine lacks for it: they are *)
(* held as one, or sent as one.                                             *)
SoundOf(r) ==
  <<"sound", r, epoch, (IF studio THEN {} ELSE {"studio"})
                       \cup (IF places = {} THEN {"epoch"} ELSE {})
                       \cup (IF r \in places THEN {} ELSE {"place"})>>
Sounding(r) == studio' = TRUE /\ places' = places \cup {r} /\ UNCHANGED epoch

(* #drain: ready, with nothing before it, or held.  Whether a run has       *)
(* opened a gate whose window has not passed is left open.  It holds all of *)
(* a run's first sound; outside its window the groups go ahead.             *)
Send(m) == line = <<>> /\ ring' = Append(ring, m) /\ UNCHANGED <<line, waiting>>
Hold(m) ==
  /\ line' = Append(line, m)
  /\ \/ waiting' = TRUE
     \/ waiting' = FALSE /\ (line # <<>> \/ m[4] = {})
  /\ UNCHANGED ring

(* the run's head has run: it goes on, has ended, or raised                 *)
StartsAtOnce(r) ==
  /\ \/ live' = live \cup {r} /\ Post(<<<<"table", live'>>, <<"job", r>>>>)
     \/ live' = live /\ Post(<<<<"job", r>>>>)
     \/ live' = live /\ Post(<<<<"refused", r>>>>)
  /\ UNCHANGED <<studio, epoch, places, coreVars, ring>>

(* ... or made a sound that a gate holds, and with it the clock and the     *)
(* answer                                                                   *)
StartsHeld(r) ==
  /\ r \in Noisy
  /\ Hold(SoundOf(r)) /\ waiting' /\ Sounding(r)
  /\ live' = live \cup {r} /\ holding' = {r}
  /\ UNCHANGED <<mail, answering, dropped>>

(* Mutant: the table is posted after the job.                               *)
StartsLate(r) ==
  \/ StartsHeld(r)
  \/ /\ \/ live' = live \cup {r} /\ Post(<<<<"job", r>>, <<"table", live'>>>>)
        \/ live' = live /\ Post(<<<<"job", r>>>>)
        \/ live' = live /\ Post(<<<<"refused", r>>>>)
     /\ UNCHANGED <<studio, epoch, places, coreVars, ring>>

Starts(r) == StartsAtOnce(r) \/ StartsHeld(r)

(* a run pressed during another's wait joins its start                      *)
HandleRun(r) ==
  IF r \in Slow \/ waiting
    THEN /\ preparing' = preparing \cup {r}
         /\ UNCHANGED <<mail, live, studio, epoch, places, coreVars, ring>>
    ELSE Starts(r) /\ UNCHANGED preparing

(* stop: stop_all, nothing is sent, and what the line held never goes; a    *)
(* run held with it is answered when its loads have ended                   *)
HandleStop ==
  /\ live' = {}
  /\ line' = <<>> /\ waiting' = FALSE
  /\ holding' = {} /\ answering' = answering \cup holding
  /\ dropped' = dropped \cup {m \in ToSet(line) : m[1] = "fade"}
                        \cup {<<"studio">> : m \in {x \in ToSet(line) : x[1] = "sound" /\ "studio" \in x[4]}}
  /\ Post(<<<<"table", {}>>, <<"reply">>>>)
  /\ UNCHANGED <<preparing, studio, epoch, places, ring>>

(* Mutants: an epoch with nothing running in it needs no fade; DYING is     *)
(* freed only when there is an epoch to go into it.                         *)
HandleSilenceIdle ==
  /\ IF studio
       THEN /\ IF live = {} THEN UNCHANGED <<line, ring>>
               ELSE IF line = <<>> THEN ring' = Append(ring, <<"fade", epoch>>) /\ UNCHANGED line
               ELSE line' = Append(line, <<"fade", epoch>>) /\ UNCHANGED ring
            /\ places' = {} /\ epoch' = epoch + 1
       ELSE UNCHANGED <<line, ring, places, epoch>>
  /\ Post(<<<<"reply">>>>)
  /\ UNCHANGED <<preparing, live, studio, waiting, holding, answering, dropped>>
HandleSilenceOnce ==
  /\ IF studio
       THEN /\ IF places = {} THEN UNCHANGED <<line, ring>>
               ELSE IF line = <<>> THEN ring' = Append(ring, <<"fade", epoch>>) /\ UNCHANGED line
               ELSE line' = Append(line, <<"fade", epoch>>) /\ UNCHANGED ring
            /\ places' = {} /\ epoch' = epoch + 1
       ELSE UNCHANGED <<line, ring, places, epoch>>
  /\ Post(<<<<"reply">>>>)
  /\ UNCHANGED <<preparing, live, studio, waiting, holding, answering, dropped>>

(* silence: the epoch goes into DYING, which is freed as the fade ends; the *)
(* word of it follows what the line holds                                   *)
HandleSilence ==
  /\ IF studio
       THEN /\ IF line = <<>> THEN ring' = Append(ring, <<"fade", epoch>>) /\ UNCHANGED line
                              ELSE line' = Append(line, <<"fade", epoch>>) /\ UNCHANGED ring
            /\ places' = {} /\ epoch' = epoch + 1
       ELSE UNCHANGED <<line, ring, places, epoch>>
  /\ Post(<<<<"reply">>>>)
  /\ UNCHANGED <<preparing, live, studio, waiting, holding, answering, dropped>>

(* Mutant: the runs' places are kept.                                       *)
HandleLostKeeps ==
  /\ studio' = FALSE /\ epoch' = epoch + 1 /\ dropped' = {}
  /\ Post(<<<<"reply">>>>)
  /\ UNCHANGED <<preparing, live, places, line, waiting, holding, answering, ring>>

(* engine_lost                                                              *)
HandleLost ==
  /\ studio' = FALSE /\ places' = {} /\ epoch' = epoch + 1 /\ dropped' = {}
  /\ Post(<<<<"reply">>>>)
  /\ UNCHANGED <<preparing, live, line, waiting, holding, answering, ring>>

(* stop_run: its threads now; its sounds end                                *)
HandleStopRun(r) ==
  /\ live' = live \ {r}
  /\ Post(<<<<"table", live'>>>>)
  /\ UNCHANGED <<preparing, studio, epoch, places, coreVars, ring>>

Handle ==
  /\ inbox # <<>>
  /\ inbox' = Tail(inbox)
  /\ LET m == Head(inbox) IN
     \/ m[1] = "run" /\ HandleRun(m[2])
     \/ m[1] = "stop" /\ HandleStop
     \/ m[1] = "silence" /\ HandleSilence
     \/ m[1] = "lost" /\ HandleLost
     \/ m[1] = "stopRun" /\ HandleStopRun(m[2])
  /\ UNCHANGED <<pageVars, engine>>

(* what the run waited for is there: its fetches, or the gate's release     *)
Fetched(r) ==
  /\ r \in preparing /\ ~waiting
  /\ preparing' = preparing \ {r}
  /\ Starts(r)
  /\ UNCHANGED <<pageVars, inbox, engine>>

(* a tick of a run's                                                        *)
Sound(r) ==
  /\ r \in live \cap Noisy /\ ~waiting
  /\ \A m \in ToSet(ring \o line) : m[1] = "sound" => m[2] # r
  /\ Send(SoundOf(r)) \/ Hold(SoundOf(r))
  /\ Sounding(r)
  /\ UNCHANGED <<pageVars, inbox, mail, preparing, live, holding, answering, dropped, engine>>

(* a tick that ends a run                                                   *)
Ends(r) ==
  /\ r \in live /\ ~waiting
  /\ live' = live \ {r}
  /\ Post(<<<<"table", live'>>>>)
  /\ UNCHANGED <<pageVars, inbox, preparing, studio, epoch, places, coreVars, ring, engine>>

(* #pump: what the first in the line needs has loaded                       *)
Pump ==
  /\ line # <<>> /\ ~waiting
  /\ ring' = Append(ring, Head(line))
  /\ line' = Tail(line)
  /\ UNCHANGED <<pageVars, inbox, mail, runtimeVars, waiting, holding, answering, dropped, engine>>

(* the gate's release: all of it has, and the run that it held is answered  *)
Release ==
  /\ waiting
  /\ ring' = ring \o line
  /\ line' = <<>> /\ waiting' = FALSE /\ holding' = {}
  /\ \/ holding = {} /\ Post(<<>>)
     \/ \E r \in holding : Post(<<<<"table", live>>, <<"job", r>>>>)
  /\ UNCHANGED <<pageVars, inbox, runtimeVars, answering, dropped, engine>>

(* a run that a gate held as a Stop came                                    *)
Answer(r) ==
  /\ r \in answering
  /\ answering' = answering \ {r}
  /\ Post(<<<<"job", r>>>>)
  /\ UNCHANGED <<pageVars, inbox, runtimeVars, line, waiting, holding, dropped, ring, engine>>

-----------------------------------------------------------------------------
(* The engine: it takes the ring in order, refusing a sound with no group   *)

TakeSound(r, e, with) ==
  LET made == engine.studio \/ "studio" \in with
      begun == made /\ ("epoch" \in with \/ \E s \in engine.groups : s[2] = e)
      placed == begun /\ ("place" \in with \/ <<r, e>> \in engine.groups)
      now == IF placed THEN {<<r, e>>} ELSE {}
  IN [engine EXCEPT !.studio = made, !.groups = @ \cup now, !.due = @ \cup now]

TakeFade(e) ==
  IF engine.studio THEN [engine EXCEPT !.dying = @ \cup {e}, !.freeing = TRUE] ELSE engine

Take ==
  LET m == Head(ring)
  IN /\ engine.up /\ ring # <<>>
     /\ ring' = Tail(ring)
     /\ \/ /\ m[1] = "sync" /\ UNCHANGED engine
           /\ step' = IF step = "settle" /\ m[2] = chain[1][2] THEN "purge" ELSE step
        \/ m[1] = "fade" /\ engine' = TakeFade(m[2]) /\ UNCHANGED step
        \/ m[1] = "sound" /\ engine' = TakeSound(m[2], m[3], m[4]) /\ UNCHANGED step
     /\ UNCHANGED <<run, chain, presses, gen, inbox, mail, workerVars>>

Heard(s) ==
  /\ s \in engine.due
  /\ engine' = [engine EXCEPT !.due = @ \ {s}, !.heard = @ \cup {s}]
  /\ UNCHANGED <<pageVars, inbox, mail, workerVars, ring>>

Quiet(s) ==
  /\ s \in engine.heard
  /\ engine' = [engine EXCEPT !.heard = @ \ {s}]
  /\ UNCHANGED <<pageVars, inbox, mail, workerVars, ring>>

(* the free of DYING is due                                                 *)
FadeEnds ==
  LET stay(S) == {s \in S : s[2] \notin engine.dying}
  IN /\ engine.freeing
     /\ engine' = [engine EXCEPT !.heard = stay(@), !.due = stay(@), !.groups = stay(@),
                                 !.dying = {}, !.freeing = FALSE]
     /\ UNCHANGED <<pageVars, inbox, mail, workerVars, ring>>

(* the engine is made again; what was sent meanwhile is still in the ring   *)
ReloadEnds ==
  /\ ~engine.up
  /\ engine' = [engine EXCEPT !.up = TRUE]
  /\ UNCHANGED <<pageVars, inbox, mail, workerVars, ring>>

-----------------------------------------------------------------------------
(* What is held of a run, on its way to the engine, or scheduled in it      *)
Pending == {m[2] : m \in {x \in ToSet(ring \o line) : x[1] = "sound"}} \cup {s[1] : s \in engine.due}

StopSince(r) == \E l \in ToSet(chain) : l[1] = "stop" /\ l[2] > run[r].at

(* The sounds of a run pressed since the last Stop are heard: neither the   *)
(* queue that a Stop empties, nor its purge, nor an engine without its      *)
(* groups takes them.  Of a run pressed before it, that starts after, they  *)
(* may; and all may be lost from when a Stop empties the queue with the     *)
(* studio in it, which the runtime takes for made.                          *)
HeardUnlessStopped ==
  [][\A r \in Runs : (r \in Pending /\ r \notin Pending' /\ run[r].at = presses)
        => (\E s \in engine'.heard : s[1] = r) \/ presses' > presses \/ <<"studio">> \in dropped]_sessionVars

(* What sounds can be stopped: with no Stop under way, all that the engine  *)
(* plays of runs pressed since it was made is in the runtime's epoch, or in *)
(* DYING on its way out; except what a Stop was to fade whose word was      *)
(* still in the queue when the next one emptied it.                         *)
SoundsAreKnown ==
  (chain = <<>> /\ engine.up) =>
    \A s \in engine.due \cup engine.heard : run[s[1]].at >= engine.since =>
      \/ s[2] = epoch /\ s[1] \in places
      \/ s[2] \in engine.dying
      \/ <<"fade", s[2]>> \in ToSet(ring \o line) \cup dropped

(* What a Stop fades is freed in the end, though the next Stop's purge took *)
(* the free of the one before out of the schedule.                          *)
FadesEnd == engine.dying # {} ~> engine.dying = {}

(* A Run pressed is answered in the end, whatever Stops, losses and gates   *)
(* it waits for.                                                            *)
RunsAreAnswered == \A r \in Runs : run[r].told = "called" ~> run[r].told \in {"job", "refused"}
=============================================================================
