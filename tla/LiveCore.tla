------------------------------ MODULE LiveCore ------------------------------
(***************************************************************************)
(* A live session of the web app (LiveCore, in the runtime's worker): runs *)
(* start, ticks make sounds, sounds wait in a line for their loads, a run  *)
(* from rest waits at a gate for all of its first loads, Stop ends it all. *)
(* One action is one turn of the worker's event loop: a message or a timer *)
(* with every promise continuation it settles.                             *)
(***************************************************************************)
EXTENDS Loader, Functions

CONSTANTS Runs,
          Names,      \* [Runs -> things a program's code names: its preload]
          Outboxes,   \* what one call of the runtime may make: needs of each sound
          MaxSounds,  \* bound: sounds made
          MaxStops,   \* bound: Stops
          Impatient   \* whether programs replace and free what is still loading

ASSUME LiveAssumption == /\ Names \in [Runs -> SUBSET Things]
                         /\ Outboxes \subseteq Seq(SUBSET Things)
                         /\ MaxStops \in Nat /\ MaxSounds \in Nat
                         /\ Impatient \in BOOLEAN

VARIABLES line,     \* the sounds: see LineTypeOK
          running,  \* a tick is scheduled
          stops,    \* #stops
          runs      \* [Runs -> [phase, heard, started]]: the Stops before it was heard, started

liveVars == <<line, running, stops, runs>>
vars == <<loaderVars, liveVars>>

Epochs == 0..MaxStops
Sounds == 1..MaxSounds
NoPump == [on |-> {}, since |-> MaxStops + 1]
NoWait == [busy |-> FALSE, held |-> {}]

LineTypeOK ==
  /\ line.queue \in Seq(Sounds)                          \* #queue
  /\ line.needs \in Seq(SUBSET Things)                   \* of every sound made
  /\ line.fate \in [DOMAIN line.needs -> {"held", "sent", "failed", "stopped"}]
  /\ line.gate \in {"none", "open", "waiting"}           \* #gate
  /\ line.pump.on \subseteq Made                         \* what #pump awaits,
  /\ line.pump.since \in 0..(MaxStops + 1)               \* and the #stops it began at
  /\ line.failed \subseteq Sounds                        \* q.failed
  /\ \A e \in Epochs :                                   \* the #wait begun at #stops = e
       /\ line.wait[e].busy \in BOOLEAN
       /\ line.wait[e].held \subseteq [sound : Sounds, on : SUBSET Made]

TypeOK ==
  /\ LoaderTypeOK /\ LineTypeOK
  /\ running \in BOOLEAN /\ stops \in Epochs
  /\ runs \in [Runs -> [phase : {"unpressed", "fetching", "joining", "started", "failed"},
                        heard : Epochs, at : Epochs]]

Init ==
  /\ LoaderInit
  /\ line = [queue |-> <<>>, needs |-> <<>>, fate |-> <<>>, gate |-> "none", pump |-> NoPump,
             failed |-> {}, wait |-> [e \in Epochs |-> NoWait]]
  /\ running = FALSE /\ stops = 0
  /\ runs = [r \in Runs |-> [phase |-> "unpressed", heard |-> 0, at |-> 0]]

-----------------------------------------------------------------------------
(* The line                                                                 *)

Ready(l, a, i) == IsReady(a, l.needs[i])
Readies(l, a) == {i \in ToSet(l.queue) : Ready(l, a, i)}
Loaded(l, a) == {i \in ToSet(l.queue) : Settled(a, Awaits(a, l.needs[i]))}   \* or failed

(* the first n of the queue leave it: the ready are sent, the rest dropped  *)
Leave(l, a, n) ==
  LET gone == ToSet(SubSeq(l.queue, 1, n))
  IN [l EXCEPT !.queue = SubSeq(@, n + 1, Len(@)),
               !.fate = [i \in DOMAIN @ |-> IF i \notin gone THEN @[i]
                                            ELSE IF Ready(l, a, i) /\ i \notin l.failed
                                            THEN "sent" ELSE "failed"]]

(* the head of the queue goes, or is dropped                                *)
Shift(l, ok) ==
  [l EXCEPT !.queue = Tail(@), !.fate[Head(l.queue)] = IF ok THEN "sent" ELSE "failed"]

(* how many of the queue are in S, up to the first that is not              *)
Leading(l, S) ==
  CHOOSE n \in 0..Len(l.queue) :
    /\ \A m \in 1..n : l.queue[m] \in S
    /\ n = Len(l.queue) \/ l.queue[n + 1] \notin S

(* Mutant: it does not ask for the gate.                                    *)
PumpThrough(l, a) ==
  LET on == Leave(l, a, Leading(l, Loaded(l, a)))
  IN IF l.pump # NoPump THEN l
     ELSE IF on.queue = <<>> THEN on
     ELSE [on EXCEPT !.pump = [on |-> Awaits(a, l.needs[Head(on.queue)]), since |-> stops]]

(* #pump: the queue in order, up to a sound whose loads are under way       *)
Pump(l, a) ==
  LET on == Leave(l, a, Leading(l, Loaded(l, a)))
  IN IF l.gate = "waiting" \/ l.pump # NoPump THEN l
     ELSE IF on.queue = <<>> THEN on
     ELSE [on EXCEPT !.pump = [on |-> Awaits(a, l.needs[Head(on.queue)]), since |-> stops]]

(* Mutants: a Stop since is not noticed; it is, and the pump is not begun   *)
(* again for what was held after it.                                        *)
ResumeAnyway(l, a) ==
  LET idle == [l EXCEPT !.pump = NoPump]
  IN IF l.pump = NoPump \/ ~Settled(a, l.pump.on) THEN l
     ELSE IF l.gate = "waiting" \/ l.queue = <<>> THEN idle
     ELSE Pump(Shift(idle, \A p \in l.pump.on : a[p[1]][p[2]] = "ok"), a)
ResumeOnce(l, a) ==
  LET idle == [l EXCEPT !.pump = NoPump]
  IN IF l.pump = NoPump \/ ~Settled(a, l.pump.on) THEN l
     ELSE IF l.pump.since # stops \/ l.gate = "waiting" \/ l.queue = <<>> THEN idle
     ELSE Pump(Shift(idle, \A p \in l.pump.on : a[p[1]][p[2]] = "ok"), a)

(* what #pump awaited has come: the turn it takes                           *)
Resume(l, a) ==
  LET idle == [l EXCEPT !.pump = NoPump]
  IN IF l.pump = NoPump \/ ~Settled(a, l.pump.on) THEN l
     ELSE IF l.pump.since # stops THEN Pump(idle, a)
     ELSE IF l.gate = "waiting" THEN idle
     ELSE IF l.queue = <<>> THEN idle          \* there is no sound to send: it throws
     ELSE Pump(Shift(idle, \A p \in l.pump.on : a[p[1]][p[2]] = "ok"), a)

(* #wait's round: everything queued and not failed is awaited               *)
Round(l, a) ==
  [l EXCEPT !.gate = "waiting",
            !.wait[stops] = [busy |-> TRUE,
                             held |-> {[sound |-> i, on |-> Awaits(a, l.needs[i])] :
                                         i \in ToSet(l.queue) \ l.failed}]]

(* Mutant: the new sounds that are ready go past those that wait.           *)
DrainPast(l, a, out) ==
  LET new == [n \in 1..Len(out) |-> Len(l.needs) + n]
      ready(i) == IsReady(a, out[i - Len(l.needs)])
  IN [l EXCEPT !.needs = @ \o out,
               !.fate = @ \o [n \in 1..Len(out) |-> IF ready(new[n]) THEN "sent" ELSE "held"],
               !.queue = @ \o SelectSeq(new, LAMBDA i : ~ready(i))]

(* #drain: sounds made, in the runtime's order, with these needs            *)
Drain(l, a, out) ==
  LET new == {Len(l.needs) + n : n \in 1..Len(out)}
      made == [l EXCEPT !.needs = @ \o out,
                        !.fate = @ \o [n \in 1..Len(out) |-> "held"],
                        !.queue = @ \o [n \in 1..Len(out) |-> Len(l.needs) + n]]
  IN IF out = <<>> THEN l
     ELSE IF l.gate = "open" /\ \E i \in new : ~Ready(made, a, i) THEN Round(made, a)
     ELSE IF l.queue # <<>> THEN Pump(made, a)
     ELSE Pump(Leave(made, a, Leading(made, Readies(made, a))), a)

Room(out) == Len(line.needs) + Len(out) <= MaxSounds
NeedsOf(out) == UNION ToSet(out)
Sound(out) == NeedsOf(out) \cap freed = {}   \* a freed buffer's number is never used again

-----------------------------------------------------------------------------
(* Runs and ticks                                                           *)

Begun == \E r \in Runs : runs[r].phase = "started" /\ runs[r].at = stops

(* a Run reaches the worker: its tables and its synths' metadata are fetched *)
RunArrives(r) ==
  /\ runs[r].phase = "unpressed"
  /\ runs' = [runs EXCEPT ![r] = [phase |-> "fetching", heard |-> stops, at |-> stops]]
  /\ UNCHANGED <<loaderVars, line, running, stops>>

FetchFails(r) ==
  /\ runs[r].phase = "fetching"
  /\ runs' = [runs EXCEPT ![r].phase = "failed"]
  /\ UNCHANGED <<loaderVars, line, running, stops>>

(* a run pressed during another's wait joins its start                      *)
Join(r) ==
  /\ runs[r].phase = "fetching"
  /\ line.gate = "waiting"
  /\ runs' = [runs EXCEPT ![r].phase = "joining", ![r].at = stops]
  /\ UNCHANGED <<loaderVars, line, running, stops>>

(* Mutant: it waits for the gate's window to pass as well.                  *)
MayStartAfter(r) == runs[r].phase \in {"fetching", "joining"} /\ line.gate = "none"

MayStart(r) ==
  /\ \/ runs[r].phase = "fetching"
     \/ runs[r].phase = "joining" /\ ~line.wait[runs[r].at].busy
  /\ line.gate # "waiting"

(* a gate opens at a run from rest                                          *)
Opened == [line EXCEPT !.gate = IF ~running /\ @ = "none" THEN "open" ELSE @]

(* run: the preload is asked for, the head runs, then a tick                *)
Start(r, head, out, more) ==
  LET X == Names[r] \cup NeedsOf(head) \cup NeedsOf(out)
      once == Drain(Opened, Asked(X), head)
  IN /\ MayStart(r)
     /\ Room(head \o out) /\ Sound(head \o out)
     /\ once.gate = "waiting" => out = <<>> /\ more
     /\ Ask(X)
     /\ line' = Drain(once, Asked(X), out)
     /\ running' = more
     /\ runs' = [runs EXCEPT ![r].phase = "started", ![r].at = stops]
     /\ UNCHANGED stops

(* the runtime makes no job of it: the gate it opened stays                 *)
StartFails(r) ==
  /\ MayStart(r)
  /\ Ask(Names[r])
  /\ line' = Opened
  /\ runs' = [runs EXCEPT ![r].phase = "failed"]
  /\ UNCHANGED <<running, stops>>

(* tick: what is due runs, and makes sounds; none while a gate waits        *)
Tick(out, more) ==
  /\ running /\ line.gate # "waiting"
  /\ Begun \/ (out = <<>> /\ ~more)
  /\ Room(out) /\ Sound(out)
  /\ Ask(NeedsOf(out))
  /\ line' = Drain(line, Asked(NeedsOf(out)), out)
  /\ running' = more
  /\ UNCHANGED <<stops, runs>>

(* ... or it loads a synthdef from a URL, or frees a sample                 *)
TickLoadsUrl(d, u) ==
  /\ running /\ line.gate # "waiting" /\ Begun
  /\ Impatient \/ d \notin unanswered
  /\ AskUrl(d, u)
  /\ UNCHANGED liveVars

TickFrees(b) ==
  /\ running /\ line.gate # "waiting" /\ Begun
  /\ Impatient \/ State(asks, b) # "pending"
  /\ Free(b)
  /\ UNCHANGED liveVars

(* cue: a tick at once, and ticking starts again                            *)
Cue(out, more) ==
  /\ ~running
  /\ Begun \/ (out = <<>> /\ (more => line.gate = "waiting"))
  /\ Room(out) /\ Sound(out)
  /\ line.gate = "waiting" => out = <<>> /\ more
  /\ Ask(NeedsOf(out))
  /\ line' = Drain(line, Asked(NeedsOf(out)), out)
  /\ running' = more
  /\ UNCHANGED <<stops, runs>>

(* stopJob, stopRun, stopGroup, silence: frees, which need nothing loaded   *)
Frees ==
  /\ Begun /\ Room(<<{}>>)
  /\ line' = Drain(line, asks, <<{}>>)
  /\ UNCHANGED <<loaderVars, running, stops, runs>>

(* stop: what is held never goes (its own frees do, past the line)          *)
Stop ==
  /\ stops < MaxStops
  /\ line' = [line EXCEPT !.queue = <<>>, !.gate = "none",
                          !.fate = [i \in DOMAIN @ |-> IF @[i] = "held" THEN "stopped" ELSE @[i]]]
  /\ running' = FALSE
  /\ stops' = stops + 1
  /\ UNCHANGED <<loaderVars, runs>>

-----------------------------------------------------------------------------
(* Loads and the gate                                                       *)

(* the page's answer to a load, and the pump that awaited it                *)
LoadEnds(l, said) ==
  /\ l \in loading
  /\ Answer(l, said)
  /\ line' = Resume(line, Answered(l, said))
  /\ UNCHANGED <<running, stops, runs>>

(* a schedule-ahead has passed since the gate opened                        *)
WindowPasses ==
  /\ line.gate = "open"
  /\ line' = [line EXCEPT !.gate = "none"]
  /\ UNCHANGED <<loaderVars, running, stops, runs>>

(* a round of the wait begun at #stops = e is over, and its settle          *)
GateSettles(e, out, more) ==
  LET round == line.wait[e].held
      ended == [line EXCEPT !.wait[e] = NoWait,
                            !.failed = @ \cup {h.sound : h \in {k \in round :
                                          \E p \in k.on : asks[p[1]][p[2]] = "failed"}}]
      loaded == \A i \in ToSet(ended.queue) : i \in ended.failed \/ Ready(ended, asks, i)
      released == [Leave(ended, asks, Len(ended.queue)) EXCEPT !.gate = "open"]
  IN /\ line.wait[e].busy
     /\ \A h \in round : Settled(asks, h.on)
     /\ Room(out) /\ Sound(out)
     /\ IF e # stops
          THEN line' = ended /\ out = <<>> /\ more = running /\ UNCHANGED loaderVars
        ELSE IF ~loaded
          THEN line' = Round(ended, asks) /\ out = <<>> /\ more = running /\ UNCHANGED loaderVars
        ELSE /\ Ask(NeedsOf(out))
             /\ line' = Drain(released, Asked(NeedsOf(out)), out)
     /\ running' = more
     /\ UNCHANGED <<stops, runs>>

Next ==
  \/ \E r \in Runs : RunArrives(r) \/ FetchFails(r) \/ Join(r) \/ StartFails(r)
  \/ \E r \in Runs, head, out \in Outboxes, more \in BOOLEAN : Start(r, head, out, more)
  \/ \E out \in Outboxes, more \in BOOLEAN : Tick(out, more) \/ Cue(out, more)
  \/ \E d \in Defs, u \in Urls : TickLoadsUrl(d, u)
  \/ \E b \in Bufs : TickFrees(b)
  \/ Frees \/ Stop \/ WindowPasses
  \/ \E l \in loading, said \in {"ok", "failed"} : LoadEnds(l, said)
  \/ \E e \in Epochs, out \in Outboxes, more \in BOOLEAN : GateSettles(e, out, more)

(* loads are answered in the end, a fetch resolving or rejecting; a message *)
(* or a timer is served in the end                                          *)
Fairness ==
  /\ WF_vars(\E l \in loading, said \in {"ok", "failed"} : LoadEnds(l, said))
  /\ WF_vars(\E e \in Epochs, out \in Outboxes, more \in BOOLEAN : GateSettles(e, out, more))
  /\ \A r \in Runs :
       WF_vars(\/ FetchFails(r) \/ Join(r) \/ StartFails(r)
               \/ \E head, out \in Outboxes, more \in BOOLEAN : Start(r, head, out, more))

Spec == Init /\ [][Next]_vars /\ Fairness

-----------------------------------------------------------------------------
(* What leaves in a step                                                    *)
Leaves(what) == {i \in DOMAIN line'.fate : line'.fate[i] = what
                                           /\ (i \in DOMAIN line.fate => line.fate[i] = "held")}

(* Nothing overtakes: what is held is the end of what the runtime made, in  *)
(* its order (a control before its synth, a free before what it frees).     *)
NothingOvertakes ==
  LET n == Len(line.fate) - Len(line.queue)
  IN /\ line.queue = [i \in 1..Len(line.queue) |-> n + i]
     /\ \A i \in DOMAIN line.fate : line.fate[i] = "held" <=> i > n

(* The sound i has been at the head of the line, its loads awaited, since   *)
(* before another x was asked for.                                          *)
Replaced(i, x) ==
  /\ line.queue # <<>> /\ i = Head(line.queue)
  /\ \E p \in line.pump.on : p[1] = x /\ p[2] < Len(asks[x])

(* A sound goes only with its loads in the engine: its buffer loaded unless *)
(* the program has freed it, its synthdef the version last asked for, or,   *)
(* if it was awaited already when that was asked for, one there is.         *)
HeardAsLastLoaded ==
  [][\A i \in Leaves("sent") : \A x \in line'.needs[i] \ freed' :
       /\ engine'[x] # Nothing
       /\ x \in Defs => engine'[x] = url'[x] \/ Replaced(i, x)]_vars

(* A sound is dropped only for a load of its own that failed, be it         *)
(* replaced while it was awaited.                                           *)
NoCauselessDrop ==
  [][\A i \in Leaves("failed") : \E x \in line'.needs[i] :
       \/ State(asks', x) = "failed"
       \/ Replaced(i, x) /\ "failed" \in ToSet(asks[x])]_vars

(* A run does not start in pieces: while a gate waits nothing goes, and at  *)
(* its end all that was held goes or is dropped.                            *)
HeldTogether ==
  [][line.gate = "waiting" =>
       LET still == {i \in ToSet(line.queue) : line'.fate[i] = "held"}
       IN still \in {{}, ToSet(line.queue)} /\ (still # {} => Leaves("sent") = {})]_vars

Promised == INSTANCE Line WITH made <- Len(line.fate),
                               settled <- Len(line.fate) - Len(line.queue),
                               Burst <- MaxSounds

(* The sounds are a line: settled in the order made, each in the end.       *)
SoundsAreALine == Promised!Spec

(* A Run heard starts or fails in the end.                                  *)
RunsStart ==
  \A r \in Runs : runs[r].phase \in {"fetching", "joining"} ~> runs[r].phase \in {"started", "failed"}
=============================================================================
