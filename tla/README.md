# A verification model of Sonic Pi

Sonic Pi runs a musician's Ruby program as many threads that share a logical
clock, talk to each other through a history of timed events (the Time State),
make sound by sending timed messages to a synthesis server, and can be stopped
and edited at any moment. It exists twice in this repository: as the Ruby
server in `src/app/server/ruby` behind a Qt GUI, and as a web app in
`src/app/web`, whose runtime (the same language on mruby, compiled to wasm) runs
in a worker beside the page and the audio engine. This directory models the core
logic of both in TLA+, checks it with TLC on small instances, and proves what
matters most with TLAPS for instances of any size.

## 1. Inventory: the parts of the system

### How the parts interact

The GUI starts the daemon; the daemon boots the engine (SuperSonic) and the
Spider server and stops both when the GUI goes silent. The Spider server takes
OSC commands from the GUI: `/run-code` calls `Runtime#__spider_eval`, which makes
a *run*: a main thread whose user code runs in a tree of `in_thread`s. These
threads share: the tables of runs and threads (`@user_jobs`, `@job_subthreads`,
`@named_subthreads`), the Time State (`@event_history`), and the studio, which
holds groups, busses and buffers of the engine. The engine talks back by OSC
messages that `IncomingEvents` hands, one at a time, to the handlers of nodes.
Incoming cues (OSC, MIDI, gamepad) enter the Time State from threads of their
own. Life cycle hooks called at the start and end of runs make and free what a
run plays on, and pause the engine when nothing runs.

In the web app the page holds a `WorkerSession`: it posts Run and Stop to the
worker, loads the synthdefs and samples the worker asks for, and hears answers
and process tables back. In the worker, `LiveCore` calls the runtime's scheduler
(cooperative, one call at a time), takes the sounds each call made, and puts
those whose loads are under way in a line, so that nothing overtakes. Sounds and
the groups they play in go through a ring in shared memory to the engine, which
takes them in order and schedules them. A Stop is a chain of steps on all three:
the worker stops, the page waits until the engine has taken what was sent,
empties the engine's schedule, and the worker fades what sounds. The engine may
die and be made again at any moment, with nothing of what was in it.

### The parts

| part | state it keeps | operations | what is hard about it |
|---|---|---|---|
| **Time State** `event_history.rb` | tree of event lists, list of matchers, `@process_mut`, `@matcher_mut`, `@get_mut` | `set`, `get`, `get_next`, `sync`, `prune` | a cue is two critical sections and a sync four; lookups, cues, trimming and kills interleave between them |
| **Path patterns** `event_history.rb` | none | tree search, regular expression | one pattern is translated twice, and the two must agree |
| **Order of events** `cueevent.rb`, `thread_id.rb`, `cuestamper.rb` | last stamp | `<=>`, `stamp` | four components, one of them ids of different lengths, must make one total order; equal events cannot be told apart by a sync |
| **Runs** `runtime.rb`, `jobs.rb`, `lifecyclehooks.rb`, `util.rb` | `@user_jobs`, `@job_subthreads`, `@named_subthreads`, thread locals, `@@stop_job_mutex`, one `no_kill` monitor per thread | `__spider_eval`, `__in_thread`, `__stop_job(s)`, `__stop_other_jobs`, `__no_kill_block` | threads are killed at any point; who may clean up, and when; four kinds of lock taken in different orders |
| **Logical time** `runtime.rb`, `lang/core.rb` | time, beat, bpm, density, delta per thread | `sleep`, `sync`, `time_warp`, `with_bpm`, `density` | a thread's clock meets the clocks of others only in `sync`; deadlines |
| **FX** `lang/sound.rb` `with_fx`, `synthtracker.rb` | bus, container group, tracker, three GC threads per block | enter, run, leave | a kill between any two steps must leak neither bus nor group |
| **Incoming events, nodes** `incomingevents.rb`, `node.rb` | queue of 50, handlers; state and callbacks per node | `event`, `async_event`, `add_handler`, `rm_handler`, `reset!`; `n_go`, `n_on`, `n_off`, `n_end` | messages out of order, a queue that its own consumer fills |
| **Ids, busses, buffers** `allocator.rb`, `bus.rb` | allocation table | `allocate`, `release!`, `reset!` | what was given out before a reset is freed after it |
| **Studio** `studio.rb`, `studio_ready_gate.rb`, `server.rb` | mixer, groups, busses, caches, `@paused`, tracks, ready gate | cold swap in six phases, `pause`, `start`, recording, track parameter pages | a device change rebuilds all of it under running programs; retries, timeouts, a replaced mutex |
| **Engine comms** `supersonic_comms.rb`, `osc/tcp_osc_client.rb` | pending requests, tokens, socket | `rpc`, subscribe, reconnect | late, lost and doubled answers |
| **Spider server** `spider-server.rb` | last `/clockwork/setup` | command handlers, debouncing thread | an event at the moment the debouncing thread ends |
| **Daemon** `daemon.rb` | children, kill switch, exit promise | boot, keep-alive, exit | timeouts racing answers; a child that dies while being watched for |
| Promise, Atom | value | `get`, `deliver!`, `swap!` | spurious wake-ups |
| **Live core** `web/live-core.js` | queue, pump, gate, `#stops` | `run`, `tick`, `cue`, stops, `silence` | a pump and a gate that await loads while Stops, runs and ticks go on; order must survive all of it |
| **Loads** `web/live-worker.js`, `web/sonic_pi.js` | a promise per synthdef name and buffer, on both sides | `synthDef`, `synthDefUrl`, `loadBuffer`, `freeBuffer` | answered by name, in any order; two caches that must agree |
| **Session** `web/sonic_pi.js`, `runtime/lib/sonic_pi/scheduler.rb` | `#stopping`, `#engineGen`; `@studio`, `@epoch`, `@jobs` | `run`, `stop`, `engineLost`; `silence`, `engine_lost` | three actors; what the runtime believes of an engine that a purge or a crash has changed |
| **Page, deck** `app/src/main.js`, `app/src/ui/deck.js` | the playing card, its runs and how many are starting | `play`, `stop`, `runs` | a run is known only when its answer comes; tables come between |
| Workspace `app/src/workspace.js` | sets in local storage | save, load, tabs | two tabs over one store |
| Link, MIDI, OSC, gamepad APIs | cached tempo, shared-memory mapping | wrappers of rpc | delegated to comms |
| Music theory, synth tables, preparser, encoding, GUI, build, vendored code | none that matters here | | not a matter of orders of steps |

### What makes each part correct

* Time State: `get` and `get_next` are exact for every moment, whatever the order
  of arrival; `sync` takes the earliest event after the thread's moment; a cue
  wakes whoever waits for it; nothing raises that was promised a value; the clean-up
  of a dead thread takes what is its own and nothing else; no thread goes back in
  time.
* Order of events: any two different keys have an order, and it goes on from the second
  to a third; what a thread does comes before what its in_threads do.
* Patterns: the tree search finds what the tutorial says, and what wakes a sync is
  found by it.
* Runs: a run is cleaned up when, and only when, its whole tree is over; Stop
  silences a run for good; names are released; Stop returns.
* FX, busses, nodes (planned): nothing allocated is lost or has two owners.
* Live core: sounds go in the order made, with what they need loaded; a run from
  rest starts whole; a failed load costs only its own sounds; every sound and
  every Run comes to an end.
* Session: a Stop takes nothing of a Run pressed after it, neither from the engine nor
  from what the worker still holds; what sounds can be stopped; what is faded is freed; a Run is answered.
* Deck: no run of a card goes on unknown to it, none is stopped unasked.
* Studio (planned): after the last device change the studio gets ready, or gives
  up and says so; no operation sees it half built.
* Comms (planned): every request gets its own answer or none.
* Daemon (planned): a silent client means that everything exits, and only that.

`PROJECT.json` lists the hazards with their lines and the properties that cover
them; those that nothing covers yet say why. More that modelling turned up, in
parts that have no model yet, are at the end of section 6.

## 2. The modules

| module | what it is | proved | runs |
|---|---|---|---|
| `PathMatch` | the two translations of a pattern, and what the tutorial says | `PathProofs` | `sync` |
| `CueOrder` | the comparison of events and of thread ids | `EventHistoryProofs` | `time_state` |
| `EventHistory` | the Time State, and the threads inside `cue` and `sync` | `EventHistoryProofs` | |
| `TimeState` | what the Time State promises: implemented by `EventHistory` | `EventHistoryProofs` | |
| `MCEventHistory` | instances of them, with all patterns and paths of up to four segments | | `sync`, `time_state`, `lost_wakeup` |
| `Runs` | evaluation, `in_thread`, the tables, Stop | `RunsProofs` | |
| `MCRuns` | instances of `Runs` | | `run_tree`, `stop_returns`, `stop_deadlock`, `zombies` |
| `Loader` | the web app's loads: promises by name, the page's answers | | |
| `LiveCore` | runs, ticks, the line of sounds, pump, gate, Stop; over `Loader` | `LiveProofs`, `LoadProofs` | |
| `Line` | what a session promises of its sounds: implemented by `LiveCore` | (safety half) | |
| `MCLive` | instances of `LiveCore` | | `live`, `stuck_line` |
| `Session` | Run, Stop and a lost engine between page, worker, scheduler and engine | `SessionProofs` | |
| `Deck` | the deck of cards and the editor, over `Session` | `DeckProofs` | |
| `MCDeck` | instances of `Deck` (with no cards: of `Session`) | | `session`, `page`, `late_run` |

### PathMatch

A path is a sequence of names, any but the last perhaps empty; a pattern is a sequence of
segments, each `**` or a pair: the names it stands for in the tree (`names`), and what its
piece of the regular expression accepts, cut into names at the slashes (`spells`). The
two differ where the translation does: `?` and `[!x]` become `.` and `[^x]`, which match a
slash; a `*` becomes `[^/]*`, which matches nothing too, and is left alone after a `.`. A path keeps its
leading slash and the expression begins with `/?`, so that it is tried on the path's names
and on those with an empty one before them. A pattern is `Plain` when no segment
spells more than its names and the first, unless it is `**`, cannot be empty; it is
`Exact` when no segment spells less. `Asked` are the patterns that
are asked for, by `get` or by `sync`, and `Present` the paths they are asked of; the threads of
`EventHistory` cue some of the second and sync on some of the first. Both searches
are recursive functions over the segments, whose values are the depths on the path that
a search may be at:

| definition | code |
|---|---|
| `Below`, `Above`, `Ancestors`, `TreeFinds` | `get_w_mutex`, `__get`, `matching_ancestors` |
| `Rewritten`, `Spans` | the two substitutions for `**` in `EventMatcher` |
| `Some`, `Spelled`, `Rest`, `Reads`, `MatcherMatches` | the expression those make, matched against a path |
| `Describes`, `EachTakesOne` | the tutorial's reading, and the same with no `**` left empty |

Left out: paths and patterns that end in a slash, a comma outside braces and a slash
inside them, which the substitutions also take for their own.

### CueOrder

`Compare` is `CueEvent#<=>`: by time, priority, thread and delta. `CompareIds` is `ThreadId#<=>`;
its loop walks along its left operand and returns at the first element where the two
differ or the right one has ended (`Parts`). Times are rationals in the code and whole numbers
here; only whether one is less than another matters. An event's beat, path and value take no
part in `<=>`, though they do in `==`.

### EventHistory

The state of the code is `events` (for every path, the list of its leaf, newest
first), `matchers` (`@event_matchers`) and, for each thread, where it is
(`pc`), its logical `moment`, what it asks for and the promise of its matcher.
A moment is a natural number: the rank of an event in the order of `CueOrder`, and the
constant `Key` says what the events of each moment are compared by; events that
`<=>` calls equal have one moment. A moment carries the id of a thread. A thread starts from one of
its own (`Own`), and from every sync on has that of the event it got (`last_sync`), until
it sleeps. Its matcher is filed under the id of the moment it has then (`Handle`): after a
second sync in a row, under that of the thread that cued. The
tree of path segments appears as the function from paths to event lists; which of
its leaves a pattern finds, and which events wake a sync on it, are the sets `Finds` and
`Wakes` that `PathMatch` computes. An action is one critical section of the code:

| action | code |
|---|---|
| `InsertEvent` then `MatchEvent` | `set` under `@process_mut`, then under `@matcher_mut` |
| `StartSync`, `SeekFound`/`SeekNothing`, `PutMatcher`, `Wake`, `ReseekFound`/`ReseekNothing` | `sync`, line by line |
| `Sleep` | `sleep`: `last_sync` is forgotten, time goes on or, with `sleep 0`, stands |
| `Kill`, `Prune` | Stop, and the GC thread of a dead `in_thread`; a run's own thread has none, and what it leaves in `@event_matchers` stays |

`wait_for_threads`, a pause of a millisecond, and the values of `meta` are left
out. `Prune` is one step: the code holds the wrong mutex there
(`event_history.rb:263`), and what two `delete_if`s at once would make of the
Array is not modelled.

### TimeState

A board of events and, per thread, a moment and a question. `Release` says what a
sync is: the thread moves to the *earliest* event on the board after its moment
that it asked for, and its time never goes back. Its moment may, among those of one
time: after `sleep 0` it is the thread's own again, and a second `sync` can
return the event that the first one did. The mapping (at the end of `EventHistory`)
reads the board off the leaves, and the question off `pc` and the sync's
arguments. It is a safety refinement: what guarantees that a sleeper is
released at all is the separate property `CueWakesSleepers`. One thing makes the
promise weaker than the documentation: the search of a path ends at the one
event next in time, so that a matching event behind a refused one is jumped
over (`Hidden`).

### Runs

`Parent` is the tree of `in_thread` calls of the program, with the main threads
as roots. Every thread has a `pc`; every thread and every run has a GC thread
(`gc`, `jobGc`). The tables are `jobs` (`@user_jobs`), `registered` and `subs`
(`@job_subthreads`), `names` (`@named_subthreads`). The locks that are held across
steps are variables: `jobsMut`, the monitor of `Jobs`, held by `each_id` all
through `__stop_jobs`; `stopMut`, `@@stop_job_mutex`; and `inNoKill`, the
threads that hold their own `no_kill` monitor. `@job_subthread_mutex` and the
subthread mutexes are never held across a step of another thread that matters,
so that what they protect is one action.

| action | code |
|---|---|
| `Eval`, `AddJob`, `Register`, `StartStudio`, `Abort`, `Deliver` | `__spider_eval`, by its two threads |
| `BeginSpawn`, `List`, `Allow`, `Spawned` | the parent in `__in_thread`, all in its no_kill block |
| `Allowed`, `Orphaned`, `Add`, `Refused` | the child, until `job_subthread_add` has answered |
| `EnterNoKill`, `LeaveNoKill`, `Finish`, `SyntaxErr`, `Leave` | user code, and the end of the thread |
| `GcJoin`, `GcLeave` | the GC thread of an `in_thread` |
| `JobJoin`, `JobExit`, `JobCompleted`, `Report`, `PauseStudio` | the GC thread of a run |
| `PressStop`, `NextJob`, `NoMoreJobs`, `StopJob`, `EnterStop`, `NotRunning`, `IsRunning` | `__stop_jobs`, `__stop_other_jobs`, `__stop_job` |
| `Sweep`, `AimAt`, `KillAtOnce`, `KillLocked`, `TakeJob`, `KillMain` | `job_subthreads_kill`, `__no_kill_block`, `kill_job` |

There are three kinds of stoppers: `StopAll` and `StopOne` call `__stop_jobs` and
`__stop_job` from threads of the server; `Rebooters` are threads of runs
whose user code calls `reboot`, which stops all other runs from inside a no_kill
block and can itself be stopped.

Simplified: the main thread starts one `in_thread` (the code starts the whole
program in one); what the thread does between steps that matter is `running`; the
half second before `any_jobs_running?` is an interleaving like any other.

### Loader and LiveCore

A sound is a number, in the order the runtime made it, with the set of things
it needs (a control or a free: none); `line.fate` says what became of it.
`line.queue` is `#queue`, `line.gate` is `#gate` (`open` before and `waiting`
during its wait), `line.pump` is what `#pump` awaits and the `#stops` it began at,
`line.wait[e]` the `#wait` begun at `#stops = e`. A promise of the worker is an
entry of `asks[x]`: asking again makes a new one, and the answer, which has only
the name, resolves the last. One action is one turn of the worker's event loop,
with all the promise continuations it settles.

| action | code |
|---|---|
| `RunArrives`, `FetchFails`, `Join`, `Start`, `StartFails` | the worker's `run` message and `LiveCore#run`, from one `await` to the next |
| `Tick`, `TickLoadsUrl`, `TickFrees`, `Cue`, `Frees`, `Stop` | `tick`, `#host`, `cue`, `stopRun` and its like, `stop` |
| `LoadEnds` | the page's answer, and the pump that awaited it (`Resume`) |
| `WindowPasses`, `GateSettles` | the gate's window, and a round of `#wait` |
| operators `Drain`, `Pump`, `Leave`, `Round` | `#drain`, `#pump` and its loop, `#wait` |

What the runtime makes is chosen from `Outboxes`. Buffers are not asked for again
after they are freed, as the runtime never uses a number twice. Abstracted:
time. The gate's window passes whenever it likes, and the shifting of times by a
wait (`retime`, `_sp_hold`) is left out, so nothing here says *when* a sound is
due.

`Line` is the abstraction: two counters, made and settled. `LiveCore` implements
it with `settled <- Len(line.fate) - Len(line.queue)`, so that `SoundsAreALine`
says that sounds are settled in the order made, and that each one is.

### Session and Deck

`inbox` and `mail` are the two message channels, in order; `ring` is what goes to
the engine; `chain` and `step` are the promise chain `#stopping`, and what it
is waiting for. A sound carries what the runtime believes it has to make first: the
studio, the epoch's group, the run's group in it (`SoundOf`). The engine refuses a sound
with no group, and a Stop's purge empties the ring and what is due.

Between the runtime and the ring is `LiveCore`: `line` is its queue, `waiting` says whether
a gate waits, `holding` and `answering` are the runs whose answer waits for a gate, now
or since a Stop. The runtime takes for done what it has put in the line, and a Stop
empties the line: `dropped` remembers the studio and the fades that went that way.

| action | code |
|---|---|
| `PressRun`, `PressStop`, `ReloadStarts`, `ReloadEnds` | `run`, `stop`, `audioReloading`, `audioReloaded` |
| `HearReply`, `SettleTimesOut`, `Purge` | the steps of a Stop on the page |
| `Handle` (run, stop, silence, lost, stopRun), `Fetched` | the worker's `handle`, with `stop_all`, `silence`, `engine_lost`; a run goes on when its fetches have ended and no gate waits |
| `Starts`, `Sound`, `Ends` | the head of a run; a tick. What they make is sent (`Send`) or held (`Hold`) as `#drain` does |
| `Pump`, `Release`, `Answer` | `#pump`; the end of a gate's wait, with the table and the answer it held; the answer of a run that a gate held as a Stop came |
| `Take`, `Heard`, `Quiet`, `FadeEnds` | the engine (external: modelled from how it is used) |
| `Play`, `StopCard`, `Run`, `Answered`, `HearTable`, `Refresh`, `Stop` | `deck.js` and `main.js`; `Now` is `runs(live)` |

Abstracted: which sounds have to be loaded for (any may be held, and a load ends
whenever it likes), and whether a gate is open. A sound and the groups made for it
are one unit: outside a gate's window `#drain` sends the groups, which need a
synthdef that is loaded, ahead, which is the same as a sent sound with a held one behind
it. No load fails here (`LiveCore` has that). A run whose head ends while a gate
holds it ends after the release. The table that has the run in it is posted with the run's
answer, or before it when another run is stopped meanwhile. The ring
outlives the engine (`ReloadEnds`).

## 3. The runs

| run | instance | question | states |
|---|---|---|---|
| `sync` | a run's thread, an `in_thread` of it, a handler of messages; 2 patterns, 2 events, 5 moments, history of 1, fairness; asked: 456 patterns of up to 4 segments, of 42 paths of up to 4 names | Is a woken sync always answered; who sleeps past an event, and who is woken; are matchers owned? Do the translations of a pattern agree with each other and with the tutorial? | 482 000 |
| `time_state` | the same threads, 3 events of 2 values at 3 moments in any order, history of 2 | Are lookups exact, and lists in the order of `<=>`? Does `EventHistory` implement `TimeState`? | 1 670 000 |
| `lost_wakeup` | 2 threads | `sync`'s documentation: a cue unblocks it. **Violated** between lines 231 and 234. | |
| `run_tree` | 2 runs that want one name, an `in_thread`, all three kinds of stoppers | Cleaned up only when over, silent once stopped, names released, whoever ends first? | 4 260 000 |
| `stop_returns` | 2 runs, 1 stopper, fairness | Does Stop return, is every ended run cleaned up? | |
| `stop_deadlock` | 2 runs, `StopAll` against `StopOne` | Does Stop return when two stop? **Violated**: locks in opposite orders. | |
| `zombies` | 1 run | The comment in `job_subthreads_kill`: new threads of a stopped run die. **Violated** when Stop comes before `register_job!`. | |
| `live` | 2 runs, 3 sounds that need 1 synthdef of 2 versions, 1 sample, both or neither, 1 Stop, fairness | Do sounds go in order, with what they need, together at a start; does every sound and every Run come to an end? | 244 000 |
| `stuck_line` | the same, `Impatient` | The comment of `#pump`. **Violated** when a URL replaces a load that is awaited. | |
| `session` | 2 runs of the editor, 2 Stops (by hand or by an engine made again), any sound or fade held, fairness | Does a Stop leave later Runs alone, end its fades, answer every Run? Can all that sounds be stopped? | 481 000 |
| `page` | 2 cards and the editor, 2 runs, one with fetches and sounds, a Stop or an engine made again, fairness | Can all that sounds be stopped, does the deck lose or stop a run wrongly, does a card come to rest? | 679 000 |
| `late_run` | 2 runs, one with fetches, 1 Stop | A stopped worker "sends nothing more". **Violated** by the run whose fetches end after. | |

Every property of a passing run is broken by a mutant of the code, defined next to
the definition it mutates and named in `PROJECT.json`.

### Bounds, and why they are enough

* Patterns mean the same in every state: `sync` looks at 456 of them on 42 paths, whatever
  the two that its threads sync on. Of four segments: `**`, `*`, a literal and one with a `?`;
  of three: those with braces and one whose `*` is left untranslated instead of the `?`. Paths have up
  to four of two names, or three with empty ones among them. Every construct has an effect within
  two neighbours on each side, so four segments hold every combination, including
  two `**` that compete. The proofs remove this bound.
* Time State: a sync's error needs a waker, a sleeper and a later event; a
  thread to be killed in between is the third. One event of history makes every
  second insertion trim. The five moments of `sync` are those of a thread and its
  `in_thread` before and after a message from outside: the least in which a thread takes on the id of
  another, syncs a second time, and a clean-up under that id comes between. Two events are
  enough for it. The three moments of `time_state` have `<`, `=` and `>` between
  an event and a sync in every position. The proofs remove these bounds for everything
  but `CueWakesSleepers`.
* Runs: a main thread and one `in_thread` are the least in which a GC thread waits
  for a child, and the reboot gives a stopper that is stopped. Two runs are the
  least for names and locks shared between runs. The proofs remove these bounds for
  everything but liveness.
* Live core: a line needs a sound that waits, one behind it that does not, and one
  made later: three. A Stop separates two epochs, which is all that the code
  compares (`stops !== this.#stops`). Two versions of one synthdef (`MaxAsks` = 2)
  are the least that can be mistaken for each other. One sound needs both a
  synthdef and a sample: only such a sound can have one of its loads replaced
  while it awaits the other. The proofs remove all of these bounds for every
  safety property of `live`.
* `Impatient` = FALSE: a program replaces a synthdef or frees a sample only when the
  load of it has been answered. Without it the line sticks (`stuck_line`), which
  would hide whatever else fails. It is the hypothesis of the two theorems of
  `LoadProofs`; those of `LiveProofs` do not need it.
* Session: the purge of the second Stop meets the fade of the first, and the second's
  emptying of the line what the first has put there; two runs are one before and one after
  a Stop. An engine is made again once, which is a Stop too. `Slow` are the runs with something to
  fetch: none in `session`, because of `late_run`; one in `page`. `Noisy` are those that make
  sounds: both in `session`, one in `page`, where the other is there for the deck. `Hasty` = FALSE:
  no Run is pressed, and none waits to start, while the engine is being made again, which
  fails as `late_run` does. The theorems do not need these choices.
* Deck: a card's run is lost or stopped wrongly only by another card or another
  run of its own; two of each. The proofs remove the bounds on runs, cards, Stops
  and reloads for the safety properties of the deck.

Deadlock is not checked: every system here comes to rest when nobody plays.

### Fairness, and why the code gives it

* `EventHistory!FairSpec`: weak fairness of each thread while it is inside `set`
  or `sync` and can take its next step: Ruby runs every runnable thread, and its
  mutexes are held for a bounded time. A sleeper is not runnable until its
  promise is delivered. The GC thread of a dead `in_thread` gets to its `prune`. Nothing
  obliges a thread to cue, sync or die. `sync` uses it; `time_state` is about safety alone.
* `Runs!FairSpec`: weak fairness of the threads inside the runtime's own code;
  strong fairness where a step competes for a lock with others (Ruby's mutexes
  and monitors queue their waiters), that is of the stoppers and of the steps
  of a run's GC thread that take the monitor of `Jobs`. `no_kill` blocks end.
  User code need not end, and Stop need not be pressed.
* `LiveCore!Spec`: loads are answered in the end (a fetch resolves or rejects), the
  gate's timer fires, a Run received goes on. Ticks, cues and Stops are not
  obliged to happen.
* `Deck!Spec`: messages are delivered and handled, fetches and loads end (`Pump`, `Release`,
  `Answer`), the engine takes what is in the ring, its scheduled free happens and a
  lost engine is made again; the page looks at the table every half second. Strong
  fairness of a run that waits to start (`Fetched`): a run that joined another's start
  looks again when the gate is released (`live-core.js:115`) and may find another waiting; each wait is
  for something the programs name and that has not been loaded, so that they are
  finite in number. Nobody has to press anything, no run has to sound or end, no
  sound has to be heard.

## 4. The proofs

All theorems are for arbitrary sets of threads, runs, stoppers, names, paths,
patterns, values, synthdefs and samples, finite or not; patterns and paths are of any length.

### PathProofs

For every pattern and every path, of any length:

* `FindsWhatIsDescribed`: the tree search reaches a path exactly when the pattern
  describes it.
* `MatchedIsDescribed`: what the regular expression of a plain pattern accepts, with the
  path's leading slash or without, the pattern describes and the tree search finds.
* `MatchedTakesOne`: for plain and exact patterns whose `**` are between named segments,
  what it accepts is what the pattern describes with no `**` left empty.

The library's induction theorems take a predicate as a parameter, so induction is done
here with sets: every non-empty set of naturals has a least element (`AllNaturals`,
`Backwards`). That a recursive function is what its definition says (`FixedPoint`)
is shown for definitions whose body is a *function* from candidates to candidates, which needs
no operator as a parameter. The argument then goes from the pattern's end to its
beginning. `Tails(pat, path, T, i)` are the depths from which the segments from i on lead
to the end of the path, where T says between which depths each segment may lead;
`TailStep` takes one segment off. With T the tutorial's reading, the lemmas `NamedTail`,
`FinalTail`, `DeepTail` and `DoubledTail` are the cases of `__get`, the last one the
collapsing of neighbouring `**`; the expression stays inside them (`RestInTails`). With T that
leaves no `**` empty, the expression takes the very same steps (`RestIsOneTails`). Of the
two readings of a path only the one without the empty first name can succeed, except
where a `**` opens the pattern: such a pattern describes the path all the same.

### EventHistoryProofs

* `KeysAreOrdered`: `<=>` is a total order of what events are compared by, for ids of any
  length. Where the lists of two ids part (`SplitsAt`) there is one such place, whichever
  is walked along; where two of three part, the third parts from the first at the
  earlier of the places (`IdsGoOn`).
* `ParentsComeFirst`: at one time and priority, a thread's events come before those of its
  in_threads, and an in_thread's before those of the next one.
* `MomentsExist`: any finite set of keys can be numbered in their order: the rank of a key
  is how many are below it. So what is assumed of `Key` can always be had, and
  moments lose nothing that `<=>` tells apart.
* `LeavesAreInCueOrder` (`LeavesFollowCueOrder`): of any two events of a list, `<=>` puts the
  second no later than the first, for every order of arrival and every trimming.
* `WokenSyncsReturn` (`NoSyncError`): a woken sync whose matcher accepts every
  value, and whose pattern is plain (no `?`, no `[!x]`, no leading `*`), finds an event.
* `LookupsFind` (`LookupsAreExact`): though a lookup stops at the first hit of a list
  whose order it never checks, `get` finds the latest event at or before its
  moment, `get_next` the earliest after it. It follows from sortedness.
* `MatchersAreOwned` (`MatchersHaveSleepers`): a matcher's thread sleeps on it or died so,
  and outlives the clean-up of that thread only under another's id. `TypeCorrect` (`TypeOK`).

The argument: the newest event of a leaf only ever gets newer (`Sink` keeps the
list sorted and `Trim` drops from its old end), so the event that woke a sleeper,
or a newer one, is there at the second lookup. The inductive invariant adds to
the properties that leaves are sorted, and that to each woken sleeper with a plain
pattern there belongs a leaf its pattern finds whose newest event is after its moment;
that this is so when it is woken is `MatchedIsDescribed`.

* `SearchIsThePattern` (`TreeSearchIsThePattern`), `WakingIsFinding`
  (`WakingImpliesFinding`) and `WakingTakesOne` (`WakesWhereEachTakesOne`) state the theorems
  of `PathProofs` of the lookups and match passes of `EventHistory`.
* `PromiseIsKept` (`ImplementsTimeState`): every initial state of `EventHistory` maps to
  one of `TimeState`, every step to a step or a stutter. That a later rank is no earlier
  in time, which `Release` asks for, follows from `KeyAssumption`; `Sleep` says it of `sleep`.
* `NothingElseIsMissed` (`SleepsOnlyThroughTheGap`): the wake-up that `lost_wakeup`
  shows to be lost is lost in one other way only. The cue's match pass ended before the
  matcher was put, or has not run yet; or the sleeper has no matcher, and then a thread with
  the id its matcher was filed under has been cleaned up (`Robbed`).

The last two need one fact more: the history is *filed*
(`Filed`). An event lies under its own path and its id is of one insertion, so that
the event a thread holds between the two locks of `set` is the only one of its
id in the tree. For the refinement, `InsertPlaces` says what an insertion does to
the board: it adds its event, and all it forgets is no later than anything it
leaves on that path, which is what `TimeState` demands of forgetting. A sync that
returns is `Release`: it took the event next in time on a path, and of those the earliest.

Assumed: the typing of the constants, a history of at least one event, that threads have
different ids, and that they cue and sync on paths and patterns of `PathMatch`,
sequences of names and of segments that do not end in a slash.

### RunsProofs

* `CleanedRunsAreOver` (`CompletedRunsAreOver`): for every tree of `in_thread`s.
* `PromisesAreNotEarly` (`EmptiedMeansOver`).
* `StopSilences` (`StoppedRunsAreSilent`): for any number and kind of stoppers.
* `NamesStayHeld` (`NamesAreHeld`) and `TypeCorrect` (`TypeOK`).

The inductive invariant `IInv` has three groups. *The tree*: a thread that was not
let go by its parent has done nothing (`Waits`); the parent's three steps leave
the child listed before it is let go (`Spawns`, `Listed`); a delivered
promise belongs to a dead thread with an empty list (`Promised`); Stop kills only
threads that were let go (`Killable`); what the run's GC thread has waited for
(`Joined`). *Stop*: a run without a program has no threads (`Fresh`); at most one
stopper is past the mutex and its victims belong to its run (`Locked`); a live
thread is registered or on a stopper's list (`Owned`). *Names*: `NamesAreHeld`
itself. `Owned` is why the invariant has to speak of stoppers at all: between
`Sweep` and the kills, the threads of a run are in no table.

From "the promise of the first `in_thread` is delivered" to "every thread of
the run is over" the proof goes down the tree by `DescentAssumption` (every
`in_thread` descends from a main thread, a well-foundedness that holds of
threads because they are created), not by a bound on its depth. Assumed besides:
the typing of the constants, one `in_thread` per main thread, and that stoppers
that are threads of runs are only the `Rebooters`.

### LiveProofs

For any runs, synthdefs, samples and bounds, and for `Impatient` programs too:

* `InOrder` (`NothingOvertakes`): what is held is the end of what was made.
* `StartTogether` (`HeldTogether`): a gate holds everything, or lets all of it go.
* `SettledInOrder`: every step of `LiveCore` is a step of `Line` or a stutter. It is
  the safety half of `SoundsAreALine`; the other half is liveness.
* `LineTypes` (`TypeOK`).

The argument: every operator on the line (`Leave`, `Shift`, `Pump`, `Resume`,
`Round`, `Drain`) keeps it `Ordered`, adds its new sounds at the end and only ever
moves the mark between settled and held forward (`Kept`, which composes). The
inductive invariant `IInv` adds to `Ordered` that what the pump and the waits
await are promises that exist, which needs that promises are never taken back (`Grows`) and that
what a sound needs has been asked for by the time it is made. `Leading`, a
CHOOSE over how far the line can go, is shown to exist by the least-element
property of the naturals, itself from the library's well-foundedness. The
theorem on the gate goes through the actions once more: while the gate waits,
all but `Stop`, a settled round and what only appends leave the fates alone.

### LoadProofs

For any runs, synthdefs, samples, URLs and bounds, where programs are not `Impatient`
(hypothesis `Patient`):

* `LoadsAreHeard` (`HeardAsLastLoaded`): a sound goes only with what it needs in the
  engine, its synthdef in the version last asked for.
* `DropsHaveCauses` (`NoCauselessDrop`): a sound is dropped only for a failed load of
  a thing it needs itself.

The inductive invariant `LoadInv` adds three parts to that of `LiveProofs`. `InTime`:
of a thing's promises only the last can be pending, and the load under way is for it and
from where the thing was last asked for. `Present`: a promise kept means that
something is in the engine, and for the last promise it is what was asked for last.
`Good`: what the pump awaits belongs to the head of the line and is not settled
(`PumpsHead`); what is marked as failed, and is still held, has failed (`Failing`); a
round of the gate's wait awaits exactly the last promises of the sounds held
(`Rounds`); pumps and rounds begun before a Stop speak of sounds that are gone. The
steps are then compared as in `LiveProofs`: each operator on the line lets sounds go
`Fairly`, relative to the promises it looked at, which composes.

Without `Patient`, `InTime` does not hold: a second load takes the place of
the first, whose promise stays pending for ever (`stuck_line`). The properties
themselves carry one exception, `Replaced`, which the proof asked for and a sound that
needs a sample too then showed to TLC: see section 5.

### SessionProofs

For any runs, cards, Stops and reloads, slow and hasty runs included, and whatever is held:

* `SessionKeeps`: the inductive invariant `SessionInv`.

`SessionInv` has, beside types, three parts. `Protocol`: one step of the chain is with
the worker at a time, and at most one of its message and its reply is under way.
`Losses`: the runtime hears that the engine is lost before the worker, the line, the ring or the engine has
anything of a run pressed since. `Housed`: what is due or heard is in a group, groups are
in a studio of an engine that is there, and the runtime has no place for a run without
believing in a studio. Two sequences and a chain in between make this a proof about order more than
about state: the lemmas of the first part say what `Once` and
`NeverBefore` (of messages in a sequence) become when messages are put at the end or taken from the
front, and `Comes`, `Follow` and `Onward` what one link of the chain puts where.

### DeckProofs

For the same instances:

* `NoneIsOrphaned` (`NoRunIsOrphaned`) and `StopsAreAsked` (`StoppedOnlyIfAsked`): no run
  of a card goes on unknown to it, and none is stopped unasked.
* `TypesHold` (`TypeOK`, of session and deck, with two invariants of its own on the bounds
  and on epochs), `DeckKeeps` (the invariant `DeckInv`).

`DeckInv` adds to `SessionInv`, for each run: it is in one place (chain, inbox, waiting to
start, held by a gate, mail) from its press until the one answer it gets (`Home`); if it goes, it
is in the last table sent before the page hears its answer, and in all tables after
(`Tables`), so that no table the deck refreshes from makes it forget a run; the deck
counts the starts of the card that plays and lists its runs exactly, and a run of
another play that is not answered yet has been given up (`Plays`); a run that is told
of and goes is the playing card's, or its stop or a later Stop is
ahead of it (`Kept`); a stop on its way was asked for (`Asked`). `Tables` is the
part that testing does not reach: it relates a table three messages away to an
answer before it.

### What is only model-checked

* Liveness (`CueWakesSleepers`, `StopReturns`, `EndedRunsAreCleaned`, `RunsStart`,
  `FadesEnd`, `RunsAreAnswered`, `CardsRest`, the live half of `SoundsAreALine`), which
  TLAPS does not do under fairness.
* `HeardUnlessStopped` and `SoundsAreKnown`, which relate what the runtime believes to what
  is in the line, the ring and the engine, and to what a Stop has dropped of the first. An
  inductive invariant for them has to follow every fade and every group through
  line and ring; it is the next thing to prove.

The inductive invariants (`IInv` of `EventHistory` and `Runs`, the parts of `LoadInv` on
`live`, `DeckInv` on `page`) were themselves run as invariants by TLC before they
were proved. What the provers cannot see is whether the models are right: the
mutants and findings of the runs speak of that.

## 5. What the models say about the code

Five runs contradict what the repository says of itself; each is a finding in
`PROJECT.json` with its line and the sentence it contradicts:

* `lost_wakeup`: a `sync` can sleep past an event that is there;
* `stop_deadlock`: Stop of one run and Stop of all can block each other;
* `zombies`: a run stopped before it has registered plays on;
* `stuck_line`: a synthdef loaded from a second URL while the first load is
  awaited stops the line of sounds for good;
* `late_run`: a run that is fetching what it needs is not called off by a Stop, and
  the purge takes the studio it makes: every later run is silent.

Further behaviours of the code, without a run of their own:

* a `?` or `[!x]` in the pattern of a `sync` also matches a slash when a cue comes in
  (`Spelled`; `event_history.rb:91`), and then the sync, finding nothing, raises:
  `cue "/oo/bar/baz"` kills the thread in `sync "/?oo/bar/baz"`, the tutorial's own
  example. A `*` that opens a pattern does it too, since it matches nothing and the slash before it
  is optional (`event_history.rb:75` and `:94`): `cue "/foo"` kills the thread in `sync "/*/foo"`,
  and `/*/*/*` is woken by `/foo/bar`, which tutorial 10.3 says it does not match.
  Without `Plain` in it, TLC finds `WakingImpliesFinding` violated in `sync`;
* a `*` after a `.` is not translated (`event_history.rb:75`): what such a pattern finds
  does not wake it. This is `Exact` in `MatcherTakesOne`;
* the regular expression of a pattern takes one name at least for each `**`, where
  tutorial 10.3 has `/foo/**/baz` match `/foo/baz` and `get` finds it:
  `WakesWhereEachTakesOne` states exactly what wakes;
* a matcher is filed under the id of the thread last synced with (`lang/core.rb:4838`). When
  that `in_thread` ends, its clean-up takes the matcher of the live thread that now
  sleeps, which no cue wakes any more; what the dead thread itself put under another's id stays.
  The comment at `runtime.rb:1570-1572`, "created by the thread we're currently cleaning
  up after", says otherwise. `Robbed` names the case. The matchers of a run's own
  threads are never cleaned up;
* after `sync` and `sleep 0` a thread's moment is its own again, which may be before the event
  it got, so that a second sync can return the same event;
* a Stop that comes while the first sounds still wait for loads empties the line with the studio's
  groups in it (`live-core.js:230`), while `@studio` stays true (`scheduler.rb:1389`): every later
  Run is silent, until the engine is made again, against "The studio stays"
  (`sonic_pi.js:829`). If it is an earlier Stop's fade that waits there, what it was to fade
  sounds on and is known to nobody. `HeardUnlessStopped` and `SoundsAreKnown` exempt these two cases by
  name (`dropped`);
* Stop kills a thread in the middle of its no_kill block, since the stopper reads
  the victim's flag (`KillAtOnce`), against the comment at `runtime.rb:1335`;
* a sync with an `arg_matcher:` jumps over, or raises for, a matching event behind a
  refused one (`Hidden` in `TimeState`);
* a thread that ends can take a name away from another run's thread; the
  studio can be paused after a new run has resumed it; a run whose init hook
  raises keeps `@user_jobs` from ever being empty;
* the pump holds on to the promises it found when a sound came to the head of the line
  (`live-core.js:325`). If another URL is asked for while it still awaits the
  sound's sample, the sound goes with whichever version has loaded, and is
  dropped if the first version failed, even when the second is there: `Replaced` in
  `HeardAsLastLoaded` and `NoCauselessDrop`;
* the page forgets a failed load to try it again, the worker does not; of two
  plays of one card, the first refused, the second is stopped when it answers.

`NamesAreHeld`, `NoSyncError`, `SleepsOnlyThroughTheGap`, `CueWakesSleepers`,
`EndedRunsAreCleaned`, `HeardUnlessStopped`, `SoundsAreKnown` and `StoppedOnlyIfAsked` are
stated so as to say what remains true.

## 6. Not modelled, and why

Listed component by component in `PROJECT.json`. Music theory, tables, the
preparser and the encodings have no order of steps to get wrong; the Qt GUI and
most web pages present what the server or session does; the engine is a
submodule whose source is not in this repository; vendored code is not Sonic
Pi's. The remaining parts of the server are next in the plan.

A word on coverage. Of the 350 000 lines that a count by file extension finds in
`src/`, some 326 000 are the Qt translation catalogues in `src/app/gui/lang`, XML
files whose suffix happens to be `.ts`; most of the rest is the presentation of
the web app. The Ruby server, the larger part of this project, is not in that
count at all. The share of lines that the models stand for is therefore small by
that measure and could not be otherwise.

In modelled parts: `setLinkBpm`, `setTimeWarp` and `hold` (they move time, which
`LiveCore` does not have), `stopGroup` and `groupUnder` (as `stopRun` on another set),
the piano's tables, the `LiveSession` that runs on the page when there are no
workers, cards re-made or handed to the editor, and a suspended audio context,
whose engine does not answer `/sync`. `Session` has of `LiveCore` what a Stop can meet: the
line and the gate; which loads they wait for, and loads that fail, are in `LiveCore`
alone, the product of the two being out of TLC's reach.

Hazards of parts without a model, beyond those in `PROJECT.json`: two GC threads may
both deliver one promise (`runtime.rb:1587`); equal events are one moment
(`cueevent.rb:64`); the callbacks of a node are lost when messages come out of
order (`node.rb:302`); ids freed after a reset have a new owner (`allocator.rb:46`);
`control_bus` may allocate twice (`studio.rb:1236`); the gate's check before its lock
(`studio_ready_gate.rb:50`); reconnection (`tcp_osc_client.rb:192`); the kill switch's
count (`daemon.rb:482`) and a death before the watch is set (`daemon.rb:649`);
spurious wake-ups (`promise.rb:34`); a full ring (`live-worker.js:263`); a card
re-made while its run fails (`deck.js:74`); a runtime that failed to start is not
tried again (`main.js:191`); two tabs that save one index (`workspace.js:77`).

## 7. Plan

1. `PathMatch`, `EventHistory`, `TimeState`; patterns, lookups, the gap and the refinement
   proved. Done. Open: the two compaction loops of `match` and `prune`.
2. `Runs`, `LiveCore`, `Session` and `Deck`, and their proofs. Done. Open: unique names, pausing
   against starting; `HeardUnlessStopped` and `SoundsAreKnown` as theorems.
3. `CueOrder`: `<=>` of events and thread ids, a total order as a theorem, which justifies the
   moments of `EventHistory`. Done. Open: `CueStamper`, and that the cues a program makes
   have different keys, whatever it does with `time_warp` and threads.
4. `ColdSwap`: `/clockwork/setup` with its debouncing thread, the mutex, the
   gate, the six phases and the retries, against runs that play; that the last
   device change is followed by a swap.
5. `WithFx`: the block, its GC threads, tracker, bus and group, against Stop;
   composed with the bus allocator and its reset (`Busses`).
6. `IncomingEvents` and `Node`: bounded queue, handlers, life of a node.
7. `Rpc`: an abstract "one answer per request" and its implementation with
   tokens, timeouts and reconnection, as a refinement; theorem: no stale answer.
8. `Daemon`: kill switch, safe exit, unexpected exits.
9. `Scheduler`: the web runtime's cooperative threads, fx frames and their frees;
   `Workspace`: two tabs over one store.
