---------------------------- MODULE EventHistory ----------------------------
(***************************************************************************)
(* EventHistory, the Time State behind cue, set, get and sync, and the     *)
(* threads that use it.                                                    *)
(*                                                                         *)
(* The moment of an event is its rank in the order of CueEvent (CueOrder); *)
(* Key says what the events of a moment are compared by.  The tree of path *)
(* segments is the function from paths to the event lists of its leaves,   *)
(* newest event first; which of them a pattern names, and on which an      *)
(* event wakes a sync on it, says PathMatch.  A matcher over values, the   *)
(* arg_matcher: of sync, is the set of values it accepts; no matcher       *)
(* accepts all of Vals.                                                    *)
(*                                                                         *)
(* An action is what one thread does under @process_mut or @matcher_mut,   *)
(* or between two of them.  Stop kills threads anywhere between.           *)
(*                                                                         *)
(* A moment carries the id of a thread, and not always of the thread that  *)
(* is there: sync takes over the event it returns whole (last_sync), until *)
(* the next sleep.  A matcher is filed under the id of the moment it was   *)
(* put at, its handle.                                                     *)
(***************************************************************************)
EXTENDS PathMatch, CueOrder

CONSTANTS Threads,    \* the threads that cue
          Mortal,     \* those of a run: they sync too, and Stop may kill them
          Id,         \* the id of each thread
          Paths,      \* the paths of the events they cue
          Patterns,   \* the patterns they sync on
          Vals,       \* the values events carry
          Matchers,   \* the value matchers in use, sets of values
          MinHistory, \* @min_history_size
          Key,        \* the key of each moment, in their order
          MaxRank,    \* bound: the latest logical moment
          MaxCues     \* bound: how many events are ever inserted

ASSUME ThreadsAssumption == Mortal \subseteq Threads
ASSUME PathsAssumption == Paths # {} /\ Patterns # {} /\ Vals # {}
ASSUME PatternsAssumption == Paths \subseteq Present /\ Patterns \subseteq Asked
ASSUME ValsAssumption == Matchers \subseteq SUBSET Vals
ASSUME MinHistoryAssumption == MinHistory \in Nat \ {0}
ASSUME BoundsAssumption == MaxRank \in Nat /\ MaxCues \in Nat
ASSUME KeyAssumption == /\ Key \in [1 .. MaxRank -> CueKeys]
                        /\ \A r \in 1 .. MaxRank, s \in 1 .. MaxRank :
                             r < s => Compare(Key[r], Key[s]) = -1

ASSUME IdAssumption ==
  /\ Id \in [Threads -> Seq(Int)]
  /\ \A t \in Threads, u \in Threads : Id[t] = Id[u] => t = u
  /\ \A t \in Threads : \E r \in 1 .. MaxRank : Key[r].thread = Id[t]

VARIABLES
  events,     \* [Paths -> Seq(Event)]: the leaves of @state, newest first
  nextId,     \* how many events were inserted: the id of the next one
  unmatched,  \* ids of inserted events whose match pass has not run
  pc,         \* where each thread is in sync or set
  moment,     \* each thread's logical moment (the ge of its sync)
  want, ok,   \* the pattern and the value matcher of its sync
  cueing,     \* the event it has inserted and not yet matched
  matchers,   \* threads with a matcher in @event_matchers
  woken,      \* threads whose promise is delivered
  blind       \* ids of the events matched before the thread's matcher was put

histVars == <<events, nextId>>
syncVars == <<want, ok>>
wakeVars == <<matchers, woken, blind>>
vars == <<events, nextId, unmatched, pc, moment, want, ok, cueing,
          matchers, woken, blind>>

\* The paths whose events a pattern finds, and those whose events wake it.
Finds == [pat \in Patterns |-> {p \in Paths : TreeFinds(pat, p)}]
Wakes == [pat \in Patterns |-> {p \in Paths : MatcherMatches(pat, p)}]

Ranks == 1 .. MaxRank

\* The moments of a thread's own: those its cues have, and its syncs after a sleep.
Own(t) == {r \in Ranks : Key[r].thread = Id[t]}

\* The id that t's matcher is filed under: i of EventHistory#sync.
Handle(t) == Key[moment[t]].thread

\* A run's thread has an id of one part; an in_thread's goes on from its parent's.
IsInThread(t) == Len(Id[t]) > 1

Ids == 0 .. MaxCues - 1
Event == [id : Ids, path : Paths, at : Ranks, val : Vals]

(***************************************************************************)
(* One leaf: a list of events, newest first.                               *)
(***************************************************************************)

\* The index of the first event at or before rank r, Len + 1 if there is none
\* (events.find_index { |e| e <= ge }).
FirstUpTo(evs, r) == Min({i \in 1 .. Len(evs) : evs[i].at <= r} \cup {Len(evs) + 1})

\* Mutant: unshift without bubble_up_sort!.
SinkUnsorted(evs, e) == <<e>> \o evs

\* unshift and bubble_up_sort!: e sinks below the events that come after it.
Sink(evs, e) == LET i == FirstUpTo(evs, e.at)
                IN  SubSeq(evs, 1, i - 1) \o <<e>> \o SubSeq(evs, i, Len(evs))

\* Mutant: every old event goes, @min_history_size is forgotten.
TrimAll(evs, h) == SelectSeq(evs, LAMBDA e : e.at >= h)

\* Auto-trim: pop old events from the end while more than MinHistory remain.
Trim(evs, h) ==
  LET Size == Min({n \in 0 .. Len(evs) :
                     \/ n = Len(evs)
                     \/ n >= MinHistory /\ \A i \in n + 1 .. Len(evs) : evs[i].at < h})
  IN  SubSeq(evs, 1, Size)

\* The indices find_next_event may return the greatest of: the events after
\* rank r that m accepts or, when every event is after r, the last one only.
NextHits(evs, r, m) ==
  LET i == FirstUpTo(evs, r)
      Scanned == IF i <= Len(evs) THEN 1 .. i - 1 ELSE {Len(evs)} \ {0}
  IN  {k \in Scanned : evs[k].val \in m}

FindNext(evs, r, m) == evs[Max(NextHits(evs, r, m))]

\* find_most_recent_event, the lookup of get.
RecentHits(evs, r, m) == {k \in DOMAIN evs : evs[k].at <= r /\ evs[k].val \in m}
FindRecent(evs, r, m) == evs[Min(RecentHits(evs, r, m))]

\* __get with get_next: the earliest of what the leaves named by pat return.
Candidates(pat, r, m) ==
  {FindNext(events[p], r, m) :
     p \in {q \in Finds[pat] : NextHits(events[q], r, m) # {}}}

\* Mutant: the comparison of get, res2 > res, in a sync.
Latest(es) == {e \in es : \A f \in es : e.at >= f.at}
Earliest(es) == {e \in es : \A f \in es : e.at <= f.at}

-----------------------------------------------------------------------------
NoCue == [id |-> MaxCues, path |-> CHOOSE p \in Paths : TRUE, at |-> 0,
          val |-> CHOOSE v \in Vals : TRUE]

SomePattern == CHOOSE pat \in Patterns : TRUE

Init ==
  /\ events = [p \in Paths |-> <<>>]
  /\ nextId = 0 /\ unmatched = {}
  /\ pc = [t \in Threads |-> "idle"]
  /\ moment \in [Threads -> Ranks] /\ \A t \in Threads : moment[t] \in Own(t)
  /\ want = [t \in Threads |-> SomePattern]
  /\ ok = [t \in Threads |-> Vals]
  /\ cueing = [t \in Threads |-> NoCue]
  /\ matchers = {} /\ woken = {}
  /\ blind = [t \in Threads |-> {}]

Goto(t, from, to) == pc[t] = from /\ pc' = [pc EXCEPT ![t] = to]

\* A thread sleeps, by nothing perhaps: its last sync is forgotten, and its moment is
\* again one of its own, no earlier in time.  Within that time it may be an earlier one.
Sleep(t) == /\ t \in Mortal /\ pc[t] = "idle"
            /\ \E r \in Own(t) : /\ Key[r].time >= Key[moment[t]].time
                                 /\ moment' = [moment EXCEPT ![t] = r]
            /\ UNCHANGED <<histVars, unmatched, pc, syncVars, cueing, wakeVars>>

\* sync is called; time_warp is refused in sync, so ge is the thread's moment.
StartSync(t) == /\ t \in Mortal /\ Goto(t, "idle", "seek")
                /\ \E pat \in Patterns, m \in Matchers :
                     /\ want' = [want EXCEPT ![t] = pat]
                     /\ ok' = [ok EXCEPT ![t] = m]
                /\ UNCHANGED <<histVars, unmatched, moment, cueing, wakeVars>>

\* The locals of a sync end with it.
EndSync(t) == /\ want' = [want EXCEPT ![t] = SomePattern]
              /\ ok' = [ok EXCEPT ![t] = Vals]
              /\ blind' = [blind EXCEPT ![t] = {}]

\* Mutant: the thread resumes just after the event.
ReturnLate(t) == /\ \E e \in Earliest(Candidates(want[t], moment[t], ok[t])) :
                      moment' = [moment EXCEPT ![t] = e.at + 1]
                 /\ EndSync(t)

\* sync returns an event: the thread inherits its time (last_sync).
Return(t) == /\ \E e \in Earliest(Candidates(want[t], moment[t], ok[t])) :
                  moment' = [moment EXCEPT ![t] = e.at]
             /\ EndSync(t)

NothingFound(t) == Candidates(want[t], moment[t], ok[t]) = {}

SeekFound(t) == /\ Goto(t, "seek", "idle")
                /\ Return(t)
                /\ UNCHANGED <<histVars, unmatched, cueing, matchers, woken>>

SeekNothing(t) == /\ Goto(t, "seek", "put")
                  /\ NothingFound(t)
                  /\ UNCHANGED <<histVars, unmatched, moment, syncVars, cueing, wakeVars>>

\* A lock later: the matcher is registered, under Handle(t), and the thread waits on
\* its promise.
PutMatcher(t) == /\ Goto(t, "put", "wait")
                 /\ matchers' = matchers \cup {t}
                 /\ blind' = [blind EXCEPT ![t] = (0 .. nextId - 1) \ unmatched]
                 /\ UNCHANGED <<histVars, unmatched, moment, syncVars, cueing, woken>>

Wake(t) == /\ t \in woken
           /\ Goto(t, "wait", "reseek")
           /\ UNCHANGED <<histVars, unmatched, moment, syncVars, cueing, wakeVars>>

ReseekFound(t) == /\ Goto(t, "reseek", "idle")
                  /\ Return(t)
                  /\ woken' = woken \ {t}
                  /\ UNCHANGED <<histVars, unmatched, cueing, matchers>>

\* raise "sync error - couldn't find result": the thread dies.
ReseekNothing(t) == /\ Goto(t, "reseek", "error")
                    /\ NothingFound(t)
                    /\ UNCHANGED <<histVars, unmatched, moment, syncVars, cueing, wakeVars>>

\* cue, set or an incoming OSC or MIDI message: EventHistory#set, first lock.
\* The event may lie before or after the thread's own moment (time_warp); the
\* moment h before which events are too old (Time.now - @history_depth) lies
\* anywhere, since wall-clock time is not tied to logical time.
InsertEvent(t) ==
  /\ Goto(t, "idle", "match")
  /\ nextId < MaxCues
  /\ \E p \in Paths, r \in Own(t), v \in Vals, h \in 0 .. MaxRank + 1 :
       LET e == [id |-> nextId, path |-> p, at |-> r, val |-> v]
       IN  /\ events' = [events EXCEPT ![p] = Trim(Sink(@, e), h)]
           /\ cueing' = [cueing EXCEPT ![t] = e]
  /\ nextId' = nextId + 1
  /\ unmatched' = unmatched \cup {nextId}
  /\ UNCHANGED <<moment, syncVars, wakeVars>>

\* The threads whose matcher accepts e.
Accepts(u, e) == e.path \in Wakes[want[u]] /\ e.val \in ok[u] /\ e.at > moment[u]

Hits(t) == {u \in matchers : Accepts(u, cueing[t])}

\* The pass of thread t over the matchers: the promises of the first set are
\* delivered, the matchers of the second dropped.
Deliver(t, released, dropped) ==
  /\ Goto(t, "match", "idle")
  /\ woken' = woken \cup released
  /\ matchers' = matchers \ dropped
  /\ unmatched' = unmatched \ {cueing[t].id}
  /\ cueing' = [cueing EXCEPT ![t] = NoCue]
  /\ UNCHANGED <<histVars, moment, syncVars, blind>>

\* Mutants: only the first matcher that accepts is served; a served matcher
\* stays in the list.
MatchFirst(t) == \/ Hits(t) = {} /\ Deliver(t, {}, {})
                 \/ \E u \in Hits(t) : Deliver(t, {u}, {u})
MatchAndKeep(t) == Deliver(t, Hits(t), {})

\* EventHistory#set, second lock: deliver the promise of every matcher that
\* accepts the event, and drop it.
MatchEvent(t) == Deliver(t, Hits(t), Hits(t))

\* Stop kills a run's thread wherever it is, or its block ends.
Kill(t) == /\ t \in Mortal
           /\ pc[t] \notin {"dead", "error", "pruned"}
           /\ pc' = [pc EXCEPT ![t] = "dead"]
           /\ UNCHANGED <<histVars, unmatched, moment, syncVars, cueing, wakeVars>>

\* Mutant: ids are compared by the number of their run.
PruneJob(t) ==
  /\ IsInThread(t) /\ pc[t] \in {"dead", "error"}
  /\ pc' = [pc EXCEPT ![t] = "pruned"]
  /\ matchers' = {u \in matchers : Handle(u)[1] # Id[t][1]}
  /\ UNCHANGED <<histVars, unmatched, moment, syncVars, cueing, woken, blind>>

\* The GC thread of an in_thread removes the matchers filed under its id, whoever put
\* them; what it put under another's id stays.  A run's own thread has no GC thread.
\* It holds @get_mut and not @matcher_mut: what two delete_if at once would make of the
\* Array is left out.
Prune(t) ==
  /\ IsInThread(t) /\ pc[t] \in {"dead", "error"}
  /\ pc' = [pc EXCEPT ![t] = "pruned"]
  /\ matchers' = {u \in matchers : Handle(u) # Id[t]}
  /\ UNCHANGED <<histVars, unmatched, moment, syncVars, cueing, woken, blind>>

Step(t) == \/ SeekFound(t) \/ SeekNothing(t) \/ PutMatcher(t) \/ Wake(t)
           \/ ReseekFound(t) \/ ReseekNothing(t) \/ MatchEvent(t) \/ Prune(t)

Next == \E t \in Threads : \/ Sleep(t) \/ StartSync(t) \/ InsertEvent(t)
                            \/ Step(t) \/ Kill(t)

Spec == Init /\ [][Next]_vars

\* A thread inside cue or sync runs on until it has to wait for a promise, and
\* the GC thread of a dead thread gets to prune.  Nothing makes a thread cue,
\* sync or die.
FairSpec == Spec /\ \A t \in Threads : WF_vars(Step(t))
-----------------------------------------------------------------------------
TypeOK ==
  /\ events \in [Paths -> Seq(Event)]
  /\ nextId \in 0 .. MaxCues /\ unmatched \subseteq Ids
  /\ pc \in [Threads -> {"idle", "seek", "put", "wait", "reseek", "match",
                         "dead", "error", "pruned"}]
  /\ moment \in [Threads -> Ranks]
  /\ want \in [Threads -> Patterns] /\ ok \in [Threads -> SUBSET Vals]
  /\ cueing \in [Threads -> Event \cup {NoCue}]
  /\ matchers \subseteq Threads /\ woken \subseteq Threads
  /\ blind \in [Threads -> SUBSET Ids]

Newest(evs) == \A i \in DOMAIN evs, j \in DOMAIN evs : i < j => evs[i].at >= evs[j].at

HistorySorted == \A p \in Paths : Newest(events[p])

\* A lookup finds an event exactly when the pattern it is asked for, read as the
\* tutorial reads it, describes the event's path: the recursion of __get, the
\* collapsing of "**" and matching_ancestors neither lose nor add paths.
TreeSearchIsThePattern ==
  \A t \in Threads : pc[t] \in {"seek", "reseek"} => SearchAgrees

\* An event that a match pass wakes a sleeper with is one its second lookup can
\* find: whatever path the regular expression of EventMatcher accepts, the tree
\* search of EventHistory reaches too, unless the pattern has a "?" or a "[!x]" or
\* begins with a "*": cue "/foo" wakes a sync on "/*/foo", which raises.
WakingImpliesFinding == \A t \in Threads : pc[t] = "match" => MatcherIsFound

\* Where every "**" stands between named segments, and the first is not a "*", the
\* regular expression of EventMatcher differs from the tree search in one thing:
\* its "**" takes a name at least.  Tutorial 10.3 has "/foo/**/baz" match cue
\* "/foo/baz" too: get finds that cue, and its match pass does not wake a sync
\* asleep on the pattern.
WakesWhereEachTakesOne == \A t \in Threads : pc[t] = "match" => MatcherTakesOne

\* Whatever the order in which events arrive and old ones are trimmed, no event of
\* a leaf comes after one that stands before it in the list: <=> says so of every
\* two, though bubble_up_sort! compares the new one with those it passes only.
LeavesFollowCueOrder ==
  \A p \in Paths : \A i \in DOMAIN events[p], j \in DOMAIN events[p] :
    i < j => Compare(Key[events[p][i].at], Key[events[p][j].at]) >= 0

\* Whatever the order in which threads insert events and however the history
\* was trimmed in between, get sees the latest event at or before the moment it
\* asks for, and a sync without a value matcher the earliest one after it
\* (find_most_recent_event and find_next_event stop at the first hit of a list
\* they trust to be sorted).
LookupsAreExact ==
  \A p \in Paths, r \in 0 .. MaxRank :
    LET evs == events[p]
        Before == {i \in DOMAIN evs : evs[i].at <= r}
        After == DOMAIN evs \ Before
    IN  /\ RecentHits(evs, r, Vals) # {} <=> Before # {}
        /\ \A i \in Before : evs[i].at <= FindRecent(evs, r, Vals).at
        /\ NextHits(evs, r, Vals) # {} <=> After # {}
        /\ \A i \in After : evs[i].at >= FindNext(evs, r, Vals).at

\* A sync that was woken and accepts any value never raises "couldn't find
\* result": the event that woke it, or one that came before it, is still there,
\* whatever was inserted, trimmed or killed between the two locks of set and
\* the second lookup.  A value matcher can make it raise: find_next_event applies
\* it to the oldest event alone when all of them are later than the sync.  So can
\* a "?", a "[!x]" or a leading "*" in its pattern, woken by a path the lookup does
\* not reach.
NoSyncError ==
  \A t \in Threads : ok[t] = Vals /\ Plain(want[t]) => pc[t] # "error"

Asleep(t) == pc[t] = "wait" /\ t \notin woken

\* The moment t sleeps from is an event of a thread whose matchers have been pruned.
Robbed(t) == \E c \in Threads : pc[c] = "pruned" /\ Id[c] = Handle(t)

\* The events that would have released a sleeping thread.
Missed(t) == UNION {{events[p][i].id : i \in {j \in DOMAIN events[p] : Accepts(t, events[p][j])}} :
                      p \in Paths}

\* A thread can only sleep through a cue whose match pass ended before its
\* matcher was put, or has not run yet, or if the clean-up of the thread it last
\* synced with has taken its matcher: no pattern, no order of the locks, no other
\* waiter and no other kill makes it miss one.
SleepsOnlyThroughTheGap ==
  \A t \in Threads : Asleep(t) =>
    IF t \in matchers THEN Missed(t) \subseteq unmatched \cup blind[t] ELSE Robbed(t)

\* The doc of sync: block until a matching cue is received, then unblock.  A
\* thread should not be asleep with a later matching event in the history that
\* every set has finished with.
NoLostWakeup == \A t \in Threads : Asleep(t) => Missed(t) \subseteq unmatched

\* A matcher belongs to a thread that sleeps on it or died in its sleep: a thread
\* that returned from sync is not woken a second time.  Of a thread that has been
\* cleaned up, it is there only if filed under another's id: the thread had synced
\* to an event of that other and not slept since.
MatchersHaveSleepers ==
  \A t \in matchers : /\ t \notin woken /\ pc[t] \in {"wait", "dead", "pruned"}
                      /\ pc[t] = "pruned" => Handle(t) # Id[t]

\* A cue from outside the runs, whose threads nobody kills, wakes every sleeper that
\* accepts it and still has its matcher.
CueWakesSleepers ==
  \A t \in Mortal : \A u \in Threads \ Mortal :
    (Asleep(t) /\ t \in matchers /\ pc[u] = "match" /\ Accepts(t, cueing[u]))
      ~> (pc[t] # "wait" \/ Robbed(t))

\* EventHistory implements the promise of the Time State.
Promise == INSTANCE TimeState WITH
  board <- UNION {{events[p][i] : i \in DOMAIN events[p]} : p \in Paths},
  asking <- [t \in Threads |-> IF pc[t] \in {"seek", "put", "wait", "reseek"}
                               THEN <<want[t], ok[t]>> ELSE <<>>],
  Time <- [r \in Ranks |-> Key[r].time]
ImplementsTimeState == Promise!Spec
=============================================================================
