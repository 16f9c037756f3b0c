-------------------------------- MODULE Runs --------------------------------
(***************************************************************************)
(* The life of a run: __spider_eval and __in_thread of Runtime, the Jobs   *)
(* table, and Stop.                                                        *)
(*                                                                         *)
(* A run j has a main thread, also called j, which starts the run's first  *)
(* in_thread and ends; every in_thread may start others.  Parent is the    *)
(* tree of the program's in_threads: a thread is born at most once.  For   *)
(* every thread a GC thread waits for it and for its descendants, then     *)
(* takes it out of its parent's list; the run's own GC thread waits for    *)
(* the first in_thread and takes the run out of the tables.  Stoppers walk *)
(* the runs and kill their threads: whoever calls __stop_jobs (StopAll) or *)
(* __stop_job (StopOne), and the threads whose user code calls reboot      *)
(* (Rebooters, __stop_other_jobs).                                         *)
(*                                                                         *)
(* @job_subthread_mutex and the subthread mutexes are never held across a  *)
(* step here.  @user_jobs' monitor and @@stop_job_mutex are, and so are    *)
(* the no_kill monitors: inNoKill is the set of threads inside their own.  *)
(***************************************************************************)
CONSTANTS Jobs, Threads,
          Parent,     \* [Threads -> Jobs \cup Threads]: who calls in_thread
          JobOf,      \* [Threads -> Jobs]
          NameOf,     \* [Threads -> Names \cup {Nobody}]: the name: opt
          Names, StopAll, StopOne, Rebooters, Nobody

Nodes == Jobs \cup Threads
Stoppers == StopAll \cup StopOne \cup Rebooters

ASSUME NodesAssumption == Jobs \cap Threads = {} /\ Nobody \notin Nodes \cup Names \cup Stoppers
ASSUME TreeAssumption == /\ Parent \in [Threads -> Nodes] /\ JobOf \in [Threads -> Jobs]
                         /\ \A t \in Threads : /\ Parent[t] \in Jobs => JobOf[t] = Parent[t]
                                               /\ Parent[t] \in Threads => JobOf[t] = JobOf[Parent[t]]
\* Every in_thread descends from a main thread.
ASSUME DescentAssumption == \A S \in SUBSET Threads :
  (\A t \in Threads : Parent[t] \in Jobs \cup S => t \in S) => S = Threads
\* The main thread calls in_thread once.
ASSUME RootAssumption == \A j \in Jobs : \E t \in Threads :
                           {u \in Threads : Parent[u] = j} = {t}
ASSUME NamesAssumption == NameOf \in [Threads -> Names \cup {Nobody}]
ASSUME StoppersAssumption == Rebooters \subseteq Threads /\ (StopAll \cup StopOne) \cap Nodes = {}

Root(j) == CHOOSE t \in Threads : Parent[t] = j

VARIABLES
  pc,         \* where each main thread and in_thread is
  spawning,   \* the in_thread a thread is creating
  inNoKill,   \* threads that hold their no_kill monitor, with the flag set
  children,   \* :sonic_pi_local_spider_subthreads of each thread
  allowed,    \* threads whose reg_with_parent_completed is delivered
  emptied,    \* threads whose subthread_empty promise is delivered
  gc,         \* where the GC thread of each in_thread is
  jobs,       \* the runs in @user_jobs
  registered, \* the runs in @job_subthreads
  subs,       \* the threads @job_subthreads has for each run
  names,      \* @named_subthreads
  started,    \* runs whose start_t promise is delivered
  jobGc,      \* where the GC thread of each run is
  paused,     \* @paused of the studio
  jobsMut, stopMut,      \* the holders of the two locks
  at, todo, victim, doomed, target   \* the stoppers' program counters and locals

threadVars == <<pc, spawning, inNoKill, children, allowed>>
gcVars == <<emptied, gc, jobGc>>
tableVars == <<registered, subs, names>>
stopVars == <<jobsMut, stopMut, at, todo, victim, doomed, target>>
vars == <<threadVars, gcVars, tableVars, jobs, started, paused, stopVars>>

Dead(n) == pc[n] = "dead"

Init ==
  /\ pc = [n \in Nodes |-> "off"]
  /\ spawning = [n \in Nodes |-> Nobody]
  /\ inNoKill = {} /\ allowed = {} /\ emptied = {}
  /\ children = [n \in Nodes |-> {}]
  /\ gc = [t \in Threads |-> "off"]
  /\ jobs = {} /\ registered = {} /\ started = {}
  /\ subs = [j \in Jobs |-> {}]
  /\ names = [n \in Names |-> Nobody]
  /\ jobGc = [j \in Jobs |-> "off"]
  /\ paused = TRUE
  /\ jobsMut = Nobody /\ stopMut = Nobody
  /\ at = [s \in Stoppers |-> "idle"]
  /\ todo = [s \in Stoppers |-> {}]
  /\ victim = [s \in Stoppers |-> Nobody]
  /\ doomed = [s \in Stoppers |-> {}]
  /\ target = [s \in Stoppers |-> Nobody]

Goto(n, from, to) == pc[n] = from /\ pc' = [pc EXCEPT ![n] = to]
GoGc(t, from, to) == gc[t] = from /\ gc' = [gc EXCEPT ![t] = to]
GoJobGc(j, from, to) == jobGc[j] = from /\ jobGc' = [jobGc EXCEPT ![j] = to]
GoStop(s, from, to) == at[s] = from /\ at' = [at EXCEPT ![s] = to]

-----------------------------------------------------------------------------
(* __spider_eval: the main thread.                                         *)

\* Thread.new: the main thread exists before the run is in @user_jobs.
Eval(j) == /\ Goto(j, "off", "new")
           /\ UNCHANGED <<spawning, inNoKill, children, allowed, gcVars, tableVars, jobs,
                          started, paused, stopVars>>

\* The evaluating thread goes on: add_job, and the run's GC thread.
AddJob(j) == /\ pc[j] # "off"
             /\ GoJobGc(j, "off", "join")
             /\ jobsMut = Nobody
             /\ jobs' = jobs \cup {j}
             /\ UNCHANGED <<threadVars, emptied, gc, tableVars, started, paused, stopVars>>

Register(j) == /\ Goto(j, "new", "init")
               /\ registered' = registered \cup {j}
               /\ subs' = [subs EXCEPT ![j] = {}]
               /\ UNCHANGED <<spawning, inNoKill, children, allowed, gcVars, names, jobs,
                              started, paused, stopVars>>

\* The init hook: the studio resumes.
StartStudio(j) == /\ Goto(j, "init", "ready")
                  /\ paused' = FALSE
                  /\ UNCHANGED <<spawning, inNoKill, children, allowed, gcVars, tableVars,
                                 jobs, started, stopVars>>

\* The init hook or the preparser raises: the main thread ends without having
\* delivered start_t.
Abort(j) == /\ pc[j] \in {"init", "ready"}
            /\ pc' = [pc EXCEPT ![j] = "dead"]
            /\ UNCHANGED <<spawning, inNoKill, children, allowed, gcVars, tableVars, jobs,
                           started, paused, stopVars>>

\* start_t is delivered and the main thread ends.
Deliver(j) == /\ Goto(j, "deliver", "dead")
              /\ started' = started \cup {j}
              /\ UNCHANGED <<spawning, inNoKill, children, allowed, gcVars, tableVars, jobs,
                             paused, stopVars>>

-----------------------------------------------------------------------------
(* __in_thread, on the side of the parent: all of it in its no_kill block. *)

BeginSpawn(p, t) ==
  /\ Parent[t] = p /\ pc[t] = "off"
  /\ pc[p] = IF p \in Jobs THEN "ready" ELSE "running"
  /\ pc' = [pc EXCEPT ![p] = "created", ![t] = "born"]
  /\ spawning' = [spawning EXCEPT ![p] = t]
  /\ inNoKill' = inNoKill \cup {p}
  /\ gc' = [gc EXCEPT ![t] = "join"]
  /\ UNCHANGED <<children, allowed, emptied, jobGc, tableVars, jobs, started, paused, stopVars>>

\* A mutant: the parent lists itself.
ListSelf(p) == /\ Goto(p, "created", "listed")
               /\ children' = [children EXCEPT ![p] = @ \cup {p}]
               /\ UNCHANGED <<spawning, inNoKill, allowed, gcVars, tableVars, jobs, started,
                              paused, stopVars>>

List(p) == /\ Goto(p, "created", "listed")
           /\ children' = [children EXCEPT ![p] = @ \cup {spawning[p]}]
           /\ UNCHANGED <<spawning, inNoKill, allowed, gcVars, tableVars, jobs, started,
                          paused, stopVars>>

Allow(p) == /\ Goto(p, "listed", "await")
            /\ allowed' = allowed \cup {spawning[p]}
            /\ UNCHANGED <<spawning, inNoKill, children, gcVars, tableVars, jobs, started,
                           paused, stopVars>>

\* subthread_added_prom: the child was added, or died trying.
Spawned(p) == /\ pc[p] = "await" /\ pc[spawning[p]] \notin {"born", "adding"}
              /\ pc' = [pc EXCEPT ![p] = IF p \in Jobs THEN "deliver" ELSE "running"]
              /\ spawning' = [spawning EXCEPT ![p] = Nobody]
              /\ inNoKill' = inNoKill \ {p}
              /\ UNCHANGED <<children, allowed, gcVars, tableVars, jobs, started, paused, stopVars>>

-----------------------------------------------------------------------------
(* __in_thread, on the side of the child.                                  *)

Allowed(t) == /\ t \in allowed
              /\ Goto(t, "born", "adding")
              /\ UNCHANGED <<spawning, inNoKill, children, allowed, gcVars, tableVars, jobs,
                             started, paused, stopVars>>

\* wait_for_parent_thread! times out and finds the parent dead.  The promise
\* may have been delivered between the two.
Orphaned(t) == /\ Dead(Parent[t])
               /\ Goto(t, "born", "dead")
               /\ UNCHANGED <<spawning, inNoKill, children, allowed, gcVars, tableVars, jobs,
                              started, paused, stopVars>>

NameTaken(t) == NameOf[t] # Nobody /\ names[NameOf[t]] # Nobody

\* A mutant: it does not ask whether the run is still there.
AddAnyway(t) == /\ Goto(t, "adding", "running")
                /\ ~NameTaken(t)
                /\ subs' = [subs EXCEPT ![JobOf[t]] = @ \cup {t}]
                /\ names' = [n \in Names |-> IF n = NameOf[t] THEN t ELSE names[n]]
                /\ UNCHANGED <<spawning, inNoKill, children, allowed, gcVars, registered, jobs,
                               started, paused, stopVars>>

\* job_subthread_add: the thread joins its run, and takes its name ...
Add(t) == /\ Goto(t, "adding", "running")
          /\ JobOf[t] \in registered /\ ~NameTaken(t)
          /\ subs' = [subs EXCEPT ![JobOf[t]] = @ \cup {t}]
          /\ names' = [n \in Names |-> IF n = NameOf[t] THEN t ELSE names[n]]
          /\ UNCHANGED <<spawning, inNoKill, children, allowed, gcVars, registered, jobs,
                         started, paused, stopVars>>

\* ... or dies: its run was stopped, or the name exists.
Refused(t) == /\ Goto(t, "adding", "dead")
              /\ JobOf[t] \notin registered \/ NameTaken(t)
              /\ UNCHANGED <<spawning, inNoKill, children, allowed, gcVars, tableVars, jobs,
                             started, paused, stopVars>>

\* A __no_kill_block of user code: with_fx, load_sample, reboot ...
EnterNoKill(t) == /\ Goto(t, "running", "nokill")
                  /\ inNoKill' = inNoKill \cup {t}
                  /\ UNCHANGED <<spawning, children, allowed, gcVars, tableVars, jobs,
                                 started, paused, stopVars>>

\* A mutant: the monitor is not let go of.
LeaveNoKillLocked(t) == /\ Goto(t, "nokill", "running")
                        /\ t \in Rebooters => at[t] = "idle"
                        /\ UNCHANGED <<spawning, inNoKill, children, allowed, gcVars, tableVars,
                                       jobs, started, paused, stopVars>>

LeaveNoKill(t) == /\ Goto(t, "nokill", "running")
                  /\ t \in Rebooters => at[t] = "idle"
                  /\ inNoKill' = inNoKill \ {t}
                  /\ UNCHANGED <<spawning, children, allowed, gcVars, tableVars, jobs,
                                 started, paused, stopVars>>

\* The user's block raises a SyntaxError: the thread ends as it is.
SyntaxErr(t) == /\ Goto(t, "running", "dead")
                /\ UNCHANGED <<spawning, inNoKill, children, allowed, gcVars, tableVars, jobs,
                               started, paused, stopVars>>

\* The block ends, or raises anything else, and the thread's synths have finished.
Finish(t) == /\ Goto(t, "running", "leaving")
             /\ UNCHANGED <<spawning, inNoKill, children, allowed, gcVars, tableVars, jobs,
                            started, paused, stopVars>>

\* job_subthread_rm: whatever thread the name now belongs to.
Leave(t) == /\ Goto(t, "leaving", "dead")
            /\ subs' = [subs EXCEPT ![JobOf[t]] = @ \ {t}]
            /\ names' = [n \in Names |-> IF n = NameOf[t] THEN Nobody ELSE names[n]]
            /\ UNCHANGED <<spawning, inNoKill, children, allowed, gcVars, registered, jobs,
                           started, paused, stopVars>>

-----------------------------------------------------------------------------
(* The GC threads.                                                         *)

\* Two mutants: the GC thread does not look for subthreads, or leaves it to the
\* last of them to deliver the promise.
GcJoinHasty(t) == /\ Dead(t)
                  /\ GoGc(t, "join", "wait")
                  /\ emptied' = emptied \cup {t}
                  /\ UNCHANGED <<threadVars, jobGc, tableVars, jobs, started, paused, stopVars>>

GcJoinOnly(t) == /\ Dead(t)
                 /\ GoGc(t, "join", "wait")
                 /\ UNCHANGED <<threadVars, emptied, jobGc, tableVars, jobs, started, paused,
                                stopVars>>

\* The thread is dead: if it has no subthreads, it never will.
GcJoin(t) == /\ Dead(t)
             /\ GoGc(t, "join", "wait")
             /\ emptied' = emptied \cup (IF children[t] = {} THEN {t} ELSE {})
             /\ UNCHANGED <<threadVars, jobGc, tableVars, jobs, started, paused, stopVars>>

\* All its subthreads are over: it leaves its parent's list, and tells a dead
\* parent whose list is now empty.
GcLeave(t) ==
  LET p == Parent[t] IN
  /\ t \in emptied
  /\ GoGc(t, "wait", "done")
  /\ children' = [children EXCEPT ![p] = @ \ {t}]
  /\ emptied' = emptied \cup (IF Dead(p) /\ children[p] \subseteq {t} THEN {p} ELSE {})
  /\ UNCHANGED <<pc, spawning, inNoKill, allowed, jobGc, tableVars, jobs, started, paused,
                 stopVars>>

\* A mutant: it does not wait for the first in_thread.
JobJoinHasty(j) == /\ Dead(j)
                   /\ GoJobGc(j, "join", "promise")
                   /\ UNCHANGED <<threadVars, emptied, gc, tableVars, jobs, started, paused,
                                  stopVars>>

\* job.join, and the wait for the first in_thread.  A run whose __in_thread
\* never returned has none: it will wait for start_t instead, for ever.
JobJoin(j) == /\ Dead(j)
              /\ j \in started => Root(j) \in emptied
              /\ GoJobGc(j, "join", "promise")
              /\ UNCHANGED <<threadVars, emptied, gc, tableVars, jobs, started, paused, stopVars>>

\* A mutant: the names stay taken.
DeregisterNoNames(j) == /\ registered' = registered \ {j}
                        /\ subs' = [subs EXCEPT ![j] = {}]
                        /\ UNCHANGED names

Deregister(j) == /\ registered' = registered \ {j}
                 /\ subs' = [subs EXCEPT ![j] = {}]
                 /\ names' = [n \in Names |-> IF names[n] # Nobody /\ JobOf[names[n]] = j
                                              THEN Nobody ELSE names[n]]

\* start_t_prom.get, the exit hook (which frees the run's synths and busses)
\* and deregister_job_and_return_subthreads.
JobExit(j) == /\ j \in started
              /\ GoJobGc(j, "promise", "remove")
              /\ Deregister(j)
              /\ UNCHANGED <<threadVars, emptied, gc, jobs, started, paused, stopVars>>

JobCompleted(j) == /\ jobsMut = Nobody
                   /\ GoJobGc(j, "remove", "report")
                   /\ jobs' = jobs \ {j}
                   /\ UNCHANGED <<threadVars, emptied, gc, tableVars, started, paused, stopVars>>

\* any_jobs_running?, half a second later ...
Report(j) == /\ jobsMut = Nobody
             /\ GoJobGc(j, "report", IF jobs = {} THEN "pause" ELSE "done")
             /\ UNCHANGED <<threadVars, emptied, gc, tableVars, jobs, started, paused, stopVars>>

\* ... and all_completed, which pauses the synthesis server.
PauseStudio(j) == /\ GoJobGc(j, "pause", "done")
                  /\ paused' = TRUE
                  /\ UNCHANGED <<threadVars, emptied, gc, tableVars, jobs, started, stopVars>>

-----------------------------------------------------------------------------
(* Stop.                                                                   *)

\* __stop_jobs and __stop_other_jobs: each_id holds the monitor throughout.
PressStop(s) ==
  /\ s \in StopAll \/ (s \in Rebooters /\ pc[s] = "nokill")
  /\ GoStop(s, "idle", "next")
  /\ jobsMut = Nobody /\ jobsMut' = s
  /\ todo' = [todo EXCEPT ![s] = IF s \in Rebooters THEN jobs \ {JobOf[s]} ELSE jobs]
  /\ UNCHANGED <<threadVars, gcVars, tableVars, jobs, started, paused, stopMut, victim,
                 doomed, target>>

NextJob(s) == \E j \in todo[s] :
  /\ GoStop(s, "next", "enter")
  /\ victim' = [victim EXCEPT ![s] = j]
  /\ todo' = [todo EXCEPT ![s] = @ \ {j}]
  /\ UNCHANGED <<threadVars, gcVars, tableVars, jobs, started, paused, jobsMut, stopMut,
                 doomed, target>>

NoMoreJobs(s) ==
  /\ GoStop(s, "next", "idle")
  /\ todo[s] = {}
  /\ jobsMut' = Nobody
  /\ UNCHANGED <<threadVars, gcVars, tableVars, jobs, started, paused, stopMut, todo, victim,
                 doomed, target>>

\* __stop_job on its own: the /stop-job message names any run.
StopJob(s, j) ==
  /\ s \in StopOne /\ pc[j] # "off"
  /\ GoStop(s, "idle", "enter")
  /\ victim' = [victim EXCEPT ![s] = j]
  /\ UNCHANGED <<threadVars, gcVars, tableVars, jobs, started, paused, jobsMut, stopMut, todo,
                 doomed, target>>

EnterStop(s) ==
  /\ GoStop(s, "enter", "check")
  /\ stopMut = Nobody /\ stopMut' = s
  /\ UNCHANGED <<threadVars, gcVars, tableVars, jobs, started, paused, jobsMut, todo, victim,
                 doomed, target>>

After(s) == IF s \in StopOne THEN "idle" ELSE "next"
MayUseJobs(s) == jobsMut \in {Nobody, s}

NotRunning(s) ==
  /\ MayUseJobs(s) /\ victim[s] \notin jobs
  /\ GoStop(s, "check", After(s))
  /\ stopMut' = Nobody
  /\ victim' = [victim EXCEPT ![s] = Nobody]
  /\ UNCHANGED <<threadVars, gcVars, tableVars, jobs, started, paused, jobsMut, todo, doomed,
                 target>>

IsRunning(s) ==
  /\ MayUseJobs(s) /\ victim[s] \in jobs
  /\ GoStop(s, "check", "sweep")
  /\ UNCHANGED <<threadVars, gcVars, tableVars, jobs, started, paused, jobsMut, stopMut, todo,
                 victim, doomed, target>>

\* job_subthreads_kill: no thread can be added to the run from here on.
Sweep(s) ==
  /\ GoStop(s, "sweep", "kill")
  /\ doomed' = [doomed EXCEPT ![s] = subs[victim[s]]]
  /\ Deregister(victim[s])
  /\ UNCHANGED <<threadVars, gcVars, jobs, started, paused, jobsMut, stopMut, todo, victim, target>>

\* __no_kill_block t reads the flag of the thread it is about to kill: one that
\* is in its own no_kill block is killed at once.  A killed thread lets go of
\* the locks it holds.
KillAtOnce(s) == \E t \in doomed[s] \cap inNoKill :
  /\ at[s] = "kill"
  /\ pc' = [pc EXCEPT ![t] = "dead"]
  /\ inNoKill' = inNoKill \ {t}
  /\ doomed' = [doomed EXCEPT ![s] = @ \ {t}]
  /\ at' = [a \in Stoppers |-> IF a = t THEN "idle" ELSE at[a]]
  /\ jobsMut' = IF jobsMut = t THEN Nobody ELSE jobsMut
  /\ UNCHANGED <<spawning, children, allowed, gcVars, tableVars, jobs, started, paused,
                 stopMut, todo, victim, target>>

\* The flag is not set: wait for the thread's monitor ...
AimAt(s) == \E t \in doomed[s] \ inNoKill :
  /\ GoStop(s, "kill", "aim")
  /\ target' = [target EXCEPT ![s] = t]
  /\ doomed' = [doomed EXCEPT ![s] = @ \ {t}]
  /\ UNCHANGED <<threadVars, gcVars, tableVars, jobs, started, paused, jobsMut, stopMut, todo,
                 victim>>

\* ... which it may have entered in the meantime.
KillLocked(s) ==
  /\ target[s] \notin inNoKill
  /\ GoStop(s, "aim", "kill")
  /\ pc' = [pc EXCEPT ![target[s]] = "dead"]
  /\ target' = [target EXCEPT ![s] = Nobody]
  /\ UNCHANGED <<spawning, inNoKill, children, allowed, gcVars, tableVars, jobs, started,
                 paused, jobsMut, stopMut, todo, victim, doomed>>

\* kill_job: the run leaves @user_jobs ...
TakeJob(s) ==
  /\ doomed[s] = {} /\ MayUseJobs(s)
  /\ GoStop(s, "kill", "main")
  /\ jobsMut' = s
  /\ jobs' = jobs \ {victim[s]}
  /\ UNCHANGED <<threadVars, gcVars, tableVars, started, paused, stopMut, todo, victim, doomed,
                 target>>

\* ... and its main thread is killed, out of its no_kill block.
KillMain(s) ==
  /\ victim[s] \notin inNoKill
  /\ GoStop(s, "main", After(s))
  /\ pc' = [pc EXCEPT ![victim[s]] = "dead"]
  /\ jobsMut' = IF s \in StopOne THEN Nobody ELSE s
  /\ stopMut' = Nobody
  /\ victim' = [victim EXCEPT ![s] = Nobody]
  /\ UNCHANGED <<spawning, inNoKill, children, allowed, gcVars, tableVars, jobs, started,
                 paused, todo, doomed, target>>

-----------------------------------------------------------------------------
MainStep(j) == Register(j) \/ StartStudio(j) \/ Deliver(j)

SpawnStep(p) == List(p) \/ Allow(p) \/ Spawned(p)

ThreadStep(t) == \/ Allowed(t) \/ Orphaned(t) \/ Add(t) \/ Refused(t)
                 \/ LeaveNoKill(t) \/ Leave(t)

GcStep(t) == GcJoin(t) \/ GcLeave(t)

JobGcStep(j) == AddJob(j) \/ JobJoin(j) \/ JobExit(j) \/ JobCompleted(j) \/ Report(j) \/ PauseStudio(j)

StopStep(s) == \/ NextJob(s) \/ NoMoreJobs(s) \/ NotRunning(s) \/ IsRunning(s)
               \/ Sweep(s) \/ KillAtOnce(s) \/ AimAt(s) \/ TakeJob(s)

LockStep(s) == EnterStop(s) \/ KillLocked(s) \/ KillMain(s)

Next == \/ \E j \in Jobs : Eval(j) \/ MainStep(j) \/ Abort(j) \/ JobGcStep(j)
        \/ \E p \in Nodes : SpawnStep(p) \/ \E t \in Threads : BeginSpawn(p, t)
        \/ \E t \in Threads : ThreadStep(t) \/ EnterNoKill(t) \/ SyntaxErr(t) \/ Finish(t) \/ GcStep(t)
        \/ \E s \in Stoppers : \/ PressStop(s) \/ StopStep(s) \/ LockStep(s)
                               \/ \E j \in Jobs : StopJob(s, j)

Spec == Init /\ [][Next]_vars

\* Threads outside user code run on, no_kill blocks end, and Ruby's locks let
\* in everyone who waits.  Nothing makes the user run, stop or finish anything.
FairSpec == /\ Spec
            /\ \A j \in Jobs : WF_vars(MainStep(j)) /\ WF_vars(BeginSpawn(j, Root(j)))
            /\ \A j \in Jobs : SF_vars(JobGcStep(j))
            /\ \A p \in Nodes : WF_vars(SpawnStep(p))
            /\ \A t \in Threads : WF_vars(ThreadStep(t)) /\ WF_vars(GcStep(t))
            /\ \A s \in Stoppers : SF_vars(StopStep(s)) /\ SF_vars(LockStep(s))

-----------------------------------------------------------------------------
(* Properties.                                                             *)

TypeOK ==
  /\ pc \in [Nodes -> {"off", "new", "init", "ready", "created", "listed", "await", "deliver",
                       "born", "adding", "running", "nokill", "leaving", "dead"}]
  /\ spawning \in [Nodes -> Threads \cup {Nobody}]
  /\ inNoKill \subseteq Nodes /\ allowed \subseteq Threads /\ emptied \subseteq Nodes
  /\ children \in [Nodes -> SUBSET Threads]
  /\ gc \in [Threads -> {"off", "join", "wait", "done"}]
  /\ jobs \subseteq Jobs /\ registered \subseteq Jobs /\ started \subseteq Jobs
  /\ subs \in [Jobs -> SUBSET Threads]
  /\ names \in [Names -> Threads \cup {Nobody}]
  /\ jobGc \in [Jobs -> {"off", "join", "promise", "remove", "report", "pause", "done"}]
  /\ paused \in BOOLEAN
  /\ jobsMut \in Stoppers \cup {Nobody} /\ stopMut \in Stoppers \cup {Nobody}
  /\ at \in [Stoppers -> {"idle", "next", "enter", "check", "sweep", "kill", "aim", "main"}]
  /\ todo \in [Stoppers -> SUBSET Jobs]
  /\ victim \in [Stoppers -> Jobs \cup {Nobody}]
  /\ doomed \in [Stoppers -> SUBSET Threads]
  /\ target \in [Stoppers -> Threads \cup {Nobody}]

ThreadsOf(j) == {t \in Threads : JobOf[t] = j}
\* Added to its run and not over: what a listener can hear.
Live(t) == pc[t] \in {"running", "nokill", "created", "listed", "await", "leaving"}
Ended(j) == jobGc[j] \in {"remove", "report", "pause", "done"}

\* The exit hook of a run frees its mixer, its group and its bus, and the run
\* is reported completed, only when no thread of the run can play or cue any
\* more, however deep in the tree of in_threads and whichever threads were
\* killed on the way (runtime.rb, the GC threads).
CompletedRunsAreOver == \A j \in Jobs : Ended(j) =>
  \A t \in ThreadsOf(j) : pc[t] \in {"off", "dead"} \/ (pc[t] = "born" /\ t \notin allowed)

\* A node whose subthread_empty promise is delivered is dead, and so is the
\* whole tree below every child it let go: the promise is never early.
EmptiedMeansOver == \A n \in emptied :
  /\ Dead(n)
  /\ \A t \in Threads : Parent[t] = n /\ t \in allowed => t \in emptied

\* Once Stop has taken a run out of both tables, none of its threads is live,
\* and none can become so: neither one that was being created when Stop came,
\* nor one created by a thread that was about to be killed.
StoppedRunsAreSilent == \A j \in Jobs :
  jobGc[j] # "off" /\ j \notin jobs \cup registered => \A t \in ThreadsOf(j) : ~Live(t)

\* A name is held by a thread of a run that still exists, and of which it is a
\* part: no name stays taken when its run has ended or been stopped.
NamesAreHeld == \A n \in Names : names[n] # Nobody =>
  /\ NameOf[names[n]] = n
  /\ JobOf[names[n]] \in registered
  /\ names[n] \in subs[JobOf[names[n]]]

\* Stop returns: it waits for no thread that waits for it, even though runs
\* start, end and spawn threads meanwhile, as long as nobody else stops one.
StopReturns == \A s \in Stoppers : at[s] # "idle" ~> at[s] = "idle"

\* When all threads of a run are over, it leaves both tables, and its exit
\* hook runs, whether it ended or was stopped.
EndedRunsAreCleaned == \A j \in Jobs :
  (j \in started /\ \A t \in ThreadsOf(j) : pc[t] \in {"off", "born", "dead"})
    ~> (j \notin jobs \cup registered /\ Ended(j))

\* This is what a comment says and the code does not keep.

\* "New threads created by this job will be instantly killed" (runtime.rb, the
\* comment in job_subthreads_kill): a run that Stop has gone through has no live
\* thread, registered or not.
NoZombies == \A j \in Jobs :
  jobGc[j] # "off" /\ j \notin jobs /\ (\A s \in Stoppers : victim[s] # j)
    => \A t \in ThreadsOf(j) : ~Live(t)
=============================================================================
