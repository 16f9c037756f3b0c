----------------------------- MODULE RunsProofs -----------------------------
(***************************************************************************)
(* Proofs about Runs, for any tree of in_threads, any number of runs and   *)
(* any number of stoppers of each kind.                                    *)
(***************************************************************************)
EXTENDS Runs, TLAPS

-----------------------------------------------------------------------------
(* The inductive invariant.                                                *)

\* A thread that its parent has not let go has done nothing.
Waits == \A t \in Threads :
  /\ t \notin allowed => pc[t] \in {"off", "born", "dead"}
  /\ pc[t] = "off" => t \notin allowed
  /\ t \in allowed /\ Parent[t] \in Threads => Parent[t] \in allowed

\* The three steps of a parent that creates a thread.
Spawns == \A p \in Nodes :
  /\ pc[p] \in {"created", "listed", "await"} =>
       spawning[p] \in Threads /\ Parent[spawning[p]] = p
  /\ pc[p] \in {"created", "listed"} =>
       /\ pc[spawning[p]] = "born" /\ gc[spawning[p]] = "join"
       /\ spawning[p] \notin allowed
  /\ pc[p] = "listed" => spawning[p] \in children[p]

\* Until its GC thread is done a thread is in its parent's list.
Listed == \A t \in allowed : t \in children[Parent[t]] \/ gc[t] = "done"

\* The subthread_empty promise is not early.
Promised == /\ \A n \in emptied : Dead(n) /\ children[n] = {}
            /\ \A t \in Threads : gc[t] = "done" => t \in emptied

\* Stop only kills threads that were added to their run.
Killable == /\ \A j \in Jobs : subs[j] \subseteq allowed \cap ThreadsOf(j)
            /\ \A s \in Stoppers : /\ doomed[s] \cup ({target[s]} \ {Nobody}) \subseteq allowed

\* What the GC thread of a run has waited for.
Joined == \A j \in Jobs :
  /\ jobGc[j] \in {"promise", "remove", "report", "pause", "done"} =>
       Dead(j) /\ (j \in started => Root(j) \in emptied)
  /\ Ended(j) => j \in started

TreeInv == Waits /\ Spawns /\ Listed /\ Promised /\ Killable /\ Joined

\* No thread of a run that has not got to its program exists.
Fresh == /\ \A t \in Threads : pc[JobOf[t]] \in {"off", "new", "init", "ready"} => pc[t] = "off"
         /\ \A j \in Jobs : pc[j] \in {"off", "new"} => j \notin registered

\* The holder of @@stop_job_mutex, and what it is after.
Locked == \A s \in Stoppers :
  /\ at[s] \in {"check", "sweep", "kill", "aim", "main"} <=> stopMut = s
  /\ stopMut = s /\ s \in Rebooters => victim[s] # JobOf[s]
  /\ at[s] \in {"enter", "check", "sweep", "kill", "aim", "main"} => victim[s] \in Jobs
  /\ s \in Rebooters => JobOf[s] \notin todo[s] /\ (at[s] = "enter" => victim[s] # JobOf[s])
  /\ at[s] \in {"sweep", "kill", "aim"} => victim[s] \in jobs \/ Ended(victim[s])
  /\ at[s] # "aim" => target[s] = Nobody
  /\ at[s] \in {"kill", "aim"} => doomed[s] \cup ({target[s]} \ {Nobody}) \subseteq ThreadsOf(victim[s])

Condemned(t) == \E s \in Stoppers :
  at[s] \in {"kill", "aim"} /\ victim[s] = JobOf[t] /\ t \in doomed[s] \cup {target[s]}

\* A live thread is registered with its run, or a stopper is about to kill it.
Owned == \A t \in Threads :
  Live(t) => (JobOf[t] \in registered /\ t \in subs[JobOf[t]]) \/ Condemned(t)

StopInv == Fresh /\ Locked /\ Owned

IInv == TypeOK /\ TreeInv /\ StopInv /\ NamesAreHeld

-----------------------------------------------------------------------------
(* Types.                                                                  *)

\* What the constants are.
LEMMA ConstantTypes ==
  /\ Nobody \notin Threads /\ Nobody \notin Jobs /\ Nobody \notin Stoppers
  /\ \A t \in Threads : Parent[t] \in Nodes /\ JobOf[t] \in Jobs
  /\ \A t \in Threads : NameOf[t] \in Names \cup {Nobody}
  /\ Rebooters \subseteq Threads
BY NodesAssumption, TreeAssumption, NamesAssumption, StoppersAssumption DEF Nodes

LEMMA DeregisterTypes ==
  ASSUME TypeOK, NEW j \in Jobs, Deregister(j)
  PROVE  /\ registered' \subseteq Jobs
         /\ subs' \in [Jobs -> SUBSET Threads]
         /\ names' \in [Names -> Threads \cup {Nobody}]
BY DEF TypeOK, Deregister

LEMMA TypeInductive ==
  ASSUME TypeOK, Spawns, Locked, [Next]_vars
  PROVE  TypeOK'
<1> USE ConstantTypes DEF TypeOK, threadVars, gcVars, tableVars, stopVars, Goto, GoGc, GoJobGc,
                          GoStop, Nodes
<1>1. ASSUME NEW j \in Jobs, Eval(j) \/ MainStep(j) \/ Abort(j) PROVE TypeOK'
  <2>1. CASE Eval(j) \/ Deliver(j) \/ Abort(j)
    BY <2>1 DEF Eval, Deliver, Abort
  <2>2. CASE Register(j)
    BY <2>2 DEF Register
  <2>3. CASE StartStudio(j)
    BY <2>3 DEF StartStudio
  <2> QED BY <1>1, <2>1, <2>2, <2>3 DEF MainStep
<1>2. ASSUME NEW j \in Jobs, JobGcStep(j) PROVE TypeOK'
  <2>1. CASE AddJob(j) \/ JobJoin(j) \/ JobCompleted(j)
    BY <2>1 DEF AddJob, JobJoin, JobCompleted
  <2>2. CASE JobExit(j)
    BY <2>2, DeregisterTypes DEF JobExit
  <2>3. CASE Report(j)
    <3>1. PICK to \in {"pause", "done"} : GoJobGc(j, "report", to)
      BY <2>3 DEF Report
    <3> QED BY <2>3, <3>1 DEF Report
  <2>4. CASE PauseStudio(j)
    BY <2>4 DEF PauseStudio
  <2> QED BY <1>2, <2>1, <2>2, <2>3, <2>4 DEF JobGcStep
<1>3. ASSUME NEW p \in Nodes, SpawnStep(p) PROVE TypeOK'
  <2>1. CASE List(p)
    BY <2>1 DEF List, Spawns
  <2>2. CASE Allow(p)
    BY <2>2 DEF Allow, Spawns
  <2>3. CASE Spawned(p)
    BY <2>3 DEF Spawned
  <2> QED BY <1>3, <2>1, <2>2, <2>3 DEF SpawnStep
<1>4. ASSUME NEW p \in Nodes, NEW t \in Threads, BeginSpawn(p, t) PROVE TypeOK'
  BY <1>4 DEF BeginSpawn
<1>5. ASSUME NEW t \in Threads, ThreadStep(t) PROVE TypeOK'
  BY <1>5 DEF ThreadStep, Allowed, Orphaned, Add, Refused, LeaveNoKill, Leave
<1>6. ASSUME NEW t \in Threads, EnterNoKill(t) \/ SyntaxErr(t) \/ Finish(t) PROVE TypeOK'
  BY <1>6 DEF EnterNoKill, SyntaxErr, Finish
<1>7. ASSUME NEW t \in Threads, GcStep(t) PROVE TypeOK'
  BY <1>7 DEF GcStep, GcJoin, GcLeave
<1>8. ASSUME NEW s \in Stoppers, PressStop(s) PROVE TypeOK'
  BY <1>8 DEF PressStop
<1>9. ASSUME NEW s \in Stoppers, StopStep(s) PROVE TypeOK'
  <2>1. CASE NextJob(s) \/ NoMoreJobs(s) \/ NotRunning(s) \/ IsRunning(s)
    BY <2>1 DEF NextJob, NoMoreJobs, NotRunning, IsRunning, After
  <2>2. CASE Sweep(s)
    BY <2>2, DeregisterTypes DEF Sweep, Locked
  <2>3. CASE KillAtOnce(s)
    BY <2>3 DEF KillAtOnce
  <2>4. CASE AimAt(s) \/ TakeJob(s)
    BY <2>4 DEF AimAt, TakeJob
  <2> QED BY <1>9, <2>1, <2>2, <2>3, <2>4 DEF StopStep
<1>10. ASSUME NEW s \in Stoppers, LockStep(s) PROVE TypeOK'
  BY <1>10 DEF LockStep, EnterStop, KillLocked, KillMain, After
<1>11. ASSUME NEW s \in Stoppers, NEW j \in Jobs, StopJob(s, j) PROVE TypeOK'
  BY <1>11 DEF StopJob
<1>12. CASE UNCHANGED vars
  BY <1>12 DEF vars
<1> QED BY <1>1, <1>2, <1>3, <1>4, <1>5, <1>6, <1>7, <1>8, <1>9, <1>10, <1>11, <1>12
        DEF Next, Nodes

-----------------------------------------------------------------------------
(* The tree of in_threads.                                                 *)

\* The steps that do not touch the tree.
treeVars == <<pc, spawning, children, allowed, emptied, gc>>

LEMMA TreeFrame ==
  /\ \A j \in Jobs : AddJob(j) \/ JobJoin(j) \/ JobExit(j) \/ JobCompleted(j) \/ Report(j)
                      \/ PauseStudio(j) => UNCHANGED treeVars
  /\ \A s \in Stoppers : PressStop(s) \/ NextJob(s) \/ NoMoreJobs(s) \/ NotRunning(s)
                         \/ IsRunning(s) \/ Sweep(s) \/ AimAt(s) \/ TakeJob(s) \/ EnterStop(s)
                         => UNCHANGED treeVars
  /\ \A s \in Stoppers, j \in Jobs : StopJob(s, j) => UNCHANGED treeVars
  /\ UNCHANGED vars => UNCHANGED treeVars
<1> USE DEF treeVars, threadVars, gcVars
<1>1. ASSUME NEW j \in Jobs
      PROVE  AddJob(j) \/ JobJoin(j) \/ JobExit(j) \/ JobCompleted(j) \/ Report(j)
             \/ PauseStudio(j) => UNCHANGED treeVars
  BY DEF AddJob, JobJoin, JobExit, JobCompleted, Report, PauseStudio
<1>2. ASSUME NEW s \in Stoppers
      PROVE  PressStop(s) \/ NextJob(s) \/ NoMoreJobs(s) \/ NotRunning(s) \/ IsRunning(s)
             \/ Sweep(s) \/ AimAt(s) \/ TakeJob(s) \/ EnterStop(s) => UNCHANGED treeVars
  BY DEF PressStop, NextJob, NoMoreJobs, NotRunning, IsRunning, Sweep, AimAt, TakeJob, EnterStop
<1>3. ASSUME NEW s \in Stoppers, NEW j \in Jobs PROVE StopJob(s, j) => UNCHANGED treeVars
  BY DEF StopJob
<1> QED BY <1>1, <1>2, <1>3 DEF vars

\* The steps that do.
LEMMA TreeSteps ==
  ASSUME [Next]_vars, ~ UNCHANGED treeVars
  PROVE  \/ \E j \in Jobs : Eval(j) \/ Register(j) \/ StartStudio(j) \/ Abort(j) \/ Deliver(j)
         \/ \E p \in Nodes : \/ List(p) \/ Allow(p) \/ Spawned(p)
                             \/ \E t \in Threads : BeginSpawn(p, t)
         \/ \E t \in Threads : \/ Allowed(t) \/ Orphaned(t) \/ Add(t) \/ Refused(t)
                               \/ EnterNoKill(t) \/ LeaveNoKill(t) \/ SyntaxErr(t)
                               \/ Finish(t) \/ Leave(t) \/ GcJoin(t) \/ GcLeave(t)
         \/ \E s \in Stoppers : KillAtOnce(s) \/ KillLocked(s) \/ KillMain(s)
BY TreeFrame, Zenon DEF Next, MainStep, SpawnStep, ThreadStep, GcStep, JobGcStep, StopStep, LockStep

\* Whoever Stop kills is a main thread or was let go by its parent.
LEMMA KillsAllowed ==
  ASSUME TypeOK, Killable, Locked, NEW s \in Stoppers,
         KillAtOnce(s) \/ KillLocked(s) \/ KillMain(s)
  PROVE  \E n \in allowed \cup Jobs \cup {Nobody} :
           /\ pc' = [pc EXCEPT ![n] = "dead"]
           /\ UNCHANGED <<spawning, children, allowed, emptied, gc, jobGc, started, subs>>
<1> USE DEF gcVars, tableVars
<1>1. CASE KillAtOnce(s)
  BY <1>1 DEF KillAtOnce, Killable
<1>2. CASE KillLocked(s)
  <2>1. target[s] \in allowed \cup {Nobody}
    BY DEF Killable
  <2> QED BY <1>2, <2>1 DEF KillLocked
<1>3. CASE KillMain(s)
  <2>1. victim[s] \in Jobs
    BY <1>3 DEF KillMain, Locked, GoStop
  <2> QED BY <1>3, <2>1 DEF KillMain
<1> QED BY <1>1, <1>2, <1>3

\* What the steps of the tree preserve, whoever takes them.
LEMMA WaitsInductive ==
  ASSUME TypeOK, Waits, Spawns, Killable, Locked, [Next]_vars
  PROVE  Waits'
<1> USE ConstantTypes DEF Goto, Nodes
<1> DEFINE W(t) == /\ t \notin allowed => pc[t] \in {"off", "born", "dead"}
                   /\ pc[t] = "off" => t \notin allowed
                   /\ t \in allowed /\ Parent[t] \in Threads => Parent[t] \in allowed
<1>0. SUFFICES ASSUME NEW u \in Threads PROVE W(u)'
  BY DEF Waits
<1>1. /\ pc = [n \in Nodes |-> pc[n]] /\ Jobs \cap Threads = {}
      /\ \A t \in Threads : W(t)
  BY NodesAssumption DEF TypeOK, Waits
<1>2. CASE UNCHANGED treeVars
  BY <1>1, <1>2 DEF treeVars
<1>3. ASSUME NEW j \in Jobs, Eval(j) \/ Register(j) \/ StartStudio(j) \/ Abort(j) \/ Deliver(j)
      PROVE  W(u)'
  BY <1>1, <1>3 DEF Eval, Register, StartStudio, Abort, Deliver
<1>4. ASSUME NEW p \in Nodes, List(p) \/ Allow(p) \/ Spawned(p) PROVE W(u)'
  BY <1>1, <1>4 DEF List, Allow, Spawned, Spawns
<1>5. ASSUME NEW p \in Nodes, NEW t \in Threads, BeginSpawn(p, t) PROVE W(u)'
  BY <1>1, <1>5 DEF BeginSpawn
<1>6. ASSUME NEW t \in Threads, Allowed(t) \/ Orphaned(t) \/ Add(t) \/ Refused(t) PROVE W(u)'
  BY <1>1, <1>6 DEF Allowed, Orphaned, Add, Refused
<1>7. ASSUME NEW t \in Threads, EnterNoKill(t) \/ LeaveNoKill(t) \/ SyntaxErr(t) \/ Finish(t)
                               \/ Leave(t) PROVE W(u)'
  BY <1>1, <1>7 DEF EnterNoKill, LeaveNoKill, SyntaxErr, Finish, Leave
<1>8. ASSUME NEW t \in Threads, GcJoin(t) \/ GcLeave(t) PROVE W(u)'
  BY <1>1, <1>8 DEF GcJoin, GcLeave, threadVars
<1>9. ASSUME NEW s \in Stoppers, KillAtOnce(s) \/ KillLocked(s) \/ KillMain(s) PROVE W(u)'
  BY <1>1, <1>9, KillsAllowed
<1> HIDE DEF W
<1> QED BY <1>2, <1>3, <1>4, <1>5, <1>6, <1>7, <1>8, <1>9, TreeSteps, Zenon

LEMMA SpawnsInductive ==
  ASSUME TypeOK, Waits, Spawns, Killable, Locked, [Next]_vars
  PROVE  Spawns'
<1> USE ConstantTypes DEF Goto, GoGc, Nodes, Dead
<1> DEFINE A(p) == pc[p] \in {"created", "listed", "await"} =>
                     spawning[p] \in Threads /\ Parent[spawning[p]] = p
           B(p, c) == pc[p] \in {"created", "listed"} /\ spawning[p] = c =>
                        pc[c] = "born" /\ gc[c] = "join" /\ c \notin allowed
           C(p, c) == pc[p] = "listed" /\ spawning[p] = c => c \in children[p]
<1>0. SUFFICES ASSUME NEW q \in Nodes, NEW c \in Threads PROVE A(q)' /\ B(q, c)' /\ C(q, c)'
  BY RootAssumption DEF Spawns
<1>1. /\ pc = [n \in Nodes |-> pc[n]] /\ Jobs \cap Threads = {}
      /\ spawning = [n \in Nodes |-> spawning[n]] /\ children = [n \in Nodes |-> children[n]]
      /\ gc = [t \in Threads |-> gc[t]]
  BY NodesAssumption DEF TypeOK
<1>2. A(q) /\ B(q, c) /\ C(q, c)
  BY DEF Spawns
<1>3. CASE UNCHANGED treeVars
  BY <1>2, <1>3 DEF treeVars
<1>4. ASSUME NEW j \in Jobs, Eval(j) \/ Register(j) \/ StartStudio(j) \/ Abort(j) \/ Deliver(j)
      PROVE  A(q)' /\ B(q, c)' /\ C(q, c)'
  BY <1>1, <1>2, <1>4, ZenonT(40) DEF Eval, Register, StartStudio, Abort, Deliver, gcVars
<1>5. ASSUME NEW p \in Nodes, List(p) \/ Allow(p) \/ Spawned(p) PROVE  A(q)' /\ B(q, c)' /\ C(q, c)'
  <2>1. CASE List(p)
    BY <1>1, <1>2, <2>1 DEF List, gcVars
  <2>2. CASE Allow(p)
    <3>1. p # q => spawning[p] # c \/ spawning[q] # c \/ pc[q] \notin {"created", "listed"}
      BY <2>2 DEF Allow, Spawns
    <3> QED BY <1>1, <1>2, <2>2, <3>1 DEF Allow, gcVars
  <2>3. CASE Spawned(p)
    BY <1>1, <1>2, <2>3 DEF Spawned, gcVars
  <2> QED BY <1>5, <2>1, <2>2, <2>3
<1>6. ASSUME NEW p \in Nodes, NEW t \in Threads, BeginSpawn(p, t) PROVE A(q)' /\ B(q, c)' /\ C(q, c)'
  BY <1>1, <1>2, <1>6 DEF BeginSpawn, Waits
<1>7. ASSUME NEW t \in Threads, Allowed(t) \/ Orphaned(t) \/ Add(t) \/ Refused(t)
      PROVE  A(q)' /\ B(q, c)' /\ C(q, c)'
  <2>1. CASE Allowed(t) \/ Add(t) \/ Refused(t)
    BY <1>1, <1>2, <2>1, SMTT(20) DEF Allowed, Add, Refused, gcVars
  <2>2. CASE Orphaned(t)
    BY <1>1, <1>2, <2>2 DEF Orphaned, gcVars
  <2> QED BY <1>7, <2>1, <2>2
<1>8. ASSUME NEW t \in Threads, EnterNoKill(t) \/ LeaveNoKill(t) \/ SyntaxErr(t) \/ Finish(t)
                               \/ Leave(t)
      PROVE  A(q)' /\ B(q, c)' /\ C(q, c)'
  BY <1>1, <1>2, <1>8, ZenonT(40) DEF EnterNoKill, LeaveNoKill, SyntaxErr, Finish, Leave, gcVars
<1>9. ASSUME NEW t \in Threads, GcJoin(t) \/ GcLeave(t) PROVE A(q)' /\ B(q, c)' /\ C(q, c)'
  <2>1. CASE GcJoin(t)
    BY <1>1, <1>2, <2>1 DEF GcJoin, threadVars
  <2>2. CASE GcLeave(t)
    BY <1>1, <1>2, <2>2 DEF GcLeave
  <2> QED BY <1>9, <2>1, <2>2
<1>10. ASSUME NEW s \in Stoppers, KillAtOnce(s) \/ KillLocked(s) \/ KillMain(s)
       PROVE  A(q)' /\ B(q, c)' /\ C(q, c)'
  BY <1>1, <1>2, <1>10, KillsAllowed, SMTT(20)
<1> HIDE DEF A, B, C
<1> QED BY <1>3, <1>4, <1>5, <1>6, <1>7, <1>8, <1>9, <1>10, TreeSteps, Zenon

LEMMA ListedInductive ==
  ASSUME TypeOK, Waits, Spawns, Listed, Killable, Locked, [Next]_vars
  PROVE  Listed'
<1> USE ConstantTypes DEF Goto, GoGc, Nodes
<1> DEFINE L(t) == t \in allowed => t \in children[Parent[t]] \/ gc[t] = "done"
<1>0. SUFFICES ASSUME NEW u \in Threads PROVE L(u)'
  <2>1. allowed' \subseteq Threads
    BY TypeInductive DEF TypeOK
  <2> QED BY <2>1 DEF Listed
<1>1. /\ children = [n \in Nodes |-> children[n]] /\ gc = [t \in Threads |-> gc[t]]
      /\ \A t \in Threads : L(t)
  BY DEF TypeOK, Listed
<1>2. CASE UNCHANGED treeVars
  BY <1>1, <1>2 DEF treeVars
<1>3. ASSUME NEW j \in Jobs, Eval(j) \/ Register(j) \/ StartStudio(j) \/ Abort(j) \/ Deliver(j)
      PROVE  L(u)'
  BY <1>1, <1>3 DEF Eval, Register, StartStudio, Abort, Deliver, gcVars
<1>4. ASSUME NEW p \in Nodes, List(p) \/ Allow(p) \/ Spawned(p) PROVE L(u)'
  BY <1>1, <1>4 DEF List, Allow, Spawned, gcVars, Spawns
<1>5. ASSUME NEW p \in Nodes, NEW t \in Threads, BeginSpawn(p, t) PROVE L(u)'
  BY <1>1, <1>5 DEF BeginSpawn, gcVars, Waits
<1>6. ASSUME NEW t \in Threads, Allowed(t) \/ Orphaned(t) \/ Add(t) \/ Refused(t) PROVE L(u)'
  BY <1>1, <1>6 DEF Allowed, Orphaned, Add, Refused, gcVars
<1>7. ASSUME NEW t \in Threads, EnterNoKill(t) \/ LeaveNoKill(t) \/ SyntaxErr(t) \/ Finish(t)
                               \/ Leave(t) PROVE L(u)'
  BY <1>1, <1>7 DEF EnterNoKill, LeaveNoKill, SyntaxErr, Finish, Leave, gcVars
<1>8. ASSUME NEW t \in Threads, GcJoin(t) \/ GcLeave(t) PROVE L(u)'
  BY <1>1, <1>8 DEF GcJoin, GcLeave, threadVars
<1>9. ASSUME NEW s \in Stoppers, KillAtOnce(s) \/ KillLocked(s) \/ KillMain(s) PROVE L(u)'
  BY <1>1, <1>9, KillsAllowed
<1> HIDE DEF L
<1> QED BY <1>2, <1>3, <1>4, <1>5, <1>6, <1>7, <1>8, <1>9, TreeSteps, Zenon

LEMMA PromisedInductive ==
  ASSUME TypeOK, Waits, Spawns, Promised, Killable, Locked, [Next]_vars
  PROVE  Promised'
<1> USE ConstantTypes DEF Goto, GoGc, Nodes, Dead
<1> DEFINE P(n) == n \in emptied => Dead(n) /\ children[n] = {}
           D(t) == t \in Threads /\ gc[t] = "done" => t \in emptied
<1>0. SUFFICES ASSUME NEW m \in Nodes PROVE P(m)' /\ D(m)'
  <2>1. emptied' \subseteq Nodes
    BY TypeInductive DEF TypeOK
  <2> QED BY <2>1 DEF Promised
<1>1. /\ pc = [n \in Nodes |-> pc[n]] /\ Jobs \cap Threads = {}
      /\ children = [n \in Nodes |-> children[n]] /\ gc = [t \in Threads |-> gc[t]]
      /\ \A n \in Nodes : P(n) /\ D(n)
  BY NodesAssumption DEF TypeOK, Promised
<1>2. CASE UNCHANGED treeVars
  BY <1>1, <1>2 DEF treeVars
<1>3. ASSUME NEW j \in Jobs, Eval(j) \/ Register(j) \/ StartStudio(j) \/ Abort(j) \/ Deliver(j)
      PROVE  P(m)' /\ D(m)'
  BY <1>1, <1>3 DEF Eval, Register, StartStudio, Abort, Deliver, gcVars
<1>4. ASSUME NEW p \in Nodes, List(p) \/ Allow(p) \/ Spawned(p) PROVE P(m)' /\ D(m)'
  BY <1>1, <1>4 DEF List, Allow, Spawned, gcVars
<1>5. ASSUME NEW p \in Nodes, NEW t \in Threads, BeginSpawn(p, t) PROVE P(m)' /\ D(m)'
  BY <1>1, <1>5 DEF BeginSpawn, gcVars
<1>6. ASSUME NEW t \in Threads, Allowed(t) \/ Orphaned(t) \/ Add(t) \/ Refused(t) PROVE P(m)' /\ D(m)'
  BY <1>1, <1>6 DEF Allowed, Orphaned, Add, Refused, gcVars
<1>7. ASSUME NEW t \in Threads, EnterNoKill(t) \/ LeaveNoKill(t) \/ SyntaxErr(t) \/ Finish(t)
                               \/ Leave(t) PROVE P(m)' /\ D(m)'
  BY <1>1, <1>7 DEF EnterNoKill, LeaveNoKill, SyntaxErr, Finish, Leave, gcVars
<1>8. ASSUME NEW t \in Threads, GcJoin(t) \/ GcLeave(t) PROVE P(m)' /\ D(m)'
  BY <1>1, <1>8 DEF GcJoin, GcLeave, threadVars
<1>9. ASSUME NEW s \in Stoppers, KillAtOnce(s) \/ KillLocked(s) \/ KillMain(s) PROVE P(m)' /\ D(m)'
  BY <1>1, <1>9, KillsAllowed
<1> HIDE DEF P, D
<1> QED BY <1>2, <1>3, <1>4, <1>5, <1>6, <1>7, <1>8, <1>9, TreeSteps, Zenon

\* A thread that is dead stays dead, one that was let go was let go for good,
\* and a promise is delivered for good.
LEMMA TreeGrows ==
  ASSUME TypeOK, Spawns, Killable, Locked, [Next]_vars
  PROVE  /\ \A n \in Nodes : Dead(n) => Dead(n)'
         /\ allowed \subseteq allowed'
         /\ emptied \subseteq emptied'
<1> USE ConstantTypes DEF Goto, GoGc, Nodes, Dead
<1> DEFINE Q == /\ \A n \in Nodes : Dead(n) => Dead(n)'
                /\ allowed \subseteq allowed'
                /\ emptied \subseteq emptied'
<1>1. pc = [n \in Nodes |-> pc[n]] /\ Jobs \cap Threads = {}
  BY NodesAssumption DEF TypeOK
<1>2. ASSUME UNCHANGED treeVars PROVE Q
  BY <1>2 DEF treeVars
<1>3. ASSUME NEW j \in Jobs, Eval(j) \/ Register(j) \/ StartStudio(j) \/ Abort(j) \/ Deliver(j)
      PROVE  Q
  BY <1>1, <1>3 DEF Eval, Register, StartStudio, Abort, Deliver, gcVars
<1>4. ASSUME NEW p \in Nodes, List(p) \/ Allow(p) \/ Spawned(p) PROVE Q
  BY <1>1, <1>4 DEF List, Allow, Spawned, gcVars
<1>5. ASSUME NEW p \in Nodes, NEW t \in Threads, BeginSpawn(p, t) PROVE Q
  BY <1>1, <1>5 DEF BeginSpawn
<1>6. ASSUME NEW t \in Threads, Allowed(t) \/ Orphaned(t) \/ Add(t) \/ Refused(t) PROVE Q
  BY <1>1, <1>6 DEF Allowed, Orphaned, Add, Refused, gcVars
<1>7. ASSUME NEW t \in Threads, EnterNoKill(t) \/ LeaveNoKill(t) \/ SyntaxErr(t) \/ Finish(t)
                               \/ Leave(t) PROVE Q
  BY <1>1, <1>7 DEF EnterNoKill, LeaveNoKill, SyntaxErr, Finish, Leave, gcVars
<1>8. ASSUME NEW t \in Threads, GcJoin(t) \/ GcLeave(t) PROVE Q
  BY <1>1, <1>8 DEF GcJoin, GcLeave, threadVars
<1>9. ASSUME NEW s \in Stoppers, KillAtOnce(s) \/ KillLocked(s) \/ KillMain(s) PROVE Q
  BY <1>1, <1>9, KillsAllowed
<1> HIDE DEF Q
<1>10. Q
  BY <1>2, <1>3, <1>4, <1>5, <1>6, <1>7, <1>8, <1>9, TreeSteps, Zenon
<1> QED BY <1>10 DEF Q

\* The tables only take in threads that were let go.
LEMMA KillableInductive ==
  ASSUME TypeOK, Waits, Spawns, Killable, Locked, [Next]_vars
  PROVE  Killable'
<1> DEFINE K == /\ \A j \in Jobs : subs'[j] \subseteq allowed \cap ThreadsOf(j)
                /\ \A s \in Stoppers : doomed'[s] \cup ({target'[s]} \ {Nobody}) \subseteq allowed
           F == subs' = subs /\ doomed' = doomed /\ target' = target
<1> USE ConstantTypes DEF threadVars, gcVars, tableVars, stopVars, Goto, GoGc, GoJobGc, GoStop,
                          ThreadsOf
<1>1. /\ subs = [j \in Jobs |-> subs[j]] /\ doomed = [s \in Stoppers |-> doomed[s]]
      /\ target = [s \in Stoppers |-> target[s]]
  BY DEF TypeOK
<1>2. SUFFICES K
  BY <1>2, TreeGrows DEF Killable
<1>3. F => K
  BY DEF Killable
<1>4. ASSUME NEW j \in Jobs, Eval(j) \/ MainStep(j) \/ Abort(j) PROVE K
  <2>1. CASE Register(j)
    BY <1>1, <2>1 DEF Register, Killable
  <2> QED BY <1>3, <1>4, <2>1 DEF MainStep, Eval, StartStudio, Deliver, Abort
<1>5. ASSUME NEW j \in Jobs, JobGcStep(j) PROVE K
  <2>1. CASE JobExit(j)
    BY <1>1, <2>1 DEF JobExit, Deregister, Killable
  <2> QED BY <1>3, <1>5, <2>1 DEF JobGcStep, AddJob, JobJoin, JobCompleted, Report, PauseStudio
<1>6. ASSUME NEW p \in Nodes, SpawnStep(p) PROVE K
  BY <1>3, <1>6 DEF SpawnStep, List, Allow, Spawned
<1>7. ASSUME NEW p \in Nodes, NEW t \in Threads, BeginSpawn(p, t) PROVE K
  BY <1>3, <1>7 DEF BeginSpawn
<1>8. ASSUME NEW t \in Threads, ThreadStep(t) PROVE K
  <2>1. CASE Add(t)
    <3>1. t \in allowed
      BY <2>1 DEF Add, Waits
    <3> QED BY <1>1, <2>1, <3>1 DEF Add, Killable
  <2>2. CASE Leave(t)
    BY <1>1, <2>2 DEF Leave, Killable
  <2> QED BY <1>3, <1>8, <2>1, <2>2 DEF ThreadStep, Allowed, Orphaned, Refused, LeaveNoKill
<1>9. ASSUME NEW t \in Threads, EnterNoKill(t) \/ SyntaxErr(t) \/ Finish(t) \/ GcStep(t) PROVE K
  BY <1>3, <1>9 DEF EnterNoKill, SyntaxErr, Finish, GcStep, GcJoin, GcLeave
<1>10. ASSUME NEW s \in Stoppers, StopStep(s) PROVE K
  <2>1. CASE Sweep(s)
    <3>1. victim[s] \in Jobs
      BY <2>1 DEF Sweep, Locked
    <3> QED BY <1>1, <2>1, <3>1 DEF Sweep, Deregister, Killable
  <2>2. CASE KillAtOnce(s)
    BY <1>1, <2>2 DEF KillAtOnce, Killable
  <2>3. CASE AimAt(s)
    BY <1>1, <2>3 DEF AimAt, Killable
  <2> QED BY <1>3, <1>10, <2>1, <2>2, <2>3
          DEF StopStep, NextJob, NoMoreJobs, NotRunning, IsRunning, TakeJob
<1>11. ASSUME NEW s \in Stoppers, LockStep(s) PROVE K
  <2>1. CASE KillLocked(s)
    BY <1>1, <2>1 DEF KillLocked, Killable
  <2> QED BY <1>3, <1>11, <2>1 DEF LockStep, EnterStop, KillMain
<1>12. ASSUME NEW s \in Stoppers, PressStop(s) \/ \E j \in Jobs : StopJob(s, j) PROVE K
  BY <1>3, <1>12 DEF PressStop, StopJob
<1>13. CASE UNCHANGED vars
  BY <1>3, <1>13 DEF vars
<1> HIDE DEF K, F
<1> QED BY <1>4, <1>5, <1>6, <1>7, <1>8, <1>9, <1>10, <1>11, <1>12, <1>13, Zenon DEF Next

\* The GC thread of a run has joined its main thread and its first in_thread.
LEMMA JoinedInductive ==
  ASSUME TypeOK, Spawns, Killable, Joined, Locked, [Next]_vars
  PROVE  Joined'
<1> DEFINE J(j) == /\ jobGc[j] \in {"promise", "remove", "report", "pause", "done"} =>
                        Dead(j) /\ (j \in started => Root(j) \in emptied)
                   /\ Ended(j) => j \in started
           F == started' = started /\ jobGc' = jobGc
<1> USE ConstantTypes DEF threadVars, gcVars, tableVars, stopVars, Goto, GoGc, GoJobGc, GoStop,
                          Dead, Ended
<1>0. SUFFICES ASSUME NEW i \in Jobs PROVE J(i)'
  BY DEF Joined
<1>1. jobGc = [j \in Jobs |-> jobGc[j]] /\ J(i)
  BY DEF TypeOK, Joined
<1>2. (Dead(i) => Dead(i)') /\ emptied \subseteq emptied'
  BY TreeGrows DEF Nodes
<1>3. F => J(i)'
  BY <1>1, <1>2
<1>4. ASSUME NEW j \in Jobs, Eval(j) \/ MainStep(j) \/ Abort(j) PROVE J(i)'
  <2>1. CASE Deliver(j)
    BY <1>1, <1>2, <2>1 DEF Deliver
  <2> QED BY <1>3, <1>4, <2>1 DEF MainStep, Eval, StartStudio, Register, Abort
<1>5. ASSUME NEW j \in Jobs, JobGcStep(j) PROVE J(i)'
  <2>1. CASE AddJob(j) \/ JobJoin(j) \/ JobCompleted(j)
    BY <1>1, <1>2, <2>1 DEF AddJob, JobJoin, JobCompleted
  <2>2. CASE JobExit(j) \/ PauseStudio(j)
    BY <1>1, <1>2, <2>2 DEF JobExit, PauseStudio
  <2>3. CASE Report(j)
    <3>1. PICK to \in {"pause", "done"} : GoJobGc(j, "report", to)
      BY <2>3 DEF Report
    <3> QED BY <1>1, <1>2, <2>3, <3>1 DEF Report
  <2> QED BY <1>5, <2>1, <2>2, <2>3 DEF JobGcStep
<1>6. ASSUME NEW p \in Nodes, SpawnStep(p) PROVE J(i)'
  BY <1>3, <1>6 DEF SpawnStep, List, Allow, Spawned
<1>7. ASSUME NEW p \in Nodes, NEW t \in Threads, BeginSpawn(p, t) PROVE J(i)'
  BY <1>3, <1>7 DEF BeginSpawn
<1>8. ASSUME NEW t \in Threads, ThreadStep(t) PROVE J(i)'
  BY <1>3, <1>8 DEF ThreadStep, Allowed, Orphaned, Add, Refused, LeaveNoKill, Leave
<1>9. ASSUME NEW t \in Threads, EnterNoKill(t) \/ SyntaxErr(t) \/ Finish(t) \/ GcStep(t)
      PROVE  J(i)'
  BY <1>3, <1>9 DEF EnterNoKill, SyntaxErr, Finish, GcStep, GcJoin, GcLeave
<1>10. ASSUME NEW s \in Stoppers, StopStep(s) PROVE J(i)'
  BY <1>3, <1>10 DEF StopStep, NextJob, NoMoreJobs, NotRunning, IsRunning, Sweep, KillAtOnce,
                     AimAt, TakeJob
<1>11. ASSUME NEW s \in Stoppers, LockStep(s) PROVE J(i)'
  BY <1>3, <1>11 DEF LockStep, EnterStop, KillLocked, KillMain
<1>12. ASSUME NEW s \in Stoppers, PressStop(s) \/ \E j \in Jobs : StopJob(s, j) PROVE J(i)'
  BY <1>3, <1>12 DEF PressStop, StopJob
<1>13. CASE UNCHANGED vars
  BY <1>3, <1>13 DEF vars
<1> HIDE DEF J, F
<1> QED BY <1>4, <1>5, <1>6, <1>7, <1>8, <1>9, <1>10, <1>11, <1>12, <1>13, Zenon DEF Next

\* When the first in_thread of a run is over, so is every one that was let go,
\* down the whole tree: the set of those that are is closed under Parent.
LEMMA TreeIsOver ==
  ASSUME TypeOK, Waits, Listed, Promised, NEW j \in Jobs, Root(j) \in emptied
  PROVE  \A t \in ThreadsOf(j) : t \in allowed => t \in emptied
<1> DEFINE S == {t \in Threads : JobOf[t] = j /\ t \in allowed => t \in emptied}
<1>1. ASSUME NEW t \in Threads, Parent[t] \in Jobs \cup S, JobOf[t] = j, t \in allowed
      PROVE  t \in emptied
  <2>1. CASE Parent[t] \in Jobs
    <3>1. Parent[t] = j
      BY <1>1, <2>1, TreeAssumption
    <3>2. PICK r \in Threads : {u \in Threads : Parent[u] = j} = {r}
      BY RootAssumption
    <3>3. r = t /\ \A u \in Threads : Parent[u] = j => u = t
      BY <3>1, <3>2
    <3>4. Root(j) = t
      BY <3>1, <3>3 DEF Root
    <3> QED BY <3>4
  <2>2. CASE Parent[t] \in S
    <3>1. JobOf[Parent[t]] = j /\ Parent[t] \in allowed
      BY <1>1, <2>2, TreeAssumption DEF Waits
    <3>2. Parent[t] \in emptied
      BY <2>2, <3>1
    <3>3. gc[t] = "done"
      BY <1>1, <3>2 DEF Listed, Promised
    <3> QED BY <3>3 DEF Promised
  <2> QED BY <1>1, <2>1, <2>2
<1>2. S = Threads
  <2>1. S \in SUBSET Threads /\ \A t \in Threads : Parent[t] \in Jobs \cup S => t \in S
    BY <1>1
  <2> HIDE DEF S
  <2> QED BY <2>1, DescentAssumption
<1> QED BY <1>2 DEF ThreadsOf

-----------------------------------------------------------------------------
(* Stop.                                                                   *)

\* The steps that touch the runs' tables.
LEMMA TableSteps ==
  ASSUME [Next]_vars, ~ UNCHANGED tableVars
  PROVE  \/ \E j \in Jobs : Register(j) \/ JobExit(j)
         \/ \E t \in Threads : Add(t) \/ Leave(t)
         \/ \E s \in Stoppers : Sweep(s)
<1>1. ASSUME NEW j \in Jobs, Eval(j) \/ MainStep(j) \/ Abort(j) \/ JobGcStep(j)
      PROVE  Register(j) \/ JobExit(j)
  BY <1>1 DEF MainStep, Eval, StartStudio, Deliver, Abort, JobGcStep, AddJob, JobJoin, JobCompleted,
              Report, PauseStudio
<1>2. ASSUME NEW p \in Nodes, SpawnStep(p) \/ \E t \in Threads : BeginSpawn(p, t) PROVE FALSE
  BY <1>2 DEF SpawnStep, List, Allow, Spawned, BeginSpawn
<1>3. ASSUME NEW t \in Threads,
             ThreadStep(t) \/ EnterNoKill(t) \/ SyntaxErr(t) \/ Finish(t) \/ GcStep(t)
      PROVE  Add(t) \/ Leave(t)
  BY <1>3 DEF ThreadStep, Allowed, Orphaned, Refused, LeaveNoKill, EnterNoKill, SyntaxErr, Finish,
              GcStep, GcJoin, GcLeave
<1>4. ASSUME NEW s \in Stoppers,
             PressStop(s) \/ StopStep(s) \/ LockStep(s) \/ \E j \in Jobs : StopJob(s, j)
      PROVE  Sweep(s)
  BY <1>4 DEF PressStop, StopJob, StopStep, NextJob, NoMoreJobs, NotRunning, IsRunning, KillAtOnce,
              AimAt, TakeJob, LockStep, EnterStop, KillLocked, KillMain
<1>5. ~ UNCHANGED vars
  BY DEF vars
<1> QED BY <1>1, <1>2, <1>3, <1>4, <1>5, Zenon DEF Next

\* A name stays with a thread of a run that is registered.
LEMMA NamesInductive ==
  ASSUME TypeOK, Fresh, Locked, NamesAreHeld, [Next]_vars
  PROVE  NamesAreHeld'
<1> USE ConstantTypes DEF Goto
<1> DEFINE N(n) == names[n] # Nobody => /\ NameOf[names[n]] = n
                                       /\ JobOf[names[n]] \in registered
                                       /\ names[n] \in subs[JobOf[names[n]]]
<1>0. SUFFICES ASSUME NEW n \in Names PROVE N(n)'
  BY DEF NamesAreHeld
<1>1. /\ subs = [j \in Jobs |-> subs[j]] /\ names = [m \in Names |-> names[m]]
      /\ names[n] \in Threads \cup {Nobody}
      /\ N(n)
  BY DEF TypeOK, NamesAreHeld
<1>2. CASE UNCHANGED tableVars
  BY <1>1, <1>2 DEF tableVars
<1>3. ASSUME NEW j \in Jobs, Register(j) PROVE N(n)'
  BY <1>1, <1>3 DEF Register, Fresh
<1>4. ASSUME NEW j \in Jobs, JobExit(j) PROVE N(n)'
  BY <1>1, <1>4 DEF JobExit, Deregister
<1>5. ASSUME NEW t \in Threads, Add(t) PROVE N(n)'
  BY <1>1, <1>5 DEF Add, NameTaken
<1>6. ASSUME NEW t \in Threads, Leave(t) PROVE N(n)'
  BY <1>1, <1>6 DEF Leave
<1>7. ASSUME NEW s \in Stoppers, Sweep(s) PROVE N(n)'
  <2>1. victim[s] \in Jobs
    BY <1>7 DEF Sweep, GoStop, Locked
  <2> QED BY <1>1, <1>7, <2>1 DEF Sweep, Deregister
<1> HIDE DEF N
<1> QED BY <1>2, <1>3, <1>4, <1>5, <1>6, <1>7, TableSteps, Zenon

\* Until a run gets to its program it has no threads, and until its main thread
\* has begun it is in no table.
LEMMA FreshInductive ==
  ASSUME TypeOK, Waits, Spawns, Killable, Locked, Fresh, [Next]_vars
  PROVE  Fresh'
<1> USE ConstantTypes DEF Goto, Nodes
<1> DEFINE A(t) == pc[JobOf[t]] \in {"off", "new", "init", "ready"} => pc[t] = "off"
           B == \A i \in Jobs : pc[i] \in {"off", "new"} => i \notin registered
<1>1. /\ pc = [n \in Nodes |-> pc[n]] /\ Jobs \cap Threads = {}
      /\ \A t \in Threads : A(t)
  BY NodesAssumption DEF TypeOK, Fresh
<1>2. ASSUME NEW u \in Threads PROVE A(u)'
  <2>2. CASE UNCHANGED treeVars
    BY <1>1, <2>2 DEF treeVars
  <2>3. ASSUME NEW j \in Jobs,
               Eval(j) \/ Register(j) \/ StartStudio(j) \/ Abort(j) \/ Deliver(j)
        PROVE  A(u)'
    BY <1>1, <2>3 DEF Eval, Register, StartStudio, Abort, Deliver
  <2>4. ASSUME NEW p \in Nodes, List(p) \/ Allow(p) \/ Spawned(p) PROVE A(u)'
    BY <1>1, <2>4, SMTT(20) DEF List, Allow, Spawned
  <2>5. ASSUME NEW p \in Nodes, NEW t \in Threads, BeginSpawn(p, t) PROVE A(u)'
    <3>1. p \in Jobs => JobOf[t] = p
      BY <2>5, TreeAssumption DEF BeginSpawn
    <3>2. p \in Threads => JobOf[t] = JobOf[p]
      BY <2>5, TreeAssumption DEF BeginSpawn
    <3> QED BY <1>1, <2>5, <3>1, <3>2 DEF BeginSpawn
  <2>6. ASSUME NEW t \in Threads, Allowed(t) \/ Orphaned(t) \/ Add(t) \/ Refused(t) PROVE A(u)'
    BY <1>1, <2>6 DEF Allowed, Orphaned, Add, Refused
  <2>7. ASSUME NEW t \in Threads, EnterNoKill(t) \/ LeaveNoKill(t) \/ SyntaxErr(t) \/ Finish(t)
                                 \/ Leave(t) PROVE A(u)'
    BY <1>1, <2>7, SMTT(20) DEF EnterNoKill, LeaveNoKill, SyntaxErr, Finish, Leave
  <2>8. ASSUME NEW t \in Threads, GcJoin(t) \/ GcLeave(t) PROVE A(u)'
    BY <1>1, <2>8 DEF GcJoin, GcLeave, threadVars
  <2>9. ASSUME NEW s \in Stoppers, KillAtOnce(s) \/ KillLocked(s) \/ KillMain(s) PROVE A(u)'
    <3>1. PICK n \in allowed \cup Jobs \cup {Nobody} : pc' = [pc EXCEPT ![n] = "dead"]
      BY <2>9, KillsAllowed
    <3>2. n \in allowed => n \in Threads /\ pc[n] # "off"
      BY DEF TypeOK, Waits
    <3> QED BY <1>1, <3>1, <3>2
  <2> HIDE DEF A
  <2> QED BY <2>2, <2>3, <2>4, <2>5, <2>6, <2>7, <2>8, <2>9, TreeSteps, Zenon
<1>3. B'
  <2>1. B
    BY DEF Fresh
  <2>2. ASSUME NEW i \in Jobs, pc'[i] \in {"off", "new"} PROVE pc[i] \in {"off", "new"}
    <3>1. CASE UNCHANGED treeVars
      BY <2>2, <3>1 DEF treeVars
    <3>2. ASSUME NEW j \in Jobs,
                 Eval(j) \/ Register(j) \/ StartStudio(j) \/ Abort(j) \/ Deliver(j)
          PROVE  pc[i] \in {"off", "new"}
      BY <1>1, <2>2, <3>2 DEF Eval, Register, StartStudio, Abort, Deliver
    <3>3. ASSUME NEW p \in Nodes,
                 \/ List(p) \/ Allow(p) \/ Spawned(p)
                 \/ \E t \in Threads : BeginSpawn(p, t)
          PROVE  pc[i] \in {"off", "new"}
      BY <1>1, <2>2, <3>3 DEF List, Allow, Spawned, BeginSpawn
    <3>4. ASSUME NEW t \in Threads,
                 \/ Allowed(t) \/ Orphaned(t) \/ Add(t) \/ Refused(t)
                 \/ EnterNoKill(t) \/ LeaveNoKill(t) \/ SyntaxErr(t)
                 \/ Finish(t) \/ Leave(t) \/ GcJoin(t) \/ GcLeave(t)
          PROVE  pc[i] \in {"off", "new"}
      BY <1>1, <2>2, <3>4 DEF Allowed, Orphaned, Add, Refused, EnterNoKill, LeaveNoKill, SyntaxErr,
                              Finish, Leave, GcJoin, GcLeave, threadVars
    <3>5. ASSUME NEW s \in Stoppers, KillAtOnce(s) \/ KillLocked(s) \/ KillMain(s)
          PROVE  pc[i] \in {"off", "new"}
      BY <1>1, <2>2, <3>5, KillsAllowed
    <3> QED BY <3>1, <3>2, <3>3, <3>4, <3>5, TreeSteps, Zenon
  <2>3. ASSUME NEW i \in Jobs, i \in registered', i \notin registered
        PROVE  pc'[i] \notin {"off", "new"}
    <3>1. CASE UNCHANGED tableVars
      BY <2>3, <3>1 DEF tableVars
    <3>2. ASSUME NEW j \in Jobs, Register(j) PROVE pc'[i] \notin {"off", "new"}
      BY <1>1, <2>3, <3>2 DEF Register
    <3>3. ASSUME NEW j \in Jobs, JobExit(j) PROVE pc'[i] \notin {"off", "new"}
      BY <2>3, <3>3 DEF JobExit, Deregister
    <3>4. ASSUME NEW t \in Threads, Add(t) \/ Leave(t) PROVE pc'[i] \notin {"off", "new"}
      BY <2>3, <3>4 DEF Add, Leave
    <3>5. ASSUME NEW s \in Stoppers, Sweep(s) PROVE pc'[i] \notin {"off", "new"}
      BY <2>3, <3>5 DEF Sweep, Deregister
    <3> QED BY <3>1, <3>2, <3>3, <3>4, <3>5, TableSteps, Zenon
  <2> QED BY <2>1, <2>2, <2>3
<1> QED BY <1>2, <1>3 DEF Fresh

\* One stopper at a time is past @@stop_job_mutex, and it kills threads of a run
\* that it found in @user_jobs; a thread that reboots never aims at its own run.
LEMMA LockedInductive ==
  ASSUME TypeOK, Killable, Locked, [Next]_vars
  PROVE  Locked'
<1> USE ConstantTypes DEF GoStop
<1> DEFINE In(s) == at[s] \in {"check", "sweep", "kill", "aim", "main"} <=> stopMut = s
           Own(s) == s \in Rebooters => /\ JobOf[s] \notin todo[s]
                                        /\ at[s] = "enter" \/ stopMut = s => victim[s] # JobOf[s]
           Job(s) == /\ at[s] \in {"enter", "check", "sweep", "kill", "aim", "main"} =>
                          victim[s] \in Jobs
                     /\ at[s] \in {"sweep", "kill", "aim"} => victim[s] \in jobs \/ Ended(victim[s])
           Tgt(s) == /\ at[s] # "aim" => target[s] = Nobody
                     /\ at[s] \in {"kill", "aim"} =>
                          doomed[s] \cup ({target[s]} \ {Nobody}) \subseteq ThreadsOf(victim[s])
           L(s) == In(s) /\ Own(s) /\ Job(s) /\ Tgt(s)
<1>0. SUFFICES ASSUME NEW r \in Stoppers PROVE L(r)'
  BY DEF Locked
<1>1. /\ at = [s \in Stoppers |-> at[s]] /\ victim = [s \in Stoppers |-> victim[s]]
      /\ todo = [s \in Stoppers |-> todo[s]] /\ target = [s \in Stoppers |-> target[s]]
      /\ doomed = [s \in Stoppers |-> doomed[s]]
      /\ todo[r] \subseteq Jobs /\ jobs \subseteq Jobs
  BY DEF TypeOK
<1>2. L(r)
  BY DEF Locked
<1>s. \A s \in Stoppers : In(s)
  BY DEF Locked
<1>3. ASSUME UNCHANGED stopVars, jobs \subseteq jobs', UNCHANGED jobGc PROVE L(r)'
  BY <1>2, <1>3 DEF stopVars, Ended
<1>4. ASSUME NEW j \in Jobs, Eval(j) \/ MainStep(j) \/ Abort(j) PROVE L(r)'
  BY <1>3, <1>4 DEF Eval, MainStep, Register, StartStudio, Deliver, Abort, gcVars
<1>5. ASSUME NEW j \in Jobs, JobGcStep(j) PROVE L(r)'
  <2>1. ASSUME NEW i \in Jobs, i \in jobs \/ Ended(i)
        PROVE  i \in jobs' \/ jobGc'[i] \in {"remove", "report", "pause", "done"}
    <3>1. jobGc = [k \in Jobs |-> jobGc[k]]
      BY DEF TypeOK
    <3> QED BY <1>5, <2>1, <3>1 DEF JobGcStep, AddJob, JobJoin, JobExit, JobCompleted, Report,
                              PauseStudio, GoJobGc, Ended
  <2>2. UNCHANGED stopVars
    BY <1>5 DEF JobGcStep, AddJob, JobJoin, JobExit, JobCompleted, Report, PauseStudio
  <2>3. /\ at' = at /\ victim' = victim /\ todo' = todo /\ target' = target
        /\ doomed' = doomed /\ stopMut' = stopMut
    BY <2>2 DEF stopVars
  <2>4. In(r)' /\ Own(r)' /\ Tgt(r)'
    BY <1>2, <2>3
  <2>5. Job(r)'
    <3>1. at'[r] \in {"sweep", "kill", "aim"} =>
            victim[r] \in Jobs /\ (victim[r] \in jobs \/ Ended(victim[r]))
      BY <1>2, <2>3
    <3>2. at'[r] \in {"sweep", "kill", "aim"} =>
            \/ victim[r] \in jobs'
            \/ jobGc'[victim[r]] \in {"remove", "report", "pause", "done"}
      BY <2>1, <2>3, <3>1
    <3> QED BY <1>2, <2>3, <3>2 DEF Ended
  <2> QED BY <2>4, <2>5
<1>6. ASSUME NEW p \in Nodes, SpawnStep(p) \/ \E t \in Threads : BeginSpawn(p, t) PROVE L(r)'
  BY <1>3, <1>6 DEF SpawnStep, List, Allow, Spawned, BeginSpawn, gcVars
<1>7. ASSUME NEW t \in Threads,
             ThreadStep(t) \/ EnterNoKill(t) \/ SyntaxErr(t) \/ Finish(t) \/ GcStep(t)
      PROVE  L(r)'
  BY <1>3, <1>7 DEF ThreadStep, Allowed, Orphaned, Add, Refused, LeaveNoKill, Leave, EnterNoKill,
                    SyntaxErr, Finish, GcStep, GcJoin, GcLeave, gcVars
<1>8. ASSUME NEW s \in Stoppers, NEW j \in Jobs, StopJob(s, j) PROVE L(r)'
  BY <1>1, <1>2, <1>8, StoppersAssumption DEF StopJob, Nodes, gcVars, Ended
<1>9. ASSUME NEW s \in Stoppers, PressStop(s) \/ NextJob(s) \/ NoMoreJobs(s) PROVE L(r)'
  <2>1. CASE PressStop(s)
    <3>1. /\ at[s] = "idle" /\ at' = [at EXCEPT ![s] = "next"]
          /\ todo' = [todo EXCEPT ![s] = IF s \in Rebooters THEN jobs \ {JobOf[s]} ELSE jobs]
          /\ victim' = victim /\ target' = target /\ stopMut' = stopMut /\ doomed' = doomed
          /\ jobs' = jobs /\ jobGc' = jobGc
      BY <2>1 DEF PressStop, gcVars
    <3>2. In(r)' /\ Own(r)'
      BY <1>1, <1>2, <3>1
    <3>3. Job(r)'
      BY <1>1, <1>2, <3>1 DEF Ended
    <3>4. Tgt(r)'
      BY <1>1, <1>2, <3>1 DEF ThreadsOf
    <3> QED BY <3>2, <3>3, <3>4
  <2>2. CASE NextJob(s)
    <3>1. PICK j \in todo[s] : /\ at[s] = "next" /\ at' = [at EXCEPT ![s] = "enter"]
                               /\ victim' = [victim EXCEPT ![s] = j]
                               /\ todo' = [todo EXCEPT ![s] = @ \ {j}]
      BY <2>2 DEF NextJob
    <3>2. /\ target' = target /\ stopMut' = stopMut /\ doomed' = doomed
          /\ jobs' = jobs /\ jobGc' = jobGc
      BY <2>2 DEF NextJob, gcVars
    <3>3. In(r)' /\ Own(r)'
      BY <1>1, <1>2, <3>1, <3>2
    <3>4. Job(r)'
      BY <1>1, <1>2, <3>1, <3>2 DEF Ended
    <3>5. Tgt(r)'
      BY <1>1, <1>2, <3>1, <3>2 DEF ThreadsOf
    <3> QED BY <3>3, <3>4, <3>5
  <2>3. CASE NoMoreJobs(s)
    BY <1>1, <1>2, <2>3 DEF NoMoreJobs, gcVars, Ended
  <2> QED BY <1>9, <2>1, <2>2, <2>3
<1>10. ASSUME NEW s \in Stoppers, EnterStop(s) \/ NotRunning(s) \/ IsRunning(s) PROVE L(r)'
  <2>1. CASE EnterStop(s)
    BY <1>1, <1>2, <1>s, <2>1 DEF EnterStop, gcVars, Ended
  <2>2. CASE NotRunning(s)
    BY <1>1, <1>2, <1>s, <2>2 DEF NotRunning, After, gcVars, Ended
  <2>3. CASE IsRunning(s)
    BY <1>1, <1>2, <1>s, <2>3 DEF IsRunning, gcVars, Ended
  <2> QED BY <1>10, <2>1, <2>2, <2>3
<1>11. ASSUME NEW s \in Stoppers, Sweep(s) PROVE L(r)'
  <2>1. /\ victim[s] \in Jobs /\ subs[victim[s]] \subseteq ThreadsOf(victim[s])
        /\ stopMut = s
    BY <1>11 DEF Sweep, Locked, Killable
  <2>2. /\ at' = [at EXCEPT ![s] = "kill"] /\ at[s] = "sweep"
        /\ doomed' = [doomed EXCEPT ![s] = subs[victim[s]]]
        /\ victim' = victim /\ todo' = todo /\ target' = target /\ stopMut' = stopMut
        /\ jobs' = jobs /\ jobGc' = jobGc
    BY <1>11 DEF Sweep, gcVars
  <2>3. In(r)' /\ Own(r)' /\ Job(r)'
    BY <1>1, <1>2, <1>s, <2>2 DEF Ended
  <2>4. Tgt(r)'
    BY <1>1, <1>2, <2>1, <2>2 DEF ThreadsOf
  <2> QED BY <2>3, <2>4
<1>12. ASSUME NEW s \in Stoppers, KillAtOnce(s) PROVE L(r)'
  <2>1. PICK t \in doomed[s] \cap inNoKill :
          /\ at[s] = "kill"
          /\ doomed' = [doomed EXCEPT ![s] = @ \ {t}]
          /\ at' = [a \in Stoppers |-> IF a = t THEN "idle" ELSE at[a]]
    BY <1>12 DEF KillAtOnce
  <2>2. /\ victim' = victim /\ todo' = todo /\ target' = target /\ stopMut' = stopMut
        /\ jobs' = jobs /\ jobGc' = jobGc
    BY <1>12 DEF KillAtOnce, gcVars
  <2>3. stopMut = s /\ (s \in Rebooters => victim[s] # JobOf[s]) /\ t \in ThreadsOf(victim[s])
    BY <2>1 DEF Locked
  <2>4. t # s
    BY <2>3, StoppersAssumption DEF ThreadsOf, Stoppers, Nodes
  <2>5. In(r)' /\ Own(r)' /\ Job(r)'
    BY <1>1, <1>2, <1>s, <2>1, <2>2, <2>3, <2>4 DEF Ended
  <2>6. Tgt(r)'
    <3>1. r = t => at[r] # "aim"
      BY <1>2, <2>3, <2>4
    <3> QED BY <1>1, <1>2, <2>1, <2>2, <3>1 DEF ThreadsOf
  <2> QED BY <2>5, <2>6
<1>13. ASSUME NEW s \in Stoppers, AimAt(s) \/ KillLocked(s) PROVE L(r)'
  <2>1. CASE AimAt(s)
    BY <1>1, <1>2, <1>s, <2>1 DEF AimAt, gcVars, Ended
  <2>2. CASE KillLocked(s)
    BY <1>1, <1>2, <1>s, <2>2 DEF KillLocked, gcVars, Ended
  <2> QED BY <1>13, <2>1, <2>2
<1>14. ASSUME NEW s \in Stoppers, TakeJob(s) PROVE L(r)'
  BY <1>1, <1>2, <1>s, <1>14 DEF TakeJob, gcVars, Ended
<1>15. ASSUME NEW s \in Stoppers, KillMain(s) PROVE L(r)'
  BY <1>1, <1>2, <1>s, <1>15 DEF KillMain, After, gcVars, Ended
<1>16. CASE UNCHANGED vars
  BY <1>3, <1>16 DEF vars, gcVars
<1> HIDE DEF L
<1> QED BY <1>4, <1>5, <1>6, <1>7, <1>8, <1>9, <1>10, <1>11, <1>12, <1>13, <1>14, <1>15, <1>16,
           Zenon DEF Next, StopStep, LockStep
\* Of a run whose GC thread has waited for the first in_thread, every thread is
\* over, or was never let go by its parent.
LEMMA JoinedRunsAreOver ==
  ASSUME TypeOK, TreeInv, NEW j \in Jobs, j \in started,
         jobGc[j] \in {"promise", "remove", "report", "pause", "done"}
  PROVE  \A t \in ThreadsOf(j) : pc[t] \in {"off", "dead"} \/ (pc[t] = "born" /\ t \notin allowed)
<1>1. Root(j) \in emptied
  BY DEF TreeInv, Joined
<1>2. \A t \in ThreadsOf(j) : t \in allowed => t \in emptied
  BY <1>1, TreeIsOver DEF TreeInv
<1>3. \A t \in ThreadsOf(j) : t \in emptied => pc[t] = "dead"
  BY DEF TreeInv, Promised, Dead
<1> QED BY <1>2, <1>3 DEF TreeInv, Waits, ThreadsOf

\* The steps that make a thread live.
LEMMA LifeSteps ==
  ASSUME TypeOK, Waits, Spawns, Killable, Locked, [Next]_vars,
         NEW u \in Threads, ~ Live(u), Live(u)'
  PROVE  Add(u)
<1> USE ConstantTypes DEF Goto, Nodes, Live
<1>1. pc = [n \in Nodes |-> pc[n]] /\ Jobs \cap Threads = {}
  BY NodesAssumption DEF TypeOK
<1>2. CASE UNCHANGED treeVars
  BY <1>2 DEF treeVars
<1>3. ASSUME NEW j \in Jobs, Eval(j) \/ Register(j) \/ StartStudio(j) \/ Abort(j) \/ Deliver(j)
      PROVE  FALSE
  BY <1>1, <1>3 DEF Eval, Register, StartStudio, Abort, Deliver
<1>4. ASSUME NEW p \in Nodes, List(p) \/ Allow(p) \/ Spawned(p) PROVE FALSE
  BY <1>1, <1>4 DEF List, Allow, Spawned
<1>5. ASSUME NEW p \in Nodes, NEW t \in Threads, BeginSpawn(p, t) PROVE FALSE
  BY <1>1, <1>5 DEF BeginSpawn
<1>6. ASSUME NEW t \in Threads, Allowed(t) \/ Orphaned(t) \/ Add(t) \/ Refused(t) PROVE Add(u)
  <2>1. CASE Add(t)
    BY <1>1, <2>1 DEF Add
  <2> QED BY <1>1, <1>6, <2>1 DEF Allowed, Orphaned, Refused
<1>7. ASSUME NEW t \in Threads, EnterNoKill(t) \/ LeaveNoKill(t) \/ SyntaxErr(t) \/ Finish(t)
                               \/ Leave(t) PROVE FALSE
  BY <1>1, <1>7 DEF EnterNoKill, LeaveNoKill, SyntaxErr, Finish, Leave
<1>8. ASSUME NEW t \in Threads, GcJoin(t) \/ GcLeave(t) PROVE FALSE
  BY <1>1, <1>8 DEF GcJoin, GcLeave, threadVars
<1>9. ASSUME NEW s \in Stoppers, KillAtOnce(s) \/ KillLocked(s) \/ KillMain(s) PROVE FALSE
  BY <1>1, <1>9, KillsAllowed
<1> HIDE DEF Live
<1> QED BY <1>2, <1>3, <1>4, <1>5, <1>6, <1>7, <1>8, <1>9, TreeSteps, Zenon

\* Stop misses no thread: one that leaves its run's table without dying is one
\* that a stopper has on its list.
LEMMA OwnedInductive ==
  ASSUME TypeOK, TreeInv, Fresh, Locked, Owned, [Next]_vars
  PROVE  Owned'
<1> USE ConstantTypes DEF Goto, GoStop
<1> DEFINE H(u) == JobOf[u] \in registered /\ u \in subs[JobOf[u]]
           C(u, s) == /\ at[s] \in {"kill", "aim"} /\ victim[s] = JobOf[u]
                      /\ u \in doomed[s] \cup {target[s]}
           D(u) == \E s \in Stoppers : C(u, s)
<1>0. SUFFICES ASSUME NEW u \in Threads, Live(u)' PROVE H(u)' \/ D(u)'
  BY DEF Owned, Condemned
<1>1. /\ subs = [j \in Jobs |-> subs[j]] /\ pc = [n \in Nodes |-> pc[n]]
      /\ at = [s \in Stoppers |-> at[s]] /\ victim = [s \in Stoppers |-> victim[s]]
      /\ doomed = [s \in Stoppers |-> doomed[s]] /\ target = [s \in Stoppers |-> target[s]]
      /\ u \in Nodes /\ JobOf[u] \in Jobs
  BY DEF TypeOK, Nodes
<1>2. CASE ~ Live(u)
  <2>1. Add(u)
    BY <1>0, <1>2, LifeSteps DEF TreeInv
  <2> QED BY <1>1, <2>1 DEF Add
<1>3. CASE Live(u)
  <2>1. H(u) \/ D(u)
    BY <1>3 DEF Owned, Condemned
  <2>2. CASE H(u) /\ ~ H(u)'
    <3>1. ~ UNCHANGED tableVars
      BY <2>2 DEF tableVars
    <3>2. ASSUME NEW j \in Jobs, Register(j) PROVE FALSE
      BY <1>1, <1>3, <2>2, <3>2 DEF Register, Fresh, Live
    <3>3. ASSUME NEW j \in Jobs, JobExit(j) PROVE FALSE
      <4>1. \A t \in ThreadsOf(j) : ~ Live(t)
        BY <3>3, JoinedRunsAreOver DEF JobExit, GoJobGc, Live
      <4>2. JobOf[u] # j
        BY <1>3, <4>1 DEF ThreadsOf
      <4> QED BY <1>1, <2>2, <3>3, <4>2 DEF JobExit, Deregister
    <3>4. ASSUME NEW t \in Threads, Add(t) PROVE FALSE
      BY <1>1, <2>2, <3>4 DEF Add
    <3>5. ASSUME NEW t \in Threads, Leave(t) PROVE FALSE
      BY <1>0, <1>1, <2>2, <3>5 DEF Leave, Live
    <3>6. ASSUME NEW s \in Stoppers, Sweep(s) PROVE C(u, s)'
      <4>1. victim[s] \in Jobs
        BY <3>6 DEF Sweep, Locked
      <4>2. victim[s] = JobOf[u]
        BY <1>1, <2>2, <3>6, <4>1 DEF Sweep, Deregister
      <4> QED BY <1>1, <2>2, <3>6, <4>2 DEF Sweep
    <3>7. D(u)'
      <4> HIDE DEF C
      <4> QED BY <3>1, <3>2, <3>3, <3>4, <3>5, <3>6, TableSteps, Zenon
    <3> QED BY <3>7
  <2>3. ASSUME NEW s \in Stoppers, C(u, s) PROVE C(u, s)'
    <3>1. /\ stopMut = s /\ (at[s] = "kill" => target[s] = Nobody)
          /\ \A r \in Stoppers : at[r] \in {"check", "sweep", "kill", "aim", "main"} => r = s
      BY <2>3 DEF Locked
    <3>2. ASSUME UNCHANGED <<at, victim, doomed, target>> PROVE C(u, s)'
      BY <2>3, <3>2
    <3>3. ASSUME NEW j \in Jobs, Eval(j) \/ MainStep(j) \/ Abort(j) \/ JobGcStep(j)
          PROVE  C(u, s)'
      BY <3>2, <3>3 DEF MainStep, Eval, Register, StartStudio, Deliver, Abort, JobGcStep, AddJob,
                        JobJoin, JobExit, JobCompleted, Report, PauseStudio, stopVars
    <3>4. ASSUME NEW p \in Nodes, SpawnStep(p) \/ \E t \in Threads : BeginSpawn(p, t)
          PROVE  C(u, s)'
      BY <3>2, <3>4 DEF SpawnStep, List, Allow, Spawned, BeginSpawn, stopVars
    <3>5. ASSUME NEW t \in Threads,
                 ThreadStep(t) \/ EnterNoKill(t) \/ SyntaxErr(t) \/ Finish(t) \/ GcStep(t)
          PROVE  C(u, s)'
      BY <3>2, <3>5 DEF ThreadStep, Allowed, Orphaned, Add, Refused, LeaveNoKill, Leave,
                        EnterNoKill, SyntaxErr, Finish, GcStep, GcJoin, GcLeave, stopVars
    <3>6. ASSUME NEW r \in Stoppers,
                 \/ PressStop(r) \/ NextJob(r) \/ NoMoreJobs(r) \/ EnterStop(r)
                 \/ \E j \in Jobs : StopJob(r, j)
          PROVE  C(u, s)'
      BY <1>1, <2>3, <3>6 DEF PressStop, NextJob, NoMoreJobs, EnterStop, StopJob
    <3>7. ASSUME NEW r \in Stoppers,
                 NotRunning(r) \/ IsRunning(r) \/ Sweep(r) \/ KillMain(r)
          PROVE  C(u, s)'
      BY <1>1, <2>3, <3>7 DEF NotRunning, IsRunning, Sweep, KillMain
    <3>8. ASSUME NEW r \in Stoppers, KillAtOnce(r) PROVE C(u, s)'
      <4>1. r = s
        BY <3>1, <3>8 DEF KillAtOnce
      <4>2. PICK t \in doomed[s] \cap inNoKill :
              /\ pc' = [pc EXCEPT ![t] = "dead"]
              /\ doomed' = [doomed EXCEPT ![s] = @ \ {t}]
              /\ at' = [a \in Stoppers |-> IF a = t THEN "idle" ELSE at[a]]
        BY <3>8, <4>1 DEF KillAtOnce
      <4>3. t # u
        BY <1>0, <1>1, <4>2 DEF Live
      <4>4. t # s
        BY <2>3, <3>1, <4>2, StoppersAssumption DEF Locked, ThreadsOf, Stoppers, Nodes
      <4>5. victim' = victim /\ target' = target
        BY <3>8 DEF KillAtOnce
      <4> QED BY <1>1, <2>3, <4>2, <4>3, <4>4, <4>5
    <3>9. ASSUME NEW r \in Stoppers, AimAt(r) PROVE C(u, s)'
      BY <1>1, <2>3, <3>1, <3>9 DEF AimAt
    <3>10. ASSUME NEW r \in Stoppers, KillLocked(r) PROVE C(u, s)'
      BY <1>0, <1>1, <2>3, <3>1, <3>10 DEF KillLocked, Live
    <3>11. ASSUME NEW r \in Stoppers, TakeJob(r) PROVE C(u, s)'
      BY <1>1, <2>3, <3>1, <3>11 DEF TakeJob
    <3>12. CASE UNCHANGED vars
      BY <3>2, <3>12 DEF vars, stopVars
    <3> HIDE DEF C
    <3> QED BY <3>3, <3>4, <3>5, <3>6, <3>7, <3>8, <3>9, <3>10, <3>11, <3>12, Zenon
            DEF Next, StopStep, LockStep
  <2>4. D(u) => D(u)'
    <3> HIDE DEF C
    <3> QED BY <2>3
  <2> QED BY <2>1, <2>2, <2>4
<1> QED BY <1>2, <1>3

-----------------------------------------------------------------------------
(* The theorems.                                                           *)

\* Nothing has happened yet.
LEMMA InitIInv ==
  ASSUME Init
  PROVE  IInv
<1> USE ConstantTypes DEF Init, Nodes
<1>1. TypeOK
  BY DEF TypeOK
<1>2. TreeInv
  BY DEF TreeInv, Waits, Spawns, Listed, Promised, Killable, Joined, Ended
<1>3. StopInv
  BY DEF StopInv, Fresh, Locked, Owned, Live
<1>4. NamesAreHeld
  BY DEF NamesAreHeld
<1> QED BY <1>1, <1>2, <1>3, <1>4 DEF IInv

\* The invariant is inductive.
THEOREM Inductive == Spec => []IInv
<1>1. ASSUME IInv, [Next]_vars PROVE IInv'
  <2>1. TypeOK' /\ Waits' /\ Spawns' /\ Listed' /\ Promised' /\ Killable' /\ Joined'
    BY <1>1, TypeInductive, WaitsInductive, SpawnsInductive, ListedInductive, PromisedInductive,
       KillableInductive, JoinedInductive DEF IInv, TreeInv, StopInv
  <2>2. Fresh' /\ Locked' /\ Owned' /\ NamesAreHeld'
    BY <1>1, FreshInductive, LockedInductive, OwnedInductive, NamesInductive
    DEF IInv, TreeInv, StopInv
  <2> QED BY <2>1, <2>2 DEF IInv, TreeInv, StopInv
<1> QED BY <1>1, InitIInv, PTL DEF Spec

\* The types of the state, for every program, run and stopper.
THEOREM TypeCorrect == Spec => []TypeOK
BY Inductive, PTL DEF IInv

\* The exit hook of a run frees what the run plays on, and the run is reported
\* completed, only when no thread below it can play or cue any more: whatever
\* the tree of in_threads, and whoever was killed on the way (runtime.rb, the
\* GC threads of __in_thread and __spider_eval).
THEOREM CleanedRunsAreOver == Spec => []CompletedRunsAreOver
<1>1. IInv => CompletedRunsAreOver
  <2> SUFFICES ASSUME IInv, NEW j \in Jobs, Ended(j)
               PROVE  \A t \in ThreadsOf(j) : \/ pc[t] \in {"off", "dead"}
                                              \/ pc[t] = "born" /\ t \notin allowed
    BY DEF CompletedRunsAreOver
  <2>1. j \in started
    BY DEF IInv, TreeInv, Joined
  <2> QED BY <2>1, JoinedRunsAreOver DEF IInv, Ended
<1> QED BY <1>1, Inductive, PTL

\* The subthread_empty promise of a thread is never delivered while a thread it
\* let go has subthreads that are not over.
THEOREM PromisesAreNotEarly == Spec => []EmptiedMeansOver
<1>1. IInv => EmptiedMeansOver
  <2> SUFFICES ASSUME IInv, NEW n \in emptied
               PROVE  Dead(n) /\ \A t \in Threads : Parent[t] = n /\ t \in allowed => t \in emptied
    BY DEF EmptiedMeansOver
  <2>1. Dead(n) /\ children[n] = {}
    BY DEF IInv, TreeInv, Promised
  <2>2. ASSUME NEW t \in Threads, Parent[t] = n, t \in allowed PROVE t \in emptied
    <3>1. gc[t] = "done"
      BY <2>1, <2>2 DEF IInv, TreeInv, Listed
    <3> QED BY <3>1 DEF IInv, TreeInv, Promised
  <2> QED BY <2>1, <2>2
<1> QED BY <1>1, Inductive, PTL

\* A name never outlives the registration of the run that took it, however
\* runs end, stop and add threads at the same time (job_subthread_add,
\* job_subthread_rm and deregister_job_and_return_subthreads).
THEOREM NamesStayHeld == Spec => []NamesAreHeld
BY Inductive, PTL DEF IInv

\* Stop misses no thread: of a run that has left both tables none is live, not
\* even one that was being created when Stop swept the run (__stop_job and
\* job_subthread_add).
THEOREM StopSilences == Spec => []StoppedRunsAreSilent
<1>1. IInv => StoppedRunsAreSilent
  <2> SUFFICES ASSUME IInv, NEW j \in Jobs, j \notin jobs, j \notin registered,
                      NEW t \in ThreadsOf(j), Live(t)
               PROVE  FALSE
    BY DEF StoppedRunsAreSilent
  <2>1. t \in Threads /\ JobOf[t] = j
    BY DEF ThreadsOf
  <2>2. PICK s \in Stoppers : at[s] \in {"kill", "aim"} /\ victim[s] = j
    BY <2>1 DEF IInv, StopInv, Owned, Condemned
  <2>3. Ended(j)
    BY <2>2 DEF IInv, StopInv, Locked
  <2>4. j \in started
    BY <2>3 DEF IInv, TreeInv, Joined
  <2>5. pc[t] \in {"off", "dead", "born"}
    BY <2>3, <2>4, JoinedRunsAreOver DEF IInv, Ended
  <2> QED BY <2>5 DEF Live
<1> QED BY <1>1, Inductive, PTL
=============================================================================
