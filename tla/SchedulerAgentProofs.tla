------------------------ MODULE SchedulerAgentProofs ------------------------
(***************************************************************************)
(* Proofs, for every set of scopes and every number of restarts, of the    *)
(* safety properties of SchedulerAgent and of its refinement of            *)
(* TaskService.                                                            *)
(***************************************************************************)
EXTENDS SchedulerAgent, TLAPS

(* A thread object is running exactly while it executes some code, and the   *)
(* agent has code to execute only once it was started.                       *)
RunningHasPc ==
  /\ agentPc # "none" => runs > 0
  /\ \A t \in Tasks : IsRunning(thread[t]) <=> taskPc[t] # "none"
  /\ IsRunning(agent) <=> agentPc # "none"

(* Only a task with a positive interval enters its event loop, it keeps a    *)
(* timer there, waits for the mutex only if its group is synchronized, and   *)
(* leaves by quit().                                                         *)
EventLoops ==
  \A t \in Tasks :
    /\ taskPc[t] = "lock" => synchronize(t)
    /\ taskPc[t] \in {"exec", "events", "lock", "invoke"} => hasInterval
    /\ taskPc[t] \in {"exec", "events"} => timer[t] # "none"
    /\ taskPc[t] = "invoke" => timer[t] = "none"
    /\ taskPc[t] = "return" => ~hasInterval \/ thread[t].quit

(* Where the agent holds the tasks it has to account for: in the hash while  *)
(* it serves them, then in the list and the loop variable of free().         *)
Held ==
  IF agentPc \in {"free", "wait", "late"}
    THEN pending \cup (IF agentPc = "free" THEN {} ELSE {current})
    ELSE values

HashBounds ==
  /\ agentPc \in {"none", "boot", "free", "wait", "late", "return"} => values = {}
  /\ agentTimer => values = {} /\ agentPc \in {"exec", "events"}
  /\ agentPc \in {"start", "spin"} => pending \subseteq values
  /\ agentPc = "spin" => current \in values
  /\ agentPc \in {"wait", "late"} => current \in Tasks
  /\ \A t \in values : ~thread[t].quit
  /\ \A t \in Held : runOf(t) = runs

(* Every object ever started is held, deleted, or deletes itself later. *)
Accounted ==
  \A t \in Tasks :
    thread[t].life \in {"new", "deleted"} \/ thread[t].deferred \/ t \in Held

(* The objects of the coming runs, and of this one until start(), are new. *)
FreshTasks ==
  \A t \in Tasks :
    runOf(t) > runs \/ (runOf(t) = runs /\ (agentPc = "boot" \/ agentTimer))
      => thread[t] = NewThread

(* The agent leaves its event loop by quit(), unless it never entered it. *)
AgentLeaves ==
  agentPc \in {"free", "wait", "late", "return"} => ~settings.enabled \/ agent.quit

(* The tasks the agent holds are constructed by the first loop of start(),   *)
(* started by the second, each once, and all started when free() begins.     *)
HeldStarted ==
  \A t \in Held :
    thread[t].life = "new" <=> agentPc \in {"start", "spin"} /\ t \in pending

(* The tasks that have not been told to quit yet. *)
Unfreed == IF agentPc \in {"free", "wait", "late"} THEN pending ELSE values

(* Every other task that was ever started has been told to quit. *)
QuitUnlessServed ==
  \A t \in Tasks : thread[t].life = "new" \/ thread[t].quit \/ t \in Unfreed

IInv ==
  /\ TypeOK
  /\ RunningHasPc
  /\ MutexOwner
  /\ EventLoops
  /\ HashBounds
  /\ Accounted
  /\ FreshTasks
  /\ AgentLeaves
  /\ SpinNeverLost
  /\ HeldStarted
  /\ QuitUnlessServed

-----------------------------------------------------------------------------
(* A task is named by a scope and a run. *)
LEMMA TaskNames ==
  /\ \A t \in Tasks : runOf(t) \in 1 .. MaxRuns /\ scope(t) \in Scopes
  /\ \A s \in Scopes, n \in 1 .. MaxRuns :
       <<s, n>> \in Tasks /\ runOf(<<s, n>>) = n /\ scope(<<s, n>>) = s
BY DEF Tasks, runOf, scope

(* A thread object that was just constructed has the type of one. *)
LEMMA NewThreadType == NewThread \in ThreadState
BY DEF NewThread, ThreadState, Life

(* What each call does to the state of a thread object. *)
LEMMA ThreadCalls ==
  ASSUME NEW th \in ThreadState
  PROVE  /\ NewThread \in ThreadState
         /\ Started(th) \in ThreadState
         /\ Started(th).life = "running"
         /\ Started(th).deferred = th.deferred
         /\ IsRunning(th) => Started(th) = th
         /\ ~IsRunning(th) => ~Started(th).quit
         /\ Attached(th) \in ThreadState
         /\ Attached(th).life = th.life
         /\ Attached(th).quit = th.quit
         /\ Attached(th).deferred = th.deferred
         /\ Quitted(th) \in ThreadState
         /\ Quitted(th).life = th.life
         /\ Quitted(th).quit
         /\ Quitted(th).deferred = th.deferred
         /\ DeletedLater(th) \in ThreadState
         /\ DeletedLater(th).life = th.life
         /\ DeletedLater(th).quit = th.quit
         /\ DeletedLater(th).deferred
         /\ Deleted(th) \in ThreadState
         /\ Deleted(th).life = "deleted"
         /\ Deleted(th).quit = th.quit
         /\ Ended(th) \in ThreadState
         /\ Ended(th).life \in {"finished", "aborted"}
         /\ Ended(th).quit = th.quit
         /\ Ended(th).deferred = th.deferred
BY DEF ThreadState, Life, NewThread, Started, IsRunning, Attached, Quitted,
       DeletedLater, Deleted, Ended

(* Every step preserves the types. *)
LEMMA TypeOKStep == IInv /\ [Next]_vars => TypeOK'
<1> SUFFICES ASSUME TypeOK, RunningHasPc, [Next]_vars PROVE TypeOK'
  BY DEF IInv
<1> USE DEF TypeOK, TaskPc, Timer, AgentPc
<1>1. CASE UNCHANGED vars
  BY <1>1 DEF vars, taskVars, agentVars, clientVars
<1>2. ASSUME NEW t \in Tasks, TaskThread(t) PROVE TypeOK'
  BY <1>2, ThreadCalls, NoTaskAssumption
     DEF TaskThread, TaskOnly, TaskStep, agentVars, clientVars, TaskEntersRun, TaskExec,
         TaskWoken, taskRun, TaskLock, TaskInvoked, TaskReturns, taskGoto, timerStart,
         timerStop, lock, unlock
<1>3. CASE ClientStep
  BY <1>3, ThreadCalls, MaxRunsAssumption
     DEF ClientStep, ClientReturns, ClientSpinEnds, ClientStarts, ClientStops,
         taskVars, agentVars, clientVars
<1>4. CASE AgentStep
  <2> USE DEF agentMoves, taskVars, clientVars
  <2>0. UNCHANGED <<settings, clientVars>>
    BY <1>4 DEF AgentStep
  <2>1. CASE AgentCreates
    <3>1. runs \in 1 .. MaxRuns
      BY <2>1, MaxRunsAssumption DEF AgentCreates, RunningHasPc
    <3>2. tasks' \in [Scopes -> Tasks \cup {NoTask}]
      BY <2>1, <3>1, TaskNames DEF AgentCreates
    <3>3. pending' \in SUBSET Tasks
      BY <2>1, <3>2 DEF AgentCreates, values
    <3> QED
      BY <2>0, <2>1, <3>2, <3>3 DEF AgentCreates
  <2>2. CASE AgentEntersRun
    BY <2>0, <2>2, ThreadCalls DEF AgentEntersRun, Settings
  <2>3. CASE AgentExecEnds
    <3>1. pending' \in SUBSET Tasks
      BY <2>3 DEF AgentExecEnds, values
    <3> QED
      BY <2>0, <2>3, <3>1 DEF AgentExecEnds, tasksClear
  <2>4. CASE AgentDeletesTask \/ AgentDeletesTaskLater
    BY <2>0, <2>4, ThreadCalls
       DEF AgentDeletesTask, AgentDeletesTaskLater, TaskDelete, TaskDeleteLater
  <2>5. ASSUME NEW t \in Tasks, AgentStartsTask(t) \/ AgentQuitsTask(t) PROVE TypeOK'
    BY <2>0, <2>5, ThreadCalls DEF AgentStartsTask, AgentQuitsTask, TaskStart, TaskQuit
  <2>6. CASE \/ AgentExecContinues \/ AgentWoken \/ AgentSpinEnds \/ AgentAllStarted
             \/ AgentWaitTimesOut \/ AgentFreed \/ AgentReturns
    BY <2>0, <2>6, ThreadCalls
       DEF AgentExecContinues, AgentWoken, AgentSpinEnds, AgentAllStarted,
           AgentWaitTimesOut, AgentFreed, AgentReturns
  <2> QED
    BY <1>4, <2>1, <2>2, <2>3, <2>4, <2>5, <2>6 DEF AgentStep
<1> QED
  BY <1>1, <1>2, <1>3, <1>4 DEF Next

(* All that a step of the agent can do to the task objects. *)
LEMMA AgentCalls ==
  ASSUME TypeOK, HashBounds, AgentStep
  PROVE  /\ UNCHANGED <<settings, client, runs>>
         /\ \/ UNCHANGED taskVars
            \/ \E t \in Tasks : TaskStart(t) /\ AgentStartsTask(t)
            \/ \E t \in Tasks : TaskQuit(t) /\ AgentQuitsTask(t)
            \/ current \in Tasks /\ TaskDelete(current) /\ AgentDeletesTask
            \/ current \in Tasks /\ TaskDeleteLater(current) /\ AgentDeletesTaskLater
<1>1. current \in Tasks \/ agentPc \notin {"wait", "late"}
  BY DEF HashBounds
<1> QED
  BY <1>1
     DEF AgentStep, clientVars, agentMoves, AgentEntersRun, AgentExecContinues, AgentWoken,
         AgentCreates, AgentStartsTask, AgentSpinEnds, AgentAllStarted, AgentExecEnds,
         AgentQuitsTask, AgentDeletesTask, AgentWaitTimesOut, AgentDeletesTaskLater,
         AgentFreed, AgentReturns

(* A thread that runs is at a step of its run(): every step keeps it so. *)
LEMMA RunningHasPcStep == IInv /\ [Next]_vars => RunningHasPc'
<1> SUFFICES ASSUME TypeOK, HashBounds, RunningHasPc, [Next]_vars PROVE RunningHasPc'
  BY DEF IInv
<1> USE DEF TypeOK, RunningHasPc, IsRunning
<1>1. CASE UNCHANGED vars
  BY <1>1 DEF vars, taskVars, agentVars, clientVars
<1>2. ASSUME NEW t \in Tasks, TaskThread(t) PROVE RunningHasPc'
  BY <1>2, ThreadCalls
     DEF TaskThread, TaskOnly, TaskStep, agentVars, clientVars, TaskEntersRun, TaskExec,
         TaskWoken, taskRun, TaskLock, TaskInvoked, TaskReturns, taskGoto
<1>3. CASE ClientStep
  BY <1>3, ThreadCalls, MaxRunsAssumption
     DEF ClientStep, ClientReturns, ClientSpinEnds, ClientStarts, ClientStops,
         taskVars, agentVars, clientVars
<1>4. CASE AgentStep
  <2>1. \A t \in Tasks : IsRunning(thread'[t]) <=> taskPc'[t] # "none"
    BY <1>4, AgentCalls, ThreadCalls
       DEF TaskStart, TaskQuit, TaskDelete, TaskDeleteLater, taskVars, IsFinished,
           AgentDeletesTask
  <2>2. (agentPc' # "none" => runs' > 0) /\ (IsRunning(agent') <=> agentPc' # "none")
    BY <1>4, ThreadCalls
       DEF AgentStep, clientVars, agentMoves, AgentEntersRun, AgentExecContinues,
           AgentWoken, AgentCreates, AgentStartsTask, AgentSpinEnds, AgentAllStarted,
           AgentExecEnds, AgentQuitsTask, AgentDeletesTask, AgentWaitTimesOut,
           AgentDeletesTaskLater, AgentFreed, AgentReturns
  <2> QED
    BY <2>1, <2>2
<1> QED
  BY <1>1, <1>2, <1>3, <1>4 DEF Next

(* Only lock and unlock of taskRun change who holds the mutex, with pc. *)
LEMMA MutexOwnerStep == IInv /\ [Next]_vars => MutexOwner'
<1> SUFFICES ASSUME TypeOK, HashBounds, RunningHasPc, MutexOwner, EventLoops,
                    [Next]_vars
             PROVE  MutexOwner'
  BY DEF IInv
<1> USE NoTaskAssumption DEF TypeOK, MutexOwner, synchronize
<1>1. CASE UNCHANGED vars
  BY <1>1 DEF vars, taskVars
<1>2. ASSUME NEW t \in Tasks, TaskThread(t) PROVE MutexOwner'
  <2> USE DEF taskGoto
  <2>1. CASE TaskLock(t)
    BY <2>1 DEF TaskLock, lock, EventLoops, synchronize
  <2>2. CASE TaskInvoked(t)
    <3>1. CASE synchronize(t)
      <4>1. mutex = t /\ mutex' = NoTask
        BY <2>2, <3>1 DEF TaskInvoked, unlock
      <4>2. \A u \in Tasks : u # t => taskPc'[u] = taskPc[u]
        BY <2>2 DEF TaskInvoked
      <4>3. taskPc'[t] = "exec"
        BY <2>2 DEF TaskInvoked, TaskPc
      <4> QED
        BY <4>1, <4>2, <4>3
    <3>2. CASE ~synchronize(t)
      BY <2>2, <3>2 DEF TaskInvoked, unlock
    <3> QED
      BY <3>1, <3>2
  <2>3. CASE taskRun(t)
    BY <2>3 DEF taskRun
  <2>4. CASE TaskEntersRun(t) \/ TaskExec(t) \/ TaskWoken(t) \/ TaskReturns(t)
    BY <2>4 DEF TaskEntersRun, TaskExec, TaskWoken, TaskReturns
  <2> QED
    BY <1>2, <2>1, <2>2, <2>3, <2>4 DEF TaskThread, TaskOnly, TaskStep
<1>3. CASE ClientStep
  BY <1>3 DEF ClientStep, ClientReturns, ClientSpinEnds, ClientStarts, ClientStops, taskVars
<1>4. CASE AgentStep
  BY <1>4, AgentCalls
     DEF RunningHasPc, TaskStart, TaskQuit, TaskDelete, TaskDeleteLater, taskVars
<1> QED
  BY <1>1, <1>2, <1>3, <1>4 DEF Next

(* A thread with an event loop to end is one that is attached and running. *)
LEMMA EventLoopsStep == IInv /\ [Next]_vars => EventLoops'
<1> SUFFICES ASSUME TypeOK, HashBounds, RunningHasPc, EventLoops, [Next]_vars
             PROVE  EventLoops'
  BY DEF IInv
<1> USE DEF TypeOK, EventLoops, hasInterval
<1>1. CASE UNCHANGED vars
  BY <1>1 DEF vars, taskVars
<1>2. ASSUME NEW t \in Tasks, TaskThread(t) PROVE EventLoops'
  BY <1>2, ThreadCalls
     DEF TaskThread, TaskOnly, TaskStep, TaskEntersRun, TaskExec, TaskWoken, taskRun,
         TaskLock, TaskInvoked, TaskReturns, taskGoto, timerStart, timerStop
<1>3. CASE ClientStep
  BY <1>3 DEF ClientStep, ClientReturns, ClientSpinEnds, ClientStarts, ClientStops, taskVars
<1>4. CASE AgentStep
  BY <1>4, AgentCalls, ThreadCalls
     DEF RunningHasPc, TaskStart, TaskQuit, TaskDelete, TaskDeleteLater, taskVars
<1> QED
  BY <1>1, <1>2, <1>3, <1>4 DEF Next

(* What a step of a task's thread leaves alone. *)
LEMMA TaskThreadKeeps ==
  ASSUME TypeOK, NEW t \in Tasks, TaskThread(t)
  PROVE  /\ UNCHANGED <<settings, agentVars, clientVars>>
         /\ \A u \in Tasks : /\ thread'[u].quit = thread[u].quit
                             /\ thread'[u].deferred = thread[u].deferred
                             /\ thread'[u].life # thread[u].life => taskPc[u] = "return"
                             /\ thread'[u] # thread[u] => taskPc[u] \in {"boot", "return"}
BY ThreadCalls
   DEF TypeOK, TaskThread, TaskOnly, TaskStep, TaskEntersRun, TaskExec, TaskWoken, taskRun,
       TaskLock, TaskInvoked, TaskReturns

(* What the agent has left of its tasks when it leaves a part of free(). *)
LEMMA AgentLeavesStep == IInv /\ [Next]_vars => AgentLeaves'
<1> SUFFICES ASSUME TypeOK, RunningHasPc, AgentLeaves, [Next]_vars PROVE AgentLeaves'
  BY DEF IInv
<1> USE DEF TypeOK, AgentLeaves
<1>1. CASE UNCHANGED vars
  BY <1>1 DEF vars, agentVars
<1>2. ASSUME NEW t \in Tasks, TaskThread(t) PROVE AgentLeaves'
  BY <1>2, TaskThreadKeeps DEF agentVars
<1>3. CASE ClientStep
  BY <1>3, ThreadCalls
     DEF ClientStep, ClientReturns, ClientSpinEnds, ClientStarts, ClientStops, agentVars
<1>4. CASE AgentStep
  BY <1>4, ThreadCalls
     DEF AgentStep, agentMoves, AgentEntersRun, AgentExecContinues, AgentWoken,
         AgentCreates, AgentStartsTask, AgentSpinEnds, AgentAllStarted, AgentExecEnds,
         AgentQuitsTask, AgentDeletesTask, AgentWaitTimesOut, AgentDeletesTaskLater,
         AgentFreed, AgentReturns
<1> QED
  BY <1>1, <1>2, <1>3, <1>4 DEF Next

(* The tasks of a run that has not begun have not been constructed. *)
LEMMA FreshTasksStep == IInv /\ [Next]_vars => FreshTasks'
<1> SUFFICES ASSUME TypeOK, HashBounds, RunningHasPc, FreshTasks, [Next]_vars
             PROVE  FreshTasks'
  BY DEF IInv
<1> USE TaskNames DEF TypeOK, FreshTasks
<1>1. CASE UNCHANGED vars
  BY <1>1 DEF vars, taskVars, agentVars, clientVars
<1>2. ASSUME NEW t \in Tasks, TaskThread(t) PROVE FreshTasks'
  <2>1. UNCHANGED <<agentVars, clientVars>>
    BY <1>2, TaskThreadKeeps
  <2>2. ASSUME NEW u \in Tasks, thread[u] = NewThread PROVE thread'[u] = thread[u]
    <3>1. taskPc[u] = "none"
      BY <2>2 DEF RunningHasPc, IsRunning, NewThread
    <3> QED
      BY <1>2, <3>1, TaskThreadKeeps
  <2> QED
    BY <2>1, <2>2 DEF agentVars, clientVars
<1>3. CASE ClientStep
  BY <1>3, ThreadCalls
     DEF ClientStep, ClientReturns, ClientSpinEnds, ClientStarts, ClientStops,
         taskVars, agentVars, clientVars, RunningHasPc, HashBounds
<1>4. CASE AgentStep
  <2>0. runs' = runs
    BY <1>4 DEF AgentStep, clientVars
  <2>1. /\ agentPc' # "boot"
        /\ agentTimer' => agentTimer \/ agentPc = "boot"
    BY <1>4
       DEF AgentStep, agentMoves, AgentEntersRun, AgentExecContinues, AgentWoken,
           AgentCreates, AgentStartsTask, AgentSpinEnds, AgentAllStarted, AgentExecEnds,
           AgentQuitsTask, AgentDeletesTask, AgentWaitTimesOut, AgentDeletesTaskLater,
           AgentFreed, AgentReturns
  <2>2. CASE UNCHANGED taskVars
    BY <2>0, <2>1, <2>2 DEF taskVars
  <2>3. ASSUME NEW t \in Held, agentPc \notin {"boot", "exec", "events"},
               \A u \in Tasks : u # t => thread'[u] = thread[u]
        PROVE  FreshTasks'
    BY <2>0, <2>1, <2>3 DEF HashBounds
  <2>4. CASE \/ \E t \in Tasks : TaskStart(t) /\ AgentStartsTask(t)
             \/ \E t \in Tasks : TaskQuit(t) /\ AgentQuitsTask(t)
    BY <2>3, <2>4
       DEF TaskStart, AgentStartsTask, TaskQuit, AgentQuitsTask, agentMoves, HashBounds, Held
  <2>5. CASE \/ TaskDelete(current) /\ AgentDeletesTask
             \/ TaskDeleteLater(current) /\ AgentDeletesTaskLater
    BY <2>3, <2>5
       DEF TaskDelete, AgentDeletesTask, TaskDeleteLater, AgentDeletesTaskLater, agentMoves,
           Held
  <2> QED
    BY <1>4, AgentCalls, <2>2, <2>4, <2>5
<1> QED
  BY <1>1, <1>2, <1>3, <1>4 DEF Next

(* No step loses the dispatcher of a thread somebody waits for, but those
   the property names. *)
LEMMA SpinNeverLostStep == IInv /\ [Next]_vars => SpinNeverLost'
<1> SUFFICES ASSUME TypeOK, HashBounds, RunningHasPc, EventLoops, AgentLeaves, SpinNeverLost,
                    [Next]_vars
             PROVE  SpinNeverLost'
  BY DEF IInv
<1> USE DEF TypeOK, SpinNeverLost
<1>1. CASE UNCHANGED vars
  BY <1>1 DEF vars, taskVars, agentVars, clientVars
<1>2. ASSUME NEW t \in Tasks, TaskThread(t) PROVE SpinNeverLost'
  <2>1. UNCHANGED <<settings, agentVars, clientVars>>
    BY <1>2, TaskThreadKeeps
  <2>2. ASSUME agentPc = "spin", ~IsRunning(thread'[current]) PROVE settings.interval <= 0
    <3>1. current \in Tasks /\ ~thread[current].quit
      BY <2>2 DEF HashBounds, values
    <3>2. CASE thread'[current].life = thread[current].life
      BY <2>2, <3>2 DEF IsRunning
    <3>3. CASE taskPc[current] = "return"
      <4>1. ~hasInterval
        BY <3>1, <3>3 DEF EventLoops
      <4>2. settings.interval \in Int
        BY IntervalsAssumption DEF Settings
      <4> QED
        BY <4>1, <4>2 DEF hasInterval
    <3> QED
      BY <1>2, <3>1, <3>2, <3>3, TaskThreadKeeps
  <2> QED
    BY <2>1, <2>2 DEF agentVars, clientVars
<1>3. CASE ClientStep
  BY <1>3, ThreadCalls
     DEF ClientStep, ClientReturns, ClientSpinEnds, ClientStarts, ClientStops,
         taskVars, agentVars, clientVars, RunningHasPc, IsRunning
<1>4. CASE AgentStep
  <2> USE DEF IsRunning
  <2>1. client' = "spin" /\ ~IsRunning(agent') => ~settings'.enabled \/ agent'.quit
    BY <1>4, ThreadCalls
       DEF AgentStep, clientVars, agentMoves, AgentEntersRun, AgentExecContinues, AgentWoken,
           AgentCreates, AgentStartsTask, AgentSpinEnds, AgentAllStarted, AgentExecEnds,
           AgentQuitsTask, AgentDeletesTask, AgentWaitTimesOut, AgentDeletesTaskLater,
           AgentFreed, AgentReturns, AgentLeaves
  <2>2. agentPc' = "spin" => IsRunning(thread'[current'])
    BY <1>4, ThreadCalls
       DEF AgentStep, agentMoves, AgentEntersRun, AgentExecContinues, AgentWoken,
           AgentCreates, AgentStartsTask, AgentSpinEnds, AgentAllStarted, AgentExecEnds,
           AgentQuitsTask, AgentDeletesTask, AgentWaitTimesOut, AgentDeletesTaskLater,
           AgentFreed, AgentReturns, TaskStart
  <2> QED
    BY <2>1, <2>2
<1> QED
  BY <1>1, <1>2, <1>3, <1>4 DEF Next

(* The hash and the list of free() hold tasks of the agent's own run only. *)
LEMMA HashBoundsStep == IInv /\ [Next]_vars => HashBounds'
<1> SUFFICES ASSUME TypeOK, HashBounds, RunningHasPc, FreshTasks, [Next]_vars
             PROVE  HashBounds'
  BY DEF IInv
<1> USE DEF TypeOK
<1>1. CASE UNCHANGED vars
  <2>1. UNCHANGED <<thread, tasks, pending, current, agentPc, agentTimer, runs>>
    BY <1>1 DEF vars, taskVars, agentVars, clientVars
  <2>2. values' = values /\ Held' = Held
    BY <2>1 DEF Held, values
  <2> QED
    BY <2>1, <2>2 DEF HashBounds
<1>2. ASSUME NEW t \in Tasks, TaskThread(t) PROVE HashBounds'
  <2>1. UNCHANGED <<agentVars, clientVars>> /\ \A u \in Tasks : thread'[u].quit = thread[u].quit
    BY <1>2, TaskThreadKeeps
  <2>2. values \subseteq Tasks /\ values' = values /\ Held' = Held
    BY <2>1 DEF agentVars, Held, values
  <2> QED
    BY <2>1, <2>2 DEF agentVars, clientVars, HashBounds
<1>3. CASE ClientStep
  <2>1. UNCHANGED <<thread, tasks, pending, current, agentTimer>>
    BY <1>3 DEF ClientStep, ClientReturns, ClientSpinEnds, ClientStarts, ClientStops,
                agentVars, taskVars
  <2>2. CASE UNCHANGED <<agentPc, runs>>
    <3>1. values' = values /\ Held' = Held
      BY <2>1, <2>2 DEF Held, values
    <3> QED
      BY <2>1, <2>2, <3>1 DEF HashBounds
  <2>3. CASE agentPc = "none" /\ agentPc' = "boot"
    BY <2>1, <2>3 DEF HashBounds, Held, values
  <2> QED
    BY <1>3, <2>2, <2>3
       DEF ClientStep, ClientReturns, ClientSpinEnds, ClientStarts, ClientStops,
           agentVars, clientVars, RunningHasPc
<1>4. CASE AgentStep
  <2>0. runs' = runs
    BY <1>4 DEF AgentStep, clientVars
  <2>1. CASE AgentCreates
    <3>1. UNCHANGED thread /\ values = {} /\ agentPc' = "start" /\ ~agentTimer'
      BY <2>1 DEF AgentCreates, agentMoves, taskVars, HashBounds
    <3>2. runs \in 1 .. MaxRuns
      BY <2>1, MaxRunsAssumption DEF AgentCreates, agentMoves, RunningHasPc
    <3>3. \A s \in Scopes : tasks'[s] # NoTask =>
            tasks'[s] \in Tasks /\ runOf(tasks'[s]) = runs
      BY <2>1, <3>1, <3>2, TaskNames DEF AgentCreates, values
    <3>4. \A t \in values' : t \in Tasks /\ runOf(t) = runs
      BY <3>3 DEF values
    <3>5. \A t \in values' : thread[t] = NewThread
      BY <2>1, <3>4 DEF AgentCreates, FreshTasks
    <3>6. pending' = values'
      BY <2>1 DEF AgentCreates
    <3> QED
      BY <2>0, <3>1, <3>4, <3>5, <3>6 DEF HashBounds, Held, NewThread
  <2>2. CASE AgentEntersRun
    BY <2>0, <2>2 DEF AgentEntersRun, HashBounds, Held, values, taskVars
  <2>3. CASE AgentExecEnds
    <3>1. values' = {}
      BY <2>3 DEF AgentExecEnds, tasksClear, values
    <3>2. Held' = values
      BY <2>3 DEF AgentExecEnds, agentMoves, Held
    <3>3. Held = values
      BY <2>3 DEF AgentExecEnds, agentMoves, Held
    <3> QED
      BY <2>0, <2>3, <3>1, <3>2, <3>3 DEF AgentExecEnds, agentMoves, HashBounds
  <2>4. CASE AgentDeletesTask \/ AgentDeletesTaskLater
    <3>1. /\ UNCHANGED <<tasks, pending, current, agentTimer>>
          /\ agentPc \in {"wait", "late"} /\ agentPc' = "free"
      BY <2>4 DEF AgentDeletesTask, AgentDeletesTaskLater, agentMoves
    <3>2. values = {} /\ values' = {}
      BY <3>1 DEF HashBounds, values
    <3>3. Held' \subseteq Held
      BY <3>1 DEF Held
    <3> QED
      BY <2>0, <3>1, <3>2, <3>3 DEF HashBounds
  <2>5. ASSUME NEW t \in Tasks, AgentStartsTask(t) PROVE HashBounds'
    <3>1. values' = values /\ Held' = Held /\ t \in values
      BY <2>5 DEF AgentStartsTask, agentMoves, Held, values, HashBounds
    <3>2. \A u \in values : ~thread'[u].quit
      BY <2>5, <3>1, ThreadCalls DEF AgentStartsTask, TaskStart, HashBounds, values
    <3> QED
      BY <2>0, <2>5, <3>1, <3>2 DEF AgentStartsTask, agentMoves, HashBounds
  <2>6. ASSUME NEW t \in Tasks, AgentQuitsTask(t) PROVE HashBounds'
    <3>1. values' = {} /\ values = {} /\ Held' = Held
      BY <2>6 DEF AgentQuitsTask, agentMoves, Held, values, HashBounds
    <3> QED
      BY <2>0, <2>6, <3>1 DEF AgentQuitsTask, agentMoves, HashBounds
  <2>7. CASE \/ AgentExecContinues \/ AgentWoken \/ AgentSpinEnds \/ AgentAllStarted
             \/ AgentWaitTimesOut \/ AgentFreed \/ AgentReturns
    BY <2>0, <2>7
       DEF AgentExecContinues, AgentWoken, AgentSpinEnds, AgentAllStarted,
           AgentWaitTimesOut, AgentFreed, AgentReturns, agentMoves, HashBounds, Held,
           values, taskVars
  <2> QED
    BY <1>4, <2>1, <2>2, <2>3, <2>4, <2>5, <2>6, <2>7 DEF AgentStep
<1> QED
  BY <1>1, <1>2, <1>3, <1>4 DEF Next

(* A task that was created is in the hash, in the list of free(), or gone. *)
LEMMA AccountedStep == IInv /\ [Next]_vars => Accounted'
<1> SUFFICES ASSUME TypeOK, HashBounds, RunningHasPc, Accounted, [Next]_vars
             PROVE  Accounted'
  BY DEF IInv
<1> USE DEF TypeOK, Accounted
<1>1. CASE UNCHANGED vars
  BY <1>1 DEF vars, taskVars, agentVars, clientVars, Held, values
<1>2. ASSUME NEW t \in Tasks, TaskThread(t) PROVE Accounted'
  <2>1. UNCHANGED agentVars
    BY <1>2, TaskThreadKeeps
  <2>2. ASSUME NEW u \in Tasks, thread[u].life \in {"new", "deleted"}
        PROVE  thread'[u].life = thread[u].life
    <3>1. taskPc[u] = "none"
      BY <2>2 DEF RunningHasPc, IsRunning
    <3> QED
      BY <1>2, <3>1, TaskThreadKeeps
  <2>3. \A u \in Tasks : thread'[u].deferred = thread[u].deferred
    BY <1>2, TaskThreadKeeps
  <2> QED
    BY <2>1, <2>2, <2>3 DEF agentVars, Held, values
<1>3. CASE ClientStep
  <2>1. UNCHANGED <<thread, tasks, pending, current>>
    BY <1>3 DEF ClientStep, ClientReturns, ClientSpinEnds, ClientStarts, ClientStops,
                agentVars, taskVars
  <2>2. agentPc' = agentPc \/ (agentPc = "none" /\ agentPc' = "boot")
    BY <1>3 DEF ClientStep, ClientReturns, ClientSpinEnds, ClientStarts, ClientStops,
                agentVars, RunningHasPc
  <2> QED
    BY <2>1, <2>2 DEF Held, values
<1>4. CASE AgentStep
  <2>1. CASE AgentCreates
    <3>1. Held \subseteq Held' /\ UNCHANGED thread
      BY <2>1 DEF AgentCreates, agentMoves, Held, HashBounds, taskVars
    <3> QED
      BY <3>1
  <2>2. CASE AgentExecEnds
    <3>1. Held' = Held /\ UNCHANGED thread
      BY <2>2 DEF AgentExecEnds, agentMoves, Held, taskVars
    <3> QED
      BY <3>1
  <2>3. CASE AgentDeletesTask \/ AgentDeletesTaskLater
    <3>1. current \in Tasks /\ Held \subseteq Held' \cup {current}
      BY <2>3 DEF AgentDeletesTask, AgentDeletesTaskLater, agentMoves, Held, HashBounds
    <3>2. thread'[current].life = "deleted" \/ thread'[current].deferred
      BY <2>3, <3>1, ThreadCalls
         DEF AgentDeletesTask, AgentDeletesTaskLater, TaskDelete, TaskDeleteLater
    <3>3. \A u \in Tasks : u # current => thread'[u] = thread[u]
      BY <2>3 DEF AgentDeletesTask, AgentDeletesTaskLater, TaskDelete, TaskDeleteLater
    <3> QED
      BY <3>1, <3>2, <3>3
  <2>4. ASSUME NEW t \in Tasks, AgentStartsTask(t) \/ AgentQuitsTask(t) PROVE Accounted'
    <3>1. Held \subseteq Held' /\ t \in Held'
      BY <2>4 DEF AgentStartsTask, AgentQuitsTask, agentMoves, Held, HashBounds, values
    <3>2. \A u \in Tasks : u # t => thread'[u] = thread[u]
      BY <2>4 DEF AgentStartsTask, AgentQuitsTask, TaskStart, TaskQuit
    <3> QED
      BY <3>1, <3>2
  <2>5. CASE \/ AgentEntersRun \/ AgentExecContinues \/ AgentWoken \/ AgentSpinEnds
             \/ AgentAllStarted \/ AgentWaitTimesOut \/ AgentFreed \/ AgentReturns
    <3>1. Held \subseteq Held' /\ UNCHANGED thread
      BY <2>5
         DEF AgentEntersRun, AgentExecContinues, AgentWoken, AgentSpinEnds,
             AgentAllStarted, AgentWaitTimesOut, AgentFreed, AgentReturns, agentMoves,
             Held, values, taskVars, HashBounds
    <3> QED
      BY <3>1
  <2> QED
    BY <1>4, <2>1, <2>2, <2>3, <2>4, <2>5 DEF AgentStep
<1> QED
  BY <1>1, <1>2, <1>3, <1>4 DEF Next

(* No step of a task's thread makes an object new again, nor a new one old. *)
LEMMA TaskThreadKeepsNew ==
  ASSUME TypeOK, RunningHasPc, NEW t \in Tasks, TaskThread(t), NEW u \in Tasks
  PROVE  thread'[u].life = "new" <=> thread[u].life = "new"
<1>1. CASE taskPc[u] = "return"
  <2>1. thread[u].life = "running"
    BY <1>1 DEF RunningHasPc, IsRunning
  <2>2. thread'[u] = thread[u] \/ thread'[u] = Ended(thread[u])
    BY <1>1
       DEF TypeOK, TaskThread, TaskOnly, TaskStep, TaskEntersRun, TaskExec, TaskWoken, taskRun,
           TaskLock, TaskInvoked, TaskReturns
  <2>3. Ended(thread[u]).life \in {"finished", "aborted"}
    BY ThreadCalls DEF TypeOK
  <2> QED
    BY <2>1, <2>2, <2>3
<1>2. CASE taskPc[u] # "return"
  BY <1>2, TaskThreadKeeps
<1> QED
  BY <1>1, <1>2

(* start() starts every object it has constructed, and none twice. *)
LEMMA HeldStartedStep == IInv /\ [Next]_vars => HeldStarted'
<1> SUFFICES ASSUME TypeOK, HashBounds, RunningHasPc, FreshTasks, HeldStarted, [Next]_vars
             PROVE  HeldStarted'
  BY DEF IInv
<1> USE DEF TypeOK, HeldStarted
<1>1. CASE UNCHANGED vars
  BY <1>1 DEF vars, taskVars, agentVars, clientVars, Held, values
<1>2. ASSUME NEW t \in Tasks, TaskThread(t) PROVE HeldStarted'
  <2>1. UNCHANGED agentVars
    BY <1>2, TaskThreadKeeps
  <2>2. Held' = Held /\ Held \subseteq Tasks
    BY <2>1 DEF agentVars, Held, values, HashBounds
  <2> QED
    BY <1>2, <2>1, <2>2, TaskThreadKeepsNew DEF agentVars
<1>3. CASE ClientStep
  <2>1. UNCHANGED <<thread, tasks, pending, current>>
    BY <1>3 DEF ClientStep, ClientReturns, ClientSpinEnds, ClientStarts, ClientStops,
                agentVars, taskVars
  <2>2. agentPc' = agentPc \/ (agentPc = "none" /\ agentPc' = "boot")
    BY <1>3 DEF ClientStep, ClientReturns, ClientSpinEnds, ClientStarts, ClientStops,
                agentVars, RunningHasPc
  <2> QED
    BY <2>1, <2>2 DEF Held, values
<1>4. CASE AgentStep
  <2>1. CASE AgentCreates
    <3>1. /\ UNCHANGED thread
          /\ agentPc' = "start"
          /\ pending' = values'
          /\ Held' = values'
      BY <2>1 DEF AgentCreates, agentMoves, taskVars, Held
    <3>2. \A t \in values' : t \in Tasks /\ runOf(t) = runs
      <4>1. runs \in 1 .. MaxRuns
        BY <2>1, MaxRunsAssumption DEF AgentCreates, agentMoves, RunningHasPc
      <4>2. \A s \in Scopes : tasks'[s] # NoTask => tasks'[s] \in Tasks /\ runOf(tasks'[s]) = runs
        BY <2>1, <4>1, TaskNames DEF AgentCreates, HashBounds, values
      <4> QED
        BY <4>2 DEF values
    <3>3. \A t \in values' : thread[t].life = "new"
      BY <2>1, <3>2 DEF AgentCreates, FreshTasks, NewThread
    <3> QED
      BY <3>1, <3>3
  <2>2. CASE AgentExecEnds
    <3>1. Held' = Held /\ UNCHANGED thread /\ agentPc = "exec" /\ agentPc' = "free"
      BY <2>2 DEF AgentExecEnds, agentMoves, Held, taskVars
    <3> QED
      BY <3>1
  <2>3. CASE AgentDeletesTask \/ AgentDeletesTaskLater
    <3>1. /\ agentPc \in {"wait", "late"} /\ agentPc' = "free"
          /\ pending' = pending /\ current' = current
      BY <2>3 DEF AgentDeletesTask, AgentDeletesTaskLater, agentMoves
    <3>2. Held' \subseteq Held /\ current \in Held /\ current \in Tasks /\ Held \subseteq Tasks
      BY <3>1 DEF Held, HashBounds
    <3>3. thread'[current].life # "new"
      <4>1. thread[current].life # "new"
        BY <3>1, <3>2
      <4> QED
        BY <2>3, <3>2, <4>1, ThreadCalls
           DEF AgentDeletesTask, AgentDeletesTaskLater, TaskDelete, TaskDeleteLater
    <3>4. \A u \in Tasks : u # current => thread'[u] = thread[u]
      BY <2>3 DEF AgentDeletesTask, AgentDeletesTaskLater, TaskDelete, TaskDeleteLater
    <3> QED
      BY <3>1, <3>2, <3>3, <3>4
  <2>4. ASSUME NEW t \in Tasks, AgentStartsTask(t) PROVE HeldStarted'
    <3>1. /\ agentPc = "start" /\ agentPc' = "spin"
          /\ pending' = pending \ {t}
          /\ Held' = Held /\ Held \subseteq Tasks
      BY <2>4 DEF AgentStartsTask, agentMoves, Held, values
    <3>2. /\ thread'[t].life = "running"
          /\ \A u \in Tasks : u # t => thread'[u] = thread[u]
      BY <2>4, ThreadCalls DEF AgentStartsTask, TaskStart
    <3> QED
      BY <3>1, <3>2
  <2>5. ASSUME NEW t \in Tasks, AgentQuitsTask(t) PROVE HeldStarted'
    <3>1. /\ agentPc = "free" /\ agentPc' = "wait"
          /\ Held' = Held /\ Held \subseteq Tasks
      BY <2>5 DEF AgentQuitsTask, agentMoves, Held
    <3>2. \A u \in Tasks : thread'[u].life = thread[u].life
      BY <2>5, ThreadCalls DEF AgentQuitsTask, TaskQuit
    <3> QED
      BY <3>1, <3>2
  <2>6. CASE \/ AgentEntersRun \/ AgentExecContinues \/ AgentWoken \/ AgentSpinEnds
             \/ AgentAllStarted \/ AgentWaitTimesOut \/ AgentFreed \/ AgentReturns
    BY <2>6
       DEF AgentEntersRun, AgentExecContinues, AgentWoken, AgentSpinEnds,
           AgentAllStarted, AgentWaitTimesOut, AgentFreed, AgentReturns, agentMoves,
           Held, values, taskVars, HashBounds
  <2> QED
    BY <1>4, <2>1, <2>2, <2>3, <2>4, <2>5, <2>6 DEF AgentStep
<1> QED
  BY <1>1, <1>2, <1>3, <1>4 DEF Next

(* free() tells every task it takes from the hash to quit. *)
LEMMA QuitUnlessServedStep == IInv /\ [Next]_vars => QuitUnlessServed'
<1> SUFFICES ASSUME TypeOK, HashBounds, RunningHasPc, HeldStarted, QuitUnlessServed,
                    [Next]_vars
             PROVE  QuitUnlessServed'
  BY DEF IInv
<1> USE DEF TypeOK, QuitUnlessServed
<1>1. CASE UNCHANGED vars
  BY <1>1 DEF vars, taskVars, agentVars, Unfreed, values
<1>2. ASSUME NEW t \in Tasks, TaskThread(t) PROVE QuitUnlessServed'
  <2>1. UNCHANGED agentVars /\ \A u \in Tasks : thread'[u].quit = thread[u].quit
    BY <1>2, TaskThreadKeeps
  <2>2. Unfreed' = Unfreed
    BY <2>1 DEF agentVars, Unfreed, values
  <2> QED
    BY <1>2, <2>1, <2>2, TaskThreadKeepsNew
<1>3. CASE ClientStep
  <2>1. UNCHANGED <<thread, tasks, pending>>
    BY <1>3 DEF ClientStep, ClientReturns, ClientSpinEnds, ClientStarts, ClientStops,
                agentVars, taskVars
  <2>2. agentPc' = agentPc \/ (agentPc = "none" /\ agentPc' = "boot")
    BY <1>3 DEF ClientStep, ClientReturns, ClientSpinEnds, ClientStarts, ClientStops,
                agentVars, RunningHasPc
  <2> QED
    BY <2>1, <2>2 DEF Unfreed, values
<1>4. CASE AgentStep
  <2>1. CASE AgentCreates
    BY <2>1 DEF AgentCreates, agentMoves, Unfreed, HashBounds, taskVars
  <2>2. CASE AgentExecEnds
    BY <2>2 DEF AgentExecEnds, agentMoves, Unfreed, taskVars
  <2>3. CASE AgentDeletesTask \/ AgentDeletesTaskLater
    <3>1. Unfreed' = Unfreed /\ current \in Tasks
      BY <2>3 DEF AgentDeletesTask, AgentDeletesTaskLater, agentMoves, Unfreed, HashBounds
    <3>2. thread'[current].quit = thread[current].quit
      BY <2>3, <3>1, ThreadCalls
         DEF AgentDeletesTask, AgentDeletesTaskLater, TaskDelete, TaskDeleteLater
    <3>3. thread[current].life # "new"
      BY <2>3, <3>1
         DEF AgentDeletesTask, AgentDeletesTaskLater, agentMoves, Held, HeldStarted
    <3>4. \A u \in Tasks : u # current => thread'[u] = thread[u]
      BY <2>3 DEF AgentDeletesTask, AgentDeletesTaskLater, TaskDelete, TaskDeleteLater
    <3> QED
      BY <3>1, <3>2, <3>3, <3>4
  <2>4. ASSUME NEW t \in Tasks, AgentStartsTask(t) PROVE QuitUnlessServed'
    <3>1. Unfreed' = Unfreed /\ t \in Unfreed
      BY <2>4 DEF AgentStartsTask, agentMoves, Unfreed, values, HashBounds
    <3>2. \A u \in Tasks : u # t => thread'[u] = thread[u]
      BY <2>4 DEF AgentStartsTask, TaskStart
    <3> QED
      BY <3>1, <3>2
  <2>5. ASSUME NEW t \in Tasks, AgentQuitsTask(t) PROVE QuitUnlessServed'
    <3>1. Unfreed' = Unfreed \ {t}
      BY <2>5 DEF AgentQuitsTask, agentMoves, Unfreed
    <3>2. /\ thread'[t].quit
          /\ \A u \in Tasks : u # t => thread'[u] = thread[u]
      BY <2>5, ThreadCalls DEF AgentQuitsTask, TaskQuit
    <3> QED
      BY <3>1, <3>2
  <2>6. CASE AgentFreed
    BY <2>6 DEF AgentFreed, agentMoves, Unfreed, HashBounds, taskVars
  <2>7. CASE \/ AgentEntersRun \/ AgentExecContinues \/ AgentWoken \/ AgentSpinEnds
             \/ AgentAllStarted \/ AgentWaitTimesOut \/ AgentReturns
    <3>1. Unfreed' = Unfreed /\ UNCHANGED thread
      BY <2>7
         DEF AgentEntersRun, AgentExecContinues, AgentWoken, AgentSpinEnds,
             AgentAllStarted, AgentWaitTimesOut, AgentReturns, agentMoves,
             Unfreed, values, taskVars
    <3> QED
      BY <3>1
  <2> QED
    BY <1>4, <2>1, <2>2, <2>3, <2>4, <2>5, <2>6, <2>7 DEF AgentStep
<1> QED
  BY <1>1, <1>2, <1>3, <1>4 DEF Next

-----------------------------------------------------------------------------
(* The inductive invariant holds of every reachable state. *)
THEOREM Invariance == Spec => []IInv
<1>1. Init => IInv
  <2> SUFFICES ASSUME Init PROVE IInv
    OBVIOUS
  <2> USE NoTaskAssumption DEF Init, TaskInit
  <2>1. TypeOK
    <3>1. runs \in 0 .. MaxRuns
      BY MaxRunsAssumption
    <3>2. thread \in [Tasks -> ThreadState] /\ agent \in ThreadState
      BY NewThreadType
    <3> QED
      BY <3>1, <3>2 DEF TypeOK, TaskPc, Timer, AgentPc
  <2>2. RunningHasPc /\ MutexOwner /\ EventLoops /\ AgentLeaves /\ SpinNeverLost
    BY DEF RunningHasPc, MutexOwner, EventLoops, AgentLeaves, SpinNeverLost, IsRunning,
           NewThread
  <2>3. HashBounds /\ Accounted /\ FreshTasks /\ HeldStarted /\ QuitUnlessServed
    BY DEF HashBounds, Accounted, FreshTasks, HeldStarted, QuitUnlessServed, Held, values,
           NewThread
  <2> QED
    BY <2>1, <2>2, <2>3 DEF IInv
<1>2. IInv /\ [Next]_vars => IInv'
  BY TypeOKStep, RunningHasPcStep, MutexOwnerStep, EventLoopsStep, HashBoundsStep,
     AccountedStep, FreshTasksStep, AgentLeavesStep, SpinNeverLostStep, HeldStartedStep,
     QuitUnlessServedStep
     DEF IInv
<1> QED
  BY <1>1, <1>2, PTL DEF Spec

(* Every variable keeps its type (the states the code's objects can be in). *)
THEOREM TypeCorrect == Spec => []TypeOK
BY Invariance, PTL DEF IInv

(* The owner of staticMutexSynchronize is the synchronized task that is      *)
(* inside its invocation: taskRun always gives the mutex back.               *)
THEOREM MutexOwned == Spec => []MutexOwner
BY Invariance, PTL DEF IInv

(* At most one synchronized task is inside scope->invoke(). *)
THEOREM Synchronization == Spec => []SyncExclusive
<1>1. IInv => SyncExclusive
  BY DEF IInv, MutexOwner, SyncExclusive, Invoking
<1> QED
  BY <1>1, Invariance, PTL

(* taskRun never leaves a waiting task without a timer, nor one that invokes *)
(* its methods with one.                                                     *)
THEOREM TimersDisciplined == Spec => []TimerDiscipline
<1>1. IInv => TimerDiscipline
  BY DEF IInv, EventLoops, TimerDiscipline
<1> QED
  BY <1>1, Invariance, PTL

(* The hash is empty whenever start() of the agent is about to fill it. *)
THEOREM StartOnEmptyHash == Spec => []StartFindsNoTask
<1>1. IInv => StartFindsNoTask
  BY DEF IInv, HashBounds, StartFindsNoTask
<1> QED
  BY <1>1, Invariance, PTL

(* free() leaves no task object behind that nobody will delete. *)
THEOREM NoTaskForgotten == Spec => []AgentFreesTasks
<1>1. IInv => AgentFreesTasks
  <2> SUFFICES ASSUME IInv, agentPc \in {"none", "boot"} PROVE AgentFreesTasks
    BY DEF AgentFreesTasks
  <2>1. Held = {}
    BY DEF IInv, HashBounds, Held
  <2> QED
    BY <2>1 DEF IInv, Accounted, AgentFreesTasks
<1> QED
  BY <1>1, Invariance, PTL

(* Two threads of one scope overlap only after free() gave up on the older. *)
THEOREM OverlapBounded == Spec => []OverlapOnlyAfterTimeout
<1>1. IInv => OverlapOnlyAfterTimeout
  <2> SUFFICES ASSUME IInv, NEW t \in Tasks, NEW u \in Tasks, runOf(t) < runOf(u),
                      IsRunning(thread[t]), IsRunning(thread[u]), ~thread[t].deferred
               PROVE  FALSE
    BY DEF OverlapOnlyAfterTimeout
  <2>1. runOf(u) <= runs
    BY TaskNames DEF IInv, TypeOK, FreshTasks, IsRunning, NewThread
  <2>2. t \in Held
    BY DEF IInv, Accounted, IsRunning
  <2>3. runOf(t) = runs
    BY <2>2 DEF IInv, HashBounds
  <2> QED
    BY <2>1, <2>3, TaskNames DEF IInv, TypeOK
<1> QED
  BY <1>1, Invariance, PTL

(* A loop that waits for an event dispatcher misses it in no other case than *)
(* a disabled or stopped agent, or an interval that is not positive.         *)
THEOREM DispatcherWaits == Spec => []SpinNeverLost
BY Invariance, PTL DEF IInv

-----------------------------------------------------------------------------
(* A step of a task's thread is one of its worker, or none. *)
LEMMA TaskSteps ==
  ASSUME IInv, NEW t \in Tasks, TaskThread(t)
  PROVE  [Service!Next]_(Service!vars)
<1> TypeOK
  BY DEF IInv
<1> USE DEF TypeOK
<1> DEFINE hiredNow == {u \in Tasks : thread[u].life # "new"}
           dismissedNow == {u \in Tasks : thread[u].life # "new" /\ thread[u].quit}
           placeNow == [u \in Tasks |-> placeOf(u)]
<1>1. hiredNow' = hiredNow /\ dismissedNow' = dismissedNow
  <2>1. \A u \in Tasks : thread'[u].life = "new" <=> thread[u].life = "new"
    BY TaskThreadKeepsNew DEF IInv
  <2>2. \A u \in Tasks : thread'[u].quit = thread[u].quit
    BY TaskThreadKeeps
  <2> QED
    BY <2>1, <2>2
<1>2. \A u \in Tasks : u # t => taskPc'[u] = taskPc[u]
  BY DEF TaskThread, TaskOnly, TaskStep, TaskEntersRun, TaskExec, TaskWoken,
         taskRun, TaskLock, TaskInvoked, TaskReturns, taskGoto
<1>3. ASSUME NEW to, placeOf(t)' = to PROVE placeNow' = [placeNow EXCEPT ![t] = to]
  BY <1>2, <1>3 DEF placeOf
<1>4. ASSUME placeOf(t)' = placeOf(t) PROVE [Service!Next]_(Service!vars)
  BY <1>1, <1>2, <1>4 DEF Service!vars, placeOf
<1>5. CASE TaskExec(t) /\ ~thread[t].quit
  <2>1. placeOf(t) = "resting" /\ placeOf(t)' = "listening"
    BY <1>5 DEF TaskExec, taskGoto, placeOf
  <2>2. t \in hiredNow \ dismissedNow
    BY <1>5 DEF TaskExec, IInv, RunningHasPc, IsRunning
  <2>3. Service!Listen(t)
    BY <1>1, <1>3, <2>1, <2>2 DEF Service!Listen, Service!Moves
  <2> QED
    BY <2>3 DEF Service!Next
<1>6. CASE TaskWoken(t)
  <2>1. placeOf(t) = "listening" /\ placeOf(t)' = "resting"
    BY <1>6 DEF TaskWoken, taskGoto, placeOf
  <2>2. t \in dismissedNow
    BY <1>6 DEF TaskWoken, IInv, RunningHasPc, IsRunning
  <2>3. Service!GiveUp(t)
    BY <1>1, <1>3, <2>1, <2>2 DEF Service!GiveUp, Service!Moves
  <2> QED
    BY <2>3 DEF Service!Next
<1>7. CASE (taskRun(t) /\ ~synchronize(t)) \/ TaskLock(t)
  <2>1. placeOf(t) = "listening" /\ placeOf(t)' = "busy"
    BY <1>7 DEF taskRun, TaskLock, taskGoto, placeOf
  <2>2. ASSUME synchronize(t), NEW v \in Tasks, synchronize(v) PROVE placeOf(v) # "busy"
    <3>1. mutex = NoTask
      BY <1>7, <2>2 DEF TaskLock, lock
    <3>2. taskPc[v] # "invoke"
      BY <2>2, <3>1, NoTaskAssumption DEF IInv, MutexOwner
    <3> QED
      BY <3>2 DEF placeOf
  <2>3. Service!Begin(t)
    BY <1>1, <1>3, <2>1, <2>2 DEF Service!Begin, Service!Moves
  <2> QED
    BY <2>3 DEF Service!Next
<1>8. CASE TaskInvoked(t)
  <2>1. placeOf(t) = "busy" /\ placeOf(t)' = "resting"
    BY <1>8 DEF TaskInvoked, taskGoto, placeOf
  <2>2. Service!End(t)
    BY <1>1, <1>3, <2>1 DEF Service!End, Service!Moves
  <2> QED
    BY <2>2 DEF Service!Next
<1>9. CASE \/ TaskEntersRun(t) \/ (TaskExec(t) /\ thread[t].quit)
           \/ (taskRun(t) /\ synchronize(t)) \/ TaskReturns(t)
  <2>1. placeOf(t)' = placeOf(t)
    BY <1>9 DEF TaskEntersRun, TaskExec, taskRun, TaskReturns, taskGoto, placeOf
  <2> QED
    BY <1>4, <2>1
<1> QED
  BY <1>5, <1>6, <1>7, <1>8, <1>9 DEF TaskThread, TaskOnly, TaskStep

(* A step of the agent hires or dismisses at most one worker. *)
LEMMA AgentSteps ==
  ASSUME IInv, AgentStep
  PROVE  [Service!Next]_(Service!vars)
<1> TypeOK /\ HashBounds
  BY DEF IInv
<1> USE DEF TypeOK
<1> DEFINE hiredNow == {u \in Tasks : thread[u].life # "new"}
           dismissedNow == {u \in Tasks : thread[u].life # "new" /\ thread[u].quit}
           placeNow == [u \in Tasks |-> placeOf(u)]
<1>1. placeNow' = placeNow
  <2>1. \A u \in Tasks : placeOf(u)' = placeOf(u)
    <3>1. ASSUME NEW t \in Tasks, TaskStart(t), NEW u \in Tasks PROVE placeOf(u)' = placeOf(u)
      BY <3>1 DEF TaskStart, placeOf, IInv, RunningHasPc
    <3> QED
      BY <3>1, AgentCalls DEF TaskQuit, TaskDelete, TaskDeleteLater, taskVars, placeOf
  <2> QED
    BY <2>1
<1>2. CASE UNCHANGED taskVars
  BY <1>1, <1>2 DEF taskVars, Service!vars
<1>3. ASSUME NEW t \in Tasks, TaskStart(t), AgentStartsTask(t)
      PROVE  [Service!Next]_(Service!vars)
  <2>1. /\ t \in pending /\ agentPc = "start" /\ Held = values /\ Unfreed = values
        /\ t \in values
    BY <1>3 DEF AgentStartsTask, agentMoves, Held, Unfreed, HashBounds
  <2>2. thread[t].life = "new"
    BY <2>1 DEF IInv, HeldStarted
  <2>3. /\ thread'[t].life = "running" /\ ~thread'[t].quit
        /\ \A u \in Tasks : u # t => thread'[u] = thread[u]
    BY <1>3, <2>2, ThreadCalls DEF TaskStart, IsRunning
  <2>4. hiredNow' = hiredNow \cup {t} /\ t \notin hiredNow
    BY <2>2, <2>3
  <2>5. dismissedNow' = dismissedNow
    BY <2>2, <2>3
  <2>6. \A v \in hiredNow \ dismissedNow : v \in Tasks /\ runOf(v) = runOf(t)
    BY <2>1 DEF IInv, QuitUnlessServed, HashBounds
  <2>7. Service!Hire(t)
    BY <1>1, <2>4, <2>5, <2>6 DEF Service!Hire
  <2> QED
    BY <2>7 DEF Service!Next
<1>4. ASSUME NEW t \in Tasks, TaskQuit(t), AgentQuitsTask(t)
      PROVE  [Service!Next]_(Service!vars)
  <2>1. thread[t].life # "new"
    BY <1>4 DEF AgentQuitsTask, agentMoves, Held, IInv, HeldStarted
  <2>2. /\ thread'[t].quit /\ thread'[t].life = thread[t].life
        /\ \A u \in Tasks : u # t => thread'[u] = thread[u]
    BY <1>4, ThreadCalls DEF TaskQuit
  <2>3. hiredNow' = hiredNow /\ t \in hiredNow /\ dismissedNow' = dismissedNow \cup {t}
    BY <2>1, <2>2
  <2>4. Service!Dismiss(t)
    BY <1>1, <2>3 DEF Service!Dismiss
  <2> QED
    BY <2>4 DEF Service!Next
<1>5. ASSUME current \in Tasks,
             \/ TaskDelete(current) /\ AgentDeletesTask
             \/ TaskDeleteLater(current) /\ AgentDeletesTaskLater
      PROVE  [Service!Next]_(Service!vars)
  <2>1. thread[current].life # "new"
    BY <1>5 DEF AgentDeletesTask, AgentDeletesTaskLater, agentMoves, Held, IInv, HeldStarted
  <2>2. /\ thread'[current].life # "new" /\ thread'[current].quit = thread[current].quit
        /\ \A u \in Tasks : u # current => thread'[u] = thread[u]
    BY <1>5, <2>1, ThreadCalls DEF TaskDelete, TaskDeleteLater
  <2>3. hiredNow' = hiredNow /\ dismissedNow' = dismissedNow
    BY <2>1, <2>2
  <2> QED
    BY <1>1, <2>3 DEF Service!vars
<1> QED
  BY <1>2, <1>3, <1>4, <1>5, AgentCalls

(* The scheduler implements TaskService: a new run of the agent starts its   *)
(* tasks only when all the older ones were told to quit, a task told to quit *)
(* begins at most the invocation it was waiting for, synchronized tasks run  *)
(* one at a time, and no object is started twice.                            *)
THEOREM Refinement == Spec => ServiceSpec
<1>1. Init => Service!Init
  BY DEF Init, TaskInit, Service!Init, NewThread, placeOf
<1>2. IInv /\ [Next]_vars => [Service!Next]_(Service!vars)
  <2> SUFFICES ASSUME IInv, [Next]_vars PROVE [Service!Next]_(Service!vars)
    OBVIOUS
  <2>1. CASE UNCHANGED vars
    BY <2>1 DEF vars, taskVars, Service!vars, placeOf
  <2>2. CASE ClientStep
    <3>1. UNCHANGED taskVars
      BY <2>2 DEF ClientStep, ClientReturns, ClientSpinEnds, ClientStarts, ClientStops
    <3> QED
      BY <3>1 DEF taskVars, Service!vars, placeOf
  <2> QED
    BY <2>1, <2>2, TaskSteps, AgentSteps DEF Next
<1> QED
  BY <1>1, <1>2, Invariance, PTL DEF Spec, ServiceSpec, Service!Spec

=============================================================================
