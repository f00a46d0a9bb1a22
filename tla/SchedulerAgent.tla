--------------------------- MODULE SchedulerAgent ---------------------------
(***************************************************************************)
(* The scheduler as a whole: the agent thread, the task threads it         *)
(* creates, starts and frees (SchedulerTask), and a client thread that     *)
(* calls SchedulerAgent::start and SchedulerAgent::stop, in any order.     *)
(*                                                                         *)
(* start() of the agent and of a task ends in a loop that waits until the  *)
(* started thread has an event dispatcher.  free() waits one second for    *)
(* each task; a task that invokes its methods for longer, or waits for the *)
(* mutex for longer, outlives the agent's run with a deleteLater pending.  *)
(***************************************************************************)
EXTENDS SchedulerTask

VARIABLES
  agent,       \* the QThread side of the agent
  agentPc,     \* where the agent thread is in SchedulerAgent::run
  agentTimer,  \* the single shot of run() that calls start() is pending
  tasks,       \* tasks[s]: the entry of scope s in the agent's hash
  pending,     \* the tasks the agent's current loop has still to visit
  current,     \* the task that loop is visiting
  client,      \* "idle", or "spin" inside SchedulerAgent::start
  runs         \* how often the agent thread was really started

agentVars == <<agent, agentPc, agentTimer, tasks, pending, current>>
clientVars == <<client, runs>>
vars == <<settings, taskVars, agentVars, clientVars>>

AgentPc ==
  {"none", "boot", "exec", "events",
   "start",   \* the second loop of start(): starts the tasks
   "spin",    \* SchedulerTask::start waits for the dispatcher
   "free",    \* the loop of free()
   "wait",    \* task->wait(1000)
   "late",    \* wait() has timed out, deleteLater() is next
   "return"}

Settings == [enabled : BOOLEAN, interval : Intervals, scope : ScopeLists]

TypeOK ==
  /\ settings \in Settings
  /\ thread \in [Tasks -> ThreadState]
  /\ taskPc \in [Tasks -> TaskPc]
  /\ timer \in [Tasks -> Timer]
  /\ mutex \in Tasks \cup {NoTask}
  /\ agent \in ThreadState
  /\ agentPc \in AgentPc
  /\ agentTimer \in BOOLEAN
  /\ tasks \in [Scopes -> Tasks \cup {NoTask}]
  /\ pending \in SUBSET Tasks
  /\ current \in Tasks \cup {NoTask}
  /\ client \in {"idle", "spin"}
  /\ runs \in 0 .. MaxRuns

Init ==
  /\ settings \in Settings
  /\ TaskInit
  /\ agent = NewThread
  /\ agentPc = "none"
  /\ agentTimer = FALSE
  /\ tasks = [s \in Scopes |-> NoTask]
  /\ pending = {}
  /\ current = NoTask
  /\ client = "idle"
  /\ runs = 0

(* Mutant: the null pointers of scopes without a task are listed too. *)
valuesWithNull == {tasks[s] : s \in Scopes}

(* The pointers held by the hash. *)
values == {tasks[s] : s \in Scopes} \ {NoTask}

(* Qt ends a process that destroys a QThread whose thread still runs. *)
Aborted == \E t \in Tasks : thread[t].life = "aborted"

-----------------------------------------------------------------------------
(* The agent thread. *)

agentMoves(from, to) == agentPc = from /\ agentPc' = to

AgentEntersRun ==
  /\ agentPc = "boot"
  /\ agent' = Attached(agent)
  /\ agentPc' = IF settings.enabled THEN "exec" ELSE "return"
  /\ agentTimer' = settings.enabled
  /\ UNCHANGED <<taskVars, tasks, pending, current>>

AgentExecContinues ==
  /\ agentMoves("exec", "events")
  /\ ~agent.quit
  /\ UNCHANGED <<taskVars, agent, agentTimer, tasks, pending, current>>

(* Mutant: nothing but its single shot wakes the event loop. *)
AgentWokenByTimer ==
  /\ agentMoves("events", "exec")
  /\ agent.quit /\ agentTimer
  /\ UNCHANGED <<taskVars, agent, agentTimer, tasks, pending, current>>

AgentWoken ==
  /\ agentMoves("events", "exec")
  /\ agent.quit
  /\ UNCHANGED <<taskVars, agent, agentTimer, tasks, pending, current>>

isScope(s) == s \in settings.scope

(* The first loop of start().  An entry whose task runs is kept.  The        *)
(* replacement of an entry whose task has stopped is not modelled: the hash  *)
(* is always empty here (StartFindsNoTask).                                  *)
AgentCreates ==
  /\ agentMoves("events", "start")
  /\ agentTimer
  /\ agentTimer' = FALSE
  /\ tasks' = [s \in Scopes |->
                 IF isScope(s) /\ tasks[s] = NoTask THEN <<s, runs>> ELSE tasks[s]]
  /\ pending' = values'
  /\ UNCHANGED <<taskVars, agent, current>>

AgentStartsTask(t) ==
  /\ agentMoves("start", "spin")
  /\ t \in pending
  /\ pending' = pending \ {t}
  /\ TaskStart(t)
  /\ current' = t
  /\ UNCHANGED <<agent, agentTimer, tasks>>

AgentSpinEnds ==
  /\ agentMoves("spin", "start")
  /\ thread[current].dispatcher
  /\ UNCHANGED <<taskVars, agent, agentTimer, tasks, pending, current>>

AgentAllStarted ==
  /\ agentMoves("start", "exec")
  /\ pending = {}
  /\ UNCHANGED <<taskVars, agent, agentTimer, tasks, pending, current>>

(* Mutant: free() forgets to clear the hash. *)
tasksKept == tasks' = tasks

tasksClear == tasks' = [s \in Scopes |-> NoTask]

(* The event loop is over and free() begins: it takes the hash over. A      *)
(* single shot that has not fired is lost with the dispatcher.              *)
AgentExecEnds ==
  /\ agentMoves("exec", "free")
  /\ agent.quit
  /\ agentTimer' = FALSE
  /\ pending' = values
  /\ tasksClear
  /\ UNCHANGED <<taskVars, agent, current>>

AgentQuitsTask(t) ==
  /\ agentMoves("free", "wait")
  /\ t \in pending
  /\ pending' = pending \ {t}
  /\ TaskQuit(t)
  /\ current' = t
  /\ UNCHANGED <<agent, agentTimer, tasks>>

AgentDeletesTask ==
  /\ agentMoves("wait", "free")
  /\ IsFinished(thread[current])
  /\ TaskDelete(current)
  /\ UNCHANGED <<agent, agentTimer, tasks, pending, current>>

AgentWaitTimesOut ==
  /\ agentMoves("wait", "late")
  /\ ~IsFinished(thread[current])
  /\ UNCHANGED <<taskVars, agent, agentTimer, tasks, pending, current>>

AgentDeletesTaskLater ==
  /\ agentMoves("late", "free")
  /\ TaskDeleteLater(current)
  /\ UNCHANGED <<agent, agentTimer, tasks, pending, current>>

(* Mutant: the loop of free() ends after its first task. *)
AgentFreedEarly ==
  /\ agentMoves("free", "return")
  /\ pending = {} \/ current # NoTask
  /\ UNCHANGED <<taskVars, agent, agentTimer, tasks, pending, current>>

AgentFreed ==
  /\ agentMoves("free", "return")
  /\ pending = {}
  /\ UNCHANGED <<taskVars, agent, agentTimer, tasks, pending, current>>

AgentReturns ==
  /\ agentMoves("return", "none")
  /\ agent' = Ended(agent)
  /\ UNCHANGED <<taskVars, agentTimer, tasks, pending, current>>

AgentStep ==
  /\ ~Aborted
  /\ UNCHANGED <<settings, clientVars>>
  /\ \/ AgentEntersRun
     \/ AgentExecContinues
     \/ AgentWoken
     \/ AgentCreates
     \/ \E t \in Tasks : AgentStartsTask(t)
     \/ AgentSpinEnds
     \/ AgentAllStarted
     \/ AgentExecEnds
     \/ \E t \in Tasks : AgentQuitsTask(t)
     \/ AgentDeletesTask
     \/ AgentWaitTimesOut
     \/ AgentDeletesTaskLater
     \/ AgentFreed
     \/ AgentReturns

-----------------------------------------------------------------------------
(* The client: MainService::exec, or any caller of the public API. *)

ClientStarts ==
  /\ client = "idle"
  /\ IsRunning(agent) \/ runs < MaxRuns
  /\ client' = "spin"
  /\ agent' = Started(agent)
  /\ IF IsRunning(agent)
       THEN UNCHANGED <<agentPc, runs>>
       ELSE agentPc' = "boot" /\ runs' = runs + 1
  /\ UNCHANGED <<taskVars, agentTimer, tasks, pending, current>>

ClientSpinEnds ==
  /\ client = "spin"
  /\ agent.dispatcher
  /\ client' = "idle"
  /\ UNCHANGED <<taskVars, agentVars, runs>>

ClientStops ==
  /\ client = "idle"
  /\ agent' = Quitted(agent)
  /\ UNCHANGED <<taskVars, agentPc, agentTimer, tasks, pending, current, clientVars>>

ClientReturns == ~Aborted /\ UNCHANGED settings /\ ClientSpinEnds

ClientStep ==
  \/ ClientReturns
  \/ ~Aborted /\ UNCHANGED settings /\ (ClientStarts \/ ClientStops)

-----------------------------------------------------------------------------
TaskOnly(A) == ~Aborted /\ A /\ UNCHANGED <<settings, agentVars, clientVars>>

TaskThread(t) == TaskOnly(TaskStep(t))

Next == ClientStep \/ AgentStep \/ \E t \in Tasks : TaskThread(t)

Spec == Init /\ [][Next]_vars

(* The operating system runs every thread that can run, timers fire, a       *)
(* waiting loop looks again, and the methods of a group return.  A task that *)
(* waits for the mutex gets it when it is free again and again: the last     *)
(* owner sleeps for an interval before it asks for it once more.             *)
Fairness ==
  /\ WF_vars(AgentStep)
  /\ WF_vars(ClientReturns)
  /\ \A t \in Tasks : WF_vars(TaskThread(t)) /\ SF_vars(TaskOnly(TaskLock(t)))

FairSpec == Spec /\ Fairness

-----------------------------------------------------------------------------
(* Safety. *)

Invoking == {t \in Tasks : taskPc[t] = "invoke"}

(* Two tasks of synchronized groups are never inside scope->invoke() at the  *)
(* same time, not even when one of them outlived the agent run that made it. *)
SyncExclusive ==
  \A t, u \in Invoking : synchronize(t) /\ synchronize(u) => t = u

(* staticMutexSynchronize is locked exactly while a synchronized task is     *)
(* inside its invocation, and by that task: every way out of taskRun, of a   *)
(* task told to quit too, gives the mutex back.                              *)
MutexOwner ==
  \A t \in Tasks : mutex = t <=> synchronize(t) /\ taskPc[t] = "invoke"

(* No timer is armed during an invocation, so runs of a task never pile up,  *)
(* and a task that waits in its event loop has one armed, so it runs again.  *)
TimerDiscipline ==
  \A t \in Tasks : /\ taskPc[t] = "invoke" => timer[t] = "none"
                   /\ taskPc[t] = "events" => timer[t] # "none"

(* The agent's start() always begins with an empty hash: its code for an     *)
(* entry whose task has stopped is never reached.                            *)
StartFindsNoTask == agentTimer => values = {}

(* Outside of a run of the agent every task object it created has been       *)
(* deleted or has its deleteLater pending: none is forgotten, whenever the   *)
(* agent was stopped.                                                        *)
AgentFreesTasks ==
  agentPc \in {"none", "boot"} =>
    \A t \in Tasks : thread[t].life \in {"new", "deleted"} \/ thread[t].deferred

(* Two threads of one scope run at the same time only if free() gave up      *)
(* waiting for the older one.                                                *)
OverlapOnlyAfterTimeout ==
  \A t, u \in Tasks :
    /\ scope(t) = scope(u)
    /\ runOf(t) < runOf(u)
    /\ IsRunning(thread[t])
    /\ IsRunning(thread[u])
    => thread[t].deferred

(* The loops that wait for a dispatcher can miss it only where the thread's  *)
(* run() may return early: the agent's when the scheduler is disabled or was *)
(* stopped, a task's when its interval is not positive.                      *)
SpinNeverLost ==
  /\ client = "spin" /\ ~IsRunning(agent) => ~settings.enabled \/ agent.quit
  /\ agentPc = "spin" /\ ~IsRunning(thread[current]) => settings.interval <= 0

(* A started task listens from the test of exec() that finds no exit to the  *)
(* lock of the mutex, and is busy inside scope->invoke().                    *)
placeOf(t) ==
  CASE taskPc[t] \in {"events", "lock"} -> "listening"
    [] taskPc[t] = "invoke" -> "busy"
    [] OTHER -> "resting"

Service == INSTANCE TaskService
  WITH Workers <- Tasks,
       Team <- [t \in Tasks |-> runOf(t)],
       Exclusive <- {t \in Tasks : synchronize(t)},
       hired <- {t \in Tasks : thread[t].life # "new"},
       dismissed <- {t \in Tasks : thread[t].life # "new" /\ thread[t].quit},
       place <- [t \in Tasks |-> placeOf(t)]

(* The scheduler implements TaskService: the tasks of a new run of the agent *)
(* are started only when all the older ones were told to quit, those free()  *)
(* gave up on too; such a task runs its group at most once more, under the   *)
(* mutex, and no task object is started twice.                               *)
ServiceSpec == Service!Spec

-----------------------------------------------------------------------------
(* Liveness. *)

Serving(s) == tasks[s] # NoTask /\ thread[tasks[s]].dispatcher

(* A task that the agent serves invokes its group again and again, for as    *)
(* long as the agent is not stopped.                                         *)
ServedScopesRun ==
  \A s \in Scopes :
    Serving(s) /\ settings.interval > 0
      ~> Aborted \/ ~Serving(s) \/ tasks[s] \in Invoking

(* A stopped agent ends, however long its tasks take. *)
StopCompletes ==
  agent.quit /\ settings.interval > 0 ~> Aborted \/ ~IsRunning(agent)

=============================================================================
