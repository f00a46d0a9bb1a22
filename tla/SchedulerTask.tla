--------------------------- MODULE SchedulerTask ---------------------------
(***************************************************************************)
(* The task threads of the scheduler: one SchedulerTask object runs the    *)
(* methods of one scope group, again and again, from a timer of its own    *)
(* event loop.  All the groups annotated scSynchronize share one process-  *)
(* wide mutex, staticMutexSynchronize, held over a whole invocation.       *)
(*                                                                         *)
(* The agent that creates, starts and frees these objects is composed with *)
(* them in SchedulerAgent.  The methods run by an invocation, here one     *)
(* step that begins and one that ends, are the subject of                  *)
(* SchedulerScopeGroup.                                                    *)
(***************************************************************************)
EXTENDS Integers, QThread

CONSTANTS
  Scopes,        \* the SchedulerScopeGroup objects of the registry
  Synchronized,  \* those whose class is annotated scSynchronize
  ScopeLists,    \* the lists of scopes a settings file may ask for
  Intervals,     \* what activityInterval() may be by default, in milliseconds
  MaxRuns,       \* bound: how often the agent thread is really started
  NoTask         \* the null SchedulerTask pointer

(* A task object is named by its scope and the agent run that built it. *)
Tasks == Scopes \X (1 .. MaxRuns)

ASSUME SynchronizedAssumption == Synchronized \subseteq Scopes
ASSUME ScopeListsAssumption == ScopeLists \subseteq SUBSET Scopes
ASSUME IntervalsAssumption == Intervals \subseteq Int
ASSUME MaxRunsAssumption == MaxRuns \in Nat
ASSUME NoTaskAssumption == NoTask \notin Tasks

VARIABLES
  settings,  \* the agent's settings, read once, and the interval of a task's
             \* SettingBase, which nothing loads: the default of its library
  thread,    \* thread[t]: the QThread side of task t
  taskPc,    \* taskPc[t]: where thread t is in SchedulerTask::run
  timer,     \* timer[t]: what is armed in t's event loop
  mutex      \* the owner of staticMutexSynchronize, or NoTask

taskVars == <<thread, taskPc, timer, mutex>>

TaskPc ==
  {"none",    \* no code of the object runs
   "boot",    \* the OS thread exists, its dispatcher does not yet
   "exec",    \* exec() tests whether it was told to exit
   "events",  \* exec() waits for events
   "lock",    \* taskRun waits for staticMutexSynchronize
   "invoke",  \* taskRun is inside scope->invoke()
   "return"}  \* the event loop is over: timerStop, end of run

(* "initial" is the single shot of run(), "interval" the repeating QTimer. *)
Timer == {"none", "initial", "interval"}

scope(t) == t[1]
runOf(t) == t[2]

synchronize(t) == scope(t) \in Synchronized

TaskInit ==
  /\ thread = [t \in Tasks |-> NewThread]
  /\ taskPc = [t \in Tasks |-> "none"]
  /\ timer = [t \in Tasks |-> "none"]
  /\ mutex = NoTask

-----------------------------------------------------------------------------
(* The thread's own steps. *)

taskGoto(t, pc) == taskPc' = [taskPc EXCEPT ![t] = pc]

(* Mutant: an interval of one millisecond does not count as one. *)
hasIntervalAboveOne == settings.interval > 1

hasInterval == settings.interval > 0

(* Mutant: only the initial single shot is stopped. *)
timerStopInitial(t) ==
  timer' = [timer EXCEPT ![t] = IF @ = "initial" THEN "none" ELSE @]

timerStop(t) == timer' = [timer EXCEPT ![t] = "none"]

(* timerStart(): no timer is armed for an interval <= 0. *)
timerStart(t) ==
  timer' = [timer EXCEPT ![t] = IF hasInterval THEN "interval" ELSE "none"]

(* Mutant: a task told to quit waits for the mutex no longer and goes on. *)
lockUnlessQuit(t) == (mutex = NoTask \/ thread[t].quit) /\ mutex' = t

lock(t) == mutex = NoTask /\ mutex' = t

(* Mutant: an early exit of taskRun leaves staticMutexSynchronize locked. *)
unlockNotOnQuit(t) ==
  mutex' = IF synchronize(t) /\ ~thread[t].quit THEN NoTask ELSE mutex

(* Mutant: taskRun does not unlock. *)
unlockNot(t) == UNCHANGED mutex

unlock(t) == mutex' = IF synchronize(t) THEN NoTask ELSE mutex

(* The new thread gets its dispatcher and enters run(). *)
TaskEntersRun(t) ==
  /\ taskPc[t] = "boot"
  /\ thread' = [thread EXCEPT ![t] = Attached(@)]
  /\ IF hasInterval
       THEN taskGoto(t, "exec") /\ timer' = [timer EXCEPT ![t] = "initial"]
       ELSE taskGoto(t, "return") /\ UNCHANGED timer
  /\ UNCHANGED mutex

TaskExec(t) ==
  /\ taskPc[t] = "exec"
  /\ taskGoto(t, IF thread[t].quit THEN "return" ELSE "events")
  /\ UNCHANGED <<thread, timer, mutex>>

TaskWoken(t) ==
  /\ taskPc[t] = "events"
  /\ thread[t].quit
  /\ taskGoto(t, "exec")
  /\ UNCHANGED <<thread, timer, mutex>>

(* The timer's event calls taskRun.  A synchronized task goes for the mutex *)
(* with its repeating timer still armed; the others stop theirs at once.    *)
taskRun(t) ==
  /\ taskPc[t] = "events"
  /\ timer[t] # "none"
  /\ IF synchronize(t)
       THEN /\ taskGoto(t, "lock")
            /\ timer' = [timer EXCEPT ![t] =
                           IF @ = "initial" THEN "none" ELSE @]
       ELSE taskGoto(t, "invoke") /\ timerStop(t)
  /\ UNCHANGED <<thread, mutex>>

TaskLock(t) ==
  /\ taskPc[t] = "lock"
  /\ lock(t)
  /\ timerStop(t)
  /\ taskGoto(t, "invoke")
  /\ UNCHANGED thread

(* scope->invoke() has returned: arm the next run, release the mutex. *)
TaskInvoked(t) ==
  /\ taskPc[t] = "invoke"
  /\ timerStart(t)
  /\ unlock(t)
  /\ taskGoto(t, "exec")
  /\ UNCHANGED thread

TaskReturns(t) ==
  /\ taskPc[t] = "return"
  /\ timerStop(t)
  /\ thread' = [thread EXCEPT ![t] = Ended(@)]
  /\ taskGoto(t, "none")
  /\ UNCHANGED mutex

TaskStep(t) ==
  \/ TaskEntersRun(t)
  \/ TaskExec(t)
  \/ TaskWoken(t)
  \/ taskRun(t)
  \/ TaskLock(t)
  \/ TaskInvoked(t)
  \/ TaskReturns(t)

-----------------------------------------------------------------------------
(* The calls other threads make on a task object. *)

(* QThread::start() of SchedulerTask::start(); the wait for the dispatcher *)
(* that follows is a step of the caller.                                   *)
TaskStart(t) ==
  /\ thread' = [thread EXCEPT ![t] = Started(@)]
  /\ taskPc' = [taskPc EXCEPT ![t] = IF IsRunning(thread[t]) THEN @ ELSE "boot"]
  /\ UNCHANGED <<timer, mutex>>

(* Mutant: free() only waits for the task, it does not tell it to quit. *)
TaskQuitNot(t) == UNCHANGED taskVars

TaskQuit(t) ==
  /\ thread' = [thread EXCEPT ![t] = Quitted(@)]
  /\ UNCHANGED <<taskPc, timer, mutex>>

TaskDelete(t) ==
  /\ thread' = [thread EXCEPT ![t] = Deleted(@)]
  /\ UNCHANGED <<taskPc, timer, mutex>>

(* Mutant: the object that did not stop in time is forgotten. *)
TaskForgotten(t) == UNCHANGED taskVars

TaskDeleteLater(t) ==
  /\ thread' = [thread EXCEPT ![t] = DeletedLater(@)]
  /\ UNCHANGED <<taskPc, timer, mutex>>

=============================================================================
