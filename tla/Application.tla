---------------------------- MODULE Application ----------------------------
(***************************************************************************)
(* The start of a program and its end: the startup functions that load the *)
(* settings in the main thread, the threads that wait for them in          *)
(* Application::lockedWait (the tests of TestMain::run), MainService::exec *)
(* with the services its arguments ask for, and the event loop with the    *)
(* circuit breaker.                                                        *)
(*                                                                         *)
(* lockedMutex is locked by a static initializer.  Only the last statement *)
(* of startSettings unlocks it; a load that fails returns before.  The     *)
(* managers that load settings, the remote environments and the services   *)
(* are external: each may succeed or fail.                                 *)
(***************************************************************************)
EXTENDS CircuitBreaker

CONSTANTS
  Waiters,   \* the threads that run a test of class TestMain
  Defaults,  \* what SettingBase may make of an empty hash
  Empty,     \* the empty hash
  Startup,   \* the static initializer, as the owner of lockedMutex
  Nobody     \* the owner of a mutex that is not locked

ASSUME DefaultsAssumption == Defaults \subseteq Setting
ASSUME OwnersAssumption == Startup \notin Waiters /\ Nobody \notin Waiters \cup {Startup}

VARIABLES
  mainPc,       \* where the main thread is
  loaded,       \* what startSettings has loaded
  fileSetting,  \* the circuit breaker's settings of the settings files
  circuitBreakerSettings,  \* the static hash startCircuitBreaker fills
  lockedMutex,  \* its owner
  waiter,       \* waiter[w]: where thread w is in lockedWait and in its test
  arguments,    \* those of the program that name a service
  serves,       \* __return of MainService::exec
  server        \* the one server is running

serviceVars == <<arguments, serves, server>>
startVars == <<mainPc, loaded, fileSetting, circuitBreakerSettings, serviceVars>>
lockVars == <<lockedMutex, waiter>>
vars == <<startVars, lockVars, breakerVars>>

Loads == {"manager", "connection", "envs"}

(* The steps of startSettings, of startUp, of MainService::exec, the loop. *)
MainPc ==
  {"manager", "connection", "envs", "unlock", "startCircuitBreaker",
   "arguments", "scheduler", "dispatch", "exec", "loop", "exited", "fatal"}

(* Before lockedWait, in it, and at the steps of TestMain::run. *)
WaiterPc == {"idle", "wait", "hold", "configure", "execute", "deconfigure", "done"}

TypeOK ==
  /\ BreakerTypeOK
  /\ mainPc \in MainPc
  /\ loaded \in SUBSET Loads
  /\ fileSetting \in Setting
  /\ circuitBreakerSettings \in Setting \cup {Empty}
  /\ lockedMutex \in Waiters \cup {Startup, Nobody}
  /\ waiter \in [Waiters -> WaiterPc]
  /\ arguments \in SUBSET {"api", "scheduler", "job"}
  /\ serves \in BOOLEAN
  /\ server \in BOOLEAN

(* *staticInstance creates the Application, and with it the breaker, while   *)
(* circuitBreakerSettings is still empty.                                    *)
Init ==
  /\ \E default \in Defaults : BreakerInit(default)
  /\ circuitBreakerSettings = Empty
  /\ mainPc = "manager"
  /\ loaded = {}
  /\ fileSetting \in Setting
  /\ lockedMutex = Startup
  /\ waiter = [w \in Waiters |-> "idle"]
  /\ arguments \in SUBSET {"api", "scheduler", "job"}
  /\ serves = FALSE
  /\ server = FALSE

-----------------------------------------------------------------------------
(* The main thread. *)

mainGoes(from, to) == mainPc = from /\ mainPc' = to

(* A load succeeds and goes on, or fails and leaves startSettings. *)
loads(what, next) ==
  \/ mainGoes(what, next) /\ loaded' = loaded \cup {what}
  \/ mainGoes(what, "startCircuitBreaker") /\ UNCHANGED loaded

(* Mutant: startSettings unlocks when it leaves early, too. *)
LoadsManagerUnlocking ==
  /\ loads("manager", "connection")
  /\ lockedMutex' = IF mainPc' = "connection" THEN lockedMutex ELSE Nobody
  /\ UNCHANGED <<fileSetting, circuitBreakerSettings, serviceVars, waiter, breakerVars>>

LoadsManager ==
  /\ loads("manager", "connection")
  /\ UNCHANGED <<fileSetting, circuitBreakerSettings, serviceVars, lockVars, breakerVars>>

LoadsConnection ==
  /\ loads("connection", "envs")
  /\ UNCHANGED <<fileSetting, circuitBreakerSettings, serviceVars, lockVars, breakerVars>>

(* No remote environments are asked for, or they come, or the program ends   *)
(* at once (qFatal).                                                         *)
envsRemote ==
  \/ mainGoes("envs", "unlock") /\ loaded' = loaded \cup {"envs"}
  \/ mainGoes("envs", "fatal") /\ UNCHANGED loaded

LoadsEnvs ==
  /\ envsRemote
  /\ UNCHANGED <<fileSetting, circuitBreakerSettings, serviceVars, lockVars, breakerVars>>

Unlocks ==
  /\ mainGoes("unlock", "startCircuitBreaker")
  /\ lockedMutex' = Nobody
  /\ UNCHANGED <<loaded, fileSetting, circuitBreakerSettings, serviceVars, waiter,
                 breakerVars>>

(* A manager that has loaded nothing answers an empty hash. *)
startCircuitBreaker ==
  /\ mainGoes("startCircuitBreaker", "arguments")
  /\ circuitBreakerSettings' =
       IF "manager" \in loaded THEN fileSetting ELSE Empty
  /\ UNCHANGED <<loaded, fileSetting, serviceVars, lockVars, breakerVars>>

(* MainService::exec: no arguments, or the server, which may not start. *)
StartsServer ==
  /\ mainGoes("arguments", IF arguments = {} THEN "exited" ELSE "scheduler")
  /\ IF "api" \in arguments THEN server' \in {server, TRUE} ELSE UNCHANGED server
  /\ serves' = (server' /\ "api" \in arguments)
  /\ UNCHANGED <<loaded, fileSetting, circuitBreakerSettings, arguments, lockVars, breakerVars>>

(* The scheduler's agent (SchedulerAgent), which may not run either. *)
StartsScheduler ==
  /\ mainGoes("scheduler", "dispatch")
  /\ \E isRunning \in BOOLEAN :
       serves' = (serves \/ (isRunning /\ "scheduler" \in arguments))
  /\ UNCHANGED <<loaded, fileSetting, circuitBreakerSettings, arguments, server, lockVars, breakerVars>>

Dispatches ==
  /\ serves' = (serves \/ "job" \in arguments)
  /\ mainGoes("dispatch", IF serves' THEN "exec" ELSE "exited")
  /\ UNCHANGED <<loaded, fileSetting, circuitBreakerSettings, arguments, server, lockVars, breakerVars>>

(* Application::exec: circuitBreakerStart tests the static hash, and start() *)
(* reads the breaker's own copy.                                             *)
Executes ==
  /\ mainGoes("exec", "loop")
  /\ IF circuitBreakerSettings # Empty /\ circuitBreakerSettings.enabled
       THEN start
       ELSE UNCHANGED breakerVars
  /\ UNCHANGED <<loaded, fileSetting, circuitBreakerSettings, serviceVars, lockVars>>

(* qApp->quit() has ended the loop; ~ApplicationPvt stops the breaker. *)
LoopEnds ==
  /\ mainGoes("loop", "exited")
  /\ quit
  /\ stop
  /\ UNCHANGED <<loaded, fileSetting, circuitBreakerSettings, serviceVars, lockVars>>

MainStep ==
  \/ LoadsManager
  \/ LoadsConnection
  \/ LoadsEnvs
  \/ Unlocks
  \/ startCircuitBreaker
  \/ StartsServer
  \/ StartsScheduler
  \/ Dispatches
  \/ Executes
  \/ LoopEnds

(* In the loop the timer fires, and code of the application calls the       *)
(* breaker it gets from Application::circuitBreaker.                        *)
InLoop(A) == mainPc = "loop" /\ ~quit /\ A /\ UNCHANGED <<startVars, lockVars>>

ClientCalls == start \/ stop

-----------------------------------------------------------------------------
(* The threads in lockedWait. *)

Asks(w) ==
  /\ waiter[w] = "idle"
  /\ waiter' = [waiter EXCEPT ![w] = "wait"]
  /\ UNCHANGED <<startVars, lockedMutex, breakerVars>>

Locks(w) ==
  /\ waiter[w] = "wait"
  /\ lockedMutex = Nobody
  /\ lockedMutex' = w
  /\ waiter' = [waiter EXCEPT ![w] = "hold"]
  /\ UNCHANGED <<startVars, breakerVars>>

(* Mutant: the mutex is locked without a QMutexLocker. *)
ReturnsLocked(w) ==
  /\ waiter[w] = "hold"
  /\ waiter' = [waiter EXCEPT ![w] = "configure"]
  /\ UNCHANGED <<startVars, lockedMutex, breakerVars>>

Returns(w) ==
  /\ waiter[w] = "hold"
  /\ lockedMutex' = Nobody
  /\ waiter' = [waiter EXCEPT ![w] = "configure"]
  /\ UNCHANGED <<startVars, breakerVars>>

(* The rest of TestMain::run.  Each step may fail, which ends that step only: *)
(* a test whose server did not start is executed all the same.               *)
testGoes(w, from, to) ==
  /\ waiter[w] = from
  /\ waiter' = [waiter EXCEPT ![w] = to]
  /\ UNCHANGED <<mainPc, loaded, fileSetting, circuitBreakerSettings, arguments, serves,
                 lockedMutex, breakerVars>>

configure(w) == testGoes(w, "configure", "execute") /\ server' \in {server, TRUE}

execute(w) == testGoes(w, "execute", "deconfigure") /\ UNCHANGED server

deconfigure(w) == testGoes(w, "deconfigure", "done") /\ server' \in {server, FALSE}

Waits(w) == Asks(w) \/ Locks(w) \/ Returns(w)

Tests(w) == configure(w) \/ execute(w) \/ deconfigure(w)

Alive == mainPc \notin {"exited", "fatal"}

Next ==
  /\ Alive
  /\ \/ MainStep
     \/ InLoop(onCheck)
     \/ InLoop(ClientCalls)
     \/ InLoop(ClockTicks)
     \/ \E w \in Waiters : Waits(w) \/ Tests(w)

Spec == Init /\ [][Next]_vars

(* Every thread that can run does, the timer keeps firing and time passes.   *)
(* A waiting thread gets the mutex when it is free again and again.  Nothing *)
(* is assumed of SchedulerAgent::start, which may wait for ever.             *)
FairSpec ==
  /\ Spec
  /\ WF_vars(Alive /\ mainPc # "scheduler" /\ MainStep)
  /\ WF_vars(InLoop(ClockTicks))
  /\ WF_vars(InLoop(onCheck))
  /\ \A w \in Waiters : SF_vars(Alive /\ Locks(w)) /\ WF_vars(Alive /\ Returns(w))

-----------------------------------------------------------------------------
(* A thread that lockedWait lets through finds the settings, the connections *)
(* and the environments loaded, before it starts the server for its test.    *)
WaitedForSettings ==
  \A w \in Waiters : waiter[w] \notin {"idle", "wait"} => loaded = Loads

(* Once the startup functions are over, lockedMutex is still locked only if  *)
(* something failed to load.                                                 *)
LockedOnlyOnFailure ==
  lockedMutex = Startup /\ mainPc \notin {"manager", "connection", "envs", "unlock"}
    => loaded # Loads

(* Where everything was loaded, every thread in lockedWait returns from it,  *)
(* unless the program ends before.                                           *)
WaitersReturn ==
  \A w \in Waiters : loaded = Loads /\ waiter[w] = "wait" ~> waiter[w] = "configure" \/ ~Alive

(* A breaker that is left running makes the application quit in the end, and *)
(* quitting ends it.                                                         *)
BreakerEnds == timerBreaker = "active" /\ mainPc = "loop" ~> timerBreaker = "null"

(* The settings file gives "circuit-breaker" an activityLimit and an enabled: *)
(* where it was loaded and enables the breaker, Application::exec starts it   *)
(* with that limit.                                                          *)
BreakerUsesSettings ==
  [][Executes /\ "manager" \in loaded /\ fileSetting.enabled /\ fileSetting.limit > 0
       => timerBreaker' = "active" /\ settingService'.limit = fileSetting.limit]_vars

=============================================================================
