------------------------- MODULE ApplicationProofs -------------------------
(***************************************************************************)
(* Proofs about Application: who can pass lockedWait, and when the lock of *)
(* the static initializer is given up, for every number of waiting threads *)
(* and whatever the settings say.                                          *)
(***************************************************************************)
EXTENDS Application, TLAPS

-----------------------------------------------------------------------------
(* startSettings before its last statement. *)
InSettings == {"manager", "connection", "envs", "unlock"}

(* startSettings loads one thing after the other. *)
LoadedInOrder ==
  /\ mainPc = "manager" => loaded = {}
  /\ mainPc = "connection" => loaded = {"manager"}
  /\ mainPc \in {"envs", "fatal"} => loaded = {"manager", "connection"}
  /\ mainPc = "unlock" => loaded = Loads

(* The lock of the initializer is kept until everything has been loaded, and *)
(* given up at once when it has.                                             *)
StartupLock ==
  lockedMutex = Startup <=> loaded # Loads \/ mainPc \in InSettings

(* A thread between the lock and the unlock of lockedWait owns the mutex,    *)
(* and no thread gets there while the initializer does.                      *)
WaitersLock ==
  \A w \in Waiters :
    /\ waiter[w] = "hold" => lockedMutex = w
    /\ waiter[w] \notin {"idle", "wait"} => lockedMutex # Startup

IInv ==
  /\ TypeOK
  /\ LoadedInOrder
  /\ StartupLock
  /\ WaitersLock

-----------------------------------------------------------------------------
(* The operations of the breaker keep the types of its variables. *)
LEMMA BreakerTypes ==
  ASSUME BreakerTypeOK, start \/ stop \/ onCheck \/ ClockTicks
  PROVE  BreakerTypeOK'
<1>1. CASE start
  BY <1>1 DEF start, BreakerTypeOK
<1>2. CASE stop
  BY <1>2 DEF stop, BreakerTypeOK
<1>3. CASE onCheck
  <2>1. settingService.limit \in Int
    BY LimitsAssumption DEF BreakerTypeOK, Setting
  <2>2. deadline \in Int \cup {NoDate}
    BY <2>1 DEF deadline, BreakerTypeOK
  <2> QED
    BY <1>3, <2>2 DEF onCheck, BreakerTypeOK
<1>4. CASE ClockTicks
  BY <1>4 DEF ClockTicks, BreakerTypeOK
<1> QED
  BY <1>1, <1>2, <1>3, <1>4

(* A step of the breaker leaves the types and everything else alone. *)
LEMMA LoopStep ==
  ASSUME IInv, InLoop(onCheck) \/ InLoop(ClientCalls) \/ InLoop(ClockTicks)
  PROVE  IInv'
<1>1. BreakerTypeOK' /\ UNCHANGED <<startVars, lockVars>>
  BY BreakerTypes DEF IInv, TypeOK, InLoop, ClientCalls
<1> QED
  BY <1>1
     DEF IInv, TypeOK, LoadedInOrder, StartupLock, WaitersLock, startVars, lockVars, serviceVars,
         Loads, InSettings

(* The types are kept by every step of the main thread. *)
LEMMA MainTypes == ASSUME IInv, MainStep PROVE TypeOK'
<1> USE DEF IInv, TypeOK, mainGoes, lockVars, serviceVars, MainPc, WaiterPc, Loads
<1>1. CASE LoadsManager \/ LoadsConnection \/ LoadsEnvs \/ Unlocks \/ startCircuitBreaker
  <2>1. BreakerTypeOK'
    BY <1>1
       DEF LoadsManager, LoadsConnection, LoadsEnvs, Unlocks, startCircuitBreaker, BreakerTypeOK,
           breakerVars
  <2>2. CASE LoadsManager \/ LoadsConnection
    BY <2>1, <2>2 DEF LoadsManager, LoadsConnection, loads
  <2>3. CASE LoadsEnvs
    BY <2>1, <2>3 DEF LoadsEnvs, envsRemote
  <2>4. CASE Unlocks
    BY <2>1, <2>4 DEF Unlocks
  <2>5. CASE startCircuitBreaker
    BY <2>1, <2>5 DEF startCircuitBreaker
  <2> QED
    BY <1>1, <2>2, <2>3, <2>4, <2>5
<1>2. CASE StartsServer \/ StartsScheduler \/ Dispatches
  <2>1. BreakerTypeOK'
    BY <1>2 DEF StartsServer, StartsScheduler, Dispatches, BreakerTypeOK, breakerVars
  <2>2. serves' \in BOOLEAN /\ server' \in BOOLEAN
    BY <1>2, Zenon DEF StartsServer, StartsScheduler, Dispatches
  <2> QED
    BY <1>2, <2>1, <2>2 DEF StartsServer, StartsScheduler, Dispatches
<1>3. CASE Executes \/ LoopEnds
  <2>1. BreakerTypeOK'
    BY <1>3, BreakerTypes DEF Executes, LoopEnds, BreakerTypeOK, breakerVars
  <2> QED
    BY <1>3, <2>1 DEF Executes, LoopEnds
<1> QED
  BY <1>1, <1>2, <1>3 DEF MainStep

(* So are the order of the loads and what the mutex says of them. *)
LEMMA MainLocks ==
  ASSUME IInv, MainStep
  PROVE  LoadedInOrder' /\ StartupLock' /\ WaitersLock'
<1> USE DEF IInv, TypeOK, LoadedInOrder, StartupLock, WaitersLock, mainGoes, lockVars,
            serviceVars, Loads, InSettings
<1>1. CASE LoadsManager \/ LoadsConnection
  BY <1>1 DEF LoadsManager, LoadsConnection, loads
<1>2. CASE LoadsEnvs
  BY <1>2 DEF LoadsEnvs, envsRemote
<1>3. CASE Unlocks
  BY <1>3, OwnersAssumption DEF Unlocks
<1>4. CASE startCircuitBreaker \/ StartsServer \/ StartsScheduler \/ Dispatches
  BY <1>4 DEF startCircuitBreaker, StartsServer, StartsScheduler, Dispatches
<1>5. CASE Executes \/ LoopEnds
  BY <1>5 DEF Executes, LoopEnds
<1> QED
  BY <1>1, <1>2, <1>3, <1>4, <1>5 DEF MainStep

(* A thread in lockedWait takes the mutex from nobody and gives back its own. *)
LEMMA WaiterStep ==
  ASSUME IInv, NEW w \in Waiters, Waits(w)
  PROVE  IInv'
<1>1. BreakerTypeOK' /\ UNCHANGED startVars
  BY DEF IInv, TypeOK, BreakerTypeOK, breakerVars, Waits, Asks, Locks, Returns
<1> USE OwnersAssumption, <1>1
        DEF IInv, TypeOK, LoadedInOrder, StartupLock, WaitersLock, startVars, serviceVars, WaiterPc
<1>2. CASE Asks(w)
  BY <1>2 DEF Asks
<1>3. CASE Locks(w)
  BY <1>3 DEF Locks
<1>4. CASE Returns(w)
  BY <1>4 DEF Returns
<1> QED
  BY <1>2, <1>3, <1>4 DEF Waits

(* A test disturbs neither what is loaded nor the mutex. *)
LEMMA TestStep ==
  ASSUME IInv, NEW w \in Waiters, Tests(w)
  PROVE  IInv'
<1>1. PICK from \in {"configure", "execute", "deconfigure"},
           to \in {"execute", "deconfigure", "done"} : testGoes(w, from, to)
  BY DEF Tests, configure, execute, deconfigure
<1>2. server' \in BOOLEAN
  BY DEF IInv, TypeOK, Tests, configure, execute, deconfigure
<1>3. TypeOK'
  BY <1>1, <1>2 DEF IInv, TypeOK, BreakerTypeOK, breakerVars, testGoes, WaiterPc
<1> QED
  BY <1>1, <1>3
     DEF IInv, TypeOK, LoadedInOrder, StartupLock, WaitersLock, testGoes, WaiterPc

(* The inductive invariant holds of every reachable state. *)
THEOREM Invariance == Spec => []IInv
<1>1. Init => IInv
  BY OwnersAssumption, DefaultsAssumption
     DEF Init, BreakerInit, IInv, TypeOK, BreakerTypeOK, LoadedInOrder, StartupLock, WaitersLock,
         MainPc, WaiterPc, Loads, InSettings
<1>2. IInv /\ [Next]_vars => IInv'
  <2> SUFFICES ASSUME IInv, [Next]_vars PROVE IInv'
    OBVIOUS
  <2>1. CASE UNCHANGED vars
    BY <2>1
       DEF IInv, TypeOK, BreakerTypeOK, LoadedInOrder, StartupLock, WaitersLock, vars, startVars,
           serviceVars, lockVars, breakerVars
  <2>2. CASE MainStep
    BY <2>2, MainTypes, MainLocks DEF IInv
  <2>3. CASE InLoop(onCheck) \/ InLoop(ClientCalls) \/ InLoop(ClockTicks)
    BY <2>3, LoopStep
  <2>4. CASE \E w \in Waiters : Waits(w) \/ Tests(w)
    BY <2>4, WaiterStep, TestStep
  <2> QED
    BY <2>1, <2>2, <2>3, <2>4 DEF Next
<1> QED
  BY <1>1, <1>2, PTL DEF Spec

(* Every variable keeps its type: the breaker's timer is never a pointer to  *)
(* a deleted object.                                                         *)
THEOREM TypeCorrect == Spec => []TypeOK
BY Invariance, PTL DEF IInv

(* lockedWait lets no thread through before startSettings has loaded the     *)
(* settings, the connections and the environments.                           *)
THEOREM NoneTooEarly == Spec => []WaitedForSettings
<1>1. IInv => WaitedForSettings
  BY OwnersAssumption DEF IInv, StartupLock, WaitersLock, WaitedForSettings
<1> QED
  BY <1>1, Invariance, PTL

(* Where everything was loaded, startSettings has unlocked the mutex. *)
THEOREM UnlockedAfterLoading == Spec => []LockedOnlyOnFailure
<1>1. IInv => LockedOnlyOnFailure
  BY DEF IInv, StartupLock, LockedOnlyOnFailure, InSettings
<1> QED
  BY <1>1, Invariance, PTL

-----------------------------------------------------------------------------
(* The breaker: it reads no settings but its own copy, has a timer only in   *)
(* the loop and where that copy lets it, and quits only at its deadline.     *)
BreakerInv ==
  /\ settingService = setting
  /\ timerBreaker # "null" \/ quit => mainPc \in {"loop", "exited"}
  /\ timerBreaker # "null" \/ quit \/ activityLimit # NoDate => setting.enabled /\ setting.limit > 0
  /\ timerBreaker = "stopped" => quit
  /\ quit => activityLimit # NoDate /\ activityLimit < 0
  /\ mainPc = "exited" => timerBreaker = "null"

LEMMA BreakerStep ==
  ASSUME TypeOK, BreakerInv, [Next]_vars
  PROVE  BreakerInv'
<1> USE DEF BreakerInv, TypeOK, BreakerTypeOK, Setting
<1>0. setting.limit \in Int
  BY LimitsAssumption
<1>1. CASE UNCHANGED <<mainPc, breakerVars>>
  BY <1>1 DEF breakerVars
<1>2. CASE UNCHANGED breakerVars /\ MainStep
  BY <1>2 DEF breakerVars, MainStep, LoadsManager, LoadsConnection, LoadsEnvs, Unlocks, loads,
              envsRemote, startCircuitBreaker, StartsServer, StartsScheduler, Dispatches, Executes,
              LoopEnds, mainGoes, stop
<1>3. CASE Executes /\ start
  BY <1>0, <1>3, NoDateAssumption DEF Executes, mainGoes, start
<1>4. CASE LoopEnds
  BY <1>4 DEF LoopEnds, mainGoes, stop
<1>5. CASE mainPc = "loop" /\ UNCHANGED mainPc /\ start
  BY <1>0, <1>5 DEF start
<1>6. CASE mainPc = "loop" /\ UNCHANGED mainPc /\ stop
  BY <1>6 DEF stop
<1>7. CASE mainPc = "loop" /\ UNCHANGED mainPc /\ onCheck
  BY <1>0, <1>7, NoDateAssumption DEF onCheck, deadline
<1>8. CASE mainPc = "loop" /\ UNCHANGED mainPc /\ ClockTicks
  BY <1>8, NoDateAssumption DEF ClockTicks
<1>9. CASE MainStep
  BY <1>2, <1>3, <1>4, <1>9
     DEF MainStep, LoadsManager, LoadsConnection, LoadsEnvs, Unlocks, startCircuitBreaker,
         StartsServer, StartsScheduler, Dispatches, Executes
<1>10. CASE InLoop(onCheck) \/ InLoop(ClientCalls) \/ InLoop(ClockTicks)
  BY <1>5, <1>6, <1>7, <1>8, <1>10 DEF InLoop, ClientCalls, startVars
<1>11. CASE \E w \in Waiters : Waits(w) \/ Tests(w)
  BY <1>1, <1>11
     DEF Waits, Asks, Locks, Returns, Tests, configure, execute, deconfigure, testGoes, startVars
<1> QED
  BY <1>1, <1>9, <1>10, <1>11 DEF Next, vars, startVars

LEMMA BreakerInvariance == Spec => []BreakerInv
<1>1. Init => BreakerInv
  BY DEF Init, BreakerInit, BreakerInv
<1> QED
  BY <1>1, BreakerStep, TypeCorrect, PTL DEF Spec

(* The breaker ends a program only where its settings enable it with a       *)
(* limit, and not before the deadline that its first check set has passed;   *)
(* no timer outlives the event loop.                                         *)
QuitsOnlyWhenDue ==
  /\ quit => setting.enabled /\ setting.limit > 0 /\ activityLimit < 0
  /\ mainPc = "exited" => timerBreaker = "null"

(* onCheck, start and stop in any order, for every setting and limit. *)
THEOREM QuitsWhenDue == Spec => []QuitsOnlyWhenDue
<1>1. BreakerInv => QuitsOnlyWhenDue
  BY DEF BreakerInv, QuitsOnlyWhenDue
<1> QED
  BY BreakerInvariance, <1>1, PTL

(* A deadline that was set only comes nearer, with time: no check, and no    *)
(* start of a breaker that was stopped, moves it.                            *)
THEOREM DeadlineStays ==
  Spec => [][activityLimit # NoDate => activityLimit' \in {activityLimit, activityLimit - 1}]_vars
<1>1. [Next]_vars => [activityLimit # NoDate => activityLimit' \in {activityLimit, activityLimit - 1}]_vars
  <2>1. start \/ stop \/ ClockTicks \/ onCheck \/ UNCHANGED breakerVars
          => (activityLimit # NoDate => activityLimit' \in {activityLimit, activityLimit - 1})
    BY DEF start, stop, ClockTicks, onCheck, deadline, breakerVars
  <2>2. Next => start \/ stop \/ ClockTicks \/ onCheck \/ UNCHANGED breakerVars
    BY DEF Next, MainStep, LoadsManager, LoadsConnection, LoadsEnvs, Unlocks, startCircuitBreaker,
           StartsServer, StartsScheduler, Dispatches, Executes, LoopEnds, InLoop, ClientCalls,
           Waits, Asks, Locks, Returns, Tests, configure, execute, deconfigure, testGoes
  <2> QED
    BY <2>1, <2>2
<1> QED
  BY <1>1, PTL DEF Spec

=============================================================================
