# A verification project for QApr (qapplicationrunnable)

QApr is a C++/Qt library that turns a program into a service: it loads settings,
starts a server and a scheduler as the command line asks, opens a database
transaction around every request, and stops the program when its time is up.
This directory holds TLA+ models of the parts that have state and concurrency
of their own, the configurations that check them with TLC, and theorems about
them that TLAPS proves. `PROJECT.json` maps each definition to the lines it
translates. Paths below are relative to the repository's `src/`.

Contents: 1 inventory, 2 modules, 3 runs and bounds, 4 fairness, 5 proofs,
6 disagreements found, 7 what is not modelled, 8 plan.

## 1. Inventory

| Component | State it keeps | Operations | Talks to |
|---|---|---|---|
| Application (`application/qapr_application.cpp`) | one static object: settings, connection manager, environments, arguments; the static `lockedMutex`, locked by a static initializer | `startSettings`, `startCircuitBreaker` (startup functions), `lockedWait`, `exec`, `arguments` | everything; threads that wait in `lockedWait` |
| Main service (`application/qapr_mainservice.cpp`) | none | `exec`: dispatch on the arguments | server, scheduler agent, application |
| Circuit breaker (`application/qapr_circuit_breaker.cpp`) | a copy of its settings, a timer, a deadline | `start`, `stop`, the timer's `onCheck`/`onBreak` | `qApp->quit()` |
| Settings, host (`application/qapr_settings.cpp`, `qapr_host.cpp`) | properties; the host's getters write their defaults into it | setters, resets, getters, `setHost`, `setValues` | application, back office |
| Scheduler agent (`services/scheduler/qapr_scheduler_agent.cpp`) | a thread, a hash of tasks by scope | `start`, `stop`, `run`, `free` | task threads, main thread |
| Scheduler task (`services/scheduler/qapr_scheduler_task.cpp`) | a thread with an event loop and a timer; the process-wide `staticMutexSynchronize` | `start`, `run`, `taskRun` | agent, scope group, other tasks through the mutex |
| Scope group (`services/scheduler/qapr_scheduler_scope_group.cpp`) | the static registry of groups: class, synchronize flag, methods by sort name; statistics | `reg`, `invoke`, the `invokeState` slot | scheduler classes, task threads, main thread |
| Scheduler, SchedulerDB (`services/scheduler/qapr_scheduler.cpp`, `qapr_scheduler_db.cpp`) | settings of an instance; a connection per method | `invoke` and its virtual methods | scope group, connection pool |
| Request (`interfaces/qapr_interface.cpp`) and controller (`mvc/qapr_controller.cpp`) | a transaction, a forced-rollback flag, the object's connection; a controller keeps the request it found | `requestBeforeInvoke`, `requestAfterInvoke`, the destructor, `resultInfo`, `setTransactionRollbackForce`, `req()` | connection pool, the thread's last result, database, other requests through the pool, the parents of an object |
| Back office (`interfaces/qapr_interface_backoffice.cpp`) | a static cache of controllers, filled by the first request; constants from the environment | `initControllersCache`, `initAccess`, `modules` | concurrent requests, the host of the settings |
| Maintenance, actuator, printer (`interfaces/`) | none | start, stop, restart, quit, check and print by request | server, application, print service |
| Util message (`util/qapr_util_message.cpp`) | none of its own; the last result of the thread | `send` and its five variants | message service |
| Session (`sessions/`) | a static hash of sessions by thread | `init`, `i` | threads |
| Test support (`test/qapr_test_main.cpp`) | none | `TestMain::run` | `lockedWait`, the server |
| Server, notations, mobile application | none, or properties | see `PROJECT.json` | |

What is hard, and what has to be right:

* *Scheduler.* Threads start, wait for each other's dispatcher in loops without an
  exit, are told to quit while they invoke methods or wait for a mutex, and are given
  up after one second. Right means: synchronized groups exclude each other across all
  of this, the mutex always comes back, no task object is forgotten, no run of a task
  piles up on another, served tasks keep running and a stopped agent ends.
* *Scope groups.* Registration happens in the linker's order. What `main()` finds must
  not depend on it; the methods run in the order their annotations give, each once, and events
  sent to the main thread arrive.
* *Requests.* Each of the three preparations may fail after the others succeeded, and
  the answer of the handler, a forced rollback, a veto of the base class and the
  destructor compete for the fate of one transaction. Right means: no handler runs without
  the transaction it is to have, none is committed against its will or outlives its
  connection, connections go back.
* *Handlers.* The objects of a handler form a tree of any depth, and the request is found by
  walking it. All of them leave their failures in one last result, `lr()`, which is the
  thread's. Right means: the walk ends and finds the nearest interface, an interface does not
  answer the failure of an earlier request, and a failure that was told to a request is not
  lost to a later success.
* *Back office.* Request threads fill one list and read it at the same time. Right means: it
  is filled once, a request that comes when it is settled reads all of it, every request
  is answered.
* *Settings.* Files and arguments are kept from the first time anybody asks, getters write,
  setters trim. Right means: what was set is shown, and what the arguments are does not
  depend on when they are asked for, once the settings are loaded. (Arguments asked for
  earlier stay without those of the settings.)
* *Start.* A mutex is the only thing that tells other threads that the settings are
  loaded; every load may fail. Right means: nobody passes too early, and nobody waits
  for ever where everything was loaded.

The hazards are listed one by one, each with its line and the properties that cover
it, in `PROJECT.json`.

## 2. Modules

```
QThread <- SchedulerTask <- SchedulerAgent <- SchedulerAgentProofs
                               |   implements TaskService
SchedulerScopeGroup <- SchedulerScopeGroupProofs
InterfaceRequest <- InterfaceRequestProofs          RequestHandler <- RequestHandlerProofs
     |   implements RequestOutcome
CircuitBreaker <- Application <- ApplicationProofs
Host <- StartSettings <- StartSettingsProofs
BackOffice <- BackOfficeProofs
```

An `MC` module gives the constants of the module in its name values for TLC.

**QThread** is an external model of what the scheduler uses of Qt's class: the life of
the object (new, running, finished, deleted, aborted), its dispatcher, `quit`,
`deleteLater`. Destroying an object whose thread still runs ends the process
(`aborted`).

**SchedulerTask** has an action for each step of `run` and `taskRun` between two points
where another thread can intervene: the entry, the test and the wait of `exec()`, the
timer's event, the lock, the end of the invocation, the return. `lock`, `unlock`,
`timerStart` and `timerStop` are the code's. A task is named by its scope and the agent
run that built it, so that one that was given up lives beside its successor.

**SchedulerAgent** composes the tasks with the agent thread (`start` in two loops, `free`
in one, with the one second wait that may time out) and with a client that calls
`SchedulerAgent::start` and `stop` in any order, `MainService::exec` among others.
`start()` has code for a hash entry whose task has stopped; it has no action here,
because the hash is proved to be empty whenever `start()` runs (`StartFindsNoTask`).

**TaskService** is what the scheduler promises about its tasks, without threads, timers or a
mutex. A worker is hired once, and only when all of the other runs of the agent have been
dismissed; it listens for its timer and is then busy with its group; of the synchronized ones
one is busy at a time; one that is dismissed while it listens may begin one more
invocation, which is what a task does that `free()` gave up on, and no other. `ServiceSpec` of
SchedulerAgent is the refinement: a worker is hired when its thread has been started, dismissed
by `quit()`, and `placeOf` says where it is in its event loop.

**SchedulerScopeGroup** has `reg` for each class in any order and any number of times, the
begin of `main()`, and for each group the steps of `invoke` with the events it emits. A
method is its name's rank, its order and the groups of its annotations. A sort name keeps the
code's padding: the order of a method is its ten decimal digits (the eleventh of
`rightJustified(11, '0')` is zero for every int32), and sort names are compared as texts, from the
first character that differs. A group is a pair of the words
annotated at its class and its method; `scopeUuid` joins the words that are not blank, so
that two pairs may share one entry of the registry. `canEnabled` asks the settings of each
method before it is invoked. `regState` is modelled by what it does to the statistics, which
is nothing (section 6).

**InterfaceRequest** models any number of requests on one database. Each preparation may
fail, the handler sets the status and the forced rollback as often as it likes, the base
class may veto, the destructor rolls back what is still active.

**RequestOutcome** is what a request promises: its writes are applied or discarded as a
whole, once, and applied only if the handler wants it. `outcome` and `wanted` in
InterfaceRequest are the refinement mapping.

**RequestHandler** is the inside of what InterfaceRequest calls the handler: one thread, the
trees of objects of its requests, and the calls it makes on them in any order. `Constructed`
is the construction of a request and what is below it, anew. The last result is one variable of
the thread: `qapr_interface.cpp:26` clears that of a transaction just made, with the comment
"clear thread erros", and the examples of the repository's README answer `this->lr()` for the
failure of a query or a DAO. A walk of `ControllerPvt::req` is a search of several steps
(`walk`), so that one that never ends is a behaviour of the model. What a search should find does not walk: `RequestOf` is the
interface of the least set of objects that holds the parent and the parent of each member that
is no interface (`Reached`, `Nearest`). `asked`, `told` and `failed` are history variables: the rollback last
asked for of each interface, the requests that were told a failure, and the interfaces since whose
construction something failed. `server` and `quit` are state of the code that only the
maintenance commands touch.

**BackOffice** has a step of `initControllersCache` and `initAccess` for each access to what
requests share: the test outside the mutex, the lock, the second test, each append, the
deletion of the instances, the sort, the unlock, the test and the write of the base path,
the two ends of the loop that reads the list. A data race gives what was there or `Torn`, any
other outcome. The order of controllers is any that `controllers()` may return from its hash.

**Host** has the setters and lazy getters of `Host` as operators on its record of properties.
**StartSettings** uses them in `startSettings` (the search for files, the load of the
manager and of the settings), interleaved with client code that reads, sets and resets
settings and host and asks for files and arguments. `given` keeps what was last set.

**CircuitBreaker** has `start`, `stop` and `onCheck` as operations on the breaker's
variables; time is the distance to the deadline.

**Application** runs the startup functions in their order with every failure, the threads
of `TestMain::run`, which pass `lockedWait` and then start and stop the server for their test, `MainService::exec` for every set of arguments, and then the event loop in
which the breaker's timer fires and code of the application may call the breaker.

## 3. Runs

| Run | Configuration | Shows |
|---|---|---|
| scheduler_safety | MCSchedulerSafety | all safety properties of the scheduler and `ServiceSpec` |
| scheduler_liveness | MCSchedulerLiveness | `ServedScopesRun`, `StopCompletes` |
| scope_group | MCScopeGroup | registry, groups that share a uuid, order of the methods by their padded texts, events |
| interface_request | MCInterfaceRequest | preparations (`HandlerPrepared`), transactions, connections, `OutcomeSpec`, `RequestsEnd` |
| application | MCApplication | `lockedWait`, the end by the breaker |
| back_office | MCBackOffice | the list is filled once, late requests read all of it, no instance leaks, `RequestsAnswered` |
| start_settings | MCStartSettings | the mix of arguments, the host shows what was set |
| request_handler | MCRequestHandler | the rollback reaches the nearest request, `AnswersOwnFailures`, `WalksEnd` |
| stats_recorded, fail_named_fail, breaker_settings, env_file_used | | a disagreement each, section 6 |

Bounds and why they are enough:

* *Scheduler.* Two synchronized scopes, so that two tasks can compete for the mutex, and one
  that is not; lists of none, one and two scopes; intervals 0 (`run` returns at once) and 1 (a
  timer is armed; only the sign matters to the code). `MaxRuns = 2` really starts the agent
  twice, so that a late task meets its successor: the cases of overlap need two runs and no
  more. The liveness run has one agent run and both synchronized scopes: an overlap
  with a second run does not change who competes for the mutex.
* *Scope groups.* Two classes that share a group, one group of a single class, and two pairs of
  names with one uuid; settings that disable a method; methods
  with orders of one and two digits, two methods of one order, without an order, and not
  scheduled. `MaxStacks = 2` lets both groups be invoked at once or one twice; `MaxPosted = 2`
  lets events of both wait for the main thread. `MaxPosted` is a bound of the model only:
  the main thread's queue has none.
* *Requests.* Two requests and one connection: one can find the pool used up by the other. All
  kinds, all failures.
* *Back office.* Three requests, so that two can fill while one comes late, each with a server or
  not; four classes, of which one cannot be created, one has no name, and two are shown and
  can be in the wrong order; with and without an order of names; a base path that is blank, or
  not; one request with headers of its own.
* *Handlers.* Ten objects: a request of each class, two interfaces of which one is below the other,
  controllers at depth zero to two, one outside of the trees and one below a request that is no
  interface. `MaxCalls = 5` lets an object fail, an interface be constructed, another controller
  succeed or fail, the result be told, and the rollback be asked for beside it.
* *Settings.* Files in both paths, in one, or none, that disagree; a command line with a key twice
  in different case, a value with a `=`, a key without a value; texts that are empty, blank, and
  in need of trimming. `MaxCalls = 4` is a set, a read that writes a default, another set and
  another read, around each step of `startSettings`.
* *Application.* Two threads of tests; limits 0, 1 and 2 (the sign decides whether the breaker
  runs, 1 and 2 tell two settings apart); the settings of the file and the defaults of the
  settings class range over all values.

Deadlock is not checked: a process exits, aborts or, as two hazards say, waits for ever in
`start()`, a handler returns, and the bounds end behaviours.

## 4. Fairness

* *Scheduler:* weak fairness of the agent, of each task and of the client's wait: the
  operating system runs threads that can run, timers fire, and the methods of a group return.
  Strong fairness of `TaskLock`: a task asks for the mutex again only after an interval in
  which the mutex is free. Nothing obliges the client to call anything.
* *Scope groups:* the main thread delivers events; each group's steps are strongly fair, since
  the bound on waiting events disables and enables them.
* *Requests:* each request proceeds. A pool with nothing to give refuses, which is how the
  code uses it.
* *Back office:* each request thread goes on. Weak fairness is enough for the mutex, though it
  may be taken by others meanwhile: each request takes it once.
* *Handlers:* one thread runs the search it is in; nobody is obliged to call anything. A loop
  that repeats its test without a change is a stutter, which is what `WalksEnd` must exclude.
* *Application:* the main thread moves on, except out of `SchedulerAgent::start`, which may
  hang (its wait has no exit); the timer fires, time passes, and a thread in `lockedWait` gets
  the mutex when it is free again and again, which QMutex gives in practice because each owner
  leaves it once and for good.

## 5. Proofs

All theorems hold for every value of the constants that satisfies the named assumptions of
the modules. The assumptions give the constants their types (synchronized scopes are scopes,
intervals and limits are integers), keep a marker apart from the values (the null pointer is no
task, `Torn` is no list), or say what the code takes for granted: a program has finitely many
classes, methods and groups, the values of a settings file have the types of the hashes that
read them (`ContentAssumption`), trimming never empties the constants of the code
(`TrimmedAssumption`). TLC evaluates them in the runs. Each proof module has one inductive
invariant `IInv`, a lemma for each part that a step can disturb, and corollaries. TLC finds
each of them true on the instance of its module's run (in SchedulerScopeGroup with `TypeOK` in the place of
`Typed`, whose set of functions is too large to build).

**SchedulerAgentProofs.** The properties alone are not inductive: that the mutex's owner is the
invoking task needs to know that a thread that is not running is at no step of `run()`
(`RunningHasPc`), and that no object is started twice (`HeldStarted`). `HashBounds` says that the hash and the
list of `free()` hold tasks of this run only, `FreshTasks` that the objects of runs to come are
new, `Accounted` that every object is held, gone, or deletes itself, `EventLoops` how pc, timer
and interval fit, `AgentLeaves` why the agent left its loop. Proved: `TypeOK`, `SyncExclusive`,
`MutexOwner`, `TimerDiscipline`, `StartFindsNoTask`, `AgentFreesTasks`, `OverlapOnlyAfterTimeout`,
`SpinNeverLost`, and that the scheduler implements TaskService (`Refinement`), which needs
`QuitUnlessServed`: every task that was started has been told to quit, or is one that the agent
still has to tell.

**SchedulerScopeGroupProofs.** `Registered` says of each uuid what the registry has after any set
of classes has registered: nothing if none of them schedules a method in it; else the names of
all of them, each with the index that one of them has for it, and for the names of the class that
owns the group, the owner's. `Invoking` says that what an invocation has run and what it has
still to run are together an arrangement in order of the names its class knows, which no
registration changes, since all come before `main()`. That the place of a name follows from its
order alone needs that no two names are each before the other (`BeforeAsymmetric`) and that an
arrangement has each name once (`MethodListed`). That the padded numbers compare as texts as
they do as numbers is `PaddedInOrder`, by way of the numbers their first digits make
(`PrefixMonotone`): of two of different size the digits differ somewhere, and where they first do,
the smaller has the smaller one. Without the padding it is false.
Proved: `TypeOK`, `RegistryComplete`, `InvocationOrdered`, `OneClassRunsItsOwn`, and of every step
`BindingsStable`.

**InterfaceRequestProofs.** `IInv` says for each request and each place where it can be what its
connection and transaction are: `Opening` before the handler, `Serving` around it, `Closing` after
it, and `Kept`, the history that a wanted transaction was committed. Proved: `TypeOK`,
`ActiveOnConnection`, `HandlerPrepared`, `OkIsCommitted`, `ConnectionReturned`, and that the
requests implement RequestOutcome (`Refinement`).

**RequestHandlerProofs.** `AnswersOwnFailures` is inductive with the types, with `LastSince` (a failure
in the thread's last result is one that no interface was constructed after), and with
`SeekerWalks`, which says that only an object that keeps a request is ever in a search. `RollbackReachesNearest` speaks of the
time between calls only; for the time of a search `AskedPending` says that what is still ahead
of it is the request it should find, and `KeptRight` that a request once kept is the right one for good.
That a search keeps what is ahead, in a tree of any depth, needs no induction: the set `Reached` from
an object is the least closed one, and the lemmas compare it with that of its parent. Proved:
`TypeOK`, `AnswersOwnFailures`, `RollbackReachesNearest`, and that only the construction of a new object
changes a request that was found (`FoundForGood`).

**ApplicationProofs.** `LoadedInOrder` ties the main thread's place to what is loaded, `StartupLock`
says that the initializer's lock is there exactly until all is, `WaitersLock` who owns the mutex
in `lockedWait`. Proved: `TypeOK`, `WaitedForSettings`, and `UnlockedAfterLoading`: the startup's
lock is held after the last load only if one of them failed. A second invariant, `BreakerInv`, ties
the timer, the deadline and the settings of the breaker together. Proved from it: `QuitsWhenDue` (the
breaker ends the program only if it is enabled, has a limit and its deadline is past; no timer
outlives the loop) and `DeadlineStays` (a deadline only ever comes nearer by time).

**StartSettingsProofs.** `SameHost` relates the host of the settings to `given`: the getters answer the
same of both, whatever defaults they have written; a lemma each for reading, setting, clearing and merging.
`FilesInv` says that the files that are kept exist and have their extension, `ArgumentsInv` that
arguments kept before the manager had loaded are known to be early, and that those kept later are
the promised mix. Each loop over the command line or the files is a recursive function; what
the loop has done after any number of rounds is proved by looking at the least round after which it
would not have (`UpTo`). Proved: `TypeOK`, `ArgumentsMixed`, `HostShowsWhatWasSet`.

**BackOfficeProofs.** `Exclusion` says that who is between lock and unlock owns the mutex, `Partial` what
the list is after each round of the loop (the controllers looked at that are to be shown), `Collected`
what it is before the sort. A late request needs `LateSettled`: once it has come, the list and the
base path are written by nobody again, `LateUndisturbed`: it never meets a change, and `LateReads`:
what it has read is the list. Proved: `TypeOK`, `FilledOnce`, `NoControllerLeaked`,
`LateAccessComplete`, that one request at most fills the list (`MutexExcludes`), and that a settled list
is never written again (`SettledForGood`).

Only model-checked: the eight liveness properties, since fairness and ENABLED are beyond the prover
(`ServedScopesRun`, `StopCompletes`, `InvocationsComplete`, `RequestsEnd`, `WaitersReturn`, `BreakerEnds`,
`RequestsAnswered`, `WalksEnd`), and the four disagreements, which the code
violates. Every other property of a run is a theorem.

## 6. Disagreements between code and documents

* `StatsRecorded` (`qapr_scheduler_scope_group.cpp:133`): `regState` inserts the new statistics into
  their own copy and never into `stackStats`; the comment above it describes a tree that
  stays empty.
* `FailNamedFail` (`qapr_scheduler_scope_group.cpp:311`): `invoke` emits values of
  `Scheduler::InvokeReturn`, the slot names them by `InvokeState`; a failure is called skipped.
* `BreakerUsesSettings` (`qapr_application.cpp:172`): the breaker copies its settings before
  they are loaded, so the limit of the settings file is never used.
* `EnvFileUsed` (`qapr_settings.cpp:120`): `setEnvFile` assigns the version, so that the environment
  file a settings file names is never known; `resourceSettings` asks for it before the settings
  are set besides.

Other behaviour worth knowing, which no document contradicts: a late task's `deleteLater` destroys
a QThread inside its own thread and ends the process; `SchedulerAgent::start` may hang when
the scheduler is disabled; a load that fails leaves `lockedWait` closed for good; requests annotated
`dbReadOnly` or `dbNoTransaction` never give their connection back; the result of `commit()` is
ignored; a breaker started again keeps the deadline of its first activity; a request that meets
another one filling the back office's list may read anything; without `apiNameOrder` every
request leaks an instance of each controller; `serverRestart` leaves the server stopped; the last
result being the thread's, a UtilMessage whose message was sent answers what another object
failed in before, a request that is no Interface begins with the failure of the one before it, and an
Interface constructed inside a handler clears what was not answered yet; `setHost` with the object's own host resets it; groups of different
names may share a uuid, and the methods of one then run in the scope of the other.

## 7. What is not modelled

* Libraries: Qt's event loop beyond what QThread says, QOrm (a connection that is opened is the
  caller's until `finish`; a transaction's rollback does nothing unless it is active), QRpc
  (it calls the hooks and then destroys the object; the server's `start` and `stop` do what they
  are called), QStm's settings (the interval of a task comes from an instance that nothing
  loads: its default is the constant `Intervals`), the message and print services (they accept
  or refuse).
* The end of the process: static destructors, threads that still run then.
* `QAPR_DECLARE_IRQ` (`interfaces/qapr_interface.h:16`): no class of the repository uses the macro, and
  none could, since its `const` methods call `irq()`, which is not.
* `Application::arguments()` hands out its hash itself (`application/qapr_application.h:82`): what a
  client writes through the reference is not modelled.
* Data: names, formats, annotations as text, headers beyond their merge, logging, the
  placeholders of environment variables, the groups and paths a module of the back office shows
  (a function of its controller). A group whose class and method are both without words gets a
  random uuid in the code; groups of the model have words.
* *SchedulerDB.* It adds a connection to each method. What the connection's owner does with it at
  its end is code of QOrm and cannot be read here; to SchedulerScopeGroup it is one of the
  answers of `invokeBefore`.
* *Session and credential.* The registry by thread has no caller in the repository, so that no
  thread of the program could be modelled; the credential is a record of properties.
* *Server, annotations.* A static instance with settings, and names.
* *Mobile application.* A second `Application` that no longer compiles
  (`QMutexLOCKER`, `application-mobile/qapr_application.cpp:31`).
* *Test support, examples, build files.* Not part of the program, but for `TestMain::run`, the
  repository's one caller of `lockedWait`.

## 8. Plan

Done: scheduler, scope groups, requests, handlers, start, settings, breaker, back office are
modelled, and every safety and action property that a run checks is proved. What remains is to say
more about the same models, in this order:

1. **BackOffice**: an abstract specification of the list (written by nobody but one, then read) and
   that the requests implement it.
2. The part of each liveness property that is safety: in every state where something is still to
   happen, some step that is assumed fair can happen, stated without ENABLED by its guard.
