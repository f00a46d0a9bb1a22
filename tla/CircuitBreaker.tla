--------------------------- MODULE CircuitBreaker ---------------------------
(***************************************************************************)
(* QApr::CircuitBreaker: a timer that asks the application to quit when it *)
(* has run for longer than the activityLimit of its settings.  Everything  *)
(* here happens in the main thread; Application composes it with the start *)
(* of the program.  The memory limit is read and not used by the code.     *)
(***************************************************************************)
EXTENDS Integers

CONSTANTS
  Limits,  \* the values activityLimit() of the settings may have
  NoDate   \* a QDateTime that is not valid

ASSUME LimitsAssumption == Limits \subseteq Int
ASSUME NoDateAssumption == NoDate \notin Int

Setting == [enabled : BOOLEAN, limit : Limits]

VARIABLES
  setting,         \* the settings copied by the constructor
  settingService,  \* what start() has read from them
  timerBreaker,    \* "null", "active", or "stopped" but not deleted
  activityLimit,   \* the deadline, as the time left until it: -1 once it has
                   \* passed, NoDate until a check has set it
  quit             \* qApp->quit() was called

breakerVars == <<setting, settingService, timerBreaker, activityLimit, quit>>

BreakerTypeOK ==
  /\ setting \in Setting
  /\ settingService \in Setting
  /\ timerBreaker \in {"null", "active", "stopped"}
  /\ activityLimit \in Int \cup {NoDate}
  /\ quit \in BOOLEAN

(* The constructor copies the settings it is given. *)
BreakerInit(given) ==
  /\ setting = given
  /\ settingService = given
  /\ timerBreaker = "null"
  /\ activityLimit = NoDate
  /\ quit = FALSE

(* Mutant: the deleted timer's pointer is kept. *)
stopDangling ==
  /\ timerBreaker' = IF timerBreaker = "null" THEN "null" ELSE "deleted"
  /\ UNCHANGED <<setting, settingService, activityLimit, quit>>

(* stop() deletes the timer and keeps the deadline. *)
stop ==
  /\ timerBreaker' = "null"
  /\ UNCHANGED <<setting, settingService, activityLimit, quit>>

(* start() keeps a timer there is, one that onBreak has stopped included. *)
start ==
  /\ settingService' = setting
  /\ timerBreaker' =
       IF ~setting.enabled \/ setting.limit <= 0 THEN "null"
       ELSE IF timerBreaker = "null" THEN "active" ELSE timerBreaker
  /\ UNCHANGED <<setting, activityLimit, quit>>

(* Mutant: each check moves the deadline. *)
deadlineMoved == settingService.limit

(* The first check sets the deadline. *)
deadline ==
  IF activityLimit = NoDate /\ settingService.limit > 0
    THEN settingService.limit
    ELSE activityLimit

(* onCheck, and onBreak when the deadline has passed. *)
onCheck ==
  /\ timerBreaker = "active"
  /\ activityLimit' = deadline
  /\ IF activityLimit' # NoDate /\ activityLimit' < 0
       THEN timerBreaker' = "stopped" /\ quit' = TRUE
       ELSE UNCHANGED <<timerBreaker, quit>>
  /\ UNCHANGED <<setting, settingService>>

ClockTicks ==
  /\ activityLimit # NoDate /\ activityLimit >= 0
  /\ activityLimit' = activityLimit - 1
  /\ UNCHANGED <<setting, settingService, timerBreaker, quit>>

=============================================================================
