------------------------------ MODULE QThread ------------------------------
(***************************************************************************)
(* The part of Qt's QThread that the scheduler's two kinds of thread, the  *)
(* agent and its tasks, rely on.  QThread is a library class: the module   *)
(* says what the calls made in src/src/services/scheduler observe of it.   *)
(*                                                                         *)
(* A thread object is a record:                                            *)
(*   life       -- "new" until the first start(), "running" from start()   *)
(*                 to the end of run(), "finished" after it, "deleted"     *)
(*                 once another thread has deleted the object, "aborted"   *)
(*                 when the object was deleted by its own, still running   *)
(*                 thread (Qt's destructor then ends the process)          *)
(*   dispatcher -- eventDispatcher() is not null: set by the new thread    *)
(*                 before run(), cleared when run() has returned           *)
(*   quit       -- quit() was called since the last effective start()      *)
(*   deferred   -- deleteLater() was called: the thread deletes the object *)
(*                 when it finishes                                        *)
(***************************************************************************)

Life == {"new", "running", "finished", "deleted", "aborted"}

ThreadState ==
  [life : Life, dispatcher : BOOLEAN, quit : BOOLEAN, deferred : BOOLEAN]

NewThread ==
  [life |-> "new", dispatcher |-> FALSE, quit |-> FALSE, deferred |-> FALSE]

IsRunning(th) == th.life = "running"

(* wait() returns true for a thread that has finished or never ran. *)
IsFinished(th) == th.life \in {"new", "finished"}

(* start() does nothing to a thread that runs already. *)
Started(th) ==
  IF IsRunning(th) THEN th
  ELSE [th EXCEPT !.life = "running", !.dispatcher = FALSE, !.quit = FALSE]

Attached(th) == [th EXCEPT !.dispatcher = TRUE]

Quitted(th) == [th EXCEPT !.quit = TRUE]

DeletedLater(th) == [th EXCEPT !.deferred = TRUE]

Deleted(th) == [th EXCEPT !.life = "deleted"]

(* run() has returned: the dispatcher goes away, and a pending deleteLater *)
(* destroys the object from inside its own thread.                         *)
Ended(th) ==
  [th EXCEPT !.life = IF th.deferred THEN "aborted" ELSE "finished",
             !.dispatcher = FALSE]

=============================================================================
