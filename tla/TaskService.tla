---------------------------- MODULE TaskService ----------------------------
(***************************************************************************)
(* What the scheduler promises about its tasks, without threads,           *)
(* dispatchers, timers or a mutex.  A worker is hired once, by its team,   *)
(* and only when every worker of the other teams has been dismissed.  It   *)
(* listens for its timer and is then busy with the methods of its group;   *)
(* the workers of synchronized groups are busy one at a time.  A worker    *)
(* dismissed while it listens may still begin one invocation, and one that *)
(* does not listen begins none: it never listens again.                    *)
(***************************************************************************)
CONSTANTS
  Workers,    \* the tasks
  Team,       \* Team[w]: the run of the agent that made w
  Exclusive   \* the workers of a synchronized group

VARIABLES
  hired,      \* the workers that have been started
  dismissed,  \* those of them that have been told to quit
  place       \* place[w]: "resting", "listening" or "busy"

vars == <<hired, dismissed, place>>

Init ==
  /\ hired = {}
  /\ dismissed = {}
  /\ place = [w \in Workers |-> "resting"]

Moves(w, from, to) ==
  /\ place[w] = from
  /\ place' = [place EXCEPT ![w] = to]
  /\ UNCHANGED <<hired, dismissed>>

Hire(w) ==
  /\ w \notin hired
  /\ \A v \in hired \ dismissed : Team[v] = Team[w]
  /\ hired' = hired \cup {w}
  /\ UNCHANGED <<dismissed, place>>

Dismiss(w) ==
  /\ w \in hired
  /\ dismissed' = dismissed \cup {w}
  /\ UNCHANGED <<hired, place>>

Listen(w) ==
  /\ w \in hired \ dismissed
  /\ Moves(w, "resting", "listening")

GiveUp(w) ==
  /\ w \in dismissed
  /\ Moves(w, "listening", "resting")

Begin(w) ==
  /\ w \in Exclusive => \A v \in Exclusive : place[v] # "busy"
  /\ Moves(w, "listening", "busy")

End(w) == Moves(w, "busy", "resting")

Next ==
  \E w \in Workers :
    Hire(w) \/ Dismiss(w) \/ Listen(w) \/ GiveUp(w) \/ Begin(w) \/ End(w)

Spec == Init /\ [][Next]_vars

=============================================================================
