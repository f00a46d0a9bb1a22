--------------------------- MODULE RequestOutcome ---------------------------
(***************************************************************************)
(* What a request with a transaction promises about what its handler wrote *)
(* to the database: it is applied as a whole or discarded as a whole, once *)
(* and for all, and it is applied only if the handler answered OK and      *)
(* nobody asked for a rollback.                                            *)
(***************************************************************************)
CONSTANT Requests

VARIABLES
  outcome,  \* outcome[r]: "open", "applied" or "discarded"
  wanted    \* the requests whose handler wants its writes to be kept

Init ==
  /\ outcome = [r \in Requests |-> "open"]
  /\ wanted = {}

(* The handler changes its mind; only that of an open request matters. *)
Decide(r) ==
  /\ outcome[r] = "open"
  /\ wanted' \in {wanted \cup {r}, wanted \ {r}}
  /\ UNCHANGED outcome

Apply(r) ==
  /\ outcome[r] = "open"
  /\ r \in wanted
  /\ outcome' = [outcome EXCEPT ![r] = "applied"]
  /\ UNCHANGED wanted

Discard(r) ==
  /\ outcome[r] = "open"
  /\ outcome' = [outcome EXCEPT ![r] = "discarded"]
  /\ UNCHANGED wanted

Next == \E r \in Requests : Decide(r) \/ Apply(r) \/ Discard(r)

Spec == Init /\ [][Next]_<<outcome, wanted>>

=============================================================================
