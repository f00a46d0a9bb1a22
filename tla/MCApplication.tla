--------------------------- MODULE MCApplication ---------------------------
(* Two threads wait for the start; limits that disable the breaker or not. *)
EXTENDS Application

CONSTANTS w1, w2

MCWaiters == {w1, w2}
MCLimits == {0, 1, 2}
MCDefaults == Setting

=============================================================================
