-------------------------- MODULE MCSchedulerAgent --------------------------
(* Two synchronized scopes, served together, and one that is not. *)
EXTENDS SchedulerAgent

CONSTANTS sA, sB, sC

MCScopes == {sA, sB, sC}
MCSynchronized == {sA, sB}
MCScopeLists == {{}, {sC}, {sA, sB}}
MCPairOnly == {{sA, sB}}
MCIntervals == {0, 1}

=============================================================================
