----------------------- MODULE MCSchedulerScopeGroup -----------------------
(***************************************************************************)
(* Classes cA and cB share the group of gB, where each has a method whose  *)
(* index the other uses for something else or does not have; gB (a group   *)
(* without a scope) and gC (a scope without a group) have one uuid.  Group *)
(* gA has methods of cA only, with orders of one and of two digits, two    *)
(* methods of one order, one without an order and one that is not          *)
(* scheduled; one method of cA is in gB only, and one in gB and gC.        *)
(***************************************************************************)
EXTENDS SchedulerScopeGroup

CONSTANTS cA, cB

gA == <<<<"default">>, <<"a">>>>
gB == <<<<>>, <<"b">>>>
gC == <<<<"b">>, <<>>>>

MCClasses == {cA, cB}
MCGroups == {gA, gB, gC}
MCRank == [g \in MCGroups |-> IF g = gA THEN 3 ELSE IF g = gB THEN 1 ELSE 2]
MCSettings == [n \in {3} |-> FALSE]
MCSynchronize == {cB}

Task(name, order, groups, enabled) ==
  [name |-> name, order |-> order, groups |-> groups, enabled |-> enabled]

MCMethods ==
  [c \in MCClasses |->
     IF c = cA
       THEN <<Task(2, -1, {gA, gB}, "yes"), Task(1, -1, {}, "no"),
              Task(3, 10, {gA}, "setting"), Task(4, 2, {gA}, "setting"),
              Task(5, 2, {gA, gB, gC}, "yes"), Task(7, -1, {gB}, "no")>>
       ELSE <<Task(6, 1, {gB}, "yes"), Task(2, -1, {gB, gC}, "yes")>>]

=============================================================================
