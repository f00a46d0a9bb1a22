---------------------------- MODULE MCBackOffice ----------------------------
(***************************************************************************)
(* Three requests and four classes.  Two controllers are shown, and their  *)
(* apiOrder is the reverse of the order of their names; one of them is not *)
(* named by apiNameOrder.  Of the others one has no apiName and one gives  *)
(* no instance.  apiNameOrder may be missing, and so may the server of one *)
(* or two requests (which ones does not matter).                           *)
(***************************************************************************)
EXTENDS BackOffice

CONSTANTS r1, r2, r3, cFirst, cSecond, cUnnamed, cAbstract

MCRequests == {r1, r2, r3}
MCControllers == {cFirst, cSecond, cUnnamed, cAbstract}
MCNames == {"first", "second", "QUnnamed", "QAbstract"}
MCNameOrders == {<<>>, <<"first", "none">>}
MCPaths == {"", "/api"}
MCServes == {{r1}, {r1, r2}, MCRequests}
MCEnvs == {[protocol |-> "", dns |-> "env", port |-> 0, headers |-> "env"]}
MCAuthorization == [r \in MCRequests |-> IF r = r1 THEN "token" ELSE ""]

MCInfo ==
  cFirst :> [created |-> TRUE, name |-> "first", named |-> TRUE, methods |-> TRUE, order |-> 2]
  @@ cSecond :> [created |-> TRUE, name |-> "second", named |-> TRUE, methods |-> TRUE, order |-> 1]
  @@ cUnnamed :> [created |-> TRUE, name |-> "QUnnamed", named |-> FALSE, methods |-> TRUE, order |-> -1]
  @@ cAbstract :> [created |-> FALSE, name |-> "QAbstract", named |-> TRUE, methods |-> TRUE, order |-> 0]

=============================================================================
