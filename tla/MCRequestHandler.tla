--------------------------- MODULE MCRequestHandler ---------------------------
(***************************************************************************)
(* The objects of one thread: an interface `outer` with another below it,  *)
(* controllers at every depth and one outside of the tree, and one request *)
(* of every other class.                                                   *)
(***************************************************************************)
EXTENDS RequestHandler, TLC

CONSTANTS
  outer, inner, shallow, deep, nested, alone,
  printer, maintence, actuator, printed

MCObjects ==
  {outer, inner, shallow, deep, nested, alone,
   printer, maintence, actuator, printed}

MCKind ==
  outer :> "Interface" @@ inner :> "Interface"
  @@ printer :> "Printer" @@ maintence :> "Maintence" @@ actuator :> "Actuator"
  @@ [o \in {shallow, deep, nested, alone, printed} |-> "Controller"]

MCParent ==
  [o \in {inner, shallow} |-> outer]
  @@ deep :> shallow @@ nested :> inner @@ printed :> printer
  @@ [o \in {outer, alone, printer, maintence, actuator} |-> NoObject]

=============================================================================
