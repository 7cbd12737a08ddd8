------------------------------- MODULE MCCore -------------------------------
(* Parts of the Rust core that share no state, checked together: the bus,   *)
(* the dependency graph, and what one optimize call selects.  In a behavior *)
(* one part runs and the others stay as they begin, so what is explored is  *)
(* that of each part alone.                                                 *)
EXTENDS MCCognitiveBus, MCDependencyGraph, MCSelection

VARIABLE part

coreVars == <<part, busVars, graphVars, selectionVars>>

\* A selection that stays begins with some one of the requests.
AnyRequest == CHOOSE r \in Requests : TRUE

CoreInit ==
    /\ part \in {"bus", "graph", "selection"}
    /\ part # "selection" => request = AnyRequest
    /\ BusInit
    /\ GraphInit
    /\ SelectionInit

CoreNext ==
    \/ part = "bus" /\ BusNext /\ UNCHANGED <<part, graphVars, selectionVars>>
    \/ part = "graph" /\ GraphNext /\ UNCHANGED <<part, busVars, selectionVars>>
    \/ part = "selection" /\ SelectionNext /\ UNCHANGED <<part, busVars, graphVars>>

CoreSpec == CoreInit /\ [][CoreNext]_coreVars
=============================================================================
