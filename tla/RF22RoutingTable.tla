-------------------------- MODULE RF22RoutingTable --------------------------
(***************************************************************************)
(* The routing table of one RF22Router under every sequence of calls to    *)
(* addRouteTo, deleteRouteTo, retireOldestRoute and clearRoutingTable.     *)
(*                                                                         *)
(* The hazard is that the scans disagree: addRouteTo and deleteRouteTo     *)
(* stop at the FIRST entry with the destination, whatever its state, while *)
(* getRouteTo stops at the first one that is not Invalid.  If an Invalid   *)
(* entry ever stood before a live one for the same destination, a deleted  *)
(* route would still be used and an updated one would have no effect.      *)
(***************************************************************************)
EXTENDS RF22Routes, Sequences

CONSTANT AddStates   \* the states callers give addRouteTo()

ASSUME AddStatesAssumption == AddStates \subseteq RouteState

VARIABLES routes,   \* _routes[]
          call      \* the last call, its arguments and what it returned

vars == <<routes, call>>

\* The constructor sets only the state of each entry: dest and next_hop are
\* what the memory held.
Init == /\ routes \in [Slots -> [dest : Addr, next_hop : Addr, state : {"Invalid"}]]
        /\ call = [op |-> "none"]

AddCall(d, n, s) ==
  IF s = "Invalid" THEN [op |-> "addInvalid", dest |-> d]
  ELSE [op |-> "add", dest |-> d, next_hop |-> n]

Add(d, n, s) == /\ routes' = AddRouteTo(routes, d, n, s)
                /\ call' = AddCall(d, n, s)

Delete(d) ==
  /\ routes' = DeleteRouteTo(routes, d)
  /\ call' = [op |-> "delete", dest |-> d, ret |-> SlotsOf(routes, d) # {}]

Retire == /\ routes' = RetireOldestRoute(routes)
          /\ call' = [op |-> "retire"]

Clear == /\ routes' = ClearRoutingTable(routes)
         /\ call' = [op |-> "clear"]

Next == \/ \E d, n \in Addr, s \in AddStates : Add(d, n, s)
        \/ \E d \in Addr : Delete(d)
        \/ Retire
        \/ Clear

Spec == Init /\ [][Next]_vars

-----------------------------------------------------------------------------
(* Properties.                                                             *)

\* Every entry holds addresses and one of the three states.
TypeOK == routes \in Table

\* No live entry has an entry for the same destination before it, so the
\* entry addRouteTo() and deleteRouteTo() stop at is the one getRouteTo()
\* returns, and a destination never has two routes.
FirstMatchIsTheRoute == FirstMatchIsRoute(routes)

\* The destinations that have a route, and where they are sent.
MapOf(t) == [d \in {x \in Addr : HasRoute(t, x)} |-> GetRouteTo(t, d).next_hop]

Map == MapOf(routes)

\* The table is a bounded map: an added route is the one found afterwards, a
\* deleted one is gone, nothing else changes, and one other route is lost only
\* when a new destination meets a table full of live routes.
RM == INSTANCE RouteMap WITH Capacity <- TableSize, map <- Map
IsARouteMap == RM!Spec
=============================================================================
