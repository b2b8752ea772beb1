------------------------------ MODULE RouteMap ------------------------------
(***************************************************************************)
(* What a routing table promises its users: a map from destinations to     *)
(* next hops that never holds more than Capacity routes and gives up one   *)
(* route, and only one, when a new destination does not fit.               *)
(*                                                                         *)
(* call is the last operation, as its caller sees it.                      *)
(***************************************************************************)
EXTENDS Integers, FiniteSets, Functions

CONSTANTS Capacity, Addr

VARIABLES map, call

Init == /\ map = [d \in {} |-> d]
        /\ call = [op |-> "none"]

\* A route for d is set; another one makes room for it if there is none.
Put(d, n) ==
  /\ call' = [op |-> "add", dest |-> d, next_hop |-> n]
  /\ \/ /\ d \in DOMAIN map \/ Cardinality(DOMAIN map) < Capacity
        /\ map' = [x \in DOMAIN map \cup {d} |-> IF x = d THEN n ELSE map[x]]
     \/ /\ d \notin DOMAIN map
        /\ Cardinality(DOMAIN map) = Capacity
        /\ \E old \in DOMAIN map :
             map' = [x \in (DOMAIN map \ {old}) \cup {d} |->
                       IF x = d THEN n ELSE map[x]]

\* The route for d is given up: added as Invalid, or deleted.  A caller of
\* the deletion is told TRUE if there was a route; the table may also say
\* TRUE when there was none.
Forget(d) ==
  /\ \/ call' = [op |-> "addInvalid", dest |-> d]
     \/ \E r \in BOOLEAN : /\ d \in DOMAIN map => r
                           /\ call' = [op |-> "delete", dest |-> d, ret |-> r]
  /\ map' = Restrict(map, DOMAIN map \ {d})

\* An entry added as Invalid for a destination the table does not know takes
\* a slot, so it too can cost another destination its route.
ForgetWhenFull(d) ==
  /\ call' = [op |-> "addInvalid", dest |-> d]
  /\ d \notin DOMAIN map
  /\ Cardinality(DOMAIN map) = Capacity
  /\ \E old \in DOMAIN map : map' = Restrict(map, DOMAIN map \ {old})

\* retireOldestRoute() called by the application: at most one route less.
Retire ==
  /\ call' = [op |-> "retire"]
  /\ \/ map' = map
     \/ \E old \in DOMAIN map : map' = Restrict(map, DOMAIN map \ {old})

Clear ==
  /\ call' = [op |-> "clear"]
  /\ map' = [d \in {} |-> d]

Next == \/ \E d, n \in Addr : Put(d, n)
        \/ \E d \in Addr : Forget(d) \/ ForgetWhenFull(d)
        \/ Retire
        \/ Clear

Spec == Init /\ [][Next]_<<map, call>>
=============================================================================
