---------------------------- MODULE RF22RouteAge ----------------------------
(***************************************************************************)
(* RF22RoutingTable with a history variable: which routes were set up      *)
(* before which.  It tells whether the entry retireOldestRoute() drops,    *)
(* the first of the table, is the oldest one.  That is so for a table in   *)
(* zeroed memory (a global object) which is never cleared and given live   *)
(* routes only.                                                            *)
(***************************************************************************)
EXTENDS RF22RoutingTable

VARIABLES older,   \* pairs of destinations: the first had its route earlier
          tidy     \* the table was zeroed, and has not been cleared since

avars == <<routes, call, older, tidy>>

AgedInit == /\ Init
            /\ older = {}
            /\ tidy = (\A i, j \in Slots : routes[i] = routes[j])

\* The destinations that have a route.
Routed(t) == {d \in Addr : HasRoute(t, d)}

\* What lost its route is forgotten; what got one is younger than the rest.
Aged(t, u, pairs) ==
  (pairs \cap (Routed(u) \X Routed(u)))
    \cup ((Routed(t) \cap Routed(u)) \X (Routed(u) \ Routed(t)))

AgedNext ==
  /\ Next
  /\ older' = Aged(routes, routes', older)
  /\ tidy' = (tidy /\ call'.op \notin {"clear", "addInvalid"})

AgedSpec == AgedInit /\ [][AgedNext]_avars

-----------------------------------------------------------------------------

Oldest(d) == d \in Routed(routes)
             /\ \A e \in Routed(routes) \ {d} : <<d, e>> \in older

OldestGoes ==
  /\ Cardinality(Routed(routes)) = TableSize
  /\ call'.op = "add" /\ ~HasRoute(routes, call'.dest)
  => \A d \in Addr : Oldest(d) => ~HasRoute(routes', d)

\* A tidy table that is full gives up its oldest route, which is what
\* RF22Router.h:94 says of every table: addRouteTo() refills the slot right
\* behind the live ones, so they stand in order of age.
TidyTableRetiresOldest == [][tidy => OldestGoes]_avars
=============================================================================
