----------------------- MODULE RF22RoutingTableProofs -----------------------
(***************************************************************************)
(* Theorems about RF22RoutingTable for every table size and address space. *)
(***************************************************************************)
EXTENDS RF22RouteAge, FiniteSetTheorems, WellFoundedInduction, TLAPS

-----------------------------------------------------------------------------
(* What the updates return.                                                *)

\* A set of numbers that is not empty and has a bound has a least element.
LEMMA LeastElement ==
  ASSUME NEW N \in Nat, NEW S, S \subseteq 0 .. N, S # {}
  PROVE  \E m \in S : \A j \in S : m <= j
<1> DEFINE All == 0 .. N
           Segments == {0 .. i : i \in S}
<1>1. IsFiniteSet(All)
  BY FS_Interval
<1>2. Segments \subseteq SUBSET All /\ Segments # {}
  <2>1. ASSUME NEW i \in S
        PROVE  0 .. i \in SUBSET All
    OBVIOUS
  <2> QED BY <2>1
<1>3. PICK P \in Segments :
        \A Q \in Segments : ~ (<<Q, P>> \in StrictSubsetOrdering(All))
  <2>1. IsWellFoundedOn(StrictSubsetOrdering(All), SUBSET All)
    BY <1>1, FS_FiniteSubsetsOfFinite, FS_StrictSubsetOrderingWellFounded, Zenon
  <2> HIDE DEF Segments
  <2> QED BY <1>2, <2>1, WFMin, Zenon
<1>4. PICK m \in S : P = 0 .. m
  OBVIOUS
<1>5. ASSUME NEW j \in S, j < m
      PROVE  FALSE
  <2>1. 0 .. j \subseteq 0 .. m /\ 0 .. j # 0 .. m
    BY <1>5
  <2>2. <<0 .. j, P>> \in StrictSubsetOrdering(All)
    BY <1>2, <1>4, <2>1 DEF StrictSubsetOrdering
  <2> QED BY <1>3, <2>2
<1> QED BY <1>5

\* A scan from slot 0 upwards stops at the smallest slot it can stop at.
LEMMA ScanStopsAtFirst ==
  ASSUME NEW S, S \subseteq Slots, S # {}
  PROVE  /\ Min(S) \in S
         /\ \A j \in S : Min(S) <= j
<1>1. S \subseteq 0 .. TableSize /\ TableSize \in Nat
  BY TableSizeAssumption DEF Slots
<1>2. \E m \in S : \A j \in S : m <= j
  BY <1>1, LeastElement
<1> QED BY <1>2 DEF Min

\* deleteRoute() leaves a table whose first match for a destination is still
\* its route: entries keep their order and the last one becomes Invalid.
LEMMA DeleteRouteKeeps ==
  ASSUME NEW t \in Table, NEW k \in Slots
  PROVE  /\ DeleteRoute(t, k) \in Table
         /\ FirstMatchIsRoute(t) => FirstMatchIsRoute(DeleteRoute(t, k))
<1> USE TableSizeAssumption DEF Slots
<1>1. DeleteRoute(t, k) \in Table
  BY DEF DeleteRoute, Table, RoutingTableEntry, RouteState
<1>2. ASSUME FirstMatchIsRoute(t), NEW i \in Slots, NEW j \in Slots, i < j,
             DeleteRoute(t, k)[j].state # "Invalid"
      PROVE  DeleteRoute(t, k)[i].dest # DeleteRoute(t, k)[j].dest
  <2>1. j # TableSize
    BY <1>2 DEF DeleteRoute, Table, RoutingTableEntry
  <2>2. CASE j < k
    BY <1>2, <2>1, <2>2 DEF DeleteRoute, FirstMatchIsRoute
  <2>3. CASE k <= j
    <3>1. DeleteRoute(t, k)[j] = t[j + 1] /\ j + 1 \in Slots
      BY <1>2, <2>1, <2>3 DEF DeleteRoute
    <3>2. PICK i2 \in {i, i + 1} :
            i2 \in Slots /\ i2 < j + 1 /\ DeleteRoute(t, k)[i] = t[i2]
      BY <1>2, <2>1 DEF DeleteRoute
    <3> QED BY <1>2, <3>1, <3>2 DEF FirstMatchIsRoute
  <2> QED BY <2>2, <2>3
<1> QED BY <1>1, <1>2 DEF FirstMatchIsRoute

\* When no entry is Invalid, addRouteTo() drops the first one, moves the
\* others down and puts the new one last: FillFreeSlots fills one slot only.
LEMMA FullTableShifts ==
  ASSUME NEW t \in Table, FreeSlots(t) = {}, NEW e
  PROVE  FillFreeSlots(RetireOldestRoute(t), e) =
           [i \in Slots |-> IF i = TableSize THEN e ELSE t[i + 1]]
<1>1. ASSUME NEW i \in Slots
      PROVE  /\ i = TableSize => RetireOldestRoute(t)[i].state = "Invalid"
             /\ i # TableSize => /\ RetireOldestRoute(t)[i] = t[i + 1]
                                /\ t[i + 1].state # "Invalid"
  BY TableSizeAssumption
     DEF RetireOldestRoute, DeleteRoute, Slots, FreeSlots, Table, RoutingTableEntry
<1> QED BY <1>1 DEF FillFreeSlots

\* addRouteTo() returns a table whose first match is the route, whatever the
\* state of the entry it replaced.
LEMMA AddRouteToKeeps ==
  ASSUME NEW t \in Table, NEW d \in Addr, NEW n \in Addr, NEW s \in RouteState
  PROVE  /\ AddRouteTo(t, d, n, s) \in Table
         /\ FirstMatchIsRoute(t) => FirstMatchIsRoute(AddRouteTo(t, d, n, s))
<1> DEFINE e == [dest |-> d, next_hop |-> n, state |-> s]
           u == AddRouteTo(t, d, n, s)
<1>1. e \in RoutingTableEntry
  BY DEF RoutingTableEntry
<1>2. CASE SlotsOf(t, d) # {}
  <2> DEFINE m == Min(SlotsOf(t, d))
  <2>1. m \in Slots /\ t[m].dest = d /\ \A j \in SlotsOf(t, d) : m <= j
    BY <1>2, ScanStopsAtFirst, SlotsOf(t, d) \subseteq Slots DEF SlotsOf
  <2>2. u = [t EXCEPT ![m] = e]
    BY <1>2 DEF AddRouteTo
  <2>3. \A i \in Slots : u[i].dest = t[i].dest
    BY <2>1, <2>2 DEF Table
  <2>4. \A i \in Slots : i < m => t[i].dest # d
    BY <2>1, TableSizeAssumption DEF SlotsOf, Slots
  <2> HIDE DEF m
  <2> QED BY <1>1, <2>1, <2>2, <2>3, <2>4 DEF Table, FirstMatchIsRoute
<1>3. CASE SlotsOf(t, d) = {} /\ FreeSlots(t) # {}
  <2> DEFINE m == Min(FreeSlots(t))
  <2>1. m \in Slots
    BY <1>3, ScanStopsAtFirst, FreeSlots(t) \subseteq Slots DEF FreeSlots
  <2>2. u = [t EXCEPT ![m] = e]
    BY <1>3 DEF AddRouteTo
  <2> HIDE DEF m
  <2>3. u \in Table
    BY <1>1, <2>1, <2>2 DEF Table
  <2>4. ASSUME FirstMatchIsRoute(t), NEW i \in Slots, NEW j \in Slots, i < j,
               u[j].state # "Invalid"
        PROVE  u[i].dest # u[j].dest
    <3>1. \A k \in Slots : t[k].dest # d /\ u[k] = IF k = m THEN e ELSE t[k]
      BY <1>3, <2>1, <2>2 DEF SlotsOf, Table
    <3>2. i # j
      BY <2>4, TableSizeAssumption DEF Slots
    <3> QED BY <2>4, <3>1, <3>2 DEF FirstMatchIsRoute
  <2> QED BY <2>3, <2>4 DEF FirstMatchIsRoute
<1>4. CASE SlotsOf(t, d) = {} /\ FreeSlots(t) = {}
  <2>1. u = [i \in Slots |-> IF i = TableSize THEN e ELSE t[i + 1]]
    BY <1>4, FullTableShifts DEF AddRouteTo
  <2>2. u \in Table
    BY <1>1, <2>1, TableSizeAssumption DEF Table, Slots
  <2>3. ASSUME FirstMatchIsRoute(t), NEW i \in Slots, NEW j \in Slots, i < j,
               u[j].state # "Invalid"
        PROVE  u[i].dest # u[j].dest
    BY <1>4, <2>1, <2>3, TableSizeAssumption
       DEF Slots, SlotsOf, FirstMatchIsRoute
  <2> QED BY <2>2, <2>3 DEF FirstMatchIsRoute
<1> QED BY <1>2, <1>3, <1>4

-----------------------------------------------------------------------------
(* The table under every sequence of calls.                                *)

Inv == TypeOK /\ FirstMatchIsTheRoute

LEMMA InitInv == Init => Inv
BY DEF Init, Inv, TypeOK, FirstMatchIsTheRoute, FirstMatchIsRoute, Table,
       RoutingTableEntry, RouteState

LEMMA NextInv == Inv /\ [Next]_vars => Inv'
<1> SUFFICES ASSUME Inv, [Next]_vars
             PROVE  Inv'
  OBVIOUS
<1> USE DEF Inv, TypeOK, FirstMatchIsTheRoute
<1>1. ASSUME NEW d \in Addr, NEW n \in Addr, NEW s \in AddStates, Add(d, n, s)
      PROVE  Inv'
  BY <1>1, AddStatesAssumption, AddRouteToKeeps DEF Add
<1>2. ASSUME NEW d \in Addr, Delete(d)
      PROVE  Inv'
  <2>1. CASE SlotsOf(routes, d) = {}
    BY <1>2, <2>1 DEF Delete, DeleteRouteTo
  <2>2. CASE SlotsOf(routes, d) # {}
    <3>1. Min(SlotsOf(routes, d)) \in Slots
      BY <2>2, ScanStopsAtFirst, SlotsOf(routes, d) \subseteq Slots DEF SlotsOf
    <3> QED BY <1>2, <2>2, <3>1, DeleteRouteKeeps DEF Delete, DeleteRouteTo
  <2> QED BY <2>1, <2>2
<1>3. CASE Retire
  <2>1. 1 \in Slots
    BY TableSizeAssumption DEF Slots
  <2> QED BY <1>3, <2>1, DeleteRouteKeeps DEF Retire, RetireOldestRoute
<1>4. CASE Clear
  BY <1>4 DEF Clear, ClearRoutingTable, Table, RoutingTableEntry, RouteState,
              FirstMatchIsRoute
<1>5. CASE UNCHANGED vars
  BY <1>5 DEF vars
<1> QED BY <1>1, <1>2, <1>3, <1>4, <1>5 DEF Next

\* The table always holds entries of its type.
THEOREM TypeCorrect == Spec => []TypeOK
<1>1. Inv => TypeOK
  BY DEF Inv
<1> QED BY <1>1, InitInv, NextInv, PTL DEF Spec

\* The entry the scans of addRouteTo() and deleteRouteTo() stop at is always
\* the one getRouteTo() returns.
THEOREM FirstMatchCorrect == Spec => []FirstMatchIsTheRoute
<1>1. Inv => FirstMatchIsTheRoute
  BY DEF Inv
<1> QED BY <1>1, InitInv, NextInv, PTL DEF Spec

-----------------------------------------------------------------------------
(* The table implements RouteMap.  A function represents a table if it     *)
(* holds the destination and next hop of each live entry, and no others.   *)

Live(t, i) == t[i].state # "Invalid"

Represents(f, t) ==
  /\ f = [d \in DOMAIN f |-> f[d]]
  /\ DOMAIN f \subseteq Addr
  /\ \A i \in Slots : Live(t, i) => /\ t[i].dest \in DOMAIN f
                                    /\ f[t[i].dest] = t[i].next_hop
  /\ \A d \in DOMAIN f : \E i \in Slots : Live(t, i) /\ t[i].dest = d

\* getRouteTo() finds the live entry of a destination, whichever slot it is in.
LEMMA LiveEntryIsFound ==
  ASSUME NEW t \in Table, FirstMatchIsRoute(t), NEW i \in Slots, Live(t, i)
  PROVE  HasRoute(t, t[i].dest) /\ GetRouteTo(t, t[i].dest) = t[i]
<1>1. i \in RoutesTo(t, t[i].dest)
  BY DEF RoutesTo, SlotsOf, Live
<1>2. \A j \in RoutesTo(t, t[i].dest) : j = i
  BY TableSizeAssumption DEF RoutesTo, SlotsOf, Live, FirstMatchIsRoute, Slots
<1>3. RoutesTo(t, t[i].dest) \subseteq Slots
  BY DEF RoutesTo, SlotsOf
<1> QED BY <1>1, <1>2, <1>3, ScanStopsAtFirst DEF HasRoute, GetRouteTo

LEMMA MapRepresents ==
  ASSUME NEW t \in Table, FirstMatchIsRoute(t)
  PROVE  Represents(MapOf(t), t)
<1>1. \A d \in DOMAIN MapOf(t) : \E i \in Slots : Live(t, i) /\ t[i].dest = d
  BY DEF MapOf, HasRoute, RoutesTo, SlotsOf, Live
<1>2. \A i \in Slots : t[i].dest \in Addr
  BY DEF Table, RoutingTableEntry
<1> QED BY <1>1, <1>2, LiveEntryIsFound DEF Represents, MapOf

LEMMA RepresentsIsMap ==
  ASSUME NEW t \in Table, FirstMatchIsRoute(t), NEW f, Represents(f, t)
  PROVE  MapOf(t) = f
<1>1. Represents(MapOf(t), t)
  BY MapRepresents
<1>2. DOMAIN MapOf(t) = DOMAIN f
  BY <1>1 DEF Represents
<1>3. \A d \in DOMAIN f : MapOf(t)[d] = f[d]
  BY <1>1 DEF Represents
<1> QED BY <1>1, <1>2, <1>3 DEF Represents

\* The map of a table with an Invalid entry is smaller than the table.
LEMMA MapHasRoom ==
  ASSUME NEW t \in Table, FirstMatchIsRoute(t), NEW k \in Slots, ~Live(t, k)
  PROVE  Cardinality(DOMAIN MapOf(t)) < TableSize
<1> DEFINE S == Slots \ {k}
           D == DOMAIN MapOf(t)
           live == {i \in S : Live(t, i)}
           h == [i \in live |-> t[i].dest]
<1>1. IsFiniteSet(Slots) /\ Cardinality(Slots) = TableSize
  BY TableSizeAssumption, FS_Interval DEF Slots
<1>2. IsFiniteSet(S) /\ Cardinality(S) = TableSize - 1
  BY <1>1, FS_RemoveElement
<1>3. IsFiniteSet(live) /\ Cardinality(live) <= TableSize - 1
  BY <1>2, FS_Subset, live \subseteq S
<1>4. h \in Surjection(live, D)
  BY MapRepresents DEF Represents, Surjection
<1>5. Cardinality(D) <= Cardinality(live)
  BY <1>3, <1>4, FS_Surjection
<1>6. IsFiniteSet(D) /\ Cardinality(D) \in Nat /\ Cardinality(live) \in Nat
  BY <1>3, <1>4, FS_Surjection, FS_CardinalityType
<1> QED BY <1>3, <1>5, <1>6, TableSizeAssumption

\* The map of a table without one has as many routes as the table has slots.
LEMMA MapIsFull ==
  ASSUME NEW t \in Table, FirstMatchIsRoute(t), FreeSlots(t) = {}
  PROVE  Cardinality(DOMAIN MapOf(t)) = TableSize
<1> DEFINE D == DOMAIN MapOf(t)
           h == [i \in Slots |-> t[i].dest]
<1>1. IsFiniteSet(Slots) /\ Cardinality(Slots) = TableSize
  BY TableSizeAssumption, FS_Interval DEF Slots
<1>2. \A i \in Slots : Live(t, i)
  BY DEF FreeSlots, Live
<1>3. h \in Surjection(Slots, D)
  BY <1>2, MapRepresents DEF Represents, Surjection
<1>4. h \in Injection(Slots, D)
  <2>1. h \in [Slots -> D]
    BY <1>3 DEF Surjection
  <2>2. ASSUME NEW i \in Slots, NEW j \in Slots, h[i] = h[j]
        PROVE  i = j
    BY <1>2, <2>2, TableSizeAssumption DEF FirstMatchIsRoute, Live, Slots
  <2> QED BY <2>1, <2>2 DEF Injection, IsInjective
<1> QED BY <1>1, <1>3, <1>4, FS_Surjection

-----------------------------------------------------------------------------
(* What each update does to the map.                                       *)

\* Deleting a live entry takes its destination out of the map and changes
\* nothing else; deleting an Invalid one changes nothing.
LEMMA DeleteRouteMap ==
  ASSUME NEW t \in Table, FirstMatchIsRoute(t), NEW k \in Slots
  PROVE  MapOf(DeleteRoute(t, k)) =
           IF Live(t, k)
           THEN Restrict(MapOf(t), DOMAIN MapOf(t) \ {t[k].dest})
           ELSE MapOf(t)
<1> DEFINE u == DeleteRoute(t, k)
           M == MapOf(t)
           f == IF Live(t, k) THEN Restrict(M, DOMAIN M \ {t[k].dest}) ELSE M
<1>1. u \in Table /\ FirstMatchIsRoute(u)
  BY DeleteRouteKeeps
<1>2. Represents(M, t)
  BY MapRepresents
<1>3. \A i \in Slots : Live(u, i) => \E j \in Slots :
                          j # k /\ Live(t, j) /\ u[i] = t[j]
  BY TableSizeAssumption DEF Live, DeleteRoute, Slots, Table, RoutingTableEntry
<1>4. \A j \in Slots : j # k /\ Live(t, j) => \E i \in Slots :
                          Live(u, i) /\ u[i] = t[j]
  <2>1. ASSUME NEW j \in Slots, j < k, Live(t, j)
        PROVE  u[j] = t[j]
    BY <2>1, TableSizeAssumption DEF DeleteRoute, Slots
  <2>2. ASSUME NEW j \in Slots, k < j, Live(t, j)
        PROVE  j - 1 \in Slots /\ u[j - 1] = t[j]
    BY <2>2, TableSizeAssumption DEF DeleteRoute, Slots
  <2> QED BY <2>1, <2>2, TableSizeAssumption DEF Live, Slots
<1>5. \A j \in Slots : j # k /\ Live(t, j) /\ Live(t, k) => t[j].dest # t[k].dest
  BY TableSizeAssumption DEF Live, FirstMatchIsRoute, Slots
<1> HIDE DEF u, M
<1>6. CASE Live(t, k)
  <2>1. f = [x \in DOMAIN M \ {t[k].dest} |-> M[x]]
    BY <1>6 DEF Restrict
  <2> HIDE DEF f
  <2>2. DOMAIN f \subseteq Addr
    BY <1>2, <2>1 DEF Represents
  <2>3. \A i \in Slots : Live(u, i) => /\ u[i].dest \in DOMAIN f
                                       /\ f[u[i].dest] = u[i].next_hop
    BY <1>2, <1>3, <1>5, <1>6, <2>1 DEF Represents
  <2>4. \A x \in DOMAIN f : \E i \in Slots : Live(u, i) /\ u[i].dest = x
    <3>1. \A x \in DOMAIN f : \E j \in Slots : j # k /\ Live(t, j) /\ t[j].dest = x
      BY <1>2, <2>1 DEF Represents
    <3> QED BY <1>4, <3>1
  <2>5. Represents(f, u)
    BY <2>1, <2>2, <2>3, <2>4 DEF Represents
  <2> QED BY <1>1, <1>6, <2>5, RepresentsIsMap DEF u, M, f
<1>7. CASE ~Live(t, k)
  <2>1. Represents(M, u)
    BY <1>2, <1>3, <1>4, <1>7 DEF Represents
  <2> QED BY <1>1, <1>7, <2>1, RepresentsIsMap DEF u, M
<1> QED BY <1>6, <1>7

\* Forgetting d: what an Invalid entry added for d, or a deletion, does.
Without(f, d) == Restrict(f, DOMAIN f \ {d})

With(f, d, n) == [x \in DOMAIN f \cup {d} |-> IF x = d THEN n ELSE f[x]]

\* An entry is written over the first one with the same destination.
LEMMA UpdateMap ==
  ASSUME NEW t \in Table, FirstMatchIsRoute(t), NEW d \in Addr, NEW n \in Addr,
         NEW s \in RouteState, SlotsOf(t, d) # {}
  PROVE  MapOf(AddRouteTo(t, d, n, s)) =
           IF s = "Invalid" THEN Without(MapOf(t), d) ELSE With(MapOf(t), d, n)
<1> DEFINE u == AddRouteTo(t, d, n, s)
           M == MapOf(t)
           m == Min(SlotsOf(t, d))
           f == IF s = "Invalid" THEN Without(M, d) ELSE With(M, d, n)
<1>1. u \in Table /\ FirstMatchIsRoute(u)
  BY AddRouteToKeeps
<1>2. Represents(M, t)
  BY MapRepresents
<1>3. m \in Slots /\ t[m].dest = d /\ \A j \in SlotsOf(t, d) : m <= j
  BY ScanStopsAtFirst, SlotsOf(t, d) \subseteq Slots DEF SlotsOf
<1>4. u = [t EXCEPT ![m] = [dest |-> d, next_hop |-> n, state |-> s]]
  BY DEF AddRouteTo
<1>5. \A j \in Slots : Live(t, j) /\ j # m => t[j].dest # d
  BY <1>3, TableSizeAssumption DEF Live, FirstMatchIsRoute, Slots, SlotsOf
<1> HIDE DEF u, M, m
<1>6. \A j \in Slots : u[j] = IF j = m
                              THEN [dest |-> d, next_hop |-> n, state |-> s]
                              ELSE t[j]
  BY <1>3, <1>4 DEF Table
<1>7. CASE s = "Invalid"
  <2>1. f = [x \in DOMAIN M \ {d} |-> M[x]]
    BY <1>7 DEF Without, Restrict
  <2>2. Represents(f, u)
    BY <1>2, <1>3, <1>5, <1>6, <1>7, <2>1 DEF Represents, Live
  <2> QED BY <1>1, <2>2, RepresentsIsMap DEF u, M
<1>8. CASE s # "Invalid"
  <2>1. f = [x \in DOMAIN M \cup {d} |-> IF x = d THEN n ELSE M[x]]
    BY <1>8 DEF With
  <2>2. DOMAIN f \subseteq Addr
    BY <1>2, <2>1 DEF Represents
  <2>3. \A i \in Slots : Live(u, i) => /\ u[i].dest \in DOMAIN f
                                       /\ f[u[i].dest] = u[i].next_hop
    BY <1>2, <1>3, <1>5, <1>6, <2>1 DEF Represents, Live
  <2>4. \A x \in DOMAIN f : \E i \in Slots : Live(u, i) /\ u[i].dest = x
    BY <1>2, <1>3, <1>6, <1>8, <2>1 DEF Represents, Live
  <2>5. Represents(f, u)
    BY <2>1, <2>2, <2>3, <2>4 DEF Represents
  <2> QED BY <1>1, <2>5, RepresentsIsMap DEF u, M
<1> QED BY <1>7, <1>8

\* An entry for a new destination is written over an Invalid one.
LEMMA FillMap ==
  ASSUME NEW t \in Table, FirstMatchIsRoute(t), NEW d \in Addr, NEW n \in Addr,
         NEW s \in RouteState, SlotsOf(t, d) = {}, FreeSlots(t) # {}
  PROVE  MapOf(AddRouteTo(t, d, n, s)) =
           IF s = "Invalid" THEN Without(MapOf(t), d) ELSE With(MapOf(t), d, n)
<1> DEFINE u == AddRouteTo(t, d, n, s)
           M == MapOf(t)
           m == Min(FreeSlots(t))
           f == IF s = "Invalid" THEN Without(M, d) ELSE With(M, d, n)
<1>1. u \in Table /\ FirstMatchIsRoute(u)
  BY AddRouteToKeeps
<1>2. Represents(M, t)
  BY MapRepresents
<1>3. m \in Slots /\ ~Live(t, m)
  BY ScanStopsAtFirst, FreeSlots(t) \subseteq Slots DEF FreeSlots, Live
<1>4. u = [t EXCEPT ![m] = [dest |-> d, next_hop |-> n, state |-> s]]
  BY DEF AddRouteTo
<1>5. \A j \in Slots : t[j].dest # d
  BY DEF SlotsOf
<1> HIDE DEF u, M, m
<1>6. \A j \in Slots : u[j] = IF j = m
                              THEN [dest |-> d, next_hop |-> n, state |-> s]
                              ELSE t[j]
  BY <1>3, <1>4 DEF Table
<1>7. CASE s = "Invalid"
  <2>1. f = [x \in DOMAIN M \ {d} |-> M[x]]
    BY <1>7 DEF Without, Restrict
  <2>2. Represents(f, u)
    BY <1>2, <1>3, <1>5, <1>6, <1>7, <2>1 DEF Represents, Live
  <2> QED BY <1>1, <2>2, RepresentsIsMap DEF u, M
<1>8. CASE s # "Invalid"
  <2>1. f = [x \in DOMAIN M \cup {d} |-> IF x = d THEN n ELSE M[x]]
    BY <1>8 DEF With
  <2>2. DOMAIN f \subseteq Addr
    BY <1>2, <2>1 DEF Represents
  <2>3. \A i \in Slots : Live(u, i) => /\ u[i].dest \in DOMAIN f
                                       /\ f[u[i].dest] = u[i].next_hop
    BY <1>2, <1>3, <1>5, <1>6, <2>1 DEF Represents, Live
  <2>4. \A x \in DOMAIN f : \E i \in Slots : Live(u, i) /\ u[i].dest = x
    <3>1. \A x \in DOMAIN M : \E i \in Slots : i # m /\ Live(t, i) /\ t[i].dest = x
      BY <1>2, <1>3 DEF Represents
    <3>2. \A x \in DOMAIN M : \E i \in Slots : Live(u, i) /\ u[i].dest = x
      BY <1>6, <3>1 DEF Live
    <3>3. Live(u, m) /\ u[m].dest = d
      BY <1>3, <1>6, <1>8 DEF Live
    <3> QED BY <1>3, <2>1, <3>2, <3>3
  <2>5. Represents(f, u)
    BY <2>1, <2>2, <2>3, <2>4 DEF Represents
  <2> QED BY <1>1, <2>5, RepresentsIsMap DEF u, M
<1> QED BY <1>7, <1>8

\* An entry for a new destination takes the place of the oldest in a table
\* without Invalid entries.
LEMMA EvictMap ==
  ASSUME NEW t \in Table, FirstMatchIsRoute(t), NEW d \in Addr, NEW n \in Addr,
         NEW s \in RouteState, SlotsOf(t, d) = {}, FreeSlots(t) = {}
  PROVE  LET kept == Without(MapOf(t), t[1].dest)
         IN  MapOf(AddRouteTo(t, d, n, s)) =
               IF s = "Invalid" THEN kept ELSE With(kept, d, n)
<1> DEFINE u == AddRouteTo(t, d, n, s)
           M == MapOf(t)
           kept == Without(M, t[1].dest)
           f == IF s = "Invalid" THEN kept ELSE With(kept, d, n)
           e == [dest |-> d, next_hop |-> n, state |-> s]
<1>1. u \in Table /\ FirstMatchIsRoute(u)
  BY AddRouteToKeeps
<1>2. Represents(M, t)
  BY MapRepresents
<1>3. u = [i \in Slots |-> IF i = TableSize THEN e ELSE t[i + 1]]
  BY FullTableShifts DEF AddRouteTo
<1>4. \A j \in Slots : Live(t, j) /\ t[j].dest # d
  BY DEF SlotsOf, FreeSlots, Live
<1>5. \A j \in Slots : j # 1 => t[j].dest # t[1].dest
  BY <1>4, TableSizeAssumption DEF Live, FirstMatchIsRoute, Slots
<1>6. \A i \in Slots : i # TableSize =>
        \E j \in Slots : j # 1 /\ u[i] = t[j]
  BY <1>3, TableSizeAssumption DEF Slots
<1>7. \A j \in Slots : j # 1 =>
        \E i \in Slots : i # TableSize /\ u[i] = t[j]
  <2>1. ASSUME NEW j \in Slots, j # 1
        PROVE  j - 1 \in Slots /\ j - 1 # TableSize /\ u[j - 1] = t[j]
    BY <1>3, <2>1, TableSizeAssumption DEF Slots
  <2> QED BY <2>1
<1>8. u[TableSize] = e /\ TableSize \in Slots /\ 1 \in Slots
  BY <1>3, TableSizeAssumption DEF Slots
<1>9. kept = [x \in DOMAIN M \ {t[1].dest} |-> M[x]]
  BY DEF Without, Restrict
<1>10. /\ DOMAIN kept \subseteq Addr
       /\ \A j \in Slots : j # 1 => /\ t[j].dest \in DOMAIN kept
                                   /\ kept[t[j].dest] = t[j].next_hop
       /\ \A x \in DOMAIN kept : \E j \in Slots : j # 1 /\ t[j].dest = x
  BY <1>2, <1>4, <1>5, <1>9 DEF Represents
<1> HIDE DEF u, M, kept
<1>11. CASE s = "Invalid"
  <2>1. \A i \in Slots : Live(u, i) => \E j \in Slots : j # 1 /\ u[i] = t[j]
    BY <1>6, <1>8, <1>11 DEF Live
  <2>2. \A x \in DOMAIN kept : \E i \in Slots : Live(u, i) /\ u[i].dest = x
    <3>1. \A i, j \in Slots : u[i] = t[j] => Live(u, i)
      BY <1>4 DEF Live
    <3> QED BY <1>7, <1>10, <3>1
  <2>3. kept = [x \in DOMAIN kept |-> kept[x]]
    BY <1>9
  <2>4. \A i \in Slots : Live(u, i) => /\ u[i].dest \in DOMAIN kept
                                       /\ kept[u[i].dest] = u[i].next_hop
    BY <1>10, <2>1
  <2>5. Represents(kept, u)
    BY <1>10, <2>2, <2>3, <2>4 DEF Represents
  <2> QED BY <1>1, <1>11, <2>5, RepresentsIsMap DEF u, kept, M
<1>12. CASE s # "Invalid"
  <2>1. f = [x \in DOMAIN kept \cup {d} |-> IF x = d THEN n ELSE kept[x]]
    BY <1>12 DEF With
  <2> HIDE DEF f
  <2>2. \A i \in Slots : Live(u, i) => /\ u[i].dest \in DOMAIN f
                                       /\ f[u[i].dest] = u[i].next_hop
    BY <1>4, <1>6, <1>8, <1>10, <2>1
  <2>3. \A x \in DOMAIN f : \E i \in Slots : Live(u, i) /\ u[i].dest = x
    BY <1>4, <1>7, <1>8, <1>10, <1>12, <2>1 DEF Live
  <2>4. Represents(f, u)
    BY <1>10, <2>1, <2>2, <2>3 DEF Represents
  <2> QED BY <1>1, <1>12, <2>4, RepresentsIsMap DEF u, kept, M, f
<1> QED BY <1>11, <1>12

-----------------------------------------------------------------------------
(* The refinement.                                                         *)

\* RouteMap counts and restricts with its own copies of the library operators.
LEMMA SameOperators ==
  /\ \A S : RM!Cardinality(S) = Cardinality(S)
  /\ \A f, S : RM!Restrict(f, S) = Restrict(f, S)
<1>1. \A S : RM!Cardinality(S) = Cardinality(S)
  BY DEF Cardinality, RM!Cardinality
<1>2. \A f, S : RM!Restrict(f, S) = Restrict(f, S)
  BY DEF Restrict, RM!Restrict
<1> QED BY <1>1, <1>2

LEMMA InitIsRouteMapInit == Init => RM!Init
<1> SUFFICES ASSUME Init PROVE RM!Init
  OBVIOUS
<1>1. DOMAIN Map = {}
  BY DEF Init, Map, MapOf, HasRoute, RoutesTo, SlotsOf
<1>2. Map = [d \in {} |-> d]
  BY <1>1 DEF Map, MapOf
<1> QED BY <1>2 DEF Init, RM!Init

\* A call of addRouteTo() is Put, or Forget or ForgetWhenFull if Invalid.
LEMMA AddIsRouteMapStep ==
  ASSUME Inv, NEW d \in Addr, NEW n \in Addr, NEW s \in AddStates, Add(d, n, s)
  PROVE  RM!Put(d, n) \/ RM!Forget(d) \/ RM!ForgetWhenFull(d)
<1> DEFINE M == MapOf(routes)
           new == MapOf(routes')
<1>1. routes \in Table /\ FirstMatchIsRoute(routes) /\ s \in RouteState
  BY AddStatesAssumption DEF Inv, TypeOK, FirstMatchIsTheRoute
<1>2. routes' = AddRouteTo(routes, d, n, s) /\ call' = AddCall(d, n, s)
  BY DEF Add
<1>3. Represents(M, routes)
  BY <1>1, MapRepresents
<1>4. Map = M /\ Map' = new
  BY DEF Map
<1> HIDE DEF M, new
<1>5. CASE ~(SlotsOf(routes, d) = {} /\ FreeSlots(routes) = {})
  <2>1. new = IF s = "Invalid" THEN Without(M, d) ELSE With(M, d, n)
    BY <1>1, <1>2, <1>5, UpdateMap, FillMap DEF M, new
  <2>2. CASE s = "Invalid"
    BY <1>2, <1>4, <2>1, <2>2, SameOperators DEF RM!Forget, AddCall, Without
  <2>3. CASE s # "Invalid"
    <3>1. d \in DOMAIN M \/ Cardinality(DOMAIN M) < TableSize
      <4>1. CASE \E k \in Slots : ~Live(routes, k)
        BY <1>1, <4>1, MapHasRoom DEF M
      <4>2. CASE \A k \in Slots : Live(routes, k)
        BY <1>3, <1>5, <4>2 DEF Represents, SlotsOf, FreeSlots, Live
      <4> QED BY <4>1, <4>2
    <3> QED BY <1>2, <1>4, <2>1, <2>3, <3>1, SameOperators
           DEF RM!Put, AddCall, With
  <2> QED BY <2>2, <2>3
<1>6. CASE SlotsOf(routes, d) = {} /\ FreeSlots(routes) = {}
  <2> DEFINE old == routes[1].dest
  <2>1. new = IF s = "Invalid" THEN Without(M, old) ELSE With(Without(M, old), d, n)
    BY <1>1, <1>2, <1>6, EvictMap DEF M, new
  <2>2. Cardinality(DOMAIN M) = TableSize
    BY <1>1, <1>6, MapIsFull DEF M
  <2>3. d \notin DOMAIN M
    BY <1>3, <1>6 DEF Represents, SlotsOf
  <2>4. old \in DOMAIN M
    BY <1>3, <1>6, TableSizeAssumption DEF Represents, FreeSlots, Live, Slots
  <2> HIDE DEF old
  <2>5. CASE s = "Invalid"
    BY <1>2, <1>4, <2>1, <2>2, <2>3, <2>4, <2>5, SameOperators
       DEF RM!ForgetWhenFull, AddCall, Without
  <2>6. CASE s # "Invalid"
    <3>1. new = [x \in (DOMAIN M \ {old}) \cup {d} |-> IF x = d THEN n ELSE M[x]]
      BY <2>1, <2>6 DEF With, Without, Restrict
    <3> QED BY <1>2, <1>4, <2>2, <2>3, <2>4, <2>6, <3>1, SameOperators
           DEF RM!Put, AddCall
  <2> QED BY <2>5, <2>6
<1> QED BY <1>5, <1>6

\* A call of deleteRouteTo() is Forget.
LEMMA DeleteIsRouteMapStep ==
  ASSUME Inv, NEW d \in Addr, Delete(d)
  PROVE  RM!Forget(d)
<1> DEFINE M == MapOf(routes)
           new == MapOf(routes')
           m == Min(SlotsOf(routes, d))
<1>1. routes \in Table /\ FirstMatchIsRoute(routes)
  BY DEF Inv, TypeOK, FirstMatchIsTheRoute
<1>2. /\ routes' = DeleteRouteTo(routes, d)
      /\ call' = [op |-> "delete", dest |-> d, ret |-> SlotsOf(routes, d) # {}]
  BY DEF Delete
<1>3. Represents(M, routes)
  BY <1>1, MapRepresents
<1>4. Map = M /\ Map' = new
  BY DEF Map
<1>5. d \in DOMAIN M => SlotsOf(routes, d) # {}
  BY <1>3 DEF Represents, SlotsOf
<1>6. new = Restrict(M, DOMAIN M \ {d})
  <2>1. CASE d \notin DOMAIN M /\ new = M
    BY <1>3, <2>1 DEF Represents, Restrict
  <2>2. CASE SlotsOf(routes, d) = {}
    BY <1>2, <1>5, <2>1, <2>2 DEF DeleteRouteTo
  <2>3. CASE SlotsOf(routes, d) # {}
    <3>1. m \in Slots /\ routes[m].dest = d /\ \A j \in SlotsOf(routes, d) : m <= j
      BY <2>3, ScanStopsAtFirst, SlotsOf(routes, d) \subseteq Slots DEF SlotsOf
    <3>2. new = IF Live(routes, m) THEN Restrict(M, DOMAIN M \ {d}) ELSE M
      BY <1>1, <1>2, <2>3, <3>1, DeleteRouteMap DEF DeleteRouteTo
    <3>3. ~Live(routes, m) => d \notin DOMAIN M
      <4>1. ASSUME NEW j \in Slots, Live(routes, j), routes[j].dest = d,
                   ~Live(routes, m)
            PROVE  FALSE
        <5>1. m < j
          BY <3>1, <4>1, TableSizeAssumption DEF SlotsOf, Slots
        <5> HIDE DEF m
        <5> QED BY <1>1, <3>1, <4>1, <5>1 DEF FirstMatchIsRoute, Live
      <4> QED BY <1>3, <4>1 DEF Represents
    <3> QED BY <2>1, <3>2, <3>3
  <2> QED BY <2>2, <2>3
<1> QED BY <1>2, <1>4, <1>5, <1>6, SameOperators DEF RM!Forget

LEMMA RetireIsRouteMapStep ==
  ASSUME Inv, Retire
  PROVE  RM!Retire
<1>1. routes \in Table /\ FirstMatchIsRoute(routes) /\ 1 \in Slots
  BY TableSizeAssumption DEF Inv, TypeOK, FirstMatchIsTheRoute, Slots
<1>2. MapOf(routes') = IF Live(routes, 1)
                       THEN Restrict(MapOf(routes),
                                     DOMAIN MapOf(routes) \ {routes[1].dest})
                       ELSE MapOf(routes)
  BY <1>1, DeleteRouteMap DEF Retire, RetireOldestRoute
<1>3. Live(routes, 1) => routes[1].dest \in DOMAIN MapOf(routes)
  BY <1>1, MapRepresents DEF Represents
<1> QED BY <1>2, <1>3, SameOperators DEF Retire, RM!Retire, Map

LEMMA ClearIsRouteMapStep ==
  ASSUME Inv, Clear
  PROVE  RM!Clear
<1>1. \A i \in Slots : routes'[i].state = "Invalid"
  BY DEF Inv, TypeOK, Clear, ClearRoutingTable, Table, RoutingTableEntry
<1>2. DOMAIN MapOf(routes') = {}
  BY <1>1 DEF MapOf, HasRoute, RoutesTo, SlotsOf
<1>3. MapOf(routes') = [d \in {} |-> d]
  BY <1>2 DEF MapOf
<1> QED BY <1>3 DEF Clear, RM!Clear, Map

\* The routing table implements the bounded map: an added route is the one
\* found afterwards, a deleted one is gone, and a route is lost to another
\* destination only when every entry of the table holds one.
THEOREM RouteMapCorrect == Spec => IsARouteMap
<1>1. ASSUME Inv, [Next]_vars
      PROVE  [RM!Next]_<<Map, call>>
  <2>1. ASSUME NEW d \in Addr, NEW n \in Addr, NEW s \in AddStates, Add(d, n, s)
        PROVE  RM!Next
    BY <1>1, <2>1, AddIsRouteMapStep DEF RM!Next
  <2>2. ASSUME NEW d \in Addr, Delete(d)
        PROVE  RM!Next
    BY <1>1, <2>2, DeleteIsRouteMapStep DEF RM!Next
  <2>3. CASE Retire
    BY <1>1, <2>3, RetireIsRouteMapStep DEF RM!Next
  <2>4. CASE Clear
    BY <1>1, <2>4, ClearIsRouteMapStep DEF RM!Next
  <2>5. CASE UNCHANGED vars
    BY <2>5 DEF vars, Map
  <2> QED BY <1>1, <2>1, <2>2, <2>3, <2>4, <2>5 DEF Next
<1> QED BY <1>1, InitInv, NextInv, InitIsRouteMapInit, PTL
        DEF Spec, IsARouteMap, RM!Spec
-----------------------------------------------------------------------------
(* The order of the routes.  In a tidy table the live entries are the first *)
(* ones and stand in order of age, and the others are all for the same      *)
(* destination: whichever way addRouteTo() finds a free entry, it is the    *)
(* one right behind the live ones.                                          *)

Compact(t) == \A i, j \in Slots : i < j /\ Live(t, j) => Live(t, i)

OneRest(t) == \A i, j \in Slots : ~Live(t, i) /\ ~Live(t, j)
                                    => t[i].dest = t[j].dest

InOrder(t, pairs) ==
  \A i, j \in Slots : Live(t, i) /\ Live(t, j) =>
    (<<t[i].dest, t[j].dest>> \in pairs <=> i < j)

Tidied(t, pairs) ==
  /\ Compact(t) /\ OneRest(t) /\ InOrder(t, pairs)
  /\ pairs \subseteq Routed(t) \X Routed(t)

LEMMA RoutedIs ==
  ASSUME NEW t \in Table
  PROVE  /\ \A i \in Slots : Live(t, i) => t[i].dest \in Routed(t)
         /\ \A d \in Routed(t) : \E i \in Slots : Live(t, i) /\ t[i].dest = d
BY DEF Routed, HasRoute, RoutesTo, SlotsOf, Live, Table, RoutingTableEntry

LEMMA AgedIs ==
  ASSUME NEW t, NEW u, NEW pairs, NEW d, NEW e
  PROVE  /\ <<d, e>> \in Aged(t, u, pairs)
              <=> \/ <<d, e>> \in pairs /\ d \in Routed(u) /\ e \in Routed(u)
                  \/ /\ d \in Routed(t) /\ d \in Routed(u)
                     /\ e \in Routed(u) /\ e \notin Routed(t)
         /\ Aged(t, u, pairs) \subseteq Routed(u) \X Routed(u)
BY DEF Aged

\* Entries that move up by one keep their order.
LEMMA DeleteTidies ==
  ASSUME NEW t \in Table, NEW pairs, Tidied(t, pairs), NEW k \in Slots
  PROVE  Tidied(DeleteRoute(t, k), Aged(t, DeleteRoute(t, k), pairs))
<1> DEFINE u == DeleteRoute(t, k)
<1> USE TableSizeAssumption DEF Slots
<1>1. u \in Table
  BY DeleteRouteKeeps
<1>2. ~Live(u, TableSize) /\ u[TableSize].dest = t[TableSize].dest
  BY DEF DeleteRoute, Live, Table, RoutingTableEntry
<1>3. ASSUME NEW i \in Slots, i # TableSize
      PROVE  IF i < k THEN u[i] = t[i] ELSE i + 1 \in Slots /\ u[i] = t[i + 1]
  BY <1>3 DEF DeleteRoute
<1> HIDE DEF u
<1>4. Compact(u)
  <2> SUFFICES ASSUME NEW i \in Slots, NEW j \in Slots, i < j, Live(u, j)
               PROVE  Live(u, i)
    BY DEF Compact
  <2>1. i # TableSize /\ j # TableSize
    BY <1>2
  <2>2. PICK v \in {i, i + 1}, w \in {j, j + 1} :
          v \in Slots /\ w \in Slots /\ v < w /\ u[i] = t[v] /\ u[j] = t[w]
    BY <1>3, <2>1
  <2> QED BY <2>2 DEF Tidied, Compact, Live
<1>5. OneRest(u)
  <2> SUFFICES ASSUME NEW i \in Slots, NEW j \in Slots, ~Live(u, i), ~Live(u, j)
               PROVE  u[i].dest = u[j].dest
    BY DEF OneRest
  <2>1. CASE Live(t, TableSize)
    <3>1. \A v \in Slots : Live(t, v)
      BY <2>1 DEF Tidied, Compact
    <3>2. i = TableSize /\ j = TableSize
      BY <1>3, <3>1 DEF Live
    <3> QED BY <3>2
  <2>2. CASE ~Live(t, TableSize)
    <3>1. ASSUME NEW x \in Slots, ~Live(u, x)
          PROVE  u[x].dest = t[TableSize].dest
      <4>1. PICK v \in Slots : ~Live(t, v) /\ u[x].dest = t[v].dest
        BY <1>2, <1>3, <2>2, <3>1 DEF Live
      <4> QED BY <2>2, <4>1 DEF Tidied, OneRest
    <3> QED BY <3>1
  <2> QED BY <2>1, <2>2
<1>6. InOrder(u, Aged(t, u, pairs))
  <2> SUFFICES ASSUME NEW i \in Slots, NEW j \in Slots, Live(u, i), Live(u, j)
               PROVE  <<u[i].dest, u[j].dest>> \in Aged(t, u, pairs) <=> i < j
    BY DEF InOrder
  <2>1. i # TableSize /\ j # TableSize
    BY <1>2
  <2>2. PICK v \in Slots, w \in Slots :
          u[i] = t[v] /\ u[j] = t[w] /\ (v < w <=> i < j)
    BY <1>3, <2>1
  <2>3. Live(t, v) /\ Live(t, w)
    BY <2>2 DEF Live
  <2>4. /\ <<t[v].dest, t[w].dest>> \in pairs <=> v < w
        /\ t[w].dest \in Routed(t)
    BY <2>3, RoutedIs DEF Tidied, InOrder
  <2>5. u[i].dest \in Routed(u) /\ u[j].dest \in Routed(u)
    BY <1>1, RoutedIs
  <2> QED BY <2>2, <2>4, <2>5, AgedIs
<1> QED BY <1>4, <1>5, <1>6, AgedIs DEF Tidied, u

\* An entry that is written over the first free one is behind all others.
LEMMA FillTidies ==
  ASSUME NEW t \in Table, NEW pairs, Tidied(t, pairs), FirstMatchIsRoute(t),
         NEW e \in RoutingTableEntry, e.state # "Invalid",
         e.dest \notin Routed(t), NEW m \in Slots, ~Live(t, m),
         \A i \in Slots : i < m => Live(t, i)
  PROVE  Tidied([t EXCEPT ![m] = e], Aged(t, [t EXCEPT ![m] = e], pairs))
<1> DEFINE u == [t EXCEPT ![m] = e]
<1> USE TableSizeAssumption DEF Slots
<1>1. u \in Table
  BY DEF Table
<1>2. \A i \in Slots : u[i] = IF i = m THEN e ELSE t[i]
  BY DEF Table
<1> HIDE DEF u
<1>3. \A i \in Slots : Live(u, i) <=> i = m \/ Live(t, i)
  BY <1>2 DEF Live
<1>4. \A i \in Slots : Live(t, i) <=> i < m
  BY DEF Tidied, Compact
<1>5. Compact(u)
  BY <1>3, <1>4 DEF Compact
<1>6. OneRest(u)
  BY <1>2, <1>3 DEF Tidied, OneRest
<1>7. InOrder(u, Aged(t, u, pairs))
  <2> SUFFICES ASSUME NEW i \in Slots, NEW j \in Slots, Live(u, i), Live(u, j)
               PROVE  <<u[i].dest, u[j].dest>> \in Aged(t, u, pairs) <=> i < j
    BY DEF InOrder
  <2>1. u[i].dest \in Routed(u) /\ u[j].dest \in Routed(u)
    BY <1>1, RoutedIs
  <2>2. pairs \subseteq Routed(t) \X Routed(t)
    BY DEF Tidied
  <2>3. CASE i # m /\ j # m
    <3>1. u[i] = t[i] /\ u[j] = t[j] /\ Live(t, i) /\ Live(t, j)
      BY <1>2, <1>3, <2>3
    <3>2. /\ <<t[i].dest, t[j].dest>> \in pairs <=> i < j
          /\ t[j].dest \in Routed(t)
      BY <3>1, RoutedIs DEF Tidied, InOrder
    <3> QED BY <2>1, <3>1, <3>2, AgedIs
  <2>4. CASE i # m /\ j = m
    <3>1. u[i] = t[i] /\ u[j] = e /\ i < j
      BY <1>2, <1>3, <1>4, <2>4
    <3>2. u[i].dest \in Routed(t)
      BY <1>3, <2>4, <3>1, RoutedIs
    <3> QED BY <2>1, <3>1, <3>2, AgedIs
  <2>5. CASE i = m
    <3>1. u[i].dest \notin Routed(t) /\ ~(i < j)
      BY <1>2, <1>3, <1>4, <2>5
    <3> QED BY <2>2, <3>1, AgedIs
  <2> QED BY <2>3, <2>4, <2>5
<1> QED BY <1>5, <1>6, <1>7, AgedIs DEF Tidied, u
\* A route that is added again keeps its place and its age.
LEMMA UpdateTidies ==
  ASSUME NEW t \in Table, NEW pairs, Tidied(t, pairs),
         NEW e \in RoutingTableEntry, e.state # "Invalid", NEW m \in Slots,
         Live(t, m), t[m].dest = e.dest
  PROVE  Tidied([t EXCEPT ![m] = e], Aged(t, [t EXCEPT ![m] = e], pairs))
<1> DEFINE u == [t EXCEPT ![m] = e]
<1>1. u \in Table
  BY DEF Table
<1>2. \A i \in Slots : u[i].dest = t[i].dest /\ (Live(u, i) <=> Live(t, i))
  BY DEF Table, Live
<1> HIDE DEF u
<1>3. Compact(u) /\ OneRest(u)
  BY <1>2 DEF Tidied, Compact, OneRest
<1>4. InOrder(u, Aged(t, u, pairs))
  <2> SUFFICES ASSUME NEW i \in Slots, NEW j \in Slots, Live(u, i), Live(u, j)
               PROVE  <<u[i].dest, u[j].dest>> \in Aged(t, u, pairs) <=> i < j
    BY DEF InOrder
  <2>1. u[i].dest \in Routed(u) /\ u[j].dest \in Routed(u)
    BY <1>1, RoutedIs
  <2>2. /\ <<u[i].dest, u[j].dest>> \in pairs <=> i < j
        /\ u[j].dest \in Routed(t)
    BY <1>2, RoutedIs DEF Tidied, InOrder
  <2> QED BY <2>1, <2>2, AgedIs
<1> QED BY <1>3, <1>4, AgedIs DEF Tidied, u

\* In a full table the first entry goes, the others move up, the new one is
\* the last.
LEMMA EvictTidies ==
  ASSUME NEW t \in Table, NEW pairs, Tidied(t, pairs), FreeSlots(t) = {},
         NEW e \in RoutingTableEntry, e.state # "Invalid",
         e.dest \notin Routed(t)
  PROVE  LET u == FillFreeSlots(RetireOldestRoute(t), e)
         IN  Tidied(u, Aged(t, u, pairs))
<1> DEFINE u == FillFreeSlots(RetireOldestRoute(t), e)
<1> USE TableSizeAssumption DEF Slots
<1>1. u = [i \in Slots |-> IF i = TableSize THEN e ELSE t[i + 1]]
  BY FullTableShifts
<1>2. u \in Table
  BY <1>1 DEF Table
<1>3. \A i \in Slots : Live(t, i)
  BY DEF FreeSlots, Live
<1> HIDE DEF u
<1>4. \A i \in Slots : Live(u, i)
  BY <1>1, <1>3 DEF Live
<1>5. Compact(u) /\ OneRest(u)
  BY <1>4 DEF Compact, OneRest
<1>6. InOrder(u, Aged(t, u, pairs))
  <2> SUFFICES ASSUME NEW i \in Slots, NEW j \in Slots
               PROVE  <<u[i].dest, u[j].dest>> \in Aged(t, u, pairs) <=> i < j
    BY DEF InOrder
  <2>1. u[i].dest \in Routed(u) /\ u[j].dest \in Routed(u)
    BY <1>2, <1>4, RoutedIs
  <2>2. CASE i # TableSize /\ j # TableSize
    <3>1. PICK v \in Slots, w \in Slots :
            u[i] = t[v] /\ u[j] = t[w] /\ (v < w <=> i < j)
      BY <1>1, <2>2
    <3>2. /\ <<t[v].dest, t[w].dest>> \in pairs <=> v < w
          /\ t[w].dest \in Routed(t)
      BY <1>3, RoutedIs DEF Tidied, InOrder
    <3> QED BY <2>1, <3>1, <3>2, AgedIs
  <2>3. CASE i # TableSize /\ j = TableSize
    <3>1. PICK v \in Slots : u[i] = t[v] /\ u[j] = e /\ i < j
      BY <1>1, <2>3
    <3>2. t[v].dest \in Routed(t)
      BY <1>3, RoutedIs
    <3> QED BY <2>1, <3>1, <3>2, AgedIs
  <2>4. CASE i = TableSize
    <3>1. u[i] = e /\ ~(i < j)
      BY <1>1, <2>4
    <3>2. u[i].dest \notin Routed(t)
      BY <3>1
    <3>3. <<u[i].dest, u[j].dest>> \notin pairs
      BY <3>2 DEF Tidied
    <3> QED BY <3>1, <3>2, <3>3, AgedIs
  <2> QED BY <2>2, <2>3, <2>4
<1> QED BY <1>5, <1>6, AgedIs DEF Tidied, u

LEMMA AddTidies ==
  ASSUME NEW t \in Table, FirstMatchIsRoute(t), NEW pairs, Tidied(t, pairs),
         NEW d \in Addr, NEW n \in Addr, NEW s \in RouteState, s # "Invalid"
  PROVE  Tidied(AddRouteTo(t, d, n, s), Aged(t, AddRouteTo(t, d, n, s), pairs))
<1> DEFINE e == [dest |-> d, next_hop |-> n, state |-> s]
<1>1. e \in RoutingTableEntry /\ e.state # "Invalid" /\ e.dest = d
  BY DEF RoutingTableEntry
<1> USE TableSizeAssumption DEF Slots
<1>2. CASE SlotsOf(t, d) # {}
  <2> DEFINE m == Min(SlotsOf(t, d))
  <2>1. m \in Slots /\ t[m].dest = d /\ \A j \in SlotsOf(t, d) : m <= j
    BY <1>2, ScanStopsAtFirst, SlotsOf(t, d) \subseteq Slots DEF SlotsOf
  <2>2. AddRouteTo(t, d, n, s) = [t EXCEPT ![m] = e]
    BY <1>2 DEF AddRouteTo
  <2> HIDE DEF m, e
  <2>3. CASE Live(t, m)
    <3>1. e \in RoutingTableEntry /\ e.state # "Invalid" /\ t[m].dest = e.dest
      BY <1>1, <2>1
    <3>2. Tidied([t EXCEPT ![m] = e], Aged(t, [t EXCEPT ![m] = e], pairs))
      BY <2>1, <2>3, <3>1, UpdateTidies
    <3> QED BY <2>2, <3>2
  <2>4. CASE ~Live(t, m)
    <3>1. \A i \in Slots : i < m => t[i].dest # d
      BY <2>1 DEF SlotsOf
    <3>2. \A i \in Slots : i < m => Live(t, i)
      BY <2>1, <2>4, <3>1 DEF Tidied, OneRest
    <3>3. d \notin Routed(t)
      <4>1. \A i \in Slots : Live(t, i) => t[i].dest # d
        BY <2>1, <2>4 DEF SlotsOf, FirstMatchIsRoute, Live
      <4> QED BY <4>1, RoutedIs
    <3>4. e \in RoutingTableEntry /\ e.state # "Invalid" /\ e.dest \notin Routed(t)
      BY <1>1, <3>3
    <3>5. Tidied([t EXCEPT ![m] = e], Aged(t, [t EXCEPT ![m] = e], pairs))
      BY <2>1, <2>4, <3>2, <3>4, FillTidies
    <3> QED BY <2>2, <3>5
  <2> QED BY <2>3, <2>4
<1>3. ASSUME SlotsOf(t, d) = {} PROVE d \notin Routed(t)
  BY <1>3, RoutedIs DEF SlotsOf
<1>4. CASE SlotsOf(t, d) = {} /\ FreeSlots(t) # {}
  <2> DEFINE m == Min(FreeSlots(t))
  <2>1. /\ m \in Slots /\ ~Live(t, m)
        /\ \A j \in FreeSlots(t) : m <= j
    BY <1>4, ScanStopsAtFirst, FreeSlots(t) \subseteq Slots DEF FreeSlots, Live
  <2>2. AddRouteTo(t, d, n, s) = [t EXCEPT ![m] = e]
    BY <1>4 DEF AddRouteTo
  <2> HIDE DEF m, e
  <2>3. \A i \in Slots : i < m => Live(t, i)
    BY <2>1 DEF FreeSlots, Live
  <2>4. e \in RoutingTableEntry /\ e.state # "Invalid" /\ e.dest \notin Routed(t)
    BY <1>1, <1>3, <1>4
  <2>5. Tidied([t EXCEPT ![m] = e], Aged(t, [t EXCEPT ![m] = e], pairs))
    BY <2>1, <2>3, <2>4, FillTidies
  <2> QED BY <2>2, <2>5
<1>5. CASE SlotsOf(t, d) = {} /\ FreeSlots(t) = {}
  <2>1. AddRouteTo(t, d, n, s) = FillFreeSlots(RetireOldestRoute(t), e)
    BY <1>5 DEF AddRouteTo
  <2> HIDE DEF e
  <2> QED BY <1>1, <1>3, <1>5, <2>1, EvictTidies
<1> QED BY <1>2, <1>4, <1>5

\* A full table has no free entry, and its first one is the oldest.
LEMMA OldestIsFirst ==
  ASSUME NEW t \in Table, FirstMatchIsRoute(t), NEW pairs, Tidied(t, pairs),
         Cardinality(Routed(t)) = TableSize, NEW d \in Routed(t),
         \A e \in Routed(t) \ {d} : <<d, e>> \in pairs
  PROVE  FreeSlots(t) = {} /\ t[1].dest = d
<1>1. \A i \in Slots : Live(t, i)
  <2>1. DOMAIN MapOf(t) = Routed(t)
    BY DEF MapOf, Routed
  <2>2. ASSUME NEW k \in Slots, ~Live(t, k) PROVE FALSE
    <3>1. Cardinality(Routed(t)) < TableSize
      BY <2>1, <2>2, MapHasRoom
    <3> QED BY <3>1, TableSizeAssumption
  <2> QED BY <2>2
<1>2. PICK i \in Slots : t[i].dest = d
  BY RoutedIs
<1>3. 1 \in Slots
  BY TableSizeAssumption DEF Slots
<1>4. ASSUME t[1].dest # d PROVE FALSE
  <2>1. <<t[i].dest, t[1].dest>> \in pairs
    BY <1>1, <1>2, <1>3, <1>4, RoutedIs
  <2>2. i < 1
    BY <1>1, <1>3, <2>1 DEF Tidied, InOrder
  <2> QED BY <2>2, TableSizeAssumption DEF Slots
<1> QED BY <1>1, <1>4 DEF FreeSlots, Live

AgedInv == Inv /\ (tidy => Tidied(routes, older))

LEMMA AgedInitInv == AgedInit => AgedInv
<1> SUFFICES ASSUME AgedInit PROVE AgedInv
  OBVIOUS
<1>1. Inv
  BY InitInv DEF AgedInit
<1>2. \A i \in Slots : ~Live(routes, i)
  BY DEF AgedInit, Init, Live
<1>3. tidy => Tidied(routes, older)
  BY <1>2 DEF AgedInit, Tidied, Compact, OneRest, InOrder
<1> QED BY <1>1, <1>3 DEF AgedInv

LEMMA AgedNextInv == AgedInv /\ [AgedNext]_avars => AgedInv'
<1> SUFFICES ASSUME AgedInv, [AgedNext]_avars PROVE AgedInv'
  OBVIOUS
<1>1. Inv'
  <2>1. [Next]_vars
    BY DEF AgedNext, avars, vars
  <2> QED BY <2>1, NextInv DEF AgedInv
<1>2. CASE AgedNext
  <2> SUFFICES ASSUME tidy' PROVE Tidied(routes', older')
    BY <1>1 DEF AgedInv
  <2>1. /\ tidy /\ call'.op \notin {"clear", "addInvalid"}
        /\ older' = Aged(routes, routes', older)
    BY <1>2 DEF AgedNext
  <2>2. /\ routes \in Table /\ FirstMatchIsRoute(routes)
        /\ Tidied(routes, older)
    BY <2>1 DEF AgedInv, Inv, TypeOK, FirstMatchIsTheRoute
  <2>3. ASSUME NEW d \in Addr, NEW n \in Addr, NEW s \in AddStates, Add(d, n, s)
        PROVE  Tidied(routes', older')
    <3>1. s # "Invalid" /\ s \in RouteState
      BY <2>1, <2>3, AddStatesAssumption DEF Add, AddCall
    <3> QED BY <2>1, <2>2, <2>3, <3>1, AddTidies DEF Add
  <2>4. ASSUME NEW d \in Addr, Delete(d)
        PROVE  Tidied(routes', older')
    <3>1. CASE SlotsOf(routes, d) = {}
      <4>1. routes' = routes
        BY <2>4, <3>1 DEF Delete, DeleteRouteTo
      <4>2. older' = older
        BY <2>1, <2>2, <4>1 DEF Aged, Tidied
      <4> QED BY <2>2, <4>1, <4>2
    <3>2. CASE SlotsOf(routes, d) # {}
      <4>1. Min(SlotsOf(routes, d)) \in Slots
        BY <3>2, ScanStopsAtFirst, SlotsOf(routes, d) \subseteq Slots DEF SlotsOf
      <4> QED BY <2>1, <2>2, <2>4, <3>2, <4>1, DeleteTidies
           DEF Delete, DeleteRouteTo
    <3> QED BY <3>1, <3>2
  <2>5. CASE Retire
    <3>1. 1 \in Slots
      BY TableSizeAssumption DEF Slots
    <3> QED BY <2>1, <2>2, <2>5, <3>1, DeleteTidies DEF Retire, RetireOldestRoute
  <2>6. ~Clear
    BY <2>1 DEF Clear
  <2> QED BY <1>2, <2>3, <2>4, <2>5, <2>6 DEF AgedNext, Next
<1>3. CASE UNCHANGED avars
  <2>1. routes' = routes /\ older' = older /\ tidy' = tidy
    BY <1>3 DEF avars
  <2> QED BY <1>1, <2>1 DEF AgedInv
<1> QED BY <1>2, <1>3

LEMMA OldestGoesStep ==
  ASSUME AgedInv, AgedNext, tidy
  PROVE  OldestGoes
<1> SUFFICES ASSUME Cardinality(Routed(routes)) = TableSize, call'.op = "add",
                    ~HasRoute(routes, call'.dest), NEW d \in Addr, Oldest(d)
             PROVE  ~HasRoute(routes', d)
  BY DEF OldestGoes
<1>1. /\ routes \in Table /\ FirstMatchIsRoute(routes)
      /\ Tidied(routes, older)
  BY DEF AgedInv, Inv, TypeOK, FirstMatchIsTheRoute
<1>2. d \in Routed(routes) /\ FreeSlots(routes) = {} /\ routes[1].dest = d
  BY <1>1, OldestIsFirst DEF Oldest
<1>3. PICK x \in Addr, n \in Addr, s \in AddStates : Add(x, n, s)
  BY DEF AgedNext, Next, Delete, Retire, Clear
<1>4. call'.dest = x
  BY <1>3 DEF Add, AddCall
<1>5. x # d
  BY <1>2, <1>4 DEF Routed
<1>6. SlotsOf(routes, x) = {}
  BY <1>2, <1>4 DEF HasRoute, RoutesTo, SlotsOf, FreeSlots
<1> DEFINE e == [dest |-> x, next_hop |-> n, state |-> s]
<1>7. routes' = [i \in Slots |-> IF i = TableSize THEN e ELSE routes[i + 1]]
  BY <1>1, <1>2, <1>3, <1>6, FullTableShifts DEF Add, AddRouteTo
<1>8. ASSUME NEW i \in Slots PROVE routes'[i].dest # d
  <2>1. CASE i = TableSize
    BY <1>5, <1>7, <2>1
  <2>2. CASE i # TableSize
    <3>1. 1 \in Slots /\ i + 1 \in Slots /\ 1 < i + 1
      BY <2>2, TableSizeAssumption DEF Slots
    <3>2. routes[i + 1].dest # routes[1].dest
      BY <1>1, <1>2, <3>1 DEF FreeSlots, FirstMatchIsRoute
    <3> QED BY <1>2, <1>7, <2>2, <3>2
  <2> QED BY <2>1, <2>2
<1> QED BY <1>8 DEF HasRoute, RoutesTo, SlotsOf

\* RF22Router.h:94, for a table of any size in zeroed memory that is not
\* cleared and given live routes only: the route that a full one gives up
\* for a new one is the oldest.
THEOREM OldestIsRetired == AgedSpec => TidyTableRetiresOldest
<1>1. AgedInv /\ [AgedNext]_avars => [tidy => OldestGoes]_avars
  BY OldestGoesStep
<1> QED BY <1>1, AgedInitInv, AgedNextInv, PTL
        DEF AgedSpec, TidyTableRetiresOldest
=============================================================================
