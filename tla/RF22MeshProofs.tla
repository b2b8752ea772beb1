--------------------------- MODULE RF22MeshProofs ---------------------------
(***************************************************************************)
(* Theorems about RF22Mesh for every network, table size and number of     *)
(* calls: where routes lead, what the lists of discoveries are, and how    *)
(* often a message is returned.                                            *)
(*                                                                         *)
(* One invariant holds them together.  The lemmas go from the table of a   *)
(* node, through how messages move between nodes and where the message of  *)
(* a call is, to one lemma for each step of the network.                   *)
(***************************************************************************)
EXTENDS RF22Mesh, FiniteSetTheorems, WellFoundedInduction, SequenceTheorems, TLAPS

-----------------------------------------------------------------------------
(* Least elements and counting, as facts about sets of numbers.            *)

\* A set of numbers that is not empty and has a bound has a least element.
LEMMA LeastElement ==
  ASSUME NEW N \in Nat, NEW S, S \subseteq 0 .. N, S # {}
  PROVE  \E m \in S : \A j \in S : m <= j
<1> DEFINE All == 0 .. N
           Segments == {0 .. i : i \in S}
<1>1. IsFiniteSet(All)
  BY FS_Interval
<1>2. Segments \subseteq SUBSET All /\ Segments # {}
  <2>1. ASSUME NEW i \in S
        PROVE  0 .. i \in SUBSET All
    OBVIOUS
  <2> QED BY <2>1
<1>3. PICK P \in Segments :
        \A Q \in Segments : ~ (<<Q, P>> \in StrictSubsetOrdering(All))
  <2>1. IsWellFoundedOn(StrictSubsetOrdering(All), SUBSET All)
    BY <1>1, FS_FiniteSubsetsOfFinite, FS_StrictSubsetOrderingWellFounded, Zenon
  <2> HIDE DEF Segments
  <2> QED BY <1>2, <2>1, WFMin, Zenon
<1>4. PICK m \in S : P = 0 .. m
  OBVIOUS
<1>5. ASSUME NEW j \in S, j < m
      PROVE  FALSE
  <2>1. 0 .. j \subseteq 0 .. m /\ 0 .. j # 0 .. m
    BY <1>5
  <2>2. <<0 .. j, P>> \in StrictSubsetOrdering(All)
    BY <1>2, <1>4, <2>1 DEF StrictSubsetOrdering
  <2> QED BY <1>3, <2>2
<1> QED BY <1>5

\* A set of numbers that holds a first one, and with each number below N the
\* next, holds them all up to N.
LEMMA CountingUp ==
  ASSUME NEW N \in Nat, NEW G, NEW a \in 0 .. N, a \in G,
         \A i \in a .. N - 1 : i \in G => i + 1 \in G
  PROVE  \A i \in a .. N : i \in G
<1> DEFINE B == {i \in a .. N : i \notin G}
<1>1. SUFFICES ASSUME B # {} PROVE FALSE
  OBVIOUS
<1>2. PICK m \in B : \A j \in B : m <= j
  BY <1>1, LeastElement, B \subseteq 0 .. N
<1>3. m # a /\ m - 1 \in a .. N - 1 /\ m - 1 \notin B
  BY <1>2
<1> QED BY <1>2, <1>3

-----------------------------------------------------------------------------
(* The scans.                                                              *)

\* A scan from slot 0 upwards stops at the smallest slot it can stop at.
LEMMA ScanStopsAtFirst ==
  ASSUME NEW S, S \subseteq Slots, S # {}
  PROVE  /\ Min(S) \in S
         /\ \A j \in S : Min(S) <= j
<1>1. S \subseteq 0 .. TableSize /\ TableSize \in Nat
  BY TableSizeAssumption DEF Slots
<1>2. \E m \in S : \A j \in S : m <= j
  BY <1>1, LeastElement
<1> QED BY <1>2 DEF Min

-----------------------------------------------------------------------------
(* What each update returns.                                               *)

\* deleteRoute() leaves a table whose first match for a destination is still
\* its route: entries keep their order and the last one becomes Invalid.
LEMMA DeleteRouteKeeps ==
  ASSUME NEW t \in Table, NEW k \in Slots
  PROVE  /\ DeleteRoute(t, k) \in Table
         /\ FirstMatchIsRoute(t) => FirstMatchIsRoute(DeleteRoute(t, k))
<1> USE TableSizeAssumption DEF Slots
<1>1. DeleteRoute(t, k) \in Table
  BY DEF DeleteRoute, Table, RoutingTableEntry, RouteState
<1>2. ASSUME FirstMatchIsRoute(t), NEW i \in Slots, NEW j \in Slots, i < j,
             DeleteRoute(t, k)[j].state # "Invalid"
      PROVE  DeleteRoute(t, k)[i].dest # DeleteRoute(t, k)[j].dest
  <2>1. j # TableSize
    BY <1>2 DEF DeleteRoute, Table, RoutingTableEntry
  <2>2. CASE j < k
    BY <1>2, <2>1, <2>2 DEF DeleteRoute, FirstMatchIsRoute
  <2>3. CASE k <= j
    <3>1. DeleteRoute(t, k)[j] = t[j + 1] /\ j + 1 \in Slots
      BY <1>2, <2>1, <2>3 DEF DeleteRoute
    <3>2. PICK i2 \in {i, i + 1} :
            i2 \in Slots /\ i2 < j + 1 /\ DeleteRoute(t, k)[i] = t[i2]
      BY <1>2, <2>1 DEF DeleteRoute
    <3> QED BY <1>2, <3>1, <3>2 DEF FirstMatchIsRoute
  <2> QED BY <2>2, <2>3
<1> QED BY <1>1, <1>2 DEF FirstMatchIsRoute

\* When no entry is Invalid, addRouteTo() drops the first one, moves the
\* others down and puts the new one last: FillFreeSlots fills one slot only.
LEMMA FullTableShifts ==
  ASSUME NEW t \in Table, FreeSlots(t) = {}, NEW e
  PROVE  FillFreeSlots(RetireOldestRoute(t), e) =
           [i \in Slots |-> IF i = TableSize THEN e ELSE t[i + 1]]
<1>1. ASSUME NEW i \in Slots
      PROVE  /\ i = TableSize => RetireOldestRoute(t)[i].state = "Invalid"
             /\ i # TableSize => /\ RetireOldestRoute(t)[i] = t[i + 1]
                                /\ t[i + 1].state # "Invalid"
  BY TableSizeAssumption
     DEF RetireOldestRoute, DeleteRoute, Slots, FreeSlots, Table, RoutingTableEntry
<1> QED BY <1>1 DEF FillFreeSlots

\* addRouteTo() returns a table whose first match is the route, whatever the
\* state of the entry it replaced.
LEMMA AddRouteToKeeps ==
  ASSUME NEW t \in Table, NEW d \in Addr, NEW n \in Addr, NEW s \in RouteState
  PROVE  /\ AddRouteTo(t, d, n, s) \in Table
         /\ FirstMatchIsRoute(t) => FirstMatchIsRoute(AddRouteTo(t, d, n, s))
<1> DEFINE e == [dest |-> d, next_hop |-> n, state |-> s]
           u == AddRouteTo(t, d, n, s)
<1>1. e \in RoutingTableEntry
  BY DEF RoutingTableEntry
<1>2. CASE SlotsOf(t, d) # {}
  <2> DEFINE m == Min(SlotsOf(t, d))
  <2>1. m \in Slots /\ t[m].dest = d /\ \A j \in SlotsOf(t, d) : m <= j
    BY <1>2, ScanStopsAtFirst, SlotsOf(t, d) \subseteq Slots DEF SlotsOf
  <2>2. u = [t EXCEPT ![m] = e]
    BY <1>2 DEF AddRouteTo
  <2>3. \A i \in Slots : u[i].dest = t[i].dest
    BY <2>1, <2>2 DEF Table
  <2>4. \A i \in Slots : i < m => t[i].dest # d
    BY <2>1, TableSizeAssumption DEF SlotsOf, Slots
  <2> HIDE DEF m
  <2> QED BY <1>1, <2>1, <2>2, <2>3, <2>4 DEF Table, FirstMatchIsRoute
<1>3. CASE SlotsOf(t, d) = {} /\ FreeSlots(t) # {}
  <2> DEFINE m == Min(FreeSlots(t))
  <2>1. m \in Slots
    BY <1>3, ScanStopsAtFirst, FreeSlots(t) \subseteq Slots DEF FreeSlots
  <2>2. u = [t EXCEPT ![m] = e]
    BY <1>3 DEF AddRouteTo
  <2> HIDE DEF m
  <2>3. u \in Table
    BY <1>1, <2>1, <2>2 DEF Table
  <2>4. ASSUME FirstMatchIsRoute(t), NEW i \in Slots, NEW j \in Slots, i < j,
               u[j].state # "Invalid"
        PROVE  u[i].dest # u[j].dest
    <3>1. \A k \in Slots : t[k].dest # d /\ u[k] = IF k = m THEN e ELSE t[k]
      BY <1>3, <2>1, <2>2 DEF SlotsOf, Table
    <3>2. i # j
      BY <2>4, TableSizeAssumption DEF Slots
    <3> QED BY <2>4, <3>1, <3>2 DEF FirstMatchIsRoute
  <2> QED BY <2>3, <2>4 DEF FirstMatchIsRoute
<1>4. CASE SlotsOf(t, d) = {} /\ FreeSlots(t) = {}
  <2>1. u = [i \in Slots |-> IF i = TableSize THEN e ELSE t[i + 1]]
    BY <1>4, FullTableShifts DEF AddRouteTo
  <2>2. u \in Table
    BY <1>1, <2>1, TableSizeAssumption DEF Table, Slots
  <2>3. ASSUME FirstMatchIsRoute(t), NEW i \in Slots, NEW j \in Slots, i < j,
               u[j].state # "Invalid"
        PROVE  u[i].dest # u[j].dest
    BY <1>4, <2>1, <2>3, TableSizeAssumption
       DEF Slots, SlotsOf, FirstMatchIsRoute
  <2> QED BY <2>2, <2>3 DEF FirstMatchIsRoute
<1> QED BY <1>2, <1>3, <1>4

\* Every entry of the table addRouteTo() leaves is the new one or was there
\* before, and the new one is there.
LEMMA AddRouteToEntries ==
  ASSUME NEW t \in Table, NEW d \in Addr, NEW n \in Addr, NEW s \in RouteState
  PROVE  LET u == AddRouteTo(t, d, n, s)
             e == [dest |-> d, next_hop |-> n, state |-> s]
         IN  /\ \A i \in Slots : u[i] = e \/ \E j \in Slots : u[i] = t[j]
             /\ \E i \in Slots : u[i] = e
<1> DEFINE e == [dest |-> d, next_hop |-> n, state |-> s]
           u == AddRouteTo(t, d, n, s)
<1>1. CASE SlotsOf(t, d) # {}
  <2>1. PICK m \in Slots : u = [t EXCEPT ![m] = e]
    BY <1>1, ScanStopsAtFirst, SlotsOf(t, d) \subseteq Slots DEF SlotsOf, AddRouteTo
  <2> QED BY <2>1 DEF Table
<1>2. CASE SlotsOf(t, d) = {} /\ FreeSlots(t) # {}
  <2>1. PICK m \in Slots : u = [t EXCEPT ![m] = e]
    BY <1>2, ScanStopsAtFirst, FreeSlots(t) \subseteq Slots
       DEF FreeSlots, AddRouteTo
  <2> QED BY <2>1 DEF Table
<1>3. CASE SlotsOf(t, d) = {} /\ FreeSlots(t) = {}
  <2>1. u = [i \in Slots |-> IF i = TableSize THEN e ELSE t[i + 1]]
    BY <1>3, FullTableShifts DEF AddRouteTo
  <2>2. /\ TableSize \in Slots
        /\ \A i \in Slots : i # TableSize => i + 1 \in Slots
    BY TableSizeAssumption DEF Slots
  <2> QED BY <2>1, <2>2
<1> QED BY <1>1, <1>2, <1>3

\* Every entry of the table deleteRoute() leaves was there before or is
\* Invalid.
LEMMA DeleteRouteToEntries ==
  ASSUME NEW t \in Table, NEW d \in Addr
  PROVE  /\ DeleteRouteTo(t, d) \in Table
         /\ \A i \in Slots :
              LET u == DeleteRouteTo(t, d)
              IN  u[i].state = "Invalid" \/ \E j \in Slots : u[i] = t[j]
<1>1. CASE SlotsOf(t, d) = {}
  BY <1>1 DEF DeleteRouteTo
<1>2. CASE SlotsOf(t, d) # {}
  <2>1. PICK m \in Slots : DeleteRouteTo(t, d) = DeleteRoute(t, m)
    BY <1>2, ScanStopsAtFirst, SlotsOf(t, d) \subseteq Slots
       DEF SlotsOf, DeleteRouteTo
  <2>2. ASSUME NEW i \in Slots
        PROVE  \/ DeleteRoute(t, m)[i].state = "Invalid"
               \/ \E j \in Slots : DeleteRoute(t, m)[i] = t[j]
    <3>1. i # TableSize => i + 1 \in Slots
      BY TableSizeAssumption DEF Slots
    <3>2. t[i] \in RoutingTableEntry
      BY DEF Table
    <3> QED BY <3>1, <3>2 DEF DeleteRoute, RoutingTableEntry
  <2> QED BY <2>1, <2>2, DeleteRouteKeeps
<1> QED BY <1>1, <1>2

-----------------------------------------------------------------------------
(* Where the routes of a table lead, and which it has.                     *)

\* Every route leads to one of the nodes of H.
HopsIn(t, H) ==
  \A i \in Slots : t[i].state # "Invalid" => t[i].next_hop \in H

\* The updates bring in no next hop but the one addRouteTo() is given.
LEMMA UpdatesKeepHops ==
  ASSUME NEW H, NEW t \in Table, HopsIn(t, H), NEW d \in Addr
  PROVE  /\ HopsIn(DeleteRouteTo(t, d), H)
         /\ \A n \in Addr : n \in H => HopsIn(AddRouteTo(t, d, n, "Valid"), H)
<1>1. HopsIn(DeleteRouteTo(t, d), H)
  BY DeleteRouteToEntries DEF HopsIn
<1>2. ASSUME NEW n \in Addr, n \in H
      PROVE  HopsIn(AddRouteTo(t, d, n, "Valid"), H)
  <2>1. "Valid" \in RouteState
    BY DEF RouteState
  <2>2. \A i \in Slots :
          LET u == AddRouteTo(t, d, n, "Valid")
          IN  \/ u[i] = [dest |-> d, next_hop |-> n, state |-> "Valid"]
              \/ \E j \in Slots : u[i] = t[j]
    BY <2>1, AddRouteToEntries
  <2> QED BY <1>2, <2>2 DEF HopsIn
<1> QED BY <1>1, <1>2

Full(t) == \A i \in Slots : t[i].state # "Invalid"

\* A route that addRouteTo() has added is there afterwards, and stays when
\* others are added, unless the table is full.
LEMMA AddRouteToHasRoute ==
  ASSUME NEW t \in Table, NEW d \in Addr, NEW n \in Addr
  PROVE  /\ HasRoute(AddRouteTo(t, d, n, "Valid"), d)
         /\ \A x \in Addr : HasRoute(t, x) \/ Full(t) =>
              LET u == AddRouteTo(t, d, n, "Valid")
              IN  HasRoute(u, x) \/ Full(u)
<1> DEFINE e == [dest |-> d, next_hop |-> n, state |-> "Valid"]
           u == AddRouteTo(t, d, n, "Valid")
<1>1. \A w \in Table, x \in Addr :
        HasRoute(w, x) <=> \E i \in Slots : w[i].state # "Invalid" /\ w[i].dest = x
  BY DEF HasRoute, RoutesTo, SlotsOf
<1>2. "Valid" \in RouteState
  BY DEF RouteState
<1>3. u \in Table /\ \E i \in Slots : u[i] = e
  BY <1>2, AddRouteToKeeps, AddRouteToEntries
<1>4. ASSUME NEW x \in Addr, HasRoute(t, x) \/ Full(t)
      PROVE  HasRoute(u, x) \/ Full(u)
  <2>1. CASE SlotsOf(t, d) # {}
    <3>1. PICK m \in Slots : u = [t EXCEPT ![m] = e] /\ t[m].dest = d
      BY <2>1, ScanStopsAtFirst, SlotsOf(t, d) \subseteq Slots
         DEF SlotsOf, AddRouteTo
    <3>2. \A i \in Slots : u[i] = IF i = m THEN e ELSE t[i]
      BY <3>1 DEF Table
    <3>3. CASE HasRoute(t, x)
      BY <1>1, <1>3, <3>1, <3>2, <3>3
    <3>4. CASE Full(t)
      BY <3>2, <3>4 DEF Full
    <3> QED BY <1>4, <3>3, <3>4
  <2>2. CASE SlotsOf(t, d) = {} /\ FreeSlots(t) # {}
    <3>1. PICK m \in Slots : u = [t EXCEPT ![m] = e] /\ t[m].state = "Invalid"
      BY <2>2, ScanStopsAtFirst, FreeSlots(t) \subseteq Slots
         DEF FreeSlots, AddRouteTo
    <3>2. \A i \in Slots : u[i] = IF i = m THEN e ELSE t[i]
      BY <3>1 DEF Table
    <3>3. ~Full(t)
      BY <3>1 DEF Full
    <3> QED BY <1>1, <1>3, <1>4, <3>1, <3>2, <3>3
  <2>3. CASE SlotsOf(t, d) = {} /\ FreeSlots(t) = {}
    <3>1. u = [i \in Slots |-> IF i = TableSize THEN e ELSE t[i + 1]]
      BY <2>3, FullTableShifts DEF AddRouteTo
    <3>2. \A i \in Slots : t[i].state # "Invalid"
      BY <2>3 DEF FreeSlots
    <3>3. \A i \in Slots : i # TableSize => i + 1 \in Slots
      BY TableSizeAssumption DEF Slots
    <3> QED BY <3>1, <3>2, <3>3 DEF Full
  <2> QED BY <2>1, <2>2, <2>3
<1> QED BY <1>1, <1>3, <1>4

-----------------------------------------------------------------------------
(* Adding the routes of a list.                                            *)

\* AddRoutes() adds one address after the other.
LEMMA AddRoutesByOne ==
  ASSUME NEW t, NEW N \in Nat, NEW list, Len(list) = N, NEW f
  PROVE  \E table : /\ AddRoutes(t, list, f) = table[N]
                    /\ table[0] = t
                    /\ \A i \in 1 .. N :
                         table[i] = AddRouteTo(table[i - 1], list[i], f, "Valid")
<1> DEFINE Value(g, i) == IF i = 0 THEN t ELSE AddRouteTo(g[i - 1], list[i], f, "Valid")
           Added(n, g) == g = [i \in 0 .. n |-> Value(g, i)]
           G == {n \in 0 .. N : \E g : Added(n, g)}
<1>1. 0 \in G
  <2>1. Added(0, [i \in 0 .. 0 |-> t])
    OBVIOUS
  <2> HIDE DEF Added
  <2> QED BY <2>1
<1>2. ASSUME NEW n \in 0 .. N - 1, n \in G
      PROVE  n + 1 \in G
  <2>1. PICK g : Added(n, g)
    BY <1>2
  <2> DEFINE h == [i \in 0 .. n + 1 |-> IF i <= n THEN g[i] ELSE Value(g, i)]
  <2>2. \A i \in 0 .. n + 1 : h[i] = Value(h, i)
    <3>1. ASSUME NEW i \in 0 .. n + 1, i # 0
          PROVE  i - 1 \in 0 .. n /\ h[i - 1] = g[i - 1]
      BY <3>1
    <3>2. \A i \in 0 .. n : g[i] = Value(g, i)
      BY <2>1
    <3> QED BY <3>1, <3>2
  <2>3. Added(n + 1, h)
    BY <2>2
  <2> HIDE DEF h, Added
  <2> QED BY <2>3
<1>3. N \in G
  <2> HIDE DEF G
  <2>1. \A i \in 0 .. N - 1 : i \in G => i + 1 \in G
    BY <1>2
  <2>2. \A i \in 0 .. N : i \in G
    BY <1>1, <2>1, CountingUp, 0 \in 0 .. N, Zenon
  <2> QED BY <2>2
<1>4. PICK table : table = [i \in 0 .. N |-> IF i = 0 THEN t
                              ELSE AddRouteTo(table[i - 1], list[i], f, "Valid")]
                   /\ AddRoutes(t, list, f) = table[N]
  <2>1. AddRoutes(t, list, f) = (CHOOSE g : Added(N, g))[N]
    BY DEF AddRoutes
  <2>2. Added(N, CHOOSE g : Added(N, g))
    BY <1>3
  <2> QED BY <2>1, <2>2
<1>5. table[0] = t
  BY <1>4
<1>6. \A i \in 1 .. N : table[i] = AddRouteTo(table[i - 1], list[i], f, "Valid")
  BY <1>4
<1> QED BY <1>4, <1>5, <1>6, Zenon

\* What one addition keeps, however many there are, AddRoutes() keeps.
LEMMA AddRoutesKeeps ==
  ASSUME NEW P, NEW t, NEW list \in Seq(Addr), NEW f,
         \/ t \in P
         \/ list # <<>> /\ AddRouteTo(t, list[1], f, "Valid") \in P,
         \A u \in P, d \in Addr : AddRouteTo(u, d, f, "Valid") \in P
  PROVE  AddRoutes(t, list, f) \in P
<1>1. PICK N \in Nat : N = Len(list) /\ \A i \in 1 .. N : list[i] \in Addr
  BY LenProperties, ElementOfSeq
<1>2. PICK table : /\ AddRoutes(t, list, f) = table[N]
                   /\ table[0] = t
                   /\ \A i \in 1 .. N :
                        table[i] = AddRouteTo(table[i - 1], list[i], f, "Valid")
  BY <1>1, AddRoutesByOne
<1> DEFINE G == {i \in 0 .. N : table[i] \in P}
<1>3. ASSUME NEW i \in 0 .. N - 1, i \in G
      PROVE  i + 1 \in G
  <2>1. table[i + 1] = AddRouteTo(table[i], list[i + 1], f, "Valid")
    BY <1>1, <1>2, i + 1 \in 1 .. N, i + 1 - 1 = i
  <2> QED BY <1>1, <1>3, <2>1, i + 1 \in 1 .. N
<1>4. PICK a \in 0 .. N : a \in G
  <2>1. CASE t \in P
    BY <1>2, <2>1
  <2>2. CASE list # <<>> /\ AddRouteTo(t, list[1], f, "Valid") \in P
    <3>1. 1 \in 1 .. N
      BY <1>1, <2>2, EmptySeq
    <3> QED BY <1>2, <2>2, <3>1
  <2> QED BY <2>1, <2>2
<1>5. N \in G
  <2> HIDE DEF G
  <2>1. \A i \in a .. N - 1 : i \in G => i + 1 \in G
    BY <1>3
  <2>2. \A i \in a .. N : i \in G
    BY <1>1, <1>4, <2>1, CountingUp, Zenon
  <2> QED BY <2>2
<1> QED BY <1>2, <1>5

-----------------------------------------------------------------------------
(* Types.                                                                  *)

Type == {"application", "request", "response", "failure"}

Messages ==
  {m \in [type : Type, src : Node, dest : Addr \cup {Broadcast}, hops : Nat,
          about : Addr \cup {NoOne}, list : Seq(Node), call : Nat] :
     /\ m.type = "request" <=> m.dest = Broadcast
     /\ m.type # "application" => m.about \in Addr}

Held == [msg : Messages, from : Node]

Calls == [from : Node, to : Addr, result : {"pending", "ok", "failed"}]

TypeInv ==
  /\ routes \in [Node -> Table]
  /\ inbox \in [Node -> Held \cup {Nothing}]
  /\ out \in [Node -> Held \cup {Nothing}]
  /\ arp \in [Node -> Addr \cup {NoOne}]
  /\ cur \in [Node -> Nat]
  /\ calls \in Seq(Calls)
  /\ got \in [Node -> Seq(Nat)]

-----------------------------------------------------------------------------
(* The inductive invariant.                                                *)

\* A node routes what it has received before it takes the next message, and
\* what it holds came from a neighbour or is its own.
OneAtATime ==
  \A n \in Node :
    /\ inbox[n] = Nothing \/ out[n] = Nothing
    /\ inbox[n] # Nothing => inbox[n].from \in Neighbours(n)
    /\ out[n] # Nothing => out[n].from \in Neighbours(n) \/ out[n].msg.src = n

HopsInv == \A n \in Node : HopsIn(routes[n], Neighbours(n))

\* The nodes a discovery has been through.
Origin(m) == IF m.type = "request" THEN m.src ELSE m.dest
Path(m) == <<Origin(m)>> \o m.list

IsPath(p) == /\ \A i, j \in DOMAIN p : p[i] = p[j] => i = j
             /\ \A i \in 1 .. Len(p) - 1 : {p[i], p[i + 1]} \in Links

IsDiscovery(m) == m.type \in {"request", "response"}

EndsAt(m, n) == m.type = "request" => Path(m)[Len(Path(m))] = n

\* A request comes from the last node of its list.
PathInv ==
  \A n \in Node :
    /\ inbox[n] # Nothing /\ IsDiscovery(inbox[n].msg) =>
         IsPath(Path(inbox[n].msg)) /\ EndsAt(inbox[n].msg, inbox[n].from)
    /\ out[n] # Nothing /\ IsDiscovery(out[n].msg) =>
         IsPath(Path(out[n].msg)) /\ EndsAt(out[n].msg, n)

\* The message of call k is at n, received, about to be routed, or not yet
\* made while n waits for a route.
Carries(x, k) == x # Nothing /\ x.msg.type = "application" /\ x.msg.call = k
Waits(n, k) == arp[n] # NoOne /\ cur[n] = k
Holds(n, k) == Carries(inbox[n], k) \/ Carries(out[n], k) \/ Waits(n, k)
Returned(n, k) == \E i \in DOMAIN got[n] : got[n][i] = k

\* It is for the address the call names,
Addressed(n, k) ==
  /\ Holds(n, k) \/ Returned(n, k) => k \in DOMAIN calls
  /\ Carries(inbox[n], k) => inbox[n].msg.dest = calls[k].to
  /\ Carries(out[n], k) => out[n].msg.dest = calls[k].to
  /\ Waits(n, k) => arp[n] = calls[k].to
  /\ Returned(n, k) => calls[k].to = n

\* and in one place.
InOnePlace(k) ==
  \A n \in Node :
    /\ Waits(n, k) => ~Carries(inbox[n], k) /\ ~Carries(out[n], k)
    /\ Holds(n, k) => \A o \in Node : /\ Holds(o, k) => o = n
                                      /\ ~Returned(o, k)
    /\ \A i, j \in DOMAIN got[n] : got[n][i] = k /\ got[n][j] = k => i = j

CallInv(k) == InOnePlace(k) /\ \A n \in Node : Addressed(n, k)

CallsInv == \A k \in Nat : CallInv(k)

Inv == TypeInv /\ OneAtATime /\ HopsInv /\ PathInv /\ CallsInv
         /\ AnswerIsRoutable

-----------------------------------------------------------------------------
(* Messages and tables.                                                    *)

LEMMA HeldIsNotNothing ==
  /\ \A m, f : [msg |-> m, from |-> f] # Nothing
  /\ \A x \in Held : x # Nothing /\ x.msg \in Messages /\ x.from \in Node
<1>1. \A m, f : "msg" \in DOMAIN [msg |-> m, from |-> f]
  OBVIOUS
<1>2. "msg" \notin DOMAIN Nothing
  BY DEF Nothing
<1> QED BY <1>1, <1>2 DEF Held

LEMMA NeighboursAreNodes ==
  \A n \in Node : \A r \in Neighbours(n) :
    r \in Node /\ r \in Addr /\ r # n /\ {n, r} \in Links /\ n \in Neighbours(r)
BY MeshAssumption DEF Neighbours

\* What a node makes is a message.
LEMMA MessagesMade ==
  ASSUME NEW n \in Node
  PROVE  /\ \A d \in Addr, k \in Nat : Application(n, d, k) \in Messages
         /\ \A d \in Addr : Request(n, d) \in Messages
         /\ \A o \in Node, d \in Addr : Failure(n, o, d) \in Messages
         /\ \A m \in Messages : m.type = "request" =>
              Answer(n, m) \in Messages /\ PassedOn(n, m) \in Messages
<1> USE MeshAssumption DEF Messages, Type, Routed
<1>1. \A d \in Addr : d # Broadcast
  OBVIOUS
<1>2. <<>> \in Seq(Node)
  BY EmptySeq
<1>3. \A d \in Addr, k \in Nat : Application(n, d, k) \in Messages
  BY <1>1, <1>2 DEF Application
<1>4. \A d \in Addr : Request(n, d) \in Messages
  BY <1>2 DEF Request
<1>5. \A o \in Node, d \in Addr : Failure(n, o, d) \in Messages
  BY <1>1, <1>2 DEF Failure
<1>6. ASSUME NEW m \in Messages, m.type = "request"
      PROVE  Answer(n, m) \in Messages /\ PassedOn(n, m) \in Messages
  <2>1. m.src \in Node /\ m.src # Broadcast /\ m.about \in Addr /\ m.list \in Seq(Node)
    BY <1>6
  <2>2. Append(m.list, n) \in Seq(Node)
    BY <2>1, AppendProperties
  <2> QED BY <2>1, <2>2 DEF Answer, PassedOn
<1> QED BY <1>3, <1>4, <1>5, <1>6

\* One hop more, and otherwise the same.
LEMMA HopCounted ==
  ASSUME NEW m \in Messages
  PROVE  LET h == [m EXCEPT !.hops = @ + 1]
         IN  /\ h \in Messages /\ h.hops # 0
             /\ h.type = m.type /\ h.src = m.src /\ h.dest = m.dest
             /\ h.list = m.list /\ h.call = m.call
BY DEF Messages

\* The tables whose routes lead to nodes of H.
TablesTo(H) == {t \in Table : HopsIn(t, H)}

LEMMA UpdatesKeepTables ==
  ASSUME NEW H, NEW t \in TablesTo(H), NEW d \in Addr
  PROVE  /\ DeleteRouteTo(t, d) \in TablesTo(H)
         /\ \A f \in Addr : f \in H => AddRouteTo(t, d, f, "Valid") \in TablesTo(H)
<1>1. "Valid" \in RouteState
  BY DEF RouteState
<1> QED BY <1>1, UpdatesKeepHops, DeleteRouteToEntries, AddRouteToKeeps DEF TablesTo

LEMMA AddRoutesKeepTables ==
  ASSUME NEW H, NEW t \in TablesTo(H), NEW list \in Seq(Addr),
         NEW f \in Addr, f \in H
  PROVE  AddRoutes(t, list, f) \in TablesTo(H)
<1>1. \A u \in TablesTo(H), d \in Addr : AddRouteTo(u, d, f, "Valid") \in TablesTo(H)
  BY UpdatesKeepTables
<1> QED BY <1>1, AddRoutesKeeps

LEMMA PeekedAreAddresses ==
  ASSUME NEW n \in Node, NEW list \in Seq(Node), NEW past \in Addr
  PROVE  Peeked(n, list, past) \in Seq(Addr)
<1> DEFINE at == SelectInSeq(list, LAMBDA d : d = n)
<1>1. at \in 0 .. Len(list)
  <2> DEFINE S == {i \in 1 .. Len(list) : list[i] = n}
  <2>1. at = IF S # {} THEN Min(S) ELSE 0
    BY DEF SelectInSeq
  <2>2. Len(list) \in Nat
    BY LenProperties
  <2>3. S # {} => \E m \in S : \A j \in S : m <= j
    BY <2>2, LeastElement, S \subseteq 0 .. Len(list)
  <2>4. S # {} => Min(S) \in S
    BY <2>3 DEF Min
  <2> QED BY <2>1, <2>2, <2>4
<1>2. \A i \in 1 .. Len(list) : list[i] \in Addr
  BY ElementOfSeq, MeshAssumption
<1> HIDE DEF at
<1>3. SubSeq(list, at + 2, Len(list)) \in Seq(Addr)
  <2>1. Len(list) \in Nat /\ at + 2 \in Int
    BY <1>1, LenProperties
  <2>2. \A i \in at + 2 .. Len(list) : list[i] \in Addr
    BY <1>1, <1>2, <2>1
  <2> QED BY <2>1, <2>2, SubSeqProperties
<1>4. <<>> \in Seq(Addr)
  BY EmptySeq
<1>5. Append(SubSeq(list, at + 2, Len(list)), past) \in Seq(Addr)
  BY <1>3, AppendProperties
<1> QED BY <1>4, <1>5 DEF Peeked, at

\* One address in front of a list of them.
LEMMA AddressInFront ==
  ASSUME NEW S, NEW d \in S, NEW list \in Seq(S)
  PROVE  /\ <<d>> \o list \in Seq(S)
         /\ <<d>> \o list # <<>>
         /\ (<<d>> \o list)[1] = d
         /\ Len(<<d>> \o list) = 1 + Len(list)
         /\ \A i \in 1 .. Len(list) : (<<d>> \o list)[i + 1] = list[i]
<1>1. <<d>> \in Seq(S) /\ Len(<<d>>) = 1 /\ <<d>>[1] = d
  OBVIOUS
<1>2. Len(list) \in Nat
  BY LenProperties
<1>3. /\ <<d>> \o list \in Seq(S)
      /\ Len(<<d>> \o list) = 1 + Len(list)
      /\ \A i \in 1 .. 1 + Len(list) :
           (<<d>> \o list)[i] = IF i <= 1 THEN <<d>>[i] ELSE list[i - 1]
  BY <1>1, ConcatProperties
<1>4. \A i \in 1 .. Len(list) : i + 1 \in 1 .. 1 + Len(list) /\ ~(i + 1 <= 1)
                               /\ i + 1 - 1 = i
  BY <1>2
<1>5. <<d>> \o list # <<>>
  BY <1>2, <1>3, EmptySeq
<1> QED BY <1>1, <1>2, <1>3, <1>4, <1>5

\* Whatever a node peeks at, its routes lead to neighbours.
LEMMA PeekKeepsTables ==
  ASSUME TypeInv, HopsInv, NEW n \in Node, NEW m \in Messages,
         NEW f \in Neighbours(n), NEW past \in Addr
  PROVE  PeekAtMessage(n, m, f, past) \in TablesTo(Neighbours(n))
<1>1. routes[n] \in TablesTo(Neighbours(n)) /\ f \in Addr
  BY NeighboursAreNodes DEF TypeInv, HopsInv, TablesTo
<1>2. CASE m.type = "response"
  <2>1. m.about \in Addr /\ m.list \in Seq(Node)
    BY <1>2 DEF Messages
  <2>2. <<m.about>> \o Peeked(n, m.list, past) \in Seq(Addr)
    BY <2>1, PeekedAreAddresses, AddressInFront
  <2> QED BY <1>1, <1>2, <2>2, AddRoutesKeepTables DEF PeekAtMessage
<1>3. CASE m.type = "failure"
  BY <1>1, <1>3, UpdatesKeepTables DEF PeekAtMessage, Messages
<1>4. CASE m.type \notin {"response", "failure"}
  BY <1>1, <1>4 DEF PeekAtMessage
<1> QED BY <1>2, <1>3, <1>4

-----------------------------------------------------------------------------
(* How messages move.                                                      *)

\* What node n may be left with to route: nothing, or a message of its own or
\* from a neighbour, whose list, if it is a discovery, is a path to n.
MayRoute(n, y) ==
  \/ y = Nothing
  \/ /\ y \in Held
     /\ y.from \in Neighbours(n) \/ y.msg.src = n
     /\ IsDiscovery(y.msg) => IsPath(Path(y.msg)) /\ EndsAt(y.msg, n)

Placed ==
  /\ inbox \in [Node -> Held \cup {Nothing}]
  /\ out \in [Node -> Held \cup {Nothing}]
  /\ OneAtATime /\ PathInv

\* Those of R, idle neighbours of n, take what n routes.
LEMMA HandOn ==
  ASSUME Placed, NEW n \in Node, out[n] # Nothing,
         NEW R, R \subseteq {r \in Neighbours(n) : Idle(r)}, Take(n, out[n].msg, R),
         NEW y, MayRoute(n, y), out' = [out EXCEPT ![n] = y]
  PROVE  Placed'
<1> DEFINE h == [msg |-> out[n].msg, from |-> n]
<1>1. out[n] \in Held /\ out[n].msg \in Messages
  BY HeldIsNotNothing DEF Placed
<1>2. h \in Held /\ h # Nothing /\ h.msg = out[n].msg /\ h.from = n
  BY <1>1, HeldIsNotNothing DEF Held
<1> HIDE DEF h
<1>3. \A x \in Node : out'[x] = IF x = n THEN y ELSE out[x]
  BY DEF Placed
<1>4. \A x \in Node : inbox'[x] = IF x \in R THEN h ELSE inbox[x]
  BY DEF Take, h
<1>5. inbox' \in [Node -> Held \cup {Nothing}] /\ out' \in [Node -> Held \cup {Nothing}]
  BY <1>2 DEF Placed, Take, MayRoute, h
<1>6. n \notin R /\ \A r \in R : /\ r \in Node /\ n \in Neighbours(r)
                                 /\ inbox[r] = Nothing /\ out[r] = Nothing
  BY NeighboursAreNodes DEF Idle
<1>7. inbox[n] = Nothing
  BY DEF Placed, OneAtATime
<1>8. OneAtATime'
  BY <1>2, <1>3, <1>4, <1>6, <1>7 DEF Placed, OneAtATime, MayRoute
<1>9. PathInv'
  BY <1>2, <1>3, <1>4, <1>6 DEF Placed, PathInv, MayRoute
<1> QED BY <1>5, <1>8, <1>9 DEF Placed

\* n has taken what it had received out of the buffer, and routes y.
LEMMA TakeOut ==
  ASSUME Placed, NEW n \in Node, inbox' = [inbox EXCEPT ![n] = Nothing],
         NEW y, MayRoute(n, y), out' = [out EXCEPT ![n] = y]
  PROVE  Placed'
<1>1. \A x \in Node : /\ out'[x] = IF x = n THEN y ELSE out[x]
                      /\ inbox'[x] = IF x = n THEN Nothing ELSE inbox[x]
  BY DEF Placed
<1>2. inbox' \in [Node -> Held \cup {Nothing}] /\ out' \in [Node -> Held \cup {Nothing}]
  BY DEF Placed, MayRoute
<1>3. OneAtATime'
  BY <1>1 DEF Placed, OneAtATime, MayRoute
<1>4. PathInv'
  BY <1>1 DEF Placed, PathInv, MayRoute
<1> QED BY <1>2, <1>3, <1>4 DEF Placed

-----------------------------------------------------------------------------
(* The lists of discoveries.                                               *)

\* A request that starts has been at its originator.
LEMMA RequestStarts ==
  ASSUME NEW n \in Node, NEW d \in Addr
  PROVE  IsPath(Path(Request(n, d))) /\ EndsAt(Request(n, d), n)
<1>1. Path(Request(n, d)) = <<n>> \o <<>>
  BY DEF Path, Origin, Request, Routed
<1>2. <<n>> \o <<>> = <<n>>
  BY ConcatEmptySeq, <<n>> \in Seq(Node)
<1> QED BY <1>1, <1>2 DEF IsPath, EndsAt

\* The path of a discovery message.
LEMMA PathOf ==
  ASSUME NEW m \in Messages, m.type \in {"request", "response"}, Origin(m) \in Node
  PROVE  /\ Path(m) \in Seq(Node) /\ Len(Path(m)) = 1 + Len(m.list)
         /\ Len(m.list) \in Nat /\ DOMAIN Path(m) = 1 .. 1 + Len(m.list)
         /\ Path(m)[1] = Origin(m)
         /\ \A i \in 1 .. Len(m.list) : Path(m)[i + 1] = m.list[i]
<1>1. m.list \in Seq(Node)
  BY DEF Messages
<1>2. Len(m.list) \in Nat
  BY <1>1, LenProperties
<1>3. /\ Path(m) \in Seq(Node) /\ Len(Path(m)) = 1 + Len(m.list)
      /\ Path(m)[1] = Origin(m)
      /\ \A i \in 1 .. Len(m.list) : Path(m)[i + 1] = m.list[i]
  BY <1>1, AddressInFront DEF Path
<1> QED BY <1>2, <1>3, LenProperties

\* A node that passes a request on has not been on its path, and is a
\* neighbour of the last node that was.
LEMMA PathGrows ==
  ASSUME NEW n \in Node, NEW m \in Messages, m.type = "request", ~IsKnown(n, m),
         NEW f \in Neighbours(n), IsPath(Path(m)), EndsAt(m, f)
  PROVE  IsPath(Path(PassedOn(n, m))) /\ EndsAt(PassedOn(n, m), n)
<1> DEFINE p == Path(m)
           q == Path(PassedOn(n, m))
<1>1. PassedOn(n, m) \in Messages
  BY MessagesMade
<1>2. /\ PassedOn(n, m).type = "request" /\ Origin(PassedOn(n, m)) = m.src
      /\ PassedOn(n, m).list = Append(m.list, n) /\ Origin(m) = m.src
      /\ m.src \in Node /\ m.list \in Seq(Node)
  BY DEF PassedOn, Routed, Origin, Messages
<1>3. PICK N \in Nat : N = Len(m.list)
  BY <1>2, LenProperties
<1>4. /\ Len(Append(m.list, n)) = N + 1
      /\ \A i \in 1 .. N : Append(m.list, n)[i] = m.list[i]
      /\ Append(m.list, n)[N + 1] = n
  BY <1>2, <1>3, AppendProperties
<1>5. /\ DOMAIN p = 1 .. N + 1 /\ Len(p) = N + 1 /\ p[1] = m.src
      /\ \A i \in 1 .. N : p[i + 1] = m.list[i]
  BY <1>2, <1>3, PathOf
<1>6. /\ DOMAIN q = 1 .. N + 2 /\ Len(q) = N + 2 /\ q[1] = m.src
      /\ \A i \in 1 .. N + 1 : q[i + 1] = Append(m.list, n)[i]
  <2>1. Len(PassedOn(n, m).list) = N + 1 /\ 1 + (N + 1) = N + 2
    BY <1>2, <1>4
  <2> QED BY <1>1, <1>2, <2>1, PathOf
<1>7. DOMAIN m.list = 1 .. N
  BY <1>2, <1>3, LenProperties
<1> HIDE DEF p, q
<1>8. q[N + 2] = n /\ \A i \in 1 .. N + 1 : q[i] = p[i]
  <2>1. q[N + 2] = n
    BY <1>4, <1>6, N + 1 \in 1 .. N + 1
  <2>2. \A i \in 1 .. N : q[i + 1] = p[i + 1]
    <3>1. ASSUME NEW i \in 1 .. N
          PROVE  q[i + 1] = p[i + 1]
      <4>1. q[i + 1] = Append(m.list, n)[i]
        BY <1>6, i \in 1 .. N + 1
      <4> QED BY <1>4, <1>5, <4>1
    <3> QED BY <3>1
  <2>3. \A i \in 1 .. N + 1 : i = 1 \/ (i - 1 \in 1 .. N /\ i - 1 + 1 = i)
    OBVIOUS
  <2> QED BY <1>5, <1>6, <2>1, <2>2, <2>3
<1>9. \A i \in 1 .. N + 1 : p[i] # n
  <2>1. \A i \in 1 .. N : p[i + 1] # n
    BY <1>5, <1>7 DEF IsKnown
  <2>2. \A i \in 1 .. N + 1 : i = 1 \/ (i - 1 \in 1 .. N /\ i - 1 + 1 = i)
    OBVIOUS
  <2> QED BY <1>5, <2>1, <2>2 DEF IsKnown
<1>10. {p[N + 1], n} \in Links
  BY <1>5, NeighboursAreNodes DEF EndsAt, p
<1>11. IsPath(q)
  <2>1. ASSUME NEW i \in 1 .. N + 2, NEW j \in 1 .. N + 2, q[i] = q[j]
        PROVE  i = j
    <3>1. \A k \in 1 .. N + 2 : k = N + 2 \/ k \in 1 .. N + 1
      OBVIOUS
    <3>2. \A k, l \in 1 .. N + 1 : p[k] = p[l] => k = l
      BY <1>5 DEF IsPath, p
    <3> QED BY <1>8, <1>9, <2>1, <3>1, <3>2
  <2>2. ASSUME NEW i \in 1 .. N + 1
        PROVE  {q[i], q[i + 1]} \in Links
    <3>1. CASE i = N + 1
      BY <1>8, <1>10, <3>1, N + 1 \in 1 .. N + 1, N + 1 + 1 = N + 2
    <3>2. CASE i \in 1 .. N
      <4>1. i \in 1 .. N + 1 /\ i + 1 \in 1 .. N + 1 /\ i \in 1 .. (N + 1) - 1
        BY <3>2
      <4>2. {p[i], p[i + 1]} \in Links
        BY <1>5, <4>1 DEF IsPath, p
      <4> QED BY <1>8, <4>1, <4>2
    <3> QED BY <3>1, <3>2
  <2>3. (N + 2) - 1 = N + 1
    OBVIOUS
  <2> QED BY <1>6, <2>1, <2>2, <2>3 DEF IsPath
<1>12. EndsAt(PassedOn(n, m), n)
  BY <1>6, <1>8 DEF EndsAt, q
<1> QED BY <1>11, <1>12 DEF q

\* The path of the response is the path of the request it answers.
LEMMA PathIsAnswered ==
  ASSUME NEW n \in Node, NEW m \in Messages, m.type = "request", IsPath(Path(m))
  PROVE  IsPath(Path(Answer(n, m))) /\ EndsAt(Answer(n, m), n)
BY DEF Answer, Routed, Path, Origin, EndsAt

-----------------------------------------------------------------------------
(* Where the message of a call is.                                         *)

SameCall(k) == k \in DOMAIN calls => /\ k \in DOMAIN calls'
                                    /\ calls'[k].to = calls[k].to

LEMMA ResultKeepsCalls ==
  ASSUME calls \in Seq(Calls), NEW k, NEW r \in {"pending", "ok", "failed"}, Result(k, r)
  PROVE  calls' \in Seq(Calls) /\ \A j \in Nat : SameCall(j)
<1>1. PICK N \in Nat : N = Len(calls) /\ calls \in [1 .. N -> Calls]
  BY LenProperties
<1>2. calls' = [i \in 1 .. N |-> IF i = k THEN [calls[i] EXCEPT !.result = r]
                                         ELSE calls[i]]
  BY <1>1 DEF Result
<1>3. \A i \in 1 .. N : calls'[i] \in Calls /\ calls'[i].to = calls[i].to
  <2>1. \A i \in 1 .. N : calls[i] \in Calls
    BY <1>1
  <2> QED BY <1>2, <2>1 DEF Calls
<1>4. calls' \in [1 .. N -> Calls]
  BY <1>2, <1>3
<1>5. calls' \in Seq(Calls)
  BY <1>1, <1>4, SeqDef
<1> QED BY <1>1, <1>2, <1>3, <1>5 DEF SameCall

\* A message that stays at its node, or is made by the node that waits for a
\* route for it, or is dropped.
LEMMA CallStays ==
  ASSUME NEW k \in Nat, CallInv(k), SameCall(k),
         \A x \in Node :
           /\ Carries(inbox[x], k)' => inbox'[x] = inbox[x]
           /\ Carries(out[x], k)' =>
                \/ out'[x] = out[x]
                \/ Carries(inbox[x], k) /\ out'[x].msg.dest = inbox[x].msg.dest
                \/ Waits(x, k) /\ ~Waits(x, k)' /\ out'[x].msg.dest = arp[x]
           /\ Waits(x, k)' => Waits(x, k) /\ arp'[x] = arp[x]
           /\ \A i \in DOMAIN got'[x] : got'[x][i] = k =>
                i \in DOMAIN got[x] /\ got[x][i] = k
  PROVE  CallInv(k)'
<1>1. ASSUME NEW x \in Node
      PROVE  /\ Holds(x, k)' => Holds(x, k)
             /\ Returned(x, k)' => Returned(x, k)
  BY DEF Holds, Returned
<1>2. InOnePlace(k)'
  <2>1. ASSUME NEW x \in Node, Waits(x, k)'
        PROVE  ~Carries(inbox[x], k)' /\ ~Carries(out[x], k)'
    <3>1. Waits(x, k) /\ ~Carries(inbox[x], k) /\ ~Carries(out[x], k)
      BY <2>1 DEF CallInv, InOnePlace
    <3> QED BY <2>1, <3>1 DEF Carries
  <2>2. ASSUME NEW x \in Node, Holds(x, k)', NEW o \in Node
        PROVE  (Holds(o, k)' => o = x) /\ ~Returned(o, k)'
    <3>1. Holds(x, k) => (Holds(o, k) => o = x) /\ ~Returned(o, k)
      BY DEF CallInv, InOnePlace
    <3> QED BY <1>1, <2>2, <3>1
  <2>3. ASSUME NEW x \in Node, NEW i \in DOMAIN got'[x], NEW j \in DOMAIN got'[x],
               got'[x][i] = k, got'[x][j] = k
        PROVE  i = j
    BY <2>3 DEF CallInv, InOnePlace
  <2> QED BY <2>1, <2>2, <2>3 DEF InOnePlace
<1>3. ASSUME NEW x \in Node
      PROVE  Addressed(x, k)'
  BY <1>1 DEF CallInv, Addressed, SameCall, Holds
<1> QED BY <1>2, <1>3 DEF CallInv

\* A message that another node takes, which holds none.
LEMMA CallMoves ==
  ASSUME NEW k \in Nat, CallInv(k), SameCall(k), NEW n \in Node, NEW r \in Node, r # n,
         Carries(out[n], k), ~Carries(out[n], k)', ~Carries(inbox[n], k),
         inbox'[r].msg = out[n].msg,
         \A x \in Node : x # r => inbox'[x] = inbox[x],
         \A x \in Node : x # n => out'[x] = out[x],
         UNCHANGED <<arp, cur, got>>
  PROVE  CallInv(k)'
<1>1. \A x \in Node : Holds(x, k) => x = n
  BY DEF CallInv, InOnePlace, Holds
<1>2. \A x \in Node : Waits(x, k)' <=> Waits(x, k)
  BY DEF Waits
<1>3. ~Waits(n, k)
  BY DEF CallInv, InOnePlace
<1>4. \A x \in Node : /\ Holds(x, k)' => x = r
                      /\ ~Carries(out[x], k)' /\ ~Waits(x, k)'
  BY <1>1, <1>2, <1>3 DEF Holds
<1>5. \A x \in Node : ~Returned(x, k)'
  BY DEF CallInv, InOnePlace, Holds, Returned
<1>6. InOnePlace(k)'
  BY <1>4, <1>5 DEF CallInv, InOnePlace
<1>7. ASSUME NEW x \in Node
      PROVE  Addressed(x, k)'
  BY <1>1, <1>4, <1>5 DEF CallInv, Addressed, SameCall, Holds
<1> QED BY <1>6, <1>7 DEF CallInv

\* A message that recvfromAck() returns.
LEMMA CallReturns ==
  ASSUME NEW k \in Nat, CallInv(k), SameCall(k), NEW n \in Node, got[n] \in Seq(Nat),
         Carries(inbox[n], k), inbox[n].msg.dest = n, out[n] = Nothing,
         ~Carries(inbox[n], k)',
         got'[n] = Append(got[n], k),
         \A x \in Node : x # n => inbox'[x] = inbox[x] /\ got'[x] = got[x],
         UNCHANGED <<out, arp, cur>>
  PROVE  CallInv(k)'
<1>1. \A x \in Node : /\ Holds(x, k) => x = n
                      /\ ~Returned(x, k)
  BY DEF CallInv, InOnePlace, Holds
<1>2. \A x \in Node : Waits(x, k)' <=> Waits(x, k)
  BY DEF Waits
<1>3. ~Waits(n, k) /\ ~Carries(out[n], k)
  BY DEF CallInv, InOnePlace, Carries
<1>4. \A x \in Node : ~Holds(x, k)'
  BY <1>1, <1>2, <1>3 DEF Holds
<1>5. \A x \in Node : Returned(x, k)' => x = n
  BY <1>1 DEF Returned
<1>6. PICK N \in Nat : DOMAIN got[n] = 1 .. N /\ N = Len(got[n])
  BY LenProperties
<1>7. /\ DOMAIN got'[n] = 1 .. N + 1 /\ got'[n][N + 1] = k
      /\ \A i \in 1 .. N : got'[n][i] = got[n][i]
  BY <1>6, AppendProperties, LenProperties
<1>8. \A i \in 1 .. N : got[n][i] # k
  BY <1>1, <1>6 DEF Returned
<1>9. ASSUME NEW x \in Node, NEW i \in DOMAIN got'[x], NEW j \in DOMAIN got'[x],
             got'[x][i] = k, got'[x][j] = k
      PROVE  i = j
  <2>1. x = n
    BY <1>5, <1>9 DEF Returned
  <2>2. \A l \in 1 .. N + 1 : l \in 1 .. N \/ l = N + 1
    OBVIOUS
  <2> QED BY <1>7, <1>8, <1>9, <2>1, <2>2
<1>10. InOnePlace(k)'
  BY <1>4, <1>9 DEF InOnePlace, Holds
<1>11. ASSUME NEW x \in Node
       PROVE  Addressed(x, k)'
  BY <1>4, <1>5 DEF CallInv, Addressed, SameCall, Holds
<1> QED BY <1>10, <1>11 DEF CallInv

\* A call that begins: nobody has seen its message yet.
LEMMA CallBegins ==
  ASSUME NEW k \in Nat, CallInv(k), k \notin DOMAIN calls, NEW n \in Node,
         DOMAIN calls' = DOMAIN calls \cup {k},
         \A x \in Node : x # n => out'[x] = out[x] /\ arp'[x] = arp[x] /\ cur'[x] = cur[x],
         Carries(out[n], k)' => out'[n].msg.dest = calls'[k].to /\ ~Waits(n, k)',
         Waits(n, k)' => arp'[n] = calls'[k].to,
         UNCHANGED <<inbox, got>>
  PROVE  CallInv(k)'
<1>1. \A x \in Node : ~Holds(x, k) /\ ~Returned(x, k)
  BY DEF CallInv, Addressed
<1>2. \A x \in Node : x # n => ~Waits(x, k)' /\ ~Carries(out[x], k)'
  BY <1>1 DEF Holds, Waits
<1>3. \A x \in Node : ~Carries(inbox[x], k)' /\ ~Returned(x, k)'
  BY <1>1 DEF Holds, Returned
<1>4. \A x \in Node : Holds(x, k)' => x = n
  BY <1>2, <1>3 DEF Holds
<1>5. InOnePlace(k)'
  <2>1. Waits(n, k)' => ~Carries(inbox[n], k)' /\ ~Carries(out[n], k)'
    BY <1>3
  <2>2. \A x \in Node : Waits(x, k)' => x = n
    BY <1>2
  <2>3. ASSUME NEW x \in Node, NEW i \in DOMAIN got'[x], got'[x][i] = k
        PROVE  FALSE
    BY <1>3, <2>3 DEF Returned
  <2> QED BY <1>3, <1>4, <2>1, <2>2, <2>3 DEF InOnePlace
<1>6. ASSUME NEW x \in Node
      PROVE  Addressed(x, k)'
  BY <1>2, <1>3, <1>4 DEF Addressed
<1> QED BY <1>5, <1>6 DEF CallInv

-----------------------------------------------------------------------------
(* The steps that send.                                                    *)

LEMMA InvIsPlaced == Inv => Placed
BY DEF Inv, TypeInv, Placed

LEMMA TablesChange ==
  ASSUME TypeInv, HopsInv, NEW n \in Node, NEW t \in TablesTo(Neighbours(n)),
         routes' = [routes EXCEPT ![n] = t]
  PROVE  routes' \in [Node -> Table] /\ HopsInv'
<1>1. t \in Table /\ HopsIn(t, Neighbours(n))
  BY DEF TablesTo
<1>2. \A x \in Node : routes'[x] = IF x = n THEN t ELSE routes[x]
  BY DEF TypeInv
<1>3. HopsInv'
  BY <1>1, <1>2 DEF HopsInv
<1> QED BY <1>1, <1>3 DEF TypeInv

\* An answer is made where its table is changed, and nowhere else.
LEMMA AnswerStays ==
  ASSUME AnswerIsRoutable, NEW n \in Node,
         \A x \in Node : x # n => out'[x] = out[x] /\ routes'[x] = routes[x],
         \/ out'[n] = Nothing
         \/ out'[n].msg.type # "response" \/ out'[n].msg.hops # 0
         \/ HasRoute(routes'[n], out'[n].msg.dest) \/ Full(routes'[n])
  PROVE  AnswerIsRoutable'
BY DEF AnswerIsRoutable, Full

\* Those of R take what n routes: at most one of them an application message.
LEMMA CallsHandedOn ==
  ASSUME Inv, NEW n \in Node, out[n] # Nothing,
         NEW R, R \subseteq {r \in Neighbours(n) : Idle(r)}, Take(n, out[n].msg, R),
         out[n].msg.type = "application" => \A r, q \in R : r = q,
         NEW y, y = Nothing \/ y.msg.type = "failure", out' = [out EXCEPT ![n] = y],
         UNCHANGED <<arp, cur, got>>, NEW k \in Nat, SameCall(k)
  PROVE  CallInv(k)'
<1> DEFINE h == [msg |-> out[n].msg, from |-> n]
<1>1. h # Nothing /\ h.msg = out[n].msg
  BY HeldIsNotNothing
<1> HIDE DEF h
<1>2. \A x \in Node : out'[x] = IF x = n THEN y ELSE out[x]
  BY DEF Inv, TypeInv
<1>3. \A x \in Node : inbox'[x] = IF x \in R THEN h ELSE inbox[x]
  BY DEF Take, h
<1>4. CallInv(k) /\ inbox[n] = Nothing
  BY DEF Inv, CallsInv, OneAtATime
<1>5. \A r \in R : r \in Node /\ r # n
  BY NeighboursAreNodes
<1>6. ~Carries(out[n], k)' /\ ~Carries(inbox[n], k)
  BY <1>2, <1>4 DEF Carries
<1>7. CASE Carries(out[n], k) /\ R # {}
  <2>1. PICK r \in R : \A q \in R : q = r
    BY <1>7 DEF Carries
  <2> QED BY <1>1, <1>2, <1>3, <1>4, <1>5, <1>6, <1>7, <2>1, CallMoves
<1>8. CASE ~Carries(out[n], k) \/ R = {}
  <2>1. ASSUME NEW x \in Node
        PROVE  /\ Carries(inbox[x], k)' => inbox'[x] = inbox[x]
               /\ Carries(out[x], k)' => out'[x] = out[x]
               /\ Waits(x, k)' => Waits(x, k) /\ arp'[x] = arp[x]
    BY <1>1, <1>2, <1>3, <1>6, <1>8 DEF Carries, Waits
  <2> QED BY <1>4, <2>1, CallStays
<1> QED BY <1>7, <1>8

LEMMA RouteBroadcastKeeps ==
  ASSUME Inv, NEW n \in Node, RouteBroadcast(n)
  PROVE  Inv'
<1>1. PICK R \in SUBSET {r \in Neighbours(n) : Idle(r)} : Take(n, out[n].msg, R)
  BY DEF RouteBroadcast
<1>2. /\ out[n] # Nothing /\ out' = [out EXCEPT ![n] = Nothing]
      /\ UNCHANGED <<routes, arp, cur, calls, got>>
  BY DEF RouteBroadcast
<1>3. out[n].msg.type = "request"
  BY <1>2, HeldIsNotNothing DEF RouteBroadcast, Inv, TypeInv, Messages
<1>4. Placed'
  BY <1>1, <1>2, InvIsPlaced, HandOn DEF MayRoute
<1>5. CallsInv'
  <2>1. ASSUME NEW k \in Nat
        PROVE  CallInv(k)'
    <3>1. SameCall(k)
      BY <1>2 DEF SameCall
    <3> QED BY <1>1, <1>2, <1>3, <3>1, CallsHandedOn
  <2> QED BY <2>1 DEF CallsInv
<1>6. AnswerIsRoutable'
  <2>1. \A x \in Node : out'[x] = IF x = n THEN Nothing ELSE out[x]
    BY <1>2 DEF Inv, TypeInv
  <2> QED BY <1>2, <2>1, AnswerStays DEF Inv
<1> QED BY <1>2, <1>4, <1>5, <1>6 DEF Inv, Placed, TypeInv, HopsInv

\* A node that could not send on a message is rid of it, and of the route.
LEMMA UnroutableLeaves ==
  ASSUME Inv, NEW n \in Node, out[n] # Nothing, out[n].msg.dest # Broadcast,
         Unroutable(n)
  PROVE  /\ \E y : /\ MayRoute(n, y) /\ out' = [out EXCEPT ![n] = y]
                   /\ y = Nothing \/ y.msg.type = "failure"
         /\ \E t \in TablesTo(Neighbours(n)) : routes' = [routes EXCEPT ![n] = t]
         /\ calls' \in Seq(Calls) /\ \A k \in Nat : SameCall(k)
<1> DEFINE m == out[n].msg
<1>1. /\ out[n] \in Held /\ m \in Messages /\ m.src \in Node /\ m.dest \in Addr
      /\ m.src \in Addr
  BY HeldIsNotNothing, MeshAssumption DEF Inv, TypeInv, Messages
<1>2. DeleteRouteTo(routes[n], m.dest) \in TablesTo(Neighbours(n))
  BY <1>1, UpdatesKeepTables DEF Inv, TypeInv, HopsInv, TablesTo
<1>3. UNCHANGED calls => calls' \in Seq(Calls) /\ \A k \in Nat : SameCall(k)
  BY DEF SameCall, Inv, TypeInv
<1>4. CASE m.src = n
  <2>1. calls' \in Seq(Calls) /\ \A k \in Nat : SameCall(k)
    <3>1. UNCHANGED calls \/ Result(m.call, "failed")
      BY <1>4 DEF Unroutable
    <3> QED BY <1>3, <3>1, ResultKeepsCalls DEF Inv, TypeInv
  <2> QED BY <1>2, <1>4, <2>1 DEF Unroutable, MayRoute
<1>5. CASE m.src # n
  <2>1. out[n].from \in Neighbours(n) /\ out[n].from \in Addr
    BY <1>5, NeighboursAreNodes DEF Inv, OneAtATime
  <2> DEFINE y == [msg |-> Failure(n, m.src, m.dest), from |-> n]
             t == AddRouteTo(DeleteRouteTo(routes[n], m.dest), m.src, out[n].from, "Valid")
  <2>2. t \in TablesTo(Neighbours(n))
    BY <1>1, <1>2, <2>1, UpdatesKeepTables
  <2>3. /\ y \in Held /\ y.msg.type = "failure" /\ y.msg.src = n
        /\ ~IsDiscovery(y.msg)
    BY <1>1, MessagesMade DEF Held, Failure, Routed, IsDiscovery
  <2>4. routes' = [routes EXCEPT ![n] = t] /\ out' = [out EXCEPT ![n] = y]
        /\ UNCHANGED calls
    BY <1>5 DEF Unroutable, Route
  <2>5. MayRoute(n, y)
    BY <2>3 DEF MayRoute
  <2> HIDE DEF y, t
  <2> QED BY <1>3, <2>2, <2>3, <2>4, <2>5
<1> QED BY <1>4, <1>5

\* The next hop is one node.
LEMMA TakersAreOne ==
  ASSUME NEW n \in Node
  PROVE  /\ Takers(n) \subseteq {r \in Neighbours(n) : Idle(r)}
         /\ \A r, q \in Takers(n) : r = q
BY DEF Takers

LEMMA RouteSucceedsKeeps ==
  ASSUME Inv, NEW n \in Node, RouteSucceeds(n)
  PROVE  Inv'
<1>1. /\ out[n] # Nothing /\ Take(n, out[n].msg, Takers(n))
      /\ out' = [out EXCEPT ![n] = Nothing]
      /\ UNCHANGED <<routes, arp, cur, got>>
      /\ UNCHANGED calls \/ Result(out[n].msg.call, "ok")
  BY DEF RouteSucceeds, Routable
<1>2. calls' \in Seq(Calls) /\ \A k \in Nat : SameCall(k)
  <2>1. UNCHANGED calls => calls' \in Seq(Calls) /\ \A k \in Nat : SameCall(k)
    BY DEF SameCall, Inv, TypeInv
  <2> QED BY <1>1, <2>1, ResultKeepsCalls DEF Inv, TypeInv
<1>3. Placed'
  BY <1>1, TakersAreOne, InvIsPlaced, HandOn DEF MayRoute
<1>4. ASSUME NEW k \in Nat
      PROVE  CallInv(k)'
  BY <1>1, <1>2, TakersAreOne, CallsHandedOn
<1>5. AnswerIsRoutable'
  <2>1. \A x \in Node : out'[x] = IF x = n THEN Nothing ELSE out[x]
    BY <1>1 DEF Inv, TypeInv
  <2> QED BY <1>1, <2>1, AnswerStays DEF Inv
<1> QED BY <1>1, <1>2, <1>3, <1>4, <1>5 DEF Inv, Placed, TypeInv, HopsInv, CallsInv

\* The nodes R take what n could not send on, as far as n knows.
LEMMA UnroutableKeeps ==
  ASSUME Inv, NEW n \in Node, out[n] # Nothing, out[n].msg.dest # Broadcast,
         NEW R \in SUBSET Takers(n), Take(n, out[n].msg, R), Unroutable(n),
         UNCHANGED <<arp, cur, got>>
  PROVE  Inv'
<1>1. PICK y : /\ MayRoute(n, y) /\ out' = [out EXCEPT ![n] = y]
               /\ y = Nothing \/ y.msg.type = "failure"
  BY UnroutableLeaves
<1>2. PICK t \in TablesTo(Neighbours(n)) : routes' = [routes EXCEPT ![n] = t]
  BY UnroutableLeaves
<1>3. calls' \in Seq(Calls) /\ \A k \in Nat : SameCall(k)
  BY UnroutableLeaves
<1>4. routes' \in [Node -> Table] /\ HopsInv'
  BY <1>2, TablesChange DEF Inv
<1>5. Placed'
  BY <1>1, TakersAreOne, InvIsPlaced, HandOn
<1>6. ASSUME NEW k \in Nat
      PROVE  CallInv(k)'
  <2>1. R \subseteq {r \in Neighbours(n) : Idle(r)} /\ \A r, q \in R : r = q
    BY TakersAreOne
  <2> QED BY <1>1, <1>3, <2>1, CallsHandedOn
<1>7. AnswerIsRoutable'
  <2>1. \A x \in Node : /\ out'[x] = IF x = n THEN y ELSE out[x]
                        /\ x # n => routes'[x] = routes[x]
    BY <1>1, <1>2 DEF Inv, TypeInv
  <2> QED BY <1>1, <2>1, AnswerStays DEF Inv
<1> QED BY <1>3, <1>4, <1>5, <1>6, <1>7 DEF Inv, Placed, TypeInv, CallsInv

LEMMA RouteFailsKeeps ==
  ASSUME Inv, NEW n \in Node, RouteFails(n)
  PROVE  Inv'
BY UnroutableKeeps DEF RouteFails, Routable

LEMMA NoRouteKeeps ==
  ASSUME Inv, NEW n \in Node, NoRoute(n)
  PROVE  Inv'
<1>1. inbox' = [r \in Node |-> inbox[r]]
  BY DEF NoRoute, Inv, TypeInv
<1>2. Take(n, out[n].msg, {})
  BY <1>1 DEF Take
<1> QED BY <1>2, UnroutableKeeps DEF NoRoute

LEMMA SendtoWaitKeeps ==
  ASSUME Inv, NEW n \in Senders, NEW d \in Dests \ {n}, SendtoWait(n, d)
  PROVE  Inv'
<1>1. n \in Node /\ d \in Addr
  BY MeshAssumption
<1>2. PICK k \in Nat : k = Len(calls) + 1
  BY LenProperties DEF Inv, TypeInv
<1>3. /\ calls' = Append(calls, [from |-> n, to |-> d, result |-> "pending"])
      /\ cur' = [cur EXCEPT ![n] = k]
      /\ inbox[n] = Nothing /\ arp[n] = NoOne
      /\ UNCHANGED <<routes, inbox, got>>
  BY <1>2 DEF SendtoWait, Idle
<1>4. /\ calls' \in Seq(Calls) /\ DOMAIN calls' = DOMAIN calls \cup {k}
      /\ k \notin DOMAIN calls /\ calls'[k].to = d /\ \A j \in Nat : SameCall(j)
  <2>1. [from |-> n, to |-> d, result |-> "pending"] \in Calls
    BY <1>1 DEF Calls
  <2>2. calls \in Seq(Calls) /\ Len(calls) \in Nat /\ DOMAIN calls = 1 .. Len(calls)
    BY LenProperties DEF Inv, TypeInv
  <2>3. /\ calls' \in Seq(Calls) /\ Len(calls') = k /\ calls'[k].to = d
        /\ \A j \in 1 .. Len(calls) : calls'[j] = calls[j]
    BY <1>2, <1>3, <2>1, <2>2, AppendProperties
  <2>4. DOMAIN calls' = 1 .. k
    BY <2>3, LenProperties
  <2> QED BY <1>2, <2>2, <2>3, <2>4 DEF SameCall
<1>5. PICK y : /\ MayRoute(n, y) /\ y # Nothing /\ y.msg.type # "response"
               /\ out' = [out EXCEPT ![n] = y]
               /\ \/ UNCHANGED arp /\ y.msg.call = k /\ y.msg.dest = d
                  \/ arp' = [arp EXCEPT ![n] = d] /\ y.msg.type = "request"
  <2>1. CASE HasRoute(routes[n], d)
    <3> DEFINE y == [msg |-> Application(n, d, k), from |-> n]
    <3>1. /\ y \in Held /\ y # Nothing /\ y.msg.type = "application" /\ y.msg.src = n
          /\ y.msg.call = k /\ y.msg.dest = d /\ ~IsDiscovery(y.msg)
      BY <1>1, MessagesMade, HeldIsNotNothing DEF Held, Application, Routed, IsDiscovery
    <3>2. out' = [out EXCEPT ![n] = y] /\ UNCHANGED arp
      BY <1>2, <2>1 DEF SendtoWait, Route
    <3>3. MayRoute(n, y)
      BY <3>1 DEF MayRoute
    <3> HIDE DEF y
    <3> QED BY <3>1, <3>2, <3>3
  <2>2. CASE ~HasRoute(routes[n], d)
    <3> DEFINE y == [msg |-> Request(n, d), from |-> n]
    <3>1. /\ y \in Held /\ y # Nothing /\ y.msg.type = "request" /\ y.msg.src = n
          /\ IsPath(Path(y.msg)) /\ EndsAt(y.msg, n)
      <4>1. Request(n, d).type = "request" /\ Request(n, d).src = n
        BY DEF Request, Routed
      <4> QED BY <1>1, <4>1, MessagesMade, HeldIsNotNothing, RequestStarts DEF Held
    <3>2. out' = [out EXCEPT ![n] = y] /\ arp' = [arp EXCEPT ![n] = d]
      BY <2>2 DEF SendtoWait, Route
    <3>3. MayRoute(n, y)
      BY <3>1 DEF MayRoute
    <3> HIDE DEF y
    <3> QED BY <3>1, <3>2, <3>3
  <2> QED BY <2>1, <2>2
<1>6. Placed'
  <2>1. inbox' = [inbox EXCEPT ![n] = Nothing]
    BY <1>1, <1>3 DEF Inv, TypeInv
  <2> QED BY <1>1, <1>5, <2>1, InvIsPlaced, TakeOut
<1>7. \A x \in Node :
        /\ out'[x] = IF x = n THEN y ELSE out[x]
        /\ cur'[x] = IF x = n THEN k ELSE cur[x]
        /\ x # n => arp'[x] = arp[x]
        /\ arp'[n] = arp[n] \/ arp'[n] = d
  BY <1>1, <1>3, <1>5 DEF Inv, TypeInv
<1>8. ASSUME NEW j \in Nat
      PROVE  CallInv(j)'
  <2>1. CallInv(j)
    BY DEF Inv, CallsInv
  <2>2. CASE j = k
    <3>1. Carries(out[n], k)' => out'[n].msg.dest = calls'[k].to /\ ~Waits(n, k)'
      BY <1>1, <1>3, <1>4, <1>5, <1>7 DEF Carries, Waits
    <3>2. Waits(n, k)' => arp'[n] = calls'[k].to
      BY <1>1, <1>3, <1>4, <1>7 DEF Waits
    <3> QED BY <1>1, <1>3, <1>4, <1>7, <2>1, <2>2, <3>1, <3>2, CallBegins
  <2>3. CASE j # k
    <3>1. ASSUME NEW x \in Node
          PROVE  /\ Carries(inbox[x], j)' => inbox'[x] = inbox[x]
                 /\ Carries(out[x], j)' => out'[x] = out[x]
                 /\ Waits(x, j)' => Waits(x, j) /\ arp'[x] = arp[x]
                 /\ got'[x] = got[x]
      BY <1>3, <1>5, <1>7, <2>3 DEF Carries, Waits
    <3> QED BY <1>4, <2>1, <3>1, CallStays
  <2> QED BY <2>2, <2>3
<1>9. AnswerIsRoutable'
  BY <1>1, <1>3, <1>5, <1>7, AnswerStays DEF Inv
<1>10. arp' \in [Node -> Addr \cup {NoOne}] /\ cur' \in [Node -> Nat]
  BY <1>1, <1>3, <1>5 DEF Inv, TypeInv
<1> QED BY <1>3, <1>4, <1>6, <1>8, <1>9, <1>10 DEF Inv, Placed, TypeInv, HopsInv, CallsInv

-----------------------------------------------------------------------------
(* The steps that receive.                                                 *)

\* What a node has received is a message from a neighbour, and it routes
\* nothing.
LEMMA ReceivedIsHeld ==
  ASSUME Inv, NEW n \in Node, Ready(n)
  PROVE  /\ Msg(n) \in Messages /\ From(n) \in Neighbours(n) /\ From(n) \in Addr
         /\ From(n) \in Node /\ out[n] = Nothing
         /\ IsDiscovery(Msg(n)) => IsPath(Path(Msg(n))) /\ EndsAt(Msg(n), From(n))
BY HeldIsNotNothing, NeighboursAreNodes
   DEF Inv, TypeInv, OneAtATime, PathInv, Ready, Msg, From

LEMMA PeekChangesTables ==
  ASSUME Inv, NEW n \in Node, Ready(n), Peek(n)
  PROVE  \E t \in TablesTo(Neighbours(n)) : routes' = [routes EXCEPT ![n] = t]
BY ReceivedIsHeld, PeekKeepsTables DEF Inv, Peek, UpdateRoutes

\* A step that receives, and may go on with what it has received.
LEMMA Receives ==
  ASSUME Inv, NEW n \in Node, Ready(n), inbox' = [inbox EXCEPT ![n] = Nothing],
         NEW t \in TablesTo(Neighbours(n)), routes' = [routes EXCEPT ![n] = t],
         NEW y, MayRoute(n, y), out' = [out EXCEPT ![n] = y],
         \/ y = Nothing \/ y.msg.type # "response" \/ y.msg.hops # 0
         \/ HasRoute(t, y.msg.dest) \/ Full(t),
         \A k \in Nat : Carries(y, k) =>
           \/ Carries(inbox[n], k) /\ y.msg.dest = Msg(n).dest
           \/ Waits(n, k) /\ ~Waits(n, k)' /\ y.msg.dest = arp[n],
         arp' = arp \/ arp' = [arp EXCEPT ![n] = NoOne],
         UNCHANGED <<cur, calls>>,
         got' \in [Node -> Seq(Nat)],
         \/ UNCHANGED got
         \/ /\ UNCHANGED arp /\ y = Nothing
            /\ got' = [got EXCEPT ![n] = Append(@, Msg(n).call)]
            /\ Msg(n).type = "application" /\ IsForUs(n)
  PROVE  Inv'
<1>1. routes' \in [Node -> Table] /\ HopsInv'
  BY TablesChange DEF Inv
<1>2. Placed'
  BY InvIsPlaced, TakeOut
<1>3. \A x \in Node :
        /\ inbox'[x] = IF x = n THEN Nothing ELSE inbox[x]
        /\ out'[x] = IF x = n THEN y ELSE out[x]
        /\ routes'[x] = IF x = n THEN t ELSE routes[x]
        /\ arp'[x] = arp[x] \/ (x = n /\ arp'[x] = NoOne)
        /\ cur'[x] = cur[x]
  BY DEF Inv, TypeInv
<1>4. AnswerIsRoutable'
  BY <1>3, AnswerStays DEF Inv
<1>5. ASSUME NEW k \in Nat
      PROVE  CallInv(k)'
  <2>1. CallInv(k) /\ SameCall(k)
    BY DEF Inv, CallsInv, SameCall
  <2>2. ASSUME NEW x \in Node
        PROVE  /\ Carries(inbox[x], k)' => inbox'[x] = inbox[x]
               /\ Carries(out[x], k)' =>
                    \/ out'[x] = out[x]
                    \/ Carries(inbox[x], k) /\ out'[x].msg.dest = inbox[x].msg.dest
                    \/ Waits(x, k) /\ ~Waits(x, k)' /\ out'[x].msg.dest = arp[x]
               /\ Waits(x, k)' => Waits(x, k) /\ arp'[x] = arp[x]
    <3>1. CASE x = n
      <4>1. ~Carries(inbox[x], k)'
        BY <1>3, <3>1 DEF Carries
      <4>2. Carries(out[x], k)' => Carries(y, k) /\ out'[x] = y
        BY <1>3, <3>1
      <4>3. Waits(x, k)' => Waits(x, k) /\ arp'[x] = arp[x]
        BY <1>3 DEF Waits
      <4> QED BY <3>1, <4>1, <4>2, <4>3 DEF Msg
    <3>2. CASE x # n
      BY <1>3, <3>2 DEF Waits
    <3> QED BY <3>1, <3>2
  <2>3. CASE UNCHANGED got
    <3>1. \A x \in Node : \A i \in DOMAIN got'[x] : got'[x][i] = k =>
            i \in DOMAIN got[x] /\ got[x][i] = k
      BY <2>3
    <3> QED BY <2>1, <2>2, <3>1, CallStays
  <2>4. CASE /\ UNCHANGED arp /\ y = Nothing
             /\ got' = [got EXCEPT ![n] = Append(@, Msg(n).call)]
             /\ Msg(n).type = "application" /\ IsForUs(n)
    <3>1. got[n] \in Seq(Nat) /\ Msg(n).call \in Nat
      BY ReceivedIsHeld DEF Inv, TypeInv, Messages
    <3>2. \A x \in Node : got'[x] = IF x = n THEN Append(got[n], Msg(n).call) ELSE got[x]
      BY <2>4 DEF Inv, TypeInv
    <3>3. out[n] = Nothing /\ UNCHANGED out
      <4>1. out[n] = Nothing
        BY ReceivedIsHeld
      <4> QED BY <2>4, <4>1 DEF Inv, TypeInv
    <3>4. CASE k = Msg(n).call
      <4>1. Carries(inbox[n], k)
        BY <2>4, <3>4 DEF Carries, Ready, Msg
      <4>2. Msg(n).dest = n
        <5>1. Msg(n).dest # Broadcast
          BY <2>4, ReceivedIsHeld DEF Messages
        <5> QED BY <2>4, <5>1 DEF IsForUs
      <4>3. ~Carries(inbox[n], k)'
        BY <1>3 DEF Carries
      <4>4. inbox[n].msg.dest = n /\ got'[n] = Append(got[n], k)
        BY <3>2, <3>4, <4>2 DEF Msg
      <4>5. \A x \in Node : x # n => inbox'[x] = inbox[x] /\ got'[x] = got[x]
        BY <1>3, <3>2
      <4>6. UNCHANGED <<out, arp, cur>>
        BY <2>4, <3>3
      <4> QED BY <2>1, <3>1, <3>3, <4>1, <4>3, <4>4, <4>5, <4>6, CallReturns
    <3>5. CASE k # Msg(n).call
      <4>1. \A i \in DOMAIN got'[n] : got'[n][i] = k =>
              i \in DOMAIN got[n] /\ got[n][i] = k
        <5>1. PICK N \in Nat : Len(got[n]) = N /\ DOMAIN got[n] = 1 .. N
          BY <3>1, LenProperties
        <5>2. /\ DOMAIN got'[n] = 1 .. N + 1 /\ got'[n][N + 1] = Msg(n).call
              /\ \A i \in 1 .. N : got'[n][i] = got[n][i]
          <6>1. /\ Append(got[n], Msg(n).call) \in Seq(Nat)
                /\ Len(Append(got[n], Msg(n).call)) = N + 1
                /\ Append(got[n], Msg(n).call)[N + 1] = Msg(n).call
                /\ \A i \in 1 .. N : Append(got[n], Msg(n).call)[i] = got[n][i]
            BY <3>1, <5>1, AppendProperties
          <6>2. DOMAIN Append(got[n], Msg(n).call) = 1 .. N + 1
            BY <6>1, LenProperties
          <6> QED BY <3>2, <6>1, <6>2
        <5>3. \A i \in 1 .. N + 1 : i \in 1 .. N \/ i = N + 1
          OBVIOUS
        <5> QED BY <3>5, <5>1, <5>2, <5>3
      <4>2. \A x \in Node : \A i \in DOMAIN got'[x] : got'[x][i] = k =>
              i \in DOMAIN got[x] /\ got[x][i] = k
        BY <3>2, <4>1
      <4> QED BY <2>1, <2>2, <4>2, CallStays
    <3> QED BY <3>4, <3>5
  <2> QED BY <2>3, <2>4
<1>6. arp' \in [Node -> Addr \cup {NoOne}]
  BY DEF Inv, TypeInv
<1>7. cur' \in [Node -> Nat] /\ calls' \in Seq(Calls)
  BY DEF Inv, TypeInv
<1> QED BY <1>1, <1>2, <1>4, <1>5, <1>6, <1>7 DEF Inv, Placed, TypeInv, CallsInv

\* A step after which nothing is left of what was received but the routes.
LEMMA Forgets ==
  ASSUME Inv, NEW n \in Node, Ready(n), inbox' = [inbox EXCEPT ![n] = Nothing],
         UNCHANGED routes \/ Peek(n), UNCHANGED <<out, arp, cur, calls>>,
         \/ UNCHANGED got
         \/ /\ got' = [got EXCEPT ![n] = Append(@, Msg(n).call)]
            /\ Msg(n).type = "application" /\ IsForUs(n)
  PROVE  Inv'
<1>1. PICK t \in TablesTo(Neighbours(n)) : routes' = [routes EXCEPT ![n] = t]
  <2>1. CASE UNCHANGED routes
    <3>1. /\ routes[n] \in TablesTo(Neighbours(n))
          /\ routes' = [routes EXCEPT ![n] = routes[n]]
      BY <2>1 DEF Inv, TypeInv, HopsInv, TablesTo
    <3> QED BY <3>1
  <2> QED BY <2>1, PeekChangesTables
<1>2. out' = [out EXCEPT ![n] = Nothing] /\ MayRoute(n, Nothing)
  <2>1. out[n] = Nothing
    BY ReceivedIsHeld
  <2> QED BY <2>1 DEF Inv, TypeInv, MayRoute
<1>3. got' \in [Node -> Seq(Nat)]
  <2>1. Append(got[n], Msg(n).call) \in Seq(Nat)
    <3>1. got[n] \in Seq(Nat) /\ Msg(n).call \in Nat
      BY ReceivedIsHeld DEF Inv, TypeInv, Messages
    <3> QED BY <3>1, AppendProperties
  <2> QED BY <2>1 DEF Inv, TypeInv
<1>4. \A k : ~Carries(Nothing, k)
  BY DEF Carries
<1> QED BY <1>1, <1>2, <1>3, <1>4, Receives

LEMMA DeliverKeeps ==
  ASSUME Inv, NEW n \in Node, Deliver(n)
  PROVE  Inv'
BY Forgets DEF Deliver, Receive

LEMMA RecvSignalKeeps ==
  ASSUME Inv, NEW n \in Node, RecvSignal(n)
  PROVE  Inv'
BY Forgets DEF RecvSignal, Receive

LEMMA IgnoreRequestKeeps ==
  ASSUME Inv, NEW n \in Node, IgnoreRequest(n)
  PROVE  Inv'
BY Forgets DEF IgnoreRequest, Receive

LEMMA ArpOtherKeeps ==
  ASSUME Inv, NEW n \in Node, ArpOther(n)
  PROVE  Inv'
BY Forgets DEF ArpOther, Receive

\* A message that is forwarded is the one received, one hop older.
LEMMA ForwardKeeps ==
  ASSUME Inv, NEW n \in Node, Forward(n)
  PROVE  Inv'
<1>1. /\ Ready(n) /\ inbox' = [inbox EXCEPT ![n] = Nothing] /\ Peek(n)
      /\ ~IsForUs(n) /\ UNCHANGED <<arp, cur, calls, got>>
  BY DEF Forward
<1>2. CASE UNCHANGED out
  BY <1>1, <1>2, Forgets
<1>3. CASE Route(n, [Msg(n) EXCEPT !.hops = @ + 1], From(n))
  <2> DEFINE h == [Msg(n) EXCEPT !.hops = @ + 1]
             y == [msg |-> h, from |-> From(n)]
  <2>1. /\ h \in Messages /\ h.hops # 0 /\ h.type = Msg(n).type /\ h.dest = Msg(n).dest
        /\ h.src = Msg(n).src /\ h.list = Msg(n).list /\ h.call = Msg(n).call
    BY <1>1, ReceivedIsHeld, HopCounted
  <2>2. Msg(n).type # "request"
    BY <1>1, ReceivedIsHeld DEF Messages, IsForUs
  <2> HIDE DEF h
  <2>3. MayRoute(n, y)
    <3>1. y \in Held
      BY <1>1, <2>1, ReceivedIsHeld DEF Held
    <3>2. ASSUME IsDiscovery(h)
          PROVE  IsPath(Path(h)) /\ EndsAt(h, n)
      <4>1. Path(h) = Path(Msg(n)) /\ IsDiscovery(Msg(n))
        BY <2>1, <3>2 DEF Path, Origin, IsDiscovery
      <4> QED BY <1>1, <2>1, <2>2, <4>1, ReceivedIsHeld DEF EndsAt
    <3> QED BY <1>1, <3>1, <3>2, ReceivedIsHeld DEF MayRoute
  <2>4. \A k \in Nat : Carries(y, k) => Carries(inbox[n], k)
    BY <1>1, <2>1 DEF Carries, Msg, Ready
  <2>5. out' = [out EXCEPT ![n] = y] /\ y.msg.hops # 0 /\ y.msg.dest = Msg(n).dest
    BY <1>3, <2>1 DEF Route, h
  <2>6. PICK t \in TablesTo(Neighbours(n)) : routes' = [routes EXCEPT ![n] = t]
    BY <1>1, PeekChangesTables
  <2>7. got' \in [Node -> Seq(Nat)]
    BY <1>1 DEF Inv, TypeInv
  <2> HIDE DEF y
  <2> QED BY <1>1, <2>3, <2>4, <2>5, <2>6, <2>7, Receives
<1> QED BY <1>2, <1>3 DEF Forward

\* The originator's address comes first on the way back, and has a route
\* then; the addresses behind it push it out of a full table only.
LEMMA WayBackHasRoute ==
  ASSUME Inv, NEW n \in Node, NEW m \in Messages, NEW f \in Neighbours(n)
  PROVE  /\ WayBack(n, m, f) \in TablesTo(Neighbours(n))
         /\ HasRoute(WayBack(n, m, f), m.src) \/ Full(WayBack(n, m, f))
<1> DEFINE t == routes[n]
           back == <<m.src>> \o m.list
           P == {u \in Table : HasRoute(u, m.src) \/ Full(u)}
<1>1. t \in TablesTo(Neighbours(n)) /\ t \in Table
  BY DEF Inv, TypeInv, HopsInv, TablesTo
<1>2. f \in Addr /\ m.src \in Addr /\ m.list \in Seq(Addr)
  <2>1. m.list \in Seq(Node) /\ Node \subseteq Addr /\ m.src \in Node
    BY MeshAssumption DEF Messages
  <2> QED BY <2>1, NeighboursAreNodes, SeqMonotonic
<1>3. back \in Seq(Addr) /\ back # <<>> /\ back[1] = m.src
  BY <1>2, AddressInFront
<1>4. "Valid" \in RouteState
  BY DEF RouteState
<1> HIDE DEF t, back
<1>5. AddRouteTo(t, back[1], f, "Valid") \in P
  BY <1>1, <1>2, <1>3, <1>4, AddRouteToHasRoute, AddRouteToKeeps
<1>6. ASSUME NEW u \in P, NEW d \in Addr
      PROVE  AddRouteTo(u, d, f, "Valid") \in P
  BY <1>2, <1>4, AddRouteToHasRoute, AddRouteToKeeps
<1>7. AddRoutes(t, back, f) \in P
  <2> HIDE DEF P
  <2> QED BY <1>3, <1>5, <1>6, AddRoutesKeeps
<1>8. AddRoutes(t, back, f) \in TablesTo(Neighbours(n))
  BY <1>1, <1>2, <1>3, AddRoutesKeepTables
<1>9. WayBack(n, m, f) = AddRoutes(t, back, f)
  BY DEF WayBack, t, back
<1> QED BY <1>7, <1>8, <1>9

LEMMA RecvRequestKeeps ==
  ASSUME Inv, NEW n \in Node, RecvRequest(n)
  PROVE  Inv'
<1> DEFINE m == Msg(n)
           t == WayBack(n, m, From(n))
<1>1. /\ Ready(n) /\ inbox' = [inbox EXCEPT ![n] = Nothing]
      /\ m.type = "request" /\ ~IsKnown(n, m) /\ routes' = [routes EXCEPT ![n] = t]
      /\ UNCHANGED <<arp, cur, calls, got>>
  BY DEF RecvRequest, Receive, UpdateRoutes
<1>2. /\ m \in Messages /\ From(n) \in Neighbours(n) /\ From(n) \in Node
      /\ IsPath(Path(m)) /\ EndsAt(m, From(n)) /\ out[n] = Nothing
  BY <1>1, ReceivedIsHeld DEF IsDiscovery
<1>3. /\ t \in TablesTo(Neighbours(n))
      /\ HasRoute(t, m.src) \/ Full(t)
  BY <1>2, WayBackHasRoute
<1>4. got' \in [Node -> Seq(Nat)]
  BY <1>1 DEF Inv, TypeInv
<1>5. CASE Route(n, Answer(n, m), From(n))
  <2> DEFINE y == [msg |-> Answer(n, m), from |-> From(n)]
  <2>1. /\ y \in Held /\ y.msg.type = "response" /\ y.msg.dest = m.src
        /\ y.from \in Neighbours(n) /\ y.msg = Answer(n, m)
    BY <1>1, <1>2, MessagesMade DEF Held, Answer, Routed
  <2>2. MayRoute(n, y)
    BY <1>1, <1>2, <2>1, PathIsAnswered DEF MayRoute
  <2>3. out' = [out EXCEPT ![n] = y]
    BY <1>5 DEF Route
  <2>4. \A k : ~Carries(y, k)
    BY <2>1 DEF Carries
  <2> HIDE DEF y, t, m
  <2> QED BY <1>1, <1>3, <1>4, <2>1, <2>2, <2>3, <2>4, Receives
<1>6. CASE Route(n, PassedOn(n, m), From(n))
  <2> DEFINE y == [msg |-> PassedOn(n, m), from |-> From(n)]
  <2>1. /\ y \in Held /\ y.msg.type = "request"
        /\ y.from \in Neighbours(n) /\ y.msg = PassedOn(n, m)
    BY <1>1, <1>2, MessagesMade DEF Held, PassedOn, Routed
  <2>2. MayRoute(n, y)
    BY <1>1, <1>2, <2>1, PathGrows DEF MayRoute
  <2>3. out' = [out EXCEPT ![n] = y]
    BY <1>6 DEF Route
  <2>4. \A k : ~Carries(y, k)
    BY <2>1 DEF Carries
  <2> HIDE DEF y, t, m
  <2> QED BY <1>1, <1>3, <1>4, <2>1, <2>2, <2>3, <2>4, Receives
<1>7. CASE UNCHANGED out
  <2>1. out' = [out EXCEPT ![n] = Nothing] /\ MayRoute(n, Nothing)
    BY <1>2, <1>7 DEF Inv, TypeInv, MayRoute
  <2>2. \A k : ~Carries(Nothing, k)
    BY DEF Carries
  <2> HIDE DEF t, m
  <2> QED BY <1>1, <1>3, <1>4, <2>1, <2>2, Receives
<1> QED BY <1>5, <1>6, <1>7 DEF RecvRequest

-----------------------------------------------------------------------------
(* The steps of a node that waits in doArp().                              *)

LEMMA ArpReplyKeeps ==
  ASSUME Inv, NEW n \in Node, ArpReply(n)
  PROVE  Inv'
<1> DEFINE y == [msg |-> Application(n, arp[n], cur[n]), from |-> From(n)]
<1>1. /\ Ready(n) /\ inbox' = [inbox EXCEPT ![n] = Nothing]
      /\ arp[n] # NoOne /\ arp' = [arp EXCEPT ![n] = NoOne]
      /\ out' = [out EXCEPT ![n] = y]
      /\ UNCHANGED <<cur, calls, got>>
  BY DEF ArpReply, Receive, Route
<1>2. arp[n] \in Addr /\ cur[n] \in Nat
  BY <1>1 DEF Inv, TypeInv
<1>3. /\ y \in Held /\ y.msg.type = "application" /\ y.msg.dest = arp[n]
      /\ y.msg.call = cur[n] /\ y.from \in Neighbours(n) /\ ~IsDiscovery(y.msg)
  BY <1>1, <1>2, ReceivedIsHeld, MessagesMade DEF Held, Application, Routed, IsDiscovery
<1> HIDE DEF y
<1>4. MayRoute(n, y)
  BY <1>3 DEF MayRoute
<1>5. PICK t \in TablesTo(Neighbours(n)) : routes' = [routes EXCEPT ![n] = t]
  <2>1. PICK past \in Addr :
          routes' = [routes EXCEPT ![n] =
                       AddRouteTo(PeekAtMessage(n, Msg(n), From(n), past),
                                  arp[n], From(n), "Valid")]
    BY DEF ArpReply, UpdateRoutes
  <2>2. PeekAtMessage(n, Msg(n), From(n), past) \in TablesTo(Neighbours(n))
    BY <1>1, ReceivedIsHeld, PeekKeepsTables DEF Inv
  <2>3. AddRouteTo(PeekAtMessage(n, Msg(n), From(n), past), arp[n], From(n), "Valid")
          \in TablesTo(Neighbours(n))
    BY <1>1, <1>2, <2>2, ReceivedIsHeld, UpdatesKeepTables
  <2> QED BY <2>1, <2>3
<1>6. \A k \in Nat : Carries(y, k) => Waits(n, k) /\ ~Waits(n, k)' /\ y.msg.dest = arp[n]
  <2>1. arp'[n] = NoOne
    BY <1>1 DEF Inv, TypeInv
  <2> QED BY <1>1, <1>3, <2>1 DEF Carries, Waits
<1>7. got' \in [Node -> Seq(Nat)]
  BY <1>1 DEF Inv, TypeInv
<1> QED BY <1>1, <1>3, <1>4, <1>5, <1>6, <1>7, Receives

LEMMA ArpTimeoutKeeps ==
  ASSUME Inv, NEW n \in Node, ArpTimeout(n)
  PROVE  Inv'
<1>1. /\ arp' = [arp EXCEPT ![n] = NoOne] /\ Result(cur[n], "failed")
      /\ UNCHANGED <<routes, inbox, out, cur, got>>
  BY DEF ArpTimeout
<1>2. calls' \in Seq(Calls) /\ \A k \in Nat : SameCall(k)
  BY <1>1, ResultKeepsCalls DEF Inv, TypeInv
<1>3. \A x \in Node : arp'[x] = arp[x] \/ arp'[x] = NoOne
  BY <1>1 DEF Inv, TypeInv
<1>4. ASSUME NEW k \in Nat
      PROVE  CallInv(k)'
  <2>1. CallInv(k)
    BY DEF Inv, CallsInv
  <2>2. \A x \in Node : Waits(x, k)' => Waits(x, k) /\ arp'[x] = arp[x]
    BY <1>1, <1>3 DEF Waits
  <2> QED BY <1>1, <1>2, <2>1, <2>2, CallStays
<1>5. arp' \in [Node -> Addr \cup {NoOne}]
  BY <1>1 DEF Inv, TypeInv
<1> QED BY <1>1, <1>2, <1>4, <1>5
        DEF Inv, TypeInv, OneAtATime, HopsInv, PathInv, CallsInv, AnswerIsRoutable

-----------------------------------------------------------------------------
(* The network under every sequence of steps.                              *)

LEMMA InitInv == Init => Inv
<1> SUFFICES ASSUME Init PROVE Inv
  OBVIOUS
<1>1. TypeInv
  <2>1. Stray \in Addr /\ "Invalid" \in RouteState
    BY MeshAssumption DEF RouteState
  <2>2. <<>> \in Seq(Calls) /\ <<>> \in Seq(Nat)
    BY EmptySeq
  <2> QED BY <2>1, <2>2 DEF Init, TypeInv, Table, RoutingTableEntry
<1>2. OneAtATime /\ PathInv /\ AnswerIsRoutable
  BY DEF Init, OneAtATime, PathInv, AnswerIsRoutable
<1>3. HopsInv
  BY DEF Init, HopsInv, HopsIn
<1>4. CallsInv
  BY DEF Init, CallsInv, CallInv, InOnePlace, Addressed, Holds, Returned, Carries, Waits
<1> QED BY <1>1, <1>2, <1>3, <1>4 DEF Inv

LEMMA NextInv == Inv /\ [Next]_vars => Inv'
<1> SUFFICES ASSUME Inv, [Next]_vars PROVE Inv'
  OBVIOUS
<1>1. ASSUME NEW n \in Node, Steps(n) PROVE Inv'
  BY <1>1, RouteBroadcastKeeps, RouteSucceedsKeeps, RouteFailsKeeps, NoRouteKeeps,
     ForwardKeeps, DeliverKeeps, RecvSignalKeeps, IgnoreRequestKeeps, RecvRequestKeeps,
     ArpReplyKeeps, ArpOtherKeeps, ArpTimeoutKeeps DEF Steps
<1>2. CASE UNCHANGED vars
  <2>1. UNCHANGED <<routes, inbox, out, arp, cur, calls, got>>
    BY <1>2 DEF vars
  <2>2. ASSUME NEW k \in Nat
        PROVE  CallInv(k)'
    BY <2>1 DEF Inv, CallsInv, CallInv, InOnePlace, Addressed, Holds, Returned, Waits
  <2>3. TypeInv' /\ OneAtATime' /\ HopsInv'
    BY <2>1 DEF Inv, TypeInv, OneAtATime, HopsInv
  <2>4. PathInv' /\ AnswerIsRoutable'
    BY <2>1 DEF Inv, PathInv, AnswerIsRoutable
  <2> QED BY <2>2, <2>3, <2>4 DEF Inv, CallsInv
<1> QED BY <1>1, <1>2, SendtoWaitKeeps DEF Next

LEMMA Invariance == Spec => []Inv
BY InitInv, NextInv, PTL DEF Spec

\* In every network and for every table size, a route leads to a neighbour.
THEOREM RoutesLeadToNeighbours == Spec => []NextHopIsNeighbour
<1>1. Inv => NextHopIsNeighbour
  BY DEF Inv, HopsInv, HopsIn, NextHopIsNeighbour
<1> QED BY <1>1, Invariance, PTL

\* The list of a discovery is a path through the network without a loop,
\* whatever has been lost.
THEOREM DiscoveriesArePaths == Spec => []ListIsAPath
<1>1. Inv => ListIsAPath
  <2> SUFFICES ASSUME Inv, NEW m \in Message, m.type \in {"request", "response"}
               PROVE  IsPath(Path(m))
    BY DEF ListIsAPath, IsPath, Path, Origin
  <2> QED BY DEF Inv, PathInv, Message, IsDiscovery
<1> QED BY <1>1, Invariance, PTL

\* An application message is returned once at most, and where it was sent to.
THEOREM MessagesDeliveredOnce == Spec => []DeliveredOnce
<1>1. Inv => DeliveredOnce
  <2> SUFFICES ASSUME Inv, NEW n \in Node, NEW i \in DOMAIN got[n]
               PROVE  /\ calls[got[n][i]].to = n
                      /\ \A j \in DOMAIN got[n] : got[n][i] = got[n][j] => i = j
    BY DEF DeliveredOnce
  <2>1. got[n][i] \in Nat
    BY LenProperties, ElementOfSeq DEF Inv, TypeInv
  <2>2. CallInv(got[n][i])
    BY <2>1 DEF Inv, CallsInv
  <2> QED BY <2>2 DEF CallInv, InOnePlace, Addressed, Returned
<1> QED BY <1>1, Invariance, PTL

\* A node that answers a discovery has a route to the originator, or a full
\* table.
THEOREM AnswersRoutable == Spec => []AnswerIsRoutable
<1>1. Inv => AnswerIsRoutable
  BY DEF Inv
<1> QED BY <1>1, Invariance, PTL
=============================================================================
