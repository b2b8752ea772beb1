----------------------------- MODULE RF22Routes -----------------------------
(***************************************************************************)
(* The routing table of RF22Router as a value, and its four updates and    *)
(* one lookup as operators on it.  RF22RoutingTable runs them as a state   *)
(* machine; RF22Mesh keeps one such table per node.                        *)
(*                                                                         *)
(* A slot is never empty: an entry that is not in use keeps the dest and   *)
(* next_hop it last had (or the bytes the memory held at power-on) and has *)
(* the state Invalid.                                                      *)
(***************************************************************************)
EXTENDS Integers, FiniteSets, FiniteSetsExt

CONSTANTS TableSize,  \* RF22_ROUTING_TABLE_SIZE, 10 as shipped
          Addr        \* the node addresses, RF22_BROADCAST_ADDRESS included

ASSUME TableSizeAssumption == TableSize \in Nat \ {0}

Slots == 1 .. TableSize

RouteState == {"Invalid", "Discovering", "Valid"}

RoutingTableEntry == [dest : Addr, next_hop : Addr, state : RouteState]

Table == [Slots -> RoutingTableEntry]

-----------------------------------------------------------------------------
(* The slots a scan for an address, or for a free entry, stops at.         *)

SlotsOf(t, d) == {i \in Slots : t[i].dest = d}

FreeSlots(t) == {i \in Slots : t[i].state = "Invalid"}

RoutesTo(t, d) == {i \in SlotsOf(t, d) : t[i].state # "Invalid"}

\* getRouteTo() returns a pointer, NULL when there is no such entry; the
\* model has a predicate for the NULL test and the entry for the rest.
HasRoute(t, d) == RoutesTo(t, d) # {}

GetRouteTo(t, d) == t[Min(RoutesTo(t, d))]

\* No entry with a route has an entry for the same destination before it.
FirstMatchIsRoute(t) ==
  \A i, j \in Slots :
    i < j /\ t[j].state # "Invalid" => t[i].dest # t[j].dest

-----------------------------------------------------------------------------
(* The updates.                                                            *)

\* memcpy of the entries behind the slot, then the last one made invalid.  The
\* regions overlap, which C leaves undefined; the memcpy of avr-libc copies
\* upwards byte by byte, and that is the outcome modelled.
DeleteRoute(t, k) ==
  [i \in Slots |->
     IF i = TableSize THEN [t[i] EXCEPT !.state = "Invalid"]
     ELSE IF i < k THEN t[i] ELSE t[i + 1]]

\* Mutant: the last entry goes.
RetireNewestRoute(t) == DeleteRoute(t, TableSize)

RetireOldestRoute(t) == DeleteRoute(t, 1)

\* The scan of deleteRouteTo() does not look at the state of the entry.
DeleteRouteTo(t, d) ==
  IF SlotsOf(t, d) = {} THEN t ELSE DeleteRoute(t, Min(SlotsOf(t, d)))

ClearRoutingTable(t) == [i \in Slots |-> [t[i] EXCEPT !.state = "Invalid"]]

\* Mutant: every entry with a route is overwritten.
FillUsedSlots(t, e) == [i \in Slots |-> IF t[i].state = "Invalid" THEN t[i] ELSE e]

\* The third loop of addRouteTo() has no return: it fills every free slot.
FillFreeSlots(t, e) ==
  [i \in Slots |-> IF t[i].state = "Invalid" THEN e ELSE t[i]]

AddRouteTo(t, d, n, s) ==
  LET e == [dest |-> d, next_hop |-> n, state |-> s]
  IN  IF SlotsOf(t, d) # {} THEN [t EXCEPT ![Min(SlotsOf(t, d))] = e]
      ELSE IF FreeSlots(t) # {} THEN [t EXCEPT ![Min(FreeSlots(t))] = e]
      ELSE FillFreeSlots(RetireOldestRoute(t), e)
=============================================================================
