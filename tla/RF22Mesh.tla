------------------------------ MODULE RF22Mesh ------------------------------
(***************************************************************************)
(* A network of RF22Mesh nodes, each of which hears only its neighbours:   *)
(* RF22Router, which forwards messages along its routing table, and        *)
(* RF22Mesh, which discovers routes and tells originators of failures.     *)
(*                                                                         *)
(* A hop is RF22ReliableDatagram::sendtoWait(), with what HopDelivery      *)
(* promises of it: true only if the neighbour has taken the message, false *)
(* whether or not it has.  A node that is sending discards what else it    *)
(* receives, so it takes nothing before it is back in a receiving loop.    *)
(* Application messages are not empty (an empty one shortens the buffer    *)
(* doArp() receives into).                                                 *)
(***************************************************************************)
EXTENDS RF22Routes, Sequences, SequencesExt

CONSTANTS
  Node,
  Links,      \* the pairs of nodes in range of each other
  Broadcast,  \* RF22_BROADCAST_ADDRESS
  Stray,      \* any address that is not a node's, such as 0
  NoOne,      \* no address
  MaxHops,    \* _max_hops, RF22_DEFAULT_MAX_HOPS is 30
  MaxSends,   \* bound: calls of sendtoWait() by applications
  Senders,    \* the nodes whose application sends
  Dests       \* the addresses it sends to

ASSUME MeshAssumption ==
  /\ Addr = Node \cup {Stray} /\ Stray \notin Node
  /\ Broadcast \notin Addr /\ NoOne \notin Addr
  /\ Links \subseteq SUBSET Node
  /\ MaxHops \in Nat /\ MaxSends \in Nat
  /\ Senders \subseteq Node /\ Dests \subseteq Addr

VARIABLES
  routes,  \* _routes of each node
  inbox,   \* the message a node has acknowledged in recvfromAck() and is about
           \* to look at, and the neighbour it came from (headerFrom())
  out,     \* the message a node is handing to route()
  arp,     \* the address a node waits for in doArp()
  cur,     \* the call of sendtoWait() it does that for
  calls,   \* history: the calls of RF22Mesh::sendtoWait() and their results
  got      \* history: the calls whose message recvfromAck() returned

vars == <<routes, inbox, out, arp, cur, calls, got>>

Nothing == [none |-> TRUE]

Neighbours(n) == {r \in Node \ {n} : {n, r} \in Links}

\* RoutedMessage and what RF22Mesh puts into it.
Routed(type, src, dest, about, list, k) ==
  [type |-> type, src |-> src, dest |-> dest, hops |-> 0,
   about |-> about,  \* dest of a discovery or failure message
   list |-> list,    \* the nodes a discovery has visited
   call |-> k]       \* which application message it is

Application(n, d, k) == Routed("application", n, d, NoOne, <<>>, k)
Request(n, d) == Routed("request", n, Broadcast, d, <<>>, 0)
Failure(n, to, d) == Routed("failure", n, to, d, <<>>, 0)

\* The tables of global objects: memory that was zero.
Init ==
  /\ routes = [n \in Node |-> [i \in Slots |->
                 [dest |-> Stray, next_hop |-> Stray, state |-> "Invalid"]]]
  /\ inbox = [n \in Node |-> Nothing]
  /\ out = [n \in Node |-> Nothing]
  /\ arp = [n \in Node |-> NoOne]
  /\ cur = [n \in Node |-> 0]
  /\ calls = <<>>
  /\ got = [n \in Node |-> <<>>]

\* n hands m to route(), having received from neighbour f.
Route(n, m, f) == out' = [out EXCEPT ![n] = [msg |-> m, from |-> f]]

Result(k, r) == calls' = [calls EXCEPT ![k].result = r]

-----------------------------------------------------------------------------
(* Sending.                                                                *)

\* n is neither routing a message nor looking at one.
Idle(n) == inbox[n] = Nothing /\ out[n] = Nothing

\* RF22Mesh::sendtoWait(): along the route there is, or doArp() first.
SendtoWait(n, d) ==
  /\ Idle(n) /\ arp[n] = NoOne
  /\ Len(calls) < MaxSends
  /\ calls' = Append(calls, [from |-> n, to |-> d, result |-> "pending"])
  /\ LET k == Len(calls) + 1
     IN  /\ cur' = [cur EXCEPT ![n] = k]
         /\ IF HasRoute(routes[n], d)
            THEN Route(n, Application(n, d, k), n) /\ UNCHANGED arp
            ELSE Route(n, Request(n, d), n) /\ arp' = [arp EXCEPT ![n] = d]
  /\ UNCHANGED <<routes, inbox, got>>

\* The nodes R take m from n.
Take(n, m, R) ==
  inbox' = [r \in Node |-> IF r \in R THEN [msg |-> m, from |-> n] ELSE inbox[r]]

\* A broadcast reaches any of the neighbours and is not acknowledged.
RouteBroadcast(n) ==
  /\ out[n] # Nothing /\ out[n].msg.dest = Broadcast
  /\ \E R \in SUBSET {r \in Neighbours(n) : Idle(r)} : Take(n, out[n].msg, R)
  /\ out' = [out EXCEPT ![n] = Nothing]
  /\ UNCHANGED <<routes, arp, cur, calls, got>>

NextHop(n) == GetRouteTo(routes[n], out[n].msg.dest).next_hop

Routable(n) == /\ out[n] # Nothing /\ out[n].msg.dest # Broadcast
               /\ HasRoute(routes[n], out[n].msg.dest)

\* Those who can take what n is routing to its next hop.
Takers(n) == {r \in Neighbours(n) : r = NextHop(n) /\ Idle(r)}

IsOwn(n, m) == m.type = "application" /\ m.src = n

RouteSucceeds(n) ==
  /\ Routable(n) /\ Takers(n) # {}
  /\ LET m == out[n].msg
     IN  /\ Take(n, m, Takers(n))
         /\ IF IsOwn(n, m) THEN Result(m.call, "ok") ELSE UNCHANGED calls
  /\ out' = [out EXCEPT ![n] = Nothing]
  /\ UNCHANGED <<routes, arp, cur, got>>

\* No route, or no acknowledgement: the route goes, and the originator, if
\* that is another node, is told.
Unroutable(n) ==
  LET m == out[n].msg
      deleted == DeleteRouteTo(routes[n], m.dest)
  IN  IF m.src = n
      THEN /\ routes' = [routes EXCEPT ![n] = deleted]
           /\ out' = [out EXCEPT ![n] = Nothing]
           /\ IF IsOwn(n, m) THEN Result(m.call, "failed") ELSE UNCHANGED calls
      ELSE /\ routes' = [routes EXCEPT ![n] =
                           AddRouteTo(deleted, m.src, out[n].from, "Valid")]
           /\ Route(n, Failure(n, m.src, m.dest), n)
           /\ UNCHANGED calls

\* Mutant: a hop that failed is tried again.
RouteFailsRepeats(n) ==
  /\ Routable(n)
  /\ \E R \in SUBSET Takers(n) : Take(n, out[n].msg, R)
  /\ UNCHANGED <<routes, out, arp, cur, calls, got>>

RouteFails(n) ==
  /\ Routable(n)
  /\ \E R \in SUBSET Takers(n) : Take(n, out[n].msg, R)
  /\ Unroutable(n)
  /\ UNCHANGED <<arp, cur, got>>

NoRoute(n) ==
  /\ out[n] # Nothing /\ out[n].msg.dest # Broadcast
  /\ ~HasRoute(routes[n], out[n].msg.dest)
  /\ Unroutable(n)
  /\ UNCHANGED <<inbox, arp, cur, got>>

-----------------------------------------------------------------------------
(* Receiving.                                                              *)

AddRoutes(t, list, f) ==
  LET table[i \in 0 .. Len(list)] ==
        IF i = 0 THEN t ELSE AddRouteTo(table[i - 1], list[i], f, "Valid")
  IN  table[Len(list)]

\* The addresses peekAtMessage() takes from a response at node n: the list
\* from the second one behind n, and the octet behind the list, which holds
\* anything (past).
Peeked(n, list, past) ==
  LET at == SelectInSeq(list, LAMBDA d : d = n)
  IN  IF at = 0 \/ at = Len(list) THEN <<>>
      ELSE Append(SubSeq(list, at + 2, Len(list)), past)

\* peekAtMessage(): the table of n after it has seen m from f.
PeekAtMessage(n, m, f, past) ==
  IF m.type = "response"
    THEN AddRoutes(routes[n], <<m.about>> \o Peeked(n, m.list, past), f)
  ELSE IF m.type = "failure" THEN DeleteRouteTo(routes[n], m.about)
  ELSE routes[n]

\* RF22Router::recvfromAck() takes the message out of the buffer and peeks at
\* it, whoever it is for.
Ready(n) == inbox[n] # Nothing

Msg(n) == inbox[n].msg
From(n) == inbox[n].from
IsForUs(n) == Msg(n).dest \in {n, Broadcast}

Receive(n, type) ==
  /\ Ready(n) /\ IsForUs(n) /\ Msg(n).type \in type
  /\ inbox' = [inbox EXCEPT ![n] = Nothing]

UpdateRoutes(n, table) == routes' = [routes EXCEPT ![n] = table]

Peek(n) ==
  \E past \in Addr : UpdateRoutes(n, PeekAtMessage(n, Msg(n), From(n), past))

MayHop(m) == m.hops < MaxHops

\* A message for somebody else goes on to its next hop.
Forward(n) ==
  /\ Ready(n) /\ ~IsForUs(n)
  /\ inbox' = [inbox EXCEPT ![n] = Nothing]
  /\ Peek(n)
  /\ IF MayHop(Msg(n))
     THEN Route(n, [Msg(n) EXCEPT !.hops = @ + 1], From(n)) ELSE UNCHANGED out
  /\ UNCHANGED <<arp, cur, calls, got>>

\* RF22Mesh::recvfromAck() returns application messages.
Deliver(n) ==
  /\ arp[n] = NoOne
  /\ Receive(n, {"application"})
  /\ Peek(n)
  /\ got' = [got EXCEPT ![n] = Append(@, Msg(n).call)]
  /\ UNCHANGED <<out, arp, cur, calls>>

\* Responses and failures have been peeked at, that is all.
RecvSignal(n) ==
  /\ arp[n] = NoOne
  /\ Receive(n, {"response", "failure"})
  /\ Peek(n)
  /\ UNCHANGED <<out, arp, cur, calls, got>>

\* Mutant: only the originator ignores a request.
IsOwnRequest(n, m) == m.src = n

\* A discovery request is ignored by its originator and by those it has been
\* through already.
IsKnown(n, m) == m.src = n \/ \E i \in DOMAIN m.list : m.list[i] = n

IgnoreRequest(n) ==
  /\ arp[n] = NoOne
  /\ Receive(n, {"request"})
  /\ IsKnown(n, Msg(n))
  /\ UNCHANGED <<routes, out, arp, cur, calls, got>>

\* The others learn the way back; the one that is asked for answers, the rest
\* pass the request on in the name of its originator.
Answer(n, m) == Routed("response", n, m.src, m.about, m.list, 0)
PassedOn(n, m) == Routed("request", m.src, Broadcast, m.about, Append(m.list, n), 0)

\* Mutant: the originator is taken for a neighbour.
WayBackDirect(n, m, f) ==
  AddRoutes(AddRouteTo(routes[n], m.src, m.src, "Valid"), m.list, f)

\* Mutant: the nodes in between and not the originator.
WayBackOfList(n, m, f) == AddRoutes(routes[n], m.list, f)

WayBack(n, m, f) == AddRoutes(routes[n], <<m.src>> \o m.list, f)

RecvRequest(n) ==
  /\ arp[n] = NoOne
  /\ Receive(n, {"request"})
  /\ ~IsKnown(n, Msg(n))
  /\ UpdateRoutes(n, WayBack(n, Msg(n), From(n)))
  /\ IF Msg(n).about = n THEN Route(n, Answer(n, Msg(n)), From(n))
     ELSE IF Len(Msg(n).list) < MaxHops
          THEN Route(n, PassedOn(n, Msg(n)), From(n))
     ELSE UNCHANGED out
  /\ UNCHANGED <<arp, cur, calls, got>>

-----------------------------------------------------------------------------
(* Waiting in doArp().                                                     *)

\* The first response ends the wait, and the application message follows.
ArpReply(n) ==
  /\ arp[n] # NoOne
  /\ Receive(n, {"response"})
  /\ \E past \in Addr :
       UpdateRoutes(n, AddRouteTo(PeekAtMessage(n, Msg(n), From(n), past),
                                  arp[n], From(n), "Valid"))
  /\ Route(n, Application(n, arp[n], cur[n]), From(n))
  /\ arp' = [arp EXCEPT ![n] = NoOne]
  /\ UNCHANGED <<cur, calls, got>>

\* What else is for this node is lost.
ArpOther(n) ==
  /\ arp[n] # NoOne
  /\ Receive(n, {"application", "request", "failure"})
  /\ Peek(n)
  /\ UNCHANGED <<out, arp, cur, calls, got>>

ArpTimeout(n) ==
  /\ Idle(n) /\ arp[n] # NoOne
  /\ arp' = [arp EXCEPT ![n] = NoOne]
  /\ Result(cur[n], "failed")
  /\ UNCHANGED <<routes, inbox, out, cur, got>>

-----------------------------------------------------------------------------

Steps(n) ==
  \/ RouteBroadcast(n) \/ RouteSucceeds(n) \/ RouteFails(n) \/ NoRoute(n)
  \/ Forward(n) \/ Deliver(n) \/ RecvSignal(n)
  \/ IgnoreRequest(n) \/ RecvRequest(n)
  \/ ArpReply(n) \/ ArpOther(n) \/ ArpTimeout(n)

Next == \/ \E n \in Node : Steps(n)
        \/ \E n \in Senders : \E d \in Dests \ {n} : SendtoWait(n, d)

Spec == Init /\ [][Next]_vars

FairSpec == Spec /\ \A n \in Node : WF_vars(Steps(n))

-----------------------------------------------------------------------------
(* Properties.                                                             *)

Message == {out[n].msg : n \in {x \in Node : out[x] # Nothing}}
             \cup {inbox[n].msg : n \in {x \in Node : inbox[x] # Nothing}}

\* A route leads to a neighbour, whatever was learned from lists and stale
\* octets.
NextHopIsNeighbour ==
  \A n \in Node : \A i \in Slots :
    routes[n][i].state # "Invalid" => routes[n][i].next_hop \in Neighbours(n)

\* The list of a discovery is a path from its originator, through nobody
\* twice: requests die out, and a response can be traced back.
ListIsAPath ==
  \A m \in Message : m.type \in {"request", "response"} =>
    LET origin == IF m.type = "request" THEN m.src ELSE m.dest
        path == <<origin>> \o m.list
    IN  /\ \A i, j \in DOMAIN path : path[i] = path[j] => i = j
        /\ \A i \in 1 .. Len(path) - 1 : {path[i], path[i + 1]} \in Links

\* An application message is returned at most once, and where it was sent to,
\* although hops that took it are retried, reported as failed and routed back.
DeliveredOnce ==
  \A n \in Node : \A i \in DOMAIN got[n] :
    /\ calls[got[n][i]].to = n
    /\ \A j \in DOMAIN got[n] : got[n][i] = got[n][j] => i = j

\* A node that answers a discovery has a route to the originator ("We are
\* certain to have a route there, becuase we just got it", RF22Mesh.cpp:202),
\* unless its table is full: then the routes to the nodes in between, which are
\* added after it, may have taken the slot.
AnswerIsRoutable ==
  \A n \in Node :
    LET m == out[n].msg
    IN  out[n] # Nothing /\ m.type = "response" /\ m.src = n /\ m.hops = 0
          => \/ HasRoute(routes[n], m.dest)
             \/ \A i \in Slots : routes[n][i].state # "Invalid"

\* The network comes to rest, whatever is lost on the way: requests, responses
\* and failures die out, and every RF22Mesh::sendtoWait() has returned.
ComesToRest ==
  <>[](/\ \A n \in Node : out[n] = Nothing /\ inbox[n] = Nothing
       /\ \A k \in DOMAIN calls : calls[k].result # "pending")
=============================================================================
