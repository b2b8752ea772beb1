----------------------------- MODULE HopDelivery -----------------------------
(***************************************************************************)
(* What RF22ReliableDatagram promises to the layers above it: a message    *)
(* sent to a neighbour reaches its application at most once, the messages  *)
(* of one neighbour in the order they were sent, and sendtoWait() returns  *)
(* true only for a message that the neighbour has taken.  A message whose  *)
(* sendtoWait() returned false may or may not have been taken, before or   *)
(* after that.                                                             *)
(***************************************************************************)
EXTENDS Naturals, Sequences

CONSTANTS Node, Broadcast

VARIABLES calls,  \* the calls of sendtoWait(), in the order they were made
          taken   \* per node, the calls whose message it took, in that order

Init == /\ calls = <<>>
        /\ taken = [n \in Node |-> <<>>]

Took(n, k) == \E i \in DOMAIN taken[n] : taken[n][i] = k

Begin(n, to) ==
  /\ calls' = Append(calls, [from |-> n, to |-> to,
                             result |-> IF to = Broadcast THEN "ok" ELSE "pending"])
  /\ UNCHANGED taken

\* Taking follows the order of the calls of one sender, so it is also at most
\* once.
Take(n, k) ==
  /\ calls[k].to \in {n, Broadcast}
  /\ \A j \in DOMAIN calls :
       Took(n, j) /\ calls[j].from = calls[k].from => j < k
  /\ taken' = [taken EXCEPT ![n] = Append(@, k)]
  /\ UNCHANGED calls

Return(k, result) ==
  /\ calls[k].result = "pending"
  /\ result = "ok" => Took(calls[k].to, k)
  /\ calls' = [calls EXCEPT ![k].result = result]
  /\ UNCHANGED taken

Next == \/ \E n \in Node, to \in Node \cup {Broadcast} : Begin(n, to)
        \/ \E k \in DOMAIN calls :
             \/ \E n \in Node : Take(n, k)
             \/ \E result \in {"ok", "failed"} : Return(k, result)

Spec == Init /\ [][Next]_<<calls, taken>>
=============================================================================
