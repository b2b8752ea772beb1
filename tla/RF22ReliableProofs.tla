------------------------- MODULE RF22ReliableProofs -------------------------
(***************************************************************************)
(* RF22ReliableDatagram for any number of nodes and retries.  What is      *)
(* returned is what was sent, or a broadcast of the node's own that went   *)
(* out through its buffer, also when numbers wrap around and nodes         *)
(* restart.  While fewer messages are sent than there are sequence numbers *)
(* and no node restarts, what is dropped was returned before, and          *)
(* HopDelivery is implemented.                                             *)
(*                                                                         *)
(* The argument for the latter: the identifiers of one sender grow with    *)
(* its calls, so a receiver that compares with the last one compares with  *)
(* all of them.                                                            *)
(***************************************************************************)
EXTENDS RF22Reliable, FiniteSetTheorems, SequenceTheorems, TLAPS

Request == [from : Node, to : Node \union {Broadcast}, id : Nat, ack : BOOLEAN,
            data : Nat]
Calls == [from : Senders, to : To, result : {"ok", "pending", "failed"}]

\* The payload of m is that of the call its headers name.
Given(m) == /\ m.data \in DOMAIN calls
            /\ calls[m.data].from = m.from /\ calls[m.data].to = m.to

\* The payload of m is that of a broadcast by n.
OwnBroadcast(n, m) == /\ m.data \in DOMAIN calls
                      /\ calls[m.data].from = n /\ calls[m.data].to = Broadcast

\* n has sent through its buffer since the packet came in: a broadcast, or the
\* message it waits with, and then it takes the packet before the wait is over.
Laid(n) == \/ OwnBroadcast(n, rx[n])
           \/ pc[n] = "wait" /\ rx[n].data = cur[n].data

\* What waits in the buffer of n.
Holds(n) ==
    rx[n] # NoMessage =>
        /\ rx[n].from # n /\ rx[n].to \in {n, Broadcast}
        /\ ~rx[n].ack => Given(rx[n]) \/ Laid(n)

Works(n) ==
    /\ pc[n] = "wait" => /\ cur[n] \in Request /\ ~cur[n].ack
                         /\ cur[n].from = n /\ Given(cur[n])
    /\ pc[n] = "accept" => /\ cur[n] \in Request /\ ~cur[n].ack
                           /\ cur[n].to = n
                           /\ Given(cur[n]) \/ OwnBroadcast(n, cur[n])

Intact ==
    /\ lastSeq \in [Node -> Nat]
    /\ rx \in [Node -> Request \union {NoMessage}]
    /\ pc \in [Node -> {"loop", "wait", "accept"}]
    /\ cur \in [Node -> Request \union {NoMessage}]
    /\ calls \in Seq(Calls)
    /\ got \in [Node -> Seq([data : Nat, from : Node])]
    /\ PayloadIntact
    /\ \A n \in Node : Holds(n) /\ Works(n)

LEMMA Appended ==
    ASSUME NEW S, NEW q \in Seq(S), NEW e \in S
    PROVE  /\ Append(q, e) \in Seq(S)
           /\ DOMAIN Append(q, e) = DOMAIN q \union {Len(q) + 1}
           /\ Append(q, e)[Len(q) + 1] = e
           /\ \A i \in DOMAIN q : Append(q, e)[i] = q[i]
OBVIOUS

\* What is left of packet b when the node that holds it has sent m.
Overlaid(b, m) == [b EXCEPT !.data = m.data]

\* Who holds what after n has sent m.
LEMMA Heard ==
    ASSUME NEW n \in Node, NEW m \in Request,
           NEW buf \in [Node -> Request \union {NoMessage}], Transmit(n, m, buf)
    PROVE  /\ rx' \in [Node -> Request \union {NoMessage}]
           /\ \A r \in Node :
                 \/ rx'[r] = buf[r] /\ (r # n \/ buf[n] = NoMessage)
                 \/ /\ r = n /\ buf[n] \in Request /\ buf[n] # NoMessage
                    /\ rx'[n] = Overlaid(buf[n], m)
                 \/ /\ r # n /\ rx'[r] = m /\ pc[r] # "accept"
                    /\ m.to \in {r, Broadcast}
<1>1. PICK hearers \in SUBSET Listening(n, m, buf) :
         rx' = [r \in Node |->
                  IF r \in hearers THEN m
                  ELSE IF r = n /\ buf[n] # NoMessage THEN Overlaid(buf[n], m)
                  ELSE buf[r]]
  BY DEF Transmit, Overlaid
<1>2. \A r \in hearers : /\ r \in Node /\ r # n /\ pc[r] # "accept"
                         /\ m.to \in {r, Broadcast}
  BY DEF Listening
<1>3. \A b \in Request : Overlaid(b, m) \in Request
  BY DEF Request, Overlaid
<1>4. ASSUME NEW r \in Node
      PROVE  /\ rx'[r] \in Request \union {NoMessage}
             /\ \/ rx'[r] = buf[r] /\ (r # n \/ buf[n] = NoMessage)
                \/ /\ r = n /\ buf[n] \in Request /\ buf[n] # NoMessage
                   /\ rx'[n] = Overlaid(buf[n], m)
                \/ /\ r # n /\ rx'[r] = m /\ pc[r] # "accept"
                   /\ m.to \in {r, Broadcast}
  <2>1. CASE r \in hearers
    BY <1>1, <1>2, <2>1
  <2>2. CASE r \notin hearers /\ r = n /\ buf[n] # NoMessage
    <3>1. buf[n] \in Request
      BY <2>2
    <3>2. rx'[n] = Overlaid(buf[n], m)
      BY <1>1, <2>2
    <3> QED BY <1>3, <2>2, <3>1, <3>2
  <2>3. CASE r \notin hearers /\ ~(r = n /\ buf[n] # NoMessage)
    <3>1. rx'[r] = buf[r]
      BY <1>1, <2>3
    <3>2. r # n \/ buf[n] = NoMessage
      BY <1>2, <2>3
    <3> QED BY <3>1, <3>2
  <2> QED BY <2>1, <2>2, <2>3
<1>5. rx' = [r \in Node |-> rx'[r]]
  BY <1>1
<1> QED BY <1>4, <1>5
-----------------------------------------------------------------------------
(* What is returned was sent, whatever restarts and wraps around.           *)

\* The calls there were stay, with those they were made by and for.
CallsKept == \A k \in DOMAIN calls : /\ k \in DOMAIN calls'
                                     /\ calls'[k].from = calls[k].from
                                     /\ calls'[k].to = calls[k].to

\* What n can send: a call of its own, or an acknowledgement.
CanSend(n, m) ==
    /\ m.from = n
    /\ ~m.ack => m.data \in DOMAIN calls' /\ calls'[m.data].from = m.from
                                          /\ calls'[m.data].to = m.to
                 /\ n \in Senders

\* The buffers after a step in which n sends m.  A packet waits in its own only
\* when m is a broadcast, or the message it waits with.
LEMMA SendingHolds ==
    ASSUME Intact, CallsKept, NEW n \in Node, NEW m \in Request, CanSend(n, m),
           NEW buf \in [Node -> Request \union {NoMessage}],
           \A r \in Node : buf[r] \in {rx[r], NoMessage}, Transmit(n, m, buf),
           \A r \in Node \ {n} : pc'[r] = pc[r] /\ cur'[r] = cur[r],
           buf[n] # NoMessage => /\ ~m.ack
                                 /\ \/ m.to = Broadcast
                                    \/ pc'[n] = "wait" /\ m.data = cur'[n].data
    PROVE  /\ rx' \in [Node -> Request \union {NoMessage}]
           /\ \A r \in Node : Holds(r)'
<1>1. /\ rx' \in [Node -> Request \union {NoMessage}]
      /\ \A r \in Node :
            \/ rx'[r] = buf[r] /\ (r # n \/ buf[n] = NoMessage)
            \/ /\ r = n /\ buf[n] \in Request /\ buf[n] # NoMessage
               /\ rx'[n] = Overlaid(buf[n], m)
            \/ /\ r # n /\ rx'[r] = m /\ pc[r] # "accept"
               /\ m.to \in {r, Broadcast}
  BY Heard
<1>2. ASSUME NEW r \in Node, rx'[r] # NoMessage
      PROVE  /\ rx'[r].from # r /\ rx'[r].to \in {r, Broadcast}
             /\ ~rx'[r].ack => Given(rx[r])' \/ Laid(r)'
  <2>1. CASE rx'[r] = buf[r] /\ (r # n \/ buf[n] = NoMessage)
    <3>1. rx'[r] = rx[r] /\ Holds(r) /\ r # n
      BY <1>2, <2>1 DEF Intact
    <3>2. pc'[r] = pc[r] /\ cur'[r] = cur[r]
      BY <3>1
    <3>3. Given(rx[r]) => Given(rx[r])'
      BY <3>1 DEF Given, CallsKept
    <3>4. Laid(r) => Laid(r)'
      BY <3>1, <3>2 DEF Laid, OwnBroadcast, CallsKept
    <3> QED BY <1>2, <3>1, <3>3, <3>4 DEF Holds
  <2>2. CASE /\ r = n /\ buf[n] \in Request /\ buf[n] # NoMessage
             /\ rx'[n] = Overlaid(buf[n], m)
    <3>1. /\ buf[n] = rx[n] /\ Holds(n)
          /\ rx'[n].to = rx[n].to /\ rx'[n].from = rx[n].from
          /\ rx'[n].data = m.data
      BY <2>2 DEF Intact, Overlaid, Request
    <3>2. Laid(n)'
      BY <2>2, <3>1 DEF Laid, OwnBroadcast, CanSend
    <3> QED BY <2>2, <3>1, <3>2 DEF Holds
  <2>3. CASE r # n /\ rx'[r] = m /\ m.to \in {r, Broadcast}
    BY <2>3 DEF CanSend, Given
  <2> QED BY <1>1, <2>1, <2>2, <2>3
<1> QED BY <1>1, <1>2 DEF Holds

\* The buffers after a step in which n takes its packet out and sends nothing.
LEMMA TakingHolds ==
    ASSUME Intact, CallsKept, NEW n \in Node, rx' = Taken(n),
           \A r \in Node \ {n} : pc'[r] = pc[r] /\ cur'[r] = cur[r]
    PROVE  /\ rx' \in [Node -> Request \union {NoMessage}]
           /\ \A r \in Node : Holds(r)'
<1>1. /\ rx' \in [Node -> Request \union {NoMessage}]
      /\ rx'[n] = NoMessage /\ \A r \in Node \ {n} : rx'[r] = rx[r]
  BY DEF Taken, Intact
<1>2. ASSUME NEW r \in Node PROVE Holds(r)'
  <2>1. Holds(r)
    BY DEF Intact
  <2>2. CASE r = n
    BY <1>1, <2>2 DEF Holds
  <2>3. CASE r # n
    <3>1. rx'[r] = rx[r] /\ pc'[r] = pc[r] /\ cur'[r] = cur[r]
      BY <1>1, <2>3
    <3>2. (Given(rx[r]) => Given(rx[r])') /\ (Laid(r) => Laid(r)')
      BY <3>1 DEF Given, Laid, OwnBroadcast, CallsKept
    <3> QED BY <2>1, <3>1, <3>2 DEF Holds
  <2> QED BY <2>2, <2>3
<1> QED BY <1>1, <1>2

LEMMA StillWorks ==
    ASSUME Intact, CallsKept, NEW n \in Node, pc'[n] = pc[n], cur'[n] = cur[n]
    PROVE  Works(n)'
<1>1. Works(n)
  BY DEF Intact
<1> QED BY <1>1 DEF Works, Given, OwnBroadcast, CallsKept

LEMMA GotStays ==
    ASSUME Intact, CallsKept, got' = got
    PROVE  PayloadIntact'
<1> SUFFICES ASSUME NEW n \in Node, NEW i \in DOMAIN got[n]
             PROVE  /\ got[n][i].data \in DOMAIN calls'
                    /\ \/ /\ calls'[got[n][i].data].from = got[n][i].from
                          /\ calls'[got[n][i].data].to \in {n, Broadcast}
                       \/ /\ calls'[got[n][i].data].from = n
                          /\ calls'[got[n][i].data].to = Broadcast
  BY DEF PayloadIntact
<1>1. /\ got[n][i].data \in DOMAIN calls
      /\ \/ /\ calls[got[n][i].data].from = got[n][i].from
            /\ calls[got[n][i].data].to \in {n, Broadcast}
         \/ /\ calls[got[n][i].data].from = n
            /\ calls[got[n][i].data].to = Broadcast
  BY DEF Intact, PayloadIntact
<1> QED BY <1>1 DEF CallsKept

\* A result changes neither who called nor for whom.
LEMMA ResultIntact ==
    ASSUME calls \in Seq(Calls), NEW k \in DOMAIN calls,
           NEW r \in {"ok", "failed"}, Result(k, r)
    PROVE  /\ calls' \in Seq(Calls) /\ CallsKept
           /\ DOMAIN calls' = DOMAIN calls /\ Len(calls') = Len(calls)
           /\ \A j \in DOMAIN calls : j # k => calls'[j] = calls[j]
<1>1. calls' = [calls EXCEPT ![k].result = r]
  BY DEF Result
<1>2. DOMAIN calls = 1..Len(calls) /\ Len(calls) \in Nat
      /\ \A j \in DOMAIN calls : calls[j] \in Calls
  OBVIOUS
<1>3. calls' = [j \in 1..Len(calls) |-> calls'[j]]
  BY <1>1, <1>2
<1>4. \A j \in 1..Len(calls) : /\ calls'[j] \in Calls
                               /\ calls'[j].from = calls[j].from
                               /\ calls'[j].to = calls[j].to
                               /\ j # k => calls'[j] = calls[j]
  BY <1>1, <1>2 DEF Calls
<1>5. calls' \in [1..Len(calls) -> Calls]
  BY <1>3, <1>4
<1>6. calls' \in Seq(Calls)
  BY <1>2, <1>5
<1> QED BY <1>2, <1>4, <1>5, <1>6 DEF CallsKept

LEMMA SameCallsKept == ASSUME calls' = calls PROVE CallsKept
BY DEF CallsKept

LEMMA InitIntact == Init => Intact
BY DEF Init, Intact, PayloadIntact, Holds, Works

AckOf(n, m) == [from |-> n, to |-> m.from, id |-> m.id, ack |-> TRUE, data |-> AckData]

LEMMA AckCanBeSent ==
    ASSUME NEW n \in Node, NEW m \in Request
    PROVE  AckOf(n, m) \in Request /\ CanSend(n, AckOf(n, m))
BY ReliableAssumption DEF AckOf, AckData, Request, CanSend

\* The buffers after n has taken a packet out and acknowledged it.
LEMMA AcknowledgingHolds ==
    ASSUME Intact, CallsKept, NEW n \in Node, rx[n] \in Request,
           Acknowledge(n, rx[n]),
           \A r \in Node \ {n} : pc'[r] = pc[r] /\ cur'[r] = cur[r]
    PROVE  /\ rx' \in [Node -> Request \union {NoMessage}]
           /\ \A r \in Node : Holds(r)'
<1>1. PICK buf \in [Node -> Request \union {NoMessage}] : buf = Taken(n)
  BY DEF Intact, Taken
<1>2. buf[n] = NoMessage /\ \A r \in Node : buf[r] \in {rx[r], NoMessage}
  BY <1>1 DEF Intact, Taken
<1>3. PICK a \in Request : a = AckOf(n, rx[n]) /\ CanSend(n, a)
  BY AckCanBeSent
<1>4. Transmit(n, a, buf)
  BY <1>1, <1>3 DEF Acknowledge, AckOf
<1> QED BY <1>2, <1>3, <1>4, SendingHolds

LEMMA SendtoWaitIntact ==
    ASSUME Intact, NEW n \in Senders, NEW to \in To \ {n}, SendtoWait(n, to)
    PROVE  Intact'
<1>1. PICK seq \in Nat : seq = (lastSeq[n] + 1) % SeqMod
  BY ReliableAssumption DEF Intact
<1>2. PICK k \in Nat : k = Len(calls) + 1
  BY DEF Intact
<1>3. PICK m \in Request : m = [from |-> n, to |-> to, id |-> seq, ack |-> FALSE,
                                data |-> k]
  BY ReliableAssumption DEF Request
<1>4. PICK c \in Calls : c = [from |-> n, to |-> to,
              result |-> IF to = Broadcast THEN "ok" ELSE "pending"]
  <2>1. PICK x \in {"ok", "pending", "failed"} :
          x = IF to = Broadcast THEN "ok" ELSE "pending"
    OBVIOUS
  <2> QED BY <2>1 DEF Calls
<1>5. /\ n \in Node /\ pc[n] = "loop" /\ Transmit(n, m, rx)
      /\ calls' = Append(calls, c) /\ lastSeq' = [lastSeq EXCEPT ![n] = seq]
      /\ IF to = Broadcast THEN UNCHANGED <<pc, cur>>
         ELSE pc' = [pc EXCEPT ![n] = "wait"] /\ cur' = [cur EXCEPT ![n] = m]
      /\ got' = got
  BY <1>1, <1>2, <1>3, <1>4, ReliableAssumption DEF SendtoWait
<1>6. /\ calls' \in Seq(Calls) /\ DOMAIN calls' = DOMAIN calls \union {k}
      /\ calls'[k] = c /\ \A i \in DOMAIN calls : calls'[i] = calls[i]
  BY <1>2, <1>5, Appended DEF Intact
<1>7. CallsKept
  BY <1>6 DEF CallsKept
<1>8. /\ pc' \in [Node -> {"loop", "wait", "accept"}]
      /\ cur' \in [Node -> Request \union {NoMessage}]
      /\ lastSeq' \in [Node -> Nat]
      /\ \A r \in Node \ {n} : pc'[r] = pc[r] /\ cur'[r] = cur[r]
      /\ \/ to = Broadcast /\ pc'[n] = "loop"
         \/ to # Broadcast /\ pc'[n] = "wait" /\ cur'[n] = m
  BY <1>5 DEF Intact
<1>9. CanSend(n, m)
  BY <1>3, <1>4, <1>6 DEF CanSend
<1>10. ~m.ack /\ \/ m.to = Broadcast
                 \/ pc'[n] = "wait" /\ m.data = cur'[n].data
  BY <1>3, <1>8
<1>11. /\ rx' \in [Node -> Request \union {NoMessage}]
       /\ \A r \in Node : Holds(r)'
  <2>1. rx \in [Node -> Request \union {NoMessage}]
    BY DEF Intact
  <2> QED BY <1>5, <1>7, <1>8, <1>9, <1>10, <2>1, SendingHolds
<1>12. ASSUME NEW r \in Node PROVE Works(r)'
  <2>1. CASE r = n
    <3>1. m \in Request /\ ~m.ack /\ m.from = n /\ Given(m)'
      BY <1>3, <1>4, <1>6 DEF Given
    <3> QED BY <1>8, <2>1, <3>1 DEF Works, Given
  <2>2. CASE r # n
    BY <1>7, <1>8, <2>2, StillWorks
  <2> QED BY <2>1, <2>2
<1> QED BY <1>5, <1>6, <1>7, <1>8, <1>11, <1>12, GotStays DEF Intact

\* Steps that end a call, or a restart.
LEMMA EndIntact ==
    ASSUME Intact, CallsKept, calls' \in Seq(Calls), NEW n \in Node,
           lastSeq' \in [Node -> Nat], pc' = [pc EXCEPT ![n] = "loop"],
           cur' = cur, got' = got,
           \/ rx' = Taken(n)
           \/ rx' = rx /\ ~(rx[n] # NoMessage /\ rx[n].data = cur[n].data)
    PROVE  Intact'
<1>1. /\ pc' \in [Node -> {"loop", "wait", "accept"}] /\ pc'[n] = "loop"
      /\ \A r \in Node \ {n} : pc'[r] = pc[r]
  BY DEF Intact
<1>2. /\ rx' \in [Node -> Request \union {NoMessage}]
      /\ \A r \in Node : Holds(r)'
  <2>1. CASE rx' = Taken(n)
    BY <1>1, <2>1, TakingHolds
  <2>2. CASE rx' = rx /\ ~(rx[n] # NoMessage /\ rx[n].data = cur[n].data)
    <3>1. rx \in [Node -> Request \union {NoMessage}]
      BY DEF Intact
    <3>2. ASSUME NEW r \in Node PROVE Holds(r)'
      <4>1. Holds(r)
        BY DEF Intact
      <4>2. Given(rx[r]) => Given(rx[r])'
        BY <2>2 DEF Given, CallsKept
      <4>3. rx[r] # NoMessage /\ Laid(r) => Laid(r)'
        BY <1>1, <2>2 DEF Laid, OwnBroadcast, CallsKept
      <4> QED BY <2>2, <4>1, <4>2, <4>3 DEF Holds
    <3> QED BY <2>2, <3>1, <3>2
  <2> QED BY <2>1, <2>2
<1>3. ASSUME NEW r \in Node PROVE Works(r)'
  <2>1. CASE r = n
    BY <1>1, <2>1 DEF Works
  <2>2. CASE r # n
    BY <1>1, <2>2, StillWorks
  <2> QED BY <2>1, <2>2
<1> QED BY <1>1, <1>2, <1>3, GotStays DEF Intact

\* What recvfromAck() returns.
LEMMA DeliverIntact ==
    ASSUME Intact, calls' = calls, NEW n \in Node, NEW m \in Request,
           m.to \in {n, Broadcast}, Given(m) \/ OwnBroadcast(n, m), Deliver(n, m)
    PROVE  /\ got' \in [Node -> Seq([data : Nat, from : Node])]
           /\ PayloadIntact'
<1>1. CASE got' = got
  BY <1>1, GotStays, SameCallsKept DEF Intact
<1>2. CASE got' = [got EXCEPT ![n] = Append(@, [data |-> m.data, from |-> m.from])]
  <2>1. PICK g \in [data : Nat, from : Node] : g = [data |-> m.data, from |-> m.from]
    BY DEF Request
  <2>2. got[n] \in Seq([data : Nat, from : Node]) /\ got'[n] = Append(got[n], g)
        /\ \A r \in Node \ {n} : got'[r] = got[r]
    BY <1>2, <2>1 DEF Intact
  <2>3. /\ got'[n] \in Seq([data : Nat, from : Node])
        /\ DOMAIN got'[n] = DOMAIN got[n] \union {Len(got[n]) + 1}
        /\ got'[n][Len(got[n]) + 1] = g
        /\ \A i \in DOMAIN got[n] : got'[n][i] = got[n][i]
    BY <2>2, Appended
  <2>4. got' \in [Node -> Seq([data : Nat, from : Node])]
    BY <1>2, <2>2, <2>3 DEF Intact
  <2> DEFINE Good(r, e) ==
                /\ e.data \in DOMAIN calls
                /\ \/ calls[e.data].from = e.from /\ calls[e.data].to \in {r, Broadcast}
                   \/ calls[e.data].from = r /\ calls[e.data].to = Broadcast
  <2>5. Good(n, g)
    BY <2>1 DEF Given, OwnBroadcast
  <2>6. ASSUME NEW r \in Node, NEW i \in DOMAIN got'[r] PROVE Good(r, got'[r][i])
    <3>1. CASE r = n /\ i \notin DOMAIN got[n]
      BY <2>3, <2>5, <3>1
    <3>2. CASE i \in DOMAIN got[r] /\ got'[r][i] = got[r][i]
      BY <3>2 DEF Intact, PayloadIntact
    <3> HIDE DEF Good
    <3> QED BY <2>2, <2>3, <3>1, <3>2
  <2> QED BY <2>4, <2>6 DEF PayloadIntact
<1> QED BY <1>1, <1>2 DEF Deliver

LEMMA StepIntact == Intact /\ [Next]_vars => Intact'
<1> SUFFICES ASSUME Intact, [Next]_vars PROVE Intact'
  OBVIOUS
<1>1. ASSUME NEW n \in Node, AckArrives(n) \/ GiveUp(n) \/ Reset(n) PROVE Intact'
  <2>1. pc[n] = "wait" => cur[n].data \in DOMAIN calls
    BY DEF Intact, Works, Given
  <2>2. /\ pc' = [pc EXCEPT ![n] = "loop"] /\ cur' = cur /\ got' = got
        /\ lastSeq' \in [Node -> Nat]
        /\ \/ rx' = Taken(n)
           \/ rx' = rx /\ ~(rx[n] # NoMessage /\ rx[n].data = cur[n].data)
    BY <1>1 DEF AckArrives, GiveUp, TimeIsUp, Reset, Intact
  <2>3. \/ calls' = calls
        \/ pc[n] = "wait" /\ \E r \in {"ok", "failed"} : Result(cur[n].data, r)
    BY <1>1 DEF AckArrives, GiveUp, TimeIsUp, Reset
  <2>4. calls \in Seq(Calls)
    BY DEF Intact
  <2>5. CallsKept /\ calls' \in Seq(Calls)
    BY <2>1, <2>3, <2>4, ResultIntact, SameCallsKept
  <2> QED BY <2>2, <2>5, EndIntact
<1>2. ASSUME NEW n \in Node, OtherArrives(n) PROVE Intact'
  <2>1. /\ rx[n] \in Request /\ UNCHANGED <<lastSeq, pc, cur, calls, got>>
        /\ rx' = Taken(n) \/ Acknowledge(n, rx[n])
    BY <1>2 DEF OtherArrives, Intact
  <2>2. CallsKept
    BY <2>1, SameCallsKept
  <2>3. /\ rx' \in [Node -> Request \union {NoMessage}]
        /\ \A r \in Node : Holds(r)'
    BY <2>1, <2>2, TakingHolds, AcknowledgingHolds
  <2> QED BY <2>1, <2>2, <2>3, StillWorks, GotStays DEF Intact
<1>3. ASSUME NEW n \in Node, Retransmit(n) PROVE Intact'
  <2>1. /\ pc[n] = "wait" /\ Transmit(n, cur[n], rx)
        /\ UNCHANGED <<lastSeq, pc, cur, calls, got>>
    BY <1>3 DEF Retransmit, TimeIsUp
  <2>2. CallsKept
    BY <2>1, SameCallsKept
  <2>3. cur[n] \in Request /\ ~cur[n].ack /\ cur[n].from = n /\ Given(cur[n])
    BY <2>1 DEF Intact, Works
  <2>4. calls[cur[n].data] \in Calls
    BY <2>3 DEF Given, Intact
  <2>5. n \in Senders
    BY <2>3, <2>4 DEF Given, Calls
  <2>6. CanSend(n, cur[n])
    BY <2>1, <2>3, <2>5 DEF CanSend, Given
  <2>7. /\ rx \in [Node -> Request \union {NoMessage}]
        /\ pc'[n] = "wait" /\ cur'[n].data = cur[n].data /\ cur' = cur
    BY <2>1 DEF Intact
  <2>8. /\ rx' \in [Node -> Request \union {NoMessage}]
        /\ \A r \in Node : Holds(r)'
    BY <2>1, <2>2, <2>3, <2>6, <2>7, SendingHolds
  <2> QED BY <2>1, <2>2, <2>8, StillWorks, GotStays DEF Intact
<1>4. ASSUME NEW n \in Node, Accept(n) PROVE Intact'
  <2>1. /\ pc[n] = "accept" /\ pc' = [pc EXCEPT ![n] = "loop"]
        /\ Deliver(n, cur[n]) /\ UNCHANGED <<lastSeq, rx, cur, calls>>
    BY <1>4 DEF Accept
  <2>2. CallsKept
    BY <2>1, SameCallsKept
  <2>3. /\ cur[n] \in Request /\ cur[n].to = n
        /\ Given(cur[n]) \/ OwnBroadcast(n, cur[n])
    BY <2>1 DEF Intact, Works
  <2>4. /\ got' \in [Node -> Seq([data : Nat, from : Node])]
        /\ PayloadIntact'
    BY <2>1, <2>3, DeliverIntact
  <2>5. /\ pc' \in [Node -> {"loop", "wait", "accept"}] /\ pc'[n] = "loop"
        /\ \A r \in Node \ {n} : pc'[r] = pc[r]
    BY <2>1 DEF Intact
  <2>6. ASSUME NEW r \in Node PROVE Holds(r)' /\ Works(r)'
    <3>1. CASE r = n
      BY <2>1, <2>5, <3>1 DEF Intact, Holds, Laid, OwnBroadcast, Works, Given
    <3>2. CASE r # n
      <4>1. Works(r)'
        BY <2>1, <2>2, <2>5, <3>2, StillWorks
      <4> QED BY <2>1, <2>5, <3>2, <4>1 DEF Intact, Holds, Laid, OwnBroadcast, Given
    <3> QED BY <3>1, <3>2
  <2> QED BY <2>1, <2>4, <2>5, <2>6 DEF Intact
<1>5. ASSUME NEW n \in Node, RecvAck(n) \/ RecvBroadcast(n) PROVE Intact'
  <2>1. /\ rx' = Taken(n) /\ UNCHANGED <<lastSeq, pc, cur, calls>>
    BY <1>5 DEF RecvAck, RecvBroadcast
  <2>2. CallsKept
    BY <2>1, SameCallsKept
  <2>3. /\ got' \in [Node -> Seq([data : Nat, from : Node])]
        /\ PayloadIntact'
    <3>1. CASE RecvAck(n)
      BY <2>2, <3>1, GotStays DEF RecvAck, Intact
    <3>2. CASE RecvBroadcast(n)
      <4>1. /\ pc[n] = "loop" /\ rx[n] # NoMessage /\ ~rx[n].ack
            /\ Deliver(n, rx[n])
        BY <3>2 DEF RecvBroadcast
      <4>2. /\ rx[n] \in Request /\ rx[n].to \in {n, Broadcast}
            /\ Given(rx[n]) \/ OwnBroadcast(n, rx[n])
        BY <4>1 DEF Intact, Holds, Laid
      <4> QED BY <2>1, <4>1, <4>2, DeliverIntact
    <3> QED BY <1>5, <3>1, <3>2
  <2>4. /\ rx' \in [Node -> Request \union {NoMessage}]
        /\ \A r \in Node : Holds(r)'
    BY <2>1, <2>2, TakingHolds
  <2> QED BY <2>1, <2>2, <2>3, <2>4, StillWorks DEF Intact
<1>6. ASSUME NEW n \in Node, RecvRequest(n) PROVE Intact'
  <2>1. /\ pc[n] = "loop" /\ rx[n] # NoMessage /\ ~rx[n].ack
        /\ rx[n].to # Broadcast /\ Acknowledge(n, rx[n])
        /\ pc' = [pc EXCEPT ![n] = "accept"] /\ cur' = [cur EXCEPT ![n] = rx[n]]
        /\ UNCHANGED <<lastSeq, calls, got>>
    BY <1>6 DEF RecvRequest
  <2>2. CallsKept
    BY <2>1, SameCallsKept
  <2>3. /\ rx[n] \in Request /\ rx[n].to = n
        /\ Given(rx[n]) \/ OwnBroadcast(n, rx[n])
    BY <2>1 DEF Intact, Holds, Laid
  <2>4. /\ pc' \in [Node -> {"loop", "wait", "accept"}] /\ pc'[n] = "accept"
        /\ cur' \in [Node -> Request \union {NoMessage}] /\ cur'[n] = rx[n]
        /\ \A r \in Node \ {n} : pc'[r] = pc[r] /\ cur'[r] = cur[r]
    BY <2>1, <2>3 DEF Intact
  <2>5. /\ rx' \in [Node -> Request \union {NoMessage}]
        /\ \A r \in Node : Holds(r)'
    BY <2>1, <2>2, <2>3, <2>4, AcknowledgingHolds
  <2>6. ASSUME NEW r \in Node PROVE Works(r)'
    <3>1. CASE r = n
      BY <2>1, <2>3, <2>4, <3>1 DEF Works, Given, OwnBroadcast
    <3>2. CASE r # n
      BY <2>2, <2>4, <3>2, StillWorks
    <3> QED BY <3>1, <3>2
  <2> QED BY <2>1, <2>2, <2>4, <2>5, <2>6, GotStays DEF Intact
<1>7. ASSUME NEW n \in Senders, NEW to \in To \ {n}, SendtoWait(n, to) PROVE Intact'
  BY <1>7, SendtoWaitIntact
<1>8. CASE UNCHANGED vars
  <2>1. UNCHANGED <<lastSeq, rx, pc, cur, calls, got>>
    BY <1>8 DEF vars
  <2>2. CallsKept
    BY <2>1, SameCallsKept
  <2>3. \A n \in Node : Holds(n)' /\ Works(n)'
    BY <2>1, <2>2, StillWorks DEF Intact, Holds, Laid, OwnBroadcast, Given
  <2> QED BY <2>1, <2>2, <2>3, GotStays DEF Intact
<1> QED BY <1>1, <1>2, <1>3, <1>4, <1>5, <1>6, <1>7, <1>8 DEF Next, Steps, Receives

LEMMA IntactHolds == Spec => []Intact
BY InitIntact, StepIntact, PTL DEF Spec

\* What recvfromAck() returns is what the sender it names was asked to send, or
\* a broadcast of the node itself that was sent through the buffer the packet
\* waited in.
THEOREM ReturnsWhatWasSent == Spec => []PayloadIntact
<1>1. Intact => PayloadIntact
  BY DEF Intact
<1> QED BY IntactHolds, <1>1, PTL
-----------------------------------------------------------------------------
(* While no number is used twice.                                           *)

\* Who broadcasts is the only one that sends, so nothing but acknowledgements
\* comes in for it.
OneBroadcasts == Broadcast \in To => \E s \in Node : Senders \subseteq {s}

Unasked(n) == Broadcast \in To /\ n \in Senders /\ rx[n] # NoMessage => rx[n].ack

Calm == Intact /\ \A n \in Node : Unasked(n)

\* A step puts nothing but acknowledgements into the buffer of who broadcasts.
LEMMA SendingCalm ==
    ASSUME OneBroadcasts, \A r \in Node : Unasked(r), NEW n \in Node,
           NEW m \in Request, m.ack \/ n \in Senders,
           NEW buf \in [Node -> Request \union {NoMessage}],
           \A r \in Node : buf[r] \in {rx[r], NoMessage}, Transmit(n, m, buf)
    PROVE  \A r \in Node : Unasked(r)'
<1> SUFFICES ASSUME NEW r \in Node, Broadcast \in To, r \in Senders,
                    rx'[r] # NoMessage
             PROVE  rx'[r].ack
  BY DEF Unasked
<1>1. CASE rx'[r] = buf[r]
  BY <1>1 DEF Unasked
<1>2. CASE /\ r = n /\ buf[n] \in Request /\ buf[n] # NoMessage
           /\ rx'[n] = Overlaid(buf[n], m)
  BY <1>2 DEF Unasked, Overlaid, Request
<1>3. CASE r # n /\ rx'[r] = m
  BY <1>3 DEF OneBroadcasts
<1> QED BY <1>1, <1>2, <1>3, Heard

LEMMA StepCalm == ASSUME OneBroadcasts PROVE Calm /\ [Next]_vars => Calm'
<1> SUFFICES ASSUME Calm, [Next]_vars PROVE \A n \in Node : Unasked(n)'
  BY StepIntact DEF Calm
<1>1. /\ rx \in [Node -> Request \union {NoMessage}] /\ calls \in Seq(Calls)
      /\ \A n \in Node : Unasked(n)
  BY DEF Calm, Intact
<1>2. ASSUME NEW n \in Node, rx' = Taken(n) PROVE \A r \in Node : Unasked(r)'
  BY <1>1, <1>2 DEF Taken, Unasked
<1>3. ASSUME NEW n \in Node, rx[n] # NoMessage, Acknowledge(n, rx[n])
      PROVE  \A r \in Node : Unasked(r)'
  <2>1. PICK buf \in [Node -> Request \union {NoMessage}] : buf = Taken(n)
    BY <1>1 DEF Taken
  <2>2. \A r \in Node : buf[r] \in {rx[r], NoMessage}
    BY <1>1, <2>1 DEF Taken
  <2>3. PICK a \in Request : a = AckOf(n, rx[n])
    BY <1>1, <1>3, AckCanBeSent
  <2>4. Transmit(n, a, buf) /\ a.ack
    BY <1>3, <2>1, <2>3 DEF Acknowledge, AckOf
  <2> QED BY <1>1, <2>2, <2>4, SendingCalm
<1>4. ASSUME NEW n \in Node, Retransmit(n) PROVE \A r \in Node : Unasked(r)'
  <2>1. /\ Transmit(n, cur[n], rx) /\ cur[n] \in Request /\ Given(cur[n])
        /\ cur[n].from = n
    BY <1>4 DEF Retransmit, TimeIsUp, Calm, Intact, Works
  <2>2. calls[cur[n].data] \in Calls
    BY <1>1, <2>1 DEF Given
  <2>3. n \in Senders
    BY <2>1, <2>2 DEF Given, Calls
  <2> QED BY <1>1, <2>1, <2>3, SendingCalm
<1>5. ASSUME NEW n \in Senders, NEW to \in To \ {n}, SendtoWait(n, to)
      PROVE  \A r \in Node : Unasked(r)'
  <2>1. PICK seq \in Nat : seq = (lastSeq[n] + 1) % SeqMod
    BY ReliableAssumption DEF Calm, Intact
  <2>2. PICK m \in Request : m = [from |-> n, to |-> to, id |-> seq, ack |-> FALSE,
                                  data |-> Len(calls) + 1]
    <3>1. Len(calls) + 1 \in Nat
      BY <1>1
    <3> QED BY <3>1, ReliableAssumption DEF Request
  <2>3. Transmit(n, m, rx)
    BY <1>5, <2>1, <2>2 DEF SendtoWait
  <2> QED BY <1>1, <2>3, ReliableAssumption, SendingCalm
<1>6. ASSUME UNCHANGED rx PROVE \A r \in Node : Unasked(r)'
  BY <1>1, <1>6 DEF Unasked
<1>7. ASSUME NEW n \in Node, AckArrives(n) \/ OtherArrives(n) \/ RecvAck(n)
                              \/ RecvBroadcast(n) \/ RecvRequest(n) \/ Reset(n)
      PROVE  \A r \in Node : Unasked(r)'
  BY <1>2, <1>3, <1>7
     DEF AckArrives, OtherArrives, RecvAck, RecvBroadcast, RecvRequest, Reset
<1>8. ASSUME NEW n \in Node, GiveUp(n) \/ Accept(n) PROVE UNCHANGED rx
  BY <1>8 DEF GiveUp, Accept
<1>9. CASE UNCHANGED vars
  BY <1>6, <1>9 DEF vars
<1> QED BY <1>4, <1>5, <1>6, <1>7, <1>8, <1>9 DEF Next, Steps, Receives

LEMMA CalmHolds == ASSUME OneBroadcasts PROVE Spec => []Calm
<1>1. Init => Calm
  BY InitIntact DEF Calm, Unasked, Init
<1> QED BY <1>1, StepCalm, PTL DEF Spec

\* Nothing has been sent through the buffer of a node in its loop.
LEMMA CalmIsGiven ==
    ASSUME Calm, NEW n \in Node, pc[n] = "loop", rx[n] # NoMessage, ~rx[n].ack
    PROVE  Given(rx[n]) /\ rx[n].from # n
<1>1. Holds(n) /\ Unasked(n) /\ calls \in Seq(Calls)
  BY DEF Calm, Intact
<1>2. ~OwnBroadcast(n, rx[n])
  <2> SUFFICES ASSUME OwnBroadcast(n, rx[n]) PROVE FALSE
    OBVIOUS
  <2>1. calls[rx[n].data] \in Calls
    BY <1>1 DEF OwnBroadcast
  <2> QED BY <1>1, <2>1 DEF OwnBroadcast, Calls, Unasked
<1> QED BY <1>1, <1>2 DEF Holds, Laid

Usage == MaxCalls < SeqMod /\ MaxResets = 0 /\ OneBroadcasts

\* The identifier of each call: how many its sender has made up to it.
Seqs == [k \in DOMAIN calls |->
            Cardinality({j \in 1..k : calls[j].from = calls[k].from})]
Count == [n \in Node |-> Cardinality({j \in DOMAIN calls : calls[j].from = n})]

\* The headers of m are those of call k.
IsCall(m, k) ==
    /\ k \in DOMAIN calls
    /\ m.from = calls[k].from /\ m.to = calls[k].to /\ m.id = Seqs[k]

\* What n has returned of s is not younger than call k.
GotUpTo(n, s, k) ==
    \A i \in DOMAIN got[n] : got[n][i].from = s => got[n][i].data <= k

\* The calls each node has returned or is about to.
Took == [n \in Node |-> {got[n][i].data : i \in DOMAIN got[n]}
                        \union (IF Accepting(n) THEN {cur[n].data} ELSE {})]
-----------------------------------------------------------------------------
TypeOK ==
    /\ lastSeq \in [Node -> Nat]
    /\ seen \in [Node -> [Node -> Nat]]
    /\ rx \in [Node -> Request \union {NoMessage}]
    /\ pc \in [Node -> {"loop", "wait", "accept"}]
    /\ cur \in [Node -> Request \union {NoMessage}]
    /\ calls \in Seq(Calls) /\ Len(calls) <= MaxCalls
    /\ got \in [Node -> Seq([data : Nat, from : Node])]
    /\ resets = 0

\* A node waits for the last of its calls.
Waiting(n) ==
    pc[n] = "wait" =>
        /\ cur[n] \in Request /\ ~cur[n].ack /\ cur[n].from = n
        /\ cur[n].to \in Node
        /\ IsCall(cur[n], cur[n].data)
        /\ calls[cur[n].data].result = "pending"
        /\ \A j \in DOMAIN calls : calls[j].from = n => j <= cur[n].data

\* A node that has acknowledged a request has nothing in its buffer, and has
\* returned nothing younger of that sender.
Acknowledged(n) ==
    pc[n] = "accept" =>
        /\ rx[n] = NoMessage
        /\ cur[n] \in Request /\ ~cur[n].ack /\ cur[n].to = n
        /\ IsCall(cur[n], cur[n].data)
        /\ GotUpTo(n, cur[n].from, cur[n].data)

\* What is returned are calls to that node, or to all.
Returned(n) ==
    \A i \in DOMAIN got[n] :
        /\ got[n][i].data \in DOMAIN calls
        /\ calls[got[n][i].data].from = got[n][i].from
        /\ calls[got[n][i].data].to \in {n, Broadcast}

\* The identifier remembered of a sender is that of its last call returned.
Remembered(n, s) ==
    \/ /\ seen[n][s] = 0
       /\ \A i \in DOMAIN got[n] : got[n][i].from # s
    \/ \E i \in DOMAIN got[n] :
          /\ got[n][i].from = s
          /\ seen[n][s] = Seqs[got[n][i].data]
          /\ GotUpTo(n, s, got[n][i].data)

Sender(n, k) == k \in DOMAIN calls /\ calls[k].from = n

\* A request in a buffer is a call, not older than what was returned, with its
\* payload or that of a call of the node that holds it; an acknowledgement is
\* for a call that was taken.
Buffered(n, m) ==
    /\ m \in Request /\ m.to \in {n, Broadcast}
    /\ ~m.ack => \E k \in DOMAIN calls :
                    /\ IsCall(m, k) /\ GotUpTo(n, m.from, k)
                    /\ m.data = k \/ Sender(n, m.data)
    /\ m.ack => \E k \in Took[m.from] : /\ k \in DOMAIN calls
                    /\ calls[k].from = n /\ calls[k].to = m.from /\ m.id = Seqs[k]

InBuffers == \A n \in Node : rx[n] # NoMessage => Buffered(n, rx[n])

Inv ==
    /\ TypeOK
    /\ lastSeq = Count
    /\ \A n \in Node : Waiting(n) /\ Acknowledged(n) /\ Returned(n)
    /\ \A n, s \in Node : Remembered(n, s)
    /\ InBuffers
-----------------------------------------------------------------------------
LEMMA CallsUpToFinite ==
    ASSUME NEW k \in Nat, NEW S, S \subseteq 1..k
    PROVE  IsFiniteSet(S) /\ Cardinality(S) \in 0..k
<1>1. IsFiniteSet(1..k) /\ Cardinality(1..k) = k
  <2>1. IsFiniteSet(1..k) /\ Cardinality(1..k) = IF 1 > k THEN 0 ELSE k - 1 + 1
    BY FS_Interval
  <2> QED BY <2>1
<1>2. IsFiniteSet(S) /\ Cardinality(S) <= Cardinality(1..k)
  BY <1>1, FS_Subset
<1>3. Cardinality(S) \in Nat
  BY <1>2, FS_CardinalityType
<1> QED BY <1>1, <1>2, <1>3

\* Of two calls of one sender the later has the greater identifier.
LEMMA SeqsGrow ==
    ASSUME TypeOK
    PROVE  /\ \A k \in DOMAIN calls : Seqs[k] \in Nat \ {0}
           /\ \A j, k \in DOMAIN calls :
                 calls[j].from = calls[k].from /\ j < k => Seqs[j] < Seqs[k]
           /\ \A j, k \in DOMAIN calls :
                 calls[j].from = calls[k].from /\ Seqs[j] = Seqs[k] => j = k
<1> DEFINE UpTo(k) == {j \in 1..k : calls[j].from = calls[k].from}
<1>0. DOMAIN calls = 1..Len(calls) /\ Len(calls) \in Nat
  BY DEF TypeOK
<1>1. \A k \in DOMAIN calls : IsFiniteSet(UpTo(k)) /\ Cardinality(UpTo(k)) \in Nat
  BY <1>0, CallsUpToFinite
<1>2. \A k \in DOMAIN calls : Seqs[k] = Cardinality(UpTo(k))
  BY DEF Seqs
<1>3. ASSUME NEW k \in DOMAIN calls PROVE Seqs[k] \in Nat \ {0}
  <2>1. k \in UpTo(k)
    BY <1>0
  <2> QED BY <1>1, <1>2, <2>1, FS_EmptySet
<1>4. ASSUME NEW j \in DOMAIN calls, NEW k \in DOMAIN calls,
             calls[j].from = calls[k].from, j < k
      PROVE  Seqs[j] < Seqs[k]
  <2>1. UpTo(j) \subseteq UpTo(k) /\ k \in UpTo(k) /\ k \notin UpTo(j)
    BY <1>0, <1>4
  <2>2. UpTo(j) # UpTo(k)
    BY <2>1
  <2>3. Cardinality(UpTo(j)) <= Cardinality(UpTo(k))
        /\ Cardinality(UpTo(j)) # Cardinality(UpTo(k))
    BY <1>1, <2>1, <2>2, FS_Subset
  <2>4. /\ Cardinality(UpTo(j)) \in Nat /\ Cardinality(UpTo(k)) \in Nat
        /\ Seqs[j] = Cardinality(UpTo(j)) /\ Seqs[k] = Cardinality(UpTo(k))
    BY <1>1, <1>2
  <2> HIDE DEF UpTo
  <2> QED BY <2>3, <2>4
<1>5. \A j, k \in DOMAIN calls :
         calls[j].from = calls[k].from /\ Seqs[j] = Seqs[k] => j = k
  <2> SUFFICES ASSUME NEW j \in DOMAIN calls, NEW k \in DOMAIN calls,
                      calls[j].from = calls[k].from, Seqs[j] = Seqs[k], j # k
               PROVE  FALSE
    OBVIOUS
  <2>1. j < k \/ k < j
    BY <1>0
  <2> QED BY <1>3, <1>4, <2>1
<1> QED BY <1>3, <1>4, <1>5

\* A result changes no identifier.
LEMMA SameCalls ==
    ASSUME TypeOK, DOMAIN calls' = DOMAIN calls,
           \A k \in DOMAIN calls : calls'[k].from = calls[k].from
    PROVE  Seqs' = Seqs /\ Count' = Count
<1>1. DOMAIN calls = 1..Len(calls) /\ Len(calls) \in Nat
  BY DEF TypeOK
<1>2. \A k \in DOMAIN calls : {j \in 1..k : calls'[j].from = calls'[k].from}
                            = {j \in 1..k : calls[j].from = calls[k].from}
  BY <1>1
<1>3. \A n \in Node : {j \in DOMAIN calls' : calls'[j].from = n}
                    = {j \in DOMAIN calls : calls[j].from = n}
  OBVIOUS
<1> QED BY <1>2, <1>3 DEF Seqs, Count

\* A new call gets the next identifier of its sender.
LEMMA NewCall ==
    ASSUME TypeOK, NEW n \in Node, NEW c \in Calls, c.from = n,
           calls' = Append(calls, c)
    PROVE  /\ \A k \in DOMAIN calls : k \in DOMAIN calls' /\ Seqs'[k] = Seqs[k]
           /\ Count' = [Count EXCEPT ![n] = @ + 1]
           /\ Seqs'[Len(calls) + 1] = Count[n] + 1
           /\ Count[n] \in 0..Len(calls)
<1> DEFINE Of(s) == {j \in DOMAIN calls : calls[j].from = s}
           new == Len(calls) + 1
<1>1. /\ DOMAIN calls = 1..Len(calls) /\ Len(calls) \in Nat
      /\ DOMAIN calls' = 1..new
      /\ calls'[new] = c
      /\ \A k \in DOMAIN calls : calls'[k] = calls[k]
  BY DEF TypeOK
<1>2. \A k \in DOMAIN calls : {j \in 1..k : calls'[j].from = calls'[k].from}
                            = {j \in 1..k : calls[j].from = calls[k].from}
  BY <1>1
<1>3. ASSUME NEW k \in DOMAIN calls
      PROVE  k \in DOMAIN calls' /\ Seqs'[k] = Seqs[k]
  <2>1. k \in DOMAIN calls'
    BY <1>1
  <2>2. Seqs'[k] = Cardinality({j \in 1..k : calls'[j].from = calls'[k].from})
    BY <2>1 DEF Seqs
  <2>3. Seqs[k] = Cardinality({j \in 1..k : calls[j].from = calls[k].from})
    BY DEF Seqs
  <2> QED BY <1>2, <2>1, <2>2, <2>3
<1>4. \A s \in Node : IsFiniteSet(Of(s)) /\ Cardinality(Of(s)) \in Nat
  <2>1. \A s \in Node : Of(s) \subseteq 1..Len(calls)
    BY <1>1
  <2> QED BY <1>1, <2>1, CallsUpToFinite
<1>5. \A s \in Node : s # n => {j \in DOMAIN calls' : calls'[j].from = s} = Of(s)
  BY <1>1
<1>6. {j \in DOMAIN calls' : calls'[j].from = n} = Of(n) \union {new}
  BY <1>1
<1>7. new \notin Of(n)
  BY <1>1
<1>8. Cardinality(Of(n) \union {new}) = Cardinality(Of(n)) + 1
  BY <1>4, <1>7, FS_AddElement
<1>9. Count' = [Count EXCEPT ![n] = @ + 1]
  BY <1>5, <1>6, <1>8 DEF Count
<1>10. Seqs'[new] = Count[n] + 1
  <2>1. {j \in 1..new : calls'[j].from = calls'[new].from} = Of(n) \union {new}
    BY <1>1, <1>6
  <2> QED BY <1>1, <1>8, <2>1 DEF Seqs, Count
<1>11. Count[n] \in 0..Len(calls)
  <2>1. Of(n) \subseteq 1..Len(calls)
    BY <1>1
  <2>2. Cardinality(Of(n)) \in 0..Len(calls)
    BY <1>1, <2>1, CallsUpToFinite
  <2> QED BY <2>2 DEF Count
<1> QED BY <1>3, <1>9, <1>10, <1>11
-----------------------------------------------------------------------------
\* The same, when it does not matter what happens to the own buffer.
LEMMA HeardBy ==
    ASSUME NEW n \in Node, NEW m \in Request,
           NEW buf \in [Node -> Request \union {NoMessage}], Transmit(n, m, buf)
    PROVE  /\ rx' \in [Node -> Request \union {NoMessage}]
           /\ buf[n] = NoMessage => rx'[n] = NoMessage
           /\ \A r \in Node : \/ r = n \/ rx'[r] = buf[r]
                              \/ rx'[r] = m /\ pc[r] # "accept"
BY Heard

\* The calls and the identifiers of those there were stay, and what was taken.
Keeps ==
    /\ \A k \in DOMAIN calls :
          /\ k \in DOMAIN calls' /\ Seqs'[k] = Seqs[k]
          /\ calls'[k].from = calls[k].from /\ calls'[k].to = calls[k].to
    /\ \A s \in Node : Took[s] \subseteq Took'[s]

\* What was in a buffer and has not been taken out is still what it should be.
LEMMA StillBuffered ==
    ASSUME TypeOK, InBuffers, Keeps, NEW n \in Node, rx[n] \in Request,
           rx[n] # NoMessage, got'[n] = got[n],
           \/ rx'[n] = rx[n]
           \/ \E m \in Request : rx'[n] = Overlaid(rx[n], m) /\ Sender(n, m.data)'
    PROVE  Buffered(n, rx[n])'
<1>1. Buffered(n, rx[n])
  BY DEF InBuffers
<1>2. /\ rx'[n] \in Request /\ rx'[n].to = rx[n].to /\ rx'[n].from = rx[n].from
      /\ rx'[n].id = rx[n].id /\ rx'[n].ack = rx[n].ack
      /\ rx'[n].data = rx[n].data \/ Sender(n, rx[n].data)'
  BY DEF Request, Overlaid
<1>3. ASSUME ~rx[n].ack
      PROVE  (\E k \in DOMAIN calls : /\ IsCall(rx[n], k) /\ GotUpTo(n, rx[n].from, k)
                                      /\ rx[n].data = k \/ Sender(n, rx[n].data))'
  <2>1. PICK k \in DOMAIN calls : /\ IsCall(rx[n], k) /\ GotUpTo(n, rx[n].from, k)
                                  /\ rx[n].data = k \/ Sender(n, rx[n].data)
    BY <1>1, <1>3 DEF Buffered
  <2>2. rx'[n].data = k \/ Sender(n, rx[n].data)'
    BY <1>2, <2>1 DEF Sender, Keeps
  <2> QED BY <1>2, <2>1, <2>2 DEF IsCall, GotUpTo, Keeps
<1>4. ASSUME rx[n].ack
      PROVE  (\E k \in Took[rx[n].from] :
                 /\ k \in DOMAIN calls /\ calls[k].from = n
                 /\ calls[k].to = rx[n].from /\ rx[n].id = Seqs[k])'
  <2>1. PICK k \in Took[rx[n].from] : /\ k \in DOMAIN calls /\ calls[k].from = n
                 /\ calls[k].to = rx[n].from /\ rx[n].id = Seqs[k]
    BY <1>1, <1>4 DEF Buffered
  <2>2. rx[n].from \in Node
    BY DEF Request
  <2> QED BY <1>2, <2>1, <2>2 DEF Keeps
<1> QED BY <1>1, <1>2, <1>3, <1>4 DEF Buffered

\* What can be sent: a call, not older than what its receiver has returned,
\* or an acknowledgement of what has been taken.
Sound(m) ==
    /\ ~m.ack => /\ m.data \in DOMAIN calls'
                 /\ m.from = calls'[m.data].from /\ m.to = calls'[m.data].to
                 /\ m.id = Seqs'[m.data]
                 /\ \A r \in Node : m.to \in {r, Broadcast} =>
                                      GotUpTo(r, m.from, m.data)
    /\ m.ack => /\ m.to \in Node
                /\ \E k \in Took'[m.from] :
                   /\ k \in DOMAIN calls' /\ calls'[k].from = m.to
                   /\ calls'[k].to = m.from /\ m.id = Seqs'[k]

LEMMA SoundIsBuffered ==
    ASSUME TypeOK, InBuffers, Keeps, got' = got,
           NEW n \in Node, NEW m \in Request, Sound(m), m.from = n,
           NEW buf \in [Node -> Request \union {NoMessage}],
           m.ack => buf[n] = NoMessage,
           \A r \in Node : buf[r] \in {rx[r], NoMessage}, Transmit(n, m, buf)
    PROVE  InBuffers'
<1> SUFFICES ASSUME NEW r \in Node, rx'[r] # NoMessage
             PROVE  Buffered(r, rx[r])'
  BY DEF InBuffers
<1>1. CASE rx'[r] = m /\ m.to \in {r, Broadcast}
  <2>1. CASE m.ack
    <3>1. m.to = r
      BY <1>1, <2>1, ReliableAssumption DEF Sound
    <3> QED BY <1>1, <2>1, <3>1 DEF Buffered, Sound
  <2>2. CASE ~m.ack
    BY <1>1, <2>2 DEF Buffered, Sound, IsCall, GotUpTo
  <2> QED BY <2>1, <2>2
<1>2. CASE /\ rx[r] \in Request /\ rx[r] # NoMessage
           /\ rx'[r] = rx[r] \/ (rx'[r] = Overlaid(rx[r], m) /\ Sender(r, m.data)')
  BY <1>2, StillBuffered
<1> QED
  <2>1. CASE rx'[r] = buf[r]
    BY <1>2, <2>1 DEF TypeOK
  <2>2. CASE /\ r = n /\ buf[n] \in Request /\ buf[n] # NoMessage
             /\ rx'[n] = Overlaid(buf[n], m)
    BY <1>2, <2>2 DEF Sound, Sender
  <2> QED BY <1>1, <2>1, <2>2, Heard
-----------------------------------------------------------------------------
LEMMA SmallModulo ==
    ASSUME NEW a \in Nat, NEW b \in Nat, a < b
    PROVE  a % b = a
OBVIOUS

\* A node that is not about to return a message, before and after, or that
\* keeps what it is about to return, has taken what it had.
LEMMA TookStays ==
    ASSUME NEW n \in Node, got'[n] = got[n],
           \/ pc'[n] = pc[n] /\ cur'[n] = cur[n] /\ seen'[n] = seen[n]
           \/ pc[n] # "accept" /\ pc'[n] # "accept"
    PROVE  Took'[n] = Took[n]
BY DEF Took, Accepting

LEMMA HistoryStays ==
    ASSUME Inv, Keeps, got' = got, seen' = seen
    PROVE  \A n \in Node : Returned(n)' /\ \A s \in Node : Remembered(n, s)'
<1> SUFFICES ASSUME NEW n \in Node
             PROVE  Returned(n)' /\ \A s \in Node : Remembered(n, s)'
  OBVIOUS
<1>1. Returned(n)
  BY DEF Inv
<1>2. Returned(n)'
  BY <1>1 DEF Returned, Keeps
<1>3. ASSUME NEW s \in Node PROVE Remembered(n, s)'
  <2>1. Remembered(n, s)
    BY DEF Inv
  <2>2. CASE seen[n][s] = 0 /\ \A i \in DOMAIN got[n] : got[n][i].from # s
    BY <2>2 DEF Remembered
  <2>3. CASE \E i \in DOMAIN got[n] :
               /\ got[n][i].from = s
               /\ seen[n][s] = Seqs[got[n][i].data]
               /\ GotUpTo(n, s, got[n][i].data)
    <3>1. PICK i \in DOMAIN got[n] :
               /\ got[n][i].from = s
               /\ seen[n][s] = Seqs[got[n][i].data]
               /\ GotUpTo(n, s, got[n][i].data)
      BY <2>3
    <3>2. Seqs'[got[n][i].data] = Seqs[got[n][i].data]
      BY <1>1 DEF Returned, Keeps
    <3> QED BY <3>1, <3>2 DEF Remembered, GotUpTo
  <2> QED BY <2>1, <2>2, <2>3 DEF Remembered
<1> QED BY <1>2, <1>3

LEMMA AcknowledgedStays ==
    ASSUME Inv, Keeps, NEW n \in Node, pc'[n] = pc[n], cur'[n] = cur[n],
           got'[n] = got[n], pc[n] = "accept" => rx'[n] = rx[n]
    PROVE  Acknowledged(n)'
<1> SUFFICES ASSUME pc[n] = "accept" PROVE Acknowledged(n)'
  BY DEF Acknowledged
<1>1. Acknowledged(n)
  BY DEF Inv
<1>2. IsCall(cur[n], cur[n].data)'
  BY <1>1 DEF Acknowledged, IsCall, Keeps
<1> QED BY <1>1, <1>2 DEF Acknowledged, GotUpTo

LEMMA WaitingStays ==
    ASSUME Inv, Keeps, NEW n \in Node, pc'[n] = pc[n], cur'[n] = cur[n],
           \A k \in DOMAIN calls :
               calls[k].from = n => calls'[k].result = calls[k].result,
           \A k \in DOMAIN calls' : calls'[k].from = n => k \in DOMAIN calls
    PROVE  Waiting(n)'
<1> SUFFICES ASSUME pc[n] = "wait" PROVE Waiting(n)'
  BY DEF Waiting
<1>1. Waiting(n)
  BY DEF Inv
<1>2. IsCall(cur[n], cur[n].data)'
  BY <1>1 DEF Waiting, IsCall, Keeps
<1>3. calls'[cur[n].data].result = "pending"
  BY <1>1 DEF Waiting, IsCall
<1>4. \A j \in DOMAIN calls' : calls'[j].from = n => j <= cur[n].data
  BY <1>1 DEF Waiting, Keeps
<1> QED BY <1>1, <1>2, <1>3, <1>4 DEF Waiting

\* What a step that makes no call, or only gives one its result, keeps.
LEMMA CallsStay ==
    ASSUME Inv, calls' = calls, \A s \in Node : Took[s] \subseteq Took'[s]
    PROVE  Keeps /\ Seqs' = Seqs /\ Count' = Count
<1>1. Seqs' = Seqs /\ Count' = Count
  BY SameCalls DEF Inv
<1> QED BY <1>1 DEF Keeps

LEMMA ResultKeeps ==
    ASSUME Inv, NEW k \in DOMAIN calls, NEW r \in {"ok", "failed"}, Result(k, r),
           \A s \in Node : Took[s] \subseteq Took'[s]
    PROVE  /\ Keeps /\ Seqs' = Seqs /\ Count' = Count
           /\ DOMAIN calls' = DOMAIN calls
           /\ calls' \in Seq(Calls) /\ Len(calls') = Len(calls)
           /\ \A j \in DOMAIN calls : j # k => calls'[j] = calls[j]
<1>1. calls \in Seq(Calls) /\ calls' = [calls EXCEPT ![k].result = r]
  BY DEF Inv, TypeOK, Result
<1>2. /\ calls' \in Seq(Calls) /\ Len(calls') = Len(calls)
      /\ DOMAIN calls' = DOMAIN calls
  <2>1. DOMAIN calls = 1..Len(calls) /\ Len(calls) \in Nat
        /\ \A j \in DOMAIN calls : calls[j] \in Calls
    BY <1>1
  <2>2. calls' = [j \in 1..Len(calls) |-> calls'[j]]
    BY <1>1, <2>1
  <2>3. \A j \in 1..Len(calls) : calls'[j] \in Calls
    BY <1>1, <2>1 DEF Calls
  <2>4. calls' \in [1..Len(calls) -> Calls]
    BY <2>2, <2>3
  <2>5. calls' \in Seq(Calls)
    BY <2>1, <2>4
  <2>6. DOMAIN calls' = 1..Len(calls')
    BY <2>5
  <2> QED BY <2>1, <2>4, <2>5, <2>6
<1>3. \A j \in DOMAIN calls : /\ j # k => calls'[j] = calls[j]
                              /\ calls'[j].from = calls[j].from
                              /\ calls'[j].to = calls[j].to
  BY <1>1 DEF Calls
<1>4. Seqs' = Seqs /\ Count' = Count
  BY <1>2, <1>3, SameCalls DEF Inv
<1> QED BY <1>1, <1>2, <1>3, <1>4 DEF Keeps
-----------------------------------------------------------------------------
LEMMA TakingKeeps ==
    ASSUME Inv, Keeps, got' = got, NEW n \in Node, rx' = Taken(n)
    PROVE  /\ rx' \in [Node -> Request \union {NoMessage}]
           /\ rx'[n] = NoMessage /\ \A r \in Node \ {n} : rx'[r] = rx[r]
           /\ InBuffers'
<1>1. /\ rx' \in [Node -> Request \union {NoMessage}]
      /\ rx'[n] = NoMessage /\ \A r \in Node \ {n} : rx'[r] = rx[r]
  BY DEF Taken, Inv, TypeOK
<1>2. ASSUME NEW r \in Node, rx'[r] # NoMessage PROVE Buffered(r, rx[r])'
  <2>1. rx'[r] = rx[r] /\ rx[r] \in Request /\ rx[r] # NoMessage
    BY <1>1, <1>2 DEF Inv, TypeOK
  <2> QED BY <2>1, StillBuffered DEF Inv
<1> QED BY <1>1, <1>2 DEF InBuffers

\* A call returns: its node goes back to its loop.
LEMMA ReturnKeeps ==
    ASSUME Inv, NEW n \in Node, pc[n] = "wait", NEW r \in {"ok", "failed"},
           Result(cur[n].data, r), pc' = [pc EXCEPT ![n] = "loop"],
           UNCHANGED <<lastSeq, seen, cur, got, resets>>
    PROVE  /\ Keeps /\ calls' \in Seq(Calls) /\ Len(calls') = Len(calls)
           /\ pc' \in [Node -> {"loop", "wait", "accept"}]
           /\ lastSeq' = Count' /\ Took' = Took
           /\ \A m \in Node : Waiting(m)' /\ Returned(m)'
           /\ \A m, s \in Node : Remembered(m, s)'
<1>1. /\ cur[n].data \in DOMAIN calls /\ calls[cur[n].data].from = n
  BY DEF Inv, Waiting, IsCall
<1>2. /\ pc' \in [Node -> {"loop", "wait", "accept"}]
      /\ pc'[n] = "loop" /\ \A m \in Node \ {n} : pc'[m] = pc[m]
  BY DEF Inv, TypeOK
<1>3. \A m \in Node : Took'[m] = Took[m]
  BY <1>2, TookStays
<1>4. Took' = Took
  BY <1>3 DEF Took
<1>5. /\ Keeps /\ Count' = Count
      /\ calls' \in Seq(Calls) /\ Len(calls') = Len(calls)
      /\ DOMAIN calls' = DOMAIN calls
      /\ \A j \in DOMAIN calls : j # cur[n].data => calls'[j] = calls[j]
  BY <1>1, <1>3, ResultKeeps
<1>6. \A m \in Node : Returned(m)' /\ \A s \in Node : Remembered(m, s)'
  BY <1>5, HistoryStays
<1>7. ASSUME NEW m \in Node PROVE Waiting(m)'
  <2>1. CASE m = n
    BY <1>2, <2>1 DEF Waiting
  <2>2. CASE m # n
    BY <1>1, <1>2, <1>5, <2>2, WaitingStays
  <2> QED BY <2>1, <2>2
<1> QED BY <1>2, <1>4, <1>5, <1>6, <1>7 DEF Inv

LEMMA AckArrivesKeeps ==
    ASSUME Inv, NEW n \in Node, AckArrives(n)
    PROVE  Inv'
<1>1. /\ pc[n] = "wait" /\ rx' = Taken(n) /\ pc' = [pc EXCEPT ![n] = "loop"]
      /\ Result(cur[n].data, "ok")
      /\ UNCHANGED <<lastSeq, seen, cur, got, resets>>
  BY DEF AckArrives
<1>2. /\ Keeps /\ calls' \in Seq(Calls) /\ Len(calls') = Len(calls)
      /\ pc' \in [Node -> {"loop", "wait", "accept"}] /\ lastSeq' = Count'
      /\ \A m \in Node : Waiting(m)' /\ Returned(m)'
      /\ \A m, s \in Node : Remembered(m, s)'
  BY <1>1, ReturnKeeps
<1>3. /\ rx' \in [Node -> Request \union {NoMessage}]
      /\ rx'[n] = NoMessage /\ \A r \in Node \ {n} : rx'[r] = rx[r]
      /\ InBuffers'
  BY <1>1, <1>2, TakingKeeps
<1>4. TypeOK'
  BY <1>1, <1>2, <1>3 DEF Inv, TypeOK
<1>5. ASSUME NEW m \in Node PROVE Acknowledged(m)'
  <2>1. CASE m = n
    BY <1>1, <1>3, <2>1 DEF Acknowledged, Inv, TypeOK
  <2>2. CASE m # n
    <3>1. pc'[m] = pc[m] /\ rx'[m] = rx[m]
      BY <1>1, <1>3, <2>2 DEF Inv, TypeOK
    <3> QED BY <1>1, <1>2, <3>1, AcknowledgedStays DEF Inv
  <2> QED BY <2>1, <2>2
<1> QED BY <1>2, <1>3, <1>4, <1>5 DEF Inv

LEMMA GiveUpKeeps ==
    ASSUME Inv, NEW n \in Node, GiveUp(n)
    PROVE  Inv'
<1>1. /\ pc[n] = "wait" /\ pc' = [pc EXCEPT ![n] = "loop"]
      /\ Result(cur[n].data, "failed")
      /\ UNCHANGED <<lastSeq, seen, cur, got, resets, rx>>
  BY DEF GiveUp, TimeIsUp
<1>2. /\ Keeps /\ calls' \in Seq(Calls) /\ Len(calls') = Len(calls)
      /\ pc' \in [Node -> {"loop", "wait", "accept"}] /\ lastSeq' = Count'
      /\ \A m \in Node : Waiting(m)' /\ Returned(m)'
      /\ \A m, s \in Node : Remembered(m, s)'
  BY <1>1, ReturnKeeps
<1>3. InBuffers'
  <2>1. ASSUME NEW r \in Node, rx'[r] # NoMessage PROVE Buffered(r, rx[r])'
    BY <1>1, <1>2, <2>1, StillBuffered DEF Inv, TypeOK
  <2> QED BY <2>1 DEF InBuffers
<1>4. TypeOK'
  BY <1>1, <1>2 DEF Inv, TypeOK
<1>5. ASSUME NEW m \in Node PROVE Acknowledged(m)'
  <2>1. CASE m = n
    BY <1>1, <2>1 DEF Acknowledged, Inv, TypeOK
  <2>2. CASE m # n
    <3>1. pc'[m] = pc[m]
      BY <1>1, <2>2 DEF Inv, TypeOK
    <3> QED BY <1>1, <1>2, <3>1, AcknowledgedStays DEF Inv
  <2> QED BY <2>1, <2>2
<1> QED BY <1>2, <1>3, <1>4, <1>5 DEF Inv
-----------------------------------------------------------------------------
\* Steps that only change buffers.
LEMMA NothingElse ==
    ASSUME Inv, UNCHANGED <<seen, pc, cur, calls, got>>
    PROVE  Keeps /\ Took' = Took /\ Seqs' = Seqs /\ Count' = Count
<1>1. Took' = Took
  BY DEF Took, Accepting
<1> QED BY <1>1, CallsStay

LEMMA QuietKeeps ==
    ASSUME Inv, UNCHANGED <<lastSeq, seen, pc, cur, calls, got, resets>>,
           rx' \in [Node -> Request \union {NoMessage}], InBuffers',
           \A m \in Node : pc[m] = "accept" => rx'[m] = rx[m]
    PROVE  Inv'
<1>1. Keeps /\ Count' = Count
  BY NothingElse
<1>2. TypeOK'
  BY DEF Inv, TypeOK
<1>3. ASSUME NEW m \in Node PROVE Waiting(m)' /\ Acknowledged(m)' /\ Returned(m)'
  BY <1>1, WaitingStays, AcknowledgedStays, HistoryStays
<1>4. \A m, s \in Node : Remembered(m, s)'
  BY <1>1, HistoryStays
<1> QED BY <1>1, <1>2, <1>3, <1>4 DEF Inv

\* What a node remembers to have seen is the call it has returned.
LEMMA SeenWasReturned ==
    ASSUME Inv, NEW n \in Node, NEW k \in DOMAIN calls, calls[k].from \in Node,
           seen[n][calls[k].from] = Seqs[k]
    PROVE  \E i \in DOMAIN got[n] : got[n][i].data = k
<1>1. Remembered(n, calls[k].from) /\ Returned(n) /\ Seqs[k] # 0
  BY SeqsGrow DEF Inv
<1>2. PICK i \in DOMAIN got[n] : /\ got[n][i].from = calls[k].from
                                 /\ Seqs[k] = Seqs[got[n][i].data]
  BY <1>1 DEF Remembered
<1>3. /\ got[n][i].data \in DOMAIN calls
      /\ calls[got[n][i].data].from = calls[k].from
  BY <1>1, <1>2 DEF Returned
<1> QED BY <1>2, <1>3, SeqsGrow DEF Inv

\* An acknowledgement of a request that has been taken can be sent.
LEMMA AckIsSound ==
    ASSUME Inv, NEW n \in Node, rx[n] \in Request, ~rx[n].ack, rx[n].to = n, Keeps,
           NEW k \in DOMAIN calls, IsCall(rx[n], k), k \in Took'[n]
    PROVE  AckOf(n, rx[n]) \in Request /\ Sound(AckOf(n, rx[n]))
<1> DEFINE a == AckOf(n, rx[n])
<1>1. AckData \in Nat \ {0}
  BY ReliableAssumption DEF AckData
<1>2. a \in Request
  BY <1>1 DEF AckOf, Request
<1>3. /\ a.from = n /\ a.to = calls[k].from /\ a.id = Seqs[k] /\ a.ack
      /\ calls[k].to = n /\ a.to \in Node
  BY <1>1 DEF AckOf, IsCall, Request
<1>4. /\ k \in DOMAIN calls' /\ Seqs'[k] = Seqs[k]
      /\ calls'[k].from = calls[k].from /\ calls'[k].to = calls[k].to
  BY DEF Keeps
<1> HIDE DEF a
<1>5. Sound(a)
  BY <1>3, <1>4 DEF Sound
<1> QED BY <1>2, <1>5 DEF a

\* The call a node waits for can be sent once more.
LEMMA WaitingIsSound ==
    ASSUME Inv, Keeps, NEW n \in Node, pc[n] = "wait"
    PROVE  cur[n] \in Request /\ cur[n].from = n /\ ~cur[n].ack /\ Sound(cur[n])
<1>1. /\ cur[n] \in Request /\ ~cur[n].ack /\ cur[n].from = n
      /\ IsCall(cur[n], cur[n].data)
      /\ \A j \in DOMAIN calls : calls[j].from = n => j <= cur[n].data
  BY DEF Inv, Waiting
<1>2. \A r \in Node : Returned(r)
  BY DEF Inv
<1>3. \A r \in Node : GotUpTo(r, n, cur[n].data)
  BY <1>1, <1>2 DEF GotUpTo, Returned
<1> QED BY <1>1, <1>3 DEF Sound, IsCall, Keeps

LEMMA RetransmitKeeps ==
    ASSUME Inv, NEW n \in Node, Retransmit(n)
    PROVE  Inv'
<1>1. /\ pc[n] = "wait" /\ Transmit(n, cur[n], rx)
      /\ UNCHANGED <<lastSeq, seen, pc, cur, calls, got, resets>>
  BY DEF Retransmit, TimeIsUp
<1>2. Keeps
  BY <1>1, NothingElse
<1>3. cur[n] \in Request /\ cur[n].from = n /\ ~cur[n].ack /\ Sound(cur[n])
  BY <1>1, <1>2, WaitingIsSound
<1>4. rx \in [Node -> Request \union {NoMessage}]
  BY DEF Inv, TypeOK
<1>5. InBuffers'
  BY <1>1, <1>2, <1>3, <1>4, SoundIsBuffered DEF Inv
<1>6. /\ rx' \in [Node -> Request \union {NoMessage}]
      /\ \A r \in Node :
            r = n \/ rx'[r] = rx[r] \/ (rx'[r] = cur[n] /\ pc[r] # "accept")
  BY <1>1, <1>3, <1>4, HeardBy
<1>7. \A m \in Node : pc[m] = "accept" => rx'[m] = rx[m]
  BY <1>1, <1>6
<1> QED BY <1>1, <1>5, <1>6, <1>7, QuietKeeps

\* Who holds what after n has taken the request out of its buffer and
\* acknowledged it.
LEMMA AckHeard ==
    ASSUME Inv, NEW n \in Node, rx[n] \in Request, Acknowledge(n, rx[n]),
           NEW a \in Request, a = AckOf(n, rx[n])
    PROVE  /\ rx' \in [Node -> Request \union {NoMessage}]
           /\ rx'[n] = NoMessage
           /\ \A r \in Node : \/ r # n /\ rx'[r] = rx[r]
                              \/ r = n
                              \/ rx'[r] = a /\ pc[r] # "accept"
           /\ Keeps /\ got' = got /\ Sound(a) => InBuffers'
<1>1. PICK buf \in [Node -> Request \union {NoMessage}] : buf = Taken(n)
  BY DEF Inv, TypeOK, Taken
<1>2. buf[n] = NoMessage /\ \A r \in Node \ {n} : buf[r] = rx[r]
  BY <1>1 DEF Inv, TypeOK, Taken
<1>3. Transmit(n, a, buf)
  BY <1>1 DEF Acknowledge, AckOf
<1>4. /\ rx' \in [Node -> Request \union {NoMessage}]
      /\ rx'[n] = NoMessage
      /\ \A r \in Node : \/ r = n \/ rx'[r] = buf[r]
                         \/ rx'[r] = a /\ pc[r] # "accept"
  BY <1>2, <1>3, HeardBy
<1>5. ASSUME Keeps, got' = got, Sound(a) PROVE InBuffers'
  <2>1. TypeOK /\ InBuffers
    BY DEF Inv
  <2>2. a.from = n /\ \A r \in Node : buf[r] \in {rx[r], NoMessage}
    BY <1>2 DEF AckOf
  <2> QED BY <1>2, <1>3, <1>5, <2>1, <2>2, SoundIsBuffered
<1> QED BY <1>2, <1>4, <1>5

\* Who waits is a sender, and if there are broadcasts it sends them all: a
\* request it finds in its buffer is for itself.
LEMMA WaiterIsAsked ==
    ASSUME Inv, Calm, NEW n \in Node, pc[n] = "wait", rx[n] # NoMessage,
           ~rx[n].ack
    PROVE  rx[n].to = n
<1>1. /\ rx[n].to \in {n, Broadcast}
      /\ Broadcast \in To /\ n \in Senders => rx[n].ack
      /\ calls \in Seq(Calls)
  BY DEF Calm, Intact, Holds, Unasked
<1>2. cur[n].data \in DOMAIN calls /\ calls[cur[n].data].from = n
  BY DEF Inv, Waiting, IsCall
<1>3. n \in Senders
  <2>1. calls[cur[n].data] \in Calls
    BY <1>1, <1>2
  <2> QED BY <1>2, <2>1 DEF Calls
<1>4. rx[n].to \in To
  <2>1. PICK k \in DOMAIN calls : IsCall(rx[n], k)
    BY DEF Inv, InBuffers, Buffered
  <2>2. calls[k] \in Calls
    BY <1>1
  <2> QED BY <2>1, <2>2 DEF IsCall, Calls
<1> QED BY <1>1, <1>3, <1>4

LEMMA OtherArrivesKeeps ==
    ASSUME Inv, Calm, NEW n \in Node, OtherArrives(n)
    PROVE  Inv'
<1>1. /\ pc[n] = "wait" /\ rx[n] # NoMessage
      /\ IF Repeated(n, rx[n]) THEN Acknowledge(n, rx[n]) ELSE rx' = Taken(n)
      /\ UNCHANGED <<lastSeq, seen, pc, cur, calls, got, resets>>
  BY DEF OtherArrives
<1>2. Keeps /\ Took' = Took
  BY <1>1, NothingElse
<1>3. CASE rx' = Taken(n)
  <2>1. /\ rx' \in [Node -> Request \union {NoMessage}]
        /\ rx'[n] = NoMessage /\ \A r \in Node \ {n} : rx'[r] = rx[r]
        /\ InBuffers'
    BY <1>1, <1>2, <1>3, TakingKeeps
  <2>2. \A m \in Node : pc[m] = "accept" => rx'[m] = rx[m]
    BY <1>1, <2>1
  <2> QED BY <1>1, <2>1, <2>2, QuietKeeps
<1>4. CASE Repeated(n, rx[n]) /\ Acknowledge(n, rx[n])
  <2>1. /\ rx[n] \in Request /\ Buffered(n, rx[n]) /\ ~rx[n].ack /\ rx[n].to = n
        /\ rx[n].id = seen[n][rx[n].from]
    BY <1>1, <1>4, WaiterIsAsked DEF Inv, TypeOK, InBuffers, Repeated, Buffered
  <2>2. PICK k \in DOMAIN calls : IsCall(rx[n], k)
    BY <2>1 DEF Buffered
  <2>3. \E i \in DOMAIN got[n] : got[n][i].data = k
    <3>1. calls[k].from = rx[n].from /\ rx[n].from \in Node /\ Seqs[k] = rx[n].id
      BY <2>1, <2>2 DEF IsCall, Request
    <3> QED BY <2>1, <3>1, SeenWasReturned
  <2>4. k \in Took[n]
    BY <2>3 DEF Took
  <2>5. PICK a \in Request : a = AckOf(n, rx[n]) /\ Sound(a)
    BY <1>2, <2>1, <2>2, <2>4, AckIsSound
  <2>6. /\ rx' \in [Node -> Request \union {NoMessage}] /\ rx'[n] = NoMessage
        /\ \A r \in Node : \/ r # n /\ rx'[r] = rx[r]
                           \/ r = n
                           \/ rx'[r] = a /\ pc[r] # "accept"
        /\ InBuffers'
    BY <1>1, <1>2, <1>4, <2>1, <2>5, AckHeard
  <2>7. \A m \in Node : pc[m] = "accept" => rx'[m] = rx[m]
    BY <1>1, <2>6
  <2> QED BY <1>1, <2>6, <2>7, QuietKeeps
<1> QED BY <1>1, <1>3, <1>4

LEMMA RecvAckKeeps ==
    ASSUME Inv, NEW n \in Node, RecvAck(n)
    PROVE  Inv'
<1>1. /\ pc[n] = "loop" /\ rx' = Taken(n)
      /\ UNCHANGED <<lastSeq, seen, pc, cur, calls, got, resets>>
  BY DEF RecvAck
<1>2. Keeps
  BY <1>1, NothingElse
<1>3. /\ rx' \in [Node -> Request \union {NoMessage}]
      /\ rx'[n] = NoMessage /\ \A r \in Node \ {n} : rx'[r] = rx[r]
      /\ InBuffers'
  BY <1>1, <1>2, TakingKeeps
<1>4. \A m \in Node : pc[m] = "accept" => rx'[m] = rx[m]
  BY <1>1, <1>3
<1> QED BY <1>1, <1>3, <1>4, QuietKeeps
-----------------------------------------------------------------------------
LEMMA InitHolds == Init => Inv
<1> SUFFICES ASSUME Init PROVE Inv
  OBVIOUS
<1>1. TypeOK
  BY ReliableAssumption DEF Init, TypeOK
<1>2. \A n \in Node : {j \in DOMAIN calls : calls[j].from = n} = {}
  BY DEF Init
<1>3. lastSeq = Count
  BY <1>2, FS_EmptySet DEF Init, Count
<1>4. \A n \in Node : Waiting(n) /\ Acknowledged(n) /\ Returned(n)
  BY DEF Init, Waiting, Acknowledged, Returned
<1>5. \A n, s \in Node : Remembered(n, s)
  BY DEF Init, Remembered
<1>6. InBuffers
  BY DEF Init, InBuffers
<1> QED BY <1>1, <1>3, <1>4, <1>5, <1>6 DEF Inv

\* What a new call puts on the air has the next identifier of its sender: it
\* has not wrapped around.
Sent(n, to) == [from |-> n, to |-> to, id |-> Count[n] + 1, ack |-> FALSE,
                data |-> Len(calls) + 1]
NewCallOf(n, to) == [from |-> n, to |-> to,
                     result |-> IF to = Broadcast THEN "ok" ELSE "pending"]

LEMMA NewNumber ==
    ASSUME Inv, Usage, NEW n \in Senders, NEW to \in To \ {n}, SendtoWait(n, to)
    PROVE  /\ n \in Node /\ to \in Node \union {Broadcast} /\ to # n
           /\ Sent(n, to) \in Request
           /\ pc[n] = "loop" /\ Len(calls) < MaxCalls
           /\ lastSeq' = [lastSeq EXCEPT ![n] = Count[n] + 1]
           /\ Transmit(n, Sent(n, to), rx)
           /\ NewCallOf(n, to) \in Calls
           /\ calls' = Append(calls, NewCallOf(n, to))
           /\ IF to = Broadcast THEN UNCHANGED <<pc, cur>>
              ELSE /\ pc' = [pc EXCEPT ![n] = "wait"]
                   /\ cur' = [cur EXCEPT ![n] = Sent(n, to)]
           /\ UNCHANGED <<seen, got, resets>>
           /\ Count[n] \in 0..Len(calls)
<1>1. n \in Node /\ to \in Node \union {Broadcast} /\ to # n
  BY ReliableAssumption
<1>2. NewCallOf(n, to) \in Calls /\ NewCallOf(n, to).from = n
  <2>1. PICK x \in {"ok", "pending", "failed"} :
          x = IF to = Broadcast THEN "ok" ELSE "pending"
    OBVIOUS
  <2> QED BY <2>1 DEF NewCallOf, Calls
<1>3. PICK c \in Calls : c = NewCallOf(n, to)
  BY <1>2
<1>4. Len(calls) \in Nat /\ Len(calls) < MaxCalls /\ calls' = Append(calls, c)
  BY <1>1, <1>3 DEF SendtoWait, Inv, TypeOK, NewCallOf
<1>5. Count[n] \in 0..Len(calls)
  BY <1>1, <1>2, <1>3, <1>4, NewCall DEF Inv
<1>6. (lastSeq[n] + 1) % SeqMod = Count[n] + 1
  <2>1. Count[n] + 1 \in Nat /\ SeqMod \in Nat /\ Count[n] + 1 < SeqMod
    BY <1>4, <1>5, ReliableAssumption DEF Usage
  <2>2. lastSeq[n] = Count[n]
    BY <1>1 DEF Inv
  <2> QED BY <2>1, <2>2, SmallModulo
<1>7. Sent(n, to) \in Request
  BY <1>1, <1>4, <1>5 DEF Sent, Request
<1> QED BY <1>1, <1>2, <1>3, <1>4, <1>5, <1>6, <1>7 DEF SendtoWait, Sent

LEMMA SendtoWaitKeeps ==
    ASSUME Inv, Usage, NEW n \in Senders, NEW to \in To \ {n}, SendtoWait(n, to)
    PROVE  Inv' /\ Took' = Took
<1>1. /\ n \in Node /\ to \in Node \union {Broadcast} /\ to # n
      /\ pc[n] = "loop" /\ Len(calls) < MaxCalls
      /\ UNCHANGED <<seen, got, resets>>
  BY NewNumber
<1>2. PICK m \in Request : m = Sent(n, to)
  BY NewNumber
<1>3. PICK new \in Nat : new = Len(calls) + 1
  BY DEF Inv, TypeOK
<1>4. /\ m.from = n /\ m.to = to /\ m.id = Count[n] + 1 /\ ~m.ack /\ m.data = new
  BY <1>2, <1>3 DEF Sent
<1>5. PICK c \in Calls : c = NewCallOf(n, to)
  BY NewNumber
<1>6. /\ calls' = Append(calls, c) /\ c.from = n /\ c.to = to
      /\ to # Broadcast => c.result = "pending"
  BY <1>5, NewNumber DEF NewCallOf
<1>7. /\ DOMAIN calls = 1..Len(calls) /\ DOMAIN calls' = 1..new
      /\ new \in DOMAIN calls' /\ calls'[new] = c
      /\ \A k \in DOMAIN calls : calls'[k] = calls[k] /\ k < new
      /\ calls' \in Seq(Calls) /\ Len(calls') <= MaxCalls
  BY <1>1, <1>3, <1>6, ReliableAssumption DEF Inv, TypeOK
<1>8. /\ \A k \in DOMAIN calls : k \in DOMAIN calls' /\ Seqs'[k] = Seqs[k]
      /\ Count' = [Count EXCEPT ![n] = @ + 1]
      /\ Seqs'[new] = Count[n] + 1 /\ Count[n] \in Nat
  <2>1. TypeOK
    BY DEF Inv
  <2> QED BY <1>1, <1>3, <1>6, <2>1, NewCall
<1>9. /\ IF to = Broadcast THEN UNCHANGED <<pc, cur>>
         ELSE pc' = [pc EXCEPT ![n] = "wait"] /\ cur' = [cur EXCEPT ![n] = m]
      /\ lastSeq' = [lastSeq EXCEPT ![n] = Count[n] + 1]
      /\ Transmit(n, m, rx)
  BY <1>2, NewNumber
<1>10. /\ pc' \in [Node -> {"loop", "wait", "accept"}]
       /\ cur' \in [Node -> Request \union {NoMessage}]
       /\ lastSeq' \in [Node -> Nat]
       /\ \/ to = Broadcast /\ pc'[n] = "loop"
          \/ to \in Node /\ to # Broadcast /\ pc'[n] = "wait" /\ cur'[n] = m
       /\ \A r \in Node \ {n} : pc'[r] = pc[r] /\ cur'[r] = cur[r]
  <2>1. /\ pc \in [Node -> {"loop", "wait", "accept"}]
        /\ cur \in [Node -> Request \union {NoMessage}]
        /\ lastSeq \in [Node -> Nat] /\ Count[n] + 1 \in Nat
    BY <1>8 DEF Inv, TypeOK
  <2>2. lastSeq' \in [Node -> Nat]
    BY <1>1, <1>9, <2>1
  <2>3. CASE to = Broadcast
    BY <1>1, <1>9, <2>1, <2>2, <2>3
  <2>4. CASE to \in Node /\ to # Broadcast
    <3>1. pc' = [pc EXCEPT ![n] = "wait"] /\ cur' = [cur EXCEPT ![n] = m]
      BY <1>9, <2>4
    <3> QED BY <1>1, <2>1, <2>2, <2>4, <3>1
  <2> QED BY <1>1, <2>3, <2>4
<1>11. \A r \in Node : Took'[r] = Took[r]
  BY <1>1, <1>10, TookStays
<1>12. Took' = Took
  BY <1>11 DEF Took
<1>13. Keeps
  BY <1>7, <1>8, <1>11 DEF Keeps
<1>14. Sound(m)
  <2>1. \A r \in Node : Returned(r)
    BY DEF Inv
  <2>2. \A r \in Node : GotUpTo(r, n, new)
    BY <1>7, <2>1 DEF GotUpTo, Returned
  <2> QED BY <1>4, <1>6, <1>7, <1>8, <2>2 DEF Sound
<1>15. rx \in [Node -> Request \union {NoMessage}] /\ TypeOK /\ InBuffers
  BY DEF Inv, TypeOK
<1>16. InBuffers'
  BY <1>1, <1>4, <1>9, <1>13, <1>14, <1>15, SoundIsBuffered
<1>17. /\ rx' \in [Node -> Request \union {NoMessage}]
       /\ \A r \in Node : r = n \/ rx'[r] = rx[r] \/ (rx'[r] = m /\ pc[r] # "accept")
  BY <1>1, <1>9, <1>15, HeardBy
<1>18. TypeOK'
  BY <1>1, <1>7, <1>10, <1>17 DEF Inv, TypeOK
<1>19. lastSeq' = Count'
  BY <1>8, <1>9 DEF Inv
<1>20. ASSUME NEW r \in Node PROVE Waiting(r)' /\ Acknowledged(r)'
  <2>1. CASE r = n /\ pc'[n] = "loop"
    BY <2>1 DEF Waiting, Acknowledged
  <2>2. CASE r = n /\ to \in Node /\ to # Broadcast /\ pc'[n] = "wait" /\ cur'[n] = m
    <3>1. IsCall(m, new)' /\ calls'[new].result = "pending"
      BY <1>4, <1>6, <1>7, <1>8, <2>2 DEF IsCall
    <3>2. \A j \in DOMAIN calls' : j <= new
      BY <1>7
    <3>3. Waiting(n)'
      BY <1>4, <2>2, <3>1, <3>2 DEF Waiting
    <3> QED BY <2>2, <3>3 DEF Acknowledged
  <2>3. CASE r # n
    <3>1. pc'[r] = pc[r] /\ cur'[r] = cur[r]
      BY <1>10, <2>3
    <3>2. pc[r] = "accept" => rx'[r] = rx[r]
      BY <1>17, <2>3
    <3>3. Acknowledged(r)'
      BY <1>1, <1>13, <3>1, <3>2, AcknowledgedStays
    <3>4. Waiting(r)'
      <4>1. \A k \in DOMAIN calls : calls'[k].result = calls[k].result
        BY <1>7
      <4>2. \A k \in DOMAIN calls' : calls'[k].from = r => k \in DOMAIN calls
        <5>1. \A k \in DOMAIN calls' : k = new \/ k \in DOMAIN calls
          BY <1>3, <1>7 DEF Inv, TypeOK
        <5> QED BY <1>6, <1>7, <2>3, <5>1
      <4> QED BY <1>13, <3>1, <4>1, <4>2, WaitingStays
    <3> QED BY <3>3, <3>4
  <2> QED BY <1>10, <2>1, <2>2, <2>3
<1>21. \A r \in Node : Returned(r)' /\ \A s \in Node : Remembered(r, s)'
  BY <1>1, <1>13, HistoryStays
<1> QED BY <1>12, <1>16, <1>18, <1>19, <1>20, <1>21 DEF Inv
-----------------------------------------------------------------------------
\* What recvfromAck() finds is a call to this node or to all, with its payload,
\* and not older than what it has returned of that sender.
LEMMA RequestIsCall ==
    ASSUME Inv, Calm, NEW n \in Node, pc[n] = "loop", rx[n] # NoMessage,
           ~rx[n].ack
    PROVE  /\ rx[n] \in Request /\ rx[n].to \in {n, Broadcast}
           /\ rx[n].from \in Node
           /\ rx[n].data \in DOMAIN calls /\ IsCall(rx[n], rx[n].data)
           /\ GotUpTo(n, rx[n].from, rx[n].data)
<1>1. rx[n] \in Request /\ Buffered(n, rx[n]) /\ rx[n].data \in DOMAIN calls
  BY CalmIsGiven DEF Inv, InBuffers, TypeOK, Given
<1>2. PICK k \in DOMAIN calls : /\ IsCall(rx[n], k) /\ GotUpTo(n, rx[n].from, k)
                                /\ rx[n].data = k \/ Sender(n, rx[n].data)
  BY <1>1 DEF Buffered
<1>3. rx[n].data = k
  BY <1>2, CalmIsGiven DEF Given, Sender
<1> QED BY <1>1, <1>2, <1>3 DEF Buffered, Request

LEMMA GotAreCalls ==
    ASSUME NEW q \in Seq([data : Nat, from : Node]), NEW i \in DOMAIN q
    PROVE  q[i].data \in Nat /\ q[i].from \in Node
<1>1. i \in 1..Len(q)
  BY LenProperties
<1>2. q[i] \in [data : Nat, from : Node]
  BY <1>1, ElementOfSeq
<1> QED BY <1>2

\* The last call returned of a sender is the one remembered.
LEMMA LastIsSeen ==
    ASSUME Inv, NEW n \in Node, NEW s \in Node, NEW k \in DOMAIN calls,
           GotUpTo(n, s, k), NEW i \in DOMAIN got[n],
           got[n][i].from = s, got[n][i].data = k
    PROVE  seen[n][s] = Seqs[k]
<1>1. Remembered(n, s) /\ calls \in Seq(Calls)
      /\ got[n] \in Seq([data : Nat, from : Node])
  BY DEF Inv, TypeOK
<1>2. PICK j \in DOMAIN got[n] : /\ got[n][j].from = s
                                 /\ seen[n][s] = Seqs[got[n][j].data]
                                 /\ GotUpTo(n, s, got[n][j].data)
  BY <1>1 DEF Remembered
<1>3. PICK d \in Nat : d = got[n][j].data
  BY <1>1, GotAreCalls
<1>4. d <= k /\ k <= d /\ k \in Nat
  BY <1>1, <1>2, <1>3 DEF GotUpTo
<1> QED BY <1>1, <1>2, <1>3, <1>4

LEMMA RecvRequestKeeps ==
    ASSUME Inv, Calm, NEW n \in Node, RecvRequest(n)
    PROVE  Inv'
<1>1. /\ pc[n] = "loop" /\ rx[n] # NoMessage /\ ~rx[n].ack
      /\ rx[n].to # Broadcast /\ Acknowledge(n, rx[n])
      /\ pc' = [pc EXCEPT ![n] = "accept"] /\ cur' = [cur EXCEPT ![n] = rx[n]]
      /\ UNCHANGED <<lastSeq, seen, calls, got, resets>>
  BY DEF RecvRequest
<1>2. PICK k \in DOMAIN calls :
         /\ rx[n] \in Request /\ rx[n].to = n /\ rx[n].from \in Node
         /\ rx[n].data = k /\ IsCall(rx[n], k) /\ GotUpTo(n, rx[n].from, k)
  BY <1>1, RequestIsCall
<1>3. /\ pc' \in [Node -> {"loop", "wait", "accept"}]
      /\ cur' \in [Node -> Request \union {NoMessage}]
      /\ pc'[n] = "accept" /\ cur'[n] = rx[n]
      /\ \A r \in Node \ {n} : pc'[r] = pc[r] /\ cur'[r] = cur[r]
  BY <1>1, <1>2 DEF Inv, TypeOK
<1>4. \A r \in Node : Took[r] \subseteq Took'[r]
  BY <1>1, <1>3 DEF Took, Accepting
<1>5. Keeps /\ Seqs' = Seqs /\ Count' = Count
  BY <1>1, <1>4, CallsStay
<1>6. k \in Took'[n]
  <2>1. CASE rx[n].id = seen[n][rx[n].from]
    <3>1. calls[k].from = rx[n].from /\ Seqs[k] = rx[n].id
      BY <1>2 DEF IsCall
    <3>2. \E i \in DOMAIN got[n] : got[n][i].data = k
      BY <1>2, <2>1, <3>1, SeenWasReturned
    <3> QED BY <1>1, <3>2 DEF Took
  <2>2. CASE rx[n].id # seen[n][rx[n].from]
    <3>1. Accepting(n)'
      BY <1>1, <1>3, <2>2 DEF Accepting
    <3> QED BY <1>2, <1>3, <3>1 DEF Took
  <2> QED BY <2>1, <2>2
<1>7. PICK a \in Request : a = AckOf(n, rx[n]) /\ Sound(a)
  BY <1>1, <1>2, <1>5, <1>6, AckIsSound
<1>8. /\ rx' \in [Node -> Request \union {NoMessage}] /\ rx'[n] = NoMessage
      /\ \A r \in Node : \/ r # n /\ rx'[r] = rx[r]
                         \/ r = n
                         \/ rx'[r] = a /\ pc[r] # "accept"
      /\ InBuffers'
  BY <1>1, <1>2, <1>5, <1>7, AckHeard
<1>9. TypeOK'
  BY <1>1, <1>3, <1>8 DEF Inv, TypeOK
<1>10. ASSUME NEW r \in Node PROVE Waiting(r)' /\ Acknowledged(r)'
  <2>1. CASE r = n
    <3>1. IsCall(cur[n], k)'
      BY <1>1, <1>2, <1>3, <1>5 DEF IsCall
    <3>2. GotUpTo(n, cur[n].from, k)'
      BY <1>1, <1>2, <1>3 DEF GotUpTo
    <3>3. Acknowledged(n)'
      BY <1>1, <1>2, <1>3, <1>8, <3>1, <3>2 DEF Acknowledged
    <3> QED BY <1>3, <1>8, <2>1, <3>3 DEF Waiting
  <2>2. CASE r # n
    <3>1. pc'[r] = pc[r] /\ cur'[r] = cur[r]
      BY <1>3, <2>2
    <3>2. pc[r] = "accept" => rx'[r] = rx[r]
      BY <1>8, <2>2
    <3> QED BY <1>1, <1>5, <3>1, <3>2, AcknowledgedStays, WaitingStays
  <2> QED BY <2>1, <2>2
<1>11. \A r \in Node : Returned(r)' /\ \A s \in Node : Remembered(r, s)'
  BY <1>1, <1>5, HistoryStays
<1> QED BY <1>1, <1>5, <1>8, <1>9, <1>10, <1>11 DEF Inv

\* A request is returned, or dropped as a duplicate: the one that was
\* acknowledged, or a broadcast as it is found in the buffer.
LEMMA DeliverKeeps ==
    ASSUME Inv, NEW n \in Node, NEW m \in Request,
           IsCall(m, m.data), GotUpTo(n, m.from, m.data), m.to \in {n, Broadcast},
           Accepting(n) => cur[n] = m,
           Deliver(n, m), rx' = Taken(n), pc' = [pc EXCEPT ![n] = "loop"],
           UNCHANGED <<lastSeq, cur, calls, resets>>
    PROVE  Inv'
<1>1. /\ pc' = [pc EXCEPT ![n] = "loop"]
      /\ UNCHANGED <<lastSeq, cur, calls, resets>>
  OBVIOUS
<1>2. PICK k \in DOMAIN calls, s \in Node :
         /\ m.data = k /\ m.from = s /\ k \in Nat
         /\ calls[k].from = s /\ calls[k].to \in {n, Broadcast} /\ m.id = Seqs[k]
         /\ GotUpTo(n, s, k) /\ Seqs[k] \in Nat
  BY SeqsGrow DEF Inv, IsCall, Request
<1>3. /\ pc' \in [Node -> {"loop", "wait", "accept"}]
      /\ pc'[n] = "loop" /\ \A r \in Node \ {n} : pc'[r] = pc[r]
  BY <1>1 DEF Inv, TypeOK
<1>4. PICK g \in [data : Nat, from : Node] : g = [data |-> k, from |-> s]
  BY <1>2
<1>5. \/ seen[n][s] = Seqs[k] /\ UNCHANGED <<seen, got>>
      \/ /\ seen[n][s] # Seqs[k]
         /\ seen' = [seen EXCEPT ![n][s] = Seqs[k]]
         /\ got' = [got EXCEPT ![n] = Append(@, g)]
  BY <1>2, <1>4 DEF Deliver
<1>6. /\ seen' \in [Node -> [Node -> Nat]]
      /\ got' \in [Node -> Seq([data : Nat, from : Node])]
      /\ \A r \in Node \ {n} : got'[r] = got[r] /\ seen'[r] = seen[r]
      /\ \A t \in Node \ {s} : seen'[n][t] = seen[n][t]
  <2>1. /\ seen \in [Node -> [Node -> Nat]]
        /\ got \in [Node -> Seq([data : Nat, from : Node])]
    BY DEF Inv, TypeOK
  <2>2. Append(got[n], g) \in Seq([data : Nat, from : Node])
    BY <2>1, Appended
  <2>3. CASE UNCHANGED <<seen, got>>
    BY <2>1, <2>3
  <2>4. CASE /\ seen' = [seen EXCEPT ![n][s] = Seqs[k]]
             /\ got' = [got EXCEPT ![n] = Append(@, g)]
    <3>1. got' \in [Node -> Seq([data : Nat, from : Node])]
          /\ \A r \in Node \ {n} : got'[r] = got[r]
      BY <2>1, <2>2, <2>4
    <3>2. seen' \in [Node -> [Node -> Nat]]
      BY <1>2, <2>1, <2>4
    <3>3. /\ \A r \in Node \ {n} : seen'[r] = seen[r]
          /\ \A t \in Node \ {s} : seen'[n][t] = seen[n][t]
      BY <1>2, <2>1, <2>4
    <3> QED BY <3>1, <3>2, <3>3
  <2> QED BY <1>5, <2>3, <2>4
<1>7. seen[n][s] # Seqs[k] =>
         /\ seen'[n][s] = Seqs[k]
         /\ DOMAIN got'[n] = DOMAIN got[n] \union {Len(got[n]) + 1}
         /\ got'[n][Len(got[n]) + 1] = g
         /\ \A i \in DOMAIN got[n] : got'[n][i] = got[n][i]
  <2>1. got[n] \in Seq([data : Nat, from : Node])
    BY DEF Inv, TypeOK
  <2>2. seen[n][s] # Seqs[k] => /\ seen'[n][s] = Seqs[k]
                                /\ got'[n] = Append(got[n], g)
    <3>1. seen \in [Node -> [Node -> Nat]] /\ DOMAIN got = Node
      BY DEF Inv, TypeOK
    <3> QED BY <1>5, <3>1
  <2> QED BY <2>1, <2>2, Appended
<1>8. ASSUME NEW r \in Node PROVE Took[r] \subseteq Took'[r]
  <2>1. CASE r # n
    BY <1>1, <1>3, <1>6, <2>1, TookStays
  <2>2. CASE r = n /\ seen[n][s] = Seqs[k]
    BY <1>1, <1>2, <1>5, <2>2 DEF Took, Accepting
  <2>3. CASE r = n /\ seen[n][s] # Seqs[k]
    BY <1>2, <1>4, <1>7, <2>3 DEF Took, Accepting
  <2> QED BY <2>1, <2>2, <2>3
<1>9. Keeps /\ Seqs' = Seqs /\ Count' = Count
  BY <1>1, <1>8, CallsStay
<1>10. /\ rx' \in [Node -> Request \union {NoMessage}]
       /\ rx'[n] = NoMessage /\ \A r \in Node \ {n} : rx'[r] = rx[r]
  BY DEF Taken, Inv, TypeOK
<1>11. TypeOK'
  BY <1>1, <1>3, <1>6, <1>10 DEF Inv, TypeOK
<1>12. InBuffers'
  <2>1. ASSUME NEW r \in Node, rx'[r] # NoMessage PROVE Buffered(r, rx[r])'
    <3>1. r # n /\ rx[r] \in Request /\ rx[r] # NoMessage /\ rx'[r] = rx[r]
      BY <1>10, <2>1 DEF Inv, TypeOK
    <3> QED BY <1>6, <1>9, <3>1, StillBuffered DEF Inv
  <2> QED BY <2>1 DEF InBuffers
<1>13. ASSUME NEW r \in Node PROVE Waiting(r)' /\ Acknowledged(r)'
  <2>1. CASE r = n
    BY <1>1, <1>2, <1>3, <2>1 DEF Waiting, Acknowledged
  <2>2. CASE r # n
    BY <1>1, <1>3, <1>6, <1>9, <1>10, <2>2, AcknowledgedStays, WaitingStays
  <2> QED BY <2>1, <2>2
<1>14. ASSUME NEW r \in Node PROVE Returned(r)'
  <2>1. Returned(r)
    BY DEF Inv
  <2>2. CASE got'[r] = got[r]
    BY <1>1, <2>1, <2>2 DEF Returned
  <2>3. CASE r = n /\ seen[n][s] # Seqs[k]
    BY <1>1, <1>2, <1>4, <1>7, <2>1, <2>3 DEF Returned
  <2> QED BY <1>5, <1>6, <2>2, <2>3
<1>15. ASSUME NEW r \in Node, NEW t \in Node PROVE Remembered(r, t)'
  <2>1. Remembered(r, t)
    BY DEF Inv
  <2>2. CASE got'[r] = got[r] /\ seen'[r] = seen[r]
    BY <1>9, <2>1, <2>2 DEF Remembered, GotUpTo
  <2>3. CASE r = n /\ seen[n][s] # Seqs[k] /\ t = s
    <3>1. GotUpTo(n, s, k)'
      BY <1>2, <1>4, <1>7, <2>3 DEF GotUpTo
    <3> QED BY <1>4, <1>7, <1>9, <2>3, <3>1 DEF Remembered
  <2>4. CASE r = n /\ seen[n][s] # Seqs[k] /\ t # s
    <3>1. /\ seen'[n][t] = seen[n][t]
          /\ \A i \in DOMAIN got'[n] : got'[n][i].from = t => i \in DOMAIN got[n]
      <4>1. g.from # t
        BY <1>4, <2>4
      <4>2. got'[n][Len(got[n]) + 1].from # t
        BY <1>7, <2>4, <4>1
      <4>3. DOMAIN got'[n] = DOMAIN got[n] \union {Len(got[n]) + 1}
        BY <1>7, <2>4
      <4>4. seen'[n][t] = seen[n][t]
        BY <1>6, <2>4
      <4> QED BY <4>2, <4>3, <4>4
    <3>2. \A i \in DOMAIN got[n] :
             GotUpTo(n, t, got[n][i].data) => GotUpTo(n, t, got[n][i].data)'
      BY <1>7, <2>4, <3>1 DEF GotUpTo
    <3>3. CASE seen[n][t] = 0 /\ \A i \in DOMAIN got[n] : got[n][i].from # t
      BY <1>7, <2>4, <3>1, <3>3 DEF Remembered
    <3>4. CASE \E i \in DOMAIN got[n] :
                 /\ got[n][i].from = t
                 /\ seen[n][t] = Seqs[got[n][i].data]
                 /\ GotUpTo(n, t, got[n][i].data)
      <4>1. PICK i \in DOMAIN got[n] :
                 /\ got[n][i].from = t
                 /\ seen[n][t] = Seqs[got[n][i].data]
                 /\ GotUpTo(n, t, got[n][i].data)
        BY <3>4
      <4>2. GotUpTo(n, t, got[n][i].data)'
        BY <1>7, <2>4, <3>2, <4>1
      <4>3. i \in DOMAIN got'[n] /\ got'[n][i] = got[n][i]
        BY <1>7, <2>4
      <4> QED BY <1>9, <2>4, <3>1, <4>1, <4>2, <4>3 DEF Remembered
    <3> QED BY <2>1, <2>4, <3>3, <3>4 DEF Remembered
  <2> QED BY <1>5, <1>6, <2>2, <2>3, <2>4
<1> QED BY <1>1, <1>9, <1>11, <1>12, <1>13, <1>14, <1>15 DEF Inv

LEMMA AcceptKeeps ==
    ASSUME Inv, NEW n \in Node, Accept(n)
    PROVE  Inv'
<1>1. /\ pc[n] = "accept" /\ pc' = [pc EXCEPT ![n] = "loop"]
      /\ UNCHANGED <<lastSeq, rx, cur, calls, resets>> /\ Deliver(n, cur[n])
  BY DEF Accept
<1>2. /\ rx[n] = NoMessage /\ cur[n] \in Request /\ cur[n].to = n
      /\ IsCall(cur[n], cur[n].data) /\ GotUpTo(n, cur[n].from, cur[n].data)
  BY <1>1 DEF Inv, Acknowledged
<1>3. rx' = Taken(n)
  BY <1>1, <1>2 DEF Taken, Inv, TypeOK
<1> QED BY <1>1, <1>2, <1>3, DeliverKeeps

LEMMA RecvBroadcastKeeps ==
    ASSUME Inv, Calm, NEW n \in Node, RecvBroadcast(n)
    PROVE  Inv'
<1>1. /\ pc[n] = "loop" /\ rx[n] # NoMessage /\ ~rx[n].ack
      /\ UNCHANGED <<lastSeq, pc, cur, calls, resets>>
      /\ rx' = Taken(n) /\ Deliver(n, rx[n])
  BY DEF RecvBroadcast
<1>2. /\ rx[n] \in Request /\ rx[n].to \in {n, Broadcast}
      /\ IsCall(rx[n], rx[n].data) /\ GotUpTo(n, rx[n].from, rx[n].data)
  BY <1>1, RequestIsCall
<1>3. pc' = [pc EXCEPT ![n] = "loop"] /\ ~Accepting(n)
  BY <1>1 DEF Accepting, Inv, TypeOK
<1> QED BY <1>1, <1>2, <1>3, DeliverKeeps
-----------------------------------------------------------------------------
LEMMA UnchangedKeeps == ASSUME Inv, UNCHANGED vars PROVE Inv'
<1>1. Took' = Took /\ Seqs' = Seqs
  BY NothingElse DEF vars
<1>2. InBuffers'
  BY <1>1 DEF Inv, InBuffers, Buffered, IsCall, GotUpTo, Sender, vars
<1>3. rx' = rx /\ UNCHANGED <<lastSeq, seen, pc, cur, calls, got, resets>>
  BY DEF vars
<1>4. rx' \in [Node -> Request \union {NoMessage}]
  BY <1>3 DEF Inv, TypeOK
<1> QED BY <1>2, <1>3, <1>4, QuietKeeps

\* There are no resets.
LEMMA NoReset == ASSUME Usage, Inv, NEW n \in Node, Reset(n) PROVE FALSE
BY DEF Usage, Inv, TypeOK, Reset

LEMMA StepKeeps == ASSUME Usage PROVE Calm /\ Inv /\ [Next]_vars => Inv'
<1> SUFFICES ASSUME Calm, Inv, [Next]_vars PROVE Inv'
  OBVIOUS
<1>1. ASSUME NEW n \in Node, Steps(n) PROVE Inv'
  BY <1>1, AckArrivesKeeps, OtherArrivesKeeps, RetransmitKeeps, GiveUpKeeps,
     AcceptKeeps DEF Steps
<1>2. ASSUME NEW n \in Node, Receives(n) PROVE Inv'
  BY <1>2, RecvAckKeeps, RecvBroadcastKeeps, RecvRequestKeeps DEF Receives
<1>3. ASSUME NEW n \in Node, Reset(n) PROVE Inv'
  BY <1>3, NoReset
<1>4. ASSUME NEW n \in Senders, NEW to \in To \ {n}, SendtoWait(n, to) PROVE Inv'
  BY <1>4, SendtoWaitKeeps
<1>5. CASE UNCHANGED vars
  BY <1>5, UnchangedKeeps
<1> QED BY <1>1, <1>2, <1>3, <1>4, <1>5 DEF Next

LEMMA Invariance == ASSUME Usage PROVE Spec => []Calm /\ []Inv
<1>1. Spec => []Calm
  BY CalmHolds DEF Usage
<1>2. Calm /\ Inv /\ [Next]_vars => Inv'
  BY StepKeeps
<1> QED BY <1>1, <1>2, InitHolds, PTL DEF Spec
-----------------------------------------------------------------------------
\* A request that is acknowledged but not returned was returned before.
THEOREM DropsOnlyDuplicates == ASSUME Usage PROVE Spec => DroppedIsDuplicate
<1> DEFINE Drops(n) ==
             (pc[n] = "accept" /\ ~Accepting(n) /\ pc'[n] = "loop" /\ resets' = resets)
               => \E i \in DOMAIN got[n] : got[n][i].data = cur[n].data
<1>1. ASSUME Inv, NEW n \in Node PROVE Drops(n)
  <2> SUFFICES ASSUME pc[n] = "accept", ~Accepting(n)
               PROVE  \E i \in DOMAIN got[n] : got[n][i].data = cur[n].data
    OBVIOUS
  <2> HIDE DEF Drops
  <2>1. /\ cur[n] \in Request /\ IsCall(cur[n], cur[n].data)
    BY <1>1 DEF Inv, Acknowledged
  <2>2. PICK k \in DOMAIN calls : k = cur[n].data
    BY <2>1 DEF IsCall
  <2>3. /\ calls[k].from \in Node
        /\ seen[n][calls[k].from] = Seqs[k]
    BY <2>1, <2>2 DEF IsCall, Request, Accepting
  <2> QED BY <1>1, <2>2, <2>3, SeenWasReturned
<1>2. Inv => [\A n \in Node : Drops(n)]_vars
  BY <1>1
<1> QED BY Invariance, <1>2, PTL DEF DroppedIsDuplicate
-----------------------------------------------------------------------------
(* HopDelivery is implemented.                                              *)

\* The messages taken, in order, as the abstract specification sees them.
Taking == [n \in Node |-> Data(got[n]) \o
                          (IF Accepting(n) THEN <<cur[n].data>> ELSE <<>>)]

LEMMA DataIsASequence ==
    ASSUME NEW q \in Seq([data : Nat, from : Node])
    PROVE  /\ Data(q) \in Seq(Nat) /\ DOMAIN Data(q) = DOMAIN q
           /\ \A i \in DOMAIN q : Data(q)[i] = q[i].data
           /\ Data(q) \o <<>> = Data(q)
<1>1. /\ Data(q) \in [1..Len(q) -> Nat] /\ Len(q) \in Nat
      /\ DOMAIN Data(q) = DOMAIN q
      /\ \A i \in DOMAIN q : Data(q)[i] = q[i].data
  <2>1. /\ DOMAIN q = 1..Len(q) /\ Len(q) \in Nat
        /\ \A i \in 1..Len(q) : q[i].data \in Nat
    <3>1. /\ DOMAIN q = 1..Len(q) /\ Len(q) \in Nat
          /\ \A i \in 1..Len(q) : q[i] \in [data : Nat, from : Node]
      BY LenProperties, ElementOfSeq
    <3>2. \A g \in [data : Nat, from : Node] : g.data \in Nat
      OBVIOUS
    <3> QED BY <3>1, <3>2
  <2>2. Data(q) = [i \in 1..Len(q) |-> q[i].data]
    BY <2>1 DEF Data
  <2> QED BY <2>1, <2>2
<1>2. Data(q) \in Seq(Nat)
  <2>1. PICK l \in Nat : l = Len(q)
    BY <1>1
  <2>2. Data(q) \in [1..l -> Nat]
    BY <1>1, <2>1
  <2> QED BY <2>2
<1> QED BY <1>1, <1>2, ConcatEmptySeq

LEMMA DataOfAppend ==
    ASSUME NEW q \in Seq([data : Nat, from : Node]),
           NEW g \in [data : Nat, from : Node]
    PROVE  /\ Data(Append(q, g)) = Append(Data(q), g.data)
           /\ Data(q) \o <<g.data>> = Append(Data(q), g.data)
<1>1. /\ Data(q) \in Seq(Nat) /\ DOMAIN Data(q) = DOMAIN q
      /\ \A i \in DOMAIN q : Data(q)[i] = q[i].data
  BY DataIsASequence
<1>2. PICK x \in Seq([data : Nat, from : Node]) : x = Append(q, g)
  BY Appended
<1>3. /\ Data(x) \in Seq(Nat) /\ DOMAIN Data(x) = DOMAIN x
      /\ \A i \in DOMAIN x : Data(x)[i] = x[i].data
  BY DataIsASequence
<1>4. g.data \in Nat
  OBVIOUS
<1>5. /\ Append(Data(q), g.data) \in Seq(Nat)
      /\ DOMAIN Append(Data(q), g.data) = DOMAIN Data(q) \union {Len(Data(q)) + 1}
      /\ Append(Data(q), g.data)[Len(Data(q)) + 1] = g.data
      /\ \A i \in DOMAIN Data(q) : Append(Data(q), g.data)[i] = Data(q)[i]
  BY <1>1, <1>4, Appended
<1>6. Len(Data(q)) = Len(q)
  BY <1>1
<1>7. /\ DOMAIN x = DOMAIN q \union {Len(q) + 1} /\ x[Len(q) + 1] = g
      /\ \A i \in DOMAIN q : x[i] = q[i]
  BY <1>2, Appended
<1>8. Data(x) = Append(Data(q), g.data)
  <2>1. \A i \in DOMAIN x : Data(x)[i] = Append(Data(q), g.data)[i]
    <3>1. PICK d : d = Data(q)
      OBVIOUS
    <3>2. PICK u : u = Append(d, g.data)
      OBVIOUS
    <3>3. PICK l : l = Len(q) /\ l = Len(d)
      BY <1>6, <3>1
    <3>4. u[l + 1] = g.data /\ \A i \in DOMAIN q : u[i] = q[i].data
      BY <1>1, <1>5, <3>1, <3>2, <3>3
    <3>5. x[l + 1] = g /\ \A i \in DOMAIN x : i \in DOMAIN q \/ i = l + 1
      BY <1>7, <3>3
    <3>6. \A i \in DOMAIN x : u[i] = x[i].data
      BY <1>7, <3>4, <3>5
    <3> QED BY <1>3, <3>1, <3>2, <3>6
  <2>2. DOMAIN x = DOMAIN Append(Data(q), g.data)
    <3>1. PICK D : D = DOMAIN q
      OBVIOUS
    <3>2. PICK l : l = Len(q)
      OBVIOUS
    <3>3. DOMAIN x = D \union {l + 1}
      BY <1>7, <3>1, <3>2
    <3>4. DOMAIN Data(q) = D /\ Len(Data(q)) = l
      BY <1>1, <1>6, <3>1, <3>2
    <3>5. DOMAIN Append(Data(q), g.data) = D \union {l + 1}
      BY <1>5, <3>4, Zenon
    <3> QED BY <3>3, <3>5
  <2>3. PICK y \in Seq(Nat) : y = Data(x)
    BY <1>3
  <2>4. PICK z \in Seq(Nat) : z = Append(Data(q), g.data)
    BY <1>5
  <2>5. DOMAIN y = DOMAIN z /\ \A i \in DOMAIN y : y[i] = z[i]
    BY <1>3, <2>1, <2>2, <2>3, <2>4
  <2>6. y = z
    BY <2>5
  <2> QED BY <2>3, <2>4, <2>6
<1>9. Data(q) \o <<g.data>> = Append(Data(q), g.data)
  BY <1>1, <1>4, AppendIsConcat
<1> QED BY <1>2, <1>8, <1>9

\* What was taken, according to either of them.
LEMMA TookIsTaken ==
    ASSUME Inv, NEW n \in Node, NEW k
    PROVE  (\E i \in DOMAIN Taking[n] : Taking[n][i] = k) <=> k \in Took[n]
<1>1. got[n] \in Seq([data : Nat, from : Node])
  BY DEF Inv, TypeOK
<1>2. /\ Data(got[n]) \in Seq(Nat) /\ DOMAIN Data(got[n]) = DOMAIN got[n]
      /\ \A i \in DOMAIN got[n] : Data(got[n])[i] = got[n][i].data
      /\ Data(got[n]) \o <<>> = Data(got[n])
  BY <1>1, DataIsASequence
<1>3. CASE ~Accepting(n)
  BY <1>2, <1>3 DEF Taking, Took
<1>4. CASE Accepting(n)
  <2>1. PICK d \in Nat : d = cur[n].data
    BY <1>4 DEF Accepting, Inv, Acknowledged, Request
  <2>2. Data(got[n]) \o <<d>> = Append(Data(got[n]), d)
    BY <1>2, AppendIsConcat
  <2>3. Taking[n] = Append(Data(got[n]), d)
    BY <1>4, <2>1, <2>2 DEF Taking
  <2>4. /\ DOMAIN Taking[n] = DOMAIN Data(got[n]) \union {Len(Data(got[n])) + 1}
        /\ Taking[n][Len(Data(got[n])) + 1] = d
        /\ \A i \in DOMAIN Data(got[n]) : Taking[n][i] = Data(got[n])[i]
    BY <1>2, <2>3, Appended
  <2> QED BY <1>2, <1>4, <2>1, <2>4 DEF Took
<1> QED BY <1>3, <1>4

LEMMA InitIsHopInit == Init => HD!Init
<1> SUFFICES ASSUME Init PROVE HD!Init
  OBVIOUS
<1>1. Data(<<>>) \o <<>> = <<>>
  <2>1. <<>> \in Seq([data : Nat, from : Node])
    OBVIOUS
  <2>2. Data(<<>>) \in Seq(Nat) /\ DOMAIN Data(<<>>) = DOMAIN <<>>
        /\ Data(<<>>) \o <<>> = Data(<<>>)
    BY <2>1, DataIsASequence
  <2>3. \A x \in Seq(Nat) : DOMAIN x = DOMAIN <<>> => x = <<>>
    OBVIOUS
  <2> QED BY <2>2, <2>3
<1>2. \A n \in Node : Data(got[n]) \o
         (IF Accepting(n) THEN <<cur[n].data>> ELSE <<>>) = <<>>
  BY <1>1 DEF Init, Accepting
<1> QED BY <1>2 DEF Init, HD!Init

LEMMA TakingStays ==
    ASSUME NEW n \in Node, got'[n] = got[n],
           \/ pc'[n] = pc[n] /\ cur'[n] = cur[n] /\ seen'[n] = seen[n]
           \/ pc[n] # "accept" /\ pc'[n] # "accept"
    PROVE  Taking'[n] = Taking[n]
BY DEF Taking, Accepting

LEMMA SendIsBegin ==
    ASSUME Inv, Usage, NEW n \in Senders, NEW to \in To \ {n}, SendtoWait(n, to)
    PROVE  HD!Next
<1>1. /\ n \in Node /\ to \in Node \union {Broadcast}
      /\ pc[n] = "loop" /\ got' = got /\ seen' = seen
      /\ calls' = Append(calls, NewCallOf(n, to))
      /\ IF to = Broadcast THEN UNCHANGED <<pc, cur>>
         ELSE /\ pc' = [pc EXCEPT ![n] = "wait"]
              /\ cur' = [cur EXCEPT ![n] = Sent(n, to)]
  BY NewNumber
<1>2. \A r \in Node : Taking'[r] = Taking[r]
  <2>1. /\ pc'[n] # "accept"
        /\ \A r \in Node \ {n} : pc'[r] = pc[r] /\ cur'[r] = cur[r]
    BY <1>1 DEF Inv, TypeOK
  <2> QED BY <1>1, <2>1, TakingStays
<1>3. Taking' = Taking
  BY <1>2 DEF Taking
<1>4. HD!Begin(n, to)
  BY <1>1, <1>3 DEF HD!Begin, Taking, NewCallOf
<1> QED BY <1>1, <1>4 DEF HD!Next

\* A call that returns true has been taken.
LEMMA ReturnIsReturn ==
    ASSUME Inv, NEW n \in Node, AckArrives(n) \/ GiveUp(n)
    PROVE  HD!Next
<1>1. PICK r \in {"ok", "failed"} :
         /\ pc[n] = "wait" /\ pc' = [pc EXCEPT ![n] = "loop"]
         /\ Result(cur[n].data, r) /\ UNCHANGED <<seen, cur, got>>
         /\ r = "ok" => rx[n] # NoMessage /\ IsItsAck(n, rx[n])
  BY DEF AckArrives, GiveUp, TimeIsUp
<1>2. PICK k \in DOMAIN calls :
         /\ k = cur[n].data /\ IsCall(cur[n], k)
         /\ calls[k].result = "pending" /\ calls[k].from = n
  BY <1>1 DEF Inv, Waiting, IsCall
<1>3. \A m \in Node : Taking'[m] = Taking[m]
  <2>1. pc'[n] = "loop" /\ \A m \in Node \ {n} : pc'[m] = pc[m]
    BY <1>1 DEF Inv, TypeOK
  <2> QED BY <1>1, <2>1, TakingStays
<1>4. Taking' = Taking
  BY <1>3 DEF Taking
<1>5. ASSUME r = "ok" PROVE HD!Took(calls[k].to, k)
  <2>1. /\ rx[n] \in Request /\ Buffered(n, rx[n]) /\ rx[n].ack
        /\ rx[n].from = cur[n].to /\ rx[n].id = cur[n].id
    BY <1>1, <1>5 DEF Inv, TypeOK, InBuffers, IsItsAck
  <2>2. PICK j \in Took[rx[n].from] : /\ j \in DOMAIN calls /\ calls[j].from = n
                                      /\ rx[n].id = Seqs[j]
    BY <2>1 DEF Buffered
  <2>3. j = k /\ calls[k].to = rx[n].from
    BY <1>2, <2>1, <2>2, SeqsGrow DEF Inv, IsCall
  <2>4. rx[n].from \in Node
    BY <2>1 DEF Request
  <2>5. \E i \in DOMAIN Taking[calls[k].to] : Taking[calls[k].to][i] = k
    BY <2>2, <2>3, <2>4, TookIsTaken
  <2> QED BY <2>5 DEF HD!Took, Taking
<1>6. HD!Return(k, r)
  BY <1>1, <1>2, <1>4, <1>5 DEF HD!Return, Result, Taking
<1> QED BY <1>2, <1>6 DEF HD!Next

\* A request that is not a duplicate is younger than all that were taken of
\* its sender.
LEMMA NewIsTake ==
    ASSUME Inv, NEW n \in Node, NEW k \in DOMAIN calls, k \in Nat, pc[n] = "loop",
           calls[k].from \in Node, calls[k].to \in {n, Broadcast},
           GotUpTo(n, calls[k].from, k), Seqs[k] # seen[n][calls[k].from],
           Taking' = [Taking EXCEPT ![n] = Append(@, k)], UNCHANGED calls
    PROVE  HD!Next
<1>1. got[n] \in Seq([data : Nat, from : Node])
  BY DEF Inv, TypeOK
<1>2. ASSUME NEW j \in DOMAIN calls, HD!Took(n, j), calls[j].from = calls[k].from
      PROVE  j < k
  <2>1. j \in Took[n] /\ ~Accepting(n)
    BY <1>2, TookIsTaken DEF HD!Took, Taking, Accepting
  <2>2. PICK i \in DOMAIN got[n] : got[n][i].data = j
    BY <2>1 DEF Took
  <2>3. got[n][i].from = calls[k].from
    BY <1>2, <2>2 DEF Inv, Returned
  <2>4. j \in Nat /\ j <= k
    BY <1>1, <2>2, <2>3, GotAreCalls DEF GotUpTo
  <2>5. j # k
    BY <2>2, <2>3, LastIsSeen
  <2> QED BY <2>4, <2>5
<1>3. HD!Take(n, k)
  BY <1>2 DEF HD!Take, Taking
<1> QED BY <1>3 DEF HD!Next

\* A request is taken when it is acknowledged, unless it is a duplicate.
LEMMA RequestIsTake ==
    ASSUME Inv, Calm, NEW n \in Node, RecvRequest(n)
    PROVE  HD!Next \/ UNCHANGED <<calls, Taking>>
<1>1. /\ pc[n] = "loop" /\ rx[n] # NoMessage /\ ~rx[n].ack
      /\ pc' = [pc EXCEPT ![n] = "accept"] /\ cur' = [cur EXCEPT ![n] = rx[n]]
      /\ UNCHANGED <<seen, calls, got>>
  BY DEF RecvRequest
<1>2. PICK k \in DOMAIN calls :
         /\ rx[n].data = k /\ k \in Nat /\ rx[n].from \in Node
         /\ calls[k].from = rx[n].from /\ calls[k].to \in {n, Broadcast}
         /\ Seqs[k] = rx[n].id /\ GotUpTo(n, rx[n].from, k)
  BY <1>1, RequestIsCall DEF IsCall, Request
<1>3. /\ pc'[n] = "accept" /\ cur'[n] = rx[n]
      /\ \A r \in Node \ {n} : pc'[r] = pc[r] /\ cur'[r] = cur[r]
  BY <1>1 DEF Inv, TypeOK
<1>4. \A r \in Node \ {n} : Taking'[r] = Taking[r]
  BY <1>1, <1>3, TakingStays
<1>5. got[n] \in Seq([data : Nat, from : Node]) /\ got' = got
  BY <1>1 DEF Inv, TypeOK
<1>6. /\ Data(got[n]) \in Seq(Nat) /\ Data(got[n]) \o <<>> = Data(got[n])
      /\ Data(got[n]) \o <<k>> = Append(Data(got[n]), k)
  BY <1>2, <1>5, DataIsASequence, AppendIsConcat
<1>7. Taking[n] = Data(got[n])
  BY <1>1, <1>6 DEF Taking, Accepting
<1>8. Accepting(n)' <=> rx[n].id # seen[n][rx[n].from]
  BY <1>1, <1>3 DEF Accepting
<1>9. CASE rx[n].id = seen[n][rx[n].from]
  <2>1. Taking'[n] = Data(got[n]) \o <<>>
    BY <1>5, <1>8, <1>9 DEF Taking
  <2>2. \A r \in Node : Taking'[r] = Taking[r]
    BY <1>4, <1>6, <1>7, <2>1
  <2>3. Taking' = Taking
    BY <2>2 DEF Taking
  <2> QED BY <1>1, <2>3
<1>10. CASE rx[n].id # seen[n][rx[n].from]
  <2>1. Taking'[n] = Data(got[n]) \o <<k>>
    BY <1>2, <1>3, <1>5, <1>8, <1>10 DEF Taking
  <2>2. \A r \in Node : Taking'[r] = [Taking EXCEPT ![n] = Append(@, k)][r]
    BY <1>4, <1>6, <1>7, <2>1 DEF Taking
  <2>3. Taking' = [Taking EXCEPT ![n] = Append(@, k)]
    BY <2>2 DEF Taking
  <2> QED BY <1>1, <1>2, <1>10, <2>3, NewIsTake
<1> QED BY <1>9, <1>10

\* So is a broadcast, which is returned at once.
LEMMA BroadcastIsTake ==
    ASSUME Inv, Calm, NEW n \in Node, RecvBroadcast(n)
    PROVE  HD!Next \/ UNCHANGED <<calls, Taking>>
<1>1. /\ pc[n] = "loop" /\ rx[n] # NoMessage /\ ~rx[n].ack
      /\ UNCHANGED <<pc, cur, calls>> /\ Deliver(n, rx[n])
  BY DEF RecvBroadcast
<1>2. PICK k \in DOMAIN calls :
         /\ rx[n].data = k /\ k \in Nat /\ rx[n].from \in Node
         /\ calls[k].from = rx[n].from /\ calls[k].to \in {n, Broadcast}
         /\ Seqs[k] = rx[n].id /\ GotUpTo(n, rx[n].from, k)
  BY <1>1, RequestIsCall DEF IsCall, Request
<1>3. CASE UNCHANGED <<seen, got>>
  BY <1>1, <1>3 DEF Taking, Accepting
<1>4. CASE rx[n].id # seen[n][rx[n].from]
  <2>1. PICK g \in [data : Nat, from : Node] : g = [data |-> k, from |-> rx[n].from]
    BY <1>2
  <2>2. /\ got' = [got EXCEPT ![n] = Append(@, g)]
        /\ \A r \in Node \ {n} : seen'[r] = seen[r]
    BY <1>1, <1>2, <1>4, <2>1 DEF Deliver, Inv, TypeOK
  <2>3. got[n] \in Seq([data : Nat, from : Node]) /\ got'[n] = Append(got[n], g)
        /\ \A r \in Node \ {n} : got'[r] = got[r]
    BY <2>2 DEF Inv, TypeOK
  <2>4. /\ Data(got[n]) \in Seq(Nat) /\ Data(got[n]) \o <<>> = Data(got[n])
        /\ Data(Append(got[n], g)) = Append(Data(got[n]), k)
    BY <2>1, <2>3, DataIsASequence, DataOfAppend
  <2>5. Data(Append(got[n], g)) \o <<>> = Append(Data(got[n]), k)
    <3>1. Append(got[n], g) \in Seq([data : Nat, from : Node])
      BY <2>3, Appended
    <3> QED BY <2>4, <3>1, DataIsASequence
  <2>6. Taking[n] = Data(got[n]) /\ Taking'[n] = Append(Data(got[n]), k)
    BY <1>1, <2>3, <2>4, <2>5 DEF Taking, Accepting
  <2>7. \A r \in Node \ {n} : Taking'[r] = Taking[r]
    BY <1>1, <2>2, <2>3, TakingStays
  <2>8. \A r \in Node : Taking'[r] = [Taking EXCEPT ![n] = Append(@, k)][r]
    BY <2>6, <2>7 DEF Taking
  <2>9. Taking' = [Taking EXCEPT ![n] = Append(@, k)]
    BY <2>8 DEF Taking
  <2> QED BY <1>1, <1>2, <1>4, <2>9, NewIsTake
<1> QED BY <1>1, <1>3, <1>4 DEF Deliver

LEMMA AcceptIsStutter ==
    ASSUME Inv, NEW n \in Node, Accept(n)
    PROVE  UNCHANGED <<calls, Taking>>
<1>1. /\ pc[n] = "accept" /\ pc' = [pc EXCEPT ![n] = "loop"]
      /\ UNCHANGED <<cur, calls>> /\ Deliver(n, cur[n])
  BY DEF Accept
<1>2. pc'[n] = "loop" /\ \A r \in Node \ {n} : pc'[r] = pc[r]
  BY <1>1 DEF Inv, TypeOK
<1>3. /\ got[n] \in Seq([data : Nat, from : Node])
      /\ cur[n].data \in Nat /\ cur[n].from \in Node
  BY <1>1 DEF Inv, TypeOK, Acknowledged, Request
<1>4. PICK g \in [data : Nat, from : Node] :
         g = [data |-> cur[n].data, from |-> cur[n].from]
  BY <1>3
<1>5. \/ ~Accepting(n) /\ UNCHANGED <<seen, got>>
      \/ /\ Accepting(n) /\ got' = [got EXCEPT ![n] = Append(@, g)]
         /\ \A r \in Node \ {n} : seen'[r] = seen[r]
  BY <1>1, <1>4 DEF Deliver, Accepting, Inv, TypeOK
<1>6. \A r \in Node \ {n} : got'[r] = got[r] /\ seen'[r] = seen[r]
  BY <1>5 DEF Inv, TypeOK
<1>7. ~Accepting(n)'
  BY <1>2 DEF Accepting
<1>8. Taking'[n] = Taking[n]
  <2>1. CASE ~Accepting(n) /\ got' = got
    BY <1>7, <2>1 DEF Taking
  <2>2. CASE Accepting(n) /\ got' = [got EXCEPT ![n] = Append(@, g)]
    <3>1. got'[n] = Append(got[n], g)
      BY <2>2 DEF Inv, TypeOK
    <3>2. Append(got[n], g) \in Seq([data : Nat, from : Node])
      BY <1>3, Appended
    <3>3. Data(got'[n]) \o <<>> = Data(got[n]) \o <<g.data>>
      BY <1>3, <3>1, <3>2, DataIsASequence, DataOfAppend
    <3> QED BY <1>4, <1>7, <2>2, <3>3 DEF Taking
  <2> QED BY <1>5, <2>1, <2>2
<1>9. \A r \in Node : Taking'[r] = Taking[r]
  BY <1>1, <1>2, <1>6, <1>8, TakingStays
<1>10. Taking' = Taking
  BY <1>9 DEF Taking
<1> QED BY <1>1, <1>10

LEMMA NextIsHopNext ==
    ASSUME Usage PROVE Calm /\ Inv /\ [Next]_vars => [HD!Next]_<<calls, Taking>>
<1> SUFFICES ASSUME Calm, Inv, [Next]_vars
             PROVE  HD!Next \/ UNCHANGED <<calls, Taking>>
  OBVIOUS
<1>1. ASSUME UNCHANGED <<seen, pc, cur, calls, got>>
      PROVE  UNCHANGED <<calls, Taking>>
  BY <1>1 DEF Taking, Accepting
<1>2. ASSUME NEW n \in Node, Steps(n)
      PROVE  HD!Next \/ UNCHANGED <<calls, Taking>>
  <2>1. CASE AckArrives(n) \/ GiveUp(n)
    BY <2>1, ReturnIsReturn
  <2>2. CASE OtherArrives(n) \/ Retransmit(n)
    BY <1>1, <2>2 DEF OtherArrives, Retransmit
  <2>3. CASE Accept(n)
    BY <2>3, AcceptIsStutter
  <2> QED BY <1>2, <2>1, <2>2, <2>3 DEF Steps
<1>3. ASSUME NEW n \in Node, Receives(n)
      PROVE  HD!Next \/ UNCHANGED <<calls, Taking>>
  <2>1. CASE RecvAck(n)
    BY <1>1, <2>1 DEF RecvAck
  <2> QED BY <1>3, <2>1, BroadcastIsTake, RequestIsTake DEF Receives
<1>4. CASE UNCHANGED vars
  BY <1>1, <1>4 DEF vars
<1> QED BY <1>2, <1>3, <1>4, NoReset, SendIsBegin DEF Next

\* Messages are taken at most once and in the order they were sent, and
\* sendtoWait() returns true only for what the neighbour has taken.
THEOREM ImplementsHopDelivery == ASSUME Usage PROVE Spec => DeliversByHop
<1>1. Calm /\ Inv /\ [Next]_vars => [HD!Next]_<<calls, Taking>>
  BY NextIsHopNext
<1> QED
  BY <1>1, Invariance, InitIsHopInit, PTL DEF Spec, DeliversByHop, HD!Spec, Taking
=============================================================================
