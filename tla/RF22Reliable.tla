---------------------------- MODULE RF22Reliable ----------------------------
(***************************************************************************)
(* RF22ReliableDatagram on a set of nodes within range of each other:      *)
(* sendtoWait() with its retransmissions, recvfromAck() and acknowledge(), *)
(* over a radio that loses packets.                                        *)
(*                                                                         *)
(* A transmission is one step: sendto() and waitPacketSent() block the     *)
(* sender until the packet is out.  Every receiver that is listening, with *)
(* its one-packet buffer free, gets it or loses it.  A packet waiting in   *)
(* the SENDER's buffer has its payload overwritten by the one sent, because*)
(* the driver transmits from the buffer it receives into, but keeps its    *)
(* headers, which are in registers of the chip, and stays marked valid     *)
(* (RF22Radio).                                                            *)
(***************************************************************************)
EXTENDS Naturals, Sequences, FiniteSets

CONSTANTS Node,
          Broadcast,  \* RF22_BROADCAST_ADDRESS
          SeqMod,     \* sequence numbers are octets: 256
          Retries,    \* _retries, 3 unless setRetries() is called
          MaxCalls,   \* bound: calls of sendtoWait() in a behaviour
          MaxResets,  \* bound: nodes reset in a behaviour
          Senders,    \* the nodes whose application sends
          To          \* the addresses it sends to

ASSUME ReliableAssumption ==
  /\ Broadcast \notin Node
  /\ SeqMod \in Nat \ {0} /\ Retries \in Nat /\ MaxCalls \in Nat /\ MaxResets \in Nat
  /\ Senders \subseteq Node /\ To \subseteq Node \cup {Broadcast}

VARIABLES
  lastSeq,  \* _lastSequenceNumber of each node
  seen,     \* _seenIds of each node
  rx,       \* the valid packet in the driver's buffer, if any
  pc,       \* what each node is in: its loop, sendtoWait(), recvfromAck()
  cur,      \* the message it sends, or has acknowledged
  tries,    \* transmissions made in the current sendtoWait()
  calls,    \* history: the calls of sendtoWait() and their results
  got,      \* history: what recvfromAck() returned, per node
  resets    \* number of resets so far

vars == <<lastSeq, seen, rx, pc, cur, tries, calls, got, resets>>

SeqNum == 0 .. SeqMod - 1

\* The payload of a message stands for the call that sends it.
AckData == MaxCalls + 1

Message == [from : Node, to : Node \cup {Broadcast}, id : SeqNum, ack : BOOLEAN,
            data : 1 .. MaxCalls + 1]

NoMessage == [none |-> TRUE]

Init ==
  /\ lastSeq = [n \in Node |-> 0]
  /\ seen = [n \in Node |-> [m \in Node |-> 0]]
  /\ rx = [n \in Node |-> NoMessage]
  /\ pc = [n \in Node |-> "loop"]
  /\ cur = [n \in Node |-> NoMessage]
  /\ tries = [n \in Node |-> 0]
  /\ calls = <<>>
  /\ got = [n \in Node |-> <<>>]
  /\ resets = 0

-----------------------------------------------------------------------------
(* The radio.                                                              *)

\* Those who can hear n: the others whose buffer is free and whose receiver
\* is on, and the chip drops what is addressed to somebody else.
Listening(n, m, buf) ==
  {r \in Node \ {n} : /\ buf[r] = NoMessage
                      /\ pc[r] # "accept"
                      /\ m.to \in {r, Broadcast}}

\* n sends m; buf are the buffers after what n took out of its own.
Transmit(n, m, buf) ==
  \E hearers \in SUBSET Listening(n, m, buf) :
    rx' = [r \in Node |->
             IF r \in hearers THEN m
             ELSE IF r = n /\ buf[n] # NoMessage THEN [buf[n] EXCEPT !.data = m.data]
             ELSE buf[r]]

\* The buffers once n has taken the packet out of its own.
Taken(n) == [rx EXCEPT ![n] = NoMessage]

Acknowledge(n, m) ==
  Transmit(n, [from |-> n, to |-> m.from, id |-> m.id, ack |-> TRUE,
               data |-> AckData], Taken(n))

-----------------------------------------------------------------------------
(* sendtoWait().                                                           *)

Result(k, r) == calls' = [calls EXCEPT ![k].result = r]

\* The first transmission.  A broadcast is not waited for.
SendtoWait(n, to) ==
  /\ pc[n] = "loop"
  /\ Len(calls) < MaxCalls
  /\ LET seq == (lastSeq[n] + 1) % SeqMod
         m == [from |-> n, to |-> to, id |-> seq, ack |-> FALSE,
               data |-> Len(calls) + 1]
     IN  /\ lastSeq' = [lastSeq EXCEPT ![n] = seq]
         /\ Transmit(n, m, rx)
         /\ calls' = Append(calls, [from |-> n, to |-> to,
              result |-> IF to = Broadcast THEN "ok" ELSE "pending"])
         /\ IF to = Broadcast THEN UNCHANGED <<pc, cur, tries>>
            ELSE /\ pc' = [pc EXCEPT ![n] = "wait"]
                 /\ cur' = [cur EXCEPT ![n] = m]
                 /\ tries' = [tries EXCEPT ![n] = 1]
  /\ UNCHANGED <<seen, got, resets>>

\* The packet in the buffer is taken while sendtoWait() waits: the ACK it
\* waits for, a request to acknowledge again, or neither.
IsItsAck(n, m) == /\ m.from = cur[n].to
                  /\ m.to = n
                  /\ m.ack
                  /\ m.id = cur[n].id

AckArrives(n) ==
  /\ pc[n] = "wait" /\ rx[n] # NoMessage /\ IsItsAck(n, rx[n])
  /\ rx' = Taken(n)
  /\ pc' = [pc EXCEPT ![n] = "loop"]
  /\ Result(cur[n].data, "ok")
  /\ UNCHANGED <<lastSeq, seen, cur, tries, got, resets>>

\* Mutant: every request is acknowledged while waiting.
RepeatedOrNew(n, m) == ~m.ack

Repeated(n, m) == ~m.ack /\ m.id = seen[n][m.from]

\* Mutant: what is discarded while waiting is remembered as seen.
DiscardAsSeen(n) ==
  /\ pc[n] = "wait" /\ rx[n] # NoMessage /\ ~IsItsAck(n, rx[n])
  /\ IF Repeated(n, rx[n]) THEN Acknowledge(n, rx[n]) ELSE rx' = Taken(n)
  /\ seen' = [seen EXCEPT ![n][rx[n].from] = rx[n].id]
  /\ UNCHANGED <<lastSeq, pc, cur, tries, calls, got, resets>>

OtherArrives(n) ==
  /\ pc[n] = "wait" /\ rx[n] # NoMessage /\ ~IsItsAck(n, rx[n])
  /\ IF Repeated(n, rx[n]) THEN Acknowledge(n, rx[n]) ELSE rx' = Taken(n)
  /\ UNCHANGED <<lastSeq, seen, pc, cur, tries, calls, got, resets>>

\* Mutant: the timer is read before the receiver is polled.
TimerFirst(n) == pc[n] = "wait"

\* The timer runs out.  It is read after each poll, so a packet that was in
\* the buffer when the message went out has been taken by then.
TimeIsUp(n) ==
  /\ pc[n] = "wait"
  /\ ~(rx[n] # NoMessage /\ rx[n].data = cur[n].data)

\* Mutant: the retransmissions are not counted.
RetransmitForever(n) ==
  /\ TimeIsUp(n)
  /\ tries[n] <= Retries
  /\ Transmit(n, cur[n], rx)
  /\ UNCHANGED <<lastSeq, seen, pc, cur, tries, calls, got, resets>>

Retransmit(n) ==
  /\ TimeIsUp(n)
  /\ tries[n] <= Retries
  /\ tries' = [tries EXCEPT ![n] = @ + 1]
  /\ Transmit(n, cur[n], rx)
  /\ UNCHANGED <<lastSeq, seen, pc, cur, calls, got, resets>>

GiveUp(n) ==
  /\ TimeIsUp(n)
  /\ tries[n] > Retries
  /\ pc' = [pc EXCEPT ![n] = "loop"]
  /\ Result(cur[n].data, "failed")
  /\ UNCHANGED <<lastSeq, seen, rx, cur, tries, got, resets>>

-----------------------------------------------------------------------------
(* recvfromAck().                                                          *)

\* The application is given the message unless its ID is the one last seen
\* from that node.
Deliver(n, m) ==
  IF m.id = seen[n][m.from] THEN UNCHANGED <<seen, got>>
  ELSE /\ seen' = [seen EXCEPT ![n][m.from] = m.id]
       /\ got' = [got EXCEPT ![n] = Append(@, [data |-> m.data, from |-> m.from])]

RecvAck(n) ==
  /\ pc[n] = "loop" /\ rx[n] # NoMessage /\ rx[n].ack
  /\ rx' = Taken(n)
  /\ UNCHANGED <<lastSeq, seen, pc, cur, tries, calls, got, resets>>

RecvBroadcast(n) ==
  /\ pc[n] = "loop" /\ rx[n] # NoMessage /\ ~rx[n].ack /\ rx[n].to = Broadcast
  /\ rx' = Taken(n)
  /\ Deliver(n, rx[n])
  /\ UNCHANGED <<lastSeq, pc, cur, tries, calls, resets>>

\* A message for this node is acknowledged first and looked at afterwards.
RecvRequest(n) ==
  /\ pc[n] = "loop" /\ rx[n] # NoMessage /\ ~rx[n].ack /\ rx[n].to # Broadcast
  /\ Acknowledge(n, rx[n])
  /\ pc' = [pc EXCEPT ![n] = "accept"]
  /\ cur' = [cur EXCEPT ![n] = rx[n]]
  /\ UNCHANGED <<lastSeq, seen, tries, calls, got, resets>>

Accept(n) ==
  /\ pc[n] = "accept"
  /\ Deliver(n, cur[n])
  /\ pc' = [pc EXCEPT ![n] = "loop"]
  /\ UNCHANGED <<lastSeq, rx, cur, tries, calls, resets>>

-----------------------------------------------------------------------------

\* The node restarts: its memory is that of a new object.
Reset(n) ==
  /\ resets < MaxResets
  /\ resets' = resets + 1
  /\ lastSeq' = [lastSeq EXCEPT ![n] = 0]
  /\ seen' = [seen EXCEPT ![n] = [m \in Node |-> 0]]
  /\ rx' = Taken(n)
  /\ pc' = [pc EXCEPT ![n] = "loop"]
  /\ IF pc[n] = "wait" THEN Result(cur[n].data, "failed") ELSE UNCHANGED calls
  /\ UNCHANGED <<cur, tries, got>>

\* sendtoWait() and recvfromAck() run to their end on their own; when to call
\* them is up to the application.
Steps(n) == \/ AckArrives(n) \/ OtherArrives(n) \/ Retransmit(n) \/ GiveUp(n)
            \/ Accept(n)

Receives(n) == RecvAck(n) \/ RecvBroadcast(n) \/ RecvRequest(n)

Next == \/ \E n \in Node : Steps(n) \/ Receives(n) \/ Reset(n)
        \/ \E n \in Senders : \E to \in To \ {n} : SendtoWait(n, to)

Spec == Init /\ [][Next]_vars

\* The loops of sendtoWait() and recvfromAck() keep running.
FairSpec == Spec /\ \A n \in Node : WF_vars(Steps(n))

-----------------------------------------------------------------------------
(* Properties.                                                             *)

\* Accepting a message: it is acknowledged and new, but not yet returned.
Accepting(n) == pc[n] = "accept" /\ cur[n].id # seen[n][cur[n].from]

\* What recvfromAck() returns is what the sender it names was asked to send to
\* this node or to all, with one exception: a broadcast that this node has sent
\* while the packet waited in its buffer is returned in its place.  Nothing else
\* comes out of the shared buffer: no acknowledgement, no message this node sent
\* to one other, no message for another node, whoever restarts.
PayloadIntact ==
  \A n \in Node : \A i \in DOMAIN got[n] :
    LET g == got[n][i]
    IN  /\ g.data \in DOMAIN calls
        /\ \/ /\ calls[g.data].from = g.from
              /\ calls[g.data].to \in {n, Broadcast}
           \/ calls[g.data].from = n /\ calls[g.data].to = Broadcast

\* A request that is acknowledged but not returned is one that has been
\* returned before.  RF22ReliableDatagram.h:142-144 says that _seenIds serves
\* "duplicate detection": what it drops is "due to lost ACKs, ... even though
\* we have already received that message".
DroppedIsDuplicate ==
  [][\A n \in Node :
       (pc[n] = "accept" /\ ~Accepting(n) /\ pc'[n] = "loop" /\ resets' = resets)
         => \E i \in DOMAIN got[n] : got[n][i].data = cur[n].data]_vars

\* The promise to the layers above; a message counts as taken from the moment
\* it is acknowledged.
Data(s) == [i \in DOMAIN s |-> s[i].data]
HD == INSTANCE HopDelivery WITH
  taken <- [n \in Node |-> Data(got[n]) \o
                           (IF Accepting(n) THEN <<cur[n].data>> ELSE <<>>)]
DeliversByHop == HD!Spec

Pending(k) ==
  IF k \in DOMAIN calls THEN calls[k].result = "pending" ELSE FALSE

\* The call returned true to a sender that asked for an acknowledgement.
ToldTaken(k) ==
  IF k \in DOMAIN calls
  THEN calls[k].result = "ok" /\ calls[k].to # Broadcast
  ELSE FALSE

\* Every sendtoWait() returns, whatever the others do and the air loses.
SendReturns == \A k \in 1 .. MaxCalls : Pending(k) ~> ~Pending(k)

\* Without resets, a message its sender was told is acknowledged reaches the
\* application.
TrueLeadsToDelivery ==
  \A k \in 1 .. MaxCalls :
    ToldTaken(k) ~> \/ \E n \in Node : \E i \in DOMAIN got[n] : got[n][i].data = k
                    \/ resets > 0
=============================================================================
