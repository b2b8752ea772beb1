------------------------- MODULE PubSubClientProofs -------------------------
(* For every keep-alive time, delay, period, identifier range and number of *)
(* packets under way: a QoS 1 message is acknowledged only after the       *)
(* callback has had it; a broker that has died is noticed in time; and one *)
(* that lives is not given up.                                             *)
EXTENDS MCPubSubClient, TLAPS

\* A QoS 1 message is in one place at a time: on its way to the client, with
\* the callback, or on its way back as a PUBACK.
Pubs(q) == {i \in DOMAIN q : q[i].type = "publish" /\ q[i].id > 0}
Acks(q) == {i \in DOMAIN q : q[i].type = "puback"}

Alone(q, I) == \A i, j \in I : q[i].id = q[j].id => i = j

AcksAreSeen(q, inf, s) == \A i \in Acks(q) : q[i].id \in s /\ q[i].id \in inf
PubsAreInflight(q, inf) == \A i \in Pubs(q) : q[i].id \in inf
Apart(q, r) == \A i \in Pubs(q), j \in Acks(r) : q[i].id # r[j].id

WithCallback(id, inf, s, q, r) ==
    /\ id \in s /\ id \in inf
    /\ \A i \in Pubs(q) : q[i].id # id
    /\ \A i \in Acks(r) : r[i].id # id

Placed(q, r, inf, s) ==
    /\ Alone(q, Pubs(q)) /\ Alone(r, Acks(r)) /\ Apart(q, r)
    /\ AcksAreSeen(r, inf, s) /\ PubsAreInflight(q, inf)

OnePlace ==
    /\ Placed(toClient, toBroker, inflight, seen) /\ 0 \notin seen
    /\ pc = "callback" /\ msgId > 0 /\ Open
       => WithCallback(msgId, inflight, seen, toClient, toBroker)

Inv == TypeOK /\ OnePlace

-----------------------------------------------------------------------------
(* What Append and Tail do to the places.                                   *)

LEMMA AppendPlaces ==
  ASSUME NEW q \in Seq(Packet), NEW p \in Packet
  PROVE  /\ Append(q, p) \in Seq(Packet)
         /\ \A i \in DOMAIN Append(q, p) :
               \/ i \in DOMAIN q /\ Append(q, p)[i] = q[i]
               \/ i = Len(q) + 1 /\ Append(q, p)[i] = p /\ i \notin DOMAIN q
OBVIOUS

LEMMA TailPlaces ==
  ASSUME NEW q \in Seq(Packet), q # <<>>
  PROVE  /\ Tail(q) \in Seq(Packet)
         /\ Head(q) = q[1] /\ 1 \in DOMAIN q /\ Head(q) \in Packet
         /\ \A i \in DOMAIN Tail(q) :
               i + 1 \in DOMAIN q /\ Tail(q)[i] = q[i + 1] /\ i \in Nat \ {0}
OBVIOUS

\* Appending something else than a QoS 1 message changes nothing for them.
LEMMA AppendOther ==
  ASSUME NEW q \in Seq(Packet), NEW p \in Packet
  PROVE  /\ p.type # "puback" =>
              /\ \A i \in Acks(Append(q, p)) : i \in Acks(q) /\ Append(q, p)[i] = q[i]
         /\ p.type # "publish" \/ p.id = 0 =>
              /\ \A i \in Pubs(Append(q, p)) : i \in Pubs(q) /\ Append(q, p)[i] = q[i]
BY AppendPlaces DEF Acks, Pubs

LEMMA NoPlaces == Acks(<<>>) = {} /\ Pubs(<<>>) = {}
BY DEF Acks, Pubs
-----------------------------------------------------------------------------
LEMMA InitInv == Init => Inv
<1> SUFFICES ASSUME Init PROVE Inv
  OBVIOUS
<1>1. TypeOK
  <2>1. 0 \in 0..Old /\ 1 \in 1..(IdMod - 1) /\ 0 \in 0..Period /\ 0 \in 0..Delay
        /\ 0 \in Nat
    BY TimeAssumption DEF Old
  <2>2. <<>> \in Seq(Packet)
    OBVIOUS
  <2>3. alive \in BOOLEAN /\ half \in BOOLEAN /\ pingOutstanding \in BOOLEAN
        /\ lost \in BOOLEAN
    BY Zenon DEF Init
  <2>4. link \in {"up", "down"} /\ pc \in {"idle", "connecting", "reading", "callback"}
    BY DEF Init
  <2> QED BY <2>1, <2>2, <2>3, <2>4, Zenon DEF Init, TypeOK
<1>2. OnePlace
  BY NoPlaces DEF Init, OnePlace, Placed, Alone, Apart, AcksAreSeen, PubsAreInflight
<1> QED BY <1>1, <1>2 DEF Inv
-----------------------------------------------------------------------------
(* The types, in three parts.                                               *)

Flags ==
    /\ link \in {"up", "down"}
    /\ alive \in BOOLEAN /\ half \in BOOLEAN
    /\ pingOutstanding \in BOOLEAN /\ lost \in BOOLEAN
    /\ pc \in {"idle", "connecting", "reading", "callback"}

Numbers ==
    /\ inAge \in 0..Old /\ outAge \in 0..Old /\ tAge \in 0..Old
    /\ nextMsgId \in 1..(IdMod - 1)
    /\ sinceLoop \in 0..Period /\ lag \in 0..Delay

Wires == toClient \in Seq(Packet) /\ toBroker \in Seq(Packet) /\ msgId \in Nat

LEMMA TypeParts == TypeOK <=> Flags /\ Numbers /\ Wires
BY Zenon DEF TypeOK, Flags, Numbers, Wires

Calls == {"publish", "subscribe"}
Messages == {Pkt("publish", 0), Pkt("publish", 1), Pkt("big", 2), Pkt("pingreq", 0)}

LEMMA NextCases ==
  ASSUME [Next]_vars
  PROVE  \/ Connect \/ Disconnect \/ \E type \in Calls : Write(type)
         \/ ConnectTimeout \/ ConnectReads \/ LoopGivesUp \/ Loop
         \/ ReadConnack \/ ReadRefusal \/ ReadPublish \/ ReadOther
         \/ CallbackReturns \/ Broker \/ Rest \/ Die \/ Cut \/ Tick
         \/ \E p \in Messages : BrokerSends(p)
         \/ UNCHANGED vars
BY Zenon DEF Next, Call, Steps, Calls, Messages

LEMMA FlagsKept == Flags /\ [Next]_vars => Flags'
<1> SUFFICES ASSUME Flags, [Next]_vars PROVE Flags'
  OBVIOUS
<1>1. CASE Connect
  BY <1>1, Zenon DEF Connect, Flags
<1>2. CASE Disconnect \/ Cut
  BY <1>2, Zenon DEF Disconnect, Cut, Stop, Flags
<1>3. ASSUME NEW type \in Calls, Write(type) PROVE Flags'
  BY <1>3, Zenon DEF Write, Flags
<1>4. CASE ConnectTimeout \/ LoopGivesUp \/ ReadRefusal
  BY <1>4, Zenon DEF ConnectTimeout, LoopGivesUp, ReadRefusal, Stop, Open, Flags
<1>5. CASE ConnectReads
  BY <1>5, Zenon DEF ConnectReads, wire, Flags
<1>6. CASE Loop
  BY <1>6, Zenon DEF Loop, Flags
<1>7. CASE ReadConnack \/ ReadPublish \/ ReadOther
  BY <1>7, Zenon DEF ReadConnack, ReadPublish, ReadOther, Flags
<1>8. CASE CallbackReturns
  BY <1>8, Zenon DEF CallbackReturns, Flags
<1>9. CASE Broker
  BY <1>9, Zenon DEF Broker, Begin, Flags
<1>10. CASE Rest \/ Die
  BY <1>10, Zenon DEF Rest, Die, Flags
<1>11. CASE Tick
  BY <1>11, Zenon DEF Tick, wire, Flags
<1>12. ASSUME NEW p \in Messages, BrokerSends(p) PROVE Flags'
  BY <1>12, Zenon DEF BrokerSends, Begin, Flags
<1>13. CASE UNCHANGED vars
  BY <1>13, Zenon DEF vars, wire, Flags
<1> QED
  BY <1>1, <1>2, <1>3, <1>4, <1>5, <1>6, <1>7, <1>8, <1>9, <1>10, <1>11,
     <1>12, <1>13, NextCases, Zenon

LEMMA IdIsInRange ==
  ASSUME nextMsgId \in 1..(IdMod - 1)
  PROVE  NewId \in 1..(IdMod - 1)
BY TimeAssumption DEF NewId

LEMMA NumbersKept == Numbers /\ [Next]_vars => Numbers'
<1> SUFFICES ASSUME Numbers, [Next]_vars PROVE Numbers'
  OBVIOUS
<1> USE TimeAssumption DEF Old
<1>1. CASE Connect
  BY <1>1 DEF Connect, Numbers
<1>2. CASE Disconnect \/ Cut
  BY <1>2 DEF Disconnect, Cut, Stop, Numbers
<1>3. ASSUME NEW type \in Calls, Write(type) PROVE Numbers'
  <2>1. nextMsgId' = nextMsgId \/ nextMsgId' = NewId
    BY <1>3, Zenon DEF Write
  <2>2. nextMsgId' \in 1..(IdMod - 1)
    BY <2>1, IdIsInRange DEF Numbers
  <2>3. outAge' = 0 /\ UNCHANGED <<inAge, tAge, sinceLoop, lag>>
    BY <1>3, Zenon DEF Write
  <2> QED BY <2>2, <2>3 DEF Numbers
<1>4. CASE ConnectTimeout \/ LoopGivesUp \/ ReadRefusal
  <2>1. Stop /\ UNCHANGED <<inAge, outAge, tAge, nextMsgId>>
    BY <1>4, Zenon DEF ConnectTimeout, LoopGivesUp, ReadRefusal
  <2> QED BY <2>1 DEF Stop, Numbers
<1>5. CASE ConnectReads
  BY <1>5 DEF ConnectReads, timers, Numbers
<1>6. CASE Loop
  BY <1>6 DEF Loop, Send, Numbers
<1>7. CASE ReadConnack \/ ReadPublish \/ ReadOther
  BY <1>7 DEF ReadConnack, ReadPublish, ReadOther, Take, Send, Numbers
<1>8. CASE CallbackReturns
  BY <1>8 DEF CallbackReturns, Send, Numbers
<1>9. CASE Broker
  BY <1>9 DEF Broker, Numbers
<1>10. CASE Rest \/ Die
  BY <1>10 DEF Rest, Die, Numbers
<1>11. CASE Tick
  BY <1>11 DEF Tick, Up, Numbers
<1>12. ASSUME NEW p \in Messages, BrokerSends(p) PROVE Numbers'
  BY <1>12 DEF BrokerSends, timers, Numbers
<1>13. CASE UNCHANGED vars
  BY <1>13 DEF vars, timers, Numbers
<1> QED
  BY <1>1, <1>2, <1>3, <1>4, <1>5, <1>6, <1>7, <1>8, <1>9, <1>10, <1>11,
     <1>12, <1>13, NextCases, Zenon
-----------------------------------------------------------------------------
(* The queues stay queues of packets.                                       *)

LEMMA SendKeeps ==
  ASSUME toBroker \in Seq(Packet), NEW p \in Packet, Send(p)
  PROVE  toBroker' \in Seq(Packet)
<1>1. Append(toBroker, p) \in Seq(Packet)
  BY AppendPlaces
<1> QED BY <1>1, Zenon DEF Send

LEMMA TypedPackets ==
  /\ \A type \in Types, id \in Nat : Pkt(type, id) \in Packet
  /\ Calls \subseteq Types /\ Messages \subseteq Packet
BY DEF Pkt, Packet, Types, Calls, Messages

LEMMA AnswersArePackets ==
  ASSUME NEW p \in Packet, NEW a \in Answers(p)
  PROVE  a \in Packet /\ a.type \notin {"publish", "puback"}
<1>1. p.id \in Nat
  BY DEF Packet
<1>2. \/ a = Pkt("connack", 0) \/ a = Pkt("refused", 0)
      \/ a = Pkt("ack", p.id) \/ a = Pkt("pingresp", 0)
  BY DEF Answers
<1> QED BY <1>1, <1>2 DEF Pkt, Packet, Types

LEMMA WiresKept == TypeOK /\ [Next]_vars => Wires'
<1> SUFFICES ASSUME TypeOK, [Next]_vars PROVE Wires'
  OBVIOUS
<1>0. Wires /\ Numbers /\ msgId \in Nat /\ toClient \in Seq(Packet)
      /\ toBroker \in Seq(Packet) /\ nextMsgId \in 1..(IdMod - 1)
  BY TypeParts, Zenon DEF Wires, Numbers
<1> USE TimeAssumption, TypedPackets
<1> DEFINE Empty == <<>>
<1>a. Empty \in Seq(Packet) /\ 0 \in Nat
  OBVIOUS
<1>b. ASSUME Stop PROVE toClient' \in Seq(Packet) /\ toBroker' \in Seq(Packet)
  BY <1>b, <1>a, Zenon DEF Stop
<1>c. ASSUME Take
      PROVE  toClient' \in Seq(Packet) /\ Head(toClient) \in Packet
  <2>1. toClient # <<>>
    BY <1>c, Zenon DEF Take, Whole, Arrived
  <2> QED BY <1>0, <1>c, <2>1, TailPlaces DEF Take
<1>1. CASE Connect
  <2>1. <<Pkt("connect", 0)>> \in Seq(Packet)
    BY DEF Types
  <2> QED BY <1>0, <1>1, <2>1, Zenon DEF Connect, Wires
<1>2. CASE Disconnect \/ Cut
  BY <1>0, <1>b, <1>2, Zenon DEF Disconnect, Cut, Wires
<1>3. ASSUME NEW type \in Calls, Write(type) PROVE Wires'
  <2>1. NewId \in Nat
    BY <1>0, IdIsInRange
  <2>2. Pkt(type, IF type = "publish" THEN 0 ELSE NewId) \in Packet
    BY <1>a, <2>1, Zenon
  <2>3. Send(Pkt(type, IF type = "publish" THEN 0 ELSE NewId))
        /\ UNCHANGED <<toClient, msgId>>
    BY <1>3, Zenon DEF Write
  <2> QED BY <1>0, <2>2, <2>3, SendKeeps, Zenon DEF Wires
<1>4. CASE ConnectTimeout \/ LoopGivesUp \/ ReadRefusal
  BY <1>0, <1>b, <1>4, Zenon DEF ConnectTimeout, LoopGivesUp, ReadRefusal, Wires
<1>5. CASE ConnectReads
  BY <1>0, <1>5, Zenon DEF ConnectReads, wire, Wires
<1>6. CASE Loop
  <2>1. Pkt("pingreq", 0) \in Packet
    BY DEF Types
  <2> QED BY <1>0, <1>6, <2>1, SendKeeps, Zenon DEF Loop, Wires
<1>7. CASE ReadConnack
  BY <1>0, <1>7, <1>c, Zenon DEF ReadConnack, Wires
<1>8. CASE ReadPublish
  <2>1. Head(toClient).id \in Nat
    BY <1>8, <1>c DEF ReadPublish, Packet
  <2> QED BY <1>0, <1>8, <1>c, <2>1, Zenon DEF ReadPublish, Wires
<1>9. CASE ReadOther
  <2>1. Pkt("pingresp", 0) \in Packet
    BY DEF Types
  <2> QED BY <1>0, <1>9, <1>c, <2>1, SendKeeps, Zenon DEF ReadOther, Wires
<1>10. CASE CallbackReturns
  <2>1. Pkt("puback", AckId) \in Packet
    BY <1>0 DEF Types, AckId
  <2> QED BY <1>0, <1>a, <1>10, <2>1, SendKeeps, Zenon DEF CallbackReturns, Wires
<1>11. CASE Broker
  <2>1. toBroker # <<>> /\ toBroker' = Tail(toBroker) /\ msgId' = msgId
    BY <1>11 DEF Broker
  <2>2. toBroker' \in Seq(Packet) /\ Head(toBroker) \in Packet
    BY <1>0, <2>1, TailPlaces
  <2>3. \/ toClient' = toClient
        \/ \E a \in Answers(Head(toBroker)) : toClient' = Append(toClient, a)
    BY <1>11, Zenon DEF Broker, Begin
  <2>4. toClient' \in Seq(Packet)
    <3>1. CASE toClient' = toClient
      BY <1>0, <3>1
    <3>2. CASE \E a \in Answers(Head(toBroker)) : toClient' = Append(toClient, a)
      <4>1. PICK a \in Answers(Head(toBroker)) : toClient' = Append(toClient, a)
        BY <3>2
      <4>2. a \in Packet
        BY <2>2, AnswersArePackets, Zenon
      <4> QED BY <1>0, <4>1, <4>2, AppendPlaces, Zenon
    <3> QED BY <2>3, <3>1, <3>2
  <2> QED BY <1>0, <2>1, <2>2, <2>4, Zenon DEF Wires
<1>12. CASE Rest
  BY <1>0, <1>12, Zenon DEF Rest, Wires
<1>13. CASE Die
  BY <1>0, <1>a, <1>13, Zenon DEF Die, Wires
<1>14. CASE Tick
  BY <1>0, <1>14, Zenon DEF Tick, wire, Wires
<1>15. ASSUME NEW p \in Messages, BrokerSends(p) PROVE Wires'
  <2>1. toClient' = Append(toClient, p) /\ p \in Packet
        /\ UNCHANGED <<msgId, toBroker>>
    BY <1>15, Zenon DEF BrokerSends, Begin
  <2> QED BY <1>0, <2>1, AppendPlaces DEF Wires
<1>16. CASE UNCHANGED vars
  BY <1>0, <1>16, Zenon DEF vars, wire, Wires
<1> QED
  BY <1>1, <1>2, <1>3, <1>4, <1>5, <1>6, <1>7, <1>8, <1>9, <1>10, <1>11,
     <1>12, <1>13, <1>14, <1>15, <1>16, NextCases, Zenon

LEMMA TypeKept == TypeOK /\ [Next]_vars => TypeOK'
<1>1. TypeOK => Flags /\ Numbers /\ Wires
  BY TypeParts, Zenon
<1>2. Flags' /\ Numbers' /\ Wires' => TypeOK'
  BY TypeParts, PTL
<1> QED BY <1>1, <1>2, FlagsKept, NumbersKept, WiresKept, Zenon

\* The types of the client's and the broker's state hold in every state.
THEOREM TypeCorrect == Spec => []TypeOK
<1>1. Init => TypeOK
  BY InitInv DEF Inv
<1> QED BY <1>1, TypeKept, PTL DEF Spec
-----------------------------------------------------------------------------
(* What an operation on a queue does to the places.                         *)

LEMMA EmptyPlaced ==
  ASSUME NEW inf, NEW s, NEW r
  PROVE  Placed(<<>>, <<>>, inf, s)
         /\ (Placed(<<>>, r, inf, s) <=> Alone(r, Acks(r)) /\ AcksAreSeen(r, inf, s))
BY NoPlaces DEF Placed, Alone, Apart, AcksAreSeen, PubsAreInflight

LEMMA ToClientOther ==
  ASSUME NEW q \in Seq(Packet), NEW p \in Packet, p.type # "publish" \/ p.id = 0,
         NEW r, NEW inf, NEW s
  PROVE  /\ Placed(q, r, inf, s) => Placed(Append(q, p), r, inf, s)
         /\ \A id : WithCallback(id, inf, s, q, r)
                    => WithCallback(id, inf, s, Append(q, p), r)
<1>1. \A i \in Pubs(Append(q, p)) : i \in Pubs(q) /\ Append(q, p)[i] = q[i]
  BY AppendOther
<1>2. Placed(q, r, inf, s) => Placed(Append(q, p), r, inf, s)
  <2>1. Alone(q, Pubs(q)) => Alone(Append(q, p), Pubs(Append(q, p)))
    BY <1>1 DEF Alone
  <2>2. Apart(q, r) => Apart(Append(q, p), r)
    BY <1>1 DEF Apart
  <2>3. PubsAreInflight(q, inf) => PubsAreInflight(Append(q, p), inf)
    BY <1>1 DEF PubsAreInflight
  <2> QED BY <2>1, <2>2, <2>3, Zenon DEF Placed
<1>3. \A id : WithCallback(id, inf, s, q, r)
              => WithCallback(id, inf, s, Append(q, p), r)
  BY <1>1 DEF WithCallback
<1> QED BY <1>2, <1>3

LEMMA ToBrokerOther ==
  ASSUME NEW r \in Seq(Packet), NEW p \in Packet, p.type # "puback",
         NEW q, NEW inf, NEW s
  PROVE  /\ Placed(q, r, inf, s) => Placed(q, Append(r, p), inf, s)
         /\ \A id : WithCallback(id, inf, s, q, r)
                    => WithCallback(id, inf, s, q, Append(r, p))
<1>1. \A i \in Acks(Append(r, p)) : i \in Acks(r) /\ Append(r, p)[i] = r[i]
  BY AppendOther
<1>2. Placed(q, r, inf, s) => Placed(q, Append(r, p), inf, s)
  <2>1. Alone(r, Acks(r)) => Alone(Append(r, p), Acks(Append(r, p)))
    BY <1>1 DEF Alone
  <2>2. Apart(q, r) => Apart(q, Append(r, p))
    BY <1>1 DEF Apart
  <2>3. AcksAreSeen(r, inf, s) => AcksAreSeen(Append(r, p), inf, s)
    BY <1>1 DEF AcksAreSeen
  <2> QED BY <2>1, <2>2, <2>3, Zenon DEF Placed
<1>3. \A id : WithCallback(id, inf, s, q, r)
              => WithCallback(id, inf, s, q, Append(r, p))
  BY <1>1 DEF WithCallback
<1> QED BY <1>2, <1>3

LEMMA TailPubs ==
  ASSUME NEW q \in Seq(Packet), q # <<>>
  PROVE  \A i \in Pubs(Tail(q)) :
            i + 1 \in Pubs(q) /\ Tail(q)[i] = q[i + 1] /\ i \in Nat \ {0}
BY TailPlaces DEF Pubs

LEMMA TailAcks ==
  ASSUME NEW r \in Seq(Packet), r # <<>>
  PROVE  \A i \in Acks(Tail(r)) :
            i + 1 \in Acks(r) /\ Tail(r)[i] = r[i + 1] /\ i \in Nat \ {0}
BY TailPlaces DEF Acks

\* The client takes a packet: a QoS 1 message among them goes to the callback.
LEMMA ClientTakes ==
  ASSUME NEW q \in Seq(Packet), q # <<>>, NEW r, NEW inf, NEW s, NEW t,
         s \subseteq t, Placed(q, r, inf, s)
  PROVE  /\ Placed(Tail(q), r, inf, t)
         /\ Head(q).type = "publish" /\ Head(q).id > 0 /\ Head(q).id \in t
            => WithCallback(Head(q).id, inf, t, Tail(q), r)
<1>1. \A i \in Pubs(Tail(q)) :
         i + 1 \in Pubs(q) /\ Tail(q)[i] = q[i + 1] /\ i \in Nat \ {0}
  BY TailPubs
<1>2. Placed(Tail(q), r, inf, t)
  <2>1. Alone(Tail(q), Pubs(Tail(q)))
    <3> SUFFICES ASSUME NEW i \in Pubs(Tail(q)), NEW j \in Pubs(Tail(q)),
                        Tail(q)[i].id = Tail(q)[j].id
                 PROVE  i = j
      BY DEF Alone
    <3>1. i + 1 \in Pubs(q) /\ j + 1 \in Pubs(q) /\ q[i + 1].id = q[j + 1].id
          /\ i \in Nat /\ j \in Nat
      BY <1>1
    <3>2. i + 1 = j + 1
      BY <3>1, Zenon DEF Placed, Alone
    <3> QED BY <3>1, <3>2
  <2>2. Apart(Tail(q), r) /\ PubsAreInflight(Tail(q), inf)
    <3>1. Apart(q, r) /\ PubsAreInflight(q, inf)
      BY DEF Placed
    <3>2. Apart(Tail(q), r)
      BY <1>1, <3>1 DEF Apart
    <3>3. PubsAreInflight(Tail(q), inf)
      BY <1>1, <3>1 DEF PubsAreInflight
    <3> QED BY <3>2, <3>3
  <2>3. AcksAreSeen(r, inf, t) /\ Alone(r, Acks(r))
    BY DEF Placed, AcksAreSeen
  <2> QED BY <2>1, <2>2, <2>3 DEF Placed
<1>3. ASSUME Head(q).type = "publish", Head(q).id > 0, Head(q).id \in t
      PROVE  WithCallback(Head(q).id, inf, t, Tail(q), r)
  <2>1. 1 \in Pubs(q) /\ Head(q) = q[1]
    BY <1>3, TailPlaces DEF Pubs
  <2>2. \A i \in Pubs(Tail(q)) : Tail(q)[i].id # Head(q).id
    <3> SUFFICES ASSUME NEW i \in Pubs(Tail(q)), Tail(q)[i].id = Head(q).id
                 PROVE  FALSE
      OBVIOUS
    <3>1. i + 1 \in Pubs(q) /\ q[i + 1].id = q[1].id /\ i \in Nat \ {0}
      BY <1>1, <2>1
    <3>2. Alone(q, Pubs(q))
      BY Zenon DEF Placed
    <3>3. i + 1 = 1
      BY <2>1, <3>1, <3>2, Zenon DEF Alone
    <3> QED BY <3>1, <3>3
  <2> QED BY <1>3, <2>1, <2>2 DEF Placed, PubsAreInflight, Apart, WithCallback
<1> QED BY <1>2, <1>3

\* The broker takes a packet: of the identifiers only that of a PUBACK goes.
LEMMA BrokerTakes ==
  ASSUME NEW q, NEW r \in Seq(Packet), r # <<>>, NEW inf, NEW s,
         Placed(q, r, inf, s), NEW gone,
         gone = IF Head(r).type = "puback" THEN {Head(r).id} ELSE {}
  PROVE  /\ Placed(q, Tail(r), inf \ gone, s \ gone)
         /\ \A id : WithCallback(id, inf, s, q, r)
                    => WithCallback(id, inf \ gone, s \ gone, q, Tail(r))
<1>1. \A i \in Acks(Tail(r)) :
         i + 1 \in Acks(r) /\ Tail(r)[i] = r[i + 1] /\ i \in Nat \ {0}
  BY TailAcks
<1>2. Head(r).type = "puback" => 1 \in Acks(r) /\ Head(r) = r[1]
  BY TailPlaces DEF Acks
<1>3. \A i \in Acks(Tail(r)) : Tail(r)[i].id \notin gone
  <2> SUFFICES ASSUME NEW i \in Acks(Tail(r)), Head(r).type = "puback",
                      Tail(r)[i].id = Head(r).id
               PROVE  FALSE
    OBVIOUS
  <2>1. i + 1 \in Acks(r) /\ r[i + 1].id = r[1].id /\ i \in Nat \ {0}
    BY <1>1, <1>2
  <2>2. Alone(r, Acks(r))
    BY Zenon DEF Placed
  <2>3. i + 1 = 1
    BY <1>2, <2>1, <2>2, Zenon DEF Alone
  <2> QED BY <2>1, <2>3
<1>4. \A i \in Pubs(q) : q[i].id \notin gone
  BY <1>2 DEF Placed, Apart
<1>5. \A id : WithCallback(id, inf, s, q, r) => id \notin gone
  BY <1>2 DEF WithCallback
<1>6. Placed(q, Tail(r), inf \ gone, s \ gone)
  <2>1. Alone(Tail(r), Acks(Tail(r)))
    <3> SUFFICES ASSUME NEW i \in Acks(Tail(r)), NEW j \in Acks(Tail(r)),
                        Tail(r)[i].id = Tail(r)[j].id
                 PROVE  i = j
      BY DEF Alone
    <3>1. i + 1 \in Acks(r) /\ j + 1 \in Acks(r) /\ r[i + 1].id = r[j + 1].id
          /\ i \in Nat /\ j \in Nat
      BY <1>1
    <3>2. i + 1 = j + 1
      BY <3>1, Zenon DEF Placed, Alone
    <3> QED BY <3>1, <3>2
  <2>2. Apart(q, Tail(r)) /\ AcksAreSeen(Tail(r), inf \ gone, s \ gone)
    BY <1>1, <1>3 DEF Placed, Apart, AcksAreSeen
  <2>3. PubsAreInflight(q, inf \ gone) /\ Alone(q, Pubs(q))
    BY <1>4 DEF Placed, PubsAreInflight
  <2> QED BY <2>1, <2>2, <2>3 DEF Placed
<1>7. ASSUME NEW id, WithCallback(id, inf, s, q, r)
      PROVE  WithCallback(id, inf \ gone, s \ gone, q, Tail(r))
  <2>1. \A i \in Acks(Tail(r)) : Tail(r)[i].id # id
    BY <1>1, <1>7 DEF WithCallback
  <2> QED BY <1>5, <1>7, <2>1 DEF WithCallback
<1> QED BY <1>6, <1>7

\* The callback's message becomes a PUBACK.
LEMMA AckPlaced ==
  ASSUME NEW q, NEW r \in Seq(Packet), NEW inf, NEW s, NEW id \in Nat,
         Placed(q, r, inf, s), WithCallback(id, inf, s, q, r)
  PROVE  Placed(q, Append(r, Pkt("puback", id)), inf, s)
<1>1. PICK p \in Packet : p = Pkt("puback", id) /\ p.id = id
  BY TypedPackets DEF Pkt, Types
<1>2. PICK t : t = Append(r, p)
  OBVIOUS
<1>3. \A i \in DOMAIN t : \/ i \in DOMAIN r /\ t[i] = r[i]
                          \/ i = Len(r) + 1 /\ t[i] = p
  BY <1>2, AppendPlaces
<1>4. \A i \in Acks(t) : \/ i \in Acks(r) /\ t[i] = r[i]
                         \/ i = Len(r) + 1 /\ t[i].id = id
  BY <1>1, <1>3 DEF Acks
<1>5. \A i \in Acks(r) : r[i].id # id
  BY DEF WithCallback
<1>6. Alone(t, Acks(t))
  BY <1>4, <1>5 DEF Placed, Alone
<1>7. Apart(q, t) /\ AcksAreSeen(t, inf, s)
  BY <1>4 DEF Placed, Apart, AcksAreSeen, WithCallback
<1>8. Placed(q, t, inf, s)
  BY <1>6, <1>7 DEF Placed
<1> QED BY <1>1, <1>2, <1>8
-----------------------------------------------------------------------------
(* Every action keeps a message in one place.                               *)

LEMMA StopPlaced == Stop => OnePlace'
<1> SUFFICES ASSUME Stop PROVE OnePlace'
  OBVIOUS
<1>1. toClient' = <<>> /\ toBroker' = <<>> /\ link' = "down"
  BY Zenon DEF Stop
<1>2. Placed(toClient', toBroker', inflight', seen')
  BY <1>1, EmptyPlaced
<1>3. 0 \notin seen'
  BY Zenon DEF Stop
<1> QED BY <1>1, <1>2, <1>3 DEF OnePlace, Open

\* Steps that leave the client's queue alone, write at most another packet
\* than a PUBACK, and do not begin a callback.
LEMMA QuietPlaced ==
  ASSUME TypeOK, OnePlace, UNCHANGED <<link, toClient, inflight, seen>>,
         \/ toBroker' = toBroker
         \/ \E p \in Packet : p.type # "puback" /\ toBroker' = Append(toBroker, p),
         pc' = "callback" => pc = "callback" /\ msgId' = msgId
  PROVE  OnePlace'
<1>0. toBroker \in Seq(Packet) /\ Placed(toClient, toBroker, inflight, seen)
  BY DEF TypeOK, OnePlace
<1>1. /\ Placed(toClient, toBroker', inflight, seen)
      /\ \A id : WithCallback(id, inflight, seen, toClient, toBroker)
                 => WithCallback(id, inflight, seen, toClient, toBroker')
  <2>1. CASE toBroker' = toBroker
    BY <1>0, <2>1, Zenon
  <2>2. ASSUME NEW p \in Packet, p.type # "puback", toBroker' = Append(toBroker, p)
        PROVE  <1>1
    BY <1>0, <2>2, ToBrokerOther
  <2> QED BY <2>1, <2>2
<1> QED BY <1>1, Zenon DEF OnePlace, Open

LEMMA SendOther ==
  ASSUME NEW type \in Types \ {"puback"}, NEW id \in Nat, Send(Pkt(type, id))
  PROVE  \/ toBroker' = toBroker
         \/ \E p \in Packet : p.type # "puback" /\ toBroker' = Append(toBroker, p)
<1>1. Pkt(type, id) \in Packet /\ Pkt(type, id).type # "puback"
  BY TypedPackets DEF Pkt
<1> QED BY <1>1, Zenon DEF Send

LEMMA ReadPublishPlaced == TypeOK /\ OnePlace /\ ReadPublish => OnePlace'
<1> SUFFICES ASSUME TypeOK, OnePlace, ReadPublish PROVE OnePlace'
  OBVIOUS
<1> DEFINE p == Head(toClient)
<1>1. toClient \in Seq(Packet) /\ toClient # <<>> /\ toClient' = Tail(toClient)
  BY DEF TypeOK, ReadPublish, Take, Whole, Arrived
<1>2. /\ p.type = "publish" /\ msgId' = p.id
      /\ seen' = (seen \cup {p.id}) \ {0}
      /\ UNCHANGED <<toBroker, inflight>>
  BY Zenon DEF ReadPublish
<1>3. Placed(toClient, toBroker, inflight, seen)
  BY DEF OnePlace
<1>4. seen \subseteq seen' /\ 0 \notin seen' /\ (p.id # 0 => p.id \in seen')
  BY <1>2 DEF OnePlace
<1>5. /\ Placed(Tail(toClient), toBroker, inflight, seen')
      /\ p.type = "publish" /\ p.id > 0 /\ p.id \in seen'
         => WithCallback(p.id, inflight, seen', Tail(toClient), toBroker)
  BY <1>1, <1>3, <1>4, ClientTakes
<1>6. p.id > 0 => p.id # 0
  OBVIOUS
<1> HIDE DEF p
<1> QED BY <1>1, <1>2, <1>4, <1>5, <1>6, Zenon DEF OnePlace

LEMMA ReadOtherPlaced == TypeOK /\ OnePlace /\ (ReadOther \/ ReadConnack) => OnePlace'
<1> SUFFICES ASSUME TypeOK, OnePlace, ReadOther \/ ReadConnack PROVE OnePlace'
  OBVIOUS
<1>1. /\ toClient \in Seq(Packet) /\ toClient # <<>> /\ toClient' = Tail(toClient)
      /\ toBroker \in Seq(Packet)
  BY DEF TypeOK, ReadOther, ReadConnack, Take, Whole, Arrived
<1>2. pc' = "idle" /\ UNCHANGED <<inflight, seen>>
  BY DEF ReadOther, ReadConnack
<1>3. \/ toBroker' = toBroker
      \/ \E q \in Packet : q.type # "puback" /\ toBroker' = Append(toBroker, q)
  <2>1. CASE ReadConnack
    BY <2>1 DEF ReadConnack
  <2>2. CASE ReadOther
    <3>1. toBroker' = toBroker \/ Send(Pkt("pingresp", 0))
      BY <2>2, Zenon DEF ReadOther
    <3>2. "pingresp" \in Types \ {"puback"} /\ 0 \in Nat
      BY DEF Types
    <3> QED BY <3>1, <3>2, SendOther
  <2> QED BY <2>1, <2>2
<1>4. Placed(Tail(toClient), toBroker, inflight, seen)
  <2>1. Placed(toClient, toBroker, inflight, seen) /\ seen \subseteq seen
    BY DEF OnePlace
  <2> QED BY <1>1, <2>1, ClientTakes
<1>5. Placed(Tail(toClient), toBroker', inflight, seen)
  BY <1>1, <1>3, <1>4, ToBrokerOther
<1>6. "idle" # "callback"
  OBVIOUS
<1> QED BY <1>1, <1>2, <1>5, <1>6, Zenon DEF OnePlace

LEMMA CallbackReturnsPlaced == TypeOK /\ OnePlace /\ CallbackReturns => OnePlace'
<1> SUFFICES ASSUME TypeOK, OnePlace, CallbackReturns PROVE OnePlace'
  OBVIOUS
<1>1. /\ pc = "callback" /\ pc' = "idle"
      /\ UNCHANGED <<toClient, inflight, seen>>
  BY DEF CallbackReturns
<1>2. \/ toBroker' = toBroker
      \/ msgId > 0 /\ Open /\ toBroker' = Append(toBroker, Pkt("puback", msgId))
  <2>1. \/ UNCHANGED toBroker
        \/ msgId > 0 /\ Open /\ Send(Pkt("puback", AckId))
    BY Zenon DEF CallbackReturns
  <2> QED BY <2>1, Zenon DEF Send, AckId
<1>3. Placed(toClient, toBroker', inflight, seen)
  <2>1. toBroker \in Seq(Packet) /\ msgId \in Nat
        /\ Placed(toClient, toBroker, inflight, seen)
    BY DEF TypeOK, OnePlace
  <2>2. msgId > 0 /\ Open => WithCallback(msgId, inflight, seen, toClient, toBroker)
    BY <1>1, Zenon DEF OnePlace
  <2> QED BY <1>2, <2>1, <2>2, AckPlaced
<1>4. "idle" # "callback"
  OBVIOUS
<1> QED BY <1>1, <1>3, <1>4, Zenon DEF OnePlace

LEMMA BrokerPlaced == TypeOK /\ OnePlace /\ Broker => OnePlace'
<1> SUFFICES ASSUME TypeOK, OnePlace, Broker PROVE OnePlace'
  OBVIOUS
<1> DEFINE p == Head(toBroker)
           gone == IF p.type = "puback" THEN {p.id} ELSE {}
<1>1. /\ toBroker \in Seq(Packet) /\ toBroker # <<>> /\ toBroker' = Tail(toBroker)
      /\ toClient \in Seq(Packet) /\ p \in Packet
      /\ UNCHANGED <<pc, msgId, link>>
  BY TailPlaces DEF TypeOK, Broker
<1>2. inflight' = inflight \ gone /\ seen' = seen \ gone
  BY DEF Broker
<1>3. \/ toClient' = toClient
      \/ \E a \in Answers(p) : toClient' = Append(toClient, a)
  BY Zenon DEF Broker, Begin
<1>4. /\ Placed(toClient, toBroker', inflight', seen')
      /\ \A id : WithCallback(id, inflight, seen, toClient, toBroker)
                 => WithCallback(id, inflight', seen', toClient, toBroker')
  <2>1. Placed(toClient, toBroker, inflight, seen)
    BY DEF OnePlace
  <2> QED BY <1>1, <1>2, <2>1, BrokerTakes
<1>5. /\ Placed(toClient', toBroker', inflight', seen')
      /\ \A id : WithCallback(id, inflight', seen', toClient, toBroker')
                 => WithCallback(id, inflight', seen', toClient', toBroker')
  <2>1. CASE toClient' = toClient
    BY <1>4, <2>1, Zenon
  <2>2. ASSUME NEW a \in Answers(p), toClient' = Append(toClient, a) PROVE <1>5
    <3>1. a \in Packet /\ a.type # "publish"
      BY <1>1, AnswersArePackets
    <3> QED BY <1>1, <1>4, <2>2, <3>1, ToClientOther
  <2> QED BY <1>3, <2>1, <2>2
<1>6. 0 \notin seen'
  BY <1>2 DEF OnePlace
<1> HIDE DEF gone, p
<1> QED BY <1>1, <1>4, <1>5, <1>6, Zenon DEF OnePlace, Open

LEMMA BrokerSendsPlaced ==
  ASSUME TypeOK, OnePlace, NEW p \in Messages, BrokerSends(p)
  PROVE  OnePlace'
<1>1. /\ p \in Packet /\ toClient' = Append(toClient, p)
      /\ toClient \in Seq(Packet)
      /\ UNCHANGED <<pc, msgId, link, toBroker, seen>>
  BY TypedPackets DEF BrokerSends, Begin, TypeOK
<1>2. Placed(toClient, toBroker, inflight, seen) /\ 0 \notin seen
  BY DEF OnePlace
<1>3. p.id \notin inflight /\ p.id \in Nat
      /\ inflight' = IF p.id > 0 THEN inflight \cup {p.id} ELSE inflight
  BY <1>1 DEF BrokerSends, Packet
<1>4. PICK t : t = Append(toClient, p)
  OBVIOUS
<1>5. \A i \in Pubs(t) : \/ i \in Pubs(toClient) /\ t[i] = toClient[i]
                         \/ i = Len(toClient) + 1 /\ t[i] = p /\ p.id > 0
  BY <1>1, <1>4, AppendPlaces DEF Pubs
<1>6. inflight \subseteq inflight'
  BY <1>3
<1>7. (\A i \in Pubs(toClient) : toClient[i].id # p.id)
      /\ \A i \in Acks(toBroker) : toBroker[i].id # p.id
  BY <1>2, <1>3 DEF Placed, PubsAreInflight, AcksAreSeen
<1>8. Alone(t, Pubs(t)) /\ Apart(t, toBroker)
  BY <1>2, <1>5, <1>7 DEF Placed, Alone, Apart
<1>9. PubsAreInflight(t, inflight') /\ AcksAreSeen(toBroker, inflight', seen)
  BY <1>2, <1>3, <1>5, <1>6 DEF Placed, PubsAreInflight, AcksAreSeen
<1>10. Placed(t, toBroker, inflight', seen)
  BY <1>2, <1>8, <1>9 DEF Placed
<1>11. ASSUME NEW id, WithCallback(id, inflight, seen, toClient, toBroker)
       PROVE  WithCallback(id, inflight', seen, t, toBroker)
  <2>1. id # p.id
    BY <1>3, <1>11 DEF WithCallback
  <2> QED BY <1>5, <1>6, <1>11, <2>1 DEF WithCallback
<1> QED BY <1>1, <1>2, <1>4, <1>10, <1>11, Zenon DEF OnePlace, Open

\* The broker's queue holds no PUBACK any more.
LEMMA NoAcksPlaced ==
  ASSUME NEW q, NEW r, NEW inf, NEW s, NEW t, Placed(q, r, inf, s), Acks(t) = {}
  PROVE  /\ Placed(q, t, inf, s)
         /\ \A id : WithCallback(id, inf, s, q, r) => WithCallback(id, inf, s, q, t)
BY DEF Placed, Alone, Apart, AcksAreSeen, WithCallback

LEMMA PlacedKept == TypeOK /\ OnePlace /\ [Next]_vars => OnePlace'
<1> SUFFICES ASSUME TypeOK, OnePlace, [Next]_vars PROVE OnePlace'
  OBVIOUS
<1>0. Placed(toClient, toBroker, inflight, seen) /\ 0 \notin seen
  BY DEF OnePlace
<1>1. CASE Connect
  <2>1. toBroker' = <<Pkt("connect", 0)>> /\ pc' = "connecting"
        /\ UNCHANGED <<toClient, inflight, seen>>
    BY <1>1 DEF Connect
  <2>2. Acks(toBroker') = {}
    BY <2>1 DEF Acks, Pkt
  <2>3. Placed(toClient, toBroker', inflight, seen)
    BY <1>0, <2>2, NoAcksPlaced
  <2>4. "connecting" # "callback"
    OBVIOUS
  <2> QED BY <1>0, <2>1, <2>3, <2>4, Zenon DEF OnePlace
<1>2. CASE Disconnect \/ Cut \/ ConnectTimeout \/ LoopGivesUp \/ ReadRefusal
  BY <1>2, StopPlaced, Zenon
     DEF Disconnect, Cut, ConnectTimeout, LoopGivesUp, ReadRefusal
<1>3. ASSUME NEW type \in Calls, Write(type) PROVE OnePlace'
  <2>1. PICK id \in Nat : Send(Pkt(type, id))
    <3>1. NewId \in Nat /\ 0 \in Nat
      BY IdIsInRange, TimeAssumption DEF TypeOK
    <3> QED BY <1>3, <3>1, Zenon DEF Write
  <2>2. type \in Types \ {"puback"}
    BY DEF Calls, Types
  <2>3. UNCHANGED <<link, pc, msgId, toClient, inflight, seen>>
    BY <1>3, Zenon DEF Write
  <2> QED BY <2>1, <2>2, <2>3, SendOther, QuietPlaced
<1>4. CASE Loop
  <2>1. toBroker' = toBroker \/ Send(Pkt("pingreq", 0))
    BY <1>4, Zenon DEF Loop
  <2>2. "pingreq" \in Types \ {"puback"} /\ 0 \in Nat
    BY DEF Types
  <2>3. pc' # "callback" /\ UNCHANGED <<link, toClient, inflight, seen>>
    BY <1>4 DEF Loop
  <2> QED BY <2>1, <2>2, <2>3, SendOther, QuietPlaced
<1>5. CASE ConnectReads \/ Rest \/ Tick \/ UNCHANGED vars
  <2>1. /\ UNCHANGED <<link, toClient, toBroker, inflight, seen>>
        /\ pc' = "callback" => pc = "callback" /\ msgId' = msgId
    BY <1>5 DEF ConnectReads, Rest, Tick, vars, wire
  <2> QED BY <2>1, QuietPlaced
<1>6. CASE ReadPublish
  BY <1>6, ReadPublishPlaced
<1>7. CASE ReadOther \/ ReadConnack
  BY <1>7, ReadOtherPlaced
<1>8. CASE CallbackReturns
  BY <1>8, CallbackReturnsPlaced
<1>9. CASE Broker
  BY <1>9, BrokerPlaced
<1>10. ASSUME NEW p \in Messages, BrokerSends(p) PROVE OnePlace'
  BY <1>10, BrokerSendsPlaced
<1>11. CASE Die
  <2>1. toBroker' = <<>> /\ UNCHANGED <<link, pc, msgId, toClient, inflight, seen>>
    BY <1>11 DEF Die
  <2>2. /\ Placed(toClient, toBroker', inflight, seen)
        /\ \A id : WithCallback(id, inflight, seen, toClient, toBroker)
                   => WithCallback(id, inflight, seen, toClient, toBroker')
    BY <1>0, <2>1, NoPlaces, NoAcksPlaced
  <2> QED BY <1>0, <2>1, <2>2, Zenon DEF OnePlace, Open
<1> QED
  BY <1>1, <1>2, <1>3, <1>4, <1>5, <1>6, <1>7, <1>8, <1>9, <1>10, <1>11,
     NextCases, Zenon

\* An identifier leaves the broker's window only with a PUBACK, or with the
\* connection.
LEMMA AckStep ==
  Inv /\ [Next]_vars
  => \A id \in inflight \ inflight' : link' = "up" => id \in seen
<1> SUFFICES ASSUME TypeOK, OnePlace, [Next]_vars,
                    NEW id \in inflight \ inflight', link' = "up"
             PROVE  id \in seen
  BY Zenon DEF Inv
<1>1. CASE Broker
  <2> DEFINE p == Head(toBroker)
  <2>1. p.type = "puback" /\ id = p.id
    BY <1>1 DEF Broker
  <2>2. toBroker \in Seq(Packet) /\ toBroker # <<>>
    BY <1>1 DEF Broker, TypeOK
  <2>3. 1 \in Acks(toBroker) /\ p = toBroker[1]
    BY <2>1, <2>2, TailPlaces DEF Acks
  <2>4. AcksAreSeen(toBroker, inflight, seen)
    BY Zenon DEF OnePlace, Placed
  <2> QED BY <2>1, <2>3, <2>4 DEF AcksAreSeen
<1>2. CASE Disconnect \/ Cut \/ ConnectTimeout \/ LoopGivesUp \/ ReadRefusal
  <2>1. Stop
    BY <1>2, Zenon DEF Disconnect, Cut, ConnectTimeout, LoopGivesUp, ReadRefusal
  <2> QED BY <2>1 DEF Stop
<1>3. ASSUME NEW p \in Messages, BrokerSends(p) PROVE FALSE
  BY <1>3 DEF BrokerSends
<1>4. CASE UNCHANGED inflight
  BY <1>4
<1>5. \/ Broker \/ UNCHANGED inflight
      \/ Disconnect \/ Cut \/ ConnectTimeout \/ LoopGivesUp \/ ReadRefusal
      \/ \E p \in Messages : BrokerSends(p)
  BY NextCases, Zenon
     DEF Connect, Write, ConnectReads, Loop, ReadConnack, ReadPublish, ReadOther,
         CallbackReturns, Rest, Die, Tick, wire, vars
<1> QED BY <1>1, <1>2, <1>3, <1>4, <1>5

\* A QoS 1 message leaves the broker's window only when the callback of loop()
\* has had it, or with the connection.
THEOREM AcknowledgedIsSeen == Spec => AckedIsSeen
<1>1. TypeOK /\ OnePlace /\ [Next]_vars => OnePlace'
  BY PlacedKept
<1>2. Init => OnePlace
  BY InitInv DEF Inv
<1>3. Inv /\ [Next]_vars
      => [\A id \in inflight \ inflight' : link' = "up" => id \in seen]_vars
  BY AckStep
<1>4. Inv <=> TypeOK /\ OnePlace
  BY DEF Inv
<1> QED BY <1>1, <1>2, <1>3, <1>4, TypeCorrect, PTL DEF Spec, AckedIsSeen
-----------------------------------------------------------------------------
(* The keep-alive timers.  An answer to a PINGREQ is never further away     *)
(* than the ages allow, and a dead broker never silent for longer.          *)

Handshake == pc = "connecting" \/ (pc = "reading" /\ reader = "connect")
Turns(k) == k * Period

\* What the connection and the queues are when one of them is unused.
Line ==
    /\ half => Arrived
    /\ ~Open => /\ toClient = <<>> /\ toBroker = <<>>
                /\ lag = 0 /\ silence = 0 /\ quiet = 0
    /\ ~alive => toBroker = <<>>
    /\ alive => silence = 0
    /\ pc # "idle" \/ ~Open => sinceLoop = 0
    /\ Open /\ pc = "reading" => Arrived

LEMMA QueueLengths ==
  ASSUME NEW q \in Seq(Packet)
  PROVE  /\ Len(q) \in Nat /\ (q = <<>> <=> Len(q) = 0)
         /\ q # <<>> => /\ Tail(q) \in Seq(Packet) /\ Len(Tail(q)) = Len(q) - 1
                        /\ Tail(q) = <<>> <=> Len(q) = 1
         /\ \A p \in Packet : /\ Append(q, p) \in Seq(Packet)
                             /\ Len(Append(q, p)) = Len(q) + 1
                             /\ Append(q, p) # <<>>
<1>1. \A r \in Seq(Packet) : Len(r) \in Nat /\ (r = <<>> <=> Len(r) = 0)
  OBVIOUS
<1>2. q # <<>> => Tail(q) \in Seq(Packet) /\ Len(Tail(q)) = Len(q) - 1
  OBVIOUS
<1>3. ASSUME q # <<>> PROVE Tail(q) = <<>> <=> Len(q) = 1
  <2>1. Len(q) \in Nat /\ Len(Tail(q)) = Len(q) - 1
    BY <1>1, <1>2, <1>3
  <2>2. Tail(q) = <<>> <=> Len(Tail(q)) = 0
    BY <1>1, <1>2, <1>3, Zenon
  <2> QED BY <2>1, <2>2
<1>4. ASSUME NEW p \in Packet
      PROVE  /\ Append(q, p) \in Seq(Packet)
             /\ Len(Append(q, p)) = Len(q) + 1
             /\ Append(q, p) # <<>>
  <2>1. Append(q, p) \in Seq(Packet) /\ Len(Append(q, p)) = Len(q) + 1
    OBVIOUS
  <2> QED BY <1>1, <2>1
<1> QED BY <1>1, <1>2, <1>3, <1>4

\* A packet is taken whole: the rest of another one is not the only one left.
LEMMA TakeLeaves ==
  ASSUME TypeOK, Take
  PROVE  /\ pc = "reading" /\ toClient # <<>> /\ toClient' = Tail(toClient)
         /\ Len(toClient') = Len(toClient) - 1 /\ toClient' \in Seq(Packet)
         /\ half => toClient' # <<>>
<1>1. toClient \in Seq(Packet) /\ toClient # <<>> /\ toClient' = Tail(toClient)
      /\ pc = "reading"
  BY Zenon DEF TypeOK, Take, Whole, Arrived
<1>3. half => Len(toClient) # 1
  BY Zenon DEF Take, Whole
<1>2. Len(toClient') = Len(toClient) - 1 /\ toClient' \in Seq(Packet)
      /\ Len(toClient) \in Nat /\ (toClient' = <<>> => Len(toClient) = 1)
  BY <1>1, QueueLengths
<1> QED BY <1>1, <1>2, <1>3, Zenon

LEMMA LineKept == TypeOK /\ Line /\ [Next]_vars => Line'
<1> SUFFICES ASSUME TypeOK, Line, [Next]_vars PROVE Line'
  OBVIOUS
<1> USE DEF Line, Open, Arrived
<1>1. CASE Connect
  BY <1>1, Zenon DEF Connect
<1>2. CASE Disconnect \/ Cut \/ ConnectTimeout \/ LoopGivesUp \/ ReadRefusal
  BY <1>2, Zenon DEF Disconnect, Cut, Stop, ConnectTimeout, LoopGivesUp, ReadRefusal
<1>3. ASSUME NEW type \in Calls, Write(type) PROVE Line'
  BY <1>3, Zenon DEF Write, Send
<1>4. CASE ConnectReads
  BY <1>4, Zenon DEF ConnectReads, timers, wire
<1>5. CASE Loop
  BY <1>5, Zenon DEF Loop, Send
<1>6. CASE ReadConnack \/ ReadPublish \/ ReadOther
  <2>1. Take /\ pc' \in {"idle", "callback"}
        /\ UNCHANGED <<link, alive, half, lag, silence, sinceLoop>>
        /\ (~alive => toBroker' = toBroker)
    BY <1>6, Zenon DEF ReadConnack, ReadPublish, ReadOther, Send, Take
  <2>2. pc = "reading" /\ toClient # <<>> /\ (half => toClient' # <<>>)
    BY <2>1, TakeLeaves
  <2>3. "idle" # "reading" /\ "callback" # "reading"
    OBVIOUS
  <2> QED BY <2>1, <2>2, <2>3, Zenon
<1>8. CASE CallbackReturns
  BY <1>8, Zenon DEF CallbackReturns, Send
<1>9. CASE Broker
  <2>1. Append(toClient, Head(toBroker)) # <<>>
        /\ \A a \in Answers(Head(toBroker)) : Append(toClient, a) # <<>>
    BY <1>9, QueueLengths, TailPlaces, AnswersArePackets DEF Broker, TypeOK
  <2> QED BY <1>9, <2>1, Zenon DEF Broker, Begin
<1>10. CASE Rest
  BY <1>10, Zenon DEF Rest
<1>11. CASE Die
  BY <1>11, Zenon DEF Die
<1>12. CASE Tick
  BY <1>12, Zenon DEF Tick, wire
<1>13. ASSUME NEW p \in Messages, BrokerSends(p) PROVE Line'
  <2>1. Append(toClient, p) # <<>>
    BY QueueLengths, TypedPackets DEF TypeOK
  <2> QED BY <1>13, <2>1, Zenon DEF BrokerSends, Begin, timers
<1>14. CASE UNCHANGED vars
  BY <1>14, Zenon DEF vars, timers, wire
<1> QED
  BY <1>1, <1>2, <1>3, <1>4, <1>5, <1>6, <1>8, <1>9, <1>10, <1>11,
     <1>12, <1>13, <1>14, NextCases, Zenon
-----------------------------------------------------------------------------
(* How many packets are under way.                                          *)

PingCount == IF pingOutstanding THEN 1 ELSE 0
HasAck(r) == \E i \in DOMAIN r : r[i].type = "puback"
AckCount == IF pc # "callback" /\ HasAck(toBroker) THEN 1 ELSE 0

\* Only a PINGREQ and a PUBACK are sent however many packets are under way.
Room == UnderWay <= MaxUnderWay + PingCount + AckCount

LEMMA Counts ==
  /\ PingCount \in 0 .. 1 /\ AckCount \in 0 .. 1
  /\ (pingOutstanding => PingCount = 1) /\ (~pingOutstanding => PingCount = 0)
  /\ pc = "callback" => AckCount = 0
  /\ pc # "callback" /\ HasAck(toBroker) => AckCount = 1
  /\ ~HasAck(toBroker) => AckCount = 0
<1>1. 0 \in 0 .. 1 /\ 1 \in 0 .. 1
  OBVIOUS
<1> QED BY <1>1, Zenon DEF PingCount, AckCount

LEMMA CountsNext ==
  /\ PingCount' \in 0 .. 1 /\ AckCount' \in 0 .. 1
  /\ (pingOutstanding' => PingCount' = 1) /\ (~pingOutstanding' => PingCount' = 0)
  /\ pc' = "callback" => AckCount' = 0
  /\ pc' # "callback" /\ HasAck(toBroker') => AckCount' = 1
  /\ ~HasAck(toBroker') => AckCount' = 0
<1>1. 0 \in 0 .. 1 /\ 1 \in 0 .. 1
  OBVIOUS
<1> QED BY <1>1, Zenon DEF PingCount, AckCount

LEMMA AppendAck ==
  ASSUME NEW r \in Seq(Packet), NEW p \in Packet
  PROVE  /\ HasAck(r) => HasAck(Append(r, p))
         /\ p.type = "puback" => HasAck(Append(r, p))
<1>1. \A i \in DOMAIN r : i \in DOMAIN Append(r, p) /\ Append(r, p)[i] = r[i]
  OBVIOUS
<1>2. Len(r) + 1 \in DOMAIN Append(r, p) /\ Append(r, p)[Len(r) + 1] = p
  OBVIOUS
<1> QED BY <1>1, <1>2 DEF HasAck

LEMMA TailAck ==
  ASSUME NEW r \in Seq(Packet), r # <<>>, Head(r).type # "puback", HasAck(r)
  PROVE  HasAck(Tail(r)) /\ Len(r) >= 2
<1>1. PICK i \in 1 .. Len(r) : r[i].type = "puback"
  BY DEF HasAck
<1>2. i # 1
  BY <1>1
<1>3. i - 1 \in DOMAIN Tail(r) /\ Tail(r)[i - 1] = r[i] /\ Len(r) >= 2
  BY <1>1, <1>2
<1> QED BY <1>1, <1>3 DEF HasAck

LEMMA SendLength ==
  ASSUME TypeOK, NEW p \in Packet, Send(p)
  PROVE  /\ Len(toBroker') \in Nat /\ Len(toBroker') <= Len(toBroker) + 1
         /\ HasAck(toBroker) => HasAck(toBroker')
         /\ p.type = "puback" /\ toBroker' # toBroker => HasAck(toBroker')
<1>1. toBroker \in Seq(Packet) /\ Len(toBroker) \in Nat
  BY QueueLengths, Zenon DEF TypeOK
<1>2. toBroker' = toBroker \/ toBroker' = Append(toBroker, p)
  BY Zenon DEF Send
<1>3. CASE toBroker' = toBroker
  BY <1>1, <1>3
<1>4. CASE toBroker' = Append(toBroker, p)
  BY <1>1, <1>4, QueueLengths, AppendAck
<1> QED BY <1>2, <1>3, <1>4

\* The same packets under way, counted the same.
LEMMA SameRoom ==
  ASSUME Room, UNCHANGED <<toClient, toBroker, pingOutstanding>>,
         pc # "callback", pc' # "callback"
  PROVE  Room'
<1>1. PingCount' = PingCount /\ AckCount' = AckCount
  BY Zenon DEF PingCount, AckCount
<1> QED BY <1>1 DEF Room, UnderWay

LEMMA AckCounted == ASSUME TypeOK PROVE AckCount <= Len(toBroker)
<1>1. toBroker \in Seq(Packet) /\ Len(toBroker) \in Nat
  BY QueueLengths, Zenon DEF TypeOK
<1>2. CASE ~HasAck(toBroker)
  BY <1>1, <1>2, Counts
<1>3. CASE HasAck(toBroker)
  <2>1. toBroker # <<>>
    BY <1>3 DEF HasAck
  <2>2. Len(toBroker) # 0
    BY <1>1, <2>1, QueueLengths
  <2> QED BY <1>1, <2>2, Counts
<1> QED BY <1>2, <1>3

LEMMA RoomKept == TypeOK /\ Line /\ Room /\ [Next]_vars => Room'
<1> SUFFICES ASSUME TypeOK, Line, Room, [Next]_vars PROVE Room'
  OBVIOUS
<1> DEFINE c == Len(toClient)
           b == Len(toBroker)
<1>r. /\ PingCount \in 0 .. 1 /\ AckCount \in 0 .. 1
      /\ \E n \in 0 .. 1 : PingCount' = n
      /\ \E n \in 0 .. 1 : AckCount' = n
  BY Counts, CountsNext, Zenon
<1>0. /\ toClient \in Seq(Packet) /\ toBroker \in Seq(Packet)
      /\ c \in Nat /\ b \in Nat /\ MaxUnderWay \in Nat \ {0}
      /\ c + b <= MaxUnderWay + PingCount + AckCount
  <2>1. toClient \in Seq(Packet) /\ toBroker \in Seq(Packet)
    BY Zenon DEF TypeOK
  <2>2. c \in Nat /\ b \in Nat
    BY <2>1, QueueLengths
  <2>3. b + c <= MaxUnderWay + PingCount + AckCount
    BY Zenon DEF Room, UnderWay
  <2> QED BY <2>1, <2>2, <2>3, <1>r, TimeAssumption
<1>e. Len(<<>>) = 0
  OBVIOUS
<1>p. PICK p1 \in 0 .. 1 : PingCount' = p1
  BY <1>r, Zenon
<1>q. PICK a1 \in 0 .. 1 : AckCount' = a1
  BY <1>r, Zenon
<1>k. /\ (pingOutstanding' => p1 = 1)
      /\ pc' # "callback" /\ HasAck(toBroker') => a1 = 1
  BY <1>p, <1>q, CountsNext, Zenon

\* What the counts must do, as a matter of numbers.
<1>b. ASSUME NEW n \in Nat, NEW m \in Nat, c' = n, b' = m,
             n + m <= MaxUnderWay + p1 + a1
      PROVE  Room'
  BY <1>0, <1>b, <1>p, <1>q DEF Room, UnderWay
<1>a. ASSUME NEW n \in Nat, NEW m \in Nat, c' = n, b' = m, n + m <= MaxUnderWay
      PROVE  Room'
  BY <1>0, <1>a, <1>b
<1> HIDE DEF c, b
<1>1. CASE Connect
  <2>1. c' = 0 /\ b' = 1
    BY <1>1, <1>e DEF Connect, Line, Open, c, b
  <2> QED BY <1>0, <1>a, <2>1
<1>2. CASE Disconnect \/ Cut \/ ConnectTimeout \/ LoopGivesUp \/ ReadRefusal
  <2>1. Stop
    BY <1>2, Zenon DEF Disconnect, Cut, ConnectTimeout, LoopGivesUp, ReadRefusal
  <2>2. c' = 0 /\ b' = 0
    BY <2>1, <1>e, Zenon DEF Stop, c, b
  <2> QED BY <1>0, <1>a, <2>2
<1>3. ASSUME NEW type \in Calls, Write(type) PROVE Room'
  <2>1. PICK p \in Packet : Send(p)
    <3>1. NewId \in Nat /\ 0 \in Nat /\ type \in Types
      BY IdIsInRange, TimeAssumption, TypedPackets DEF TypeOK
    <3> QED BY <1>3, <3>1, TypedPackets, Zenon DEF Write
  <2>2. b' \in Nat /\ b' <= b + 1
    BY <2>1, SendLength DEF b
  <2>3. c' = c /\ b + c < MaxUnderWay
    BY <1>3, Zenon DEF Write, UnderWay, b, c
  <2> QED BY <1>0, <1>a, <2>2, <2>3
<1>4. CASE ConnectReads \/ Rest \/ Tick \/ UNCHANGED vars
  <2>1. CASE pc = "callback"
    <3>1. UNCHANGED <<toClient, toBroker, pingOutstanding, pc>>
      BY <1>4, <2>1 DEF ConnectReads, Rest, Tick, wire, vars
    <3>2. PingCount' = PingCount /\ AckCount' = AckCount
      BY <3>1, Zenon DEF PingCount, AckCount
    <3> QED BY <3>1, <3>2 DEF Room, UnderWay
  <2>2. CASE pc # "callback"
    <3>1. UNCHANGED <<toClient, toBroker, pingOutstanding>> /\ pc' # "callback"
      BY <1>4, <2>2 DEF ConnectReads, Rest, Tick, wire, vars
    <3> QED BY <2>2, <3>1, SameRoom
  <2> QED BY <2>1, <2>2
<1>5. CASE Loop
  <2>1. pc # "callback" /\ pc' # "callback" /\ c' = c
    BY <1>5 DEF Loop, c
  <2>2. CASE Expired
    <3>1. Send(Pkt("pingreq", 0)) /\ pingOutstanding' /\ ~pingOutstanding
      BY <1>5, <2>2, Zenon DEF Loop
    <3>2. Pkt("pingreq", 0) \in Packet
      BY TypedPackets DEF Types
    <3>3. b' \in Nat /\ b' <= b + 1 /\ (HasAck(toBroker) => HasAck(toBroker'))
      BY <3>1, <3>2, SendLength DEF b
    <3>4. p1 = 1 /\ PingCount = 0
      BY <3>1, <1>k, Counts, Zenon
    <3>5. a1 >= AckCount
      BY <2>1, <3>3, <1>k, <1>r, Counts
    <3> QED BY <1>0, <1>b, <1>r, <2>1, <3>3, <3>4, <3>5
  <2>3. CASE ~Expired
    <3>1. UNCHANGED <<toClient, toBroker, pingOutstanding>>
      BY <1>5, <2>3, Zenon DEF Loop
    <3> QED BY <2>1, <3>1, SameRoom
  <2> QED BY <2>2, <2>3
<1>6. CASE ReadConnack \/ ReadPublish \/ ReadOther
  <2>1. Take /\ (toBroker' = toBroker \/ Send(Pkt("pingresp", 0)))
    BY <1>6, Zenon DEF ReadConnack, ReadPublish, ReadOther
  <2>2. c' = c - 1 /\ c' \in Nat /\ pc # "callback"
    BY <1>0, <2>1, TakeLeaves, QueueLengths DEF c
  <2>3. CASE toBroker' = toBroker
    <3>1. b' = b
      BY <2>3 DEF b
    <3>2. CASE ReadPublish
      <4>1. p1 = PingCount
        BY <1>p, <3>2, Zenon DEF ReadPublish, PingCount
      <4> QED BY <1>0, <1>b, <1>r, <2>2, <3>1, <4>1
    <3>3. CASE ReadConnack \/ ReadOther
      <4>1. pc' # "callback"
        BY <3>3 DEF ReadConnack, ReadOther
      <4>2. a1 = AckCount
        BY <1>q, <2>2, <2>3, <4>1, Zenon DEF AckCount
      <4> QED BY <1>0, <1>b, <1>r, <2>2, <3>1, <4>2
    <3> QED BY <1>6, <3>2, <3>3
  <2>4. CASE toBroker' # toBroker
    <3>1. ReadOther /\ Head(toClient).type = "pingreq"
      BY <1>6, <2>4, Zenon DEF ReadConnack, ReadPublish, ReadOther
    <3>2. pingOutstanding' = pingOutstanding /\ pc' # "callback"
      <4>1. "pingreq" # "pingresp" /\ "idle" # "callback"
        OBVIOUS
      <4> QED BY <3>1, <4>1, Zenon DEF ReadOther, TypeOK
    <3>3. Pkt("pingresp", 0) \in Packet
      BY TypedPackets DEF Types
    <3>4. b' \in Nat /\ b' <= b + 1 /\ (HasAck(toBroker) => HasAck(toBroker'))
      BY <2>1, <2>4, <3>3, SendLength DEF b
    <3>5. p1 = PingCount
      BY <3>2, <1>p, Zenon DEF PingCount
    <3>6. a1 >= AckCount
      BY <2>2, <3>2, <3>4, <1>k, <1>r, Counts
    <3> QED BY <1>0, <1>b, <1>r, <2>2, <3>4, <3>5, <3>6
  <2> QED BY <2>3, <2>4
<1>7. CASE CallbackReturns
  <2>1. pc = "callback" /\ pc' # "callback" /\ c' = c
    BY <1>7 DEF CallbackReturns, c
  <2>2. p1 = PingCount
    BY <1>p, <1>7, Zenon DEF CallbackReturns, PingCount
  <2>3. toBroker' = toBroker \/ Send(Pkt("puback", msgId))
    BY <1>7, Zenon DEF CallbackReturns, AckId
  <2>4. CASE toBroker' = toBroker
    <3>1. b' = b
      BY <2>4 DEF b
    <3>2. AckCount = 0
      BY <2>1, Counts, Zenon
    <3> QED BY <1>0, <1>b, <1>r, <2>1, <2>2, <3>1, <3>2
  <2>5. CASE toBroker' # toBroker
    <3>1. Pkt("puback", msgId) \in Packet /\ Pkt("puback", msgId).type = "puback"
      BY TypedPackets DEF Types, TypeOK, Pkt
    <3>2. b' \in Nat /\ b' <= b + 1 /\ HasAck(toBroker')
      BY <2>3, <2>5, <3>1, SendLength DEF b
    <3>3. AckCount = 0 /\ a1 = 1
      BY <2>1, <3>2, <1>k, Counts, Zenon
    <3> QED BY <1>0, <1>b, <1>r, <2>1, <2>2, <3>2, <3>3
  <2> QED BY <2>4, <2>5
<1>8. CASE Broker
  <2>1. /\ toBroker # <<>> /\ toBroker' = Tail(toBroker)
        /\ UNCHANGED <<pc, pingOutstanding>>
    BY <1>8, Zenon DEF Broker
  <2>2. b' = b - 1 /\ b' \in Nat
    BY <1>0, <2>1, QueueLengths DEF b
  <2>3. p1 = PingCount
    BY <2>1, <1>p, Zenon DEF PingCount
  <2>4. CASE Head(toBroker).type = "puback"
    <3>1. c' = c
      BY <1>8, <2>4 DEF Broker, Answers, c
    <3> QED BY <1>0, <1>b, <1>r, <2>2, <2>3, <3>1
  <2>5. CASE Head(toBroker).type # "puback"
    <3>1. \/ toClient' = toClient
          \/ \E a \in Answers(Head(toBroker)) : toClient' = Append(toClient, a)
      BY <1>8, Zenon DEF Broker, Begin
    <3>2. c' = c \/ c' = c + 1
      BY <1>0, <2>1, <3>1, TailPlaces, AnswersArePackets, QueueLengths DEF c
    <3>3. HasAck(toBroker) => HasAck(toBroker')
      BY <1>0, <2>1, <2>5, TailAck
    <3>4. a1 >= AckCount
      BY <2>1, <3>3, <1>k, <1>r, Counts
    <3> QED BY <1>0, <1>b, <1>r, <2>2, <2>3, <3>2, <3>4
  <2> QED BY <2>4, <2>5
<1>9. ASSUME NEW p \in Messages, BrokerSends(p) PROVE Room'
  <2>1. toClient' = Append(toClient, p) /\ toBroker' = toBroker
        /\ b + c < MaxUnderWay /\ p \in Packet
    BY <1>9, TypedPackets, Zenon DEF BrokerSends, Begin, UnderWay, b, c
  <2>2. c' = c + 1 /\ b' = b
    BY <1>0, <2>1, QueueLengths DEF b, c
  <2> QED BY <1>0, <1>a, <2>1, <2>2
<1>10. CASE Die
  <2>1. toBroker' = <<>> /\ UNCHANGED <<toClient, pingOutstanding>>
    BY <1>10, Zenon DEF Die
  <2>2. b' = 0 /\ c' = c
    BY <2>1, <1>e, Zenon DEF b, c
  <2>3. p1 = PingCount
    BY <2>1, <1>p, Zenon DEF PingCount
  <2>4. AckCount <= b
    BY AckCounted DEF b
  <2> QED BY <1>0, <1>b, <1>r, <2>2, <2>3, <2>4
<1> QED
  BY <1>1, <1>2, <1>3, <1>4, <1>5, <1>6, <1>7, <1>8, <1>9, <1>10,
     NextCases, Zenon

\* The answer to a PINGREQ is never behind more than MaxUnderWay packets.
LEMMA ShortQueue ==
  ASSUME TypeOK, Room
  PROVE  /\ Len(toClient) \in Nat /\ Len(toClient) <= MaxUnderWay + 1
         /\ (MaxUnderWay + 1) - Len(toClient) \in Nat
<1>1. toClient \in Seq(Packet) /\ toBroker \in Seq(Packet)
  BY Zenon DEF TypeOK
<1>2. Len(toClient) \in Nat /\ Len(toBroker) \in Nat
  BY <1>1, QueueLengths
<1>3. PingCount \in 0 .. 1 /\ AckCount \in 0 .. 1
  BY Counts, Zenon
<1> QED BY <1>2, <1>3, AckCounted, TimeAssumption DEF Room, UnderWay

LEMMA TurnsAdd ==
  /\ \A k \in Nat : Turns(k) \in Nat /\ Turns(k + 1) = Turns(k) + Period
  /\ \A j, k \in Nat : j <= k => Turns(j) <= Turns(k)
<1>1. \A k \in Nat : Turns(k) \in Nat /\ Turns(k + 1) = Turns(k) + Period
  BY TimeAssumption DEF Turns
<1>2. ASSUME NEW j \in Nat, NEW k \in Nat, j <= k PROVE Turns(j) <= Turns(k)
  <2>1. k - j \in Nat
    BY <1>2
  <2>2. k * Period = j * Period + (k - j) * Period /\ (k - j) * Period \in Nat
    BY <2>1, TimeAssumption
  <2>3. j * Period \in Nat
    BY TimeAssumption
  <2> QED BY <2>2, <2>3 DEF Turns
<1> QED BY <1>1, <1>2
-----------------------------------------------------------------------------
(* A dead broker: the packets it has left are read, one in each call of      *)
(* loop(), and then the timer of the last one that came runs out twice.      *)

Slack == IF pc = "reading" THEN Period ELSE sinceLoop
Ping == IF pingOutstanding THEN KeepAlive + Period ELSE 0

Silent ==
    Open /\ ~alive =>
      /\ pc = "connecting" /\ ~Arrived => silence <= inAge
      /\ Arrived /\ (pc = "reading" => Whole)
         => silence <= Turns((MaxUnderWay + 1) - Len(toClient)) + Slack
      /\ ~Arrived /\ pc # "connecting" =>
           /\ silence <= Turns(MaxUnderWay + 1) + Ping + KeepAlive + sinceLoop
           /\ inAge <= KeepAlive => silence <= Turns(MaxUnderWay + 1) + Ping + inAge

Clocks == quiet \in Nat /\ silence \in Nat

LEMMA ClocksKept == TypeOK /\ Clocks /\ [Next]_vars => Clocks'
<1> SUFFICES ASSUME TypeOK, Clocks, [Next]_vars PROVE Clocks'
  OBVIOUS
<1>1. /\ \/ quiet' = 0 \/ quiet' = quiet \/ quiet' = Up(quiet, QuietCap)
      /\ \/ silence' = 0 \/ silence' = silence \/ silence' = Up(silence, SilenceCap)
  BY NextCases, Zenon
     DEF Connect, Write, Disconnect, Cut, ConnectTimeout, LoopGivesUp, ReadRefusal,
         Stop, Send, ConnectReads, Loop, ReadConnack, ReadPublish, ReadOther,
         CallbackReturns, Broker, BrokerSends, Rest, Die, Tick, timers, wire, vars
<1>2. QuietCap \in Nat /\ SilenceCap \in Nat
  <2>1. (MaxUnderWay + 1) * Period \in Nat
    BY TimeAssumption
  <2> QED BY <2>1, TimeAssumption DEF QuietCap, SilenceCap
<1> QED BY <1>1, <1>2 DEF Clocks, Up

\* What the bound is made of.
LEMMA SilentNumbers ==
  ASSUME TypeOK, Clocks
  PROVE  /\ silence \in Nat /\ sinceLoop \in 0 .. Period /\ inAge \in 0 .. KeepAlive + 1
         /\ KeepAlive \in Nat /\ Period \in Nat
         /\ Ping \in {0, KeepAlive + Period}
         /\ (~pingOutstanding => Ping = 0)
         /\ pc = "reading" => Slack = Period
         /\ pc # "reading" => Slack = sinceLoop
BY TimeAssumption, Zenon DEF TypeOK, Clocks, Old, Ping, Slack

LEMMA SilentSame ==
  ASSUME Silent,
         UNCHANGED <<link, alive, toClient, half, silence, sinceLoop, inAge,
                     pingOutstanding>>,
         pc' = "reading" <=> pc = "reading",
         pc' = "connecting" <=> pc = "connecting"
  PROVE  Silent'
<1>1. Slack' = Slack /\ Ping' = Ping
  BY Zenon DEF Slack, Ping
<1>2. (Open' <=> Open) /\ (Arrived' <=> Arrived) /\ (Whole' <=> Whole)
  BY Zenon DEF Open, Arrived, Whole
<1>3. /\ Turns((MaxUnderWay + 1) - Len(toClient))'
           = Turns((MaxUnderWay + 1) - Len(toClient))
      /\ Turns(MaxUnderWay + 1)' = Turns(MaxUnderWay + 1)
  BY Zenon DEF Turns
<1> QED BY <1>1, <1>2, <1>3, Zenon DEF Silent

\* A packet is taken from what a dead broker has left.
LEMMA SilentTake ==
  ASSUME TypeOK, Line, Room, Clocks, Silent, Take, ~alive, TypeOK',
         pc' # "reading", pc' # "connecting",
         UNCHANGED <<link, alive, half, silence, sinceLoop>>
  PROVE  Silent'
<1> DEFINE n == Len(toClient)
           top == MaxUnderWay + 1
<1>1. /\ n \in Nat /\ n <= top /\ n >= 1 /\ Len(toClient') = n - 1
      /\ (toClient' = <<>> => n = 1)
  <2>1. toClient \in Seq(Packet) /\ toClient # <<>>
    BY TakeLeaves, Zenon DEF TypeOK
  <2>2. n # 0 /\ (Tail(toClient) = <<>> => n = 1)
    BY <2>1, QueueLengths
  <2> QED BY <2>1, <2>2, ShortQueue, TakeLeaves
<1>2. silence <= Turns(top - n) + Period
  <2>1. Open /\ Arrived /\ Whole /\ pc = "reading"
    BY Zenon DEF Take, Whole, Arrived, Line, Open
  <2>2. silence <= Turns(top - n) + Slack
    <3>1. Open /\ ~alive /\ Arrived /\ (pc = "reading" => Whole)
          => silence <= Turns((MaxUnderWay + 1) - Len(toClient)) + Slack
      BY Zenon DEF Silent
    <3> QED BY <2>1, <3>1, Zenon
  <2>3. Slack = Period
    BY <2>1, Zenon DEF Slack
  <2> QED BY <2>2, <2>3, Zenon
<1>3. /\ top - n \in Nat /\ top - (n - 1) = (top - n) + 1
      /\ top - 0 = top
  BY <1>1, TimeAssumption
<1>4. silence <= Turns(top - (n - 1))
  BY <1>2, <1>3, TurnsAdd
<1>5. Slack' = sinceLoop /\ sinceLoop \in Nat /\ silence \in Nat
  <2>1. sinceLoop \in Nat /\ silence \in Nat
    <3>1. sinceLoop \in 0 .. Period /\ silence \in Nat
      BY SilentNumbers, Zenon
    <3> QED BY <3>1
  <2> QED BY <2>1, Zenon DEF Slack
<1>6. PICK ping \in Nat : Ping' = ping
  <2>1. 0 \in Nat /\ KeepAlive + Period \in Nat
    BY TimeAssumption
  <2> QED BY <2>1, Zenon DEF Ping
<1>7. PICK age \in Nat : inAge' = age
  <2>1. inAge' \in 0 .. Old
    BY Zenon DEF TypeOK
  <2>2. \A i \in 0 .. Old : i \in Nat
    OBVIOUS
  <2> QED BY <2>1, <2>2, Zenon
<1>8. /\ silence <= Turns(top - (n - 1)) + sinceLoop
      /\ n = 1 => /\ silence <= Turns(top) + ping + KeepAlive + sinceLoop
                  /\ silence <= Turns(top) + ping + age
  <2>1. Turns(top) \in Nat /\ Turns(top - (n - 1)) \in Nat /\ KeepAlive \in Nat
    <3>1. top \in Nat /\ top - (n - 1) \in Nat /\ KeepAlive \in Nat
      BY <1>1, <1>3, TimeAssumption
    <3> QED BY <3>1, TurnsAdd, Zenon
  <2>2. n = 1 => Turns(top - (n - 1)) = Turns(top)
    BY <1>1, <1>3
  <2> HIDE DEF n, top
  <2> QED BY <1>4, <1>5, <2>1, <2>2
<1>9. /\ (Turns((MaxUnderWay + 1) - Len(toClient)))' = Turns(top - (n - 1))
      /\ Turns(MaxUnderWay + 1)' = Turns(top)
  <2>1. (Turns((MaxUnderWay + 1) - Len(toClient)))'
        = Turns((MaxUnderWay + 1) - Len(toClient'))
    BY Zenon DEF Turns
  <2>2. Turns(MaxUnderWay + 1)' = Turns(MaxUnderWay + 1)
    BY Zenon DEF Turns
  <2> QED BY <1>1, <2>1, <2>2, Zenon
<1>10. ~Arrived' => n = 1
  BY <1>1, Zenon DEF Arrived
<1> HIDE DEF n, top
<1> QED BY <1>5, <1>6, <1>7, <1>8, <1>9, <1>10, Zenon DEF Silent

LEMMA SilentLoop ==
  ASSUME TypeOK, Clocks, Silent, Loop, ~alive
  PROVE  Silent'
<1> DEFINE all == Turns(MaxUnderWay + 1)
           rest == Turns((MaxUnderWay + 1) - Len(toClient))
<1>1. /\ pc = "idle" /\ Open
      /\ UNCHANGED <<link, alive, toClient, half, silence>> /\ sinceLoop' = 0
  BY Zenon DEF Loop
<1>2. /\ silence \in Nat /\ sinceLoop \in 0 .. Period /\ inAge \in 0 .. KeepAlive + 1
      /\ KeepAlive \in Nat /\ Period \in Nat /\ Slack = sinceLoop
  <2>1. pc # "reading"
    BY <1>1
  <2> QED BY <2>1, SilentNumbers, Zenon
<1>3. CASE Arrived
  <2>1. silence <= rest + Slack
    BY <1>1, <1>3, Zenon DEF Silent
  <2>2. rest + sinceLoop <= rest + Period
    <3>1. Len(toClient) \in Nat
      BY QueueLengths DEF TypeOK
    <3>2. rest \in Int
      BY <3>1, TimeAssumption DEF Turns
    <3> HIDE DEF rest
    <3> QED BY <1>2, <3>2
  <2>3. silence <= rest + Period
    <3>1. Len(toClient) \in Nat
      BY QueueLengths DEF TypeOK
    <3>2. rest \in Int
      BY <3>1, TimeAssumption DEF Turns
    <3> HIDE DEF rest
    <3> QED BY <1>2, <2>1, <2>2, <3>2
  <2>4. pc' = "reading" /\ Arrived' /\ Slack' = Period /\ rest' = rest
        /\ silence' = silence
    BY <1>1, <1>3, Zenon DEF Loop, Slack, Arrived, Turns
  <2>5. "reading" # "connecting"
    OBVIOUS
  <2> QED BY <2>3, <2>4, <2>5, Zenon DEF Silent
<1>4. CASE ~Arrived
  <2>1. pc' = "idle" /\ ~Arrived' /\ silence' = silence /\ all' = all
    BY <1>1, <1>4, Zenon DEF Loop, Arrived, Turns
  <2>2. "idle" # "connecting"
    OBVIOUS
  <2>3. /\ silence <= all + Ping + KeepAlive + sinceLoop
        /\ inAge <= KeepAlive => silence <= all + Ping + inAge
    BY <1>1, <1>4, <2>2, Zenon DEF Silent
  <2>4. all \in Nat
    BY TurnsAdd, TimeAssumption
  <2> HIDE DEF all
  <2>5. CASE Expired
    <3>1. inAge' = 0 /\ Ping = 0 /\ Ping' = KeepAlive + Period
      BY <1>1, <2>5, Zenon DEF Loop, Ping
    <3>2. /\ silence <= all + (KeepAlive + Period) + KeepAlive + 0
          /\ silence <= all + (KeepAlive + Period) + 0
      BY <1>2, <2>3, <2>4, <3>1
    <3> QED BY <1>1, <2>1, <3>1, <3>2, Zenon DEF Silent, all
  <2>6. CASE ~Expired
    <3>1. inAge' = inAge /\ Ping' = Ping
      BY <1>1, <2>6, Zenon DEF Loop, Ping
    <3>2. inAge <= KeepAlive
      BY <1>2, <2>6 DEF Expired
    <3>3. Ping \in Nat
      BY <1>2, SilentNumbers
    <3>4. silence <= all + Ping + KeepAlive + 0
      BY <1>2, <2>3, <2>4, <3>2, <3>3
    <3> QED BY <1>1, <2>1, <2>3, <3>1, <3>4, Zenon DEF Silent, all
  <2> QED BY <2>5, <2>6
<1> QED BY <1>3, <1>4

LEMMA UpAge ==
  ASSUME NEW age \in Nat, NEW cap \in Nat
  PROVE  /\ Up(age, cap) \in Nat /\ Up(age, cap) <= age + 1
         /\ Up(age, cap) <= cap => Up(age, cap) = age + 1 \/ Up(age, cap) = cap
         /\ age < cap => Up(age, cap) = age + 1
BY DEF Up

LEMMA SilentTick ==
  ASSUME TypeOK, Line, Clocks, Silent, Tick, Open, ~alive
  PROVE  Silent'
<1> DEFINE all == Turns(MaxUnderWay + 1)
           rest == Turns((MaxUnderWay + 1) - Len(toClient))
<1>1. /\ UNCHANGED <<link, alive, pc, toClient, half, pingOutstanding>>
      /\ silence' = Up(silence, SilenceCap) /\ inAge' = Up(inAge, Old)
      /\ pc # "callback"
  BY Zenon DEF Tick, wire
<1>2. /\ silence \in Nat /\ sinceLoop \in 0 .. Period /\ inAge \in 0 .. KeepAlive + 1
      /\ KeepAlive \in Nat /\ Period \in Nat
  BY SilentNumbers, Zenon
<1>3. PICK s \in Nat : s <= silence + 1 /\ silence' = s
  <2>1. SilenceCap \in Nat
    <3>1. (MaxUnderWay + 1) * Period \in Nat
      BY TimeAssumption
    <3> QED BY <3>1, TimeAssumption DEF SilenceCap
  <2> QED BY <1>1, <1>2, <2>1, UpAge, Zenon
<1>4. /\ Open' /\ ~alive' /\ (Arrived' <=> Arrived) /\ (Whole' <=> Whole)
      /\ Ping' = Ping /\ rest' = rest /\ all' = all
  BY <1>1, Zenon DEF Open, Arrived, Whole, Ping, Turns
<1>5. inAge <= KeepAlive => inAge' = inAge + 1
  BY <1>1, <1>2 DEF Up, Old
<1>6. inAge' <= KeepAlive => inAge <= KeepAlive
  <2>1. Up(inAge, Old) <= KeepAlive => inAge <= KeepAlive
    BY <1>2 DEF Up, Old
  <2> QED BY <1>1, <2>1, Zenon
<1>7. CASE pc = "connecting"
  <2>1. ~Arrived /\ inAge <= KeepAlive
    <3>1. ~Arrived /\ ~Waited
      BY <1>7, Zenon DEF Tick
    <3> QED BY <1>2, <3>1 DEF Waited
  <2>2. silence <= inAge
    BY <1>7, <2>1, Zenon DEF Silent
  <2>3. s <= inAge + 1
    BY <1>2, <1>3, <2>2
  <2> QED BY <1>1, <1>3, <1>4, <1>5, <1>7, <2>1, <2>3, Zenon DEF Silent
<1>8. CASE pc = "reading"
  <2>1. ~Whole /\ Arrived
    BY <1>8, Zenon DEF Tick, Line
  <2>2. "reading" # "connecting"
    OBVIOUS
  <2> QED BY <1>1, <1>4, <1>8, <2>1, <2>2, Zenon DEF Silent
<1>9. CASE pc = "idle"
  <2>1. sinceLoop' = sinceLoop + 1 /\ Slack' = sinceLoop + 1 /\ Slack = sinceLoop
    <3>1. "idle" # "reading"
      OBVIOUS
    <3> QED BY <1>1, <1>9, <3>1, Zenon DEF Tick, Slack
  <2>2. CASE Arrived
    <3>1. silence <= rest + Slack
      <4>1. "idle" # "reading"
        OBVIOUS
      <4> QED BY <1>9, <2>2, <4>1, Zenon DEF Silent
    <3>2. s <= rest + (sinceLoop + 1)
      <4>1. Len(toClient) \in Nat
        BY QueueLengths DEF TypeOK
      <4>2. rest \in Int
        BY <4>1, TimeAssumption DEF Turns
      <4> HIDE DEF rest
      <4> QED BY <1>2, <1>3, <2>1, <3>1, <4>2
    <3>3. "idle" # "connecting"
      OBVIOUS
    <3> QED BY <1>1, <1>3, <1>4, <1>9, <2>1, <2>2, <3>2, <3>3, Zenon DEF Silent
  <2>3. CASE ~Arrived
    <3>1. pc # "connecting"
      BY <1>9
    <3>2. /\ silence <= all + Ping + KeepAlive + sinceLoop
          /\ inAge <= KeepAlive => silence <= all + Ping + inAge
      BY <2>3, <3>1, Zenon DEF Silent
    <3>3. all \in Nat /\ Ping \in Nat
      <4>1. Ping \in {0, KeepAlive + Period}
        BY SilentNumbers, Zenon
      <4> QED BY <1>2, <4>1, TurnsAdd, TimeAssumption
    <3> HIDE DEF all
    <3>4. /\ s <= all + Ping + KeepAlive + (sinceLoop + 1)
          /\ inAge <= KeepAlive => s <= all + Ping + (inAge + 1)
      BY <1>2, <1>3, <3>2, <3>3
    <3>5. silence' <= all + Ping + KeepAlive + sinceLoop'
      BY <1>3, <2>1, <3>4, Zenon
    <3>6. inAge' <= KeepAlive => silence' <= all + Ping + inAge'
      BY <1>3, <1>5, <1>6, <3>4, Zenon
    <3> QED BY <1>1, <1>4, <2>3, <3>1, <3>5, <3>6, Zenon DEF Silent, all
  <2> QED BY <2>2, <2>3
<1> QED BY <1>1, <1>7, <1>8, <1>9, Zenon DEF TypeOK

LEMMA SilentDie ==
  ASSUME TypeOK, Line, Room, Die
  PROVE  Silent'
<1> DEFINE all == Turns(MaxUnderWay + 1)
           rest == Turns((MaxUnderWay + 1) - Len(toClient))
<1>1. /\ UNCHANGED <<link, pc, toClient, half, pingOutstanding, sinceLoop, inAge>>
      /\ silence' = 0
  BY Zenon DEF Die, Line
<1>2. Slack' = Slack /\ Ping' = Ping /\ rest' = rest /\ all' = all
  BY <1>1, Zenon DEF Slack, Ping, Turns
<1>3. KeepAlive \in Nat /\ sinceLoop \in Nat /\ inAge \in Nat /\ Period \in Nat
  BY TimeAssumption DEF TypeOK, Old
<1>4. Slack \in Nat /\ Ping \in Nat
  <2>1. KeepAlive + Period \in Nat /\ 0 \in Nat
    BY <1>3
  <2> QED BY <1>3, <2>1, Zenon DEF Slack, Ping
<1>5. all \in Nat /\ rest \in Nat
  <2>1. MaxUnderWay + 1 \in Nat /\ (MaxUnderWay + 1) - Len(toClient) \in Nat
    BY ShortQueue, TimeAssumption
  <2> QED BY <2>1, TurnsAdd, Zenon
<1> HIDE DEF all, rest
<1>6. /\ 0 <= inAge /\ 0 <= rest + Slack /\ 0 <= all + Ping + KeepAlive + sinceLoop
      /\ 0 <= all + Ping + inAge
  BY <1>3, <1>4, <1>5
<1> QED BY <1>1, <1>2, <1>6, Zenon DEF Silent, all, rest

LEMMA SilentKept ==
  ASSUME TypeOK, TypeOK', Line, Room, Clocks, Silent, [Next]_vars
  PROVE  Silent'
<1>a. CASE alive /\ ~Die
  <2>1. alive'
    BY <1>a, NextCases, Zenon
       DEF Connect, Write, Disconnect, Cut, ConnectTimeout, LoopGivesUp, ReadRefusal,
           ConnectReads, Loop, ReadConnack, ReadPublish, ReadOther,
           CallbackReturns, Broker, BrokerSends, Rest, Tick, vars
  <2> QED BY <2>1, Zenon DEF Silent
<1>b. CASE Die
  BY <1>b, SilentDie
<1>c. CASE ~alive
  <2>1. CASE Connect
    BY <2>1, Zenon DEF Connect, Silent
  <2>2. CASE Disconnect \/ Cut \/ ConnectTimeout \/ LoopGivesUp \/ ReadRefusal
    <3>1. Stop
      BY <2>2, Zenon DEF Disconnect, Cut, ConnectTimeout, LoopGivesUp, ReadRefusal
    <3>2. "down" # "up"
      OBVIOUS
    <3> QED BY <3>1, <3>2, Zenon DEF Stop, Open, Silent
  <2>3. ASSUME NEW type \in Calls, Write(type) PROVE Silent'
    BY <2>3, SilentSame, Zenon DEF Write
  <2>4. CASE ConnectReads
    <3>1. /\ UNCHANGED <<link, alive, toClient, half, silence, sinceLoop, inAge,
                         pingOutstanding>>
          /\ pc = "connecting" /\ pc' = "reading" /\ Arrived
      BY <2>4, Zenon DEF ConnectReads, timers, wire
    <3>2. silence <= Turns((MaxUnderWay + 1) - Len(toClient)) + Slack \/ ~Open
      <4>1. "connecting" # "reading"
        OBVIOUS
      <4> QED BY <1>c, <3>1, <4>1, Zenon DEF Silent
    <3>3. /\ Slack' = Period /\ Arrived'
          /\ (Turns((MaxUnderWay + 1) - Len(toClient)))'
             = Turns((MaxUnderWay + 1) - Len(toClient))
      BY <3>1, Zenon DEF Slack, Arrived, Turns
    <3>4. Turns((MaxUnderWay + 1) - Len(toClient)) \in Nat
      BY ShortQueue, TurnsAdd
    <3>5. Slack = sinceLoop /\ sinceLoop \in 0 .. Period /\ Period \in Nat
          /\ silence \in Nat
      <4>1. pc # "reading"
        BY <3>1
      <4> QED BY <4>1, SilentNumbers, Zenon
    <3>6. silence <= Turns((MaxUnderWay + 1) - Len(toClient)) + Period \/ ~Open
      BY <3>2, <3>4, <3>5
    <3>7. "reading" # "connecting"
      OBVIOUS
    <3> QED BY <3>1, <3>3, <3>6, <3>7, Zenon DEF Silent, Open
  <2>5. CASE Loop
    BY <1>c, <2>5, SilentLoop
  <2>6. CASE ReadConnack \/ ReadPublish \/ ReadOther
    <3>1. Take /\ UNCHANGED <<link, alive, half, silence, sinceLoop>>
          /\ (pc' = "idle" \/ pc' = "callback")
      BY <2>6, Zenon DEF ReadConnack, ReadPublish, ReadOther, Take
    <3>2. pc' # "reading" /\ pc' # "connecting"
      BY <3>1
    <3> QED BY <1>c, <3>1, <3>2, SilentTake
  <2>7. CASE CallbackReturns
    <3>1. /\ UNCHANGED <<link, alive, toClient, half, silence, sinceLoop, inAge,
                         pingOutstanding>>
          /\ pc = "callback" /\ pc' = "idle"
      BY <2>7, Zenon DEF CallbackReturns
    <3>2. (pc' = "reading" <=> pc = "reading")
          /\ (pc' = "connecting" <=> pc = "connecting")
      BY <3>1
    <3> QED BY <3>1, <3>2, SilentSame, Zenon
  <2>8. CASE Broker \/ Rest
    BY <1>c, <2>8, Zenon DEF Broker, Rest
  <2>9. ASSUME NEW p \in Messages, BrokerSends(p) PROVE Silent'
    BY <1>c, <2>9, Zenon DEF BrokerSends
  <2>10. CASE Tick
    <3>1. CASE Open
      BY <1>c, <2>10, <3>1, SilentTick
    <3>2. CASE ~Open
      BY <2>10, <3>2, Zenon DEF Tick, Open, Silent
    <3> QED BY <3>1, <3>2
  <2>11. CASE UNCHANGED vars
    BY <2>11, SilentSame, Zenon DEF vars, timers, wire
  <2> QED
    BY <1>b, <2>1, <2>2, <2>3, <2>4, <2>5, <2>6, <2>7, <2>8, <2>9, <2>10, <2>11,
       NextCases, Zenon
<1> QED BY <1>a, <1>b, <1>c

\* The invariant of a dead broker, and what follows from it.
DeadInv == TypeOK /\ Line /\ Room /\ Clocks /\ Silent

LEMMA InitDead == Init => DeadInv
<1> SUFFICES ASSUME Init PROVE DeadInv
  OBVIOUS
<1>1. TypeOK
  BY InitInv DEF Inv
<1>2. Line
  BY Zenon DEF Init, Line, Arrived, Open
<1>3. Room
  <2>1. Len(toClient) = 0 /\ Len(toBroker) = 0
    BY DEF Init
  <2>2. PingCount \in Nat /\ AckCount \in Nat
    BY Counts
  <2> QED BY <2>1, <2>2, TimeAssumption DEF Room, UnderWay
<1>4. Clocks
  BY DEF Init, Clocks
<1>5. Silent
  BY Zenon DEF Init, Silent
<1> QED BY <1>1, <1>2, <1>3, <1>4, <1>5 DEF DeadInv

LEMMA DeadKept == DeadInv /\ [Next]_vars => DeadInv'
<1> SUFFICES ASSUME DeadInv, [Next]_vars PROVE DeadInv'
  OBVIOUS
<1>1. TypeOK /\ Line /\ Room /\ Clocks /\ Silent
  BY DEF DeadInv
<1>2. Line' /\ Room' /\ Clocks'
  BY <1>1, LineKept, RoomKept, ClocksKept
<1>3. TypeOK'
  <2>1. TypeOK /\ [Next]_vars => TypeOK'
    BY TypeKept
  <2> QED BY <1>1, <2>1
<1>4. Silent'
  BY <1>1, <1>3, SilentKept
<1> QED BY <1>2, <1>3, <1>4 DEF DeadInv

LEMMA DeadIsNoticed == DeadInv => DeadBrokerNoticed
<1> SUFFICES ASSUME TypeOK, Line, Room, Clocks, Silent, Open, pc # "reading"
             PROVE  silence <= 2 * (KeepAlive + Period) + (MaxUnderWay + 1) * Period
  BY Zenon DEF DeadInv, DeadBrokerNoticed
<1> DEFINE all == Turns(MaxUnderWay + 1)
           rest == Turns((MaxUnderWay + 1) - Len(toClient))
<1>1. /\ silence \in Nat /\ sinceLoop \in 0 .. Period /\ inAge \in 0 .. KeepAlive + 1
      /\ KeepAlive \in Nat /\ Period \in Nat /\ Period >= 1
      /\ Ping \in {0, KeepAlive + Period} /\ Slack = sinceLoop
  BY SilentNumbers, TimeAssumption
<1>2. all \in Nat /\ rest \in Nat /\ rest <= all
  <2>1. /\ MaxUnderWay + 1 \in Nat /\ (MaxUnderWay + 1) - Len(toClient) \in Nat
        /\ (MaxUnderWay + 1) - Len(toClient) <= MaxUnderWay + 1
    BY ShortQueue, TimeAssumption
  <2> QED BY <2>1, TurnsAdd, Zenon
<1>3. all = (MaxUnderWay + 1) * Period
  BY DEF Turns
<1> HIDE DEF all, rest
<1>4. CASE alive
  <2>1. silence = 0
    BY <1>4, Zenon DEF Line
  <2> QED BY <1>1, <1>2, <1>3, <2>1
<1>5. CASE ~alive /\ Arrived
  <2>1. silence <= rest + Slack
    BY <1>5, Zenon DEF Silent, rest
  <2> QED BY <1>1, <1>2, <1>3, <2>1
<1>6. CASE ~alive /\ ~Arrived /\ pc = "connecting"
  <2>1. silence <= inAge
    BY <1>6, Zenon DEF Silent
  <2> QED BY <1>1, <1>2, <1>3, <2>1
<1>7. CASE ~alive /\ ~Arrived /\ pc # "connecting"
  <2>1. silence <= all + Ping + KeepAlive + sinceLoop
    BY <1>7, Zenon DEF Silent, all
  <2>2. Ping <= KeepAlive + Period /\ Ping \in Nat
    BY <1>1
  <2> QED BY <1>1, <1>2, <1>3, <2>1, <2>2
<1> QED BY <1>4, <1>5, <1>6, <1>7

\* A broker that has died is given up within two keep-alive times, the packets
\* it has left and a call of loop() for each, whatever the sketch sends.
THEOREM DeadBrokerIsNoticed == Spec => []DeadBrokerNoticed
BY InitDead, DeadKept, DeadIsNoticed, PTL DEF Spec
-----------------------------------------------------------------------------
(* A live broker: what it is waiting for, and how long ago it was heard.     *)

Accepting ==
    Open /\ alive /\ Handshake =>
      \/ /\ toBroker = <<Pkt("connect", 0)>> /\ ~Arrived /\ pc = "connecting"
         /\ quiet <= lag /\ inAge <= lag
      \/ /\ toBroker = <<>> /\ Arrived
         /\ quiet <= Delay /\ (~Whole => quiet <= lag)

LEMMA LagNumbers ==
  ASSUME TypeOK, Clocks
  PROVE  /\ quiet \in Nat /\ lag \in 0 .. Delay /\ sinceLoop \in 0 .. Period
         /\ inAge \in 0 .. KeepAlive + 1 /\ outAge \in 0 .. KeepAlive + 1
         /\ tAge \in 0 .. KeepAlive + 1
         /\ KeepAlive \in Nat /\ Period \in Nat /\ Delay \in Nat
         /\ QuietCap \in Nat /\ Old = KeepAlive + 1
<1>1. KeepAlive \in Nat /\ Period \in Nat /\ Delay \in Nat
      /\ QuietCap \in Nat /\ Old = KeepAlive + 1
  BY TimeAssumption DEF QuietCap, Old
<1> QED BY <1>1, Zenon DEF TypeOK, Clocks

\* The end of a step in which the client has left connect().
LEMMA NotHandshake ==
  ASSUME pc' \in {"idle", "callback"} \/ (pc' = "reading" /\ reader' = "loop")
  PROVE  ~Handshake'
BY DEF Handshake

\* The broker's queue has what it was, or one packet less with an answer.
LEMMA BrokerDoes ==
  ASSUME TypeOK, Line, Broker
  PROVE  /\ Open /\ alive /\ ~half /\ toBroker # <<>> /\ toBroker' = Tail(toBroker)
         /\ UNCHANGED <<link, alive, pc, reader, pingOutstanding, lost, inAge,
                        outAge, tAge, sinceLoop, quiet, silence>>
         /\ Head(toBroker) \in Packet
         /\ \/ UNCHANGED <<toClient, half>> /\ Answers(Head(toBroker)) = {}
            \/ \E a \in Answers(Head(toBroker)) :
                  /\ toClient' = Append(toClient, a) /\ half' /\ lag' = lag
                  /\ a \in Packet
         /\ toBroker' # <<>> => lag' = lag
<1>1. /\ Open /\ alive /\ ~half /\ toBroker # <<>> /\ toBroker' = Tail(toBroker)
      /\ UNCHANGED <<link, alive, pc, reader, pingOutstanding, lost, inAge,
                     outAge, tAge, sinceLoop, quiet, silence>>
      /\ \/ UNCHANGED <<toClient, half>> /\ Answers(Head(toBroker)) = {}
         \/ \E a \in Answers(Head(toBroker)) :
               toClient' = Append(toClient, a) /\ half' /\ lag' = lag
      /\ toBroker' # <<>> => lag' = lag
  BY Zenon DEF Broker, Begin
<1>2. Head(toBroker) \in Packet
  <2>1. toBroker \in Seq(Packet)
    BY Zenon DEF TypeOK
  <2> QED BY <1>1, <2>1, TailPlaces, Zenon
<1> QED BY <1>1, <1>2, AnswersArePackets, Zenon

\* Waiting for the rest of a packet, the one before the client.
LEMMA WaitsForRest ==
  ASSUME Line, Arrived, ~Whole
  PROVE  half
BY Zenon DEF Line, Whole

LEMMA AcceptingTick ==
  ASSUME TypeOK, Line, Clocks, Accepting, Tick
  PROVE  Accepting'
<1> SUFFICES ASSUME Open, alive, Handshake
             PROVE  Accepting'
  BY Zenon DEF Accepting, Tick, wire, Open, Handshake
<1>1. /\ UNCHANGED <<link, alive, pc, reader, toClient, toBroker, half>>
      /\ quiet' = Up(quiet, QuietCap) /\ inAge' = Up(inAge, Old)
  BY Zenon DEF Tick, wire
<1>2. PICK q \in Nat : q <= quiet + 1 /\ quiet' = q
  BY <1>1, LagNumbers, UpAge
<1>3. PICK a \in Nat : a <= inAge + 1 /\ inAge' = a
  <2>1. inAge \in Nat /\ Old \in Nat
    BY LagNumbers
  <2> QED BY <1>1, <2>1, UpAge, Zenon
<1>4. toBroker # <<>> \/ half => lag < Delay /\ lag' = lag + 1
  BY Zenon DEF Tick
<1>5. /\ quiet \in Nat /\ lag \in 0 .. Delay /\ Delay \in Nat
      /\ inAge \in 0 .. KeepAlive + 1 /\ KeepAlive \in Nat
  BY LagNumbers, Zenon
<1>6. (Arrived' <=> Arrived) /\ (Whole' <=> Whole)
  BY <1>1, Zenon DEF Arrived, Whole
<1>7. CASE toBroker = <<Pkt("connect", 0)>> /\ ~Arrived /\ pc = "connecting"
           /\ quiet <= lag /\ inAge <= lag
  <2>1. toBroker # <<>>
    BY <1>7
  <2>2. q <= lag + 1 /\ a <= lag + 1
    BY <1>2, <1>3, <1>5, <1>7
  <2>3. lag' = lag + 1
    BY <1>4, <2>1, Zenon
  <2> QED BY <1>1, <1>2, <1>3, <1>6, <1>7, <2>2, <2>3, Zenon DEF Accepting
<1>8. CASE toBroker = <<>> /\ Arrived /\ quiet <= Delay /\ (~Whole => quiet <= lag)
  <2>1. pc = "reading" /\ ~Whole
    BY <1>8, Zenon DEF Tick, Handshake
  <2>2. half
    BY <1>8, <2>1, WaitsForRest, Zenon
  <2>3. lag < Delay /\ lag' = lag + 1
    BY <1>4, <2>2, Zenon
  <2>4. quiet <= lag
    BY <1>8, <2>1, Zenon
  <2>5. q <= lag + 1 /\ q <= Delay
    BY <1>2, <1>5, <2>3, <2>4
  <2> QED BY <1>1, <1>2, <1>6, <1>8, <2>3, <2>5, Zenon DEF Accepting
<1> QED BY <1>7, <1>8, Zenon DEF Accepting

LEMMA AcceptingBroker ==
  ASSUME TypeOK, Line, Clocks, Accepting, Broker
  PROVE  Accepting'
<1> SUFFICES ASSUME Handshake PROVE Accepting'
  BY Zenon DEF Accepting, Broker, Handshake
<1>1. /\ Open /\ alive /\ toBroker # <<>> /\ toBroker' = Tail(toBroker)
      /\ quiet' = quiet /\ toClient \in Seq(Packet)
  BY BrokerDoes, Zenon DEF TypeOK
<1>2. /\ toBroker = <<Pkt("connect", 0)>> /\ quiet <= lag
  BY <1>1, Zenon DEF Accepting
<1>3. Head(toBroker) = Pkt("connect", 0) /\ toBroker' = <<>>
  BY <1>1, <1>2
<1>4. Answers(Head(toBroker)) # {}
  <2>1. Head(toBroker).type = "connect"
    BY <1>3 DEF Pkt
  <2>2. Answers(Head(toBroker)) = {Pkt("connack", 0), Pkt("refused", 0)}
    BY <2>1, Zenon DEF Answers
  <2> QED BY <2>2
<1>5. PICK a \in Packet : toClient' = Append(toClient, a) /\ lag' = lag
  BY <1>4, BrokerDoes, Zenon
<1>6. Arrived'
  <2>1. Append(toClient, a) # <<>>
    BY <1>1, QueueLengths
  <2> QED BY <1>5, <2>1, Zenon DEF Arrived
<1>7. quiet <= Delay
  BY <1>2, LagNumbers
<1> QED BY <1>1, <1>2, <1>3, <1>5, <1>6, <1>7, Zenon DEF Accepting

LEMMA AcceptingKept ==
  ASSUME TypeOK, Line, Clocks, Accepting, [Next]_vars
  PROVE  Accepting'
<1>0. "down" # "up"
  OBVIOUS
<1>1. CASE Connect
  <2>1. /\ toClient' = <<>> /\ pc' = "connecting" /\ quiet' = 0 /\ inAge' = 0
        /\ lag' = 0 /\ toBroker' = <<Pkt("connect", 0)>>
    BY <1>1, Zenon DEF Connect, Line
  <2>2. 0 <= 0
    OBVIOUS
  <2> QED BY <2>1, <2>2, Zenon DEF Accepting, Arrived
<1>2. CASE Disconnect \/ Cut \/ ConnectTimeout \/ LoopGivesUp \/ ReadRefusal
  <2>1. Stop
    BY <1>2, Zenon DEF Disconnect, Cut, ConnectTimeout, LoopGivesUp, ReadRefusal
  <2> QED BY <1>0, <2>1, Zenon DEF Stop, Open, Accepting
<1>3. ASSUME NEW type \in Calls, Write(type) PROVE Accepting'
  <2>1. pc' \in {"idle", "callback"}
    BY <1>3, Zenon DEF Write
  <2> QED BY <2>1, NotHandshake, Zenon DEF Accepting
<1>4. CASE ConnectReads
  <2>1. /\ UNCHANGED <<link, alive, toClient, toBroker, half, quiet, lag>>
        /\ pc = "connecting" /\ Arrived
    BY <1>4, Zenon DEF ConnectReads, timers, wire
  <2>2. (Arrived' <=> Arrived) /\ (Whole' <=> Whole)
    BY <2>1, Zenon DEF Arrived, Whole
  <2> QED BY <2>1, <2>2, Zenon DEF Accepting, Handshake, Open
<1>5. CASE Loop
  <2>1. pc' = "idle" \/ (pc' = "reading" /\ reader' = "loop")
    BY <1>5, Zenon DEF Loop
  <2>2. pc' \in {"idle", "callback"} \/ (pc' = "reading" /\ reader' = "loop")
    BY <2>1
  <2> QED BY <2>2, NotHandshake, Zenon DEF Accepting
<1>6. CASE ReadConnack \/ ReadPublish \/ ReadOther \/ CallbackReturns
  <2>1. pc' = "idle" \/ pc' = "callback"
    BY <1>6, Zenon DEF ReadConnack, ReadPublish, ReadOther, CallbackReturns
  <2>2. pc' \in {"idle", "callback"}
    BY <2>1
  <2> QED BY <2>2, NotHandshake, Zenon DEF Accepting
<1>7. CASE Broker
  BY <1>7, AcceptingBroker
<1>8. ASSUME NEW p \in Messages, BrokerSends(p) PROVE Accepting'
  BY <1>8, Zenon DEF BrokerSends, Handshake, Accepting
<1>9. CASE Rest
  <2>1. /\ UNCHANGED <<link, alive, pc, reader, toClient, toBroker, quiet>>
        /\ half /\ ~half'
    BY <1>9, Zenon DEF Rest
  <2>2. Arrived /\ Arrived' /\ Whole'
    BY <2>1, Zenon DEF Line, Arrived, Whole
  <2> QED BY <2>1, <2>2, Zenon DEF Accepting, Handshake, Open
<1>10. CASE Die
  BY <1>10, Zenon DEF Die, Accepting
<1>11. CASE Tick
  BY <1>11, AcceptingTick
<1>12. CASE UNCHANGED vars
  <2>1. UNCHANGED <<link, alive, pc, reader, toClient, toBroker, half, quiet, lag,
                    inAge>>
    BY <1>12, Zenon DEF vars, timers, wire
  <2>2. (Arrived' <=> Arrived) /\ (Whole' <=> Whole)
    BY <2>1, Zenon DEF Arrived, Whole
  <2> QED BY <2>1, <2>2, Zenon DEF Accepting, Handshake, Open
<1> QED
  BY <1>1, <1>2, <1>3, <1>4, <1>5, <1>6, <1>7, <1>8, <1>9, <1>10, <1>11, <1>12,
     NextCases, Zenon

\* What the broker hears from the client: loop() sends a PINGREQ when outAge
\* has run out, and only the wait for the rest of a packet delays loop().
Heard ==
    Open /\ alive =>
      /\ outAge <= KeepAlive => quiet <= outAge
      /\ pc = "reading" /\ ~Whole => quiet <= KeepAlive + lag
      /\ quiet <= (KeepAlive + Delay) + sinceLoop

LEMMA HeardNow ==
  ASSUME TypeOK', quiet' = 0
  PROVE  Heard'
<1>1. /\ \A n \in 0 .. Old : 0 <= n
      /\ \A n \in 0 .. Delay : 0 <= KeepAlive + n
      /\ \A n \in 0 .. Period : 0 <= (KeepAlive + Delay) + n
  BY TimeAssumption DEF Old
<1>2. outAge' \in 0 .. Old /\ lag' \in 0 .. Delay /\ sinceLoop' \in 0 .. Period
  BY Zenon DEF TypeOK
<1> QED BY <1>1, <1>2, Zenon DEF Heard

\* A packet that is read has come whole, or no other comes before its rest.
LEMMA HeardSame ==
  ASSUME Heard, UNCHANGED <<link, alive, outAge, quiet, sinceLoop>>,
         pc' = "reading" => Whole'
  PROVE  Heard'
BY Zenon DEF Heard, Open

LEMMA AppendIsWhole ==
  ASSUME TypeOK, Line, Open, pc = "reading", ~half, NEW p \in Packet,
         toClient' = Append(toClient, p)
  PROVE  Whole'
<1>1. toClient \in Seq(Packet) /\ toClient # <<>>
  BY Zenon DEF TypeOK, Line, Arrived
<1>2. Len(toClient) \in Nat /\ Len(toClient) # 0
      /\ Len(toClient') = Len(toClient) + 1 /\ toClient' # <<>>
  BY <1>1, QueueLengths
<1>3. Len(toClient') # 1
  BY <1>2
<1> QED BY <1>2, <1>3, Zenon DEF Whole, Arrived

LEMMA HeardTick ==
  ASSUME TypeOK, Line, Clocks, Accepting, Heard, Tick, Open, alive
  PROVE  Heard'
<1>1. /\ UNCHANGED <<link, alive, pc, reader, toClient, toBroker, half>>
      /\ quiet' = Up(quiet, QuietCap) /\ outAge' = Up(outAge, Old)
      /\ pc # "callback"
  BY Zenon DEF Tick, wire
<1>2. PICK q \in Nat : q <= quiet + 1 /\ quiet' = q
  BY <1>1, LagNumbers, UpAge
<1>3. /\ quiet \in Nat /\ lag \in 0 .. Delay /\ Delay \in Nat
      /\ outAge \in 0 .. KeepAlive + 1 /\ KeepAlive \in Nat
      /\ sinceLoop \in 0 .. Period /\ Period \in Nat /\ Old = KeepAlive + 1
  BY LagNumbers, Zenon
<1>4. /\ outAge <= KeepAlive => outAge' = outAge + 1
      /\ outAge' <= KeepAlive => outAge <= KeepAlive
  <2>1. /\ outAge <= KeepAlive => Up(outAge, Old) = outAge + 1
        /\ Up(outAge, Old) <= KeepAlive => outAge <= KeepAlive
    BY <1>3 DEF Up
  <2> QED BY <1>1, <2>1, Zenon
<1>5. outAge' <= KeepAlive => quiet' <= outAge'
  <2>1. outAge <= KeepAlive => q <= outAge + 1
    <3>1. outAge <= KeepAlive => quiet <= outAge
      BY Zenon DEF Heard
    <3> QED BY <1>2, <1>3, <3>1
  <2> QED BY <1>2, <1>4, <2>1, Zenon
<1>6. toBroker # <<>> \/ half => lag < Delay /\ lag' = lag + 1
  BY Zenon DEF Tick
<1>7. Whole' <=> Whole
  BY <1>1, Zenon DEF Arrived, Whole
<1>8. CASE pc = "idle"
  <2>1. sinceLoop' = sinceLoop + 1
    BY <1>8, Zenon DEF Tick
  <2>2. q <= (KeepAlive + Delay) + (sinceLoop + 1)
    <3>1. quiet <= (KeepAlive + Delay) + sinceLoop
      BY Zenon DEF Heard
    <3> QED BY <1>2, <1>3, <3>1
  <2>3. pc # "reading"
    BY <1>8
  <2> QED BY <1>1, <1>2, <1>5, <2>1, <2>2, <2>3, Zenon DEF Heard
<1>9. CASE pc = "reading"
  <2>1. half
    <3>1. Arrived /\ ~Whole
      BY <1>9, Zenon DEF Tick, Line
    <3> QED BY <3>1, WaitsForRest
  <2>2. lag < Delay /\ lag' = lag + 1 /\ sinceLoop' = 0
    <3>1. pc # "idle"
      BY <1>9
    <3> QED BY <2>1, <1>6, <3>1, Zenon DEF Tick
  <2>3. quiet <= KeepAlive + lag
    BY <1>9, Zenon DEF Heard, Tick
  <2>4. q <= KeepAlive + (lag + 1) /\ q <= (KeepAlive + Delay) + 0
    BY <1>2, <1>3, <2>2, <2>3
  <2> QED BY <1>2, <1>5, <2>2, <2>4, Zenon DEF Heard
<1>10. CASE pc = "connecting"
  <2>1. ~Arrived /\ toBroker = <<Pkt("connect", 0)>> /\ quiet <= lag
    BY <1>10, Zenon DEF Tick, Accepting, Handshake
  <2>2. toBroker # <<>> /\ pc # "idle" /\ pc # "reading"
    BY <1>10, <2>1
  <2>3. lag < Delay /\ sinceLoop' = 0
    BY <1>6, <2>2, Zenon DEF Tick
  <2>4. q <= (KeepAlive + Delay) + 0
    BY <1>2, <1>3, <2>1, <2>3
  <2> QED BY <1>1, <1>2, <1>5, <2>2, <2>3, <2>4, Zenon DEF Heard
<1> QED BY <1>1, <1>8, <1>9, <1>10, Zenon DEF TypeOK

LEMMA HeardLoop ==
  ASSUME TypeOK, TypeOK', Clocks, Heard, Loop, Open, alive
  PROVE  Heard'
<1>1. CASE Expired
  <2>1. quiet' = 0
    BY <1>1, Zenon DEF Loop, Send
  <2> QED BY <2>1, HeardNow
<1>2. CASE ~Expired
  <2>1. /\ UNCHANGED <<link, alive, quiet, outAge, lag>> /\ sinceLoop' = 0
    BY <1>2, Zenon DEF Loop
  <2>2. /\ quiet \in Nat /\ lag \in 0 .. Delay /\ Delay \in Nat
        /\ outAge \in 0 .. KeepAlive + 1 /\ KeepAlive \in Nat
    BY LagNumbers, Zenon
  <2>3. outAge <= KeepAlive
    BY <1>2, <2>2 DEF Expired
  <2>4. quiet <= outAge
    BY <2>3, Zenon DEF Heard
  <2>5. quiet <= KeepAlive + lag /\ quiet <= (KeepAlive + Delay) + 0
    BY <2>2, <2>3, <2>4
  <2> QED BY <2>1, <2>4, <2>5, Zenon DEF Heard
<1> QED BY <1>1, <1>2

LEMMA HeardKept ==
  ASSUME TypeOK, TypeOK', Line, Clocks, Accepting, Heard, [Next]_vars
  PROVE  Heard'
<1>0. "down" # "up" /\ "idle" # "reading" /\ "callback" # "reading"
  OBVIOUS
<1>1. CASE Connect
  <2>1. quiet' = 0
    BY <1>1, Zenon DEF Connect
  <2> QED BY <2>1, HeardNow
<1>2. CASE Disconnect \/ Cut \/ ConnectTimeout \/ LoopGivesUp \/ ReadRefusal
  <2>1. Stop
    BY <1>2, Zenon DEF Disconnect, Cut, ConnectTimeout, LoopGivesUp, ReadRefusal
  <2> QED BY <1>0, <2>1, Zenon DEF Stop, Open, Heard
<1>3. ASSUME NEW type \in Calls, Write(type) PROVE Heard'
  <2>1. quiet' = 0
    BY <1>3, Zenon DEF Write, Send
  <2> QED BY <2>1, HeardNow
<1>4. CASE ConnectReads
  <2>1. /\ UNCHANGED <<link, alive, toClient, toBroker, half, quiet, lag, outAge,
                       sinceLoop>>
        /\ pc = "connecting" /\ Arrived
    BY <1>4, Zenon DEF ConnectReads, timers, wire
  <2>2. Whole' <=> Whole
    BY <2>1, Zenon DEF Arrived, Whole
  <2>3. Open /\ alive /\ ~Whole => quiet <= lag
    BY <2>1, Zenon DEF Accepting, Handshake
  <2>4. Open /\ alive /\ ~Whole => quiet <= KeepAlive + lag
    <3>1. quiet <= lag => quiet <= KeepAlive + lag
      <4>1. quiet \in Nat /\ lag \in 0 .. Delay /\ Delay \in Nat /\ KeepAlive \in Nat
        BY LagNumbers, Zenon
      <4> QED BY <4>1
    <3> QED BY <2>3, <3>1, Zenon
  <2> QED BY <2>1, <2>2, <2>4, Zenon DEF Heard, Open
<1>5. CASE Loop
  <2>1. CASE alive
    <3>1. Open
      BY <1>5, Zenon DEF Loop
    <3> QED BY <1>5, <2>1, <3>1, HeardLoop
  <2>2. CASE ~alive
    BY <1>5, <2>2, Zenon DEF Loop, Heard
  <2> QED BY <2>1, <2>2
<1>6. CASE ReadConnack \/ ReadPublish \/ ReadOther
  <2>1. /\ UNCHANGED <<link, alive, outAge, sinceLoop>>
        /\ pc' = "idle" \/ pc' = "callback"
        /\ quiet' = quiet \/ quiet' = 0
    BY <1>6, Zenon DEF ReadConnack, ReadPublish, ReadOther, Send
  <2>2. pc' # "reading"
    BY <2>1
  <2> QED BY <2>1, <2>2, HeardSame, HeardNow, Zenon
<1>7. CASE CallbackReturns
  <2>1. CASE quiet' = 0
    BY <2>1, HeardNow
  <2>2. CASE quiet' # 0
    <3>1. /\ UNCHANGED <<link, alive, quiet, sinceLoop>> /\ pc' = "idle"
          /\ outAge' = outAge \/ ~Open
      BY <1>7, <2>2, Zenon DEF CallbackReturns, Send
    <3> QED BY <1>0, <3>1, HeardSame, Zenon DEF Open, Heard
  <2> QED BY <2>1, <2>2
<1>8. CASE Broker
  <2>1. UNCHANGED <<link, alive, outAge, quiet, sinceLoop, pc>>
    BY <1>8, BrokerDoes, Zenon
  <2>2. ASSUME pc = "reading" PROVE Whole'
    <3>1. Open /\ ~half
      BY <1>8, BrokerDoes, Zenon
    <3>2. CASE UNCHANGED <<toClient, half>>
      BY <2>2, <3>1, <3>2, Zenon DEF Line, Whole, Arrived
    <3>3. ASSUME NEW a \in Packet, toClient' = Append(toClient, a) PROVE Whole'
      BY <2>2, <3>1, <3>3, AppendIsWhole
    <3> QED BY <1>8, <3>2, <3>3, BrokerDoes, Zenon
  <2> QED BY <2>1, <2>2, HeardSame, Zenon
<1>9. ASSUME NEW p \in Messages, BrokerSends(p) PROVE Heard'
  <2>1. /\ UNCHANGED <<link, alive, outAge, quiet, sinceLoop, pc>>
        /\ Open /\ ~half /\ toClient' = Append(toClient, p) /\ p \in Packet
    BY <1>9, TypedPackets, Zenon DEF BrokerSends, Begin, timers
  <2>2. pc = "reading" => Whole'
    BY <2>1, AppendIsWhole
  <2> QED BY <2>1, <2>2, HeardSame, Zenon
<1>10. CASE Rest
  <2>1. /\ UNCHANGED <<link, alive, pc, toClient, outAge, quiet, sinceLoop>>
        /\ half /\ ~half'
    BY <1>10, Zenon DEF Rest
  <2>2. Whole'
    BY <2>1, Zenon DEF Line, Arrived, Whole
  <2> QED BY <2>1, <2>2, HeardSame, Zenon
<1>11. CASE Die
  BY <1>11, Zenon DEF Die, Heard
<1>12. CASE Tick
  <2>1. CASE Open /\ alive
    BY <1>12, <2>1, HeardTick
  <2>2. CASE ~(Open /\ alive)
    BY <1>12, <2>2, Zenon DEF Tick, Heard, Open
  <2> QED BY <2>1, <2>2
<1>13. CASE UNCHANGED vars
  <2>1. UNCHANGED <<link, alive, pc, toClient, half, quiet, lag, outAge, sinceLoop>>
    BY <1>13, Zenon DEF vars, timers, wire
  <2>2. Whole' <=> Whole
    BY <2>1, Zenon DEF Arrived, Whole
  <2> QED BY <2>1, <2>2, Zenon DEF Heard, Open
<1> QED
  BY <1>1, <1>2, <1>3, <1>4, <1>5, <1>6, <1>7, <1>8, <1>9, <1>10, <1>11, <1>12,
     <1>13, NextCases, Zenon
-----------------------------------------------------------------------------
(* The answer to a PINGREQ is on its way, and the ages are no greater than   *)
(* its way so far: until it has come whole, the time the broker has been     *)
(* about it; then one call of loop() for each packet before it.              *)

Ages(n) == inAge <= n /\ outAge <= n /\ tAge <= n
HasPing(r) == \E i \in DOMAIN r : r[i].type = "pingreq"

Asked == HasPing(toBroker) /\ Ages(lag)

Begun ==
    /\ half /\ Arrived
    /\ toClient[Len(toClient)].type = "pingresp" /\ Ages(lag)

ComesAt(i) == (Delay + Turns((MaxUnderWay + 1) - i)) + Slack

Came == \E i \in 1 .. Len(toClient) :
           /\ toClient[i].type = "pingresp" /\ (half => i < Len(toClient))
           /\ Ages(ComesAt(i))

Awaited ==
    Open /\ alive /\ pingOutstanding /\ ~Handshake => Asked \/ Begun \/ Came

LEMMA AppendPing ==
  ASSUME NEW r \in Seq(Packet), NEW p \in Packet
  PROVE  /\ HasPing(r) => HasPing(Append(r, p))
         /\ p.type = "pingreq" => HasPing(Append(r, p))
<1>1. \A i \in DOMAIN r : i \in DOMAIN Append(r, p) /\ Append(r, p)[i] = r[i]
  OBVIOUS
<1>2. Len(r) + 1 \in DOMAIN Append(r, p) /\ Append(r, p)[Len(r) + 1] = p
  OBVIOUS
<1> QED BY <1>1, <1>2 DEF HasPing

LEMMA NoPing == ~HasPing(<<>>)
BY DEF HasPing

LEMMA TailPing ==
  ASSUME NEW r \in Seq(Packet), r # <<>>, Head(r).type # "pingreq", HasPing(r)
  PROVE  HasPing(Tail(r)) /\ Tail(r) # <<>>
<1>1. PICK i \in 1 .. Len(r) : r[i].type = "pingreq"
  BY DEF HasPing
<1>2. i # 1
  BY <1>1
<1>3. i - 1 \in DOMAIN Tail(r) /\ Tail(r)[i - 1] = r[i]
  BY <1>1, <1>2
<1>4. HasPing(Tail(r))
  BY <1>1, <1>3 DEF HasPing
<1> QED BY <1>4, NoPing, Zenon

\* No step of the program but the clock's makes an age greater.
LEMMA AgesStay ==
  ASSUME NEW n \in Nat, Ages(n),
         inAge' = 0 \/ inAge' = inAge \/ inAge' = tAge,
         outAge' = 0 \/ outAge' = outAge \/ outAge' = tAge,
         tAge' = 0 \/ tAge' = tAge
  PROVE  inAge' <= n /\ outAge' <= n /\ tAge' <= n
<1>1. 0 <= n
  OBVIOUS
<1> QED BY <1>1, Zenon DEF Ages

LEMMA AgesGrow ==
  ASSUME TypeOK, NEW n \in Nat, NEW m \in Nat, Ages(n), n <= m
  PROVE  Ages(m)
<1>1. \A age \in 0 .. Old : age <= n => age <= m
  BY TimeAssumption DEF Old
<1> QED BY <1>1, Zenon DEF TypeOK, Ages

LEMMA AgesTick ==
  ASSUME TypeOK, Tick, NEW n \in Nat, Ages(n)
  PROVE  inAge' <= n + 1 /\ outAge' <= n + 1 /\ tAge' <= n + 1
<1>1. Old \in Nat
  BY TimeAssumption DEF Old
<1>2. \A age \in 0 .. Old : age <= n => Up(age, Old) <= n + 1
  BY <1>1 DEF Up
<1>3. 0 <= n + 1
  OBVIOUS
<1> QED BY <1>2, <1>3, Zenon DEF TypeOK, Ages, Tick

\* Where the answer comes, as numbers.
LEMMA ComesNumbers ==
  ASSUME TypeOK, Room, NEW i \in 1 .. Len(toClient)
  PROVE  /\ Slack \in Nat /\ lag \in Nat /\ lag <= Delay /\ Delay \in Nat
         /\ Turns((MaxUnderWay + 1) - i) \in Nat /\ ComesAt(i) \in Nat
         /\ (MaxUnderWay + 1) - i \in Nat
<1>1. /\ lag \in Nat /\ lag <= Delay /\ Delay \in Nat /\ Period \in Nat
      /\ sinceLoop \in Nat
  BY TimeAssumption DEF TypeOK
<1>2. Slack \in Nat
  BY <1>1, Zenon DEF Slack
<1>3. (MaxUnderWay + 1) - i \in Nat
  BY ShortQueue, TimeAssumption
<1>4. Turns((MaxUnderWay + 1) - i) \in Nat
  BY <1>3, TurnsAdd
<1> QED BY <1>1, <1>2, <1>3, <1>4 DEF ComesAt

LEMMA PlacesOfTail ==
  ASSUME NEW q \in Seq(Packet), q # <<>>, NEW i \in 1 .. Len(q), i # 1
  PROVE  /\ i - 1 \in 1 .. Len(Tail(q)) /\ Tail(q)[i - 1] = q[i]
         /\ i < Len(q) => i - 1 < Len(Tail(q))
         /\ i = Len(q) => i - 1 = Len(Tail(q))
OBVIOUS

\* A step that leaves the connection and the broker's part of it alone.
LEMMA AwaitedSame ==
  ASSUME TypeOK, Room, Awaited,
         UNCHANGED <<link, alive, toClient, half, lag>>,
         Slack' = Slack \/ (Slack' = Period /\ Slack = sinceLoop),
         pingOutstanding' => pingOutstanding,
         Handshake => Handshake',
         HasPing(toBroker) => HasPing(toBroker'),
         inAge' = 0 \/ inAge' = inAge \/ inAge' = tAge,
         outAge' = 0 \/ outAge' = outAge \/ outAge' = tAge,
         tAge' = 0 \/ tAge' = tAge
  PROVE  Awaited'
<1> SUFFICES ASSUME Open, alive, pingOutstanding, ~Handshake
             PROVE  Awaited'
  BY Zenon DEF Awaited, Open
<1>1. CASE Asked
  <2>1. lag \in Nat
    BY LagNumbers DEF TypeOK
  <2>2. HasPing(toBroker) /\ Ages(lag)
    BY <1>1, Zenon DEF Asked
  <2>3. inAge' <= lag /\ outAge' <= lag /\ tAge' <= lag
    BY <2>1, <2>2, AgesStay
  <2> QED BY <2>2, <2>3, Zenon DEF Awaited, Asked, Ages
<1>2. CASE Begun
  <2>1. lag \in Nat
    BY DEF TypeOK
  <2>2. half /\ Arrived /\ toClient[Len(toClient)].type = "pingresp" /\ Ages(lag)
    BY <1>2, Zenon DEF Begun
  <2>3. inAge' <= lag /\ outAge' <= lag /\ tAge' <= lag
    BY <2>1, <2>2, AgesStay
  <2> QED BY <2>2, <2>3, Zenon DEF Awaited, Begun, Ages, Arrived
<1>3. CASE Came
  <2>1. PICK i \in 1 .. Len(toClient) :
           /\ toClient[i].type = "pingresp" /\ (half => i < Len(toClient))
           /\ Ages(ComesAt(i))
    BY <1>3, Zenon DEF Came
  <2> DEFINE turns == Turns((MaxUnderWay + 1) - i)
  <2>2. /\ Slack \in Nat /\ Delay \in Nat /\ turns \in Nat
        /\ sinceLoop \in 0 .. Period /\ Period \in Nat
    BY ComesNumbers, TimeAssumption DEF TypeOK
  <2>3. PICK s \in Nat : Slack' = s /\ Slack <= s
    BY <2>2
  <2> HIDE DEF turns
  <2>4. /\ (Delay + turns) + Slack \in Nat /\ (Delay + turns) + s \in Nat
        /\ (Delay + turns) + Slack <= (Delay + turns) + s
    BY <2>2, <2>3
  <2>5. Ages((Delay + turns) + Slack)
    BY <2>1, Zenon DEF ComesAt, turns
  <2>6. Ages((Delay + turns) + s)
    BY <2>4, <2>5, AgesGrow
  <2>7. /\ inAge' <= (Delay + turns) + s /\ outAge' <= (Delay + turns) + s
        /\ tAge' <= (Delay + turns) + s
    BY <2>4, <2>6, AgesStay
  <2>8. (Delay + turns)' = Delay + turns
    BY Zenon DEF turns, Turns
  <2>9. ComesAt(i)' = (Delay + turns) + s
    BY <2>3, <2>8, Zenon DEF ComesAt, turns
  <2> QED BY <2>1, <2>7, <2>9, Zenon DEF Awaited, Came, Ages
<1> QED BY <1>1, <1>2, <1>3, Zenon DEF Awaited

\* A packet before the answer is taken, and the next call of loop() is nearer.
LEMMA AwaitedTake ==
  ASSUME TypeOK, Line, Room, Awaited, ReadPublish \/ ReadOther
  PROVE  Awaited'
<1>1. /\ Take /\ reader = "loop" /\ (pc' = "idle" \/ pc' = "callback")
      /\ UNCHANGED <<link, alive, half, lag, sinceLoop, tAge, outAge>>
      /\ inAge' = inAge \/ inAge' = tAge
      /\ toBroker' = toBroker \/ Send(Pkt("pingresp", 0))
      /\ pingOutstanding' => pingOutstanding
      /\ pingOutstanding' => Head(toClient).type # "pingresp"
  <2>1. Take /\ reader = "loop" /\ (pc' = "idle" \/ pc' = "callback")
        /\ UNCHANGED <<link, alive, half, lag, sinceLoop, tAge, outAge>>
    BY Zenon DEF ReadPublish, ReadOther
  <2>2. CASE ReadPublish
    <3>1. "publish" # "pingresp"
      OBVIOUS
    <3> QED BY <2>1, <2>2, <3>1, Zenon DEF ReadPublish
  <2>3. CASE ReadOther
    BY <2>1, <2>3, Zenon DEF ReadOther
  <2> QED BY <2>2, <2>3
<1>2. /\ pc = "reading" /\ toClient # <<>> /\ toClient' = Tail(toClient)
      /\ toClient \in Seq(Packet) /\ (half => toClient' # <<>>)
  BY <1>1, TakeLeaves, Zenon DEF TypeOK
<1>3. ~Handshake
  <2>1. "loop" # "connect" /\ "reading" # "connecting"
    OBVIOUS
  <2> QED BY <1>1, <1>2, <2>1, Zenon DEF Handshake
<1>4. HasPing(toBroker) => HasPing(toBroker')
  <2>1. Pkt("pingresp", 0) \in Packet
    BY TypedPackets DEF Types
  <2> QED BY <1>1, <2>1, AppendPing, Zenon DEF Send, TypeOK
<1>5. SUFFICES ASSUME Open, alive, pingOutstanding'
               PROVE  Awaited'
  BY <1>1, Zenon DEF Awaited, Open
<1>6. CASE Asked
  <2>1. lag \in Nat
    BY DEF TypeOK
  <2>2. HasPing(toBroker) /\ Ages(lag)
    BY <1>6, Zenon DEF Asked
  <2>3. inAge' <= lag /\ outAge' <= lag /\ tAge' <= lag
    BY <1>1, <2>1, <2>2, AgesStay
  <2> QED BY <1>1, <1>4, <2>2, <2>3, Zenon DEF Awaited, Asked, Ages
<1>7. CASE Begun
  <2>1. lag \in Nat
    BY DEF TypeOK
  <2>2. half /\ toClient[Len(toClient)].type = "pingresp" /\ Ages(lag)
    BY <1>7, Zenon DEF Begun
  <2>3. inAge' <= lag /\ outAge' <= lag /\ tAge' <= lag
    BY <1>1, <2>1, <2>2, AgesStay
  <2>4. toClient' # <<>>
    BY <1>2, <2>2, Zenon
  <2>5. toClient'[Len(toClient')] = toClient[Len(toClient)]
    BY <1>2, <2>4
  <2> QED BY <1>1, <2>2, <2>3, <2>4, <2>5, Zenon DEF Awaited, Begun, Ages, Arrived
<1>8. CASE Came
  <2>1. PICK i \in 1 .. Len(toClient) :
           /\ toClient[i].type = "pingresp" /\ (half => i < Len(toClient))
           /\ Ages(ComesAt(i))
    BY <1>8, Zenon DEF Came
  <2>2. i # 1
    <3>1. i = 1 => Head(toClient) = toClient[i]
      BY <1>2
    <3> QED BY <1>1, <1>5, <2>1, <3>1, Zenon
  <2>3. /\ i - 1 \in 1 .. Len(toClient') /\ toClient'[i - 1] = toClient[i]
        /\ i < Len(toClient) => i - 1 < Len(toClient')
    BY <1>2, <2>2, PlacesOfTail
  <2>4. PICK n \in Nat : n = ComesAt(i)
    BY ComesNumbers
  <2>5. Slack = Period /\ sinceLoop = 0
    <3>1. pc # "idle"
      BY <1>2
    <3> QED BY <1>2, <3>1, Zenon DEF Slack, Line
  <2>6. Slack' = 0
    <3>1. pc' # "reading"
      BY <1>1
    <3> QED BY <1>1, <2>5, <3>1, Zenon DEF Slack
  <2>7. n = (Delay + Turns((MaxUnderWay + 1) - (i - 1))) + 0
    <3>1. /\ (MaxUnderWay + 1) - i \in Nat /\ Turns((MaxUnderWay + 1) - i) \in Nat
          /\ Delay \in Nat
      BY ComesNumbers
    <3>2. (MaxUnderWay + 1) - (i - 1) = ((MaxUnderWay + 1) - i) + 1
      BY TimeAssumption
    <3>3. Turns((MaxUnderWay + 1) - (i - 1))
          = Turns((MaxUnderWay + 1) - i) + Period
      BY <3>1, <3>2, TurnsAdd
    <3> QED BY <2>4, <2>5, <3>1, <3>3, TimeAssumption DEF ComesAt
  <2>8. inAge' <= n /\ outAge' <= n /\ tAge' <= n
    BY <1>1, <2>1, <2>4, AgesStay
  <2>9. \A j : ComesAt(j)' = (Delay + Turns((MaxUnderWay + 1) - j)) + 0
    BY <2>6, Zenon DEF ComesAt, Turns
  <2>10. n = ComesAt(i - 1)'
    BY <2>7, <2>9, Zenon
  <2> HIDE DEF ComesAt
  <2> QED BY <1>1, <2>1, <2>3, <2>8, <2>10, Zenon DEF Awaited, Came, Ages
<1> QED BY <1>1, <1>3, <1>5, <1>6, <1>7, <1>8, Zenon DEF Awaited

LEMMA AnswerToPing ==
  ASSUME NEW p, p.type = "pingreq", NEW a \in Answers(p)
  PROVE  a.type = "pingresp"
<1>1. Answers(p) = {Pkt("pingresp", 0)}
  BY Zenon DEF Answers
<1> QED BY <1>1 DEF Pkt

\* Another packet is begun behind those under way.
LEMMA CameAppend ==
  ASSUME TypeOK, Room, Came, ~half, NEW p \in Packet,
         \/ UNCHANGED <<toClient, half>>
         \/ toClient' = Append(toClient, p),
         UNCHANGED <<pc, sinceLoop, inAge, outAge, tAge>>
  PROVE  Came'
<1>1. PICK i \in 1 .. Len(toClient) :
         toClient[i].type = "pingresp" /\ Ages(ComesAt(i))
  BY Zenon DEF Came
<1>2. ComesAt(i)' = ComesAt(i)
  BY Zenon DEF ComesAt, Turns, Slack
<1>3. CASE UNCHANGED <<toClient, half>>
  BY <1>1, <1>2, <1>3, Zenon DEF Came, Ages
<1>4. CASE toClient' = Append(toClient, p)
  <2>1. toClient \in Seq(Packet)
    BY Zenon DEF TypeOK
  <2>2. i \in 1 .. Len(toClient') /\ toClient'[i] = toClient[i] /\ i < Len(toClient')
    BY <1>4, <2>1
  <2> QED BY <1>1, <1>2, <2>2, Zenon DEF Came, Ages
<1> QED BY <1>3, <1>4

LEMMA AwaitedBroker ==
  ASSUME TypeOK, Line, Room, Awaited, Broker
  PROVE  Awaited'
<1>1. /\ ~half /\ toBroker # <<>> /\ toBroker' = Tail(toBroker)
      /\ UNCHANGED <<link, alive, pc, reader, pingOutstanding, inAge, outAge, tAge,
                     sinceLoop>>
      /\ toBroker \in Seq(Packet) /\ toClient \in Seq(Packet)
      /\ toBroker' # <<>> => lag' = lag
  BY BrokerDoes, Zenon DEF TypeOK
<1>2. SUFFICES ASSUME Open, alive, pingOutstanding, ~Handshake PROVE Awaited'
  BY <1>1, Zenon DEF Awaited, Open, Handshake
<1>3. CASE Asked /\ Head(toBroker).type # "pingreq"
  <2>1. HasPing(toBroker) /\ Ages(lag)
    BY <1>3, Zenon DEF Asked
  <2>2. HasPing(toBroker') /\ toBroker' # <<>>
    BY <1>1, <1>3, <2>1, TailPing, Zenon
  <2> QED BY <1>1, <2>1, <2>2, Zenon DEF Awaited, Asked, Ages
<1>4. CASE Asked /\ Head(toBroker).type = "pingreq"
  <2>1. Answers(Head(toBroker)) # {}
    <3>1. Answers(Head(toBroker)) = {Pkt("pingresp", 0)}
      BY <1>4, Zenon DEF Answers
    <3> QED BY <3>1
  <2>2. PICK a \in Answers(Head(toBroker)) :
          toClient' = Append(toClient, a) /\ half' /\ lag' = lag /\ a \in Packet
    BY <2>1, BrokerDoes, Zenon
  <2>3. a.type = "pingresp"
    BY <1>4, AnswerToPing
  <2>4. toClient' # <<>> /\ toClient'[Len(toClient')] = a
    BY <1>1, <2>2
  <2>5. Ages(lag)
    BY <1>4, Zenon DEF Asked
  <2> QED BY <1>1, <2>2, <2>3, <2>4, <2>5, Zenon DEF Awaited, Begun, Ages, Arrived
<1>5. CASE Came
  <2>1. \E p \in Packet : \/ UNCHANGED <<toClient, half>>
                          \/ toClient' = Append(toClient, p)
    BY BrokerDoes, Zenon
  <2>2. Came'
    BY <1>1, <1>5, <2>1, CameAppend
  <2> QED BY <2>2, Zenon DEF Awaited
<1>6. ~Begun
  BY <1>1, Zenon DEF Begun
<1> QED BY <1>2, <1>3, <1>4, <1>5, <1>6, Zenon DEF Awaited

LEMMA AwaitedSends ==
  ASSUME TypeOK, Line, Room, Awaited, NEW p \in Messages, BrokerSends(p)
  PROVE  Awaited'
<1>1. /\ ~half /\ toClient' = Append(toClient, p) /\ p \in Packet
      /\ UNCHANGED <<link, alive, pc, reader, pingOutstanding, toBroker, timers>>
  BY TypedPackets, Zenon DEF BrokerSends, Begin
<1>2. UNCHANGED <<inAge, outAge, tAge, sinceLoop, lag>>
  BY <1>1, Zenon DEF timers
<1>3. CASE Asked
  BY <1>1, <1>2, <1>3, Zenon DEF Asked, Awaited, Ages
<1>4. CASE Came
  <2>1. Came'
    BY <1>1, <1>2, <1>4, CameAppend
  <2> QED BY <2>1, Zenon DEF Awaited
<1>5. ~Begun
  BY <1>1, Zenon DEF Begun
<1> QED BY <1>1, <1>3, <1>4, <1>5, Zenon DEF Awaited, Open, Handshake

\* The rest of the answer comes in the time the broker may take.
LEMMA AwaitedRest ==
  ASSUME TypeOK, Line, Room, Awaited, Rest
  PROVE  Awaited'
<1>1. /\ half /\ ~half'
      /\ UNCHANGED <<link, alive, pc, reader, pingOutstanding, toClient, toBroker,
                     inAge, outAge, tAge, sinceLoop>>
      /\ toBroker # <<>> => lag' = lag
  BY Zenon DEF Rest
<1>2. \A i : ComesAt(i)' = ComesAt(i)
  BY <1>1, Zenon DEF ComesAt, Turns, Slack
<1>3. CASE Asked
  <2>1. toBroker # <<>>
    BY <1>3, NoPing, Zenon DEF Asked
  <2> QED BY <1>1, <1>3, <2>1, Zenon DEF Asked, Awaited, Ages
<1>4. CASE Begun
  <2> DEFINE i == Len(toClient)
  <2>1. i \in 1 .. Len(toClient)
    BY <1>4, QueueLengths DEF Begun, Arrived, TypeOK
  <2>2. /\ Slack \in Nat /\ lag \in Nat /\ lag <= Delay /\ Delay \in Nat
        /\ Turns((MaxUnderWay + 1) - i) \in Nat /\ ComesAt(i) \in Nat
    BY <2>1, ComesNumbers
  <2>3. lag <= ComesAt(i)
    <3> HIDE DEF i
    <3> QED BY <2>2 DEF ComesAt
  <2>4. Ages(ComesAt(i))
    <3>1. Ages(lag)
      BY <1>4, Zenon DEF Begun
    <3> QED BY <2>2, <2>3, <3>1, AgesGrow
  <2>5. toClient[i].type = "pingresp"
    BY <1>4, Zenon DEF Begun
  <2> QED BY <1>1, <1>2, <2>1, <2>4, <2>5, Zenon DEF Came, Awaited, Ages
<1>5. CASE Came
  BY <1>1, <1>2, <1>5, Zenon DEF Came, Awaited, Ages
<1> QED BY <1>1, <1>3, <1>4, <1>5, Zenon DEF Awaited, Open, Handshake

\* A unit of time: the broker is that much longer about it, or the sketch.
LEMMA AwaitedTick ==
  ASSUME TypeOK, Line, Room, Awaited, Tick
  PROVE  Awaited'
<1>1. UNCHANGED <<link, alive, pc, reader, pingOutstanding, toClient, toBroker, half>>
  BY Zenon DEF Tick, wire
<1>2. SUFFICES ASSUME Open, alive, pingOutstanding, ~Handshake PROVE Awaited'
  BY <1>1, Zenon DEF Awaited, Open, Handshake
<1>3. toBroker # <<>> \/ half => lag' = lag + 1
  BY <1>2, Zenon DEF Tick
<1>4. lag \in Nat
  BY DEF TypeOK
<1>5. CASE Asked
  <2>1. toBroker # <<>> /\ Ages(lag)
    BY <1>5, NoPing, Zenon DEF Asked
  <2>2. inAge' <= lag + 1 /\ outAge' <= lag + 1 /\ tAge' <= lag + 1
    BY <1>4, <2>1, AgesTick
  <2> QED BY <1>1, <1>3, <1>5, <2>1, <2>2, Zenon DEF Awaited, Asked, Ages
<1>6. CASE Begun
  <2>1. half /\ Ages(lag)
    BY <1>6, Zenon DEF Begun
  <2>2. inAge' <= lag + 1 /\ outAge' <= lag + 1 /\ tAge' <= lag + 1
    BY <1>4, <2>1, AgesTick
  <2> QED BY <1>1, <1>3, <1>6, <2>1, <2>2, Zenon DEF Awaited, Begun, Ages, Arrived
<1>7. CASE Came
  <2>1. PICK i \in 1 .. Len(toClient) :
           /\ toClient[i].type = "pingresp" /\ (half => i < Len(toClient))
           /\ Ages(ComesAt(i))
    BY <1>7, Zenon DEF Came
  <2>2. pc = "idle"
    <3>1. pc = "reading" => half /\ Len(toClient) = 1
      <4>1. pc = "reading" => ~Whole /\ Arrived
        BY <1>2, Zenon DEF Tick, Line
      <4> QED BY <4>1, Zenon DEF Whole
    <3>2. ~(Len(toClient) = 1 /\ i < Len(toClient))
      <4>1. \A n : n = 1 => \A j \in 1 .. n : ~(j < n)
        OBVIOUS
      <4> QED BY <2>1, <4>1, Zenon
    <3>3. pc # "reading"
      BY <2>1, <3>1, <3>2, Zenon
    <3> QED BY <1>2, <3>3, Zenon DEF TypeOK, Tick, Handshake
  <2>3. Slack = sinceLoop /\ Slack' = sinceLoop + 1
    <3>1. "idle" # "reading"
      OBVIOUS
    <3> QED BY <1>1, <1>2, <2>2, <3>1, Zenon DEF Slack, Tick
  <2>4. PICK n \in Nat : n = ComesAt(i)
    BY <2>1, ComesNumbers
  <2>5. inAge' <= n + 1 /\ outAge' <= n + 1 /\ tAge' <= n + 1
    BY <2>1, <2>4, AgesTick
  <2>6. n + 1 = (Delay + Turns((MaxUnderWay + 1) - i)) + (sinceLoop + 1)
    <3>1. /\ Slack \in Nat /\ Delay \in Nat
          /\ Turns((MaxUnderWay + 1) - i) \in Nat
      BY <2>1, ComesNumbers
    <3> QED BY <2>3, <2>4, <3>1 DEF ComesAt
  <2>7. ComesAt(i)' = (Delay + Turns((MaxUnderWay + 1) - i)) + (sinceLoop + 1)
    BY <2>3, Zenon DEF ComesAt, Turns
  <2>8. ComesAt(i)' = n + 1
    BY <2>6, <2>7, Zenon
  <2> HIDE DEF ComesAt
  <2> QED BY <1>1, <2>1, <2>5, <2>8, Zenon DEF Awaited, Came, Ages
<1> QED BY <1>2, <1>5, <1>6, <1>7, Zenon DEF Awaited

LEMMA AwaitedLoop ==
  ASSUME TypeOK, Line, Room, Awaited, Loop
  PROVE  Awaited'
<1>1. /\ pc = "idle" /\ Open /\ reader' = "loop"
      /\ UNCHANGED <<link, alive, toClient, half, lag>> /\ tAge' = 0
  BY Zenon DEF Loop
<1>2. ~Handshake
  BY <1>1 DEF Handshake
<1>3. SUFFICES ASSUME alive PROVE Awaited'
  BY <1>1, Zenon DEF Awaited
<1>4. CASE Expired
  <2>1. Send(Pkt("pingreq", 0)) /\ inAge' = 0 /\ outAge' = 0
    BY <1>4, Zenon DEF Loop
  <2>2. HasPing(toBroker')
    <3>1. Pkt("pingreq", 0) \in Packet /\ Pkt("pingreq", 0).type = "pingreq"
      BY TypedPackets DEF Types, Pkt
    <3> QED BY <1>3, <2>1, <3>1, AppendPing, Zenon DEF Send, TypeOK
  <2>3. 0 <= lag
    BY DEF TypeOK
  <2> QED BY <1>1, <2>1, <2>2, <2>3, Zenon DEF Awaited, Asked, Ages
<1>5. CASE ~Expired
  <2>1. UNCHANGED <<toBroker, inAge, outAge, pingOutstanding>>
    BY <1>5, Zenon DEF Loop
  <2>2. CASE Arrived
    <3>1. pc' = "reading" /\ pc # "reading"
      BY <1>1, <2>2 DEF Loop
    <3>2. Slack' = Period /\ Slack = sinceLoop
      BY <3>1, Zenon DEF Slack
    <3> QED BY <1>1, <1>2, <2>1, <3>2, AwaitedSame, Zenon
  <2>3. CASE ~Arrived
    <3>1. ~Begun /\ ~Came
      <4>1. Len(toClient) = 0
        BY <2>3 DEF Arrived
      <4>2. ~Came
        BY <4>1 DEF Came
      <4> QED BY <2>3, <4>2, Zenon DEF Begun
    <3>2. pingOutstanding => Asked
      BY <1>1, <1>2, <1>3, <3>1, Zenon DEF Awaited
    <3>3. Asked => Asked'
      <4>1. 0 <= lag
        BY DEF TypeOK
      <4> QED BY <1>1, <2>1, <4>1, Zenon DEF Asked, Ages
    <3> QED BY <2>1, <3>2, <3>3, Zenon DEF Awaited
  <2> QED BY <2>2, <2>3
<1> QED BY <1>4, <1>5

LEMMA AwaitedKept ==
  ASSUME TypeOK, Line, Room, Awaited, [Next]_vars
  PROVE  Awaited'
<1>0. "down" # "up"
  OBVIOUS
<1>1. CASE Connect
  <2>1. pc' = "connecting"
    BY <1>1, Zenon DEF Connect
  <2> QED BY <2>1, Zenon DEF Awaited, Handshake
<1>2. CASE Disconnect \/ Cut \/ ConnectTimeout \/ LoopGivesUp \/ ReadRefusal
  <2>1. Stop
    BY <1>2, Zenon DEF Disconnect, Cut, ConnectTimeout, LoopGivesUp, ReadRefusal
  <2> QED BY <1>0, <2>1, Zenon DEF Stop, Open, Awaited
<1>3. ASSUME NEW type \in Calls, Write(type) PROVE Awaited'
  <2>1. PICK p \in Packet : Send(p)
    <3>1. NewId \in Nat /\ 0 \in Nat /\ type \in Types
      BY IdIsInRange, TimeAssumption, TypedPackets DEF TypeOK
    <3> QED BY <1>3, <3>1, TypedPackets, Zenon DEF Write
  <2>2. /\ UNCHANGED <<link, alive, pc, reader, toClient, half, lag, sinceLoop,
                       pingOutstanding, inAge, tAge>>
        /\ outAge' = 0
    BY <1>3, Zenon DEF Write
  <2>3. Slack' = Slack /\ (Handshake => Handshake')
    BY <2>2, Zenon DEF Slack, Handshake
  <2>4. HasPing(toBroker) => HasPing(toBroker')
    BY <2>1, AppendPing, Zenon DEF Send, TypeOK
  <2> QED BY <2>2, <2>3, <2>4, AwaitedSame, Zenon
<1>4. CASE ConnectReads
  <2>1. pc' = "reading" /\ reader' = "connect"
    BY <1>4, Zenon DEF ConnectReads
  <2> QED BY <2>1, Zenon DEF Awaited, Handshake
<1>5. CASE Loop
  BY <1>5, AwaitedLoop
<1>6. CASE ReadConnack
  BY <1>6, Zenon DEF ReadConnack, Awaited
<1>7. CASE ReadPublish \/ ReadOther
  BY <1>7, AwaitedTake
<1>8. CASE CallbackReturns
  <2>1. /\ UNCHANGED <<link, alive, toClient, half, lag, sinceLoop,
                       pingOutstanding, inAge, tAge>>
        /\ outAge' = tAge \/ outAge' = outAge
        /\ toBroker' = toBroker \/ Send(Pkt("puback", msgId))
        /\ pc = "callback" /\ pc' = "idle"
    BY <1>8, Zenon DEF CallbackReturns, AckId
  <2>2. pc # "reading" /\ pc' # "reading" /\ ~Handshake
    BY <2>1 DEF Handshake
  <2>3. Slack' = Slack
    BY <2>1, <2>2, Zenon DEF Slack
  <2>4. HasPing(toBroker) => HasPing(toBroker')
    <3>1. Pkt("puback", msgId) \in Packet
      BY TypedPackets DEF Types, TypeOK
    <3> QED BY <2>1, <3>1, AppendPing, Zenon DEF Send, TypeOK
  <2> QED BY <2>1, <2>2, <2>3, <2>4, AwaitedSame, Zenon
<1>9. CASE Broker
  BY <1>9, AwaitedBroker
<1>10. ASSUME NEW p \in Messages, BrokerSends(p) PROVE Awaited'
  BY <1>10, AwaitedSends
<1>11. CASE Rest
  BY <1>11, AwaitedRest
<1>12. CASE Die
  BY <1>12, Zenon DEF Die, Awaited
<1>13. CASE Tick
  BY <1>13, AwaitedTick
<1>14. CASE UNCHANGED vars
  <2>1. UNCHANGED <<link, alive, pc, reader, toClient, toBroker, half, lag,
                    sinceLoop, pingOutstanding, inAge, outAge, tAge>>
    BY <1>14, Zenon DEF vars, timers, wire
  <2>2. Slack' = Slack /\ (Handshake => Handshake')
    BY <2>1, Zenon DEF Slack, Handshake
  <2> QED BY <2>1, <2>2, AwaitedSame, Zenon
<1> QED
  BY <1>1, <1>2, <1>3, <1>4, <1>5, <1>6, <1>7, <1>8, <1>9, <1>10, <1>11, <1>12,
     <1>13, <1>14, NextCases, Zenon

\* A broker that answers in time is not given up: neither by loop(), when one
\* of its timers runs out a second time, nor by connect().
InTime == Delay + (MaxUnderWay + 1) * Period <= KeepAlive
NotGivenUp == InTime => (lost => ~alive)

LEMMA NotByLoop ==
  ASSUME TypeOK, Line, Room, Clocks, Awaited, InTime, LoopGivesUp
  PROVE  ~alive
<1> SUFFICES ASSUME alive PROVE FALSE
  OBVIOUS
<1>1. pc = "idle" /\ Open /\ Expired /\ pingOutstanding
  BY Zenon DEF LoopGivesUp
<1>2. ~Handshake
  BY <1>1 DEF Handshake
<1>3. /\ lag \in 0 .. Delay /\ sinceLoop \in 0 .. Period
      /\ inAge \in 0 .. KeepAlive + 1 /\ outAge \in 0 .. KeepAlive + 1
      /\ KeepAlive \in Nat /\ Period \in Nat /\ Delay \in Nat
  BY LagNumbers, Zenon
<1> DEFINE all == Turns(MaxUnderWay + 1)
<1>4. all \in Nat /\ Delay + all <= KeepAlive
  BY TurnsAdd, TimeAssumption DEF InTime, Turns
<1> HIDE DEF all
<1>5. ASSUME NEW n \in Nat, n <= KeepAlive, Ages(n) PROVE FALSE
  <2>1. inAge <= n /\ outAge <= n
    BY <1>5, Zenon DEF Ages
  <2>2. inAge > KeepAlive \/ outAge > KeepAlive
    BY <1>1, Zenon DEF Expired
  <2> QED BY <1>3, <1>5, <2>1, <2>2
<1>6. ~Ages(lag)
  BY <1>3, <1>4, <1>5
<1>7. ~Came
  <2> SUFFICES ASSUME NEW i \in 1 .. Len(toClient), Ages(ComesAt(i)) PROVE FALSE
    BY Zenon DEF Came
  <2>1. /\ ComesAt(i) \in Nat /\ (MaxUnderWay + 1) - i \in Nat
        /\ Turns((MaxUnderWay + 1) - i) \in Nat
    BY ComesNumbers
  <2>2. Turns((MaxUnderWay + 1) - i) + Period <= all
    <3>1. ((MaxUnderWay + 1) - i) + 1 \in Nat /\ MaxUnderWay + 1 \in Nat
          /\ ((MaxUnderWay + 1) - i) + 1 <= MaxUnderWay + 1
      BY <2>1, TimeAssumption
    <3> QED BY <2>1, <3>1, TurnsAdd DEF all
  <2>3. Slack = sinceLoop
    <3>1. pc # "reading"
      BY <1>1
    <3> QED BY <3>1, Zenon DEF Slack
  <2>4. ComesAt(i) <= KeepAlive
    BY <1>3, <1>4, <2>1, <2>2, <2>3 DEF ComesAt
  <2> QED BY <1>5, <2>1, <2>4
<1> QED BY <1>1, <1>2, <1>6, <1>7, Zenon DEF Awaited, Asked, Begun

LEMMA NotByConnect ==
  ASSUME TypeOK, Clocks, Accepting, InTime, ConnectTimeout, Open
  PROVE  ~alive
<1> SUFFICES ASSUME alive PROVE FALSE
  OBVIOUS
<1>1. pc = "connecting" /\ ~Arrived /\ inAge > KeepAlive
  BY Zenon DEF ConnectTimeout, Waited
<1>2. inAge <= lag
  BY <1>1, Zenon DEF Accepting, Handshake
<1>3. /\ lag \in 0 .. Delay /\ inAge \in 0 .. KeepAlive + 1
      /\ KeepAlive \in Nat /\ Period \in Nat /\ Delay \in Nat
  BY LagNumbers, Zenon
<1>4. Delay <= KeepAlive
  <2>1. (MaxUnderWay + 1) * Period \in Nat
    BY TimeAssumption
  <2> QED BY <1>3, <2>1 DEF InTime
<1> QED BY <1>1, <1>2, <1>3, <1>4

LEMMA NotGivenUpKept ==
  ASSUME TypeOK, Line, Room, Clocks, Accepting, Awaited, NotGivenUp, [Next]_vars
  PROVE  NotGivenUp'
<1> SUFFICES ASSUME InTime, lost' PROVE ~alive'
  BY Zenon DEF NotGivenUp, InTime
<1>1. CASE LoopGivesUp
  <2>1. alive' = alive
    BY <1>1, Zenon DEF LoopGivesUp
  <2> QED BY <1>1, <2>1, NotByLoop, Zenon
<1>2. CASE ConnectTimeout
  <2>1. alive' = alive /\ Open
    BY <1>2, Zenon DEF ConnectTimeout
  <2> QED BY <1>2, <2>1, NotByConnect, Zenon
<1>3. CASE lost' = lost /\ (alive' = alive \/ ~alive')
  BY <1>3, Zenon DEF NotGivenUp
<1>4. CASE Connect
  BY <1>4, Zenon DEF Connect
<1> QED
  BY <1>1, <1>2, <1>3, <1>4, NextCases, Zenon
     DEF Write, Disconnect, Cut, ReadRefusal, ConnectReads, Loop, ReadConnack,
         ReadPublish, ReadOther, CallbackReturns, Broker, BrokerSends, Rest, Die,
         Tick, vars

\* The invariant of a live broker.
LiveInv == DeadInv /\ Accepting /\ Heard /\ Awaited /\ NotGivenUp

LEMMA InitLive == Init => LiveInv
<1> SUFFICES ASSUME Init PROVE LiveInv
  OBVIOUS
<1>1. DeadInv
  BY InitDead
<1>2. ~Open /\ ~lost
  <2>1. "down" # "up"
    OBVIOUS
  <2> QED BY <2>1, Zenon DEF Init, Open
<1> QED BY <1>1, <1>2, Zenon DEF LiveInv, Accepting, Heard, Awaited, NotGivenUp

LEMMA LiveKept == LiveInv /\ [Next]_vars => LiveInv'
<1> SUFFICES ASSUME LiveInv, [Next]_vars PROVE LiveInv'
  OBVIOUS
<1>1. /\ DeadInv /\ Accepting /\ Heard /\ Awaited /\ NotGivenUp
      /\ TypeOK /\ Line /\ Room /\ Clocks
  BY Zenon DEF LiveInv, DeadInv
<1>2. DeadInv' /\ TypeOK'
  BY <1>1, DeadKept, Zenon DEF DeadInv
<1> QED
  BY <1>1, <1>2, AcceptingKept, HeardKept, AwaitedKept, NotGivenUpKept, Zenon
     DEF LiveInv

LEMMA LiveIsKept == LiveInv => LiveBrokerKept
<1> SUFFICES ASSUME LiveInv PROVE LiveBrokerKept
  OBVIOUS
<1>1. TypeOK /\ Line /\ Clocks /\ Heard /\ NotGivenUp
  BY Zenon DEF LiveInv, DeadInv
<1>2. Open /\ alive /\ pc = "idle" => quiet <= KeepAlive + Period + Delay
  <2>1. Open /\ alive => quiet <= (KeepAlive + Delay) + sinceLoop
    BY <1>1, Zenon DEF Heard
  <2>2. quiet <= (KeepAlive + Delay) + sinceLoop
        => quiet <= KeepAlive + Period + Delay
    <3>1. /\ quiet \in Nat /\ sinceLoop \in 0 .. Period
          /\ KeepAlive \in Nat /\ Period \in Nat /\ Delay \in Nat
      BY <1>1, LagNumbers, Zenon
    <3> QED BY <3>1
  <2> QED BY <2>1, <2>2, Zenon
<1> QED BY <1>1, <1>2, Zenon DEF LiveBrokerKept, NotGivenUp, InTime

\* loop() and connect() never give up a broker that answers in time, and such
\* a broker hears from the client often enough to keep it.
THEOREM LiveBrokerIsKept == Spec => []LiveBrokerKept
BY InitLive, LiveKept, LiveIsKept, PTL DEF Spec
=============================================================================
