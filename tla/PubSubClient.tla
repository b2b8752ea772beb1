---------------------------- MODULE PubSubClient ----------------------------
(***************************************************************************)
(* PubSubClient, the sketch that calls it, and a broker behind a TCP       *)
(* connection that can be cut or go silent at any moment.                  *)
(*                                                                         *)
(* millis() appears only in differences, so the model keeps ages: inAge is *)
(* millis() - lastInActivity, capped where the code stops telling values   *)
(* apart.  A packet is its type and identifier.  The last packet on its    *)
(* way to the client may have arrived in part (half): readByte() waits     *)
(* for the rest of it.                                                     *)
(*                                                                         *)
(* While the broker is alive it answers within Delay; the sketch calls     *)
(* loop() within Period.                                                   *)
(***************************************************************************)
EXTENDS Integers, Sequences

CONSTANTS
    KeepAlive,  \* MQTT_KEEPALIVE, 15 s
    Period,     \* the sketch calls loop() at least this often
    Delay,      \* a broker that is alive answers within this time
    IdMod,      \* nextMsgId has sixteen bits: 65536
    MaxUnderWay \* bound: packets under way when another is written

ASSUME TimeAssumption ==
    /\ KeepAlive \in Nat \ {0} /\ Period \in Nat \ {0}
    /\ MaxUnderWay \in Nat \ {0}
    /\ Delay \in Nat /\ IdMod \in Nat \ {0, 1}

VARIABLES
    link,       \* _client->connected(): "up" or "down"
    alive,      \* the broker is there; a dead one leaves the link up
    pc,         \* "idle", or what the sketch's call is doing
    reader,     \* who reads a packet: "connect" or "loop"
    inAge, outAge,      \* since lastInActivity and lastOutActivity
    tAge,       \* since t was read in loop()
    pingOutstanding,
    nextMsgId,
    msgId,      \* that of the message the callback has, read before it
    toClient, half, toBroker,
    sinceLoop, lag,     \* how long loop() and the broker's answer are due
    inflight,   \* broker: identifiers of QoS 1 messages not acknowledged
    seen,       \* history: those the callback has been given
    quiet,      \* history: since the client last wrote to the connection
    silence,    \* history: how long the broker has been dead
    lost        \* history: loop() or connect() gave the broker up

timers == <<inAge, outAge, tAge, sinceLoop, lag, quiet, silence>>
wire == <<toClient, half, toBroker, inflight, seen>>
vars == <<link, alive, pc, reader, pingOutstanding, nextMsgId, msgId, lost,
          timers, wire>>

Pkt(type, id) == [type |-> type, id |-> id]
Types == {"connect", "connack", "refused", "publish", "big", "puback",
          "subscribe", "ack", "pingreq", "pingresp",
          "disconnect"}
Packet == [type : Types, id : Nat]

\* Ages above these are not told apart.
Old == KeepAlive + 1
Up(age, cap) == IF age < cap THEN age + 1 ELSE cap
QuietCap == KeepAlive + Period + Delay + 1
SilenceCap == 2 * (KeepAlive + Period) + (MaxUnderWay + 1) * Period + 1

Init ==
    /\ link = "down" /\ alive = TRUE
    /\ pc = "idle" /\ reader = "loop"
    /\ inAge = 0 /\ outAge = 0 /\ tAge = 0
    /\ pingOutstanding = FALSE /\ nextMsgId = 1 /\ msgId = 0
    /\ toClient = <<>> /\ half = FALSE /\ toBroker = <<>>
    /\ sinceLoop = 0 /\ lag = 0 /\ quiet = 0 /\ silence = 0
    /\ inflight = {} /\ seen = {} /\ lost = FALSE
-----------------------------------------------------------------------------
(* Pieces of the client's operations.                                      *)

\* Writing to a connection whose other end is dead goes nowhere.
Send(p) ==
    /\ toBroker' = IF alive THEN Append(toBroker, p) ELSE toBroker
    /\ quiet' = 0

\* _client->stop(): whatever was on its way is lost.
Stop ==
    /\ link' = "down"
    /\ toClient' = <<>> /\ half' = FALSE /\ toBroker' = <<>>
    /\ inflight' = {} /\ seen' = {}
    /\ lag' = 0 /\ sinceLoop' = 0 /\ quiet' = 0 /\ silence' = 0

UnderWay == Len(toBroker) + Len(toClient)
Open == link = "up"
Arrived == toClient # <<>>
\* Mutant: one octet more than the packet has.
WholeAndMore == ~half /\ Len(toClient) > 1

Whole == Arrived /\ ~(half /\ Len(toClient) = 1)
-----------------------------------------------------------------------------
\* connect() up to the wait for the answer; the TCP connection may fail.
Connect ==
    /\ pc = "idle" /\ ~Open
    /\ link' = "up" /\ alive' = TRUE /\ pc' = "connecting"
    /\ nextMsgId' = 1
    /\ toBroker' = <<Pkt("connect", 0)>> /\ quiet' = 0
    /\ inAge' = 0 /\ outAge' = 0
    /\ lost' = FALSE
    /\ UNCHANGED <<reader, pingOutstanding, msgId, tAge, sinceLoop, lag,
                   silence, toClient, half, inflight, seen>>

Waited == inAge > KeepAlive

\* Nothing comes: the wait does not look at connected().
ConnectTimeout ==
    /\ pc = "connecting" /\ ~Arrived /\ Waited
    /\ Stop
    /\ pc' = "idle" /\ lost' = Open
    /\ UNCHANGED <<alive, reader, pingOutstanding, nextMsgId, msgId,
                   inAge, outAge, tAge>>

ConnectReads ==
    /\ pc = "connecting" /\ Arrived
    /\ pc' = "reading" /\ reader' = "connect"
    /\ UNCHANGED <<link, alive, pingOutstanding, nextMsgId, msgId,
                   lost, timers, wire>>

\* loop(): the keep-alive timers first, then one packet if there is one.
\* Mutants: one unit of time less, and only one of the two timers.
ExpiredEarly == inAge >= KeepAlive \/ outAge >= KeepAlive
ExpiredOut == outAge > KeepAlive

Expired == inAge > KeepAlive \/ outAge > KeepAlive

LoopGivesUp ==
    /\ pc = "idle" /\ Open /\ Expired /\ pingOutstanding
    /\ Stop
    /\ lost' = TRUE
    /\ UNCHANGED <<alive, pc, reader, pingOutstanding, nextMsgId,
                   msgId, inAge, outAge, tAge>>

Loop ==
    /\ pc = "idle" /\ Open /\ ~(Expired /\ pingOutstanding)
    /\ IF Expired
       THEN /\ Send(Pkt("pingreq", 0))
            /\ inAge' = 0 /\ outAge' = 0
            /\ pingOutstanding' = TRUE
       ELSE UNCHANGED <<toBroker, quiet, inAge, outAge, pingOutstanding>>
    /\ pc' = IF Arrived THEN "reading" ELSE "idle"
    /\ reader' = "loop" /\ tAge' = 0 /\ sinceLoop' = 0
    /\ UNCHANGED <<link, alive, nextMsgId, msgId, lag, silence, toClient, half,
                   inflight, seen, lost>>

\* readPacket() has all of the packet.
Take ==
    /\ pc = "reading" /\ Whole
    /\ toClient' = Tail(toClient)

\* connect() looks at the length of its answer and its last octet.
ReadConnack ==
    /\ Take /\ reader = "connect"
    /\ Head(toClient).type = "connack"
    /\ inAge' = 0 /\ pingOutstanding' = FALSE /\ pc' = "idle"
    /\ UNCHANGED <<link, alive, reader, nextMsgId, msgId, outAge, tAge,
                   sinceLoop, lag, quiet, silence, half, toBroker, inflight,
                   seen, lost>>

ReadRefusal ==
    /\ pc = "reading" /\ Whole /\ reader = "connect"
    /\ Head(toClient).type = "refused"
    /\ Stop
    /\ pc' = "idle"
    /\ UNCHANGED <<alive, reader, pingOutstanding, nextMsgId, msgId, inAge,
                   outAge, tAge, lost>>

\* A PUBLISH is given to the callback: the payload stays in buffer.
ReadPublish ==
    /\ Take /\ reader = "loop"
    /\ Head(toClient).type = "publish"
    /\ inAge' = tAge
    /\ msgId' = Head(toClient).id
    /\ seen' = (seen \cup {Head(toClient).id}) \ {0}
    /\ pc' = "callback"
    /\ UNCHANGED <<link, alive, reader, pingOutstanding, nextMsgId, outAge,
                   tAge, sinceLoop, lag, quiet, silence, half, toBroker,
                   inflight, lost>>

\* Mutant: the identifier is read from the buffer again, where a subscribe()
\* in the callback has put its own.
AckIdAgain == nextMsgId

AckId == msgId

\* The callback returns; at QoS 1 (id > 0) the message is acknowledged.
CallbackReturns ==
    /\ pc = "callback"
    /\ pc' = "idle" /\ msgId' = 0
    /\ IF msgId > 0
       THEN /\ IF Open THEN Send(Pkt("puback", AckId))
                       ELSE UNCHANGED <<toBroker, quiet>>
            /\ outAge' = tAge
       ELSE UNCHANGED <<toBroker, quiet, outAge>>
    /\ UNCHANGED <<link, alive, reader, pingOutstanding, nextMsgId, inAge,
                   tAge, sinceLoop, lag, silence, toClient, half, inflight,
                   seen, lost>>

\* Any other packet; one that does not fit is read and ignored.
ReadOther ==
    /\ Take /\ reader = "loop"
    /\ LET p == Head(toClient)
       IN  /\ p.type # "publish"
           /\ inAge' = IF p.type = "big" THEN inAge ELSE tAge
           /\ pingOutstanding' = (pingOutstanding /\ p.type # "pingresp")
           /\ IF p.type = "pingreq" THEN Send(Pkt("pingresp", 0))
                                    ELSE UNCHANGED <<toBroker, quiet>>
    /\ pc' = "idle"
    /\ UNCHANGED <<link, alive, reader, nextMsgId, msgId, outAge, tAge,
                   sinceLoop, lag, silence, half, inflight, seen, lost>>

\* publish(), subscribe() and unsubscribe(), from the sketch or the callback;
\* the last two have the same effect here.
NewId == LET next == (nextMsgId + 1) % IdMod IN IF next = 0 THEN 1 ELSE next

Write(type) ==
    /\ pc \in {"idle", "callback"} /\ Open
    /\ UnderWay < MaxUnderWay
    /\ LET id == IF type = "publish" THEN 0 ELSE NewId
       IN  /\ nextMsgId' = IF type = "publish" THEN nextMsgId ELSE id
           /\ Send(Pkt(type, id))
    /\ outAge' = 0
    /\ UNCHANGED <<link, alive, pc, reader, pingOutstanding, msgId, inAge, tAge,
                   sinceLoop, lag, silence, toClient, half, inflight, seen, lost>>

Disconnect ==
    /\ pc \in {"idle", "callback"} /\ Open
    /\ Stop
    /\ inAge' = 0 /\ outAge' = 0
    /\ UNCHANGED <<alive, pc, reader, pingOutstanding, nextMsgId, msgId, tAge,
                   lost>>
-----------------------------------------------------------------------------
(* The broker, the connection and the time.                                *)

Answers(p) ==
    CASE p.type = "connect" -> {Pkt("connack", 0), Pkt("refused", 0)}
      [] p.type = "subscribe" -> {Pkt("ack", p.id)}
      [] p.type = "pingreq" -> {Pkt("pingresp", 0)}
      [] OTHER -> {}

Begin(p) == toClient' = Append(toClient, p) /\ half' = TRUE

Broker ==
    /\ Open /\ alive /\ ~half /\ toBroker # <<>>
    /\ LET p == Head(toBroker)
       IN  /\ IF Answers(p) = {} THEN UNCHANGED <<toClient, half>>
              ELSE \E a \in Answers(p) : Begin(a)
           /\ inflight' = IF p.type = "puback" THEN inflight \ {p.id}
                                               ELSE inflight
           /\ seen' = IF p.type = "puback" THEN seen \ {p.id} ELSE seen
    /\ toBroker' = Tail(toBroker)
    /\ lag' = IF toBroker' = <<>> /\ ~half' THEN 0 ELSE lag
    /\ UNCHANGED <<link, alive, pc, reader, pingOutstanding, nextMsgId,
                   msgId, lost, inAge, outAge, tAge, sinceLoop, quiet, silence>>

\* The broker's own packets, once it has accepted the connection.
BrokerSends(p) ==
    /\ Open /\ alive /\ ~half /\ UnderWay < MaxUnderWay
    /\ pc # "connecting" /\ ~(pc = "reading" /\ reader = "connect")
    /\ p.id \notin inflight
    /\ Begin(p)
    /\ inflight' = IF p.id > 0 THEN inflight \cup {p.id} ELSE inflight
    /\ UNCHANGED <<link, alive, pc, reader, pingOutstanding, nextMsgId,
                   msgId, lost, timers, toBroker, seen>>

Rest ==
    /\ Open /\ alive /\ half
    /\ half' = FALSE
    /\ lag' = IF toBroker = <<>> THEN 0 ELSE lag
    /\ UNCHANGED <<link, alive, pc, reader, pingOutstanding, nextMsgId,
                   msgId, lost, inAge, outAge, tAge, sinceLoop, quiet, silence,
                   toClient, toBroker, inflight, seen>>

\* The broker dies without a word, or the connection is closed or reset.
Die ==
    /\ Open /\ alive
    /\ alive' = FALSE /\ toBroker' = <<>> /\ lag' = 0
    /\ UNCHANGED <<link, pc, reader, pingOutstanding, nextMsgId, msgId,
                   lost, inAge, outAge, tAge, sinceLoop, quiet, silence,
                   toClient, half, inflight, seen>>

Cut ==
    /\ Open /\ (pc = "reading" => ~Whole)
    /\ Stop
    /\ UNCHANGED <<alive, pc, reader, pingOutstanding, nextMsgId, msgId,
                   lost, inAge, outAge, tAge>>

\* Callbacks take no time.  loop() is called, and an answer given, in time.
Tick ==
    /\ pc # "callback"
    /\ pc = "idle" /\ Open => sinceLoop < Period
    /\ alive /\ Open /\ (toBroker # <<>> \/ half) => lag < Delay
    /\ pc = "reading" => ~Whole
    /\ pc = "connecting" => ~Arrived /\ ~Waited
    /\ inAge' = Up(inAge, Old) /\ outAge' = Up(outAge, Old)
    /\ tAge' = IF pc = "reading" THEN Up(tAge, Old) ELSE 0
    /\ sinceLoop' = IF pc = "idle" /\ Open THEN sinceLoop + 1 ELSE 0
    /\ lag' = IF alive /\ Open /\ (toBroker # <<>> \/ half) THEN lag + 1 ELSE 0
    /\ quiet' = IF Open /\ alive THEN Up(quiet, QuietCap) ELSE 0
    /\ silence' = IF Open /\ ~alive THEN Up(silence, SilenceCap) ELSE 0
    /\ UNCHANGED <<link, alive, pc, reader, pingOutstanding, nextMsgId,
                   msgId, lost, wire>>

Call == Connect \/ Disconnect
        \/ \E type \in {"publish", "subscribe"} : Write(type)

Steps == \/ ConnectTimeout \/ ConnectReads \/ LoopGivesUp \/ Loop
         \/ ReadConnack \/ ReadRefusal \/ ReadPublish \/ ReadOther
         \/ CallbackReturns

Next ==
    \/ Call \/ Steps
    \/ Broker \/ Rest \/ Die \/ Cut \/ Tick
    \/ \E p \in {Pkt("publish", 0), Pkt("publish", 1), Pkt("big", 2),
                 Pkt("pingreq", 0)} : BrokerSends(p)

Spec == Init /\ [][Next]_vars
FairSpec == Spec /\ WF_vars(Steps) /\ SF_vars(Broker) /\ WF_vars(Rest) /\ WF_vars(Tick)
=============================================================================
