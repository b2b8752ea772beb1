--------------------------- MODULE MCPubSubClient ---------------------------
(* PubSubClient on small instances, and its properties.                    *)
EXTENDS PubSubClient, FiniteSets

\* The types of the state, and ages within what the code tells apart.
TypeOK ==
    /\ link \in {"up", "down"}
    /\ alive \in BOOLEAN /\ half \in BOOLEAN
    /\ pingOutstanding \in BOOLEAN /\ lost \in BOOLEAN
    /\ pc \in {"idle", "connecting", "reading", "callback"}
    /\ inAge \in 0..Old /\ outAge \in 0..Old /\ tAge \in 0..Old
    /\ nextMsgId \in 1..(IdMod - 1) /\ msgId \in Nat
    /\ toClient \in Seq(Packet) /\ toBroker \in Seq(Packet)
    /\ sinceLoop \in 0..Period /\ lag \in 0..Delay

\* loop() and connect() never give up a broker that answers in time, however
\* many other packets are before its PINGRESP, and although only a PINGRESP
\* clears pingOutstanding; the keep-alive must cover the wait for the answer
\* and one call of loop() for each packet before it.  And such a broker has no
\* reason to give up the client: it hears from it once in a keep-alive time, a
\* call of loop() and the wait for the rest of a packet.
LiveBrokerKept ==
    /\ Delay + (MaxUnderWay + 1) * Period <= KeepAlive => (lost => ~alive)
    /\ Open /\ alive /\ pc = "idle" => quiet <= KeepAlive + Period + Delay

\* A broker that has died without closing the connection is noticed within
\* two keep-alive times, the packets it has left unread, and a call of loop()
\* after each; unless readByte() waits for the rest of a packet.
DeadBrokerNoticed ==
    Open /\ pc # "reading"
    => silence <= 2 * (KeepAlive + Period) + (MaxUnderWay + 1) * Period

\* A QoS 1 message leaves the broker's window only when the callback has had
\* it: the identifier in the PUBACK is that of the message, although the
\* callback may have used the buffer it came in.
AckedIsSeen ==
    [][\A id \in inflight \ inflight' : link' = "up" => id \in seen]_vars

\* loop() returns from the packet it has begun to read, while the broker and
\* the connection last, and connect() from its wait in any case.
CallsReturn ==
    /\ pc = "reading" ~> pc # "reading" \/ ~Open \/ ~alive
    /\ pc = "connecting" ~> pc # "connecting"

\* What the callback was given is acknowledged, or the connection is lost.
SeenIsAcked == 1 \in seen ~> 1 \notin seen \/ ~alive
=============================================================================
