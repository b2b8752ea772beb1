----------------------------- MODULE VirtualWire -----------------------------
(***************************************************************************)
(* A VirtualWire station.  Its timer interrupt collects messages into the  *)
(* one buffer that vw_get_message() copies and sums while the interrupt    *)
(* may start on the next message; while the station transmits it does not  *)
(* listen, and takes a message up again where it was.                      *)
(*                                                                         *)
(* Samples, the phase-locked loop and the 4-to-6-bit symbols are           *)
(* abstracted to what twelve bits give: an octet of the message on the     *)
(* air, or Bad.  An octet is the message and its place in it; the octet at *)
(* place 0 is the count, the last two are the checksum.  The checksum is   *)
(* taken to tell whole messages from all others.  What nothing looks at    *)
(* again is forgotten: octets of the buffer behind the current message     *)
(* are kept during vw_get_message() only, and an octet behind one that it  *)
(* does not follow, where the checksum is wrong already, is kept as Bad.   *)
(***************************************************************************)
EXTENDS Integers, Sequences

CONSTANTS
    Message,    \* what the other station sends
    Length,     \* Length[m]: its octets, with count and checksum
    MaxLen,     \* VW_MAX_MESSAGE_LEN
    Room,       \* what sketches give vw_get_message() as *len
    InCall      \* bound on the octets that come during vw_get_message()

Bad == <<"bad", 0>>
Octet(m, i) == <<m, i>>

VARIABLES
    air,        \* what the other station sends: nothing or <<m, next octet>>
    enabled, transmitting,      \* vw_rx_enabled, vw_tx_enabled
    collecting, done,           \* vw_rx_active, vw_rx_done
    count, mem, len,    \* vw_rx_count, vw_rx_buf, vw_rx_len
    pc, room, copied, summed, sumlen,   \* vw_get_message()
    inCall,     \* octets that came in since it was called
    fresh       \* history: the last whole message was not returned yet

rx == <<enabled, transmitting, collecting, done, count, mem, len, fresh>>
call == <<pc, room, copied, summed, sumlen>>
vars == <<air, rx, call, inCall>>

Blank == [i \in 1..MaxLen |-> Bad]

Init ==
    /\ air = <<>>
    /\ enabled = FALSE /\ transmitting = FALSE
    /\ collecting = FALSE /\ done = FALSE
    /\ count = 0 /\ mem = Blank /\ len = 0
    /\ pc = "idle" /\ room = 0 /\ copied = <<>> /\ summed = <<>> /\ sumlen = 0
    /\ inCall = 0 /\ fresh = FALSE

Listening == enabled /\ ~transmitting
Quick == pc = "idle" \/ inCall < InCall
Came == IF pc = "idle" THEN 0 ELSE inCall + 1

\* vw_pll() has the start symbol.
StartSymbol ==
    /\ collecting' = TRUE /\ done' = FALSE
    /\ len' = 0 /\ mem' = IF pc = "idle" THEN Blank ELSE mem
    /\ UNCHANGED <<enabled, transmitting, count, fresh>>

\* Mutant: the count is not looked at from above.
SensibleFromBelow(n) == n >= 4

Sensible(n) == n >= 4 /\ n <= MaxLen

Follows(o, p) == p[1] = o[1] /\ p[2] = o[2] + 1

\* Mutant: a count that makes no sense does not end the message.
CollectStill(o, n) ==
    /\ count' = IF len = 0 THEN n ELSE count
    /\ IF len = 0 /\ ~Sensible(n)
       THEN UNCHANGED <<collecting>> /\ UNCHANGED <<done, mem, len, fresh>>
       ELSE /\ mem' = [mem EXCEPT ![len + 1] =
                          IF len = 0 \/ Follows(mem[len], o) THEN o ELSE Bad]
            /\ len' = len + 1
            /\ collecting' = (len' < count')
            /\ done' = (done \/ len' >= count')
            /\ fresh' = (fresh \/ len' >= count')
    /\ UNCHANGED <<enabled, transmitting>>

\* vw_pll() has twelve bits of a message, which say n if they are its first.
Collect(o, n) ==
    /\ count' = IF len = 0 THEN n ELSE count
    /\ IF len = 0 /\ ~Sensible(n)
       THEN collecting' = FALSE /\ UNCHANGED <<done, mem, len, fresh>>
       ELSE /\ mem' = [mem EXCEPT ![len + 1] =
                          IF len = 0 \/ Follows(mem[len], o) THEN o ELSE Bad]
            /\ len' = len + 1
            /\ collecting' = (len' < count')
            /\ done' = (done \/ len' >= count')
            /\ fresh' = (fresh \/ len' >= count')
    /\ UNCHANGED <<enabled, transmitting>>

\* What a wrong octet can say as a count.
Counts == {3, MaxLen + 1} \cup 4..MaxLen

\* Twelve bits on the air: an octet of a message, right or not, or what looks
\* like a start symbol.
Hear(o, n) ==
    /\ Quick /\ inCall' = Came
    /\ CASE ~Listening -> UNCHANGED rx
         [] collecting /\ Listening ->
                Collect(o, n) \/ \E k \in Counts : Collect(Bad, k)
         [] OTHER -> StartSymbol \/ UNCHANGED rx
    /\ UNCHANGED call

\* The other station begins with its start symbol, which a station that is
\* collecting takes for an octet.
Begins(m) ==
    /\ air = <<>> /\ air' = <<m, 0>>
    /\ Hear(Bad, MaxLen + 1)

OnTheAir ==
    /\ air # <<>>
    /\ air' = IF air[2] + 1 = Length[air[1]] THEN <<>>
                                             ELSE <<air[1], air[2] + 1>>
    /\ Hear(Octet(air[1], air[2]), IF air[2] = 0 THEN Length[air[1]] ELSE 3)

Noise == air = <<>> /\ Hear(Bad, 3) /\ UNCHANGED air
-----------------------------------------------------------------------------
(* The sketch.                                                             *)

Idle == pc = "idle"

RxStart ==
    /\ Idle /\ ~enabled
    /\ enabled' = TRUE /\ collecting' = FALSE
    /\ UNCHANGED <<air, transmitting, done, count, mem, len, fresh, call,
                   inCall>>

RxStop ==
    /\ Idle /\ enabled
    /\ enabled' = FALSE
    /\ UNCHANGED <<air, transmitting, collecting, done, count, mem, len,
                   fresh, call, inCall>>

\* vw_send() and the end of the transmission in the interrupt.
VwSend ==
    /\ Idle /\ ~transmitting
    /\ transmitting' = TRUE
    /\ UNCHANGED <<air, enabled, collecting, done, count, mem, len, fresh,
                   call, inCall>>

TxEnds ==
    /\ transmitting
    /\ transmitting' = FALSE
    /\ UNCHANGED <<air, enabled, collecting, done, count, mem, len, fresh,
                   call, inCall>>

\* vw_get_message(), one access to what it shares at a time.
GetMessage(r) ==
    /\ Idle /\ done
    /\ pc' = "length" /\ room' = r /\ inCall' = 0
    /\ UNCHANGED <<air, rx, copied, summed, sumlen>>

\* vw_rx_len - 3 in eight bits.
GetLength ==
    /\ pc = "length"
    /\ LET rxlen == (len - 3) % 256
       IN  room' = IF room > rxlen THEN rxlen ELSE room
    /\ pc' = "copy"
    /\ UNCHANGED <<air, rx, copied, summed, sumlen, inCall>>

Copy ==
    /\ pc = "copy" /\ Len(copied) < room
    /\ LET i == Len(copied) + 2
       IN  copied' = Append(copied, IF i <= MaxLen THEN mem[i] ELSE Bad)
    /\ UNCHANGED <<air, rx, pc, room, summed, sumlen, inCall>>

Clear ==
    /\ pc = "copy" /\ Len(copied) = room
    /\ done' = FALSE /\ pc' = "sum"
    /\ UNCHANGED <<air, enabled, transmitting, collecting, count, mem, len,
                   fresh, room, copied, summed, sumlen, inCall>>

SumLength ==
    /\ pc = "sum"
    /\ sumlen' = len /\ pc' = "summing"
    /\ UNCHANGED <<air, rx, room, copied, summed, inCall>>

Sum ==
    /\ pc = "summing" /\ Len(summed) < sumlen
    /\ summed' = Append(summed, mem[Len(summed) + 1])
    /\ UNCHANGED <<air, rx, pc, room, copied, sumlen, inCall>>

Whole(octets) ==
    \E m \in Message : octets = [i \in 1..Length[m] |-> Octet(m, i - 1)]

\* Mutant: a message that was damaged is as good as another.
SumIsGoodAlways == summed # <<>>

SumIsGood == Whole(summed)

Return ==
    /\ pc = "summing" /\ Len(summed) = sumlen
    /\ pc' = "idle"
    /\ room' = 0 /\ copied' = <<>> /\ summed' = <<>> /\ sumlen' = 0
    /\ inCall' = 0
    /\ fresh' = (fresh /\ ~SumIsGood)
    /\ mem' = [i \in 1..MaxLen |-> IF collecting /\ i <= len THEN mem[i]
                                                             ELSE Bad]
    /\ UNCHANGED <<air, enabled, transmitting, collecting, done, count, len>>

Interrupt == OnTheAir \/ Noise \/ \E m \in Message : Begins(m)

Sketch == \/ RxStart \/ RxStop \/ VwSend \/ TxEnds
          \/ GetLength \/ Copy \/ Clear \/ SumLength \/ Sum \/ Return
          \/ \E r \in Room : GetMessage(r)

Next == Interrupt \/ Sketch

Spec == Init /\ [][Next]_vars

\* The timer goes on, and vw_get_message() is not stopped.
Fairness == WF_vars(Interrupt)
            /\ WF_vars(GetLength \/ Copy \/ Clear \/ SumLength \/ Sum \/ Return)
-----------------------------------------------------------------------------
\* The buffer holds no more than it has room for, and a message that is
\* announced is long enough for what vw_get_message() takes off its length.
WireBufferFits ==
    /\ len <= MaxLen
    /\ done => ~collecting /\ len >= 4

\* vw_get_message() returns true only with the beginning of one message that
\* was received whole, however the interrupt has come between its accesses,
\* and for each at most once.
TrueIsWhole ==
    [][pc = "summing" /\ pc' = "idle" /\ SumIsGood =>
          /\ fresh
          /\ \E m \in Message :
                /\ Len(copied) <= Length[m] - 3
                /\ copied = [i \in 1..Len(copied) |-> Octet(m, i)]]_vars

\* A receiver that is left on comes to the end of what it collects, however
\* it began, and then finds the next start symbol.
CollectingEnds == collecting ~> ~collecting \/ ~Listening
=============================================================================
