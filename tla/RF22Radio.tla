------------------------------ MODULE RF22Radio ------------------------------
(***************************************************************************)
(* One RF22: the driver's main-program calls send(), waitPacketSent(),     *)
(* available() and recv(), its interrupt handler, and the chip, which goes *)
(* on by itself.                                                           *)
(*                                                                         *)
(* The interrupt handler runs before the next instruction of the main      *)
(* program, except in an ATOMIC_BLOCK; Late says whether code of others    *)
(* may hold it off for longer (RF22.h:175-181 asks users to disable        *)
(* interrupts around their own SPI transfers).                             *)
(*                                                                         *)
(* An octet stands for the packet it belongs to: received packet k has     *)
(* octets k, sent message j has octets MaxPackets + j, and Junk is what an *)
(* empty FIFO gives.  The octets of _buf from _bufLen on are never read, so*)
(* buf is the first _bufLen ones.                                          *)
(***************************************************************************)
EXTENDS Naturals, Sequences

CONSTANTS
  MaxLen,       \* RF22_MAX_MESSAGE_LEN, 50
  FifoSize,     \* RF22_FIFO_SIZE, 64
  TxThreshold,  \* RF22_TXFFAEM_THRESHOLD, 4
  RxThreshold,  \* RF22_RXFFAFULL_THRESHOLD, 55
  AirLengths,   \* lengths of the packets on the air
  SendLengths,  \* lengths the application asks to send
  MaxPackets, MaxSends, MaxNoise,  \* bounds: packets, sends, false preambles
  Late

ASSUME RadioAssumption ==
  /\ {MaxLen, FifoSize, TxThreshold, RxThreshold} \subseteq Nat
  /\ TxThreshold + 1 < FifoSize /\ RxThreshold \in 1 .. FifoSize
  /\ AirLengths \subseteq Nat /\ SendLengths \subseteq Nat
  /\ {MaxPackets, MaxSends, MaxNoise} \subseteq Nat
  /\ Late \in BOOLEAN

VARIABLES
  r,      \* the radio: members of the RF22 object and registers of the chip
  flags,  \* interrupts latched in the status registers
  pc,     \* where the main program is
  msg,    \* what recv() has copied out, before the headers are read
  lens,   \* history: lengths of the packets that began to arrive
  noise,  \* number of false preambles so far
  got,    \* history: payload and FROM header that recvfrom() returned
  given,  \* history: lengths of the messages send() has accepted
  sent,   \* history: what went out on the air, whole packets
  crossed,\* history: a transmission has started in the way of a reception
  lost,   \* history: octets written into a full transmit FIFO
  torn    \* history: _mode was set to RX with the receiver off, and no message
          \* has been sent since

vars == <<r, flags, pc, msg, lens, noise, got, given, sent, crossed, lost, torn>>

Junk == 0
None == 0

Packet(k) == [i \in 1 .. lens[k] |-> k]
Message(j) == [i \in 1 .. given[j] |-> MaxPackets + j]

\* init(): clearTxBuf() and clearRxBuf() on an idle, reset chip.
Init ==
  /\ r = [mode   |-> "idle",  \* _mode
          buf    |-> <<>>,    \* _buf[0 .. _bufLen - 1]
          valid  |-> FALSE,   \* _rxBufValid
          txSent |-> 0,       \* _txBufSentIndex
          op     |-> "idle",  \* what the chip is doing
          air    |-> None,    \* the packet it is receiving
          at     |-> 0,       \* octets of it received so far
          rxFifo |-> <<>>,
          rxLen  |-> 0,       \* RF22_REG_4B_RECEIVED_PACKET_LENGTH
          from   |-> None,    \* the received headers
          txFifo |-> <<>>,
          txLen  |-> 0,       \* RF22_REG_3E_PACKET_LENGTH
          aired  |-> <<>>]    \* octets transmitted so far
  /\ flags = {}
  /\ pc = "app"
  /\ msg = <<>>
  /\ lens = <<>>
  /\ noise = 0
  /\ got = <<>>
  /\ given = <<>>
  /\ sent = <<>>
  /\ crossed = FALSE
  /\ lost = FALSE
  /\ torn = FALSE

-----------------------------------------------------------------------------
(* The chip.                                                               *)

\* The handler comes before its next event, unless it is held off: the
\* atomic blocks of the driver are shorter than the time between two events.
ChipRuns == flags = {} \/ Late

ChipOnly == UNCHANGED <<pc, msg, got, given, crossed, lost, torn>>

Preamble ==
  /\ ChipRuns /\ r.op = "rx" /\ r.air = None
  /\ flags' = flags \cup {"preaval"}
  /\ \/ /\ noise < MaxNoise
        /\ noise' = noise + 1
        /\ UNCHANGED <<r, lens>>
     \/ /\ Len(lens) < MaxPackets
        /\ \E n \in AirLengths : lens' = Append(lens, n)
        /\ r' = [r EXCEPT !.air = Len(lens) + 1, !.at = 0]
        /\ UNCHANGED noise
  /\ ChipOnly /\ UNCHANGED sent

RxOctet ==
  /\ ChipRuns /\ r.op = "rx" /\ r.air # None
  /\ r.at < lens[r.air]
  /\ IF Len(r.rxFifo) = FifoSize
     THEN /\ r' = [r EXCEPT !.at = @ + 1, !.from = r.air]
          /\ flags' = flags \cup {"fferror"}
     ELSE /\ r' = [r EXCEPT !.at = @ + 1, !.from = r.air,
                            !.rxFifo = Append(@, r.air)]
          /\ flags' = IF Len(r.rxFifo) + 1 = RxThreshold
                      THEN flags \cup {"rxffafull"} ELSE flags
  /\ ChipOnly /\ UNCHANGED <<lens, noise, sent>>

\* The receiver switches itself off.
RxEnd ==
  /\ ChipRuns /\ r.op = "rx" /\ r.air # None
  /\ r.at = lens[r.air]
  /\ r' = [r EXCEPT !.op = "idle", !.air = None, !.rxLen = lens[r.air]]
  /\ \E f \in {"pkvalid", "crcerror"} : flags' = flags \cup {f}
  /\ ChipOnly /\ UNCHANGED <<lens, noise, sent>>

TxOctet ==
  /\ ChipRuns /\ r.op = "tx"
  /\ Len(r.aired) < r.txLen
  /\ IF r.txFifo = <<>>
     THEN /\ r' = [r EXCEPT !.op = "idle"]
          /\ flags' = flags \cup {"fferror"}
     ELSE /\ r' = [r EXCEPT !.aired = Append(@, Head(r.txFifo)),
                            !.txFifo = Tail(@)]
          /\ flags' = IF Len(r.txFifo) - 1 = TxThreshold
                      THEN flags \cup {"txffaem"} ELSE flags
  /\ ChipOnly /\ UNCHANGED <<lens, noise, sent>>

TxEnd ==
  /\ ChipRuns /\ r.op = "tx"
  /\ Len(r.aired) >= r.txLen
  /\ r' = [r EXCEPT !.op = "idle"]
  /\ flags' = flags \cup {"pksent"}
  /\ sent' = Append(sent, r.aired)
  /\ ChipOnly /\ UNCHANGED <<lens, noise>>

Chip == Preamble \/ RxOctet \/ RxEnd \/ TxOctet \/ TxEnd

\* Writing the operating mode: what was going on is dropped, the FIFOs stay.
SetMode(s, op) == IF s.op = op THEN s
                  ELSE [s EXCEPT !.op = op, !.air = None, !.aired = <<>>]

\* n octets out of the receive FIFO.
FromFifo(s, n) ==
  [i \in 1 .. n |-> IF i <= Len(s.rxFifo) THEN s.rxFifo[i] ELSE Junk]

AfterRead(s, n) ==
  IF n < Len(s.rxFifo) THEN SubSeq(s.rxFifo, n + 1, Len(s.rxFifo)) ELSE <<>>

-----------------------------------------------------------------------------
(* The driver's operations on the radio.                                   *)

ClearRxBuf(s) == [s EXCEPT !.buf = <<>>, !.valid = FALSE]

ClearTxBuf(s) == [s EXCEPT !.buf = <<>>, !.txSent = 0]

ResetRxFifo(s) == [s EXCEPT !.rxFifo = <<>>]

ResetFifos(s) == [s EXCEPT !.rxFifo = <<>>, !.txFifo = <<>>]

\* For the handler, which nothing interrupts; available() takes it in steps.
SetModeRx(s) ==
  IF s.mode = "rx" THEN s ELSE [SetMode(s, "rx") EXCEPT !.mode = "rx"]

\* Mutant: _mode is not set.
SetModeTxIdle(s) ==
  IF s.mode = "tx" THEN s ELSE ResetRxFifo(SetMode(s, "tx"))

SetModeTx(s) ==
  IF s.mode = "tx" THEN s
  ELSE ResetRxFifo([SetMode(s, "tx") EXCEPT !.mode = "tx"])

Least(a, b) == IF a < b THEN a ELSE b

\* How many octets the driver writes into the transmit FIFO, and how many of
\* them the chip has room for.
FragmentLen(s) ==
  IF s.txSent < Len(s.buf)
  THEN Least(Len(s.buf) - s.txSent, FifoSize - TxThreshold - 1)
  ELSE 0

Room(s) == FifoSize - Len(s.txFifo)

SendNextFragment(s) ==
  LET kept == Least(FragmentLen(s), Room(s))
  IN  [s EXCEPT !.txFifo = @ \o SubSeq(s.buf, s.txSent + 1, s.txSent + kept),
                !.txSent = @ + FragmentLen(s)]

\* The chip loses octets, and says so.
Overflows(s) == FragmentLen(s) > Room(s)

Losing(loses, latched) ==
  /\ lost' = (lost \/ loses)
  /\ flags' = latched \cup (IF loses THEN {"fferror"} ELSE {})

ReadNextFragment(s) ==
  IF Len(s.buf) + RxThreshold > MaxLen THEN s
  ELSE [s EXCEPT !.buf = @ \o FromFifo(s, RxThreshold),
                 !.rxFifo = AfterRead(s, RxThreshold)]

\* Mutant: the packet is as long as its first fragment.
StartFragment(s) ==
  LET loaded == SendNextFragment(s)
  IN  SetModeTx([loaded EXCEPT !.txLen = loaded.txSent])

StartTransmit(s) ==
  LET loaded == SendNextFragment(s)
  IN  SetModeTx([loaded EXCEPT !.txLen = Len(s.buf)])

RestartTransmit(s) == StartTransmit([s EXCEPT !.mode = "idle", !.txSent = 0])

\* Mutant: only a length below what was read is bad.
TooShort(s) == s.rxLen < Len(s.buf)

\* A length that would overflow the buffer, or that was exceeded already.
BadLength(s) == s.rxLen > MaxLen \/ s.rxLen < Len(s.buf)

\* Mutant: _mode is not told that the receiver is off.
ReadPacketInRx(s) ==
  LET rest == s.rxLen - Len(s.buf)
  IN  [s EXCEPT !.buf = @ \o FromFifo(s, rest),
                !.rxFifo = AfterRead(s, rest),
                !.valid = TRUE]

\* The rest of a valid packet goes behind the fragments read before.
ReadPacket(s) ==
  LET rest == s.rxLen - Len(s.buf)
  IN  [s EXCEPT !.buf = @ \o FromFifo(s, rest),
                !.rxFifo = AfterRead(s, rest),
                !.mode = "idle",
                !.valid = TRUE]

-----------------------------------------------------------------------------
(* The interrupt handler takes the flags in this order, all of them in one *)
(* run.                                                                    *)

OnFifoError(s) ==
  LET t == ResetFifos(s)
  IN  IF t.mode = "tx" THEN RestartTransmit(t)
      ELSE IF t.mode = "rx" THEN ClearRxBuf(t) ELSE t

\* Mutant: the end of a transmission changes nothing.
OnPacketSentNothing(s) == s

OnPacketSent(s) == [s EXCEPT !.mode = "idle"]

OnCrcError(s) ==
  SetModeRx([ResetRxFifo(ClearRxBuf(s)) EXCEPT !.mode = "idle"])

OnPreamble(s) == ClearRxBuf(s)

AfterFifoError(s) == IF "fferror" \in flags THEN OnFifoError(s) ELSE s

HandleInterrupt(s) ==
  LET a == AfterFifoError(s)
      b == IF "txffaem" \in flags THEN SendNextFragment(a) ELSE a
      c == IF "rxffafull" \in flags THEN ReadNextFragment(b) ELSE b
      d == IF "pksent" \in flags THEN OnPacketSent(c) ELSE c
      e == IF "pkvalid" \in flags THEN ReadPacket(d) ELSE d
      g == IF "crcerror" \in flags THEN OnCrcError(e) ELSE e
  IN  IF "pkvalid" \in flags /\ BadLength(d)
      THEN ClearRxBuf([d EXCEPT !.mode = "idle"])
      ELSE IF "preaval" \in flags THEN OnPreamble(g) ELSE g

Interrupt ==
  /\ flags # {} /\ pc # "filling"
  /\ r' = HandleInterrupt(r)
  /\ Losing("txffaem" \in flags /\ Overflows(AfterFifoError(r)), {})
  /\ UNCHANGED <<pc, msg, lens, noise, got, given, sent, crossed, torn>>

-----------------------------------------------------------------------------
(* The main program: recvfrom() or send() and waitPacketSent(), again and  *)
(* again.                                                                  *)

MainRuns(at) == pc = at /\ flags = {}

MainOnly == UNCHANGED <<lens, noise, sent>>
NotSend == UNCHANGED <<flags, crossed, lost, torn>>

\* available() looks at _rxBufValid, ...
Available ==
  /\ MainRuns("app")
  /\ pc' = IF r.valid THEN "copy" ELSE "listen"
  /\ MainOnly /\ NotSend /\ UNCHANGED <<r, msg, got, given>>

\* ... makes sure the receiver is on: setModeRx() looks at _mode, ...
Listen ==
  /\ MainRuns("listen")
  /\ pc' = IF r.mode = "rx" THEN "look" ELSE "switch"
  /\ MainOnly /\ NotSend /\ UNCHANGED <<r, msg, got, given>>

\* ... writes to the chip ...
SwitchOn ==
  /\ MainRuns("switch")
  /\ r' = SetMode(r, "rx")
  /\ pc' = "store"
  /\ MainOnly /\ NotSend /\ UNCHANGED <<msg, got, given>>

\* ... and then stores _mode, with interrupts enabled in between.
StoreMode ==
  /\ MainRuns("store")
  /\ r' = [r EXCEPT !.mode = "rx"]
  /\ torn' = (r.op # "rx")
  /\ pc' = "look"
  /\ MainOnly /\ UNCHANGED <<flags, crossed, lost, msg, got, given>>

\* After that available() looks again.
Look ==
  /\ MainRuns("look")
  /\ pc' = IF r.valid THEN "copy" ELSE "app"
  /\ MainOnly /\ NotSend /\ UNCHANGED <<r, msg, got, given>>

\* Mutant: the buffer is not cleared.
CopyOnly ==
  /\ MainRuns("copy")
  /\ msg' = r.buf
  /\ pc' = "headers"
  /\ MainOnly /\ NotSend /\ UNCHANGED <<r, got, given>>

\* recv() copies the buffer and clears it in an atomic block.
Copy ==
  /\ MainRuns("copy")
  /\ msg' = r.buf
  /\ r' = ClearRxBuf(r)
  /\ pc' = "headers"
  /\ MainOnly /\ NotSend /\ UNCHANGED <<got, given>>

\* recvfrom() reads the headers from the chip.
Headers ==
  /\ MainRuns("headers")
  /\ got' = Append(got, [data |-> msg, from |-> r.from])
  /\ msg' = <<>>
  /\ pc' = "app"
  /\ MainOnly /\ NotSend /\ UNCHANGED <<r, given>>

\* send() waits for the transmitter and disables interrupts.  It clears the
\* buffer whatever is in it, also for a length it then refuses.
Send ==
  /\ MainRuns("app") /\ r.mode # "tx"
  /\ Len(given) < MaxSends
  /\ crossed' = (crossed \/ r.valid)
  /\ \E n \in SendLengths :
       IF n \in 1 .. MaxLen
       THEN /\ given' = Append(given, n)
            /\ pc' = "filling"
            /\ UNCHANGED r
       ELSE /\ r' = ClearTxBuf(r)
            /\ UNCHANGED <<given, pc>>
  /\ MainOnly /\ UNCHANGED <<flags, lost, torn, msg, got>>

\* It fills the buffer and starts the transmitter before it enables them.
Transmit ==
  /\ pc = "filling"
  /\ LET filled == [ClearTxBuf(r) EXCEPT !.buf = Message(Len(given))]
     IN  r' = StartTransmit(filled) /\ Losing(Overflows(filled), flags)
  /\ crossed' = (crossed \/ flags # {})
  /\ torn' = FALSE
  /\ pc' = "sending"
  /\ MainOnly /\ UNCHANGED <<msg, got, given>>

WaitPacketSent ==
  /\ MainRuns("sending") /\ r.mode # "tx"
  /\ pc' = "app"
  /\ MainOnly /\ NotSend /\ UNCHANGED <<r, msg, got, given>>

Main == \/ Available \/ Listen \/ SwitchOn \/ StoreMode \/ Look \/ Copy \/ Headers
        \/ Transmit \/ WaitPacketSent

Next == Chip \/ Interrupt \/ Main \/ Send

Spec == Init /\ [][Next]_vars

\* The chip, the interrupts and the application's loop go on; whether there
\* is anything to receive or to send is up to others.
FairSpec == /\ Spec
            /\ WF_vars(RxOctet \/ RxEnd \/ TxOctet \/ TxEnd)
            /\ WF_vars(Interrupt)
            /\ WF_vars(Main)

-----------------------------------------------------------------------------
(* Properties.                                                             *)

Octet == 0 .. MaxPackets + MaxSends

\* Type of every variable.
TypeOK ==
  /\ r.mode \in {"idle", "rx", "tx"} /\ r.op \in {"idle", "rx", "tx"}
  /\ {r.buf, r.rxFifo, r.txFifo, r.aired} \subseteq Seq(Octet)
  /\ r.txSent \in Nat /\ r.valid \in BOOLEAN
  /\ r.air \in 0 .. MaxPackets /\ r.from \in 0 .. MaxPackets
  /\ flags \subseteq {"fferror", "txffaem", "rxffafull", "pksent", "pkvalid",
                      "crcerror", "preaval"}
  /\ pc \in {"app", "listen", "switch", "store", "look", "copy", "headers",
             "filling", "sending"}
  /\ {crossed, lost, torn} \subseteq BOOLEAN

\* _buf is never written past its end, whatever length a packet announces and
\* however many fragments came before; and of a transmission that starts in
\* nobody's way the chip loses octets only when the handler is held off and a
\* message is longer than the FIFO.
NothingOverflows ==
  /\ Len(r.buf) <= MaxLen
  /\ lost /\ ~crossed => Late /\ \E j \in DOMAIN given : given[j] > FifoSize

\* Unless a transmission has started in the way of a reception, a payload that
\* recv() returns is empty or that of one packet, whole, and no packet is
\* returned twice or after a later one.
RecvWholeOnceInOrder ==
  ~crossed =>
    /\ \A i \in DOMAIN got :
         got[i].data = <<>> \/ \E k \in DOMAIN lens : got[i].data = Packet(k)
    /\ \A i, j \in DOMAIN got :
         i < j /\ got[i].data # <<>> /\ got[j].data # <<>>
           => got[i].data[1] < got[j].data[1]

\* What goes out is what send() was given, each message once, in order, through
\* refills, underflows and restarts, unless the transmit FIFO has overflowed.
SentIsGiven ==
  ~crossed /\ ~lost =>
    \A i \in DOMAIN sent : i <= Len(given) /\ sent[i] = Message(i)

\* waitPacketSent() returns when the transmitter has finished, under the same
\* conditions.
WaitMeansSent ==
  [][pc = "sending" /\ pc' = "app" => r.op # "tx" \/ crossed \/ lost]_vars

\* waitPacketSent() does return.
WaitReturns == pc = "sending" ~> pc = "app"

\* A polling application finds a packet, or the receiver is on, again and
\* again: the driver does not believe that a receiver is on that is off, unless
\* a whole packet has come between the two stores of setModeRx(), and then only
\* until the next message is sent.
NeverDeaf == []<>(r.op = "rx" \/ r.valid \/ torn)
=============================================================================
