--------------------------- MODULE RF22RadioProofs ---------------------------
(***************************************************************************)
(* The driver for all lengths, thresholds and numbers of packets.          *)
(*                                                                         *)
(* While no transmission has started in the way of a reception and the     *)
(* transmit FIFO has not overflowed, the transmitter is quiet or busy with *)
(* the last message (Sending), and what comes before a preamble's packet   *)
(* in the receive FIFO is nothing (Receiving).                             *)
(***************************************************************************)
EXTENDS RF22Radio, SequenceTheorems, TLAPS

Modes == {"idle", "rx", "tx"}

Radio == [mode : Modes, buf : Seq(Octet), valid : BOOLEAN, txSent : 0 .. MaxLen,
          op : Modes, air : 0 .. MaxPackets, at : Nat,
          rxFifo : Seq(Octet), rxLen : Nat, from : 0 .. MaxPackets,
          txFifo : Seq(Octet), txLen : Nat, aired : Seq(Octet)]

\* The members of the object and the registers have their types, and the
\* buffer and the FIFOs have room for what they hold.
Fits(s) == /\ s \in Radio /\ Len(s.buf) <= MaxLen
           /\ Len(s.rxFifo) <= FifoSize /\ Len(s.txFifo) <= FifoSize

Flags == {"fferror", "txffaem", "rxffafull", "pksent", "pkvalid", "crcerror",
          "preaval"}

TypeInv ==
  /\ Fits(r)
  /\ flags \subseteq Flags
  /\ pc \in {"app", "listen", "switch", "store", "look", "copy", "headers",
             "filling", "sending"}
  /\ lens \in Seq(AirLengths) /\ Len(lens) <= MaxPackets /\ r.air <= Len(lens)
  /\ given \in Seq(1 .. MaxLen) /\ Len(given) <= MaxSends
  /\ sent \in Seq(Seq(Octet)) /\ msg \in Seq(Octet)
  /\ got \in Seq([data : Seq(Octet), from : 0 .. MaxPackets])
  /\ crossed \in BOOLEAN /\ lost \in BOOLEAN /\ torn \in BOOLEAN
  /\ pc \in {"filling", "sending"} => given # <<>>

\* The handler is called for each event by itself, unless it is held off.
OneFlag == ~Late /\ ~crossed => flags = {} \/ \E f \in Flags : flags = {f}

AllAre(q, octet) == \A i \in 1 .. Len(q) : q[i] = octet

\* Nothing is being transmitted.
Quiet ==
  /\ r.mode # "tx" /\ r.op # "tx" /\ r.txFifo = <<>>
  /\ "txffaem" \notin flags /\ "pksent" \notin flags
  /\ Len(sent) = IF pc = "filling" THEN Len(given) - 1 ELSE Len(given)
  /\ pc = "filling" => ~r.valid

\* The last message is going out: what was transmitted and what is in the
\* FIFO make up what was taken from the buffer.
Loaded(s) ==
  /\ s.op = "tx" /\ s.txSent <= Len(s.buf)
  /\ Len(s.aired) + Len(s.txFifo) = s.txSent
  /\ AllAre(s.aired, MaxPackets + Len(given))
  /\ AllAre(s.txFifo, MaxPackets + Len(given))

Underflow ==
  r.op = "idle" /\ "fferror" \in flags /\ "pksent" \notin flags /\ r.txFifo = <<>>

Out ==
  /\ r.op = "idle" /\ "pksent" \in flags /\ "fferror" \notin flags
  /\ r.txFifo = <<>> /\ r.txSent = Len(r.buf)

Busy(s) ==
  /\ s.mode = "tx" /\ s.buf = Message(Len(given)) /\ s.txLen = Len(s.buf)
  /\ ~s.valid

Sending ==
  \/ Quiet
  \/ /\ pc = "sending" /\ Busy(r) /\ flags \subseteq {"txffaem", "fferror", "pksent"}
     /\ \/ Loaded(r) /\ flags \subseteq {"txffaem"} /\ Len(sent) = Len(given) - 1
        \/ Underflow /\ Len(sent) = Len(given) - 1
        \/ Out /\ Len(sent) = Len(given)

\* At the refill the FIFO has no more than the threshold.
Low == "txffaem" \in flags => Len(r.txFifo) <= TxThreshold

\* Nothing has gone wrong so far.
Clean == ~crossed /\ ~lost

SendInv == Clean => Sending /\ SentIsGiven /\ Low

\* The transmit FIFO overflows when a refill meets the start of a
\* retransmission, and the message is longer than the FIFO.
TooLong == \E j \in 1 .. Len(given) : given[j] > FifoSize

LossInv == lost /\ ~crossed => Late /\ TooLong
-----------------------------------------------------------------------------
(* Reception.                                                               *)

\* Received messages fit the FIFO without a handler taking fragments out.
AsShipped == ~Late /\ MaxLen < RxThreshold /\ AirLengths \subseteq 0 .. MaxLen

Payload(q) == q = <<>> \/ \E k \in 1 .. Len(lens) : q = Packet(k)

Earlier(p, q) == p # <<>> /\ q # <<>> => p[1] < q[1]

Below(p, k) == p # <<>> => p[1] < k

\* The packet that waits to be copied by recv().
Waiting == IF r.valid THEN r.buf ELSE <<>>

\* The packet that comes in is alone in the FIFO.
Incoming ==
  /\ r.op = "rx" /\ r.air = Len(lens) /\ r.at <= lens[r.air]
  /\ Len(r.rxFifo) = r.at /\ AllAre(r.rxFifo, Len(lens))
  /\ flags \subseteq {"preaval"}
  /\ "preaval" \in flags => r.at = 0
  /\ "preaval" \notin flags => r.buf = <<>> /\ ~r.valid

\* It has come in.
CameIn ==
  /\ r.air = None /\ Len(lens) > 0 /\ r.rxLen = lens[Len(lens)]
  /\ Len(r.rxFifo) = r.rxLen /\ AllAre(r.rxFifo, Len(lens))
  /\ r.buf = <<>> /\ ~r.valid

Receiving ==
  /\ r.air # None => Incoming
  /\ "pkvalid" \in flags => CameIn
  /\ r.air = None /\ flags \cap {"pkvalid", "crcerror"} = {} => r.rxFifo = <<>>
  /\ "crcerror" \in flags => r.air = None
  /\ "rxffafull" \notin flags
  /\ "fferror" \in flags => r.mode = "tx"
  /\ pc = "copy" => r.valid \/ r.buf = <<>>

\* A packet is coming in or has just come in.
Coming == r.air # None \/ "pkvalid" \in flags

\* What was returned, what recv() has copied and what waits are packets, in
\* the order in which they came, and the one that comes in is later.
Ordered ==
  /\ \A i \in 1 .. Len(got) : Payload(got[i].data)
  /\ Payload(msg) /\ Payload(Waiting)
  /\ \A i, j \in 1 .. Len(got) : i < j => Earlier(got[i].data, got[j].data)
  /\ \A i \in 1 .. Len(got) :
       Earlier(got[i].data, msg) /\ Earlier(got[i].data, Waiting)
  /\ Earlier(msg, Waiting)
  /\ Coming => /\ \A i \in 1 .. Len(got) : Below(got[i].data, Len(lens))
               /\ Below(msg, Len(lens))

RecvInv == Clean => Receiving /\ Ordered
-----------------------------------------------------------------------------
(* What the driver's operations make of the radio.                          *)

LEMMA Numbers ==
  /\ MaxLen \in Nat /\ FifoSize \in Nat /\ TxThreshold \in Nat
  /\ RxThreshold \in Nat /\ RxThreshold >= 1 /\ RxThreshold <= FifoSize
  /\ TxThreshold + 1 < FifoSize
  /\ AirLengths \subseteq Nat
  /\ MaxPackets \in Nat /\ MaxSends \in Nat /\ MaxNoise \in Nat
  /\ Late \in BOOLEAN
BY RadioAssumption

\* The two sides of the chip, and what the driver and the chip are doing.
RxSame(s, t) == /\ t.rxFifo = s.rxFifo /\ t.rxLen = s.rxLen
                /\ t.air = s.air /\ t.at = s.at /\ t.from = s.from
TxSame(s, t) == /\ t.txFifo = s.txFifo /\ t.txLen = s.txLen
                /\ t.txSent = s.txSent /\ t.aired = s.aired
BufSame(s, t) == t.buf = s.buf /\ t.valid = s.valid
ModeSame(s, t) == t.mode = s.mode /\ t.op = s.op

LEMMA Nothing ==
  /\ <<>> \in Seq(Octet) /\ Len(<<>>) = 0
  /\ None \in 0 .. MaxPackets /\ 0 \in 0 .. MaxLen
BY Numbers DEF None

LEMMA SetModeIs ==
  ASSUME NEW s \in Radio, NEW op \in Modes
  PROVE  LET t == SetMode(s, op) IN
         /\ t \in Radio /\ t.op = op /\ t.mode = s.mode
         /\ BufSame(s, t) /\ t.rxFifo = s.rxFifo /\ t.rxLen = s.rxLen
         /\ t.txFifo = s.txFifo /\ t.txLen = s.txLen /\ t.txSent = s.txSent
         /\ s.op = op => t = s
         /\ s.op # op => t.air = None /\ t.aired = <<>>
         /\ t.air \in {s.air, None}
BY Nothing DEF SetMode, Radio, Modes, BufSame

LEMMA ClearRxBufIs ==
  ASSUME NEW s, Fits(s)
  PROVE  LET t == ClearRxBuf(s) IN
         /\ Fits(t) /\ RxSame(s, t) /\ TxSame(s, t) /\ ModeSame(s, t)
         /\ t.buf = <<>> /\ ~t.valid
<1> DEFINE t == ClearRxBuf(s)
<1>1. s \in Radio
  BY DEF Fits
<1>2. t = [s EXCEPT !.buf = <<>>, !.valid = FALSE]
  BY DEF ClearRxBuf
<1>3. t \in Radio
  BY <1>1, <1>2, Nothing DEF Radio
<1>4. /\ RxSame(s, t) /\ TxSame(s, t) /\ ModeSame(s, t)
      /\ t.buf = <<>> /\ ~t.valid
  BY <1>1, <1>2 DEF Radio, RxSame, TxSame, ModeSame
<1> QED BY <1>3, <1>4, Nothing, Numbers DEF Fits, RxSame, TxSame

LEMMA ClearTxBufIs ==
  ASSUME NEW s, Fits(s)
  PROVE  LET t == ClearTxBuf(s) IN
         /\ Fits(t) /\ RxSame(s, t) /\ ModeSame(s, t)
         /\ t.buf = <<>> /\ t.valid = s.valid /\ t.txSent = 0
         /\ t.txFifo = s.txFifo /\ t.txLen = s.txLen /\ t.aired = s.aired
<1> DEFINE t == ClearTxBuf(s)
<1>1. s \in Radio
  BY DEF Fits
<1>2. t = [s EXCEPT !.buf = <<>>, !.txSent = 0]
  BY DEF ClearTxBuf
<1>3. t \in Radio
  BY <1>1, <1>2, Nothing DEF Radio
<1>4. /\ RxSame(s, t) /\ ModeSame(s, t)
      /\ t.buf = <<>> /\ t.valid = s.valid /\ t.txSent = 0
      /\ t.txFifo = s.txFifo /\ t.txLen = s.txLen /\ t.aired = s.aired
  BY <1>1, <1>2 DEF Radio, RxSame, ModeSame
<1> QED BY <1>3, <1>4, Nothing, Numbers DEF Fits, RxSame, TxSame

LEMMA ResetRxFifoIs ==
  ASSUME NEW s, Fits(s)
  PROVE  LET t == ResetRxFifo(s) IN
         /\ Fits(t) /\ TxSame(s, t) /\ BufSame(s, t) /\ ModeSame(s, t)
         /\ t.rxFifo = <<>> /\ t.air = s.air
<1> DEFINE t == ResetRxFifo(s)
<1>1. s \in Radio
  BY DEF Fits
<1>2. t = [s EXCEPT !.rxFifo = <<>>]
  BY DEF ResetRxFifo
<1>3. t \in Radio
  BY <1>1, <1>2, Nothing DEF Radio
<1>4. /\ TxSame(s, t) /\ BufSame(s, t) /\ ModeSame(s, t)
      /\ t.rxFifo = <<>> /\ t.air = s.air
  BY <1>1, <1>2 DEF Radio, TxSame, BufSame, ModeSame
<1> QED BY <1>3, <1>4, Nothing, Numbers DEF Fits, BufSame, TxSame

LEMMA ResetFifosIs ==
  ASSUME NEW s, Fits(s)
  PROVE  LET t == ResetFifos(s) IN
         /\ Fits(t) /\ BufSame(s, t) /\ ModeSame(s, t)
         /\ t.rxFifo = <<>> /\ t.txFifo = <<>> /\ t.air = s.air
<1> DEFINE t == ResetFifos(s)
<1>1. s \in Radio
  BY DEF Fits
<1>2. t = [s EXCEPT !.rxFifo = <<>>, !.txFifo = <<>>]
  BY DEF ResetFifos
<1>3. t \in Radio
  BY <1>1, <1>2, Nothing DEF Radio
<1>4. /\ BufSame(s, t) /\ ModeSame(s, t)
      /\ t.rxFifo = <<>> /\ t.txFifo = <<>> /\ t.air = s.air
  BY <1>1, <1>2 DEF Radio, BufSame, ModeSame
<1> QED BY <1>3, <1>4, Nothing, Numbers DEF Fits, BufSame, TxSame

\* Writing _mode.
LEMMA ModeIs ==
  ASSUME NEW s, Fits(s), NEW mode \in Modes
  PROVE  LET t == [s EXCEPT !.mode = mode] IN
         /\ Fits(t) /\ TxSame(s, t) /\ RxSame(s, t) /\ BufSame(s, t)
         /\ t.mode = mode /\ t.op = s.op
<1> DEFINE t == [s EXCEPT !.mode = mode]
<1>1. s \in Radio
  BY DEF Fits
<1>2. /\ TxSame(s, t) /\ RxSame(s, t) /\ BufSame(s, t)
      /\ t.mode = mode /\ t.op = s.op /\ t \in Radio
  BY <1>1 DEF Radio, TxSame, RxSame, BufSame
<1> QED BY <1>2 DEF Fits, BufSame, RxSame, TxSame

LEMMA SetModeRxIs ==
  ASSUME NEW s, Fits(s)
  PROVE  LET t == SetModeRx(s) IN
         /\ Fits(t) /\ BufSame(s, t) /\ t.rxFifo = s.rxFifo
         /\ t.txFifo = s.txFifo /\ t.mode = "rx" /\ t.air \in {s.air, None}
         /\ s.mode = "rx" => t = s
         /\ s.op = "rx" => RxSame(s, t)
         /\ s.mode # "rx" => t.op = "rx"
<1> DEFINE u == SetMode(s, "rx")
           t == SetModeRx(s)
<1>1. s \in Radio /\ "rx" \in Modes
  BY DEF Fits, Modes
<1>2. /\ u \in Radio /\ u.op = "rx" /\ u.mode = s.mode /\ BufSame(s, u)
      /\ u.rxFifo = s.rxFifo /\ u.txFifo = s.txFifo
      /\ s.op = "rx" => u = s
      /\ u.air \in {s.air, None}
  BY <1>1, SetModeIs
<1>3. Fits(u)
  BY <1>2 DEF Fits, BufSame
<1>4. CASE s.mode = "rx"
  BY <1>4, <1>1 DEF SetModeRx, BufSame, RxSame
<1>5. CASE s.mode # "rx"
  <2>1. t = [u EXCEPT !.mode = "rx"]
    BY <1>5 DEF SetModeRx
  <2> HIDE DEF u
  <2>2. /\ Fits(t) /\ TxSame(u, t) /\ RxSame(u, t) /\ BufSame(u, t)
        /\ t.mode = "rx" /\ t.op = u.op
    BY <1>1, <1>3, <2>1, ModeIs
  <2> QED BY <1>2, <1>5, <2>2 DEF TxSame, RxSame, BufSame
<1> QED BY <1>4, <1>5

LEMMA SetModeTxIs ==
  ASSUME NEW s, Fits(s)
  PROVE  LET t == SetModeTx(s) IN
         /\ Fits(t) /\ BufSame(s, t) /\ t.mode = "tx"
         /\ t.txFifo = s.txFifo /\ t.txLen = s.txLen /\ t.txSent = s.txSent
         /\ t.air \in {s.air, None}
         /\ s.mode # "tx" => t.op = "tx" /\ t.rxFifo = <<>>
         /\ s.mode # "tx" /\ s.op # "tx" => t.air = None /\ t.aired = <<>>
<1> DEFINE u == SetMode(s, "tx")
           v == [u EXCEPT !.mode = "tx"]
           t == SetModeTx(s)
<1>1. s \in Radio /\ "tx" \in Modes
  BY DEF Fits, Modes
<1>2. /\ u \in Radio /\ u.op = "tx" /\ BufSame(s, u) /\ u.rxFifo = s.rxFifo
      /\ u.txFifo = s.txFifo /\ u.txLen = s.txLen /\ u.txSent = s.txSent
      /\ s.op # "tx" => u.air = None /\ u.aired = <<>>
      /\ u.air \in {s.air, None}
  BY <1>1, SetModeIs
<1>3. Fits(u)
  BY <1>2 DEF Fits, BufSame
<1>4. CASE s.mode = "tx"
  BY <1>4 DEF SetModeTx, BufSame
<1>5. CASE s.mode # "tx"
  <2>1. t = ResetRxFifo(v)
    BY <1>5 DEF SetModeTx
  <2> HIDE DEF u
  <2>2. /\ Fits(v) /\ TxSame(u, v) /\ RxSame(u, v) /\ BufSame(u, v)
        /\ v.mode = "tx" /\ v.op = u.op
    BY <1>1, <1>3, ModeIs
  <2> HIDE DEF v
  <2>3. /\ Fits(t) /\ TxSame(v, t) /\ BufSame(v, t) /\ ModeSame(v, t)
        /\ t.rxFifo = <<>> /\ t.air = v.air
    BY <2>1, <2>2, ResetRxFifoIs
  <2> QED BY <1>2, <1>5, <2>2, <2>3 DEF TxSame, RxSame, BufSame, ModeSame
<1> QED BY <1>4, <1>5

LEMMA FragmentIs ==
  ASSUME NEW s, Fits(s)
  PROVE  /\ Len(s.buf) \in Nat /\ Len(s.txFifo) \in Nat /\ s.txSent \in Nat
         /\ s.txSent \in 0 .. MaxLen /\ Len(s.buf) <= MaxLen
         /\ Room(s) \in Nat /\ Len(s.txFifo) + Room(s) = FifoSize
         /\ FragmentLen(s) \in Nat
         /\ FragmentLen(s) <= FifoSize - TxThreshold - 1
         /\ s.txSent >= Len(s.buf) => FragmentLen(s) = 0
         /\ s.txSent < Len(s.buf) => s.txSent + FragmentLen(s) <= Len(s.buf)
<1>1. /\ Len(s.buf) \in Nat /\ Len(s.txFifo) \in Nat /\ Len(s.buf) <= MaxLen
      /\ s.txSent \in 0 .. MaxLen /\ Len(s.txFifo) <= FifoSize
  BY DEF Fits, Radio
<1>2. s.txSent \in Nat /\ MaxLen \in Nat /\ FifoSize \in Nat
      /\ TxThreshold \in Nat /\ TxThreshold + 1 < FifoSize
  BY <1>1, Numbers
<1>3. Room(s) \in Nat /\ Len(s.txFifo) + Room(s) = FifoSize
  BY <1>1, <1>2 DEF Room
<1>4. CASE s.txSent >= Len(s.buf)
  BY <1>1, <1>2, <1>3, <1>4 DEF FragmentLen
<1>5. CASE s.txSent < Len(s.buf)
  BY <1>1, <1>2, <1>3, <1>5 DEF FragmentLen, Least
<1> QED BY <1>1, <1>2, <1>4, <1>5

LEMMA SendNextFragmentIs ==
  ASSUME NEW s, Fits(s)
  PROVE  LET t == SendNextFragment(s) IN
         /\ Fits(t) /\ RxSame(s, t) /\ BufSame(s, t) /\ ModeSame(s, t)
         /\ t.txLen = s.txLen /\ t.aired = s.aired
         /\ s.txSent >= Len(s.buf) => t.txFifo = s.txFifo /\ t.txSent = s.txSent
         /\ s.txSent < Len(s.buf) /\ ~Overflows(s) =>
              /\ t.txSent <= Len(s.buf)
              /\ Len(t.txFifo) = Len(s.txFifo) + t.txSent - s.txSent
              /\ \A octet : AllAre(s.txFifo, octet) /\ AllAre(s.buf, octet)
                             => AllAre(t.txFifo, octet)
<1> DEFINE t == SendNextFragment(s)
           k == Least(FragmentLen(s), Room(s))
           end == s.txSent + k
           sent2 == s.txSent + FragmentLen(s)
           part == SubSeq(s.buf, s.txSent + 1, end)
           fifo == s.txFifo \o part
<1>1. s \in Radio /\ s.txFifo \in Seq(Octet) /\ s.buf \in Seq(Octet)
  BY DEF Fits, Radio
<1>2. /\ Len(s.buf) \in Nat /\ Len(s.txFifo) \in Nat /\ s.txSent \in Nat
      /\ s.txSent \in 0 .. MaxLen /\ Len(s.buf) <= MaxLen
      /\ Room(s) \in Nat /\ Len(s.txFifo) + Room(s) = FifoSize
      /\ FragmentLen(s) \in Nat
      /\ s.txSent >= Len(s.buf) => FragmentLen(s) = 0
      /\ s.txSent < Len(s.buf) => s.txSent + FragmentLen(s) <= Len(s.buf)
  BY FragmentIs
<1>3. /\ k \in Nat /\ k <= FragmentLen(s) /\ k <= Room(s)
      /\ ~Overflows(s) => k = FragmentLen(s)
  BY <1>2 DEF Least, Overflows
<1>4. /\ end \in Nat /\ end - s.txSent = k /\ sent2 \in 0 .. MaxLen
      /\ k # 0 => end <= Len(s.buf)
  <2>1. CASE s.txSent >= Len(s.buf)
    BY <1>2, <1>3, <2>1, Numbers
  <2>2. CASE s.txSent < Len(s.buf)
    BY <1>2, <1>3, <2>2, Numbers
  <2> QED BY <1>2, <2>1, <2>2
<1>5. t = [s EXCEPT !.txFifo = fifo, !.txSent = sent2]
  BY <1>1 DEF SendNextFragment, Radio
<1> HIDE DEF k, end, sent2
<1>6. /\ part \in Seq(Octet) /\ Len(part) = k
      /\ \A i \in 1 .. k : part[i] = s.buf[s.txSent + i]
  <2> DEFINE from == s.txSent + 1
  <2>1. from \in Int /\ end \in Int /\ end - from + 1 = k /\ from >= 1
        /\ (IF from <= end THEN end - from + 1 ELSE 0) = k
        /\ \A i \in 1 .. k : from + i - 1 = s.txSent + i
    <3>1. /\ s.txSent \in Nat /\ end \in Nat /\ k \in Nat
          /\ end - s.txSent = k
      BY <1>2, <1>3, <1>4
    <3> QED BY <3>1
  <2> HIDE DEF from
  <2>2. \A i \in from .. end : s.buf[i] \in Octet
    <3> TAKE i \in from .. end
    <3>1. k # 0
      BY <1>3, <2>1
    <3>2. i \in 1 .. Len(s.buf)
      BY <1>2, <1>4, <2>1, <3>1, LenProperties
    <3> QED BY <1>1, <3>2, ElementOfSeq
  <2>3. /\ SubSeq(s.buf, from, end) \in Seq(Octet)
        /\ Len(SubSeq(s.buf, from, end)) = k
        /\ \A i \in 1 .. k : SubSeq(s.buf, from, end)[i] = s.buf[from + i - 1]
    BY <2>1, <2>2, SubSeqProperties
  <2>4. part = SubSeq(s.buf, from, end)
    BY DEF from
  <2> QED BY <2>1, <2>3, <2>4
<1> HIDE DEF part
<1>7. /\ fifo \in Seq(Octet) /\ Len(fifo) = Len(s.txFifo) + k
      /\ \A i \in 1 .. Len(s.txFifo) + k : fifo[i] =
            IF i <= Len(s.txFifo) THEN s.txFifo[i] ELSE part[i - Len(s.txFifo)]
  <2>1. /\ fifo \in Seq(Octet) /\ Len(fifo) = Len(s.txFifo) + Len(part)
        /\ \A i \in 1 .. Len(s.txFifo) + Len(part) : fifo[i] =
              IF i <= Len(s.txFifo) THEN s.txFifo[i]
                                    ELSE part[i - Len(s.txFifo)]
    BY <1>1, <1>6, ConcatProperties
  <2> QED BY <1>1, <1>6, <2>1
<1>8. ASSUME s.txSent < Len(s.buf),
             NEW octet, AllAre(s.txFifo, octet), AllAre(s.buf, octet)
      PROVE  AllAre(fifo, octet)
  <2> SUFFICES ASSUME NEW i \in 1 .. Len(fifo) PROVE fifo[i] = octet
    BY DEF AllAre
  <2>1. CASE i <= Len(s.txFifo)
    BY <1>2, <1>3, <1>7, <1>8, <2>1 DEF AllAre
  <2>2. CASE i > Len(s.txFifo)
    <3>1. i \in Nat /\ i <= Len(s.txFifo) + k
      BY <1>3, <1>7
    <3> DEFINE j == i - Len(s.txFifo)
    <3>2. j \in 1 .. k /\ k # 0
      BY <1>2, <1>3, <2>2, <3>1
    <3>3. i \in 1 .. Len(s.txFifo) + k
      BY <1>7
    <3>4. fifo[i] = part[j]
      BY <1>2, <1>7, <2>2, <3>1, <3>2, <3>3
    <3>5. part[j] = s.buf[s.txSent + j]
      BY <1>6, <3>2
    <3>6. s.txSent + j \in 1 .. Len(s.buf)
      <4>1. j \in Nat /\ j >= 1 /\ j <= k
        BY <1>3, <3>2
      <4>2. s.txSent + k <= Len(s.buf)
        BY <1>2, <1>3, <1>4, <3>2 DEF end
      <4> HIDE DEF j
      <4> QED BY <1>2, <1>3, <4>1, <4>2
    <3> QED BY <1>8, <3>4, <3>5, <3>6 DEF AllAre
  <2> QED BY <1>2, <1>3, <1>7, <2>1, <2>2
<1>9. s.txSent >= Len(s.buf) => fifo = s.txFifo /\ sent2 = s.txSent
  <2> SUFFICES ASSUME s.txSent >= Len(s.buf)
               PROVE  fifo = s.txFifo /\ sent2 = s.txSent
    OBVIOUS
  <2>1. FragmentLen(s) = 0 /\ k = 0
    BY <1>2, <1>3
  <2>2. part = <<>>
    BY <1>6, <2>1
  <2> QED BY <1>1, <1>2, <2>1, <2>2 DEF sent2
<1> HIDE DEF fifo
<1>10. /\ t \in Radio /\ t.txFifo = fifo /\ t.txSent = sent2
       /\ RxSame(s, t) /\ BufSame(s, t) /\ ModeSame(s, t)
       /\ t.txLen = s.txLen /\ t.aired = s.aired
  BY <1>1, <1>4, <1>5, <1>7 DEF Radio, RxSame, BufSame, ModeSame
<1> HIDE DEF t
<1>11. Len(fifo) <= FifoSize
  BY <1>2, <1>3, <1>7, Numbers
<1>12. Fits(t)
  BY <1>10, <1>11 DEF Fits, RxSame, BufSame
<1>13. ASSUME s.txSent < Len(s.buf), ~Overflows(s)
       PROVE  /\ t.txSent <= Len(s.buf)
              /\ Len(t.txFifo) = Len(s.txFifo) + t.txSent - s.txSent
  BY <1>2, <1>3, <1>7, <1>10, <1>13 DEF sent2
<1>14. s.txSent < Len(s.buf) =>
         \A octet : AllAre(s.txFifo, octet) /\ AllAre(s.buf, octet)
                      => AllAre(t.txFifo, octet)
  BY <1>8, <1>10
<1> QED BY <1>9, <1>10, <1>12, <1>13, <1>14 DEF t

\* What does not fit in the FIFO is more than the threshold leaves room for,
\* and the chip has not had all of a message longer than the FIFO.
LEMMA OverflowIs ==
  ASSUME NEW s, Fits(s), Overflows(s)
  PROVE  /\ Len(s.txFifo) > TxThreshold
         /\ s.txSent < Len(s.buf)
         /\ Len(s.txFifo) <= s.txSent => Len(s.buf) > FifoSize
<1>1. /\ Len(s.buf) \in Nat /\ Len(s.txFifo) \in Nat /\ s.txSent \in Nat
      /\ Room(s) \in Nat /\ Len(s.txFifo) + Room(s) = FifoSize
      /\ FragmentLen(s) \in Nat
      /\ FragmentLen(s) <= FifoSize - TxThreshold - 1
      /\ s.txSent >= Len(s.buf) => FragmentLen(s) = 0
      /\ s.txSent < Len(s.buf) => s.txSent + FragmentLen(s) <= Len(s.buf)
  BY FragmentIs
<1>2. FragmentLen(s) > Room(s)
  BY DEF Overflows
<1>3. s.txSent < Len(s.buf)
  BY <1>1, <1>2
<1>4. FifoSize \in Nat /\ TxThreshold \in Nat
  BY Numbers
<1> QED BY <1>1, <1>2, <1>3, <1>4

LEMMA FromFifoIs ==
  ASSUME NEW s, Fits(s), NEW n \in Nat
  PROVE  /\ FromFifo(s, n) \in Seq(Octet) /\ Len(FromFifo(s, n)) = n
         /\ AfterRead(s, n) \in Seq(Octet) /\ Len(AfterRead(s, n)) <= FifoSize
         /\ n = Len(s.rxFifo) =>
               FromFifo(s, n) = s.rxFifo /\ AfterRead(s, n) = <<>>
<1>1. s.rxFifo \in Seq(Octet) /\ Len(s.rxFifo) <= FifoSize /\ Junk \in Octet
  BY Numbers DEF Fits, Radio, Octet, Junk
<1>2. FromFifo(s, n) \in Seq(Octet) /\ Len(FromFifo(s, n)) = n
  BY <1>1 DEF FromFifo
<1>3. AfterRead(s, n) \in Seq(Octet) /\ Len(AfterRead(s, n)) <= FifoSize
  <2>1. CASE n < Len(s.rxFifo)
    <3> DEFINE rest == SubSeq(s.rxFifo, n + 1, Len(s.rxFifo))
    <3>1. rest \in Seq(Octet) /\ Len(rest) = Len(s.rxFifo) - n
      <4>1. /\ n + 1 \in Int /\ Len(s.rxFifo) \in Int /\ n + 1 <= Len(s.rxFifo)
            /\ Len(s.rxFifo) - (n + 1) + 1 = Len(s.rxFifo) - n
        BY <1>1, <2>1, LenProperties
      <4>2. \A i \in n + 1 .. Len(s.rxFifo) : s.rxFifo[i] \in Octet
        BY <1>1, ElementOfSeq
      <4> QED BY <4>1, <4>2, SubSeqProperties
    <3>2. AfterRead(s, n) = rest
      BY <2>1 DEF AfterRead
    <3> HIDE DEF rest
    <3> QED BY <1>1, <3>1, <3>2, Numbers
  <2>2. CASE ~(n < Len(s.rxFifo))
    BY <2>2, Nothing, Numbers DEF AfterRead
  <2> QED BY <2>1, <2>2
<1>4. n = Len(s.rxFifo) => FromFifo(s, n) = s.rxFifo /\ AfterRead(s, n) = <<>>
  BY <1>1 DEF FromFifo, AfterRead
<1> QED BY <1>2, <1>3, <1>4

\* Octets from the FIFO go behind those in the buffer.
LEMMA ReadIs ==
  ASSUME NEW s, Fits(s), NEW n \in Nat, Len(s.buf) + n <= MaxLen
  PROVE  LET t == [s EXCEPT !.buf = @ \o FromFifo(s, n),
                            !.rxFifo = AfterRead(s, n)]
         IN  /\ Fits(t) /\ TxSame(s, t) /\ ModeSame(s, t)
             /\ t.valid = s.valid /\ t.air = s.air
             /\ s.buf = <<>> /\ n = Len(s.rxFifo) =>
                   t.buf = s.rxFifo /\ t.rxFifo = <<>>
<1> DEFINE q == FromFifo(s, n)
           rest == AfterRead(s, n)
           buf == s.buf \o q
           t == [s EXCEPT !.buf = buf, !.rxFifo = rest]
<1>1. s \in Radio /\ s.buf \in Seq(Octet) /\ s.rxFifo \in Seq(Octet)
  BY DEF Fits, Radio
<1>2. /\ q \in Seq(Octet) /\ Len(q) = n
      /\ rest \in Seq(Octet) /\ Len(rest) <= FifoSize
      /\ n = Len(s.rxFifo) => q = s.rxFifo /\ rest = <<>>
  BY FromFifoIs
<1> HIDE DEF q, rest
<1>3. buf \in Seq(Octet) /\ Len(buf) = Len(s.buf) + n
  BY <1>1, <1>2, ConcatProperties
<1>4. s.buf = <<>> => buf = q
  BY <1>2
<1> HIDE DEF buf
<1>5. /\ t \in Radio /\ t.buf = buf /\ t.rxFifo = rest
      /\ TxSame(s, t) /\ ModeSame(s, t) /\ t.valid = s.valid /\ t.air = s.air
  BY <1>1, <1>2, <1>3 DEF Radio, TxSame, ModeSame
<1>6. t = [s EXCEPT !.buf = @ \o FromFifo(s, n), !.rxFifo = AfterRead(s, n)]
  BY <1>1 DEF q, rest, buf, Radio
<1>7. Fits(t)
  BY <1>2, <1>3, <1>5 DEF Fits, TxSame
<1> HIDE DEF t
<1> QED BY <1>2, <1>4, <1>5, <1>6, <1>7

LEMMA ReadNextFragmentIs ==
  ASSUME NEW s, Fits(s)
  PROVE  LET t == ReadNextFragment(s) IN
         /\ Fits(t) /\ TxSame(s, t) /\ ModeSame(s, t) /\ t.air = s.air
<1>1. CASE Len(s.buf) + RxThreshold > MaxLen
  BY <1>1 DEF ReadNextFragment, TxSame, ModeSame
<1>2. CASE Len(s.buf) + RxThreshold <= MaxLen
  <2>1. Len(s.buf) \in Nat
    BY DEF Fits, Radio
  <2>2. ~(Len(s.buf) + RxThreshold > MaxLen) /\ RxThreshold \in Nat
    BY <1>2, <2>1, Numbers
  <2>3. ReadNextFragment(s) = [s EXCEPT !.buf = @ \o FromFifo(s, RxThreshold),
                                        !.rxFifo = AfterRead(s, RxThreshold)]
    BY <2>2 DEF ReadNextFragment
  <2> DEFINE t == [s EXCEPT !.buf = @ \o FromFifo(s, RxThreshold),
                            !.rxFifo = AfterRead(s, RxThreshold)]
  <2>4. Fits(t) /\ TxSame(s, t) /\ ModeSame(s, t) /\ t.air = s.air
    BY <1>2, <2>2, ReadIs
  <2> HIDE DEF t
  <2> QED BY <2>3, <2>4 DEF t
<1>3. Len(s.buf) \in Nat
  BY DEF Fits, Radio
<1> QED BY <1>1, <1>2, <1>3, Numbers

LEMMA ReadPacketIs ==
  ASSUME NEW s, Fits(s), ~BadLength(s)
  PROVE  LET t == ReadPacket(s) IN
         /\ Fits(t) /\ TxSame(s, t) /\ t.op = s.op /\ t.air = s.air
         /\ t.mode = "idle" /\ t.valid
         /\ s.buf = <<>> /\ s.rxLen = Len(s.rxFifo) =>
               t.buf = s.rxFifo /\ t.rxFifo = <<>>
<1> DEFINE n == s.rxLen - Len(s.buf)
           u == [s EXCEPT !.buf = @ \o FromFifo(s, n),
                          !.rxFifo = AfterRead(s, n)]
           v == [u EXCEPT !.mode = "idle"]
           t == [v EXCEPT !.valid = TRUE]
<1>1. s \in Radio /\ Len(s.buf) \in Nat /\ s.rxLen \in Nat
  BY DEF Fits, Radio
<1>2. n \in Nat /\ Len(s.buf) + n <= MaxLen /\ (s.buf = <<>> => n = s.rxLen)
  BY <1>1, Numbers DEF BadLength
<1>3. ReadPacket(s) = t
  BY <1>1 DEF ReadPacket, Radio
<1> HIDE DEF n
<1>4. /\ Fits(u) /\ TxSame(s, u) /\ ModeSame(s, u) /\ u.air = s.air
      /\ s.buf = <<>> /\ n = Len(s.rxFifo) => u.buf = s.rxFifo /\ u.rxFifo = <<>>
  BY <1>2, ReadIs
<1> HIDE DEF u
<1>5. /\ Fits(v) /\ TxSame(u, v) /\ RxSame(u, v) /\ BufSame(u, v)
      /\ v.mode = "idle" /\ v.op = u.op
  BY <1>4, ModeIs DEF Modes
<1> HIDE DEF v
<1>6. v \in Radio
  BY <1>5 DEF Fits
<1>7. /\ t \in Radio /\ TxSame(v, t) /\ RxSame(v, t) /\ ModeSame(v, t)
      /\ t.buf = v.buf /\ t.valid
  BY <1>6 DEF Radio, TxSame, RxSame, ModeSame
<1>8. Fits(t)
  BY <1>5, <1>7 DEF Fits, RxSame, TxSame
<1> HIDE DEF t
<1> QED
  BY <1>2, <1>3, <1>4, <1>5, <1>7, <1>8 DEF TxSame, RxSame, BufSame, ModeSame

\* A transmission is started with the FIFO empty and the message in the
\* buffer: the radio transmits, and the first octets are in the FIFO.
Started(s, t) ==
  /\ t.op = "tx" /\ t.air = None /\ t.rxFifo = <<>> /\ t.aired = <<>>
  /\ t.txSent <= Len(s.buf) /\ Len(t.txFifo) = t.txSent
  /\ \A octet : AllAre(s.buf, octet) => AllAre(t.txFifo, octet)

LEMMA StartTransmitIs ==
  ASSUME NEW s, Fits(s)
  PROVE  LET t == StartTransmit(s) IN
         /\ Fits(t) /\ BufSame(s, t) /\ t.mode = "tx" /\ t.txLen = Len(s.buf)
         /\ t.air \in {s.air, None}
         /\ s.mode # "tx" /\ s.op # "tx" /\ s.txFifo = <<>> /\ s.txSent = 0
            => Started(s, t)
<1> DEFINE u == SendNextFragment(s)
           v == [u EXCEPT !.txLen = Len(s.buf)]
           t == StartTransmit(s)
<1>1. /\ Fits(u) /\ RxSame(s, u) /\ BufSame(s, u) /\ ModeSame(s, u)
      /\ u.txLen = s.txLen /\ u.aired = s.aired
      /\ s.txSent >= Len(s.buf) => u.txFifo = s.txFifo /\ u.txSent = s.txSent
      /\ s.txSent < Len(s.buf) /\ ~Overflows(s) =>
           /\ u.txSent <= Len(s.buf)
           /\ Len(u.txFifo) = Len(s.txFifo) + u.txSent - s.txSent
           /\ \A octet : AllAre(s.txFifo, octet) /\ AllAre(s.buf, octet)
                          => AllAre(u.txFifo, octet)
  BY SendNextFragmentIs
<1>2. t = SetModeTx(v)
  BY DEF StartTransmit
<1> HIDE DEF u
<1>3. u \in Radio /\ Len(s.buf) \in Nat /\ u.txSent \in Nat
  BY <1>1, Numbers DEF Fits, Radio
<1>4. /\ v \in Radio /\ RxSame(u, v) /\ BufSame(u, v) /\ ModeSame(u, v)
      /\ v.txFifo = u.txFifo /\ v.txSent = u.txSent /\ v.txLen = Len(s.buf)
  BY <1>3 DEF Radio, RxSame, BufSame, ModeSame
<1>5. Fits(v)
  BY <1>1, <1>4 DEF Fits, RxSame, BufSame
<1> HIDE DEF v
<1>6. /\ Fits(t) /\ BufSame(v, t) /\ t.mode = "tx"
      /\ t.txFifo = v.txFifo /\ t.txLen = v.txLen /\ t.txSent = v.txSent
      /\ t.air \in {v.air, None}
      /\ v.mode # "tx" => t.op = "tx" /\ t.rxFifo = <<>>
      /\ v.mode # "tx" /\ v.op # "tx" => t.air = None /\ t.aired = <<>>
  BY <1>2, <1>5, SetModeTxIs
<1>7. /\ Fits(t) /\ BufSame(s, t) /\ t.mode = "tx" /\ t.txLen = Len(s.buf)
      /\ t.air \in {s.air, None}
  BY <1>1, <1>4, <1>6 DEF BufSame, RxSame
<1>8. ASSUME s.mode # "tx", s.op # "tx", s.txFifo = <<>>, s.txSent = 0
      PROVE  Started(s, t)
  <2>1. t.op = "tx" /\ t.rxFifo = <<>> /\ t.air = None /\ t.aired = <<>>
    BY <1>1, <1>4, <1>6, <1>8 DEF ModeSame
  <2>2. t.txSent = u.txSent /\ t.txFifo = u.txFifo
    BY <1>4, <1>6
  <2>3. CASE s.txSent < Len(s.buf)
    <3>1. \A octet : AllAre(<<>>, octet)
      BY DEF AllAre
    <3>2. Len(s.txFifo) = 0
      BY <1>8
    <3>3. ~Overflows(s)
      BY <3>2, OverflowIs, Numbers
    <3> QED BY <1>1, <1>3, <1>8, <2>1, <2>2, <2>3, <3>1, <3>2, <3>3 DEF Started
  <2>4. CASE s.txSent >= Len(s.buf)
    <3>1. u.txFifo = s.txFifo /\ u.txSent = s.txSent
      BY <1>1, <2>4
    <3>2. Len(s.buf) = 0
      BY <1>3, <1>8, <2>4
    <3>3. \A octet : AllAre(<<>>, octet)
      BY DEF AllAre
    <3> QED BY <1>8, <2>1, <2>2, <3>1, <3>2, <3>3, Nothing, Numbers DEF Started
  <2> QED BY <1>3, <1>8, <2>3, <2>4
<1> HIDE DEF t
<1> QED BY <1>7, <1>8 DEF t

LEMMA RestartTransmitIs ==
  ASSUME NEW s, Fits(s)
  PROVE  LET t == RestartTransmit(s) IN
         /\ Fits(t) /\ BufSame(s, t) /\ t.mode = "tx" /\ t.txLen = Len(s.buf)
         /\ t.air \in {s.air, None}
         /\ s.op # "tx" /\ s.txFifo = <<>> => Started(s, t)
<1> DEFINE u == [s EXCEPT !.mode = "idle", !.txSent = 0]
           t == RestartTransmit(s)
<1>1. s \in Radio
  BY DEF Fits
<1>2. /\ u \in Radio /\ BufSame(s, u) /\ RxSame(s, u) /\ u.op = s.op
      /\ u.mode = "idle" /\ u.txSent = 0 /\ u.txFifo = s.txFifo
  BY <1>1, Nothing DEF Radio, BufSame, RxSame, Modes
<1>3. Fits(u)
  BY <1>2 DEF Fits, BufSame, RxSame
<1>4. t = StartTransmit(u)
  BY DEF RestartTransmit
<1> HIDE DEF u
<1>5. /\ Fits(t) /\ BufSame(u, t) /\ t.mode = "tx" /\ t.txLen = Len(u.buf)
      /\ t.air \in {u.air, None}
      /\ u.mode # "tx" /\ u.op # "tx" /\ u.txFifo = <<>> /\ u.txSent = 0
         => Started(u, t)
  BY <1>3, <1>4, StartTransmitIs
<1>6. Started(u, t) => Started(s, t)
  BY <1>2 DEF Started, BufSame
<1> HIDE DEF t
<1> QED BY <1>2, <1>5, <1>6 DEF BufSame, RxSame, t
-----------------------------------------------------------------------------
(* The interrupt handler.                                                   *)

LEMMA OnFifoErrorIs ==
  ASSUME NEW s, Fits(s)
  PROVE  LET t == OnFifoError(s) IN
         /\ Fits(t) /\ t.mode = s.mode /\ t.air \in {s.air, None}
         /\ s.mode = "tx" =>
              /\ BufSame(s, t) /\ t.txLen = Len(s.buf)
              /\ s.op # "tx" => Started(s, t)
         /\ s.mode # "tx" => t.op = s.op /\ t.txFifo = <<>>
<1> DEFINE u == ResetFifos(s)
           t == OnFifoError(s)
<1>1. /\ Fits(u) /\ BufSame(s, u) /\ ModeSame(s, u)
      /\ u.rxFifo = <<>> /\ u.txFifo = <<>> /\ u.air = s.air
  BY ResetFifosIs
<1>2. t = IF u.mode = "tx" THEN RestartTransmit(u)
          ELSE IF u.mode = "rx" THEN ClearRxBuf(u) ELSE u
  BY DEF OnFifoError
<1> HIDE DEF u
<1>3. CASE s.mode = "tx"
  <2>1. t = RestartTransmit(u)
    BY <1>1, <1>2, <1>3 DEF ModeSame
  <2>2. /\ Fits(t) /\ BufSame(u, t) /\ t.mode = "tx" /\ t.txLen = Len(u.buf)
        /\ t.air \in {u.air, None}
        /\ u.op # "tx" /\ u.txFifo = <<>> => Started(u, t)
    BY <1>1, <2>1, RestartTransmitIs
  <2>3. Started(u, t) => Started(s, t)
    BY <1>1 DEF Started, BufSame
  <2> QED BY <1>1, <1>3, <2>2, <2>3 DEF BufSame, ModeSame
<1>4. CASE s.mode = "rx"
  <2>1. t = ClearRxBuf(u)
    BY <1>1, <1>2, <1>4 DEF ModeSame
  <2>2. Fits(t) /\ RxSame(u, t) /\ TxSame(u, t) /\ ModeSame(u, t)
    BY <1>1, <2>1, ClearRxBufIs
  <2> QED BY <1>1, <1>4, <2>2 DEF RxSame, TxSame, ModeSame
<1>5. CASE s.mode \notin {"tx", "rx"}
  BY <1>1, <1>2, <1>5 DEF ModeSame
<1> QED BY <1>3, <1>4, <1>5

LEMMA OnPacketSentIs ==
  ASSUME NEW s, Fits(s)
  PROVE  LET t == OnPacketSent(s) IN
         /\ Fits(t) /\ TxSame(s, t) /\ RxSame(s, t) /\ BufSame(s, t)
         /\ t.mode = "idle" /\ t.op = s.op
BY ModeIs DEF OnPacketSent, Modes

LEMMA OnCrcErrorIs ==
  ASSUME NEW s, Fits(s)
  PROVE  LET t == OnCrcError(s) IN
         /\ Fits(t) /\ t.mode = "rx" /\ t.op = "rx" /\ t.txFifo = s.txFifo
         /\ t.buf = <<>> /\ ~t.valid /\ t.rxFifo = <<>> /\ t.air \in {s.air, None}
<1> DEFINE a == ClearRxBuf(s)
           b == ResetRxFifo(a)
           c == [b EXCEPT !.mode = "idle"]
           t == OnCrcError(s)
<1>1. /\ Fits(a) /\ RxSame(s, a) /\ TxSame(s, a) /\ ModeSame(s, a)
      /\ a.buf = <<>> /\ ~a.valid
  BY ClearRxBufIs
<1>2. t = SetModeRx(c)
  BY DEF OnCrcError
<1> HIDE DEF a
<1>3. /\ Fits(b) /\ TxSame(a, b) /\ BufSame(a, b) /\ ModeSame(a, b)
      /\ b.rxFifo = <<>> /\ b.air = a.air
  BY <1>1, ResetRxFifoIs
<1> HIDE DEF b
<1>4. /\ Fits(c) /\ TxSame(b, c) /\ RxSame(b, c) /\ BufSame(b, c)
      /\ c.mode = "idle" /\ c.op = b.op
  BY <1>3, ModeIs DEF Modes
<1> HIDE DEF c
<1>5. /\ Fits(t) /\ BufSame(c, t) /\ t.rxFifo = c.rxFifo
      /\ t.txFifo = c.txFifo /\ t.mode = "rx" /\ t.air \in {c.air, None}
      /\ c.mode # "rx" => t.op = "rx"
  BY <1>2, <1>4, SetModeRxIs
<1> HIDE DEF t
<1> QED
  BY <1>1, <1>3, <1>4, <1>5 DEF TxSame, RxSame, BufSame, ModeSame, t

LEMMA HandlerFits ==
  ASSUME Fits(r)
  PROVE  Fits(HandleInterrupt(r)) /\ HandleInterrupt(r).air \in {r.air, None}
<1> DEFINE a == AfterFifoError(r)
           b == IF "txffaem" \in flags THEN SendNextFragment(a) ELSE a
           c == IF "rxffafull" \in flags THEN ReadNextFragment(b) ELSE b
           d == IF "pksent" \in flags THEN OnPacketSent(c) ELSE c
           e == IF "pkvalid" \in flags THEN ReadPacket(d) ELSE d
           g == IF "crcerror" \in flags THEN OnCrcError(e) ELSE e
           x == [d EXCEPT !.mode = "idle"]
           OK(s) == Fits(s) /\ s.air \in {r.air, None}
<1>1. HandleInterrupt(r) = IF "pkvalid" \in flags /\ BadLength(d)
                           THEN ClearRxBuf(x)
                           ELSE IF "preaval" \in flags THEN OnPreamble(g) ELSE g
  BY DEF HandleInterrupt
<1>2. OK(a)
  BY OnFifoErrorIs DEF AfterFifoError
<1> HIDE DEF a
<1>3. OK(b)
  BY <1>2, SendNextFragmentIs DEF RxSame
<1> HIDE DEF b
<1>4. OK(c)
  BY <1>3, ReadNextFragmentIs
<1> HIDE DEF c
<1>5. OK(d)
  BY <1>4, OnPacketSentIs DEF RxSame
<1> HIDE DEF d
<1>6. CASE "pkvalid" \in flags /\ BadLength(d)
  <2>1. OK(x)
    BY <1>5, ModeIs DEF Modes, RxSame
  <2> HIDE DEF x
  <2> QED BY <1>1, <1>6, <2>1, ClearRxBufIs DEF RxSame
<1>7. CASE ~("pkvalid" \in flags /\ BadLength(d))
  <2>1. OK(e)
    BY <1>5, <1>7, ReadPacketIs
  <2> HIDE DEF e
  <2>2. OK(g)
    BY <2>1, OnCrcErrorIs
  <2> HIDE DEF g
  <2>3. OK(OnPreamble(g))
    BY <2>2, ClearRxBufIs DEF OnPreamble, RxSame
  <2> QED BY <1>1, <1>7, <2>2, <2>3
<1> QED BY <1>6, <1>7
-----------------------------------------------------------------------------
(* The types.                                                               *)

LEMMA TypeInit == Init => TypeInv
<1> SUFFICES ASSUME Init PROVE TypeInv
  OBVIOUS
<1>1. r \in Radio
  BY Nothing, Numbers DEF Init, Radio, Modes, None
<1>2. Len(r.buf) = 0 /\ Len(r.rxFifo) = 0 /\ Len(r.txFifo) = 0 /\ r.air = 0
  BY DEF Init, None
<1>3. Fits(r)
  BY <1>1, <1>2, Numbers DEF Fits
<1>4. lens \in Seq(AirLengths) /\ Len(lens) = 0 /\ given \in Seq(1 .. MaxLen)
      /\ Len(given) = 0 /\ sent \in Seq(Seq(Octet)) /\ msg \in Seq(Octet)
      /\ got \in Seq([data : Seq(Octet), from : 0 .. MaxPackets])
  BY DEF Init
<1>5. /\ flags \subseteq Flags /\ pc = "app"
      /\ crossed \in BOOLEAN /\ lost \in BOOLEAN /\ torn \in BOOLEAN
  BY DEF Init
<1> QED BY <1>2, <1>3, <1>4, <1>5, Numbers DEF TypeInv

\* The parts of the type that a step leaves alone.
LEMMA ChipTypes ==
  ASSUME TypeInv, ChipOnly, Fits(r'), flags' \subseteq Flags,
         lens' = lens, r'.air \in {r.air, None}, sent' \in Seq(Seq(Octet))
  PROVE  TypeInv'
<1>1. r'.air <= Len(lens')
  BY Numbers DEF TypeInv, None
<1> QED BY <1>1 DEF TypeInv, ChipOnly

LEMMA PreambleTypes ==
  ASSUME TypeInv, Preamble PROVE TypeInv'
<1> USE DEF TypeInv
<1>1. flags' \subseteq Flags
  BY DEF Preamble, Flags
<1>2. CASE r' = r /\ lens' = lens
  BY <1>1, <1>2 DEF Preamble, ChipOnly
<1>3. ASSUME NEW n \in AirLengths, Len(lens) < MaxPackets,
             lens' = Append(lens, n),
             r' = [r EXCEPT !.air = Len(lens) + 1, !.at = 0]
      PROVE  TypeInv'
  <2>1. lens' \in Seq(AirLengths) /\ Len(lens') = Len(lens) + 1 /\ Len(lens) \in Nat
    BY <1>3, AppendProperties
  <2>2. Len(lens) + 1 \in 0 .. MaxPackets
    <3> HIDE DEF TypeInv
    <3> QED BY <1>3, <2>1, Numbers
  <2>3. r' \in Radio /\ r'.buf = r.buf /\ r'.rxFifo = r.rxFifo
        /\ r'.txFifo = r.txFifo /\ r'.air = Len(lens) + 1
    BY <1>3, <2>2 DEF Fits, Radio
  <2>4. Fits(r)'
    BY <2>3 DEF Fits
  <2>5. Len(lens') <= MaxPackets
    BY <1>3, <2>1, Numbers
  <2> QED BY <1>1, <2>1, <2>3, <2>4, <2>5 DEF Preamble, ChipOnly
<1> QED BY <1>2, <1>3 DEF Preamble

LEMMA RxOctetTypes ==
  ASSUME TypeInv, RxOctet PROVE TypeInv'
<1> USE DEF TypeInv
<1>1. r \in Radio /\ Len(r.rxFifo) <= FifoSize /\ Len(r.rxFifo) \in Nat
  BY DEF Fits, Radio
<1>2. r.air \in Octet /\ r.air \in 0 .. MaxPackets /\ r.at + 1 \in Nat
  <2>1. r.air \in 0 .. MaxPackets /\ r.at \in Nat
    BY <1>1 DEF Radio
  <2>2. MaxPackets \in Nat /\ MaxSends \in Nat
    BY Numbers
  <2> QED BY <2>1, <2>2 DEF Octet
<1>3. flags' \subseteq Flags
  BY DEF RxOctet, Flags
<1>4. CASE r' = [r EXCEPT !.at = @ + 1, !.from = r.air]
  <2>1. /\ r' \in Radio /\ r'.buf = r.buf /\ r'.rxFifo = r.rxFifo
        /\ r'.txFifo = r.txFifo /\ r'.air = r.air
    BY <1>1, <1>2, <1>4 DEF Radio
  <2>2. Fits(r')
    BY <2>1 DEF Fits
  <2> QED BY <1>3, <2>1, <2>2, ChipTypes DEF RxOctet
<1>5. CASE /\ Len(r.rxFifo) # FifoSize
           /\ r' = [r EXCEPT !.at = @ + 1, !.from = r.air,
                             !.rxFifo = Append(@, r.air)]
  <2> DEFINE fifo == Append(r.rxFifo, r.air)
  <2>1. fifo \in Seq(Octet) /\ Len(fifo) = Len(r.rxFifo) + 1
    BY <1>1, <1>2, AppendProperties DEF Radio
  <2>2. r' = [r EXCEPT !.at = @ + 1, !.from = r.air, !.rxFifo = fifo]
    BY <1>1, <1>5 DEF Radio
  <2> HIDE DEF fifo
  <2>3. /\ r' \in Radio /\ r'.buf = r.buf /\ r'.rxFifo = fifo
        /\ r'.txFifo = r.txFifo /\ r'.air = r.air
    BY <1>1, <1>2, <2>1, <2>2 DEF Radio
  <2>4. Len(fifo) <= FifoSize
    <3> HIDE DEF TypeInv
    <3> QED BY <1>1, <1>5, <2>1, Numbers
  <2>5. Fits(r')
    BY <2>3, <2>4 DEF Fits
  <2> QED BY <1>3, <2>3, <2>5, ChipTypes DEF RxOctet
<1> QED BY <1>4, <1>5 DEF RxOctet

LEMMA RxEndTypes ==
  ASSUME TypeInv, RxEnd PROVE TypeInv'
<1> USE DEF TypeInv
<1>1. r \in Radio /\ r.air \in 1 .. Len(lens)
  <2>1. r \in Radio /\ r.air \in 0 .. MaxPackets /\ r.air # 0 /\ Len(lens) \in Nat
    BY DEF Fits, Radio, RxEnd, None
  <2> QED BY <2>1, Numbers
<1>2. lens[r.air] \in Nat
  <2>1. lens[r.air] \in AirLengths
    BY <1>1
  <2> QED BY <2>1, Numbers
<1>3. /\ r' \in Radio /\ r'.buf = r.buf /\ r'.rxFifo = r.rxFifo
      /\ r'.txFifo = r.txFifo /\ r'.air = None
  BY <1>1, <1>2, Nothing DEF RxEnd, Radio, Modes
<1>4. Fits(r') /\ flags' \subseteq Flags
  BY <1>3 DEF Fits, Flags, RxEnd
<1> QED BY <1>3, <1>4, ChipTypes DEF RxEnd

LEMMA TxOctetTypes ==
  ASSUME TypeInv, TxOctet PROVE TypeInv'
<1> USE DEF TypeInv
<1>1. r \in Radio /\ r.txFifo \in Seq(Octet) /\ r.aired \in Seq(Octet)
  BY DEF Fits, Radio
<1>2. flags' \subseteq Flags
  BY DEF TxOctet, Flags
<1>3. CASE r' = [r EXCEPT !.op = "idle"]
  <2>1. /\ r' \in Radio /\ r'.buf = r.buf /\ r'.rxFifo = r.rxFifo
        /\ r'.txFifo = r.txFifo /\ r'.air = r.air
    BY <1>1, <1>3 DEF Radio, Modes
  <2>2. Fits(r')
    BY <2>1 DEF Fits
  <2> QED BY <1>2, <2>1, <2>2, ChipTypes DEF TxOctet
<1>4. CASE /\ r.txFifo # <<>>
           /\ r' = [r EXCEPT !.aired = Append(@, Head(r.txFifo)),
                             !.txFifo = Tail(@)]
  <2> DEFINE aired == Append(r.aired, Head(r.txFifo))
             fifo == Tail(r.txFifo)
  <2>1. /\ aired \in Seq(Octet) /\ fifo \in Seq(Octet)
        /\ Len(fifo) <= Len(r.txFifo) /\ Len(fifo) \in Nat /\ Len(r.txFifo) \in Nat
    BY <1>1, <1>4
  <2>2. r' = [r EXCEPT !.aired = aired, !.txFifo = fifo]
    BY <1>1, <1>4 DEF Radio
  <2> HIDE DEF aired, fifo
  <2>3. /\ r' \in Radio /\ r'.buf = r.buf /\ r'.rxFifo = r.rxFifo
        /\ r'.txFifo = fifo /\ r'.air = r.air
    BY <1>1, <2>1, <2>2 DEF Radio
  <2>4. Fits(r')
    BY <2>1, <2>3, Numbers DEF Fits
  <2> QED BY <1>2, <2>3, <2>4, ChipTypes DEF TxOctet
<1> QED BY <1>3, <1>4 DEF TxOctet

LEMMA TxEndTypes ==
  ASSUME TypeInv, TxEnd PROVE TypeInv'
<1> USE DEF TypeInv
<1>1. r \in Radio /\ r.aired \in Seq(Octet)
  BY DEF Fits, Radio
<1>2. /\ r' \in Radio /\ r'.buf = r.buf /\ r'.rxFifo = r.rxFifo
      /\ r'.txFifo = r.txFifo /\ r'.air = r.air
  BY <1>1 DEF TxEnd, Radio, Modes
<1>3. Fits(r') /\ flags' \subseteq Flags
  BY <1>2 DEF Fits, Flags, TxEnd
<1>4. sent' \in Seq(Seq(Octet))
  BY <1>1, AppendProperties DEF TxEnd
<1> QED BY <1>2, <1>3, <1>4, ChipTypes DEF TxEnd

LEMMA LastOf ==
  ASSUME NEW S, NEW q \in Seq(S), q # <<>>
  PROVE  Len(q) \in Nat /\ Len(q) >= 1 /\ q[Len(q)] \in S
OBVIOUS

\* The buffer is filled with a message that has room in it.
LEMMA MessageIs ==
  ASSUME TypeInv, given # <<>>
  PROVE  /\ Message(Len(given)) \in Seq(Octet)
         /\ Len(Message(Len(given))) = given[Len(given)]
         /\ given[Len(given)] \in 1 .. MaxLen
         /\ AllAre(Message(Len(given)), MaxPackets + Len(given))
<1>1. Len(given) \in Nat /\ Len(given) >= 1 /\ given[Len(given)] \in 1 .. MaxLen
  <2>1. given \in Seq(1 .. MaxLen)
    BY DEF TypeInv
  <2> QED BY <2>1, LastOf
<1>2. MaxPackets + Len(given) \in Octet
  BY <1>1, Numbers DEF TypeInv, Octet
<1>3. given[Len(given)] \in Nat
  BY <1>1, Numbers
<1> QED BY <1>1, <1>2, <1>3 DEF Message, AllAre

LEMMA MainTypes ==
  ASSUME TypeInv,
         \/ Available \/ Listen \/ SwitchOn \/ StoreMode \/ Look \/ Copy
         \/ Headers \/ WaitPacketSent
  PROVE  TypeInv'
<1> USE DEF TypeInv
<1>1. CASE Available \/ Listen \/ Look \/ WaitPacketSent
  BY <1>1 DEF Available, Listen, Look, WaitPacketSent, MainOnly, NotSend
<1>2. CASE SwitchOn \/ StoreMode
  <2>1. Fits(r') /\ r'.air \in {r.air, None}
    <3>1. CASE SwitchOn
      <4>1. r' = SetMode(r, "rx") /\ Fits(r)
        BY <3>1 DEF SwitchOn
      <4> QED BY <4>1, SetModeIs DEF Modes, Fits, BufSame
    <3>2. CASE StoreMode
      <4>1. r' = [r EXCEPT !.mode = "rx"] /\ Fits(r)
        BY <3>2 DEF StoreMode
      <4> QED BY <4>1, ModeIs DEF Modes, RxSame
    <3> QED BY <1>2, <3>1, <3>2
  <2>2. r'.air <= Len(lens)
    BY <2>1 DEF None
  <2>3. torn' \in BOOLEAN
    BY <1>2 DEF SwitchOn, StoreMode, NotSend
  <2> QED
    BY <1>2, <2>1, <2>2, <2>3 DEF SwitchOn, StoreMode, MainOnly, NotSend
<1>3. CASE Copy
  <2>1. Fits(r') /\ r'.air = r.air
    <3>1. r' = ClearRxBuf(r)
      BY <1>3 DEF Copy
    <3>2. Fits(ClearRxBuf(r)) /\ ClearRxBuf(r).air = r.air
      BY ClearRxBufIs DEF RxSame
    <3> QED BY <3>1, <3>2
  <2>2. msg' \in Seq(Octet)
    BY <1>3 DEF Copy, Fits, Radio
  <2> QED BY <1>3, <2>1, <2>2 DEF Copy, MainOnly, NotSend
<1>4. CASE Headers
  <2> DEFINE g == [data |-> msg, from |-> r.from]
  <2>1. g \in [data : Seq(Octet), from : 0 .. MaxPackets]
    BY DEF Fits, Radio
  <2> HIDE DEF g
  <2>2. Append(got, g) \in Seq([data : Seq(Octet), from : 0 .. MaxPackets])
    BY <2>1, AppendProperties
  <2>3. got' = Append(got, g)
    BY <1>4 DEF Headers, g
  <2> QED BY <1>4, <2>2, <2>3, Nothing DEF Headers, MainOnly, NotSend
<1> QED BY <1>1, <1>2, <1>3, <1>4

LEMMA SendTypes == ASSUME TypeInv, Send PROVE TypeInv'
<1> USE DEF TypeInv
<1>1. crossed' \in BOOLEAN
  BY DEF Send, Fits, Radio
<1>2. ASSUME NEW n \in 1 .. MaxLen, given' = Append(given, n), pc' = "filling",
             r' = r
      PROVE  TypeInv'
  <2>1. /\ given' \in Seq(1 .. MaxLen) /\ Len(given') = Len(given) + 1
        /\ Len(given) \in Nat
    BY <1>2, AppendProperties
  <2>2. given' # <<>> /\ Len(given') <= MaxSends
    BY <2>1, Numbers DEF Send
  <2> QED BY <1>1, <1>2, <2>1, <2>2 DEF Send, MainOnly
<1>3. CASE r' = ClearTxBuf(r) /\ UNCHANGED <<given, pc>>
  <2>1. Fits(ClearTxBuf(r)) /\ ClearTxBuf(r).air = r.air
    BY ClearTxBufIs DEF RxSame
  <2> QED BY <1>1, <1>3, <2>1 DEF Send, MainOnly
<1> QED BY <1>2, <1>3 DEF Send

\* send() on the radio.
LEMMA TransmitIs ==
  ASSUME TypeInv, Transmit
  PROVE  LET s == [ClearTxBuf(r) EXCEPT !.buf = Message(Len(given))] IN
         /\ Fits(s) /\ r' = StartTransmit(s) /\ RxSame(r, s) /\ ModeSame(r, s)
         /\ s.buf = Message(Len(given)) /\ s.valid = r.valid
         /\ s.txSent = 0 /\ s.txFifo = r.txFifo
<1> DEFINE c == ClearTxBuf(r)
           s == [c EXCEPT !.buf = Message(Len(given))]
<1>1. /\ Fits(c) /\ RxSame(r, c) /\ ModeSame(r, c)
      /\ c.buf = <<>> /\ c.valid = r.valid /\ c.txSent = 0
      /\ c.txFifo = r.txFifo /\ c.txLen = r.txLen /\ c.aired = r.aired
  BY ClearTxBufIs DEF TypeInv
<1> HIDE DEF c
<1>2. given # <<>>
  BY DEF TypeInv, Transmit
<1>3. /\ Message(Len(given)) \in Seq(Octet)
      /\ Len(Message(Len(given))) <= MaxLen
  BY <1>2, MessageIs, Numbers
<1>4. c \in Radio /\ Len(c.rxFifo) <= FifoSize
  BY <1>1 DEF Fits
<1>5. /\ s \in Radio /\ RxSame(c, s) /\ ModeSame(c, s) /\ TxSame(c, s)
      /\ s.buf = Message(Len(given)) /\ s.valid = c.valid
  BY <1>3, <1>4 DEF Radio, RxSame, ModeSame, TxSame
<1>6. Fits(s)
  BY <1>1, <1>3, <1>4, <1>5 DEF Fits, RxSame, TxSame
<1>7. r' = StartTransmit(s)
  BY DEF Transmit, c, s
<1> HIDE DEF s
<1>8. /\ Fits(s) /\ r' = StartTransmit(s) /\ RxSame(r, s) /\ ModeSame(r, s)
      /\ s.buf = Message(Len(given)) /\ s.valid = r.valid
      /\ s.txSent = 0 /\ s.txFifo = r.txFifo
  BY <1>1, <1>5, <1>6, <1>7 DEF RxSame, ModeSame, TxSame
<1> QED BY <1>8 DEF s, c

LEMMA TransmitTypes == ASSUME TypeInv, Transmit PROVE TypeInv'
<1> DEFINE s == [ClearTxBuf(r) EXCEPT !.buf = Message(Len(given))]
<1>1. Fits(s) /\ r' = StartTransmit(s) /\ RxSame(r, s)
  BY TransmitIs
<1> HIDE DEF s
<1>2. Fits(r') /\ r'.air \in {s.air, None}
  BY <1>1, StartTransmitIs
<1>3. r'.air <= Len(lens) /\ given # <<>>
  BY <1>1, <1>2 DEF TypeInv, RxSame, None, Transmit
<1>4. flags' \subseteq Flags
  BY DEF TypeInv, Transmit, Losing, Flags
<1>5. crossed' \in BOOLEAN /\ lost' \in BOOLEAN /\ torn' \in BOOLEAN
  BY Zenon DEF TypeInv, Transmit, Losing, Overflows
<1> QED BY <1>2, <1>3, <1>4, <1>5 DEF TypeInv, Transmit, MainOnly

LEMMA TypeStep == TypeInv /\ [Next]_vars => TypeInv'
<1> SUFFICES ASSUME TypeInv, [Next]_vars PROVE TypeInv'
  OBVIOUS
<1>1. CASE Chip
  BY <1>1, PreambleTypes, RxOctetTypes, RxEndTypes, TxOctetTypes, TxEndTypes
  DEF Chip
<1>2. CASE Interrupt
  <2>1. Fits(r') /\ r'.air \in {r.air, None}
    BY <1>2, HandlerFits DEF Interrupt, TypeInv
  <2>2. r'.air <= Len(lens)
    BY <2>1 DEF TypeInv, None
  <2>3. flags' \subseteq Flags /\ lost' \in BOOLEAN
    BY <1>2 DEF Interrupt, TypeInv, Losing, Flags, Overflows
  <2> QED BY <1>2, <2>1, <2>2, <2>3 DEF Interrupt, TypeInv
<1>3. CASE Main
  BY <1>3, MainTypes, TransmitTypes DEF Main
<1>4. CASE Send
  BY <1>4, SendTypes
<1>5. CASE UNCHANGED vars
  BY <1>5 DEF vars, TypeInv
<1> QED BY <1>1, <1>2, <1>3, <1>4, <1>5 DEF Next
-----------------------------------------------------------------------------
(* Transmission.                                                            *)

\* What has gone wrong stays so.
LEMMA StaysWrong ==
  ASSUME [Next]_vars PROVE (crossed => crossed') /\ (lost => lost')
<1>1. CASE Interrupt
  BY <1>1, Zenon DEF Interrupt, Losing
<1>2. CASE Transmit
  BY <1>2, Zenon DEF Transmit, Losing
<1>3. CASE Send
  BY <1>3, Zenon DEF Send
<1>4. CASE UNCHANGED <<crossed, lost>>
  BY <1>4
<1> QED
  BY <1>1, <1>2, <1>3, <1>4
  DEF Next, Chip, Preamble, RxOctet, RxEnd, TxOctet, TxEnd, ChipOnly, Main,
      Available, Listen, SwitchOn, StoreMode, Look, Copy, Headers,
      WaitPacketSent, NotSend, vars

LEMMA OneFlagStep == TypeInv /\ OneFlag /\ [Next]_vars => OneFlag'
<1> SUFFICES ASSUME TypeInv, OneFlag, [Next]_vars, ~Late, ~crossed'
             PROVE  flags' = {} \/ \E f \in Flags : flags' = {f}
  BY DEF OneFlag
<1>1. flags = {} \/ \E f \in Flags : flags = {f}
  BY StaysWrong DEF OneFlag
<1>2. CASE Chip
  <2>1. flags = {}
    BY <1>2 DEF Chip, Preamble, RxOctet, RxEnd, TxOctet, TxEnd, ChipRuns
  <2>2. flags' = {} \/ \E f \in Flags : flags' = {f}
    BY <1>2, <2>1
    DEF Chip, Preamble, RxOctet, RxEnd, TxOctet, TxEnd, Flags
  <2> QED BY <2>2
<1>3. CASE Interrupt
  <2>1. flags' = {} \/ flags' = {"fferror"}
    BY <1>3 DEF Interrupt, Losing
  <2> QED BY <2>1 DEF Flags
<1>4. CASE Transmit
  <2>1. flags = {}
    BY <1>4 DEF Transmit
  <2>2. flags' = {} \/ flags' = {"fferror"}
    BY <1>4, <2>1 DEF Transmit, Losing
  <2> QED BY <2>2 DEF Flags
<1>5. CASE flags' = flags
  BY <1>1, <1>5
<1> QED
  BY <1>2, <1>3, <1>4, <1>5
  DEF Next, Main, Available, Listen, SwitchOn, StoreMode, Look, Copy, Headers,
      WaitPacketSent, Send, NotSend, vars

Held == TypeInv /\ OneFlag /\ SendInv /\ LossInv

\* What the actions have to keep.
Kept == Sending /\ SentIsGiven /\ Low

LEMMA SentStays ==
  ASSUME TypeInv, SentIsGiven, Clean, UNCHANGED <<given, sent>>
  PROVE  SentIsGiven'
BY DEF SentIsGiven, Message, Clean

LEMMA RxKeeps ==
  ASSUME Held, Clean, Preamble \/ RxOctet \/ RxEnd
  PROVE  Kept'
<1>1. Sending /\ SentIsGiven /\ TypeInv /\ r \in Radio
  BY DEF Held, SendInv, TypeInv, Fits
<1>2. r.op = "rx"
  BY DEF Preamble, RxOctet, RxEnd
<1>3. Quiet
  BY <1>1, <1>2 DEF Sending, Loaded, Underflow, Out
<1>4. /\ r'.mode = r.mode /\ r'.op \in {"rx", "idle"} /\ r'.txFifo = r.txFifo
      /\ r'.valid = r.valid /\ UNCHANGED <<pc, given, sent>>
  BY <1>1, <1>2 DEF Preamble, RxOctet, RxEnd, ChipOnly, Radio
<1>5. "txffaem" \notin flags' /\ "pksent" \notin flags'
  BY <1>3 DEF Preamble, RxOctet, RxEnd, Quiet
<1>6. Quiet'
  BY <1>3, <1>4, <1>5 DEF Quiet
<1>7. Sending' /\ Low'
  BY <1>5, <1>6 DEF Sending, Low
<1> QED BY <1>1, <1>4, <1>7, SentStays DEF Kept

\* While the chip transmits, the message is on its way.
LEMMA OnTheWay ==
  ASSUME Held, Clean, r.op = "tx"
  PROVE  /\ pc = "sending" /\ Busy(r) /\ Loaded(r) /\ flags \subseteq {"txffaem"}
         /\ Len(sent) = Len(given) - 1 /\ given # <<>> /\ SentIsGiven
         /\ r \in Radio /\ TypeInv
BY DEF Held, SendInv, Sending, Quiet, Underflow, Out, TypeInv, Fits

\* An octet goes from one side of a sum to the other, and a sum whose first
\* part is as large as it may be.
LEMMA Sums ==
  /\ \A a, b, n \in Nat : a + b = n => (a + 1) + (b - 1) = n
  /\ \A a, b, n, t \in Nat :
       a + b = t /\ t <= n /\ a >= n => a = n /\ b = 0 /\ t = n
OBVIOUS

LEMMA TxOctetKeeps ==
  ASSUME Held, Clean, TxOctet
  PROVE  Kept'
<1>1. /\ pc = "sending" /\ Busy(r) /\ Loaded(r) /\ flags \subseteq {"txffaem"}
      /\ Len(sent) = Len(given) - 1 /\ given # <<>> /\ SentIsGiven
      /\ r \in Radio /\ TypeInv
  BY OnTheWay DEF TxOctet
<1>2. /\ r.txFifo \in Seq(Octet) /\ r.aired \in Seq(Octet) /\ r.txSent \in Nat
      /\ r.buf \in Seq(Octet)
  BY <1>1, Numbers DEF Radio
<1>3. UNCHANGED <<pc, given, sent>> /\ SentIsGiven'
  BY <1>1, SentStays DEF TxOctet, ChipOnly
<1>4. CASE r.txFifo = <<>>
  <2>1. /\ r'.mode = r.mode /\ r'.buf = r.buf /\ r'.txLen = r.txLen
        /\ r'.valid = r.valid /\ r'.op = "idle" /\ r'.txFifo = r.txFifo
        /\ flags' = flags \cup {"fferror"}
    BY <1>1, <1>4 DEF TxOctet, Radio
  <2>2. Busy(r)'
    BY <1>1, <1>3, <2>1 DEF Busy, Message
  <2>3. Underflow' /\ flags' \subseteq {"txffaem", "fferror", "pksent"}
    BY <1>1, <1>4, <2>1 DEF Underflow
  <2>4. Sending'
    BY <1>1, <1>3, <2>2, <2>3 DEF Sending
  <2>5. Low'
    BY <1>4, <2>1, Numbers DEF Low
  <2> QED BY <1>3, <2>4, <2>5 DEF Kept
<1>5. CASE r.txFifo # <<>>
  <2> DEFINE n == MaxPackets + Len(given)
             aired == Append(r.aired, Head(r.txFifo))
             fifo == Tail(r.txFifo)
  <2>1. /\ fifo \in Seq(Octet) /\ Len(fifo) = Len(r.txFifo) - 1
        /\ \A i \in 1 .. Len(fifo) : fifo[i] = r.txFifo[i + 1]
        /\ Head(r.txFifo) = r.txFifo[1] /\ Len(r.txFifo) >= 1
    BY <1>2, <1>5, HeadTailProperties
  <2>2. Head(r.txFifo) = n /\ AllAre(fifo, n)
    <3>1. \A i \in 1 .. Len(r.txFifo) : r.txFifo[i] = n
      BY <1>1 DEF Loaded, AllAre
    <3>2. \A i \in 1 .. Len(fifo) : i + 1 \in 1 .. Len(r.txFifo)
      BY <1>2, <2>1
    <3>3. 1 \in 1 .. Len(r.txFifo)
      BY <1>2, <2>1
    <3> HIDE DEF n, fifo
    <3> QED BY <2>1, <3>1, <3>2, <3>3 DEF AllAre
  <2>3. /\ aired \in Seq(Octet) /\ Len(aired) = Len(r.aired) + 1
        /\ AllAre(aired, n)
    <3>1. Head(r.txFifo) \in Octet
      BY <1>2, <1>5
    <3>2. /\ Len(aired) = Len(r.aired) + 1 /\ aired \in Seq(Octet)
          /\ \A i \in 1 .. Len(r.aired) : aired[i] = r.aired[i]
          /\ aired[Len(r.aired) + 1] = n
      BY <1>2, <2>2, <3>1, AppendProperties
    <3>3. \A i \in 1 .. Len(r.aired) : r.aired[i] = n
      BY <1>1 DEF Loaded, AllAre
    <3>4. \A i \in 1 .. (Len(r.aired) + 1) :
             i \in 1 .. Len(r.aired) \/ i = Len(r.aired) + 1
      BY <1>2
    <3> HIDE DEF n, aired
    <3> QED BY <3>2, <3>3, <3>4 DEF AllAre
  <2>4. /\ r' = [r EXCEPT !.aired = aired, !.txFifo = fifo]
        /\ flags' = IF Len(r.txFifo) - 1 = TxThreshold
                    THEN flags \cup {"txffaem"} ELSE flags
    BY <1>1, <1>5 DEF TxOctet, Radio
  <2> HIDE DEF aired, fifo, n
  <2>5. /\ r'.aired = aired /\ r'.txFifo = fifo /\ r'.mode = r.mode
        /\ r'.op = r.op /\ r'.buf = r.buf /\ r'.txLen = r.txLen
        /\ r'.txSent = r.txSent /\ r'.valid = r.valid
    BY <1>1, <2>4 DEF Radio
  <2>6. Busy(r)'
    BY <1>1, <1>3, <2>5 DEF Busy, Message
  <2>7. Loaded(r)'
    <3>1. /\ r.op = "tx" /\ r.txSent <= Len(r.buf)
          /\ Len(r.aired) + Len(r.txFifo) = r.txSent
      BY <1>1 DEF Loaded
    <3>2. Len(r.aired) \in Nat /\ Len(r.txFifo) \in Nat
      BY <1>2
    <3>3. Len(aired) + Len(fifo) = r.txSent
      <4>1. Len(aired) = Len(r.aired) + 1 /\ Len(fifo) = Len(r.txFifo) - 1
        BY <2>1, <2>3
      <4>2. r.txSent \in Nat /\ Len(r.aired) + Len(r.txFifo) = r.txSent
        BY <1>2, <3>1
      <4>3. (Len(r.aired) + 1) + (Len(r.txFifo) - 1) = r.txSent
        BY <3>2, <4>2, Sums
      <4> QED BY <4>1, <4>3
    <3>4. MaxPackets + Len(given') = n
      BY <1>3 DEF n
    <3> QED BY <2>2, <2>3, <2>5, <3>1, <3>3, <3>4 DEF Loaded
  <2>8. flags' \subseteq {"txffaem"}
    BY <1>1, <2>4
  <2>9. Sending'
    BY <1>1, <1>3, <2>6, <2>7, <2>8 DEF Sending
  <2>10. Low => Low'
    BY <1>2, <2>1, <2>4, <2>5, Numbers DEF Low
  <2> QED BY <1>3, <2>9, <2>10 DEF Kept, Held, SendInv
<1> QED BY <1>4, <1>5

\* The chip has sent as many octets as the message has: they are the message.
LEMMA TxEndKeeps ==
  ASSUME Held, Clean, TxEnd
  PROVE  Kept'
<1>1. /\ pc = "sending" /\ Busy(r) /\ Loaded(r) /\ flags \subseteq {"txffaem"}
      /\ Len(sent) = Len(given) - 1 /\ given # <<>> /\ SentIsGiven
      /\ r \in Radio /\ TypeInv
  BY OnTheWay DEF TxEnd
<1>2. /\ r.txFifo \in Seq(Octet) /\ r.aired \in Seq(Octet) /\ r.txSent \in Nat
      /\ r.buf \in Seq(Octet) /\ sent \in Seq(Seq(Octet))
  BY <1>1, Numbers DEF Radio, TypeInv
<1>3. /\ Message(Len(given)) \in Seq(Octet)
      /\ AllAre(Message(Len(given)), MaxPackets + Len(given))
  BY <1>1, MessageIs
<1>4. /\ Len(r.aired) = Len(r.buf) /\ Len(r.txFifo) = 0 /\ r.txSent = Len(r.buf)
      /\ r.buf = Message(Len(given))
  <2>1. /\ Len(r.aired) \in Nat /\ Len(r.txFifo) \in Nat /\ Len(r.buf) \in Nat
        /\ r.txSent \in Nat
    BY <1>2
  <2>2. /\ r.txLen = Len(r.buf) /\ Len(r.aired) >= r.txLen
        /\ r.txSent <= Len(r.buf) /\ Len(r.aired) + Len(r.txFifo) = r.txSent
        /\ r.buf = Message(Len(given))
    BY <1>1 DEF TxEnd, Busy, Loaded
  <2>3. Len(r.aired) >= Len(r.buf)
    BY <2>2
  <2>4. Len(r.aired) = Len(r.buf) /\ Len(r.txFifo) = 0 /\ r.txSent = Len(r.buf)
    BY <2>1, <2>2, <2>3, Sums
  <2> QED BY <2>2, <2>4
<1>5. r.aired = Message(Len(given))
  <2>1. \A i \in 1 .. Len(r.aired) : r.aired[i] = Message(Len(given))[i]
    BY <1>1, <1>3, <1>4 DEF Loaded, AllAre
  <2> QED BY <1>2, <1>3, <1>4, <2>1, SeqEqual
<1>6. /\ r'.mode = r.mode /\ r'.op = "idle" /\ r'.buf = r.buf
      /\ r'.txLen = r.txLen /\ r'.txSent = r.txSent /\ r'.txFifo = r.txFifo
      /\ r'.valid = r.valid
      /\ flags' = flags \cup {"pksent"} /\ UNCHANGED <<pc, given>>
      /\ sent' = Append(sent, r.aired)
  BY <1>1 DEF TxEnd, ChipOnly, Radio
<1>7. /\ Len(sent') = Len(sent) + 1 /\ Len(sent) \in Nat /\ Len(given) \in Nat
      /\ \A i \in 1 .. Len(sent) : sent'[i] = sent[i]
      /\ sent'[Len(sent) + 1] = r.aired
      /\ sent' \in Seq(Seq(Octet))
  BY <1>1, <1>2, <1>6, AppendProperties DEF TypeInv
<1>8. r.txFifo = <<>>
  BY <1>2, <1>4
<1>9. Sending'
  <2>1. Busy(r)'
    BY <1>1, <1>6 DEF Busy, Message
  <2>2. Out' /\ flags' \subseteq {"txffaem", "fferror", "pksent"}
    BY <1>1, <1>4, <1>6, <1>8 DEF Out
  <2>3. Len(sent') = Len(given')
    BY <1>1, <1>6, <1>7
  <2> QED BY <1>1, <1>6, <2>1, <2>2, <2>3 DEF Sending
<1>10. SentIsGiven'
  <2> SUFFICES ASSUME NEW i \in 1 .. Len(sent')
               PROVE  i <= Len(given') /\ sent'[i] = Message(i)'
    BY <1>7 DEF SentIsGiven
  <2>1. CASE i \in 1 .. Len(sent)
    <3>1. sent[i] = Message(i) /\ i <= Len(given)
      BY <1>1, <1>2, <2>1 DEF SentIsGiven, Clean
    <3> QED BY <1>6, <1>7, <2>1, <3>1 DEF Message
  <2>2. CASE i = Len(sent) + 1
    <3>1. i = Len(given)
      BY <1>1, <1>7, <2>2
    <3>2. Message(i)' = Message(i)
      BY <1>6 DEF Message
    <3>3. sent'[i] = Message(i)
      BY <1>5, <1>7, <2>2, <3>1
    <3> QED BY <1>6, <1>7, <3>1, <3>2, <3>3
  <2> QED BY <1>7, <2>1, <2>2
<1>11. Low => Low'
  BY <1>6 DEF Low
<1> QED BY <1>9, <1>10, <1>11 DEF Kept, Held, SendInv

\* Nothing is being transmitted, as far as the radio goes.
Silent(s) == Fits(s) /\ s.mode # "tx" /\ s.op # "tx" /\ s.txFifo = <<>>

LEMMA HandlerSilent ==
  ASSUME Silent(r), "txffaem" \notin flags, "pksent" \notin flags
  PROVE  Silent(HandleInterrupt(r))
<1> DEFINE a == AfterFifoError(r)
           c == IF "rxffafull" \in flags THEN ReadNextFragment(a) ELSE a
           e == IF "pkvalid" \in flags THEN ReadPacket(c) ELSE c
           g == IF "crcerror" \in flags THEN OnCrcError(e) ELSE e
           x == [c EXCEPT !.mode = "idle"]
<1>1. HandleInterrupt(r) = IF "pkvalid" \in flags /\ BadLength(c)
                           THEN ClearRxBuf(x)
                           ELSE IF "preaval" \in flags THEN OnPreamble(g) ELSE g
  BY DEF HandleInterrupt
<1>2. Silent(a)
  BY OnFifoErrorIs DEF Silent, AfterFifoError
<1> HIDE DEF a
<1>3. Silent(c)
  BY <1>2, ReadNextFragmentIs DEF Silent, TxSame, ModeSame
<1> HIDE DEF c
<1>4. CASE "pkvalid" \in flags /\ BadLength(c)
  <2>1. Silent(x)
    BY <1>3, ModeIs DEF Modes, Silent, TxSame
  <2> HIDE DEF x
  <2>2. Silent(ClearRxBuf(x))
    BY <2>1, ClearRxBufIs DEF Silent, TxSame, ModeSame
  <2> QED BY <1>1, <1>4, <2>2
<1>5. CASE ~("pkvalid" \in flags /\ BadLength(c))
  <2>1. Silent(e)
    BY <1>3, <1>5, ReadPacketIs DEF Silent, TxSame
  <2> HIDE DEF e
  <2>2. Silent(g)
    BY <2>1, OnCrcErrorIs DEF Silent
  <2> HIDE DEF g
  <2>3. Silent(OnPreamble(g))
    BY <2>2, ClearRxBufIs DEF Silent, TxSame, ModeSame, OnPreamble
  <2> QED BY <1>1, <1>5, <2>2, <2>3
<1> QED BY <1>4, <1>5

LEMMA LoadedFits ==
  ASSUME NEW s, Fits(s), Loaded(s)
  PROVE  /\ Len(s.txFifo) \in Nat /\ Len(s.txFifo) <= MaxLen
         /\ s.txSent \in Nat /\ Len(s.buf) \in Nat /\ Len(s.aired) \in Nat
<1>1. /\ Len(s.txFifo) \in Nat /\ Len(s.aired) \in Nat /\ Len(s.buf) \in Nat
      /\ s.txSent \in 0 .. MaxLen
  BY DEF Fits, Radio
<1>2. s.txSent \in Nat /\ MaxLen \in Nat /\ s.txSent <= MaxLen
  BY <1>1, Numbers
<1>3. Len(s.aired) + Len(s.txFifo) = s.txSent
  BY DEF Loaded
<1>4. \A a, b, n, m \in Nat : a + b = n /\ n <= m => b <= m
  OBVIOUS
<1> QED BY <1>1, <1>2, <1>3, <1>4

\* The transmit FIFO is refilled with what comes next in the buffer.
LEMMA RefillKeeps ==
  ASSUME TypeInv, given # <<>>, NEW s, Fits(s), Busy(s), Loaded(s), ~Overflows(s)
  PROVE  LET t == SendNextFragment(s) IN Fits(t) /\ Busy(t) /\ Loaded(t)
<1> DEFINE t == SendNextFragment(s)
           n == MaxPackets + Len(given)
<1>1. /\ Fits(t) /\ RxSame(s, t) /\ BufSame(s, t) /\ ModeSame(s, t)
      /\ t.txLen = s.txLen /\ t.aired = s.aired
      /\ s.txSent >= Len(s.buf) => t.txFifo = s.txFifo /\ t.txSent = s.txSent
      /\ s.txSent < Len(s.buf) =>
           /\ t.txSent <= Len(s.buf)
           /\ Len(t.txFifo) = Len(s.txFifo) + t.txSent - s.txSent
           /\ \A octet : AllAre(s.txFifo, octet) /\ AllAre(s.buf, octet)
                          => AllAre(t.txFifo, octet)
  BY SendNextFragmentIs
<1>2. /\ Len(s.txFifo) \in Nat /\ s.txSent \in Nat /\ Len(s.buf) \in Nat
      /\ Len(s.aired) \in Nat
  BY LoadedFits
<1> HIDE DEF t
<1>3. Busy(t)
  BY <1>1 DEF Busy, BufSame, ModeSame
<1>4. CASE s.txSent >= Len(s.buf)
  <2>1. t.txFifo = s.txFifo /\ t.txSent = s.txSent
    BY <1>1, <1>4
  <2>2. Loaded(t)
    BY <1>1, <2>1 DEF Loaded, ModeSame, BufSame
  <2> QED BY <1>1, <1>3, <2>2 DEF t
<1>5. CASE s.txSent < Len(s.buf)
  <2>1. t.txSent \in Nat
    BY <1>1, Numbers DEF Fits, Radio
  <2>2. /\ t.txSent <= Len(s.buf)
        /\ Len(t.txFifo) = Len(s.txFifo) + t.txSent - s.txSent
    BY <1>1, <1>5
  <2>3. AllAre(t.txFifo, n)
    <3>1. AllAre(s.txFifo, n)
      BY DEF Loaded
    <3>2. AllAre(s.buf, n)
      BY MessageIs DEF Busy
    <3> QED BY <1>1, <1>5, <3>1, <3>2
  <2>4. Len(t.aired) + Len(t.txFifo) = t.txSent
    <3> DEFINE a == Len(s.aired)
               f == Len(s.txFifo)
               u == s.txSent
               v == t.txSent
    <3>1. a \in Nat /\ f \in Nat /\ u \in Nat /\ v \in Nat
      BY <1>2, <2>1
    <3>2. a + f = u
      BY DEF Loaded
    <3>3. Len(t.txFifo) = f + v - u /\ Len(t.aired) = a /\ t.txSent = v
      BY <1>1, <2>2
    <3> HIDE DEF a, f, u, v
    <3>4. a + (f + v - u) = v
      BY <3>1, <3>2
    <3> QED BY <3>3, <3>4
  <2>5. Loaded(t)
    <3>1. t.op = "tx" /\ t.aired = s.aired /\ t.buf = s.buf
      BY <1>1 DEF ModeSame, BufSame, Loaded
    <3> QED BY <2>2, <2>3, <2>4, <3>1 DEF Loaded
  <2> QED BY <1>1, <1>3, <2>5 DEF t
<1> QED BY <1>2, <1>4, <1>5

\* A transmission that starts, for the first time or again.
LEMMA StartedIs ==
  ASSUME TypeInv, given # <<>>, NEW s, Fits(s), NEW t, Fits(t), Started(s, t),
         t.mode = "tx", BufSame(s, t), t.txLen = Len(s.buf),
         s.buf = Message(Len(given)), ~s.valid
  PROVE  Busy(t) /\ Loaded(t)
<1>1. Busy(t)
  BY DEF Busy, BufSame
<1>2. AllAre(s.buf, MaxPackets + Len(given))
  BY MessageIs
<1>3. /\ t.op = "tx" /\ t.aired = <<>> /\ t.txSent <= Len(t.buf)
      /\ Len(t.txFifo) = t.txSent
      /\ AllAre(t.txFifo, MaxPackets + Len(given))
  BY <1>2 DEF Started, BufSame
<1>4. t.txSent \in Nat
  BY Numbers DEF Fits, Radio
<1>5. Len(t.aired) + Len(t.txFifo) = t.txSent /\ Len(t.aired) = 0
  BY <1>3, <1>4
<1>6. AllAre(t.aired, MaxPackets + Len(given))
  BY <1>5 DEF AllAre
<1>7. Loaded(t)
  BY <1>3, <1>5, <1>6 DEF Loaded
<1> QED BY <1>1, <1>7

\* A retransmission after an underflow.
LEMMA RestartedIs ==
  ASSUME TypeInv, given # <<>>, Fits(r), Busy(r), Underflow
  PROVE  LET a == AfterFifoError(r) IN
         /\ Fits(a) /\ Busy(a) /\ Loaded(a) /\ Len(a.aired) = 0
<1> DEFINE a == AfterFifoError(r)
<1>1. a = OnFifoError(r)
  BY DEF Underflow, AfterFifoError
<1> HIDE DEF a
<1>2. /\ Fits(a) /\ a.mode = "tx" /\ BufSame(r, a)
      /\ a.txLen = Len(r.buf) /\ Started(r, a)
  BY <1>1, OnFifoErrorIs DEF Busy, Underflow
<1>3. Busy(a) /\ Loaded(a)
  BY <1>2, StartedIs DEF Busy
<1>4. Len(a.aired) = 0
  BY <1>2 DEF Started
<1> QED BY <1>2, <1>3, <1>4 DEF a

\* Where the handler is while a message goes out, up to the flag that says
\* that it is out.
LEMMA HandlerBusy ==
  ASSUME Held, Clean, pc = "sending", Busy(r),
         flags \subseteq {"txffaem", "fferror", "pksent"},
         ~("txffaem" \in flags /\ Overflows(AfterFifoError(r)))
  PROVE  LET t == HandleInterrupt(r) IN
         /\ Out => Silent(t)
         /\ (Loaded(r) /\ flags \subseteq {"txffaem"}) \/ Underflow =>
              Busy(t) /\ Loaded(t)
<1> DEFINE a == AfterFifoError(r)
           b == IF "txffaem" \in flags THEN SendNextFragment(a) ELSE a
           t == HandleInterrupt(r)
<1>1. t = IF "pksent" \in flags THEN OnPacketSent(b) ELSE b
  BY DEF HandleInterrupt
<1>2. TypeInv /\ Fits(r) /\ given # <<>>
  BY DEF Held, TypeInv
<1> HIDE DEF t
<1>3. ASSUME Out PROVE Silent(t)
  <2>1. /\ r.op = "idle" /\ "pksent" \in flags /\ "fferror" \notin flags
        /\ r.txFifo = <<>> /\ r.txSent = Len(r.buf)
    BY <1>3 DEF Out
  <2>2. a = r
    BY <2>1 DEF AfterFifoError
  <2>3. Len(r.buf) \in Nat
    BY <1>2 DEF Fits, Radio
  <2>4. /\ Fits(b) /\ b.txFifo = <<>> /\ b.op = "idle"
    BY <1>2, <2>1, <2>2, <2>3, SendNextFragmentIs DEF ModeSame
  <2> HIDE DEF b
  <2>5. t = OnPacketSent(b)
    BY <1>1, <2>1
  <2> QED BY <2>4, <2>5, OnPacketSentIs DEF Silent, TxSame
<1>4. ASSUME (Loaded(r) /\ flags \subseteq {"txffaem"}) \/ Underflow
      PROVE  Busy(t) /\ Loaded(t)
  <2>1. "pksent" \notin flags /\ t = b
    BY <1>1, <1>4 DEF Underflow
  <2>2. Fits(a) /\ Busy(a) /\ Loaded(a)
    <3>1. CASE Underflow
      BY <1>2, <3>1, RestartedIs
    <3>2. CASE Loaded(r) /\ flags \subseteq {"txffaem"}
      BY <1>2, <3>2 DEF AfterFifoError
    <3> QED BY <1>4, <3>1, <3>2
  <2>3. "txffaem" \in flags => ~Overflows(a)
    OBVIOUS
  <2> HIDE DEF a
  <2>4. CASE "txffaem" \notin flags
    BY <2>1, <2>2, <2>4
  <2>5. CASE "txffaem" \in flags
    <3>1. b = SendNextFragment(a)
      BY <2>5
    <3> QED BY <1>2, <2>1, <2>2, <2>3, <2>5, <3>1, RefillKeeps
  <2> QED BY <2>4, <2>5
<1> QED BY <1>3, <1>4 DEF t

LEMMA InterruptKeeps ==
  ASSUME Held, Clean, ~lost', Interrupt
  PROVE  Kept'
<1>1. ~("txffaem" \in flags /\ Overflows(AfterFifoError(r)))
  BY DEF Interrupt, Losing
<1>2. /\ r' = HandleInterrupt(r) /\ flags' = {} /\ pc # "filling"
      /\ UNCHANGED <<pc, given, sent>>
  BY <1>1 DEF Interrupt, Losing
<1>3. TypeInv /\ Fits(r) /\ Sending /\ SentIsGiven
  BY DEF Held, TypeInv, SendInv
<1>4. SentIsGiven' /\ Low'
  BY <1>2, <1>3, SentStays DEF Low
<1>5. ASSUME Silent(r'), Len(sent) = Len(given)
      PROVE  Sending'
  BY <1>2, <1>5 DEF Quiet, Silent, Sending
<1>6. CASE Quiet
  <2>1. Silent(HandleInterrupt(r))
    BY <1>3, <1>6, HandlerSilent DEF Quiet, Silent
  <2> QED BY <1>2, <1>4, <1>5, <1>6, <2>1 DEF Quiet, Kept
<1>7. CASE /\ pc = "sending" /\ Busy(r)
           /\ flags \subseteq {"txffaem", "fferror", "pksent"}
  <2> DEFINE t == HandleInterrupt(r)
  <2>1. /\ Out => Silent(t)
        /\ (Loaded(r) /\ flags \subseteq {"txffaem"}) \/ Underflow =>
             Busy(t) /\ Loaded(t)
    BY <1>1, <1>7, HandlerBusy
  <2> HIDE DEF t
  <2>2. r' = t
    BY <1>2 DEF t
  <2>3. CASE Out /\ Len(sent) = Len(given)
    BY <1>4, <1>5, <2>1, <2>2, <2>3 DEF Kept
  <2>4. CASE /\ (Loaded(r) /\ flags \subseteq {"txffaem"}) \/ Underflow
             /\ Len(sent) = Len(given) - 1
    <3>1. Busy(r)' /\ Loaded(r)'
      BY <1>2, <2>1, <2>2, <2>4 DEF Busy, Loaded, Message
    <3>2. Sending'
      BY <1>2, <1>7, <2>4, <3>1 DEF Sending
    <3> QED BY <1>4, <3>2 DEF Kept
  <2>5. Quiet \/ (Out /\ Len(sent) = Len(given))
        \/ (/\ (Loaded(r) /\ flags \subseteq {"txffaem"}) \/ Underflow
            /\ Len(sent) = Len(given) - 1)
    BY <1>3 DEF Sending
  <2> QED BY <1>6, <2>3, <2>4, <2>5
<1> QED BY <1>3, <1>6, <1>7 DEF Sending

\* A refill for which there is no room follows a restart of the same run of
\* the handler, and the message is longer than the FIFO.
LEMMA InterruptLoses ==
  ASSUME Held, Clean, lost', Interrupt
  PROVE  Late /\ TooLong
<1> DEFINE a == AfterFifoError(r)
<1>1. "txffaem" \in flags /\ Overflows(a)
  BY DEF Interrupt, Losing, Clean
<1>2. TypeInv /\ Fits(r) /\ Sending /\ Low
  BY DEF Held, TypeInv, SendInv
<1>3. /\ pc = "sending" /\ Busy(r) /\ given # <<>>
      /\ \/ Loaded(r) /\ flags \subseteq {"txffaem"}
         \/ Underflow
         \/ Out
  BY <1>1, <1>2 DEF Sending, Quiet, TypeInv
<1>4. CASE Loaded(r) /\ flags \subseteq {"txffaem"}
  <2>1. a = r
    BY <1>4 DEF AfterFifoError
  <2>2. Len(r.txFifo) > TxThreshold
    BY <1>1, <1>2, <2>1, OverflowIs
  <2>3. Len(r.txFifo) <= TxThreshold /\ Len(r.txFifo) \in Nat
    BY <1>1, <1>2 DEF Low, Fits, Radio
  <2> QED BY <2>2, <2>3, Numbers
<1>5. CASE Out
  <2>1. a = r /\ r.txSent = Len(r.buf)
    BY <1>5 DEF Out, AfterFifoError
  <2>2. r.txSent < Len(r.buf)
    BY <1>1, <1>2, <2>1, OverflowIs
  <2>3. Len(r.buf) \in Nat
    BY <1>2 DEF Fits, Radio
  <2> QED BY <2>1, <2>2, <2>3
<1>6. CASE Underflow
  <2>1. Late
    BY <1>1, <1>6 DEF Held, OneFlag, Underflow, Clean
  <2>2. Fits(a) /\ Busy(a) /\ Loaded(a) /\ Len(a.aired) = 0
    BY <1>2, <1>3, <1>6, RestartedIs
  <2> HIDE DEF a
  <2>3. Len(a.txFifo) <= a.txSent
    BY <2>2, LoadedFits DEF Loaded
  <2>4. Len(a.buf) > FifoSize
    BY <1>1, <2>2, <2>3, OverflowIs
  <2>5. /\ Len(a.buf) = given[Len(given)] /\ Len(given) \in 1 .. Len(given)
    <3>1. Len(given) \in Nat /\ Len(given) >= 1
      BY <1>2, <1>3, LastOf DEF TypeInv
    <3> QED BY <1>2, <1>3, <2>2, <3>1, MessageIs DEF Busy
  <2> QED BY <2>1, <2>4, <2>5 DEF TooLong
<1> QED BY <1>3, <1>4, <1>5, <1>6
-----------------------------------------------------------------------------
(* The main program.                                                        *)

\* The driver's other calls, when it does not transmit.
LEMMA MainKeeps ==
  ASSUME Held, Clean,
         \/ Available \/ Listen \/ SwitchOn \/ StoreMode \/ Look \/ Copy
         \/ Headers \/ WaitPacketSent
  PROVE  Kept'
<1>1. /\ TypeInv /\ Fits(r) /\ Sending /\ SentIsGiven
  BY DEF Held, TypeInv, SendInv
<1>2. /\ flags = {} /\ UNCHANGED <<flags, given, sent>>
      /\ pc # "filling" /\ pc' # "filling"
  BY DEF Available, Listen, SwitchOn, StoreMode, Look, Copy, Headers,
         WaitPacketSent, MainRuns, MainOnly, NotSend
<1>3. Quiet
  BY <1>1 DEF Available, Listen, SwitchOn, StoreMode, Look, Copy, Headers,
              WaitPacketSent, MainRuns, Sending, Busy
<1>4. Silent(r')
  <2>1. Silent(r)
    BY <1>1, <1>3 DEF Quiet, Silent
  <2>2. CASE Available \/ Listen \/ Look \/ Headers \/ WaitPacketSent
    BY <2>1, <2>2 DEF Available, Listen, Look, Headers, WaitPacketSent
  <2>3. CASE SwitchOn
    <3>1. Silent(SetMode(r, "rx"))
      BY <2>1, SetModeIs DEF Silent, Modes, Fits, BufSame
    <3> QED BY <2>3, <3>1 DEF SwitchOn
  <2>5. CASE StoreMode
    <3>1. Silent([r EXCEPT !.mode = "rx"])
      BY <2>1, ModeIs DEF Silent, Modes, TxSame
    <3> QED BY <2>5, <3>1 DEF StoreMode
  <2>4. CASE Copy
    <3>1. Silent(ClearRxBuf(r))
      BY <2>1, ClearRxBufIs DEF Silent, TxSame, ModeSame
    <3> QED BY <2>4, <3>1 DEF Copy
  <2> QED BY <2>2, <2>3, <2>4, <2>5
<1>5. Quiet'
  BY <1>2, <1>3, <1>4 DEF Quiet, Silent
<1>6. Sending' /\ Low'
  BY <1>2, <1>5 DEF Sending, Low
<1> QED BY <1>1, <1>2, <1>6, SentStays DEF Kept

LEMMA SendKeeps ==
  ASSUME Held, Clean, ~crossed', Send
  PROVE  Kept'
<1>1. /\ TypeInv /\ Fits(r) /\ Sending /\ SentIsGiven
  BY DEF Held, TypeInv, SendInv
<1>2. /\ flags = {} /\ UNCHANGED <<flags, sent>> /\ pc = "app" /\ ~r.valid
  BY DEF Send, MainRuns, MainOnly
<1>3. Quiet
  BY <1>1, <1>2 DEF Sending
<1>4. ASSUME NEW n \in 1 .. MaxLen, given' = Append(given, n), pc' = "filling",
             r' = r
      PROVE  Kept'
  <2>1. given \in Seq(1 .. MaxLen)
    BY <1>1 DEF TypeInv
  <2>2. /\ Len(given') = Len(given) + 1 /\ Len(given) \in Nat
        /\ \A i \in 1 .. Len(given) : given'[i] = given[i]
    BY <1>4, <2>1, AppendProperties
  <2>3. Quiet'
    <3>1. Len(sent') = Len(given') - 1
      BY <1>2, <1>3, <2>2 DEF Quiet
    <3> QED BY <1>2, <1>3, <1>4, <3>1 DEF Quiet
  <2>4. SentIsGiven'
    <3> SUFFICES ASSUME NEW i \in DOMAIN sent
                 PROVE  i <= Len(given') /\ sent[i] = Message(i)'
      BY <1>2 DEF SentIsGiven
    <3>1. i <= Len(given) /\ sent[i] = Message(i)
      BY <1>1 DEF SentIsGiven, Clean
    <3>2. i \in Nat /\ i >= 1
      BY <1>1 DEF TypeInv
    <3>3. i \in 1 .. Len(given) /\ i <= Len(given')
      BY <2>2, <3>1, <3>2
    <3>4. Message(i)' = Message(i)
      BY <2>2, <3>3 DEF Message
    <3> QED BY <3>1, <3>3, <3>4
  <2>5. Sending' /\ Low'
    BY <1>2, <2>3 DEF Sending, Low
  <2> QED BY <2>4, <2>5 DEF Kept
<1>5. CASE r' = ClearTxBuf(r) /\ UNCHANGED <<given, pc>>
  <2>1. Silent(ClearTxBuf(r))
    BY <1>1, <1>3, ClearTxBufIs DEF Quiet, Silent, ModeSame
  <2>2. Quiet'
    BY <1>2, <1>3, <1>5, <2>1 DEF Quiet, Silent
  <2>3. Sending' /\ Low'
    BY <1>2, <2>2 DEF Sending, Low
  <2> QED BY <1>1, <1>2, <1>5, <2>3, SentStays DEF Kept
<1> QED BY <1>4, <1>5 DEF Send

\* The first octets of a message find the FIFO empty.
LEMMA TransmitFits ==
  ASSUME Held, Clean, ~crossed', Transmit
  PROVE  flags' = {} /\ ~lost'
<1> DEFINE s == [ClearTxBuf(r) EXCEPT !.buf = Message(Len(given))]
<1>1. TypeInv /\ Sending /\ pc = "filling" /\ flags = {}
  BY DEF Held, SendInv, Transmit
<1>2. r.txFifo = <<>>
  BY <1>1 DEF Sending, Quiet
<1>3. Fits(s) /\ s.txFifo = <<>>
  BY <1>1, <1>2, TransmitIs
<1>4. Losing(Overflows(s), flags)
  BY DEF Transmit
<1> HIDE DEF s
<1>5. ~Overflows(s)
  BY <1>3, OverflowIs, Numbers
<1> QED BY <1>1, <1>4, <1>5 DEF Losing, Clean

LEMMA TransmitKeeps ==
  ASSUME Held, Clean, ~crossed', Transmit
  PROVE  Kept'
<1> DEFINE s == [ClearTxBuf(r) EXCEPT !.buf = Message(Len(given))]
<1>1. /\ TypeInv /\ Sending /\ SentIsGiven /\ given # <<>>
  BY DEF Held, TypeInv, SendInv, Transmit
<1>2. /\ flags' = {} /\ pc = "filling" /\ pc' = "sending"
      /\ UNCHANGED <<given, sent>>
  BY TransmitFits DEF Transmit, MainOnly
<1>3. Quiet
  BY <1>1, <1>2 DEF Sending
<1>4. /\ Fits(s) /\ r' = StartTransmit(s) /\ RxSame(r, s) /\ ModeSame(r, s)
      /\ s.buf = Message(Len(given)) /\ s.valid = r.valid
      /\ s.txSent = 0 /\ s.txFifo = r.txFifo
  BY <1>1, TransmitIs
<1> HIDE DEF s
<1>5. /\ Fits(r') /\ BufSame(s, r') /\ r'.mode = "tx" /\ r'.txLen = Len(s.buf)
      /\ Started(s, r')
  BY <1>3, <1>4, StartTransmitIs DEF Quiet, ModeSame
<1>6. Busy(r') /\ Loaded(r')
  <2>1. ~s.valid
    BY <1>2, <1>3, <1>4 DEF Quiet
  <2> QED BY <1>1, <1>4, <1>5, <2>1, StartedIs
<1>7. Busy(r)' /\ Loaded(r)'
  BY <1>2, <1>6 DEF Busy, Loaded, Message
<1>8. Sending' /\ Low'
  BY <1>2, <1>3, <1>7 DEF Sending, Quiet, Low
<1> QED BY <1>1, <1>2, <1>8, SentStays DEF Kept

LEMMA SendInit == Init => SendInv /\ LossInv /\ OneFlag
<1> SUFFICES ASSUME Init PROVE SendInv /\ LossInv /\ OneFlag
  OBVIOUS
<1>1. OneFlag /\ LossInv /\ Low
  BY DEF Init, OneFlag, LossInv, Low
<1>2. Quiet
  BY DEF Init, Quiet
<1>3. SentIsGiven
  BY DEF Init, SentIsGiven
<1> QED BY <1>1, <1>2, <1>3 DEF SendInv, Sending

\* An overflow is one of the handler's, and what was too long stays so.
LEMMA LossStep ==
  ASSUME Held, [Next]_vars PROVE LossInv'
<1> SUFFICES ASSUME lost', ~crossed' PROVE Late /\ TooLong'
  BY DEF LossInv
<1>1. ~crossed
  BY StaysWrong
<1>2. Late /\ TooLong
  <2>1. CASE lost
    BY <1>1, <2>1 DEF Held, LossInv
  <2>2. CASE ~lost
    <3>1. Clean
      BY <1>1, <2>2 DEF Clean
    <3>2. Interrupt \/ Transmit
      BY <2>2
      DEF Next, Chip, Preamble, RxOctet, RxEnd, TxOctet, TxEnd, ChipOnly, Main,
          Available, Listen, SwitchOn, StoreMode, Look, Copy, Headers,
          WaitPacketSent, NotSend, Send, vars
    <3> QED BY <3>1, <3>2, InterruptLoses, TransmitFits
  <2> QED BY <2>1, <2>2
<1>3. given' = given \/ \E n \in 1 .. MaxLen : given' = Append(given, n)
  BY DEF Next, Chip, Preamble, RxOctet, RxEnd, TxOctet, TxEnd, ChipOnly, Main,
         Available, Listen, SwitchOn, StoreMode, Look, Copy, Headers, Transmit,
         WaitPacketSent, Interrupt, Send, vars
<1>4. TooLong'
  <2>1. PICK j \in 1 .. Len(given) : given[j] > FifoSize
    BY <1>2 DEF TooLong
  <2>2. given \in Seq(1 .. MaxLen) /\ Len(given) \in Nat
    BY DEF Held, TypeInv
  <2>3. j \in 1 .. Len(given') /\ given'[j] = given[j]
    <3>1. CASE given' = given
      BY <3>1
    <3>2. ASSUME NEW n \in 1 .. MaxLen, given' = Append(given, n)
          PROVE  j \in 1 .. Len(given') /\ given'[j] = given[j]
      BY <2>2, <3>2, AppendProperties
    <3> QED BY <1>3, <3>1, <3>2
  <2> QED BY <2>1, <2>3 DEF TooLong
<1> QED BY <1>2, <1>4

LEMMA SendStep == Held /\ [Next]_vars => Held'
<1> SUFFICES ASSUME Held, [Next]_vars PROVE Held'
  OBVIOUS
<1>1. TypeInv' /\ OneFlag' /\ LossInv'
  BY TypeStep, OneFlagStep, LossStep DEF Held
<1>2. ASSUME Clean' PROVE Kept'
  <2>1. Clean /\ ~crossed' /\ ~lost'
    BY <1>2, StaysWrong DEF Clean
  <2>2. CASE Next
    BY <2>1, <2>2, RxKeeps, TxOctetKeeps, TxEndKeeps, InterruptKeeps, MainKeeps,
       TransmitKeeps, SendKeeps
    DEF Next, Chip, Main
  <2>3. CASE UNCHANGED vars
    <3>1. Sending /\ SentIsGiven /\ Low /\ TypeInv
      BY <2>1 DEF Held, SendInv
    <3>2. Sending' /\ Low'
      BY <2>3, <3>1
      DEF vars, Sending, Quiet, Busy, Loaded, Underflow, Out, Low, Message, AllAre
    <3> QED BY <2>1, <2>3, <3>1, <3>2, SentStays DEF Kept, vars
  <2> QED BY <2>2, <2>3
<1> QED BY <1>1, <1>2 DEF Held, Kept, SendInv

LEMMA SpecHeld == Spec => []Held
<1>1. Init => Held
  BY TypeInit, SendInit DEF Held
<1> QED BY <1>1, SendStep, PTL DEF Spec
-----------------------------------------------------------------------------
(* Every variable has its type.                                             *)
THEOREM TypeCorrect == Spec => []TypeOK
<1>1. Held => TypeOK
  <2> SUFFICES ASSUME Held PROVE TypeOK
    OBVIOUS
  <2>1. TypeInv /\ r \in Radio
    BY DEF Held, TypeInv, Fits
  <2>2. /\ r.mode \in {"idle", "rx", "tx"} /\ r.op \in {"idle", "rx", "tx"}
        /\ {r.buf, r.rxFifo, r.txFifo, r.aired} \subseteq Seq(Octet)
        /\ r.valid \in BOOLEAN
        /\ r.air \in 0 .. MaxPackets /\ r.from \in 0 .. MaxPackets
        /\ r.txSent \in Nat
    BY <2>1, Numbers DEF Radio, Modes
  <2> QED BY <2>1, <2>2 DEF TypeOK, TypeInv, Flags
<1> QED BY <1>1, SpecHeld, PTL

(* _buf is never written past its end, whatever the lengths on the air, the *)
(* thresholds and the messages; and the transmit FIFO overflows only when   *)
(* the handler is held off and a message is longer than the FIFO, unless a  *)
(* transmission has started in the way of a reception.                      *)
THEOREM BuffersHold == Spec => []NothingOverflows
<1>1. Held => NothingOverflows
  <2> SUFFICES ASSUME Held PROVE NothingOverflows
    OBVIOUS
  <2>1. Len(r.buf) <= MaxLen /\ LossInv /\ DOMAIN given = 1 .. Len(given)
    BY DEF Held, TypeInv, Fits
  <2> QED BY <2>1 DEF NothingOverflows, LossInv, TooLong
<1> QED BY <1>1, SpecHeld, PTL

(* What goes out on the air is what send() was given, every message once    *)
(* and in order, for a message of any length and after any number of        *)
(* refills and underflows of the FIFO, until it overflows or a transmission *)
(* starts in the way of a reception.                                        *)
THEOREM SentAsGiven == Spec => []SentIsGiven
<1>1. Held => SentIsGiven
  BY DEF Held, SendInv, SentIsGiven, Clean
<1> QED BY <1>1, SpecHeld, PTL

(* waitPacketSent() does not return while the transmitter is on, under the  *)
(* same conditions.                                                         *)
THEOREM WaitsUntilSent == Spec => WaitMeansSent
<1>1. Held /\ [Next]_vars =>
        [pc = "sending" /\ pc' = "app" => r.op # "tx" \/ crossed \/ lost]_vars
  <2> SUFFICES ASSUME Held, Next, pc = "sending", pc' = "app", Clean
               PROVE  r.op # "tx"
    BY DEF Clean
  <2>1. WaitPacketSent
    BY DEF Next, Chip, Preamble, RxOctet, RxEnd, TxOctet, TxEnd, ChipOnly,
           Interrupt, Main, Available, Listen, SwitchOn, StoreMode, Look, Copy,
           Headers, Transmit, WaitPacketSent, Send, MainRuns
  <2> QED BY <2>1, OnTheWay DEF WaitPacketSent, Busy
<1> QED BY <1>1, SpecHeld, PTL DEF Spec, WaitMeansSent
-----------------------------------------------------------------------------
(* Reception.                                                               *)

\* What the actions rest on and have to keep.
Hears == AsShipped /\ Held /\ Clean /\ Receiving /\ Ordered
Heard == Receiving /\ Ordered

LEMMA OrderedStays ==
  ASSUME Ordered, UNCHANGED <<lens, got, msg>>, Waiting' \in {Waiting, <<>>},
         Coming' => Coming
  PROVE  Ordered'
<1>1. \A p : Payload(p)' <=> Payload(p)
  BY DEF Payload, Packet
<1>2. Payload(Waiting)'
  BY <1>1 DEF Ordered, Payload
<1>3. \A p : Earlier(p, Waiting) => Earlier(p, Waiting')
  BY DEF Earlier
<1> HIDE DEF Waiting
<1> QED BY <1>1, <1>2, <1>3 DEF Ordered

\* With one packet fewer or more on the air, packets are packets.
LEMMA PacketIs ==
  ASSUME TypeInv, NEW p, Payload(p)
  PROVE  Below(p, Len(lens) + 1)
<1> SUFFICES ASSUME NEW k \in 1 .. Len(lens), p = Packet(k), p # <<>>
             PROVE  p[1] < Len(lens) + 1
  BY DEF Payload, Below
<1>1. lens[k] \in Nat
  <2>1. lens[k] \in AirLengths
    BY DEF TypeInv
  <2> QED BY <2>1, Numbers
<1>2. lens[k] # 0
  BY <1>1 DEF Packet
<1>3. p[1] = k
  BY <1>1, <1>2 DEF Packet
<1> QED BY <1>3 DEF TypeInv

\* What a packet's octets add up to.
LEMMA PacketFrom ==
  ASSUME TypeInv, NEW k \in 1 .. Len(lens),
         NEW q \in Seq(Octet), Len(q) = lens[k], AllAre(q, k)
  PROVE  q = Packet(k) /\ (q # <<>> => q[1] = k)
<1>1. lens[k] \in Nat
  <2>1. lens[k] \in AirLengths
    BY DEF TypeInv
  <2> QED BY <2>1, Numbers
<1>2. \A i \in 1 .. Len(q) : q[i] = k
  BY DEF AllAre
<1>3. Packet(k) = [i \in 1 .. lens[k] |-> k]
  BY DEF Packet
<1>4. q = [i \in 1 .. Len(q) |-> q[i]]
  OBVIOUS
<1>5. q = Packet(k)
  BY <1>2, <1>3, <1>4
<1>6. q # <<>> => q[1] = k
  BY <1>2
<1> QED BY <1>5, <1>6

\* What a packet that comes in is like.
LEMMA IncomingIs ==
  ASSUME AsShipped, TypeInv, Receiving, r.air # None
  PROVE  /\ Incoming /\ Len(lens) \in 1 .. Len(lens)
         /\ lens[Len(lens)] \in Nat /\ lens[Len(lens)] <= MaxLen
         /\ r \in Radio /\ Len(r.rxFifo) \in Nat /\ r.at \in Nat
<1>1. Incoming /\ r \in Radio
  BY DEF Receiving, TypeInv, Fits
<1>2. Len(lens) \in Nat /\ Len(lens) # 0
  BY <1>1 DEF TypeInv, Incoming, None
<1>3. lens[Len(lens)] \in 0 .. MaxLen
  <2>1. lens[Len(lens)] \in AirLengths
    BY <1>2 DEF TypeInv
  <2> QED BY <2>1 DEF AsShipped
<1> QED BY <1>1, <1>2, <1>3, Numbers DEF Radio
\* The chip goes on when the handler has been called.
LEMMA ChipAlone ==
  ASSUME Hears, Chip
  PROVE  /\ flags = {} /\ TypeInv /\ r \in Radio
         /\ UNCHANGED <<pc, msg, got, given, crossed>>
BY DEF Hears, Held, TypeInv, Fits, AsShipped, ChipRuns, ChipOnly,
       Chip, Preamble, RxOctet, RxEnd, TxOctet, TxEnd

LEMMA PreambleHeard ==
  ASSUME Hears, Preamble PROVE Heard'
<1>1. /\ flags = {} /\ TypeInv /\ r \in Radio
      /\ UNCHANGED <<pc, msg, got, given, crossed>>
  BY ChipAlone DEF Chip
<1>2. Receiving /\ Ordered
  BY DEF Hears
<1>3. /\ flags' = {"preaval"} /\ r.op = "rx" /\ r.air = None
      /\ r.rxFifo = <<>>
  BY <1>1, <1>2 DEF Preamble, Receiving
<1>4. CASE UNCHANGED <<r, lens>>
  <2>1. Receiving'
    BY <1>1, <1>2, <1>3, <1>4 DEF Receiving
  <2>2. Coming' => Coming
    BY <1>3, <1>4 DEF Coming
  <2>3. Waiting' = Waiting
    BY <1>4 DEF Waiting
  <2>4. Ordered'
    BY <1>1, <1>2, <1>4, <2>2, <2>3, OrderedStays
  <2> QED BY <2>1, <2>4 DEF Heard
<1>5. ASSUME NEW n \in AirLengths, lens' = Append(lens, n),
             r' = [r EXCEPT !.air = Len(lens) + 1, !.at = 0]
      PROVE  Heard'
  <2>1. lens \in Seq(AirLengths) /\ Len(lens) \in Nat
    BY <1>1 DEF TypeInv
  <2>2. /\ Len(lens') = Len(lens) + 1 /\ lens'[Len(lens) + 1] = n
        /\ \A k \in 1 .. Len(lens) : lens'[k] = lens[k]
    BY <1>5, <2>1, AppendProperties
  <2>3. /\ r'.air = Len(lens) + 1 /\ r'.at = 0 /\ r'.op = r.op
        /\ r'.rxFifo = r.rxFifo /\ r'.mode = r.mode
        /\ r'.buf = r.buf /\ r'.valid = r.valid
    BY <1>1, <1>5 DEF Radio
  <2>4. Incoming'
    <3>1. n \in Nat /\ n >= 0
      BY Numbers
    <3>2. r'.air = Len(lens') /\ lens'[r'.air] = n
      BY <2>2, <2>3
    <3>3. r'.rxFifo = <<>> /\ Len(r'.rxFifo) = 0
      BY <1>3, <2>3
    <3>4. AllAre(r'.rxFifo, Len(lens'))
      BY <3>3 DEF AllAre
    <3> QED BY <1>3, <2>3, <3>1, <3>2, <3>3, <3>4 DEF Incoming
  <2>5. Receiving'
    <3>1. r'.air # None
      BY <2>1, <2>3 DEF None
    <3> QED BY <1>1, <1>2, <1>3, <2>3, <2>4, <3>1 DEF Receiving
  <2>6. ASSUME NEW p, Payload(p)
        PROVE  Payload(p)' /\ Below(p, Len(lens'))
    <3>1. Below(p, Len(lens'))
      BY <1>1, <2>2, <2>6, PacketIs
    <3>2. \A k \in 1 .. Len(lens) : Packet(k)' = Packet(k) /\ k \in 1 .. Len(lens')
      BY <2>1, <2>2 DEF Packet
    <3> QED BY <2>6, <3>1, <3>2 DEF Payload
  <2>7. Waiting' = Waiting
    BY <2>3 DEF Waiting
  <2> HIDE DEF Waiting
  <2>8. Ordered'
    BY <1>1, <1>2, <2>6, <2>7 DEF Ordered
  <2> QED BY <2>5, <2>8 DEF Heard
<1> QED BY <1>4, <1>5 DEF Preamble

LEMMA RxOctetHeard ==
  ASSUME Hears, RxOctet PROVE Heard'
<1>1. /\ flags = {} /\ TypeInv /\ r \in Radio
      /\ UNCHANGED <<pc, msg, got, given, crossed>>
  BY ChipAlone DEF Chip
<1>2. Receiving /\ Ordered /\ AsShipped /\ r.air # None /\ lens' = lens
  BY DEF Hears, RxOctet
<1>3. /\ Incoming /\ Len(lens) \in 1 .. Len(lens)
      /\ lens[Len(lens)] \in Nat /\ lens[Len(lens)] <= MaxLen
      /\ Len(r.rxFifo) \in Nat /\ r.at \in Nat
  BY <1>1, <1>2, IncomingIs
<1>4. /\ r.air = Len(lens) /\ r.at < lens[Len(lens)] /\ Len(r.rxFifo) = r.at
      /\ AllAre(r.rxFifo, Len(lens)) /\ r.op = "rx" /\ r.buf = <<>> /\ ~r.valid
  BY <1>1, <1>3 DEF Incoming, RxOctet
<1>5. Len(r.rxFifo) + 1 # RxThreshold /\ Len(r.rxFifo) # FifoSize
  <2>1. MaxLen \in Nat /\ RxThreshold \in Nat /\ FifoSize \in Nat
        /\ MaxLen < RxThreshold /\ RxThreshold <= FifoSize
    BY <1>2, Numbers DEF AsShipped
  <2>2. \A a, l, m, t, f \in Nat :
          a < l /\ l <= m /\ m < t /\ t <= f => a + 1 # t /\ a # f
    OBVIOUS
  <2> QED BY <1>3, <1>4, <2>1, <2>2
<1> DEFINE fifo == Append(r.rxFifo, r.air)
<1>6. /\ fifo \in Seq(Octet) /\ Len(fifo) = r.at + 1 /\ AllAre(fifo, Len(lens))
  <2>1. r.air \in Octet /\ r.rxFifo \in Seq(Octet)
    BY <1>1, Numbers DEF Radio, Octet
  <2>2. /\ fifo \in Seq(Octet) /\ Len(fifo) = Len(r.rxFifo) + 1
        /\ \A i \in 1 .. Len(r.rxFifo) : fifo[i] = r.rxFifo[i]
        /\ fifo[Len(r.rxFifo) + 1] = r.air
    BY <2>1, AppendProperties
  <2>3. \A i \in 1 .. Len(r.rxFifo) : r.rxFifo[i] = r.air
    BY <1>4 DEF AllAre
  <2>4. \A i \in 1 .. (Len(r.rxFifo) + 1) :
           i \in 1 .. Len(r.rxFifo) \/ i = Len(r.rxFifo) + 1
    BY <1>3
  <2> HIDE DEF fifo
  <2> QED BY <1>4, <2>2, <2>3, <2>4 DEF AllAre
<1>7. /\ r' = [r EXCEPT !.at = @ + 1, !.from = r.air, !.rxFifo = fifo]
      /\ flags' = {}
  <2>1. /\ r' = [r EXCEPT !.at = @ + 1, !.from = r.air,
                          !.rxFifo = Append(@, r.air)]
        /\ flags' = flags
    BY <1>5 DEF RxOctet
  <2> QED BY <1>1, <2>1 DEF Radio
<1> HIDE DEF fifo
<1>8. /\ r'.air = r.air /\ r'.at = r.at + 1 /\ r'.op = r.op /\ r'.rxFifo = fifo
      /\ r'.mode = r.mode /\ r'.buf = r.buf /\ r'.valid = r.valid
  BY <1>1, <1>7 DEF Radio
<1>9. Incoming'
  <2>1. r.at + 1 <= lens[Len(lens)]
    BY <1>3, <1>4
  <2> QED BY <1>2, <1>4, <1>6, <1>7, <1>8, <2>1 DEF Incoming
<1>10. Receiving'
  BY <1>1, <1>2, <1>7, <1>8, <1>9 DEF Receiving
<1>11. Ordered'
  <2>1. Waiting' = Waiting /\ (Coming' => Coming)
    BY <1>1, <1>7, <1>8 DEF Waiting, Coming
  <2> QED BY <1>1, <1>2, <2>1, OrderedStays
<1> QED BY <1>10, <1>11 DEF Heard

LEMMA RxEndHeard ==
  ASSUME Hears, RxEnd PROVE Heard'
<1>1. /\ flags = {} /\ TypeInv /\ r \in Radio
      /\ UNCHANGED <<pc, msg, got, given, crossed>>
  BY ChipAlone DEF Chip
<1>2. Receiving /\ Ordered /\ AsShipped /\ r.air # None /\ lens' = lens
  BY DEF Hears, RxEnd
<1>3. /\ Incoming /\ Len(lens) \in 1 .. Len(lens)
      /\ lens[Len(lens)] \in Nat
  BY <1>1, <1>2, IncomingIs
<1>4. /\ r.air = Len(lens) /\ r.at = lens[Len(lens)] /\ Len(r.rxFifo) = r.at
      /\ AllAre(r.rxFifo, Len(lens)) /\ r.buf = <<>> /\ ~r.valid
  BY <1>1, <1>3 DEF Incoming, RxEnd
<1>5. /\ r'.air = None /\ r'.rxLen = lens[Len(lens)] /\ r'.rxFifo = r.rxFifo
      /\ r'.mode = r.mode /\ r'.buf = r.buf /\ r'.valid = r.valid
      /\ flags' = {"pkvalid"} \/ flags' = {"crcerror"}
  BY <1>1, <1>4 DEF RxEnd, Radio
<1>6. CameIn'
  BY <1>2, <1>3, <1>4, <1>5 DEF CameIn
<1>7. Receiving'
  BY <1>1, <1>2, <1>4, <1>5, <1>6 DEF Receiving
<1>8. Ordered'
  <2>1. Waiting' = Waiting /\ Coming
    BY <1>2, <1>5 DEF Waiting, Coming
  <2> QED BY <1>1, <1>2, <2>1, OrderedStays
<1> QED BY <1>7, <1>8 DEF Heard

LEMMA TxHeard ==
  ASSUME Hears, TxOctet \/ TxEnd PROVE Heard'
<1>1. /\ flags = {} /\ TypeInv /\ r \in Radio
      /\ UNCHANGED <<pc, msg, got, given, crossed>>
  BY ChipAlone DEF Chip
<1>2. /\ Receiving /\ Ordered /\ Held /\ Clean /\ lens' = lens /\ r.op = "tx"
  BY DEF Hears, TxOctet, TxEnd
<1>3. r.mode = "tx"
  BY <1>2, OnTheWay DEF Busy
<1>4. /\ r'.air = r.air /\ r'.rxFifo = r.rxFifo /\ r'.mode = r.mode
      /\ r'.buf = r.buf /\ r'.valid = r.valid
      /\ flags' \subseteq {"fferror", "txffaem", "pksent"}
  BY <1>1 DEF TxOctet, TxEnd, Radio
<1>5. r.air = None /\ r.rxFifo = <<>>
  BY <1>1, <1>2 DEF Receiving, Incoming
<1>6. Receiving'
  BY <1>1, <1>2, <1>3, <1>4, <1>5 DEF Receiving
<1>7. Ordered'
  <2>1. Waiting' = Waiting /\ (Coming' => Coming)
    BY <1>4, <1>5 DEF Waiting, Coming
  <2> QED BY <1>1, <1>2, <2>1, OrderedStays
<1> QED BY <1>6, <1>7 DEF Heard
\* After the handler, with no packet coming in.
LEMMA HandledAlone ==
  ASSUME Hears, UNCHANGED <<pc, lens, msg, got>>, flags' = {},
         r'.air = None, r'.rxFifo = <<>>,
         Waiting' \in {Waiting, <<>>}, r'.valid \/ r'.buf = <<>>
                                       \/ (r'.buf = r.buf /\ r'.valid = r.valid)
  PROVE  Heard'
<1>1. Receiving'
  BY DEF Hears, Receiving
<1>2. ~Coming'
  BY DEF Coming
<1>3. Ordered'
  BY <1>2, OrderedStays DEF Hears
<1> QED BY <1>1, <1>3 DEF Heard

\* The handler, for each flag by itself.
LEMMA OneEvent ==
  /\ flags = {"fferror"} => HandleInterrupt(r) = OnFifoError(r)
  /\ flags = {"txffaem"} => HandleInterrupt(r) = SendNextFragment(r)
  /\ flags = {"pksent"} => HandleInterrupt(r) = OnPacketSent(r)
  /\ flags = {"crcerror"} => HandleInterrupt(r) = OnCrcError(r)
  /\ flags = {"preaval"} => HandleInterrupt(r) = OnPreamble(r)
  /\ flags = {"pkvalid"} /\ ~BadLength(r) => HandleInterrupt(r) = ReadPacket(r)
BY DEF HandleInterrupt, AfterFifoError

LEMMA InterruptHeard ==
  ASSUME Hears, Interrupt, ~lost' PROVE Heard'
<1>1. /\ r' = HandleInterrupt(r) /\ flags' = {}
      /\ UNCHANGED <<pc, lens, msg, got, given, sent, crossed>>
  BY DEF Interrupt, Losing
<1>2. /\ AsShipped /\ Held /\ Clean /\ TypeInv /\ Fits(r) /\ r \in Radio
      /\ Receiving /\ Ordered /\ Sending
  BY DEF Hears, Held, SendInv, TypeInv, Fits
<1>3. flags # {} /\ \E f \in Flags : flags = {f}
  BY <1>2 DEF Held, OneFlag, AsShipped, Interrupt, Clean
<1>4. r.air # None => flags = {"preaval"}
  BY <1>2, <1>3 DEF Receiving, Incoming
<1>5. CASE flags = {"fferror"}
  <2>1. r.mode = "tx"
    BY <1>2, <1>5 DEF Receiving
  <2>2. Underflow /\ Busy(r)
    BY <1>2, <1>5, <2>1 DEF Sending, Quiet, Out
  <2>3. BufSame(r, OnFifoError(r)) /\ Started(r, OnFifoError(r))
    BY <1>2, <2>1, <2>2, OnFifoErrorIs DEF Underflow
  <2>4. r' = OnFifoError(r)
    BY <1>1, <1>5, OneEvent
  <2>5. /\ r'.air = None /\ r'.rxFifo = <<>> /\ r'.buf = r.buf
        /\ r'.valid = r.valid
    BY <2>3, <2>4 DEF Started, BufSame
  <2> QED BY <1>1, <2>5, HandledAlone DEF Waiting
<1>6. CASE flags = {"txffaem"}
  <2>1. /\ r' = SendNextFragment(r) /\ r.air = None /\ r.rxFifo = <<>>
    BY <1>1, <1>2, <1>4, <1>6, OneEvent DEF Receiving
  <2>2. /\ r'.air = None /\ r'.rxFifo = <<>> /\ r'.buf = r.buf
        /\ r'.valid = r.valid
    BY <1>2, <2>1, SendNextFragmentIs DEF RxSame, BufSame
  <2> QED BY <1>1, <2>2, HandledAlone DEF Waiting
<1>7. CASE flags = {"pksent"}
  <2>1. /\ r' = OnPacketSent(r) /\ r.air = None /\ r.rxFifo = <<>>
    BY <1>1, <1>2, <1>4, <1>7, OneEvent DEF Receiving
  <2>2. /\ r'.air = None /\ r'.rxFifo = <<>> /\ r'.buf = r.buf
        /\ r'.valid = r.valid
    BY <1>2, <2>1, OnPacketSentIs DEF RxSame, BufSame
  <2> QED BY <1>1, <2>2, HandledAlone DEF Waiting
<1>8. CASE flags = {"crcerror"}
  <2>1. r' = OnCrcError(r) /\ r.air = None
    BY <1>1, <1>2, <1>4, <1>8, OneEvent DEF Receiving
  <2>2. r'.air = None /\ r'.rxFifo = <<>> /\ r'.buf = <<>> /\ ~r'.valid
    BY <1>2, <2>1, OnCrcErrorIs
  <2> QED BY <1>1, <2>2, HandledAlone DEF Waiting
<1>9. CASE flags = {"preaval"}
  <2>1. r' = ClearRxBuf(r)
    BY <1>1, <1>9, OneEvent DEF OnPreamble
  <2>2. /\ RxSame(r, r') /\ ModeSame(r, r') /\ r'.buf = <<>> /\ ~r'.valid
    BY <1>2, <2>1, ClearRxBufIs
  <2>3. CASE r.air = None
    <3>1. r'.air = None /\ r'.rxFifo = <<>>
      BY <1>2, <1>9, <2>2, <2>3 DEF Receiving, RxSame
    <3> QED BY <1>1, <2>2, <3>1, HandledAlone DEF Waiting
  <2>4. CASE r.air # None
    <3>1. Incoming
      BY <1>2, <2>4 DEF Receiving
    <3>2. Incoming'
      BY <1>1, <2>2, <3>1 DEF Incoming, RxSame, ModeSame, AllAre
    <3>3. Receiving'
      BY <1>1, <2>2, <2>4, <3>2 DEF Receiving, RxSame
    <3>4. Waiting' = <<>> /\ Coming
      BY <2>2, <2>4 DEF Waiting, Coming
    <3>5. Ordered'
      BY <1>1, <1>2, <3>4, OrderedStays
    <3> QED BY <3>3, <3>5 DEF Heard
  <2> QED BY <2>3, <2>4
<1>10. CASE flags = {"pkvalid"}
  <2> DEFINE k == Len(lens)
  <2>1. CameIn
    BY <1>2, <1>10 DEF Receiving
  <2>2. /\ r.air = None /\ r.rxLen = lens[k] /\ Len(r.rxFifo) = r.rxLen
        /\ AllAre(r.rxFifo, k) /\ r.buf = <<>> /\ Len(r.buf) = 0
        /\ k \in 1 .. Len(lens) /\ r.rxFifo \in Seq(Octet)
    <3>1. Len(lens) \in Nat
      BY <1>2 DEF TypeInv
    <3> QED BY <1>2, <2>1, <3>1 DEF CameIn, Radio
  <2>3. r.rxLen \in Nat /\ r.rxLen <= MaxLen
    <3>1. lens[k] \in AirLengths
      BY <1>2, <2>2 DEF TypeInv
    <3>2. lens[k] \in 0 .. MaxLen
      BY <1>2, <3>1 DEF AsShipped
    <3> QED BY <2>2, <3>2, Numbers
  <2>4. ~BadLength(r)
    BY <2>2, <2>3, Numbers DEF BadLength
  <2>5. r' = ReadPacket(r)
    BY <1>1, <1>10, <2>4, OneEvent
  <2>6. /\ r'.air = None /\ r'.valid /\ r'.buf = r.rxFifo /\ r'.rxFifo = <<>>
    BY <1>2, <2>2, <2>4, <2>5, ReadPacketIs
  <2>7. r'.buf = Packet(k) /\ (r'.buf # <<>> => r'.buf[1] = k)
    BY <1>2, <2>2, <2>6, PacketFrom
  <2>8. Receiving'
    BY <1>1, <2>6 DEF Receiving
  <2>9. ~Coming' /\ Waiting' = r'.buf
    BY <1>1, <2>6 DEF Coming, Waiting
  <2>10. Payload(Waiting')
    BY <2>2, <2>7, <2>9 DEF Payload
  <2>11. Coming
    BY <1>10 DEF Coming
  <2>12. \A p : Below(p, k) => Earlier(p, Waiting')
    BY <2>7, <2>9 DEF Below, Earlier
  <2>13. \A p : Payload(p)' <=> Payload(p)
    BY <1>1 DEF Payload, Packet
  <2> HIDE DEF Waiting
  <2>14. Ordered'
    BY <1>1, <1>2, <2>9, <2>10, <2>11, <2>12, <2>13 DEF Ordered
  <2> QED BY <2>8, <2>14 DEF Heard
<1>11. flags # {"rxffafull"}
  BY <1>2 DEF Receiving
<1> QED
  BY <1>3, <1>5, <1>6, <1>7, <1>8, <1>9, <1>10, <1>11 DEF Flags

\* The calls of the main program that do not transmit.
LEMMA MainHeard ==
  ASSUME Hears, Available \/ Listen \/ Look \/ WaitPacketSent
  PROVE  Heard'
<1>1. /\ Receiving /\ Ordered /\ UNCHANGED <<r, flags, lens, msg, got>>
      /\ pc' = "copy" => r.valid
  BY DEF Hears, Available, Listen, Look, WaitPacketSent, MainOnly, NotSend
<1>2. Receiving'
  BY <1>1 DEF Receiving, Incoming, CameIn, AllAre
<1>3. Waiting' = Waiting /\ (Coming' => Coming)
  BY <1>1 DEF Waiting, Coming
<1>4. Ordered'
  BY <1>1, <1>3, OrderedStays
<1> QED BY <1>2, <1>4 DEF Heard

\* The two stores of setModeRx(): a packet that comes in goes on coming in.
LEMMA SwitchHeard == ASSUME Hears, SwitchOn \/ StoreMode PROVE Heard'
<1>1. /\ Receiving /\ Ordered /\ UNCHANGED <<flags, lens, msg, got>>
      /\ flags = {} /\ pc' # "copy" /\ Fits(r) /\ r \in Radio
  BY DEF Hears, SwitchOn, StoreMode, MainOnly, NotSend, MainRuns, Held, TypeInv,
         Fits
<1>2. /\ BufSame(r, r') /\ r'.rxFifo = r.rxFifo /\ r'.air \in {r.air, None}
      /\ r.op = "rx" => RxSame(r, r') /\ r'.op = "rx"
  <2>1. CASE SwitchOn
    <3>1. r' = SetMode(r, "rx") /\ "rx" \in Modes
      BY <2>1 DEF SwitchOn, Modes
    <3> QED BY <1>1, <3>1, SetModeIs DEF RxSame
  <2>2. CASE StoreMode
    <3>1. r' = [r EXCEPT !.mode = "rx"] /\ "rx" \in Modes
      BY <2>2 DEF StoreMode, Modes
    <3> QED BY <1>1, <3>1, ModeIs DEF RxSame
  <2> QED BY <2>1, <2>2
<1>3. Waiting' = Waiting /\ (Coming' => Coming)
  BY <1>1, <1>2 DEF Waiting, Coming, BufSame
<1>4. Ordered'
  BY <1>1, <1>3, OrderedStays
<1>5. CASE r.air = None
  <2>1. r'.air = None /\ r'.rxFifo = <<>>
    BY <1>1, <1>2, <1>5 DEF Receiving
  <2>2. Receiving'
    BY <1>1, <2>1 DEF Receiving
  <2> QED BY <1>4, <2>2 DEF Heard
<1>6. CASE r.air # None
  <2>1. Incoming
    BY <1>1, <1>6 DEF Receiving
  <2>2. RxSame(r, r') /\ r'.op = "rx"
    BY <1>2, <2>1 DEF Incoming
  <2>3. Incoming'
    BY <1>1, <1>2, <2>1, <2>2 DEF Incoming, RxSame, BufSame, AllAre
  <2>4. Receiving'
    BY <1>1, <1>6, <2>2, <2>3 DEF Receiving, RxSame
  <2> QED BY <1>4, <2>4 DEF Heard
<1> QED BY <1>5, <1>6

\* With nothing in the buffer, what the chip receives is as before.
LEMMA EmptyHeard ==
  ASSUME Receiving, RxSame(r, r'), ModeSame(r, r'), r'.buf = <<>>, ~r'.valid,
         UNCHANGED <<flags, lens>>, flags = {}
  PROVE  Receiving'
<1>1. CASE r.air = None
  BY <1>1 DEF Receiving, RxSame
<1>2. CASE r.air # None
  <2>1. Incoming
    BY <1>2 DEF Receiving
  <2>2. Incoming'
    BY <2>1 DEF Incoming, RxSame, ModeSame, AllAre
  <2> QED BY <1>2, <2>2 DEF Receiving, RxSame
<1> QED BY <1>1, <1>2

LEMMA CopyHeard == ASSUME Hears, Copy PROVE Heard'
<1>1. /\ Receiving /\ Ordered /\ UNCHANGED <<flags, lens, got>>
      /\ flags = {} /\ pc = "copy" /\ r' = ClearRxBuf(r) /\ msg' = r.buf
      /\ Fits(r)
  BY DEF Hears, Copy, MainOnly, NotSend, MainRuns, Held, TypeInv
<1>2. RxSame(r, r') /\ ModeSame(r, r') /\ r'.buf = <<>> /\ ~r'.valid
  BY <1>1, ClearRxBufIs
<1>3. Receiving'
  BY <1>1, <1>2, EmptyHeard
<1>4. msg' = Waiting /\ Waiting' = <<>>
  BY <1>1, <1>2 DEF Waiting, Receiving
<1>5. Coming' => Coming /\ msg' = <<>>
  BY <1>1, <1>2 DEF Coming, RxSame, Receiving, Incoming
<1>6. \A p : /\ Payload(p)' <=> Payload(p)
             /\ Earlier(p, <<>>) /\ Payload(<<>>)
  BY <1>1 DEF Payload, Packet, Earlier
<1>7. Below(<<>>, Len(lens)) /\ Earlier(msg', <<>>)
  BY DEF Below, Earlier
<1> HIDE DEF Waiting
<1>8. Ordered'
  BY <1>1, <1>4, <1>5, <1>6, <1>7 DEF Ordered
<1> QED BY <1>3, <1>8 DEF Heard

LEMMA HeadersHeard == ASSUME Hears, Headers PROVE Heard'
<1> DEFINE g == [data |-> msg, from |-> r.from]
           S == [data : Seq(Octet), from : 0 .. MaxPackets]
<1>1. /\ Receiving /\ Ordered /\ UNCHANGED <<r, flags, lens>>
      /\ pc' = "app" /\ msg' = <<>> /\ got' = Append(got, g)
      /\ got \in Seq(S) /\ g \in S
  BY DEF Hears, Headers, MainOnly, NotSend, MainRuns, Held, TypeInv, Fits, Radio
<1>2. g.data = msg
  OBVIOUS
<1> HIDE DEF g, S
<1>3. /\ Len(got') = Len(got) + 1 /\ Len(got) \in Nat
      /\ \A i \in 1 .. Len(got) : got'[i] = got[i]
      /\ got'[Len(got) + 1] = g
  BY <1>1, AppendProperties
<1>4. Receiving'
  BY <1>1 DEF Receiving, Incoming, CameIn, AllAre
<1>5. Waiting' = Waiting /\ (Coming' <=> Coming)
  BY <1>1 DEF Waiting, Coming
<1>6. \A p : Payload(p)' <=> Payload(p)
  BY <1>1 DEF Payload, Packet
<1>7. \A i \in 1 .. Len(got') : i \in 1 .. Len(got) \/ i = Len(got) + 1
  BY <1>3
<1>8. /\ Payload(<<>>) /\ Below(<<>>, Len(lens)) /\ \A p : Earlier(p, <<>>)
      /\ \A p : Earlier(<<>>, p)
  BY DEF Payload, Below, Earlier
<1> HIDE DEF Waiting, Coming
<1>9. /\ \A i \in 1 .. Len(got') : Payload(got'[i].data)
      /\ \A i \in 1 .. Len(got') : Earlier(got'[i].data, Waiting)
      /\ Coming => \A i \in 1 .. Len(got') : Below(got'[i].data, Len(lens))
  BY <1>1, <1>2, <1>3, <1>7 DEF Ordered
<1>10. ASSUME NEW i \in 1 .. Len(got'), NEW j \in 1 .. Len(got'), i < j
       PROVE  Earlier(got'[i].data, got'[j].data)
  <2>1. i \in 1 .. Len(got)
    BY <1>3, <1>7, <1>10
  <2>2. CASE j \in 1 .. Len(got)
    BY <1>1, <1>3, <1>10, <2>1, <2>2 DEF Ordered
  <2>3. CASE j = Len(got) + 1
    BY <1>1, <1>2, <1>3, <2>1, <2>3 DEF Ordered
  <2> QED BY <1>7, <2>2, <2>3
<1>11. Ordered'
  BY <1>1, <1>5, <1>6, <1>8, <1>9, <1>10 DEF Ordered
<1> QED BY <1>4, <1>11 DEF Heard

LEMMA SendHeard == ASSUME Hears, Send, ~crossed' PROVE Heard'
<1>1. /\ Receiving /\ Ordered /\ UNCHANGED <<flags, lens, msg, got>>
      /\ flags = {} /\ pc = "app" /\ ~r.valid /\ Fits(r)
  BY DEF Hears, Send, MainOnly, MainRuns, Held, TypeInv
<1>2. CASE r' = r /\ pc' = "filling"
  <2>1. Receiving'
    BY <1>1, <1>2 DEF Receiving, Incoming, CameIn, AllAre
  <2>2. Waiting' = Waiting /\ (Coming' => Coming)
    BY <1>1, <1>2 DEF Waiting, Coming
  <2> QED BY <1>1, <2>1, <2>2, OrderedStays DEF Heard
<1>3. CASE r' = ClearTxBuf(r) /\ pc' = pc
  <2>1. /\ RxSame(r, r') /\ ModeSame(r, r') /\ r'.buf = <<>> /\ ~r'.valid
    BY <1>1, <1>3, ClearTxBufIs
  <2>2. Receiving'
    BY <1>1, <2>1, EmptyHeard
  <2>3. Waiting' = <<>> /\ (Coming' => Coming)
    BY <1>1, <2>1 DEF Waiting, Coming, RxSame
  <2> QED BY <1>1, <2>2, <2>3, OrderedStays DEF Heard
<1> QED BY <1>2, <1>3 DEF Send

LEMMA TransmitHeard == ASSUME Hears, Transmit, ~crossed' PROVE Heard'
<1> DEFINE s == [ClearTxBuf(r) EXCEPT !.buf = Message(Len(given))]
<1>1. /\ Receiving /\ Ordered /\ UNCHANGED <<flags, lens, msg, got>>
      /\ flags = {} /\ pc = "filling" /\ pc' = "sending" /\ TypeInv /\ Sending
  BY TransmitFits DEF Hears, Transmit, MainOnly, Held, SendInv
<1>2. Quiet
  BY <1>1 DEF Sending
<1>3. /\ Fits(s) /\ r' = StartTransmit(s) /\ ModeSame(r, s)
      /\ s.valid = r.valid /\ s.txSent = 0 /\ s.txFifo = r.txFifo
  BY <1>1, TransmitIs
<1> HIDE DEF s
<1>4. Started(s, r') /\ BufSame(s, r')
  BY <1>2, <1>3, StartTransmitIs DEF Quiet, ModeSame
<1>5. r'.air = None /\ r'.rxFifo = <<>> /\ ~r'.valid
  BY <1>1, <1>2, <1>3, <1>4 DEF Started, BufSame, Quiet
<1>6. Receiving'
  BY <1>1, <1>5 DEF Receiving
<1>7. Waiting' = <<>> /\ ~Coming'
  BY <1>1, <1>5 DEF Waiting, Coming
<1>8. Ordered'
  BY <1>1, <1>7, OrderedStays
<1> QED BY <1>6, <1>8 DEF Heard
LEMMA RecvInit == Init => RecvInv
<1> SUFFICES ASSUME Init PROVE Receiving /\ Ordered
  BY DEF RecvInv
<1>1. Receiving
  BY DEF Init, Receiving
<1>2. Waiting = <<>> /\ msg = <<>> /\ Len(got) = 0 /\ ~Coming
  BY DEF Init, Waiting, Coming
<1>3. Payload(<<>>) /\ Earlier(<<>>, <<>>)
  BY DEF Payload, Earlier
<1>4. Ordered
  BY <1>2, <1>3 DEF Ordered
<1> QED BY <1>1, <1>4

LEMMA RecvStep ==
  ASSUME AsShipped PROVE Held /\ RecvInv /\ [Next]_vars => RecvInv'
<1> SUFFICES ASSUME Held, RecvInv, [Next]_vars, Clean' PROVE Heard'
  BY DEF RecvInv, Heard
<1>0. ~crossed' /\ ~lost'
  BY DEF Clean
<1>1. CASE Next
  <2>1. Clean
    BY <1>0, StaysWrong DEF Clean
  <2>2. Hears
    BY <2>1 DEF Hears, RecvInv
  <2> QED
    BY <1>0, <1>1, <2>2, PreambleHeard, RxOctetHeard, RxEndHeard, TxHeard,
       InterruptHeard, MainHeard, SwitchHeard, CopyHeard, HeadersHeard,
       SendHeard, TransmitHeard
    DEF Next, Chip, Main
<1>2. CASE UNCHANGED vars
  <2>1. Receiving /\ Ordered /\ UNCHANGED <<r, flags, pc, lens, msg, got>>
    BY <1>0, <1>2 DEF RecvInv, vars, Clean
  <2>2. Receiving'
    BY <2>1 DEF Receiving, Incoming, CameIn, AllAre
  <2>3. Waiting' = Waiting /\ (Coming' => Coming)
    BY <2>1 DEF Waiting, Coming
  <2> QED BY <2>1, <2>2, <2>3, OrderedStays DEF Heard
<1> QED BY <1>1, <1>2

(* A packet that recv() returns is one that came in, whole; none is         *)
(* returned twice or after a later one, unless a transmission has started   *)
(* in the way of a reception.  The lengths are as shipped (RF22.h:380-393): *)
(* a message fits the receive FIFO below its threshold, so that no packet   *)
(* is read in fragments, and the other radios keep to the same MaxLen.      *)
THEOREM ReceivesWholeOnceInOrder ==
  ASSUME AsShipped PROVE Spec => []RecvWholeOnceInOrder
<1>1. Init => Held /\ RecvInv
  BY TypeInit, SendInit, RecvInit DEF Held
<1>2. Held /\ RecvInv /\ [Next]_vars => (Held /\ RecvInv)'
  BY SendStep, RecvStep
<1>3. Held /\ RecvInv => RecvWholeOnceInOrder
  <2> SUFFICES ASSUME Held, RecvInv, ~crossed PROVE RecvWholeOnceInOrder
    BY DEF RecvWholeOnceInOrder
  <2>1. Ordered /\ DOMAIN got = 1 .. Len(got) /\ DOMAIN lens = 1 .. Len(lens)
    BY DEF RecvInv, Held, TypeInv, LossInv, Clean, AsShipped
  <2> QED BY <2>1 DEF RecvWholeOnceInOrder, Ordered, Payload, Earlier
<1> QED BY <1>1, <1>2, <1>3, PTL DEF Spec
=============================================================================
