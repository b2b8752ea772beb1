--------------------------- MODULE InterruptsProofs ---------------------------
(***************************************************************************)
(* The three libraries whose interrupt handler shares state with the       *)
(* sketch, for every size of their buffers: the ring of SoftwareSerial is  *)
(* a queue that reports what it drops, MsTimer2 calls its function once in *)
(* an interval and not while it runs, VirtualWire stays inside its buffer. *)
(* They share no state: each has an invariant of its own.                  *)
(***************************************************************************)
EXTENDS MCInterrupts, SequenceTheorems, TLAPS

\* Slot i lies in the part of the ring from head up to tail.
Taken(i) == IF head <= tail THEN head <= i /\ i < tail ELSE head <= i \/ i < tail

\* That part holds bytes, not what a slot holds before it is written.
TakenIsFilled == \A i \in Slot : Taken(i) => buffer[i] \in {<<b>> : b \in Byte}

\* A port whose flag is about to be cleared has lost nothing before that.
ClearForgetsNothing ==
    pc = "clear" /\ port \in missed => port \in during \/ port \in forgotten

Inv ==
    /\ TypeOK /\ PromiseKept /\ LoadedIsHead /\ DropIsReported
    /\ TakenIsFilled /\ ClearForgetsNothing
    /\ pc \in {"switch", "clear"} => port \in Port

LEMMA InitInv == Init => Inv
<1> SUFFICES ASSUME Init PROVE Inv
  OBVIOUS
<1>1. 0 \in Slot
  BY SizeAssumption DEF Slot
<1> QED
  BY <1>1, SizeAssumption
  DEF Init, Inv, TypeOK, PromiseKept, LoadedIsHead, DropIsReported,
      TakenIsFilled, Taken, ClearForgetsNothing, Count, Slot

\* The count of bytes is what the indices say it is.
LEMMA CountFacts ==
  ASSUME TypeOK
  PROVE  /\ Count \in 0..(Size - 1)
         /\ Count = 0 <=> head = tail
         /\ Full <=> Count = Size - 1
         /\ Taken(head) <=> Count > 0
BY SizeAssumption DEF TypeOK, Count, Full, Succ, Slot, Taken

LEMMA SuccInSlot ==
  ASSUME NEW i \in Slot
  PROVE  Succ(i) \in Slot
BY SizeAssumption DEF Succ, Slot

LEMMA AByteIsNotNothing == \A b : <<b>> # <<>>
OBVIOUS

\* A byte stored goes behind the ones that are there.
LEMMA StoreInv ==
  ASSUME Inv, NEW b \in Byte, Store(b)
  PROVE  Inv'
<1> USE DEF Inv, history, losses
<1>1. head \in Slot /\ tail \in Slot /\ Succ(tail) \in Slot /\ Succ(tail) # head
  BY SuccInSlot DEF TypeOK, Store, Full
<1>2. tail' = Succ(tail) /\ head' = head /\ ~Taken(tail)
  BY <1>1 DEF Store, Taken, Slot
<1>3. TypeOK'
  <2>1. buffer' \in [Slot -> {<<>>} \cup {<<x>> : x \in Byte}]
    BY <1>1 DEF TypeOK, Store
  <2> QED BY <1>1, <2>1 DEF TypeOK, Store
<1>4. Count' = Count + 1 /\ Count \in Nat
  BY <1>1, SizeAssumption DEF Store, Count, Succ, Slot
<1>5. \A i \in Slot : Taken(i)' => Taken(i) \/ i = tail
  BY <1>1, SizeAssumption DEF Store, Taken, Succ, Slot
<1>6. TakenIsFilled'
  BY <1>1, <1>5 DEF TakenIsFilled, Store, TypeOK
<1>7. Count > 0 => buffer'[head'] = buffer[head]
  BY <1>1, <1>2, CountFacts DEF Store, TypeOK
<1>8. PromiseKept' /\ LoadedIsHead'
  BY <1>4, <1>7 DEF PromiseKept, LoadedIsHead, Store, TypeOK
<1> QED
  BY <1>3, <1>6, <1>8 DEF Store, DropIsReported, ClearForgetsNothing

\* The rest of the invariant when the ring does not change.
LEMMA RingKeeps ==
  ASSUME Inv, UNCHANGED ring
  PROVE  Count' = Count /\ TakenIsFilled'
BY DEF Inv, ring, Count, TakenIsFilled, Taken

LEMMA ReadAdvanceInv ==
  ASSUME Inv, ReadAdvance
  PROVE  Inv'
<1> USE DEF Inv, history, losses
<1>1. head \in Slot /\ tail \in Slot /\ Succ(head) \in Slot /\ Count > 0
  BY SuccInSlot DEF TypeOK, ReadAdvance, LoadedIsHead
<1>2. TypeOK'
  BY <1>1 DEF TypeOK, ReadAdvance
<1>3. Count' = Count - 1 /\ Count \in Nat
  BY <1>1, SizeAssumption DEF ReadAdvance, Count, Succ, Slot
<1>4. \A i \in Slot : Taken(i)' => Taken(i)
  BY <1>1, SizeAssumption DEF ReadAdvance, Count, Taken, Succ, Slot
<1>5. TakenIsFilled'
  BY <1>4 DEF TakenIsFilled, ReadAdvance
<1>6. PromiseKept' /\ LoadedIsHead'
  BY <1>1, <1>3 DEF PromiseKept, LoadedIsHead, ReadAdvance, TypeOK
<1> QED
  BY <1>2, <1>5, <1>6 DEF ReadAdvance, DropIsReported, ClearForgetsNothing

LEMMA NextInv == Inv /\ [Next]_vars => Inv'
<1> SUFFICES ASSUME Inv, [Next]_vars PROVE Inv'
  OBVIOUS
<1> USE DEF Inv, history, losses
<1>1. CASE Drop
  <2>1. Count' = Count /\ TakenIsFilled'
    BY <1>1, RingKeeps DEF Drop
  <2> QED BY <1>1, <2>1 DEF Drop, ring, TypeOK, PromiseKept, LoadedIsHead,
                           DropIsReported, ClearForgetsNothing
<1>2. ASSUME NEW b \in Byte, Store(b) PROVE Inv'
  BY <1>2, StoreInv
<1>3. ASSUME NEW p \in Port, Read(p) PROVE Inv'
  <2>1. Count' = Count /\ TakenIsFilled' /\ Count > 0
    BY <1>3, RingKeeps, CountFacts DEF Read
  <2> QED BY <1>3, <2>1 DEF Read, ring, TypeOK, PromiseKept,
                LoadedIsHead, DropIsReported, ClearForgetsNothing
<1>4. CASE ReadLoad
  <2>1. Count' = Count /\ TakenIsFilled' /\ Count > 0 /\ head \in Slot
    BY <1>4, RingKeeps DEF ReadLoad, LoadedIsHead, TypeOK
  <2>2. buffer[head] # <<>>
    BY <2>1, CountFacts, AByteIsNotNothing DEF TakenIsFilled
  <2> QED BY <1>4, <2>1, <2>2 DEF ReadLoad, ring, TypeOK, PromiseKept,
                LoadedIsHead, DropIsReported, ClearForgetsNothing
<1>5. CASE ReadAdvance
  BY <1>5, ReadAdvanceInv
<1>6. ASSUME NEW p \in Port, Available(p) PROVE Inv'
  <2>1. Count' = Count /\ TakenIsFilled' /\ Count \in Nat
    BY <1>6, RingKeeps, CountFacts, SizeAssumption DEF Available
  <2> QED BY <1>6, <2>1 DEF Available, ring, TypeOK, PromiseKept,
                LoadedIsHead, DropIsReported, ClearForgetsNothing
<1>7. ASSUME NEW p \in Port, Peek(p) PROVE Inv'
  <2>1. Count' = Count /\ TakenIsFilled' /\ Count > 0 /\ head \in Slot
    BY <1>7, RingKeeps, CountFacts, SizeAssumption DEF Peek, TypeOK
  <2>2. PICK b \in Byte : buffer[head] = <<b>>
    BY <2>1, CountFacts DEF TakenIsFilled
  <2>3. b \in 0..255 /\ buffer[head][1] = b /\ Extended(b) % 256 = b
    BY <2>2, ByteAssumption DEF Extended
  <2>4. peeked' = <<Extended(b)>> /\ buffer' = buffer /\ head' = head
    BY <1>7, <2>3 DEF Peek, ring
  <2>5. PromiseKept'
    <3>1. peeked'[1] % 256 = b
      BY <2>3, <2>4
    <3> QED BY <1>7, <2>1, <2>2, <2>4, <3>1 DEF Peek, ring, PromiseKept
  <2> QED BY <1>7, <2>1, <2>5 DEF Peek, ring, TypeOK,
                LoadedIsHead, DropIsReported, ClearForgetsNothing
<1>8. Empty /\ UNCHANGED buffer =>
        Count' = 0 /\ TakenIsFilled' /\ PromiseKept' /\ head' \in Slot
        /\ tail' \in Slot /\ promised' \in Nat
  BY SizeAssumption DEF Empty, Count, TakenIsFilled, Taken, PromiseKept, Slot
<1>9. ASSUME NEW p \in Port, Flush(p) PROVE Inv'
  BY <1>8, <1>9 DEF Flush, TypeOK, LoadedIsHead, DropIsReported,
                    ClearForgetsNothing
<1>10. ASSUME NEW p \in Port, Listen(p) PROVE Inv'
  <2>1. Count' = Count /\ TakenIsFilled'
    BY <1>10, RingKeeps DEF Listen
  <2> QED BY <1>10, <2>1 DEF Listen, ring, TypeOK, PromiseKept, LoadedIsHead,
                            DropIsReported, ClearForgetsNothing
<1>11. CASE Switch
  BY <1>8, <1>11 DEF Switch, TypeOK, LoadedIsHead, DropIsReported,
                     ClearForgetsNothing
<1>12. ASSUME NEW p \in Port, Overflow(p) PROVE Inv'
  <2>1. Count' = Count /\ TakenIsFilled'
    BY <1>12, RingKeeps DEF Overflow
  <2> QED BY <1>12, <2>1 DEF Overflow, ring, TypeOK, PromiseKept, LoadedIsHead,
                            DropIsReported, ClearForgetsNothing
<1>13. CASE OverflowClear
  <2>1. Count' = Count /\ TakenIsFilled'
    BY <1>13, RingKeeps DEF OverflowClear
  <2> QED BY <1>13, <2>1 DEF OverflowClear, ring, TypeOK, PromiseKept,
                LoadedIsHead, DropIsReported, ClearForgetsNothing
<1>14. CASE UNCHANGED vars
  <2>1. Count' = Count /\ TakenIsFilled'
    BY <1>14, RingKeeps DEF vars
  <2> QED BY <1>14, <2>1 DEF vars, ring, TypeOK, PromiseKept,
                LoadedIsHead, DropIsReported, ClearForgetsNothing
<1> QED
  BY <1>1, <1>2, <1>3, <1>4, <1>5, <1>6, <1>7, <1>9, <1>10, <1>11, <1>12,
     <1>13, <1>14
  DEF Next, Interrupt, Sketch

LEMMA Invariance == Spec => []Inv
BY InitInv, NextInv, PTL DEF Spec

\* Every variable of the receiver keeps its type, for every size of the ring.
THEOREM TypeCorrect == Spec => []TypeOK
BY Invariance, PTL DEF Inv

\* What available() and peek() have told the sketch stays true until it reads,
\* whatever the handler does in between: of an octet, peek() has told its eight
\* bits, with the sign of a char.
THEOREM PromiseIsKept == Spec => []PromiseKept
BY Invariance, PTL DEF Inv

\* read() returns a byte that was received, and the handler does not write
\* into the slot while it is being read.
THEOREM ReadsWhatWasReceived == Spec => []LoadedIsHead
BY Invariance, PTL DEF Inv

\* overflow() reports every lost byte but one that is lost while it runs, or
\* whose flag listen() of its port has cleared.
THEOREM DropsAreReported == Spec => []DropIsReported
BY Invariance, PTL DEF Inv
-----------------------------------------------------------------------------
(* The ring implements the queue.                                           *)

Bytes == [k \in DOMAIN Contents |-> Contents[k][1]]

\* The bytes of the ring are a sequence, the k-th of it k - 1 slots from head.
RingIsASequence ==
    /\ Bytes = [k \in 1..Count |-> buffer[At(k - 1)][1]]
    /\ Bytes \in Seq(Byte) /\ Len(Bytes) = Count /\ Count \in Nat
    /\ \A k \in 1..Count : At(k - 1) \in Slot /\ Taken(At(k - 1))

LEMMA BytesAreASequence == Inv => RingIsASequence
<1> SUFFICES ASSUME Inv PROVE RingIsASequence
  OBVIOUS
<1>1. Count \in Nat /\ head \in Slot /\ tail \in Slot
  BY CountFacts, SizeAssumption DEF Inv, TypeOK
<1>2. \A k \in 1..Count : At(k - 1) \in Slot /\ Taken(At(k - 1))
  BY <1>1, SizeAssumption DEF Count, At, Slot, Taken
<1>3. \A k \in 1..Count : buffer[At(k - 1)][1] \in Byte
  <2> SUFFICES ASSUME NEW k \in 1..Count PROVE buffer[At(k - 1)][1] \in Byte
    OBVIOUS
  <2>1. PICK b \in Byte : buffer[At(k - 1)] = <<b>>
    BY <1>2 DEF Inv, TakenIsFilled
  <2> QED BY <2>1
<1>4. Bytes = [k \in 1..Count |-> buffer[At(k - 1)][1]]
  BY DEF Bytes, Contents
<1>5. Bytes \in [1..Count -> Byte]
  BY <1>3, <1>4
<1>6. Bytes \in Seq(Byte) /\ Len(Bytes) = Count
  BY <1>1, <1>5
<1> QED BY <1>1, <1>2, <1>4, <1>6 DEF RingIsASequence

LEMMA InitIsQueueInit == Init => Queue!Init
<1> SUFFICES ASSUME Init PROVE Queue!Init
  OBVIOUS
<1>1. Bytes \in Seq(Byte) /\ Len(Bytes) = 0
  BY InitInv, BytesAreASequence DEF Init, Count, RingIsASequence
<1>2. Bytes = <<>>
  BY <1>1, EmptySeq
<1> QED BY <1>2 DEF Init, Queue!Init, Bytes

LEMMA StoreIsArrive ==
  ASSUME Inv, NEW b \in Byte, Store(b)
  PROVE  Queue!Arrive(b)
<1>1. Inv' /\ head \in Slot /\ tail \in Slot
  BY StoreInv DEF Inv, TypeOK
<1>2. RingIsASequence /\ RingIsASequence'
  BY <1>1, BytesAreASequence, PTL
<1>3. Count' = Count + 1 /\ Count < Size - 1 /\ Count \in Nat
  BY <1>1, CountFacts, SizeAssumption
  DEF Inv, Store, Count, Succ, Slot, Full
<1>4. \A k \in 1..Count : /\ At(k - 1)' = At(k - 1) /\ At(k - 1) \in Slot
                          /\ At(k - 1) # tail
  BY <1>1, SizeAssumption DEF Store, Count, At, Slot
<1>5. PICK n \in Nat : n = Count
  BY <1>3
<1>6. At(n) = tail /\ At(n)' = tail
  BY <1>1, <1>5, SizeAssumption DEF Store, Count, At, Slot
<1>7. \A k \in 1..n : Bytes'[k] = Bytes[k]
  BY <1>2, <1>3, <1>4, <1>5 DEF Store, Inv, TypeOK, RingIsASequence
<1>8. Bytes'[n + 1] = b
  <2>1. Bytes'[n + 1] = buffer'[At(n + 1 - 1)'][1]
    BY <1>2, <1>3, <1>5 DEF RingIsASequence
  <2>2. n + 1 - 1 = n
    BY <1>5
  <2>3. buffer'[tail] = <<b>>
    BY <1>1 DEF Store, Inv, TypeOK
  <2> QED BY <1>6, <2>1, <2>2, <2>3
<1>9. Bytes' = Append(Bytes, b)
  <2>1. Bytes' \in Seq(Byte) /\ Bytes \in Seq(Byte)
        /\ Len(Bytes') = n + 1 /\ Len(Bytes) = n
    BY <1>2, <1>3, <1>5 DEF RingIsASequence
  <2>2. Append(Bytes, b) \in Seq(Byte) /\ Len(Append(Bytes, b)) = n + 1
    BY <2>1, AppendProperties
  <2>3. \A k \in 1..(n + 1) : Bytes'[k] = Append(Bytes, b)[k]
    BY <1>5, <1>7, <1>8, <2>1, AppendProperties
    <2> QED BY <2>1, <2>2, <2>3, SeqEqual
<1> QED
  BY <1>2, <1>3, <1>9 DEF Queue!Arrive, Bytes, Store, RingIsASequence

LEMMA ReadAdvanceIsTake ==
  ASSUME Inv, ReadAdvance
  PROVE  Queue!Take
<1>1. Inv' /\ head \in Slot /\ tail \in Slot /\ d = buffer[head]
  BY ReadAdvanceInv DEF Inv, TypeOK, ReadAdvance, LoadedIsHead
<1>2. RingIsASequence /\ RingIsASequence'
  BY <1>1, BytesAreASequence, PTL
<1>3. Count' = Count - 1 /\ Count > 0 /\ Count \in Nat
  BY <1>1, CountFacts, SizeAssumption
  DEF Inv, ReadAdvance, LoadedIsHead, Count, Succ, Slot
<1>4. PICK n \in Nat : n = Count
  BY <1>3
<1>5. \A k \in 1..(n - 1) : At(k - 1)' = At(k + 1 - 1)
  BY <1>1, <1>4, SizeAssumption DEF ReadAdvance, Count, At, Succ, Slot
<1>6. At(1 - 1) = head /\ Taken(head)
  BY <1>1, <1>3, CountFacts, SizeAssumption DEF At, Inv, Slot
<1>7. PICK b \in Byte : buffer[head] = <<b>>
  BY <1>1, <1>6 DEF Inv, TakenIsFilled
<1>8. Bytes \in Seq(Byte) /\ Len(Bytes) = n
      /\ Bytes' \in Seq(Byte) /\ Len(Bytes') = n - 1
  BY <1>2, <1>3, <1>4 DEF RingIsASequence
<1>9. Bytes # <<>>
  BY <1>3, <1>4, <1>8
<1>10. Head(Bytes) = b
  BY <1>2, <1>3, <1>6, <1>7, <1>8, <1>9 DEF RingIsASequence
<1>11. \A k \in 1..(n - 1) : Bytes'[k] = Bytes[k + 1]
  BY <1>2, <1>3, <1>4, <1>5 DEF ReadAdvance, RingIsASequence
<1>12. Bytes' = Tail(Bytes)
  <2>1. Tail(Bytes) \in Seq(Byte) /\ Len(Tail(Bytes)) = n - 1
        /\ \A k \in 1..(n - 1) : Tail(Bytes)[k] = Bytes[k + 1]
    BY <1>8, <1>9, HeadTailProperties
  <2> QED BY <1>8, <1>11, <2>1, SeqEqual
<1> QED
  BY <1>1, <1>7, <1>9, <1>10, <1>12 DEF Queue!Take, Bytes, ReadAdvance

LEMMA EmptyIsClear ==
  ASSUME Inv, Inv', Empty, UNCHANGED out
  PROVE  Queue!Clear
<1>1. Count' = 0
  BY SizeAssumption DEF Empty, Count
<1>2. RingIsASequence'
  BY BytesAreASequence, PTL
<1>3. Bytes' = <<>>
  BY <1>1, <1>2, EmptySeq DEF RingIsASequence
<1> QED BY <1>3 DEF Queue!Clear, Bytes

LEMMA RingStays ==
  ASSUME UNCHANGED <<ring, out>>
  PROVE  UNCHANGED <<Bytes, out>>
BY DEF Bytes, Contents, ring, Count, At

LEMMA NextIsQueueNext ==
  Inv /\ Inv' /\ [Next]_vars => [Queue!Next]_<<Bytes, out>>
<1> SUFFICES ASSUME Inv, Inv', [Next]_vars
             PROVE  Queue!Next \/ UNCHANGED <<Bytes, out>>
  OBVIOUS
<1>1. ASSUME NEW b \in Byte, Store(b) PROVE Queue!Next
  BY <1>1, StoreIsArrive DEF Queue!Next
<1>2. CASE ReadAdvance
  BY <1>2, ReadAdvanceIsTake DEF Queue!Next
<1>3. CASE Switch
  BY <1>3, EmptyIsClear DEF Queue!Next, Switch
<1>4. ASSUME NEW p \in Port, Flush(p) PROVE Queue!Next
  BY <1>4, EmptyIsClear DEF Queue!Next, Flush
<1>5. CASE Drop \/ ReadLoad \/ OverflowClear \/ UNCHANGED vars
  BY <1>5, RingStays DEF Drop, ReadLoad, OverflowClear, vars
<1>6. ASSUME NEW p \in Port,
             Read(p) \/ Available(p) \/ Peek(p) \/ Listen(p) \/ Overflow(p)
      PROVE  UNCHANGED <<Bytes, out>>
  BY <1>6, RingStays DEF Read, Available, Peek, Listen, Overflow
<1> QED
  BY <1>1, <1>2, <1>3, <1>4, <1>5, <1>6 DEF Next, Interrupt, Sketch

\* The ring is a queue: bytes that found room are read once each and in order,
\* for every size of the ring.
THEOREM RingIsAQueue == Spec => IsAQueue
<1>1. Init => Queue!Init
  BY InitIsQueueInit
<1>2. Inv /\ Inv' /\ [Next]_vars => [Queue!Next]_<<Bytes, out>>
  BY NextIsQueueNext
<1> QED
  BY <1>1, <1>2, Invariance, PTL DEF Spec, IsAQueue, Queue!Spec, Bytes
-----------------------------------------------------------------------------
(* MsTimer2.                                                                *)

Bounds == MaxCount \in Nat /\ Intervals \subseteq 0..MaxCount

TimerType ==
    /\ msecs \in Nat /\ count \in Nat /\ idle \in Nat /\ calls \in Nat
    /\ halfway \in SUBSET Nat

\* A second call needs `overflowing` to be cleared while the first runs, which
\* only start() does.
Guarded ==
    /\ calls > 1 => restarted
    /\ calls > 0 /\ ~overflowing => restarted
    /\ calls = 0 => ~overflowing

\* The count is ahead of the time since the last call, and is behind msecs
\* whenever the next tick may come without a call.
Counted ==
    /\ idle <= count
    /\ calls > 0 => idle = 0
    /\ running \/ halfway # {} => msecs > 0
    /\ calls = 0 /\ (running \/ 0 \in halfway) => idle < msecs

TimerInv == TimerType /\ Guarded /\ Counted

\* A counter that stops at a bound stays a number, and does not overtake one
\* that is ahead of it.
LEMMA OlderInOrder ==
    ASSUME Bounds, NEW m \in Nat, NEW n \in Nat, m <= n
    PROVE  /\ Timer!Older(m) \in Nat /\ Timer!Older(m) <= m + 1
           /\ Timer!Older(m) <= Timer!Older(n)
BY DEF Bounds, Timer!Older

LEMMA TimerInit == Timer!Init => TimerInv
BY DEF Timer!Init, TimerInv, TimerType, Guarded, Counted

\* The interrupt: one step for each of the three parts.
LEMMA TickKeeps == ASSUME Bounds, TimerInv, Timer!Tick PROVE TimerInv'
<1> USE DEF TimerInv, TimerType, Timer!Tick
<1>1. CASE Timer!Due
  BY <1>1 DEF Timer!Due, Guarded, Counted
<1>2. CASE ~Timer!Due
  <2>1. /\ Timer!Older(count) \in Nat /\ Timer!Older(idle) \in Nat
        /\ Timer!Older(idle) <= Timer!Older(count)
        /\ Timer!Older(idle) <= idle + 1
        /\ Timer!Older(count) >= 0
    BY OlderInOrder DEF Counted
  <2>2. Guarded'
    BY <1>2 DEF Guarded
  <2>3. CASE calls = 0
    <3>1. count + 1 < msecs
      BY <1>2, <2>3 DEF Timer!Due, Guarded
    <3> QED BY <1>2, <2>1, <2>2, <2>3, <3>1 DEF Counted
  <2>4. CASE calls > 0
    BY <1>2, <2>1, <2>2, <2>4 DEF Counted
  <2> QED BY <2>3, <2>4
<1> QED BY <1>1, <1>2

LEMMA TimerStep ==
  ASSUME Bounds PROVE TimerInv /\ [Timer!Next]_(Timer!vars) => TimerInv'
<1> SUFFICES ASSUME TimerInv, [Timer!Next]_(Timer!vars) PROVE TimerInv'
    OBVIOUS
<1> USE DEF TimerInv, TimerType, Guarded, Counted
<1>1. CASE Timer!Start
  BY <1>1 DEF Timer!Start
<1>2. CASE Timer!StartGoes
  BY <1>2 DEF Timer!StartGoes
<1>3. CASE Timer!Stop
  BY <1>3 DEF Timer!Stop
<1>4. CASE Timer!Tick
  BY <1>4, TickKeeps
<1>5. CASE Timer!Sei
  BY <1>5 DEF Timer!Sei
<1>6. CASE Timer!Return
  <2>1. calls > 1 => restarted /\ calls > 1
    BY DEF TimerInv
  <2>2. calls > 1 => restarted'
    BY <1>6, <2>1, Zenon DEF Timer!Return
  <2>3. ~overflowing'
    BY <1>6, Zenon DEF Timer!Return
  <2>4. /\ calls > 0 /\ calls' = calls - 1 /\ calls' \in Nat
        /\ UNCHANGED <<msecs, running, count, halfway, idle>>
    BY <1>6 DEF Timer!Return
  <2> QED BY <2>2, <2>3, <2>4
<1>7. ASSUME NEW ms \in Intervals, Timer!Set(ms) PROVE TimerInv'
  BY <1>7 DEF Timer!Set, Bounds
<1>8. CASE UNCHANGED Timer!vars
  BY <1>8 DEF Timer!vars
<1> QED BY <1>1, <1>2, <1>3, <1>4, <1>5, <1>6, <1>7, <1>8 DEF Timer!Next

\* Whatever happens on the board is a step of the timer or leaves it alone.
LEMMA BoardTimer == [BoardNext]_Board => [Timer!Next]_(Timer!vars)
BY DEF BoardNext, Board, timer, Timer!vars

\* The function is called within msecs milliseconds, and not while it runs
\* unless it has called start() itself.
THEOREM CallsOneByOne ==
  ASSUME Bounds PROVE BoardSpec => []TimerCallsOneByOne
<1>1. BoardInit => TimerInv
  BY TimerInit DEF BoardInit
<1>2. TimerInv /\ [BoardNext]_Board => TimerInv'
  BY TimerStep, BoardTimer
<1>3. TimerInv => TimerCallsOneByOne
  BY DEF TimerInv, TimerType, Guarded, Counted, TimerCallsOneByOne,
         Timer!TimerCallsOneByOne, Timer!NotReentered, Timer!NoneMissed
<1> QED BY <1>1, <1>2, <1>3, PTL DEF BoardSpec
-----------------------------------------------------------------------------
(* VirtualWire.                                                             *)

WireSizes == MaxLen \in Nat /\ Length \in [Message -> Nat]

\* A message is collected up to a count that the buffer has room for, and is
\* announced only when that many octets are there.
InvOfBuffer ==
    /\ len \in Nat /\ len <= MaxLen
    /\ collecting => ~done
    /\ collecting /\ len > 0 => octets \in 4..MaxLen /\ len < octets
    /\ done => len >= 4

\* What the other station sends is a message.
InvOfAir == air # <<>> => air[1] \in Message

WireInv == InvOfBuffer /\ InvOfAir

\* Twelve bits that are the count, or one more octet below the count.
LEMMA WireCollect ==
    ASSUME WireSizes, WireInv, collecting,
           NEW o, NEW n \in Nat, Wire!Collect(o, n)
    PROVE  InvOfBuffer'
<1> USE DEF WireInv, InvOfBuffer, WireSizes
<1>1. CASE len = 0 /\ ~Wire!Sensible(n)
  BY <1>1 DEF Wire!Collect
<1>2. CASE len = 0 /\ Wire!Sensible(n)
  <2>1. octets' = n /\ len' = 1
    BY <1>2 DEF Wire!Collect
  <2>2. n \in 4..MaxLen /\ 1 < n /\ ~(1 >= n)
    BY <1>2 DEF Wire!Sensible
  <2>3. ~done'
    <3>1. done' = (done \/ 1 >= n)
      BY <1>2, <2>1 DEF Wire!Collect
    <3> QED BY <2>2, <3>1, Zenon
  <2> QED BY <2>1, <2>2, <2>3
<1>3. CASE len > 0
  <2>1. octets' = octets /\ len' = len + 1
    BY <1>3 DEF Wire!Collect
  <2>2. octets \in 4..MaxLen /\ len < octets
    BY <1>3
  <2>3. /\ collecting' = (len + 1 < octets)
        /\ done' = (done \/ len + 1 >= octets)
    BY <1>3, <2>1 DEF Wire!Collect
  <2>4. (collecting' => len + 1 < octets) /\ (done' => len + 1 >= octets)
    BY <2>3, Zenon
  <2> QED BY <2>1, <2>2, <2>4, <1>3
<1> QED BY <1>1, <1>2, <1>3

LEMMA WireHear ==
    ASSUME WireSizes, WireInv, NEW o, NEW n \in Nat, Wire!Hear(o, n)
    PROVE  InvOfBuffer'
<1>1. CASE UNCHANGED Wire!rx
  BY <1>1 DEF WireInv, InvOfBuffer, Wire!rx
<1>2. CASE Wire!StartSymbol
  BY <1>2 DEF WireInv, InvOfBuffer, Wire!StartSymbol, WireSizes
<1>3. ASSUME collecting, NEW p, NEW k \in Nat, Wire!Collect(p, k)
      PROVE  InvOfBuffer'
  BY <1>3, WireCollect
<1>4. \A k \in Wire!Counts : k \in Nat
  BY DEF Wire!Counts, WireSizes
<1> QED BY <1>1, <1>2, <1>3, <1>4 DEF Wire!Hear

LEMMA WireStep ==
  ASSUME WireSizes PROVE WireInv /\ [Wire!Next]_(Wire!vars) => WireInv'
<1> SUFFICES ASSUME WireInv, [Wire!Next]_(Wire!vars) PROVE WireInv'
    OBVIOUS
<1>1. CASE Wire!Interrupt
  <2>1. ASSUME NEW o, NEW n \in Nat, Wire!Hear(o, n) PROVE InvOfBuffer'
    BY <2>1, WireHear
  <2>2. CASE Wire!OnTheAir
    BY <2>1, <2>2 DEF Wire!OnTheAir, WireSizes, WireInv, InvOfAir
  <2>3. CASE Wire!Noise
    BY <2>1, <2>3 DEF Wire!Noise, WireInv, InvOfAir
  <2>4. ASSUME NEW m \in Message, Wire!Begins(m) PROVE WireInv'
    <3>1. MaxLen + 1 \in Nat
      BY DEF WireSizes
    <3> QED BY <2>1, <2>4, <3>1 DEF Wire!Begins, WireInv, InvOfAir
  <2> QED BY <1>1, <2>2, <2>3, <2>4 DEF Wire!Interrupt
<1>2. CASE Wire!RxStart
  BY <1>2 DEF WireInv, InvOfBuffer, InvOfAir, Wire!RxStart
<1>3. CASE Wire!Sketch /\ ~Wire!RxStart
  <2>1. UNCHANGED <<air, len, collecting, octets>> /\ (done' => done)
    BY <1>3 DEF Wire!Sketch, Wire!RxStop, Wire!VwSend, Wire!TxEnds,
                Wire!GetMessage, Wire!GetLength, Wire!Copy, Wire!Clear,
                Wire!SumLength, Wire!Sum, Wire!Return, Wire!rx
  <2> QED BY <2>1 DEF WireInv, InvOfBuffer, InvOfAir
<1>4. CASE UNCHANGED Wire!vars
  BY <1>4 DEF WireInv, InvOfBuffer, InvOfAir, Wire!vars, Wire!rx
<1> QED BY <1>1, <1>2, <1>3, <1>4 DEF Wire!Next

\* Whatever happens on the board is a step of VirtualWire or leaves it alone.
LEMMA BoardWire == [BoardNext]_Board => [Wire!Next]_(Wire!vars)
BY DEF BoardNext, Board, wire, Wire!vars, Wire!rx, Wire!call

\* The handler writes no octet behind the buffer, and what vw_get_message()
\* finds announced is long enough to take count and checksum off.
THEOREM BufferHolds ==
  ASSUME WireSizes PROVE BoardSpec => []WireBufferFits
<1>1. BoardInit => WireInv
  BY DEF BoardInit, Wire!Init, WireInv, InvOfBuffer, InvOfAir, WireSizes
<1>2. WireInv /\ [BoardNext]_Board => WireInv'
  BY WireStep, BoardWire
<1>3. WireInv => WireBufferFits
  BY DEF WireInv, InvOfBuffer, WireBufferFits, Wire!WireBufferFits
<1> QED BY <1>1, <1>2, <1>3, PTL DEF BoardSpec
-----------------------------------------------------------------------------
(* What vw_get_message() returns, while the interrupt goes on.              *)

\* Every message has a count and a checksum, and no message is what stands
\* for a wrong octet.  No more than four octets come during vw_get_message(),
\* which is a start symbol and three octets of a message.
WireMessages ==
    /\ \A m \in Message : Length[m] >= 4
    /\ Wire!Bad[1] \notin Message
    /\ Room \subseteq Nat /\ InCall \in 0..4

WireOctets == (Message \X Nat) \cup {Wire!Bad}

\* An octet is in the buffer behind those that precede it in its message.
InOrder ==
    \A i \in 1..len, m \in Message, k \in Nat :
        mem[i] = <<m, k>> => \A j \in 1..i : mem[j] = <<m, k - (i - j)>>

InvOfMem == mem \in [1..MaxLen -> WireOctets] /\ InOrder
InvOfStation == air # <<>> => air \in Message \X Nat

\* What was announced is still there, or a start symbol has come since
\* vw_get_message() was called, and fewer octets of a message than any has.
Still == ~collecting /\ len >= 4
Renewed == len < inCall /\ len < 4

CallType ==
    /\ at \in {"idle", "length", "copy", "sum", "summing"}
    /\ inCall \in 0..InCall /\ (at = "idle" => inCall = 0)
    /\ room \in Nat /\ sumlen \in 0..MaxLen
    /\ copied \in Seq(WireOctets) /\ summed \in Seq(WireOctets)
    /\ at \in {"idle", "length"} => copied = <<>>
    /\ at # "summing" => summed = <<>>

Announced ==
    /\ done => fresh
    /\ at # "idle" => fresh /\ (Still \/ Renewed)
    /\ at \in {"sum", "summing"} => ~done

Copying ==
    at \in {"copy", "sum"} /\ Still =>
      /\ Len(copied) <= room /\ room <= len - 3
      /\ \A i \in DOMAIN copied : copied[i] = mem[i + 1]

\* The last octet, which no new message has reached, tells of all that were
\* copied before the sum.
Summing ==
    at = "summing" =>
      /\ Len(summed) <= sumlen
      /\ Still => len = sumlen
      /\ sumlen >= 4 =>
           /\ Len(summed) = sumlen => summed[sumlen] = mem[sumlen]
           /\ Len(copied) <= sumlen - 3
           /\ \A m \in Message, k \in Nat : mem[sumlen] = <<m, k>> =>
                \A i \in DOMAIN copied : copied[i] = <<m, k - (sumlen - (i + 1))>>

InvOfCall == CallType /\ Announced /\ Copying /\ Summing
WholeInv == WireInv /\ InvOfStation /\ InvOfMem /\ InvOfCall

LEMMA BadIsNoOctet ==
  ASSUME WireMessages, NEW m \in Message, NEW k PROVE <<m, k>> # Wire!Bad
BY DEF WireMessages, Wire!Bad

LEMMA FollowsIsNext ==
  ASSUME WireMessages, NEW o \in WireOctets, NEW p \in WireOctets,
         Wire!Follows(o, p), NEW m \in Message, NEW k \in Nat, p = <<m, k>>
  PROVE  k - 1 \in Nat /\ o = <<m, k - 1>>
<1>1. o[1] = m /\ k = o[2] + 1
  BY DEF Wire!Follows
<1>2. o # Wire!Bad
  BY <1>1 DEF WireMessages
<1>3. PICK h \in Message, j \in Nat : o = <<h, j>>
  BY <1>2 DEF WireOctets
<1> QED BY <1>1, <1>3
\* One more octet in order.
LEMMA OneMoreInOrder ==
  ASSUME WireMessages, InvOfMem, MaxLen \in Nat, len \in 0..(MaxLen - 1),
         NEW o \in WireOctets,
         len' = len + 1,
         mem' = [mem EXCEPT ![len + 1] =
                    IF len = 0 \/ Wire!Follows(mem[len], o) THEN o ELSE Wire!Bad]
  PROVE  InvOfMem' /\ \A j \in 1..MaxLen : j # len + 1 => mem'[j] = mem[j]
<1> DEFINE new == IF len = 0 \/ Wire!Follows(mem[len], o) THEN o ELSE Wire!Bad
<1>1. new \in WireOctets
  BY DEF WireOctets
<1>2. /\ mem' \in [1..MaxLen -> WireOctets] /\ mem'[len + 1] = new
      /\ \A j \in 1..MaxLen : j # len + 1 => mem'[j] = mem[j]
  <2> HIDE DEF new
  <2>1. mem' = [mem EXCEPT ![len + 1] = new]
    BY DEF new
  <2> QED BY <1>1, <2>1 DEF InvOfMem
<1>3. ASSUME NEW i \in 1..(len + 1), NEW m \in Message, NEW k \in Nat,
             mem'[i] = <<m, k>>, NEW j \in 1..i
      PROVE  mem'[j] = <<m, k - (i - j)>>
  <2>1. CASE i <= len
    <3>1. mem[i] = <<m, k>> /\ i \in 1..len /\ mem'[j] = mem[j]
      BY <1>2, <1>3, <2>1
    <3> QED BY <1>3, <3>1 DEF InvOfMem, InOrder
  <2>2. CASE i = len + 1 /\ j = i
    <3>1. k - (i - j) = k
      BY <2>2
    <3> QED BY <1>3, <2>2, <3>1
  <2>3. CASE i = len + 1 /\ j < i
    <3>1. len \in 1..MaxLen /\ len # 0 /\ j \in 1..len /\ mem[len] \in WireOctets
      BY <1>3, <2>3 DEF InvOfMem
    <3>2. new = <<m, k>>
      BY <1>2, <1>3, <2>3
    <3>3. Wire!Follows(mem[len], o) /\ o = <<m, k>>
      BY <3>1, <3>2, BadIsNoOctet
    <3>4. k - 1 \in Nat /\ mem[len] = <<m, k - 1>>
      BY <3>1, <3>3, FollowsIsNext
    <3>5. mem[j] = <<m, (k - 1) - (len - j)>>
      BY <3>1, <3>4 DEF InvOfMem, InOrder
    <3>6. (k - 1) - (len - j) = k - (i - j) /\ mem'[j] = mem[j]
      BY <1>2, <1>3, <2>3, <3>1
    <3> QED BY <3>5, <3>6
  <2> QED BY <1>3, <2>1, <2>2, <2>3
<1>4. InOrder'
  BY <1>3 DEF InOrder
<1> QED BY <1>2, <1>4 DEF InvOfMem

\* What the interrupt does to what vw_get_message() reads.
Ignored == UNCHANGED <<mem, len, done, fresh>> /\ (collecting' => collecting)
Started ==
    /\ ~collecting /\ len' = 0 /\ ~done' /\ fresh' = fresh
    /\ at # "idle" => mem' = mem
Collected ==
    /\ collecting /\ len' = len + 1 /\ len + 1 <= MaxLen
    /\ \A j \in 1..MaxLen : j # len + 1 => mem'[j] = mem[j]
    /\ done' => done \/ len + 1 >= 4
    /\ (done => fresh) => (done' => fresh')
    /\ fresh => fresh'

LEMMA CollectDoes ==
  ASSUME WireSizes, WireMessages, WireInv, InvOfMem, collecting,
         NEW o \in WireOctets, NEW n \in Nat, Wire!Collect(o, n)
  PROVE  InvOfMem' /\ (Ignored \/ Collected)
<1>1. CASE len = 0 /\ ~Wire!Sensible(n)
  <2>1. UNCHANGED <<mem, len, done, fresh>>
    BY <1>1, Zenon DEF Wire!Collect
  <2> QED BY <2>1 DEF Ignored, InvOfMem, InOrder
<1>2. CASE ~(len = 0 /\ ~Wire!Sensible(n))
  <2>1. /\ len' = len + 1
        /\ mem' = [mem EXCEPT ![len + 1] =
                     IF len = 0 \/ Wire!Follows(mem[len], o) THEN o ELSE Wire!Bad]
        /\ done' = (done \/ len' >= octets')
        /\ fresh' = (fresh \/ len' >= octets')
        /\ octets' = IF len = 0 THEN n ELSE octets
    BY <1>2, Zenon DEF Wire!Collect
  <2>2. MaxLen \in Nat /\ len \in Nat
    BY DEF WireSizes, WireInv, InvOfBuffer
  <2>3. len + 1 <= MaxLen /\ len \in 0..(MaxLen - 1) /\ octets' >= 4 /\ octets' \in Nat
    <3>1. CASE len = 0
      BY <1>2, <2>1, <2>2, <3>1 DEF Wire!Sensible
    <3>2. CASE len # 0
      BY <2>1, <2>2, <3>2 DEF WireInv, InvOfBuffer
    <3> QED BY <3>1, <3>2
  <2>4. InvOfMem' /\ \A j \in 1..MaxLen : j # len + 1 => mem'[j] = mem[j]
    BY <2>1, <2>2, <2>3, OneMoreInOrder
  <2>5. len' >= octets' => len + 1 >= 4
    <3>1. PICK c \in Nat : c = octets'
      BY <2>3
    <3>2. len + 1 >= c /\ c >= 4 => len + 1 >= 4
      BY <2>2
    <3> QED BY <2>1, <2>3, <3>1, <3>2
  <2>6. /\ done' => done \/ len + 1 >= 4
        /\ (done => fresh) => (done' => fresh')
        /\ fresh => fresh'
    BY <2>1, <2>5, Zenon
  <2> QED BY <2>1, <2>3, <2>4, <2>6 DEF Collected
<1> QED BY <1>1, <1>2

LEMMA BlankInOrder ==
  ASSUME WireMessages, mem' = Wire!Blank, len' = 0 PROVE InvOfMem'
<1>1. mem' \in [1..MaxLen -> WireOctets] /\ \A i \in 1..MaxLen : mem'[i] = Wire!Bad
  BY DEF Wire!Blank, WireOctets
<1> QED BY <1>1, BadIsNoOctet DEF InvOfMem, InOrder
LEMMA HearDoes ==
  ASSUME WireSizes, WireMessages, WireInv, InvOfMem, CallType,
         NEW o \in WireOctets, NEW n \in Nat, Wire!Hear(o, n)
  PROVE  /\ InvOfMem' /\ (Ignored \/ Started \/ Collected)
         /\ UNCHANGED <<at, room, copied, summed, sumlen>>
         /\ \/ at = "idle" /\ inCall' = 0
            \/ at # "idle" /\ inCall < InCall /\ inCall' = inCall + 1
<1>1. UNCHANGED <<at, room, copied, summed, sumlen>>
  BY Zenon DEF Wire!Hear, Wire!call
<1>2. \/ at = "idle" /\ inCall' = 0
      \/ at # "idle" /\ inCall < InCall /\ inCall' = inCall + 1
  BY Zenon DEF Wire!Hear, Wire!Quick, Wire!Came
<1>3. ASSUME UNCHANGED Wire!rx PROVE InvOfMem' /\ (Ignored \/ Started \/ Collected)
  <2>1. UNCHANGED <<mem, len, done, fresh, collecting>>
    BY <1>3, Zenon DEF Wire!rx
  <2>2. InvOfMem'
    BY <2>1 DEF InvOfMem, InOrder
  <2>3. Ignored
    BY <2>1, Zenon DEF Ignored
  <2> QED BY <2>2, <2>3
<1>4. ASSUME ~collecting, Wire!StartSymbol
      PROVE  InvOfMem' /\ (Ignored \/ Started \/ Collected)
  <2>1. ~collecting /\ len' = 0 /\ ~done' /\ fresh' = fresh
    BY <1>4, Zenon DEF Wire!StartSymbol
  <2>2. mem' = IF at = "idle" THEN Wire!Blank ELSE mem
    BY <1>4, Zenon DEF Wire!StartSymbol
  <2>3. CASE at = "idle"
    <3>1. InvOfMem'
      BY <2>1, <2>2, <2>3, BlankInOrder
    <3>2. Started
      BY <2>1, <2>3, Zenon DEF Started
    <3> QED BY <3>1, <3>2
  <2>4. CASE at # "idle"
    <3>1. InvOfMem'
      BY <2>1, <2>2, <2>4 DEF InvOfMem, InOrder
    <3> QED BY <2>1, <2>2, <2>4, <3>1 DEF Started
  <2> QED BY <2>3, <2>4
<1>5. ASSUME collecting, NEW p \in WireOctets, NEW k \in Nat, Wire!Collect(p, k)
      PROVE  InvOfMem' /\ (Ignored \/ Collected)
  BY <1>5, CollectDoes
<1>6. Wire!Bad \in WireOctets /\ \A k \in Wire!Counts : k \in Nat
  BY DEF WireOctets, Wire!Counts, WireSizes
<1>7. \/ UNCHANGED Wire!rx
      \/ ~collecting /\ Wire!StartSymbol
      \/ collecting /\ \E p \in WireOctets, k \in Nat : Wire!Collect(p, k)
  <2>1. CASE ~Wire!Listening
    BY <2>1 DEF Wire!Hear
  <2>2. CASE Wire!Listening /\ collecting
    <3>1. Wire!Collect(o, n) \/ \E k \in Wire!Counts : Wire!Collect(Wire!Bad, k)
      BY <2>2, Zenon DEF Wire!Hear
    <3> QED BY <1>6, <2>2, <3>1
  <2>3. CASE Wire!Listening /\ ~collecting
    BY <2>3 DEF Wire!Hear
  <2> QED BY <2>1, <2>2, <2>3
<1>8. InvOfMem' /\ (Ignored \/ Started \/ Collected)
  BY <1>3, <1>4, <1>5, <1>7
<1> QED BY <1>1, <1>2, <1>8, Zenon

\* During vw_get_message() a start symbol and three octets come at most.
LEMMA ComesInCall ==
  ASSUME WireSizes, WireMessages, WireInv, CallType, Announced, at # "idle",
         inCall < InCall, inCall' = inCall + 1, at' = at,
         Ignored \/ Started \/ Collected
  PROVE  /\ Announced'
         /\ Still' => /\ Still /\ mem' = mem /\ len' = len
         /\ \A i \in 4..MaxLen : mem'[i] = mem[i]
         /\ done' => done
<1>1. /\ len \in Nat /\ inCall \in Nat /\ InCall \in 0..4 /\ inCall + 1 <= 4
      /\ (collecting => ~Still)
  BY DEF WireInv, InvOfBuffer, CallType, WireMessages, Still
<1>2. CASE Ignored
  <2>1. Still \/ Renewed
    BY Zenon DEF Announced
  <2>2. Renewed => Renewed'
    <3>1. len < inCall => len < inCall + 1
      BY <1>1
    <3> QED BY <1>2, <3>1 DEF Renewed, Ignored
  <2>3. Still => Still'
    BY <1>2 DEF Still, Ignored
  <2>4. Renewed => ~(len >= 4)
    BY <1>1 DEF Renewed
  <2>5. Still' => Still
    BY <1>2, <2>1, <2>4, Zenon DEF Still, Ignored
  <2> QED BY <1>2, <2>1, <2>2, <2>3, <2>5, Zenon DEF Announced, Ignored
<1>3. CASE Started
  <2>1. Renewed' /\ ~Still'
    <3>1. 0 < inCall + 1 /\ 0 < 4 /\ ~(0 >= 4)
      BY <1>1
    <3> QED BY <1>3, <3>1 DEF Started, Renewed, Still
  <2> QED BY <1>3, <2>1, Zenon DEF Announced, Started
<1>4. CASE Collected
  <2>1. Renewed
    BY <1>1, <1>4, Zenon DEF Announced, Collected
  <2>2. len < inCall /\ len + 1 < inCall + 1 /\ len + 1 < 4 /\ ~(len + 1 >= 4)
    BY <1>1, <2>1 DEF Renewed
  <2>3. Renewed' /\ ~Still'
    BY <1>4, <2>2 DEF Collected, Renewed, Still
  <2>4. \A i \in 4..MaxLen : i \in 1..MaxLen /\ i # len + 1
    BY <1>1, <2>2
  <2>5. \A i \in 4..MaxLen : mem'[i] = mem[i]
    BY <1>4, <2>4, Zenon DEF Collected
  <2>6. done' => done
    BY <1>4, <2>2, Zenon DEF Collected
  <2> QED BY <1>4, <2>3, <2>5, <2>6, Zenon DEF Announced, Collected
<1> QED BY <1>2, <1>3, <1>4

LEMMA HearKept ==
  ASSUME WireSizes, WireMessages, WireInv, InvOfMem, InvOfCall,
         NEW o \in WireOctets, NEW n \in Nat, Wire!Hear(o, n)
  PROVE  InvOfMem' /\ InvOfCall'
<1>1. CallType /\ Announced /\ Copying /\ Summing
  BY DEF InvOfCall
<1>2. /\ InvOfMem' /\ (Ignored \/ Started \/ Collected)
      /\ UNCHANGED <<at, room, copied, summed, sumlen>>
      /\ \/ at = "idle" /\ inCall' = 0
         \/ at # "idle" /\ inCall < InCall /\ inCall' = inCall + 1
  BY <1>1, HearDoes
<1>3. CallType'
  <2>1. inCall' \in 0..InCall /\ (at = "idle" => inCall' = 0)
    BY <1>1, <1>2 DEF CallType, WireMessages
  <2> QED BY <1>1, <1>2, <2>1 DEF CallType
<1>4. CASE at = "idle"
  <2>1. (done => fresh) => (done' => fresh')
    BY <1>2, Zenon DEF Ignored, Started, Collected
  <2>2. Announced'
    BY <1>1, <1>2, <1>4, <2>1 DEF Announced
  <2> QED BY <1>2, <1>3, <1>4, <2>2 DEF InvOfCall, Copying, Summing
<1>5. CASE at # "idle"
  <2>1. /\ Announced'
        /\ Still' => /\ Still /\ mem' = mem /\ len' = len
        /\ \A i \in 4..MaxLen : mem'[i] = mem[i]
    BY <1>1, <1>2, <1>5, ComesInCall
  <2>2. Copying'
    BY <1>1, <1>2, <2>1, Zenon DEF Copying
  <2>3. sumlen >= 4 => mem'[sumlen] = mem[sumlen]
    BY <1>1, <2>1 DEF CallType
  <2>4. Summing'
    BY <1>1, <1>2, <2>1, <2>3 DEF Summing
  <2> QED BY <1>2, <1>3, <2>1, <2>2, <2>4 DEF InvOfCall
<1> QED BY <1>4, <1>5
LEMMA GetMessageKept ==
  ASSUME WireSizes, WireMessages, WireInv, InvOfMem, InvOfCall,
         NEW r \in Room, Wire!GetMessage(r)
  PROVE  InvOfMem' /\ InvOfCall'
<1>1. /\ at = "idle" /\ done /\ at' = "length" /\ room' = r /\ inCall' = 0
      /\ UNCHANGED <<collecting, done, mem, len, fresh, copied, summed, sumlen>>
  BY Zenon DEF Wire!GetMessage, Wire!Idle, Wire!rx
<1>2. InvOfMem'
  BY <1>1 DEF InvOfMem, InOrder
<1>3. CallType'
  BY <1>1 DEF InvOfCall, CallType, WireMessages
<1>4. Still
  BY <1>1 DEF WireInv, InvOfBuffer, Still
<1>5. Announced'
  BY <1>1, <1>4 DEF InvOfCall, Announced, Still
<1> QED BY <1>1, <1>2, <1>3, <1>5 DEF InvOfCall, Copying, Summing

LEMMA GetLengthKept ==
  ASSUME WireSizes, WireMessages, WireInv, InvOfMem, InvOfCall, Wire!GetLength
  PROVE  InvOfMem' /\ InvOfCall'
<1> DEFINE rxlen == (len - 3) % 256
<1>1. /\ at = "length" /\ at' = "copy"
      /\ room' = IF room > rxlen THEN rxlen ELSE room
      /\ UNCHANGED <<collecting, done, mem, len, fresh, copied, summed, sumlen, inCall>>
  BY Zenon DEF Wire!GetLength, Wire!rx
<1>2. /\ len \in Nat /\ room \in Nat /\ rxlen \in Nat /\ copied = <<>>
      /\ (len >= 4 => rxlen <= len - 3)
  BY <1>1 DEF WireInv, InvOfBuffer, InvOfCall, CallType
<1>3. InvOfMem'
  BY <1>1 DEF InvOfMem, InOrder
<1>4. CallType'
  BY <1>1, <1>2 DEF InvOfCall, CallType
<1>5. Announced'
  BY <1>1 DEF InvOfCall, Announced, Still, Renewed
<1>6. Copying'
  <2>1. room' \in Nat /\ room' <= rxlen
    BY <1>1, <1>2
  <2>2. Len(copied) <= room' /\ DOMAIN copied = {}
    BY <1>2, <2>1
  <2>3. Still' => room' <= len - 3
    BY <1>1, <1>2, <2>1 DEF Still
  <2> QED BY <1>1, <2>2, <2>3 DEF Copying
<1> QED BY <1>1, <1>3, <1>4, <1>5, <1>6 DEF InvOfCall, Summing

LEMMA CopyKept ==
  ASSUME WireSizes, WireMessages, WireInv, InvOfMem, InvOfCall, Wire!Copy
  PROVE  InvOfMem' /\ InvOfCall'
<1> DEFINE i == Len(copied) + 2
           next == IF i <= MaxLen THEN mem[i] ELSE Wire!Bad
<1>1. /\ at = "copy" /\ Len(copied) < room /\ copied' = Append(copied, next)
      /\ UNCHANGED <<collecting, done, mem, len, fresh, at, room, summed, sumlen, inCall>>
  BY Zenon DEF Wire!Copy, Wire!rx
<1>2. /\ MaxLen \in Nat /\ len \in 0..MaxLen /\ room \in Nat
      /\ copied \in Seq(WireOctets) /\ Len(copied) \in Nat
      /\ mem \in [1..MaxLen -> WireOctets] /\ Wire!Bad \in WireOctets
  BY DEF WireSizes, WireInv, InvOfBuffer, InvOfCall, CallType, InvOfMem, WireOctets
<1>3. next \in WireOctets
  BY <1>2
<1>4. InvOfMem'
  BY <1>1 DEF InvOfMem, InOrder
<1> HIDE DEF next
<1>5. /\ copied' \in Seq(WireOctets) /\ Len(copied') = Len(copied) + 1
      /\ \A j \in DOMAIN copied' : \/ j \in DOMAIN copied /\ copied'[j] = copied[j]
                                   \/ j = Len(copied) + 1 /\ copied'[j] = next
  BY <1>1, <1>2, <1>3
<1>6. CallType'
  BY <1>1, <1>5 DEF InvOfCall, CallType
<1>7. Announced'
  BY <1>1 DEF InvOfCall, Announced, Still, Renewed
<1>8. Copying'
  <2>1. ASSUME Still
        PROVE  /\ Len(copied) + 1 <= room /\ room <= len - 3
               /\ \A j \in DOMAIN copied' : copied'[j] = mem[j + 1]
    <3>1. room <= len - 3 /\ \A j \in DOMAIN copied : copied[j] = mem[j + 1]
      BY <1>1, <2>1 DEF InvOfCall, Copying
    <3>2. i <= MaxLen /\ Len(copied) + 1 <= room
      BY <1>1, <1>2, <3>1
    <3>3. next = mem[(Len(copied) + 1) + 1]
      BY <1>2, <3>2 DEF next
    <3> QED BY <1>5, <3>1, <3>2, <3>3
  <2>2. Still' <=> Still
    BY <1>1 DEF Still
  <2> QED BY <1>1, <1>5, <2>1, <2>2 DEF Copying
<1> QED BY <1>1, <1>4, <1>6, <1>7, <1>8 DEF InvOfCall, Summing

LEMMA ClearKept ==
  ASSUME WireSizes, WireMessages, WireInv, InvOfMem, InvOfCall, Wire!Clear
  PROVE  InvOfMem' /\ InvOfCall'
<1>1. /\ at = "copy" /\ at' = "sum" /\ ~done'
      /\ UNCHANGED <<collecting, mem, len, fresh, room, copied, summed, sumlen, inCall>>
  BY Zenon DEF Wire!Clear
<1>2. InvOfMem'
  BY <1>1 DEF InvOfMem, InOrder
<1>3. CallType'
  BY <1>1 DEF InvOfCall, CallType
<1>4. Announced'
  BY <1>1 DEF InvOfCall, Announced, Still, Renewed
<1>5. Copying'
  BY <1>1 DEF InvOfCall, Copying, Still
<1> QED BY <1>1, <1>2, <1>3, <1>4, <1>5 DEF InvOfCall, Summing

LEMMA SumLengthKept ==
  ASSUME WireSizes, WireMessages, WireInv, InvOfMem, InvOfCall, Wire!SumLength
  PROVE  InvOfMem' /\ InvOfCall'
<1>1. /\ at = "sum" /\ at' = "summing" /\ sumlen' = len
      /\ UNCHANGED <<collecting, done, mem, len, fresh, room, copied, summed, inCall>>
  BY Zenon DEF Wire!SumLength, Wire!rx
<1>2. /\ MaxLen \in Nat /\ len \in 0..MaxLen /\ summed = <<>> /\ room \in Nat
      /\ copied \in Seq(WireOctets)
  BY <1>1 DEF WireSizes, WireInv, InvOfBuffer, InvOfCall, CallType
<1>3. InvOfMem'
  BY <1>1 DEF InvOfMem, InOrder
<1>4. CallType'
  BY <1>1, <1>2 DEF InvOfCall, CallType
<1>5. Announced'
  BY <1>1 DEF InvOfCall, Announced, Still, Renewed
<1>6. ASSUME len >= 4
      PROVE  /\ Len(summed) # len /\ Len(copied) <= len - 3
             /\ \A m \in Message, k \in Nat : mem[len] = <<m, k>> =>
                  \A i \in DOMAIN copied : copied[i] = <<m, k - (len - (i + 1))>>
  <2>1. Still
    BY <1>1, <1>2, <1>6 DEF InvOfCall, Announced, Renewed
  <2>2. /\ Len(copied) <= room /\ room <= len - 3
        /\ \A i \in DOMAIN copied : copied[i] = mem[i + 1]
    BY <1>1, <2>1 DEF InvOfCall, Copying
  <2>3. /\ Len(copied) <= len - 3
        /\ \A i \in DOMAIN copied : i + 1 \in 1..len
    BY <1>2, <2>2
  <2>4. len \in 1..len /\ Len(summed) # len
    BY <1>2, <1>6
  <2>5. ASSUME NEW m \in Message, NEW k \in Nat, mem[len] = <<m, k>>
        PROVE  \A j \in 1..len : mem[j] = <<m, k - (len - j)>>
    BY <2>4, <2>5 DEF InvOfMem, InOrder
  <2> QED BY <2>2, <2>3, <2>4, <2>5
<1>7. Summing'
  <2>1. Len(summed) <= len
    BY <1>2
  <2> QED BY <1>1, <1>6, <2>1 DEF Summing
<1> QED BY <1>1, <1>3, <1>4, <1>5, <1>7 DEF InvOfCall, Copying

LEMMA SumKept ==
  ASSUME WireSizes, WireMessages, WireInv, InvOfMem, InvOfCall, Wire!Sum
  PROVE  InvOfMem' /\ InvOfCall'
<1> DEFINE next == mem[Len(summed) + 1]
<1>1. /\ at = "summing" /\ Len(summed) < sumlen /\ summed' = Append(summed, next)
      /\ UNCHANGED <<collecting, done, mem, len, fresh, at, room, copied, sumlen, inCall>>
  BY Zenon DEF Wire!Sum, Wire!rx
<1>2. /\ MaxLen \in Nat /\ sumlen \in 0..MaxLen
      /\ summed \in Seq(WireOctets) /\ Len(summed) \in Nat
      /\ mem \in [1..MaxLen -> WireOctets]
  BY DEF WireSizes, InvOfCall, CallType, InvOfMem
<1>3. next \in WireOctets
  BY <1>1, <1>2
<1>4. /\ summed' \in Seq(WireOctets) /\ Len(summed') = Len(summed) + 1
      /\ Len(summed) + 1 <= sumlen /\ summed'[Len(summed) + 1] = next
  BY <1>1, <1>2, <1>3
<1>5. InvOfMem'
  BY <1>1 DEF InvOfMem, InOrder
<1>6. CallType'
  BY <1>1, <1>4 DEF InvOfCall, CallType
<1>7. Announced'
  BY <1>1 DEF InvOfCall, Announced, Still, Renewed
<1>8. Summing'
  BY <1>1, <1>4 DEF InvOfCall, Summing, Still
<1> QED BY <1>1, <1>5, <1>6, <1>7, <1>8 DEF InvOfCall, Copying

LEMMA ReturnKept ==
  ASSUME WireSizes, WireMessages, WireInv, InvOfMem, InvOfCall, Wire!Return
  PROVE  InvOfMem' /\ InvOfCall'
<1>1. /\ at = "summing" /\ at' = "idle"
      /\ room' = 0 /\ copied' = <<>> /\ summed' = <<>> /\ sumlen' = 0
      /\ inCall' = 0
      /\ mem' = [i \in 1..MaxLen |-> IF collecting /\ i <= len THEN mem[i]
                                                               ELSE Wire!Bad]
      /\ UNCHANGED <<collecting, done, len>>
  BY Zenon DEF Wire!Return
<1>2. mem \in [1..MaxLen -> WireOctets] /\ Wire!Bad \in WireOctets
      /\ MaxLen \in Nat /\ len \in Nat /\ len <= MaxLen
  BY DEF InvOfMem, WireOctets, WireSizes, WireInv, InvOfBuffer
<1>3. len' = len /\ len \in Nat
  BY <1>1, <1>2
<1>4. InvOfMem'
  <2>1. mem' \in [1..MaxLen -> WireOctets]
    BY <1>1, <1>2
  <2>2. CASE collecting
    <3>1. \A i \in 1..len : mem'[i] = mem[i]
      BY <1>1, <1>2, <2>2
    <3> QED BY <1>3, <2>1, <3>1 DEF InvOfMem, InOrder
  <2>3. CASE ~collecting
    <3>1. \A i \in 1..len : mem'[i] = Wire!Bad
      BY <1>1, <1>2, <2>3
    <3> QED BY <1>3, <2>1, <3>1, BadIsNoOctet DEF InvOfMem, InOrder
  <2> QED BY <2>2, <2>3
<1>5. CallType'
  BY <1>1, <1>2 DEF CallType, WireMessages
<1>6. Announced'
  BY <1>1 DEF InvOfCall, Announced
<1> QED BY <1>1, <1>4, <1>5, <1>6 DEF InvOfCall, Copying, Summing

LEMMA WholeStep ==
  ASSUME WireSizes, WireMessages
  PROVE  WholeInv /\ [Wire!Next]_(Wire!vars) => WholeInv'
<1> SUFFICES ASSUME WholeInv, [Wire!Next]_(Wire!vars) PROVE WholeInv'
    OBVIOUS
<1>1. WireInv /\ InvOfStation /\ InvOfMem /\ InvOfCall
  BY DEF WholeInv
<1>2. WireInv'
  BY <1>1, WireStep
<1>3. ASSUME NEW o \in WireOctets, NEW n \in Nat, Wire!Hear(o, n)
      PROVE  InvOfMem' /\ InvOfCall'
  BY <1>1, <1>3, HearKept
<1>4. Wire!Bad \in WireOctets /\ MaxLen + 1 \in Nat /\ 3 \in Nat
  BY DEF WireOctets, WireSizes
<1>5. CASE Wire!OnTheAir
  <2>1. /\ air \in Message \X Nat
        /\ air' = IF air[2] + 1 = Length[air[1]] THEN <<>>
                                                 ELSE <<air[1], air[2] + 1>>
        /\ Wire!Hear(Wire!Octet(air[1], air[2]),
                     IF air[2] = 0 THEN Length[air[1]] ELSE 3)
    BY <1>1, <1>5 DEF Wire!OnTheAir, InvOfStation
  <2>2. PICK m \in Message, k \in Nat : air = <<m, k>>
    BY <2>1
  <2>3. Length[m] \in Nat /\ <<m, k>> \in WireOctets /\ k + 1 \in Nat
    BY DEF WireSizes, WireOctets
  <2>4. InvOfStation'
    BY <2>1, <2>2, <2>3 DEF InvOfStation
  <2>5. Wire!Hear(<<m, k>>, IF k = 0 THEN Length[m] ELSE 3)
    BY <2>1, <2>2 DEF Wire!Octet
  <2>6. (IF k = 0 THEN Length[m] ELSE 3) \in Nat
    BY <2>3
  <2> QED BY <1>2, <1>3, <2>3, <2>4, <2>5, <2>6 DEF WholeInv
<1>6. CASE Wire!Noise
  <2>1. InvOfStation' /\ Wire!Hear(Wire!Bad, 3)
    BY <1>1, <1>6 DEF Wire!Noise, InvOfStation
  <2> QED BY <1>2, <1>3, <1>4, <2>1 DEF WholeInv
<1>7. ASSUME NEW m \in Message, Wire!Begins(m) PROVE WholeInv'
  <2>1. InvOfStation' /\ Wire!Hear(Wire!Bad, MaxLen + 1)
    BY <1>7 DEF Wire!Begins, InvOfStation
  <2> QED BY <1>2, <1>3, <1>4, <2>1 DEF WholeInv
<1>8. CASE Wire!RxStart \/ Wire!RxStop \/ Wire!VwSend
  <2>1. /\ at = "idle" /\ (collecting' => collecting)
        /\ UNCHANGED <<air, done, mem, len, fresh, at, room, copied, summed,
                       sumlen, inCall>>
    BY <1>8 DEF Wire!RxStart, Wire!RxStop, Wire!VwSend, Wire!Idle, Wire!call
  <2>2. InvOfStation' /\ InvOfMem' /\ CallType'
    BY <1>1, <2>1 DEF InvOfStation, InvOfMem, InOrder, InvOfCall, CallType
  <2>3. Announced'
    BY <1>1, <2>1 DEF InvOfCall, Announced
  <2> QED BY <1>2, <2>1, <2>2, <2>3 DEF WholeInv, InvOfCall, Copying, Summing
<1>9. CASE Wire!TxEnds \/ UNCHANGED Wire!vars
  <2>1. UNCHANGED <<air, collecting, done, mem, len, fresh, at, room, copied,
                    summed, sumlen, inCall>>
    BY <1>9, Zenon DEF Wire!TxEnds, Wire!call, Wire!vars, Wire!rx
  <2>2. InvOfStation' /\ InvOfMem' /\ CallType'
    BY <1>1, <2>1 DEF InvOfStation, InvOfMem, InOrder, InvOfCall, CallType
  <2>3. Announced'
    BY <1>1, <2>1 DEF InvOfCall, Announced, Still, Renewed
  <2>4. Copying' /\ Summing'
    BY <1>1, <2>1 DEF InvOfCall, Copying, Summing, Still
  <2> QED BY <1>2, <2>2, <2>3, <2>4 DEF WholeInv, InvOfCall
<1>10. CASE \/ Wire!GetLength \/ Wire!Copy \/ Wire!Clear \/ Wire!SumLength
            \/ Wire!Sum \/ Wire!Return \/ \E r \in Room : Wire!GetMessage(r)
  <2>1. InvOfStation'
    BY <1>1, <1>10 DEF InvOfStation, Wire!GetLength, Wire!Copy, Wire!Clear,
          Wire!SumLength, Wire!Sum, Wire!Return, Wire!GetMessage
  <2>2. InvOfMem' /\ InvOfCall'
    BY <1>1, <1>10, GetMessageKept, GetLengthKept, CopyKept, ClearKept,
       SumLengthKept, SumKept, ReturnKept
  <2> QED BY <1>2, <2>1, <2>2 DEF WholeInv
<1> QED
  BY <1>5, <1>6, <1>7, <1>8, <1>9, <1>10
     DEF Wire!Next, Wire!Interrupt, Wire!Sketch

\* The last octet of a good sum tells of all that were copied.
LEMMA GoodSumIsWhole ==
  ASSUME WireSizes, WireMessages, WholeInv, at = "summing",
         Len(summed) = sumlen, Wire!SumIsGood
  PROVE  /\ fresh
         /\ \E m \in Message :
               /\ Len(copied) <= Length[m] - 3
               /\ copied = [i \in 1..Len(copied) |-> Wire!Octet(m, i)]
<1>1. PICK m \in Message : summed = [i \in 1..Length[m] |-> <<m, i - 1>>]
  BY DEF Wire!SumIsGood, Wire!Whole, Wire!Octet
<1>2. /\ Length[m] \in Nat /\ Length[m] >= 4
      /\ copied \in Seq(WireOctets) /\ summed \in Seq(WireOctets)
  BY DEF WireSizes, WireMessages, WholeInv, InvOfCall, CallType
<1>3. sumlen = Length[m] /\ summed[sumlen] = <<m, Length[m] - 1>>
  BY <1>1, <1>2
<1>4. Len(copied) <= Length[m] - 3 /\ mem[sumlen] = <<m, Length[m] - 1>>
      /\ Length[m] - 1 \in Nat
  BY <1>2, <1>3 DEF WholeInv, InvOfCall, Summing
<1>5. ASSUME NEW i \in DOMAIN copied PROVE copied[i] = <<m, i>>
  <2>1. copied[i] = <<m, (Length[m] - 1) - (sumlen - (i + 1))>>
    BY <1>2, <1>3, <1>4, <1>5 DEF WholeInv, InvOfCall, Summing
  <2>2. (Length[m] - 1) - (sumlen - (i + 1)) = i
    <3>1. i \in Int
      BY <1>2, <1>5
    <3> QED BY <1>2, <1>3, <3>1
  <2> QED BY <2>1, <2>2
<1>6. copied = [i \in 1..Len(copied) |-> Wire!Octet(m, i)]
  BY <1>2, <1>5 DEF Wire!Octet
<1> QED BY <1>4, <1>6 DEF WholeInv, InvOfCall, Announced

\* vw_get_message() returns true only with the beginning of a message that
\* came whole and was not returned before, if no more than a start symbol and
\* three octets come while it runs.
THEOREM TrueMeansWhole ==
  ASSUME WireSizes, WireMessages PROVE BoardSpec => WireTrueIsWhole
<1>1. BoardInit => WholeInv
  <2> SUFFICES ASSUME BoardInit PROVE WholeInv
    OBVIOUS
  <2>1. /\ air = <<>> /\ ~collecting /\ ~done /\ mem = Wire!Blank /\ len = 0
        /\ at = "idle" /\ room = 0 /\ copied = <<>> /\ summed = <<>>
        /\ sumlen = 0 /\ inCall = 0
    BY DEF BoardInit, Wire!Init
  <2>2. WireInv /\ InvOfStation
    BY <2>1 DEF WireInv, InvOfBuffer, InvOfAir, InvOfStation, WireSizes
  <2>3. InvOfMem
    BY <2>1 DEF InvOfMem, InOrder, Wire!Blank, WireOctets
  <2>4. CallType
    BY <2>1 DEF CallType, WireSizes, WireMessages
  <2> QED BY <2>1, <2>2, <2>3, <2>4 DEF WholeInv, InvOfCall, Announced, Copying, Summing
<1>2. WholeInv /\ [BoardNext]_Board => WholeInv'
  BY WholeStep, BoardWire
<1>3. WholeInv /\ [BoardNext]_Board
      => [at = "summing" /\ at' = "idle" /\ Wire!SumIsGood =>
            /\ fresh
            /\ \E m \in Message :
                  /\ Len(copied) <= Length[m] - 3
                  /\ copied = [i \in 1..Len(copied) |-> Wire!Octet(m, i)]]_(Wire!vars)
  <2> SUFFICES ASSUME WholeInv, [Wire!Next]_(Wire!vars), at = "summing", at' = "idle",
                      Wire!SumIsGood
               PROVE  Len(summed) = sumlen
    BY BoardWire, GoodSumIsWhole
  <2>1. Wire!Return
    BY DEF Wire!Next, Wire!Interrupt, Wire!Sketch, Wire!OnTheAir, Wire!Noise,
           Wire!Begins, Wire!Hear, Wire!RxStart, Wire!RxStop, Wire!VwSend,
           Wire!TxEnds, Wire!GetMessage, Wire!GetLength, Wire!Copy, Wire!Clear,
           Wire!SumLength, Wire!Sum, Wire!vars, Wire!call, Wire!Idle
  <2> QED BY <2>1 DEF Wire!Return
<1> QED BY <1>1, <1>2, <1>3, PTL DEF BoardSpec, WireTrueIsWhole, Wire!TrueIsWhole
=============================================================================
