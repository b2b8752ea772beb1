-------------------------- MODULE ModbusBusProofs --------------------------
(***************************************************************************)
(* The line of ModbusBus while answers are prompt, for every table of      *)
(* packets, set of slaves, retry count and number of disturbances: what    *)
(* the master takes for a success was brought about by the slave it asked, *)
(* what both sides support does not fail on an undisturbed line, and a     *)
(* broadcast reaches every slave that has its registers.                   *)
(*                                                                         *)
(* First what a slave answers, then what processReply() makes of it, then  *)
(* the inductive invariant BusInv: who may still answer, and where the     *)
(* request or its answer is.                                               *)
(***************************************************************************)
EXTENDS MCModbusBus, FiniteSetTheorems, TLAPS

Writes(fn) == fn \in {WriteRegs, WriteCoils}
-----------------------------------------------------------------------------
(* What a slave answers.                                                    *)

\* The answer of station `me` to a request of function fn.
Answered(a, me, fn) ==
    \E g : a.reply = <<g>> /\ g.id = me /\ g.fn \in Int /\ (g.fn = fn \/ g.fn >= 128)

LEMMA FrameIs ==
  ASSUME NEW id, NEW fn, NEW addr, NEW num, NEW data
  PROVE  /\ Frame(id, fn, addr, num, data).id = id
         /\ Frame(id, fn, addr, num, data).fn = fn
         /\ Frame(id, fn, addr, num, data).addr = addr
         /\ Frame(id, fn, addr, num, data).num = num
         /\ Frame(id, fn, addr, num, data).data = data
BY DEF Frame

LEMMA AnswerIs ==
  ASSUME NEW r, NEW frame
  PROVE  /\ Nothing(r).regs = r /\ Nothing(r).reply = <<>>
         /\ Answer(r, frame).regs = r /\ Answer(r, frame).reply = <<frame>>
BY DEF Nothing, Answer

LEMMA AnswerAnswers ==
  ASSUME NEW r, NEW me, NEW fn \in 1..127, NEW addr, NEW num, NEW data
  PROVE  Answered(Answer(r, Frame(me, fn, addr, num, data)), me, fn)
<1> DEFINE g == Frame(me, fn, addr, num, data)
<1>1. g.id = me /\ g.fn = fn
  BY FrameIs
<1>2. g.fn \in Int
  BY <1>1
<1>3. Answer(r, g).reply = <<g>>
  BY AnswerIs
<1> HIDE DEF g
<1>4. Answer(r, g).reply = <<g>> /\ g.id = me /\ g.fn \in Int /\ g.fn = fn
  BY <1>1, <1>2, <1>3
<1> QED BY ONLY <1>4, Zenon DEF Answered, g

LEMMA RefuseIs ==
  ASSUME NEW r, NEW me, NEW fn, NEW code
  PROVE  /\ Refuse(r, me, fn, code).regs = r
         /\ Refuse(r, me, fn, code).reply = <<Frame(me, fn + 128, 0, code, <<>>)>>
BY AnswerIs DEF Refuse

LEMMA Refuses ==
  ASSUME NEW r, NEW me, NEW fn \in 1..127, NEW code
  PROVE  Answered(Refuse(r, me, fn, code), me, fn)
<1> DEFINE g == Frame(me, fn + 128, 0, code, <<>>)
<1>1. g.id = me /\ g.fn \in Int /\ g.fn >= 128
  BY FrameIs
<1> QED BY <1>1, RefuseIs DEF Answered

\* SimpleModbusSlave.
SimpleRead(me, r, f) ==
    Answer(r, Frame(me, f.fn, 0, 0, [i \in 1..f.num |-> r[f.addr + i - 1]]))
SimpleWrite(me, r, f) ==
    Answer(Written(r, f), Frame(me, f.fn, f.addr, f.num, <<>>))
Checked(me, r, f, answer) ==
    IF f.addr >= Size(r) THEN Refuse(r, me, f.fn, IllegalAddress)
    ELSE IF Word(f.addr + f.num) > Size(r)
         THEN Refuse(r, me, f.fn, IllegalValue)
         ELSE answer

LEMMA SimpleIgnores ==
  ASSUME NEW me, NEW r, NEW f, ~RequestFits(f) \/ f.id \notin {0, me}
  PROVE  SimpleSlave(me, r, f) = Nothing(r)
BY DEF SimpleSlave, Addressed

LEMMA SimpleCases ==
  ASSUME NEW me, NEW r, NEW f, me # 0, RequestFits(f)
  PROVE  /\ f.id = me /\ f.fn = ReadHolding
            => SimpleSlave(me, r, f) = Checked(me, r, f, SimpleRead(me, r, f))
         /\ f.id = me /\ f.fn = WriteRegs
            => SimpleSlave(me, r, f) = Checked(me, r, f, SimpleWrite(me, r, f))
         /\ f.id = me /\ f.fn \notin {ReadHolding, WriteRegs}
            => SimpleSlave(me, r, f) = Refuse(r, me, f.fn, IllegalFunction)
         /\ f.id = 0 /\ f.fn = WriteRegs
            => SimpleSlave(me, r, f)
                  = Nothing(Checked(me, r, f, SimpleWrite(me, r, f)).regs)
         /\ f.id = 0 /\ f.fn # WriteRegs
            => SimpleSlave(me, r, f)
                  = Nothing(Refuse(r, me, f.fn, IllegalFunction).regs)
<1> USE DEF SimpleSlave, Addressed, Checked, ReadHolding, WriteRegs
<1>2. ASSUME f.id = me, f.fn = ReadHolding
      PROVE  SimpleSlave(me, r, f) = Checked(me, r, f, SimpleRead(me, r, f))
  BY <1>2 DEF SimpleRead
<1>3. ASSUME f.id = me, f.fn = WriteRegs
      PROVE  SimpleSlave(me, r, f) = Checked(me, r, f, SimpleWrite(me, r, f))
  BY <1>3 DEF SimpleWrite
<1>4. ASSUME f.id = me, f.fn \notin {ReadHolding, WriteRegs}
      PROVE  SimpleSlave(me, r, f) = Refuse(r, me, f.fn, IllegalFunction)
  BY <1>4
<1>5. ASSUME f.id = 0, f.fn = WriteRegs
      PROVE  SimpleSlave(me, r, f)
                = Nothing(Checked(me, r, f, SimpleWrite(me, r, f)).regs)
  BY <1>5 DEF SimpleWrite
<1>6. ASSUME f.id = 0, f.fn # WriteRegs
      PROVE  SimpleSlave(me, r, f)
                = Nothing(Refuse(r, me, f.fn, IllegalFunction).regs)
  BY <1>6
<1> QED BY <1>2, <1>3, <1>4, <1>5, <1>6

LEMMA CheckedIs ==
  ASSUME NEW me, NEW r, NEW f, NEW answer, f.fn \in 1..127
  PROVE  \/ Checked(me, r, f, answer) = answer
         \/ \E code : Checked(me, r, f, answer) = Refuse(r, me, f.fn, code)
BY DEF Checked

\* What fits in the array of registers passes the checks, and the frame is
\* then executed whole.
LEMMA FitsIsChecked ==
  ASSUME NEW me, NEW r, NEW f, NEW answer, NEW n \in Nat, DOMAIN r = 0..(n - 1),
         f.addr \in Nat, f.num \in Nat, f.num > 0, f.addr + f.num <= Size(r)
  PROVE  Checked(me, r, f, answer) = answer
<1>1. Size(r) \in Nat
  <2>1. Cardinality(0..(n - 1)) = IF 0 > n - 1 THEN 0 ELSE (n - 1) - 0 + 1
    BY FS_Interval
  <2> QED BY <2>1 DEF Size
<1>2. ~(f.addr >= Size(r)) /\ ~(Word(f.addr + f.num) > Size(r))
  BY <1>1 DEF Word
<1> QED BY <1>2 DEF Checked

LEMMA WriteExecutes ==
  ASSUME NEW me, NEW r, NEW f, NEW n \in Nat, DOMAIN r = 0..(n - 1),
         f.fn = WriteRegs, f.addr \in Nat, f.num \in Nat,
         f.addr + f.num < 65536, Len(f.data) = f.num,
         Checked(me, r, f, SimpleWrite(me, r, f)) = SimpleWrite(me, r, f)
  PROVE  Executed(f, Written(r, f))
<1>1. Cardinality(0..(n - 1)) = IF 0 > n - 1 THEN 0 ELSE (n - 1) - 0 + 1
  BY FS_Interval
<1>2. Size(r) = n
  BY <1>1 DEF Size
<1>3. f.addr + f.num <= n
  <2>1. ASSUME NEW code PROVE SimpleWrite(me, r, f) # Refuse(r, me, f.fn, code)
    <3>1. Frame(me, f.fn, f.addr, f.num, <<>>)
            # Frame(me, f.fn + 128, 0, code, <<>>)
      BY FrameIs DEF WriteRegs
    <3>2. <<Frame(me, f.fn, f.addr, f.num, <<>>)>>
            # <<Frame(me, f.fn + 128, 0, code, <<>>)>>
      BY <3>1
    <3> QED BY <3>2, AnswerIs, RefuseIs DEF SimpleWrite
  <2>3. ~(f.addr >= Size(r)) /\ ~(Word(f.addr + f.num) > Size(r))
    BY <2>1 DEF Checked
  <2> QED BY <1>2, <2>3 DEF Word
<1>4. Word(f.addr + f.num) = f.addr + f.num
  BY DEF Word
<1>5. ASSUME NEW i \in 1..f.num
      PROVE  /\ f.addr + i - 1 \in DOMAIN Written(r, f)
             /\ Written(r, f)[f.addr + i - 1] = f.data[i]
  <2>1. /\ f.addr + i - 1 \in 0..(n - 1)
        /\ f.addr + i - 1 \in f.addr .. ((f.addr + f.num) - 1)
        /\ (f.addr + i - 1) - f.addr + 1 = i
    BY <1>3
  <2> DEFINE at == f.addr + i - 1
  <2>2. at \in DOMAIN r /\ at \in InBlock(f) /\ at - f.addr + 1 = i
    BY <1>4, <2>1 DEF InBlock
  <2> HIDE DEF at
  <2>3. at \in DOMAIN Written(r, f) /\ Written(r, f)[at] = f.data[i]
    BY <2>2 DEF Written
  <2> QED BY <2>3 DEF at
<1> QED BY <1>5 DEF Executed

\* Where a frame is a request of something the station has.
FitsIn(f, r) == f.num > 0 /\ f.addr + f.num <= Size(r)

RequestType(f) ==
    /\ f.fn \in 1..127 /\ f.addr \in Nat /\ f.num \in Nat
    /\ f.addr + f.num < 65536
    /\ RequestFits(f)
    /\ Writes(f.fn) => Len(f.data) = IF IsBits(f.fn) THEN 8 * MasterOctets(f.num)
                                                      ELSE f.num

\* A reply that processReply() takes for a success.
Fitting(j, r) ==
    /\ r.fn = j.fn /\ ReplyFits(r)
    /\ \/ /\ j.fn \in {ReadCoils, ReadInputs}
          /\ Octets(r.fn, r.data) = MasterOctets(j.num)
       \/ j.fn \in {ReadHolding, ReadInputRegs} /\ Len(r.data) = j.num
       \/ j.fn \in {WriteCoils, WriteRegs} /\ r.addr = j.addr /\ r.num = j.num

\* Replies that fit into the buffer of the master.
LEMMA EchoFits ==
  ASSUME NEW g, g.data = <<>> PROVE ReplyFits(g)
<1>1. Len(g.data) = 0
  OBVIOUS
<1>2. Octets(g.fn, g.data) = 0
  BY <1>1 DEF Octets
<1> QED BY <1>2 DEF ReplyFits, InBuffer, BufferSize

LEMMA WordsFit ==
  ASSUME NEW g, ~IsBits(g.fn), Len(g.data) \in 0..61 PROVE ReplyFits(g)
<1>1. PICK n \in 0..61 : n = Len(g.data)
  OBVIOUS
<1>2. Octets(g.fn, g.data) = 2 * n
  BY <1>1 DEF Octets
<1>3. 5 + 2 * n <= 128
  OBVIOUS
<1> QED BY <1>2, <1>3 DEF ReplyFits, InBuffer, BufferSize

Keeps(a, r) == DOMAIN a.regs = DOMAIN r

LEMMA NothingKeeps == ASSUME NEW r PROVE Keeps(Nothing(r), r)
BY AnswerIs DEF Keeps
LEMMA RefuseKeeps ==
  ASSUME NEW r, NEW me, NEW fn, NEW code PROVE Keeps(Refuse(r, me, fn, code), r)
BY RefuseIs DEF Keeps

LEMMA CheckedKeeps ==
  ASSUME NEW me, NEW r, NEW f, NEW answer, Keeps(answer, r)
  PROVE  Keeps(Checked(me, r, f, answer), r)
BY RefuseKeeps DEF Checked

LEMMA SimpleKeeps ==
  ASSUME NEW me, me # 0, NEW r, NEW f
  PROVE  Keeps(SimpleSlave(me, r, f), r)
<1>1. Keeps(SimpleRead(me, r, f), r) /\ Keeps(SimpleWrite(me, r, f), r)
  <2>1. DOMAIN Written(r, f) = DOMAIN r
    BY DEF Written
  <2> QED BY <2>1, AnswerIs DEF Keeps, SimpleRead, SimpleWrite
<1>2. /\ Keeps(Checked(me, r, f, SimpleRead(me, r, f)), r)
      /\ Keeps(Checked(me, r, f, SimpleWrite(me, r, f)), r)
      /\ Keeps(Refuse(r, me, f.fn, IllegalFunction), r)
  BY <1>1, CheckedKeeps, RefuseKeeps
<1>3. \A a : Keeps(a, r) => Keeps(Nothing(a.regs), r)
  BY AnswerIs DEF Keeps
<1>5. f.fn = ReadHolding \/ f.fn = WriteRegs \/ f.fn \notin {ReadHolding, WriteRegs}
  OBVIOUS
<1>6. CASE ~RequestFits(f) \/ f.id \notin {0, me}
  BY <1>6, SimpleIgnores, NothingKeeps
<1>7. CASE RequestFits(f) /\ f.id = me
  BY <1>2, <1>5, <1>7, SimpleCases
<1>8. CASE RequestFits(f) /\ f.id = 0
  BY <1>2, <1>3, <1>8, SimpleCases
<1> QED BY <1>6, <1>7, <1>8

LEMMA SimpleIsSilent ==
  ASSUME NEW me, me # 0, NEW r, NEW f, f.id # me
  PROVE  SimpleSlave(me, r, f).reply = <<>>
<1>1. \E any : SimpleSlave(me, r, f) = Nothing(any)
  <2>1. CASE ~RequestFits(f) \/ f.id \notin {0, me}
    BY <2>1, SimpleIgnores
  <2>2. CASE RequestFits(f) /\ f.id = 0 /\ f.fn = WriteRegs
    BY <2>2, SimpleCases
  <2>3. CASE RequestFits(f) /\ f.id = 0 /\ f.fn # WriteRegs
    BY <2>3, SimpleCases
  <2> QED BY <2>1, <2>2, <2>3
<1> QED BY <1>1, AnswerIs

LEMMA SimpleAnswers ==
  ASSUME NEW me, me # 0, NEW r, NEW f, f.id = me, f.fn \in 1..127,
         RequestFits(f)
  PROVE  Answered(SimpleSlave(me, r, f), me, f.fn)
<1>1. /\ Answered(SimpleWrite(me, r, f), me, f.fn)
      /\ Answered(SimpleRead(me, r, f), me, f.fn)
  BY AnswerAnswers DEF SimpleWrite, SimpleRead
<1>2. /\ Answered(Refuse(r, me, f.fn, IllegalFunction), me, f.fn)
      /\ \A code : Answered(Refuse(r, me, f.fn, code), me, f.fn)
  BY Refuses
<1>3. /\ Answered(Checked(me, r, f, SimpleRead(me, r, f)), me, f.fn)
      /\ Answered(Checked(me, r, f, SimpleWrite(me, r, f)), me, f.fn)
  BY <1>1, <1>2 DEF Checked
<1> QED BY <1>2, <1>3, SimpleCases

\* What is answered as done was executed.
LEMMA SimpleExecutes ==
  ASSUME NEW me, me # 0, NEW r, NEW f, RequestType(f), NEW n \in Nat,
         DOMAIN r = 0..(n - 1), f.fn = WriteRegs,
         \/ /\ f.id = me
            /\ \E g : SimpleSlave(me, r, f).reply = <<g>> /\ g.fn = WriteRegs
         \/ f.id = 0 /\ FitsIn(f, r)
  PROVE  Executed(f, SimpleSlave(me, r, f).regs)
<1> DEFINE a == SimpleWrite(me, r, f)
<1>0. RequestFits(f)
  BY DEF RequestType
<1>1. Checked(me, r, f, a) = a
  <2>1. CASE FitsIn(f, r)
    BY <2>1, FitsIsChecked DEF RequestType, FitsIn
  <2>2. ASSUME f.id = me, NEW g, SimpleSlave(me, r, f).reply = <<g>>,
               g.fn = WriteRegs
        PROVE  Checked(me, r, f, a) = a
    <3>1. SimpleSlave(me, r, f) = Checked(me, r, f, a)
      BY <1>0, <2>2, SimpleCases
    <3>2. ASSUME NEW code, Checked(me, r, f, a) = Refuse(r, me, f.fn, code)
          PROVE  FALSE
      <4>1. <<g>> = <<Frame(me, f.fn + 128, 0, code, <<>>)>>
        BY <2>2, <3>1, <3>2, RefuseIs
      <4>2. g = Frame(me, f.fn + 128, 0, code, <<>>)
        BY <4>1
      <4> QED BY <2>2, <4>2, FrameIs DEF WriteRegs
    <3> QED BY <3>2, CheckedIs DEF RequestType
  <2> QED BY <2>1, <2>2
<1>2. Executed(f, Written(r, f))
  BY <1>1, WriteExecutes DEF RequestType, Writes, IsBits, ReadCoils, ReadInputs,
     WriteCoils, WriteRegs
<1>3. SimpleSlave(me, r, f).regs = Written(r, f)
  <2>1. a.regs = Written(r, f)
    BY AnswerIs DEF SimpleWrite
  <2>2. \/ SimpleSlave(me, r, f) = Checked(me, r, f, a)
        \/ SimpleSlave(me, r, f) = Nothing(Checked(me, r, f, a).regs)
    <3>1. CASE f.id = me
      BY <1>0, <3>1, SimpleCases
    <3>2. CASE f.id = 0
      BY <1>0, <3>2, SimpleCases
    <3> QED BY <3>1, <3>2
  <2>3. SimpleSlave(me, r, f) = a \/ SimpleSlave(me, r, f) = Nothing(a.regs)
    BY <1>1, <2>2
  <2> HIDE DEF a
  <2> QED BY <2>1, <2>3, AnswerIs
<1> QED BY <1>2, <1>3

LEMMA SimpleServes ==
  ASSUME NEW me, me # 0, NEW r, NEW f, RequestType(f), NEW n \in Nat,
         DOMAIN r = 0..(n - 1), f.id = me, f.fn \in {ReadHolding, WriteRegs},
         FitsIn(f, r), f.fn = ReadHolding => f.num <= 61
  PROVE  \E g : SimpleSlave(me, r, f).reply = <<g>> /\ Fitting(f, g)
<1> USE DEF Fitting, ReadHolding, WriteRegs
<1>0. RequestFits(f)
  BY DEF RequestType
<1>1. CASE f.fn = ReadHolding
  <2> DEFINE data == [i \in 1..f.num |-> r[f.addr + i - 1]]
             g == Frame(me, f.fn, 0, 0, data)
  <2>1. Len(data) = f.num
    BY DEF RequestType
  <2>2. g.fn = f.fn /\ g.data = data
    BY FrameIs
  <2> HIDE DEF data, g
  <2>7. ReplyFits(g)
    <3>1. ~IsBits(g.fn)
      BY <1>1, <2>2 DEF IsBits, ReadCoils, ReadInputs, WriteCoils
    <3>2. f.num \in 0..61
      <4>1. f.num \in Nat
        BY DEF RequestType
      <4>2. f.num <= 61
        BY <1>1
      <4> QED BY ONLY <4>1, <4>2
    <3>3. Len(g.data) \in 0..61
      BY <2>1, <2>2, <3>2, Zenon
    <3> QED BY <3>1, <3>3, WordsFit, Zenon
  <2>3. Fitting(f, g)
    BY <1>1, <2>1, <2>2, <2>7 DEF ReplyFits, InBuffer
  <2>4. Checked(me, r, f, SimpleRead(me, r, f)) = SimpleRead(me, r, f)
    BY FitsIsChecked DEF FitsIn, RequestType
  <2>5. SimpleSlave(me, r, f) = SimpleRead(me, r, f)
    BY <1>0, <1>1, <2>4, SimpleCases
  <2>6. SimpleRead(me, r, f).reply = <<g>>
    BY AnswerIs DEF SimpleRead, g, data
  <2> QED BY <2>3, <2>5, <2>6
<1>2. CASE f.fn = WriteRegs
  <2> DEFINE g == Frame(me, f.fn, f.addr, f.num, <<>>)
  <2>1. Fitting(f, g)
    BY <1>2, FrameIs, EchoFits
  <2>2. SimpleSlave(me, r, f) = SimpleWrite(me, r, f)
    BY <1>0, <1>2, SimpleCases, FitsIsChecked DEF FitsIn, RequestType
  <2> QED BY <2>1, <2>2, AnswerIs DEF SimpleWrite
<1> QED BY <1>1, <1>2
-----------------------------------------------------------------------------
(* ModbusSerial: what is kept and answered by the three shapes its eight    *)
(* functions have.                                                          *)

LEMMA BankReadAnswers ==
  ASSUME NEW me, NEW r, NEW f, NEW room, f.fn \in 1..127,
         NEW most, NEW kind, NEW data
  PROVE  /\ Keeps(BankRead(me, r, f, room, most, kind, data), r)
         /\ Answered(BankRead(me, r, f, room, most, kind, data), me, f.fn)
<1>1. /\ Answered(Refuse(r, me, f.fn, IllegalValue), me, f.fn)
      /\ Answered(Refuse(r, me, ReadCoils, IllegalAddress), me, f.fn)
  <2>1. Answered(Refuse(r, me, ReadCoils, IllegalAddress), me, f.fn)
    <3> DEFINE g == Frame(me, ReadCoils + 128, 0, IllegalAddress, <<>>)
    <3>1. g.id = me /\ g.fn \in Int /\ g.fn >= 128
      BY FrameIs DEF ReadCoils
    <3> QED BY <3>1, RefuseIs DEF Answered
  <2> QED BY <2>1, Refuses
<1>2. Answered(Answer(r, Frame(me, f.fn, 0, 0, data)), me, f.fn)
  BY AnswerAnswers
<1>3. Keeps(Answer(r, Frame(me, f.fn, 0, 0, data)), r)
  BY AnswerIs DEF Keeps
<1>4. LET a == BankRead(me, r, f, room, most, kind, data)
      IN  \/ a = Answer(r, Frame(me, f.fn, 0, 0, data))
          \/ a = Refuse(r, me, ReadCoils, IllegalAddress)
          \/ \E code : a = Refuse(r, me, f.fn, code)
  BY DEF BankRead, Built
<1> QED BY <1>1, <1>2, <1>3, <1>4, RefuseKeeps, Refuses

LEMMA BankWriteAnswers ==
  ASSUME NEW me, NEW r, NEW f, NEW room, f.fn \in 1..127,
         NEW most, NEW kind
  PROVE  /\ Keeps(BankWrite(me, r, f, room, most, kind), r)
         /\ Answered(BankWrite(me, r, f, room, most, kind), me, f.fn)
<1> DEFINE block == {At(kind, f.addr + k) : k \in 0..(f.num - 1)}
           after == [a \in DOMAIN r |-> IF a \in block THEN Junk ELSE r[a]]
           g == Frame(me, f.fn, f.addr, f.num, <<>>)
<1>1. \/ BankWrite(me, r, f, room, most, kind) = Answer(after, g)
      \/ \E code : BankWrite(me, r, f, room, most, kind) = Refuse(r, me, f.fn, code)
  BY DEF BankWrite, Built
<1>2. Answered(Answer(after, g), me, f.fn)
  BY AnswerAnswers
<1>3. Keeps(Answer(after, g), r)
  BY AnswerIs DEF Keeps
<1> QED BY <1>1, <1>2, <1>3, RefuseKeeps, Refuses

LEMMA BankWriteOneAnswers ==
  ASSUME NEW me, NEW r, NEW f, f.fn \in 1..127, f.id = me, NEW a, NEW value
  PROVE  /\ Keeps(BankWriteOne(me, r, f, a, value), r)
         /\ Answered(BankWriteOne(me, r, f, a, value), me, f.fn)
<1>1. Answered(Answer([r EXCEPT ![a] = value], f), me, f.fn)
  <2>1. Answer([r EXCEPT ![a] = value], f).reply = <<f>>
    BY AnswerIs
  <2>2. f.fn \in Int
    OBVIOUS
  <2> QED BY <2>1, <2>2, Zenon DEF Answered
<1>2. Keeps(Answer([r EXCEPT ![a] = value], f), r)
  BY AnswerIs DEF Keeps
<1> QED BY <1>1, <1>2, RefuseKeeps, Refuses DEF BankWriteOne

LEMMA PDUAnswers ==
  ASSUME NEW me, NEW r, NEW f, NEW room, f.fn \in 1..127, f.id = me
  PROVE  /\ Keeps(receivePDU(me, r, f, room), r)
         /\ Answered(receivePDU(me, r, f, room), me, f.fn)
<1> DEFINE Right(a) == Keeps(a, r) /\ Answered(a, me, f.fn)
<1>1. /\ Right(readRegisters(me, r, f, room))
      /\ Right(readInputRegisters(me, r, f, room))
      /\ Right(readCoils(me, r, f, room))
      /\ Right(readInputStatus(me, r, f, room))
  BY BankReadAnswers DEF readRegisters, readInputRegisters, readCoils,
     readInputStatus
<1>2. /\ Right(writeMultipleRegisters(me, r, f, room))
      /\ Right(writeMultipleCoils(me, r, f, room))
  BY BankWriteAnswers DEF writeMultipleRegisters, writeMultipleCoils
<1>3. \A code : Right(Refuse(r, me, f.fn, code))
  BY RefuseKeeps, Refuses
<1>4. Right(writeSingleRegister(me, r, f)) /\ Right(writeSingleCoil(me, r, f))
  BY <1>3, BankWriteOneAnswers DEF writeSingleRegister, writeSingleCoil
<1> HIDE DEF Right
<1>5. Right(receivePDU(me, r, f, room))
  BY <1>1, <1>2, <1>3, <1>4 DEF receivePDU
<1> QED BY <1>5 DEF Right

\* The registers keep their addresses whoever is addressed: a broadcast is
\* what the station does when it is addressed itself.
LEMMA PDUKeeps ==
  ASSUME NEW me, NEW r, NEW f, NEW room
  PROVE  Keeps(receivePDU(me, r, f, room), r)
<1>1. ASSUME NEW most, NEW kind, NEW data
      PROVE  Keeps(BankRead(me, r, f, room, most, kind, data), r)
  <2>1. Keeps(Answer(r, Frame(me, f.fn, 0, 0, data)), r)
    BY AnswerIs DEF Keeps
  <2> QED BY <2>1, RefuseKeeps DEF BankRead, Built
<1>2. ASSUME NEW most, NEW kind PROVE Keeps(BankWrite(me, r, f, room, most, kind), r)
  <2> DEFINE block == {At(kind, f.addr + k) : k \in 0..(f.num - 1)}
             after == [a \in DOMAIN r |-> IF a \in block THEN Junk ELSE r[a]]
             g == Frame(me, f.fn, f.addr, f.num, <<>>)
  <2>1. \/ BankWrite(me, r, f, room, most, kind) = Answer(after, g)
        \/ \E code : BankWrite(me, r, f, room, most, kind) = Refuse(r, me, f.fn, code)
    BY DEF BankWrite, Built
  <2>2. Keeps(Answer(after, g), r)
    BY AnswerIs DEF Keeps
  <2> QED BY <2>1, <2>2, RefuseKeeps
<1>3. ASSUME NEW a, NEW value PROVE Keeps(BankWriteOne(me, r, f, a, value), r)
  <2>1. Keeps(Answer([r EXCEPT ![a] = value], f), r)
    BY AnswerIs DEF Keeps
  <2> QED BY <2>1, RefuseKeeps DEF BankWriteOne
<1>4. /\ Keeps(readRegisters(me, r, f, room), r)
      /\ Keeps(readInputRegisters(me, r, f, room), r)
      /\ Keeps(readCoils(me, r, f, room), r)
      /\ Keeps(readInputStatus(me, r, f, room), r)
  BY <1>1 DEF readRegisters, readInputRegisters, readCoils, readInputStatus
<1>5. /\ Keeps(writeMultipleRegisters(me, r, f, room), r)
      /\ Keeps(writeMultipleCoils(me, r, f, room), r)
  BY <1>2 DEF writeMultipleRegisters, writeMultipleCoils
<1>6. /\ Keeps(writeSingleRegister(me, r, f), r)
      /\ Keeps(writeSingleCoil(me, r, f), r)
  BY <1>3, RefuseKeeps DEF writeSingleRegister, writeSingleCoil
<1> QED BY <1>4, <1>5, <1>6, RefuseKeeps DEF receivePDU

LEMMA BankKeeps ==
  ASSUME NEW me, NEW r, NEW f, NEW room
  PROVE  Keeps(BankSlave(me, r, f, room), r)
<1>1. Keeps(Nothing(receivePDU(me, r, f, room).regs), r)
  BY PDUKeeps, AnswerIs DEF Keeps
<1> QED BY <1>1, PDUKeeps, NothingKeeps DEF BankSlave

LEMMA BankIsSilent ==
  ASSUME NEW me, NEW r, NEW f, NEW room, f.id # me
  PROVE  BankSlave(me, r, f, room).reply = <<>>
<1>1. \E any : BankSlave(me, r, f, room) = Nothing(any)
  BY DEF BankSlave
<1> QED BY <1>1, AnswerIs

LEMMA BankAnswers ==
  ASSUME NEW me, NEW r, NEW f, NEW room, f.id = me, me # 255, f.fn \in 1..127
  PROVE  Answered(BankSlave(me, r, f, room), me, f.fn)
BY PDUAnswers DEF BankSlave

\* A reading or writing of no more registers than a frame holds, or of no
\* more coils than fit in seven bits, is answered as processReply() wants it.
BankFits(f, r) ==
    \/ /\ f.fn \in {ReadHolding, WriteRegs} /\ f.num \in 1..61
       /\ \A k \in 0..(f.num - 1) : At(Hregs, f.addr + k) \in DOMAIN r
    \/ /\ f.fn \in {ReadCoils, WriteCoils} /\ f.num \in 1..7
       /\ \A k \in 0..(f.num - 1) : At(Coils, f.addr + k) \in DOMAIN r

HasRoom(room) == room = TRUE

LEMMA SevenBits ==
  ASSUME NEW num \in 1..7
  PROVE  MasterOctets(num) = 1 /\ (num + 7) \div 8 = 1
<1>1. num \div 16 = 0 /\ num % 16 = num
  OBVIOUS
<1>2. (num + 7) \div 8 = 1
  OBVIOUS
<1> QED BY <1>1, <1>2 DEF MasterOctets

LEMMA BankServes ==
  ASSUME NEW me, NEW r, NEW f, NEW room, HasRoom(room),
         f.id = me, me # 255, RequestType(f), BankFits(f, r)
  PROVE  \E g : BankSlave(me, r, f, room).reply = <<g>> /\ Fitting(f, g)
<1> USE DEF ReadHolding, WriteRegs, ReadCoils, WriteCoils, WriteReg, ReadInputs,
            WriteCoil, ReadInputRegs
<1>1. BankSlave(me, r, f, room) = receivePDU(me, r, f, room)
  BY DEF BankSlave
<1>2. CASE f.fn = ReadHolding
  <2> DEFINE data == Words(r, f, Hregs)
             g == Frame(me, f.fn, 0, 0, data)
  <2>1. f.num \in 1..125 /\ At(Hregs, f.addr) \in DOMAIN r
    <3>1. /\ f.num \in 1..61
          /\ \A k \in 0..(f.num - 1) : At(Hregs, f.addr + k) \in DOMAIN r
      BY <1>2 DEF BankFits
    <3>2. 0 \in 0..(f.num - 1)
      BY <3>1
    <3>3. f.addr + 0 = f.addr
      BY DEF RequestType
    <3> QED BY <3>1, <3>2, <3>3
  <2>2. Len(data) = f.num
    BY DEF RequestType, Words
  <2>3. g.fn = f.fn /\ g.data = data
    BY FrameIs
  <2>4. receivePDU(me, r, f, room) = Answer(r, g)
    BY <1>2, <2>1 DEF receivePDU, readRegisters, BankRead, Built, HasRoom
  <2> HIDE DEF data, g
  <2>6. ReplyFits(g)
    <3>1. ~IsBits(g.fn)
      BY <1>2, <2>3 DEF IsBits
    <3>2. f.num \in 0..61
      <4>1. f.num \in 1..61
        BY <1>2 DEF BankFits
      <4> QED BY ONLY <4>1
    <3>3. Len(g.data) \in 0..61
      BY <2>2, <2>3, <3>2, Zenon
    <3> QED BY <3>1, <3>3, WordsFit, Zenon
  <2>5. Fitting(f, g)
    BY <1>2, <2>2, <2>3, <2>6 DEF Fitting, ReplyFits, InBuffer
  <2> QED BY <1>1, <2>4, <2>5, AnswerIs
<1>3. CASE f.fn = ReadCoils
  <2> DEFINE data == Bits(r, f, Coils)
             g == Frame(me, f.fn, 0, 0, data)
  <2>1. f.num \in 1..7 /\ At(Coils, f.addr) \in DOMAIN r
    <3>1. /\ f.num \in 1..7
          /\ \A k \in 0..(f.num - 1) : At(Coils, f.addr + k) \in DOMAIN r
      BY <1>3 DEF BankFits
    <3>2. 0 \in 0..(f.num - 1)
      BY <3>1
    <3>3. f.addr + 0 = f.addr
      BY DEF RequestType
    <3> QED BY <3>1, <3>2, <3>3
  <2>2. Len(data) = 8
    <3>1. 8 * ((f.num + 7) \div 8) = 8
      BY <2>1, SevenBits
    <3> QED BY <3>1 DEF Bits, Packed
  <2>3. g.fn = f.fn /\ g.data = data
    BY FrameIs
  <2>4. receivePDU(me, r, f, room) = Answer(r, g)
    BY <1>3, <2>1 DEF receivePDU, readCoils, BankRead, Built, HasRoom
  <2> HIDE DEF data, g
  <2>5. Octets(g.fn, g.data) = MasterOctets(f.num)
    <3>1. IsBits(g.fn)
      BY <1>3, <2>3 DEF IsBits
    <3>2. Octets(g.fn, g.data) = 8 \div 8
      BY <2>2, <2>3, <3>1 DEF Octets
    <3> QED BY <2>1, <3>2, SevenBits
  <2>6. ReplyFits(g)
    BY <2>1, <2>5, SevenBits DEF ReplyFits, InBuffer, BufferSize
  <2>7. Fitting(f, g)
    BY <1>3, <2>3, <2>5, <2>6 DEF Fitting, ReplyFits, InBuffer
  <2> QED BY <1>1, <2>4, <2>7, AnswerIs
<1>4. ASSUME NEW most \in Nat, NEW kind, f.num \in 1..most,
             Octets(f.fn, f.data) = IF IsBits(f.fn) THEN (f.num + 7) \div 8
                                                   ELSE 2 * f.num,
             \A k \in 0..(f.num - 1) : At(kind, f.addr + k) \in DOMAIN r
      PROVE  \E any : BankWrite(me, r, f, room, most, kind)
                        = Answer(any, Frame(me, f.fn, f.addr, f.num, <<>>))
  <2> DEFINE block == {At(kind, f.addr + k) : k \in 0..(f.num - 1)}
  <2>1. block \subseteq DOMAIN r
    BY <1>4
  <2> QED BY <1>4, <2>1 DEF BankWrite, Built, HasRoom
<1> DEFINE echo == Frame(me, f.fn, f.addr, f.num, <<>>)
<1>5. ASSUME f.fn \in {WriteRegs, WriteCoils} PROVE Fitting(f, echo)
  <2>1. /\ echo.fn = f.fn /\ echo.addr = f.addr /\ echo.num = f.num
        /\ ReplyFits(echo)
    BY FrameIs, EchoFits
  <2> HIDE DEF echo
  <2> QED BY <1>5, <2>1 DEF Fitting, ReplyFits, InBuffer
<1> HIDE DEF echo
<1>6. CASE f.fn = WriteRegs
  <2>1. receivePDU(me, r, f, room) = BankWrite(me, r, f, room, 123, Hregs)
    BY <1>6 DEF receivePDU, writeMultipleRegisters
  <2>2. Octets(f.fn, f.data) = IF IsBits(f.fn) THEN (f.num + 7) \div 8
                                               ELSE 2 * f.num
    BY <1>6 DEF Octets, IsBits, RequestType, Writes
  <2>3. /\ f.num \in 1..123
        /\ \A k \in 0..(f.num - 1) : At(Hregs, f.addr + k) \in DOMAIN r
    BY <1>6 DEF BankFits
  <2>4. PICK any : BankWrite(me, r, f, room, 123, Hregs) = Answer(any, echo)
    BY <1>4, <2>2, <2>3 DEF echo
  <2>5. BankSlave(me, r, f, room).reply = <<echo>>
    BY <1>1, <2>1, <2>4, AnswerIs
  <2>6. Fitting(f, echo)
    BY <1>5, <1>6
  <2> QED BY <2>5, <2>6
<1>7. CASE f.fn = WriteCoils
  <2>0. PICK most \in Nat : most = 1968
    OBVIOUS
  <2>1. receivePDU(me, r, f, room) = BankWrite(me, r, f, room, most, Coils)
    BY <1>7, <2>0 DEF receivePDU, writeMultipleCoils
  <2>2. /\ f.num \in 1..7
        /\ \A k \in 0..(f.num - 1) : At(Coils, f.addr + k) \in DOMAIN r
    BY <1>7 DEF BankFits
  <2>3. Len(f.data) = 8
    <3>1. MasterOctets(f.num) = 1
      BY <2>2, SevenBits
    <3>2. IsBits(f.fn) /\ Writes(f.fn)
      BY <1>7 DEF IsBits, Writes
    <3> QED BY <3>1, <3>2 DEF RequestType
  <2>4. Octets(f.fn, f.data) = IF IsBits(f.fn) THEN (f.num + 7) \div 8
                                               ELSE 2 * f.num
    BY <1>7, <2>2, <2>3, SevenBits DEF Octets, IsBits
  <2>5. f.num \in 1..most
    BY <2>0, <2>2
  <2>6. PICK any : BankWrite(me, r, f, room, most, Coils) = Answer(any, echo)
    BY <1>4, <2>2, <2>4, <2>5 DEF echo
  <2>7. BankSlave(me, r, f, room).reply = <<echo>>
    BY <1>1, <2>1, <2>6, AnswerIs
  <2>8. Fitting(f, echo)
    BY <1>5, <1>7
  <2> QED BY <2>7, <2>8
<1> QED BY <1>2, <1>3, <1>6, <1>7 DEF BankFits
-----------------------------------------------------------------------------
(* What a slave does with a frame, whichever of the two it is.              *)

SlaveAnswer(s, r, f, room) ==
    IF f = Garbage THEN Nothing(r)
    ELSE IF s \in SimpleSlaves THEN SimpleSlave(s, r, f)
         ELSE BankSlave(s, r, f, room)

\* The frame f asks for what slave s has from the start.
Has(s, f) == IF s \in SimpleSlaves
             THEN /\ f.fn \in {ReadHolding, WriteRegs} /\ FitsIn(f, Setup[s])
                  /\ f.fn = ReadHolding => f.num <= 61
             ELSE BankFits(f, Setup[s])

LEMMA SlaveNumber ==
  ASSUME NEW s \in Slave PROVE s \in 1..254 /\ s # 0 /\ s # 255 /\ s # -1
BY SlaveAssumption

LEMMA ArrayIs ==
  ASSUME NEW s \in SimpleSlaves
  PROVE  Size(Setup[s]) \in Nat /\ DOMAIN Setup[s] = 0..(Size(Setup[s]) - 1)
BY SlaveAssumption

LEMMA SlaveKeeps ==
  ASSUME NEW s \in Slave, NEW r, NEW f, NEW room
  PROVE  Keeps(SlaveAnswer(s, r, f, room), r)
BY SlaveNumber, NothingKeeps, SimpleKeeps, BankKeeps DEF SlaveAnswer

LEMMA SlaveIsSilent ==
  ASSUME NEW s \in Slave, NEW r, NEW f, NEW room, f.id # s
  PROVE  SlaveAnswer(s, r, f, room).reply = <<>>
<1>1. CASE f = Garbage
  BY <1>1, AnswerIs DEF SlaveAnswer
<1>2. CASE f # Garbage
  BY <1>2, SlaveNumber, SimpleIsSilent, BankIsSilent DEF SlaveAnswer
<1> QED BY <1>1, <1>2

LEMMA GarbageIs == Garbage.id = -1
BY FrameIs DEF Garbage

LEMMA SlaveAnswers ==
  ASSUME NEW s \in Slave, NEW r, NEW f, NEW room, f.id = s, f.fn \in 1..127,
         RequestFits(f)
  PROVE  Answered(SlaveAnswer(s, r, f, room), s, f.fn)
<1>1. f # Garbage
  BY SlaveNumber, GarbageIs
<1> QED BY <1>1, SlaveNumber, SimpleAnswers, BankAnswers DEF SlaveAnswer

LEMMA SlaveServes ==
  ASSUME NEW s \in Slave, NEW r, DOMAIN r = DOMAIN Setup[s], NEW f,
         NEW room, HasRoom(room), f.id = s,
         RequestType(f), Has(s, f)
  PROVE  \E g : SlaveAnswer(s, r, f, room).reply = <<g>> /\ Fitting(f, g)
<1>1. f # Garbage
  BY SlaveNumber, GarbageIs
<1>2. CASE s \in SimpleSlaves
  <2>1. SlaveAnswer(s, r, f, room) = SimpleSlave(s, r, f)
    BY <1>1, <1>2 DEF SlaveAnswer
  <2>2. Size(Setup[s]) \in Nat /\ DOMAIN r = 0..(Size(Setup[s]) - 1)
    BY <1>2, ArrayIs
  <2>0. f.fn = ReadHolding => f.num <= 61
    BY <1>2 DEF Has
  <2>3. f.fn \in {ReadHolding, WriteRegs} /\ FitsIn(f, r)
    BY <1>2 DEF Has, FitsIn, Size
  <2>4. s # 0
    BY SlaveNumber
  <2>5. \E g : SimpleSlave(s, r, f).reply = <<g>> /\ Fitting(f, g)
    BY ONLY f.id = s, RequestType(f), <2>0, <2>2, <2>3, <2>4, SimpleServes
  <2> QED BY <2>1, <2>5
<1>3. CASE s \notin SimpleSlaves
  <2>1. SlaveAnswer(s, r, f, room) = BankSlave(s, r, f, room)
    BY <1>1, <1>3 DEF SlaveAnswer
  <2>2. BankFits(f, r)
    BY <1>3 DEF Has, BankFits
  <2>3. \E g : BankSlave(s, r, f, room).reply = <<g>> /\ Fitting(f, g)
    BY <2>2, SlaveNumber, BankServes
  <2> QED BY <2>1, <2>3
<1> QED BY <1>2, <1>3

\* A SimpleModbusSlave that reports a write as done has done it, and so it
\* has with a broadcast that fits its registers.
LEMMA SlaveExecutes ==
  ASSUME NEW s \in SimpleSlaves, NEW r, DOMAIN r = DOMAIN Setup[s], NEW f, NEW room,
         RequestType(f), Writes(f.fn),
         \/ /\ f.id = s
            /\ \E g : SlaveAnswer(s, r, f, room).reply = <<g>> /\ g.fn = f.fn
         \/ f.id = 0 /\ f.fn = WriteRegs /\ FitsIn(f, Setup[s])
  PROVE  Executed(f, SlaveAnswer(s, r, f, room).regs)
<1>1. s \in Slave /\ s # 0
  BY SlaveNumber DEF Slave
<1>2. f # Garbage
  BY <1>1, SlaveNumber, GarbageIs
<1>3. SlaveAnswer(s, r, f, room) = SimpleSlave(s, r, f)
  BY <1>2 DEF SlaveAnswer
<1>4. Size(Setup[s]) \in Nat /\ DOMAIN r = 0..(Size(Setup[s]) - 1)
  BY ArrayIs
<1>5. FitsIn(f, Setup[s]) => FitsIn(f, r)
  BY DEF FitsIn, Size
<1>6. f.fn = WriteRegs
  <2> SUFFICES ASSUME f.fn # WriteRegs PROVE FALSE
    OBVIOUS
  <2>1. PICK g : SimpleSlave(s, r, f).reply = <<g>> /\ g.fn = f.fn
    BY <1>3
  <2>2. f.id = s /\ f.fn \notin {ReadHolding, WriteRegs}
    BY DEF Writes, ReadHolding, WriteRegs, WriteCoils
  <2>3. SimpleSlave(s, r, f) = Refuse(r, s, f.fn, IllegalFunction)
    BY <1>1, <2>2, SimpleCases DEF RequestType
  <2>4. <<g>> = <<Frame(s, f.fn + 128, 0, IllegalFunction, <<>>)>>
    BY <2>1, <2>3, RefuseIs
  <2>5. g = Frame(s, f.fn + 128, 0, IllegalFunction, <<>>)
    BY <2>4
  <2>6. g.fn = f.fn + 128
    BY <2>5, FrameIs
  <2>7. f.fn \in 1..127
    BY DEF RequestType
  <2> QED BY <2>1, <2>6, <2>7
<1>7. Executed(f, SimpleSlave(s, r, f).regs)
  BY <1>1, <1>3, <1>4, <1>5, <1>6, SimpleExecutes
<1> QED BY <1>3, <1>7
-----------------------------------------------------------------------------
(* The line.                                                                *)

AtMostOne(q) == q = <<>> \/ \E f : q = <<f>>

LEMMA HeardIs ==
  ASSUME NEW q, NEW f
  PROVE  /\ q = <<>> => Heard(q, f) = <<f>>
         /\ Heard(q, f) \in {<<f>>, <<Garbage>>}
         /\ AtMostOne(Heard(q, f))
BY DEF Heard, AtMostOne

LEMMA SendIs ==
  ASSUME NEW from, NEW f, NEW ports
  PROVE  /\ DOMAIN Send(from, f, ports) = Station
         /\ \A st \in Station : Send(from, f, ports)[st] =
               IF st = from THEN ports[st] ELSE Heard(ports[st], f)
BY DEF Send

LEMMA OneIs ==
  ASSUME NEW f PROVE <<f>> # <<>> /\ <<f>>[1] = f /\ Head(<<f>>) = f
OBVIOUS

\* The packets' fields and counters.
IsRecord(k) ==
    DOMAIN k = {"connection", "retries", "requests", "successful", "failed",
                "exceptions", "array"}

LEMMA ErrorIs ==
  ASSUME NEW k, IsRecord(k)
  PROVE  /\ IsRecord(ProcessError(k))
         /\ ProcessError(k).successful = k.successful
         /\ ProcessError(k).array = k.array
BY DEF IsRecord, ProcessError

LEMMA SuccessIs ==
  ASSUME NEW k, IsRecord(k)
  PROVE  /\ IsRecord(ProcessSuccess(k))
         /\ ProcessSuccess(k).failed = k.failed
         /\ ProcessSuccess(k).array = k.array
BY DEF IsRecord, ProcessSuccess

LEMMA FieldsAre ==
  ASSUME NEW k, IsRecord(k), NEW v
  PROVE  /\ LET x == [k EXCEPT !.array = v]
            IN  /\ IsRecord(x) /\ x.array = v
                /\ x.successful = k.successful /\ x.failed = k.failed
         /\ LET x == [k EXCEPT !.requests = v]
            IN  /\ IsRecord(x) /\ x.array = k.array
                /\ x.successful = k.successful /\ x.failed = k.failed
         /\ LET x == [k EXCEPT !.exceptions = v]
            IN  /\ IsRecord(x) /\ x.array = k.array
                /\ x.successful = k.successful /\ x.failed = k.failed
         /\ LET x == [k EXCEPT !.connection = v]
            IN  /\ IsRecord(x) /\ x.array = k.array
                /\ x.successful = k.successful /\ x.failed = k.failed
BY DEF IsRecord
\* The cases of processReply().
InBits(j, f) == f.fn \in {ReadCoils, ReadInputs}
                /\ Octets(f.fn, f.data) = MasterOctets(j.num)
InWords(j, f) == f.fn \in {ReadHolding, ReadInputRegs} /\ Len(f.data) = j.num
InEcho(j, f) == f.fn \in {WriteCoils, WriteRegs}
                /\ f.addr = j.addr /\ f.num = j.num

LEMMA ReplyCases ==
  ASSUME NEW j, NEW k, NEW f
  PROVE  \/ /\ f.fn >= 128
            /\ ProcessReply(j, k, f)
                  = ProcessError([k EXCEPT !.exceptions = Up(k.exceptions)])
         \/ /\ InBits(j, f) \/ InWords(j, f)
            /\ ProcessReply(j, k, f) = ProcessSuccess(Store(j, k, f))
         \/ InEcho(j, f) /\ ProcessReply(j, k, f) = ProcessSuccess(k)
         \/ /\ ~(f.fn >= 128) /\ ~InBits(j, f) /\ ~InWords(j, f) /\ ~InEcho(j, f)
            /\ ProcessReply(j, k, f) = ProcessError(k)
BY DEF ProcessReply, InBits, InWords, InEcho, ReadCoils, ReadInputs, ReadHolding,
   ReadInputRegs, WriteCoils, WriteRegs

LEMMA StoreIs ==
  ASSUME NEW j, NEW k, IsRecord(k), NEW f
  PROVE  /\ IsRecord(Store(j, k, f))
         /\ Store(j, k, f).successful = k.successful
         /\ Store(j, k, f).failed = k.failed
BY DEF Store, IsRecord

LEMMA StoredIs ==
  ASSUME NEW j, NEW k, IsRecord(k), NEW f, f.fn = j.fn
  PROVE  Store(j, k, f).array = f.data
BY DEF Store, IsRecord

\* What processReply() makes of the packet's fields k.
Outcome(j, k, f, new) ==
    /\ IsRecord(new)
    /\ Writes(j.fn) /\ (f.fn = j.fn \/ f.fn >= 128) => new.array = k.array
    /\ Fitting(j, f) => new.failed = k.failed
    /\ new.successful # k.successful =>
          /\ ~(f.fn >= 128)
          /\ f.fn = j.fn => Writes(j.fn) \/ new.array = f.data

LEMMA ReplyIs ==
  ASSUME NEW j, j.fn \in 1..127, NEW k, IsRecord(k), NEW f
  PROVE  Outcome(j, k, f, ProcessReply(j, k, f))
<1>. PICK new : new = ProcessReply(j, k, f)
  OBVIOUS
<1> SUFFICES Outcome(j, k, f, new)
  OBVIOUS
<1> DEFINE noted == [k EXCEPT !.exceptions = Up(k.exceptions)]
<1> USE DEF Outcome
<1>1. CASE f.fn >= 128 /\ new = ProcessError(noted)
  <2>1. IsRecord(noted) /\ noted.array = k.array /\ noted.successful = k.successful
    BY FieldsAre
  <2> HIDE DEF noted
  <2>2. IsRecord(new) /\ new.successful = k.successful /\ new.array = k.array
    BY <1>1, <2>1, ErrorIs
  <2>3. ~Fitting(j, f)
    <3>1. f.fn # j.fn
      BY <1>1
    <3> QED BY <3>1 DEF Fitting
  <2> QED BY <2>2, <2>3
<1>2. CASE /\ InBits(j, f) \/ InWords(j, f)
           /\ new = ProcessSuccess(Store(j, k, f))
  <2>1. PICK y : y = Store(j, k, f)
    OBVIOUS
  <2>2. IsRecord(y) /\ y.failed = k.failed
    BY <2>1, StoreIs
  <2>3. ASSUME f.fn = j.fn PROVE y.array = f.data
    BY <2>1, <2>3, StoredIs
  <2>4. new = ProcessSuccess(y)
    BY <1>2, <2>1
  <2>5. IsRecord(new) /\ new.failed = k.failed /\ new.array = y.array
    BY <2>2, <2>4, SuccessIs
  <2>6. /\ ~(f.fn >= 128)
        /\ ~(Writes(j.fn) /\ (f.fn = j.fn \/ f.fn >= 128))
    BY <1>2 DEF InBits, InWords, Writes, ReadCoils, ReadInputs, ReadHolding,
       ReadInputRegs, WriteCoils, WriteRegs
  <2> QED BY <2>3, <2>5, <2>6
<1>3. CASE InEcho(j, f) /\ new = ProcessSuccess(k)
  <2>1. IsRecord(new) /\ new.failed = k.failed /\ new.array = k.array
    BY <1>3, SuccessIs
  <2>2. ~(f.fn >= 128) /\ Writes(f.fn)
    BY <1>3 DEF InEcho, Writes, WriteCoils, WriteRegs
  <2> QED BY <2>1, <2>2
<1>4. CASE /\ ~(f.fn >= 128) /\ ~InBits(j, f) /\ ~InWords(j, f) /\ ~InEcho(j, f)
           /\ new = ProcessError(k)
  <2>1. IsRecord(new) /\ new.successful = k.successful /\ new.array = k.array
    BY <1>4, ErrorIs
  <2>2. ~Fitting(j, f)
    BY <1>4 DEF Fitting, InBits, InWords, InEcho
  <2> QED BY <2>1, <2>2
<1> QED BY <1>1, <1>2, <1>3, <1>4, ReplyCases
-----------------------------------------------------------------------------
(* The inductive invariant.  While answers are prompt only the station that *)
(* was asked may still answer, and what the master hears is its answer.     *)

\* A frame in one of the ports: a request of packet j, one that its reader
\* does not answer, and an answer that was given to packet p.
AskOf(j, f) ==
    \E data : /\ f = Frame(j.id, j.fn, j.addr, j.num, data)
              /\ Len(data) = IF Writes(j.fn) THEN ArraySize(j) ELSE 0
AskIn(j, q) == \E f : q = <<f>> /\ AskOf(j, f)
SilentIn(s, q) == \A f : q = <<f>> => f.id # s
ReplyTo(p, given, r) ==
    /\ r.id = job[p].id /\ r.fn \in Int /\ (r.fn = job[p].fn \/ r.fn >= 128)
    /\ \E x \in given :
          /\ x[1] = job[p].id /\ x[2] = <<r>>
          /\ r.fn = job[p].fn /\ Writes(r.fn) /\ job[p].id \in SimpleSlaves => x[3]
ReplyIn(p, given, q) == \E r : q = <<r>> /\ ReplyTo(p, given, r)
ServedIn(p, given, q) ==
    \E r : q = <<r>> /\ ReplyTo(p, given, r) /\ Fitting(job[p], r)

Types ==
    /\ job \in Jobs
    /\ state \in {"idle", "reply", "turnaround"}
    /\ state # "idle" => cur \in Packet
    /\ DOMAIN pk = Packet /\ \A p \in Packet : IsRecord(pk[p])
    /\ DOMAIN regs = Slave
    /\ \A s \in Slave : DOMAIN regs[s] = DOMAIN Setup[s]
    /\ DOMAIN port = Station /\ \A st \in Station : AtMostOne(port[st])

\* What a packet writes keeps its length.
Arrays ==
    prompt => \A p \in Packet : Writes(job[p].fn)
                                  => Len(pk[p].array) = ArraySize(job[p])

\* Nothing is left of an exchange when the next begins; in one, as long as
\* the master has not heard anything only the slave that is asked may
\* answer, and after that nobody.
Line ==
    prompt =>
      /\ state = "idle" => \A st \in Station : port[st] = <<>>
      /\ state = "turnaround" => /\ port[Master] = <<>>
                                 /\ \A s \in Slave : SilentIn(s, port[s])
      /\ state = "reply" =>
           /\ job[cur].id # 0
           /\ \/ /\ port[Master] = <<>>
                 /\ \A s \in Slave : \/ SilentIn(s, port[s])
                                     \/ /\ s = job[cur].id
                                        /\ AskIn(job[cur], port[s])
              \/ /\ \A s \in Slave : SilentIn(s, port[s])
                 /\ \/ port[Master] \in {<<>>, <<Garbage>>}
                    \/ ReplyIn(cur, served, port[Master])

\* While nothing is disturbed the request is where it was sent, or an answer
\* is that processReply() takes for a success.
Exchange ==
    prompt /\ ~hurt /\ state = "reply" /\ Supported(cur) =>
      \/ port[Master] = <<>> /\ AskIn(job[cur], port[job[cur].id])
      \/ ServedIn(cur, served, port[Master])

\* So it is with a broadcast.
Spreading ==
    prompt /\ ~hurt /\ state = "turnaround" /\ job[cur].id = 0 /\ Supported(cur) =>
      \A s \in SimpleSlaves : \/ <<s, <<>>, TRUE>> \in served
                              \/ AskIn(job[cur], port[s])

BusInv == Types /\ Arrays /\ Line /\ Exchange /\ Spreading
-----------------------------------------------------------------------------
LEMMA FramesAreThere ==
  ASSUME NEW q
  PROVE  /\ \A j : AskIn(j, q) => q # <<>>
         /\ \A p, given : ServedIn(p, given, q) => q # <<>>
BY DEF AskIn, ServedIn

LEMMA PacketIs ==
  ASSUME Types, NEW p \in Packet
  PROVE  /\ job[p].id \in Nat /\ job[p].fn \in 1..127
         /\ job[p].addr \in Nat /\ job[p].num \in Nat
         /\ job[p].addr + job[p].num < 65536
         /\ job[p].fn = WriteRegs => job[p].num <= 59
         /\ job[p].fn = WriteCoils => job[p].num <= 959
BY PacketAssumption DEF Types

LEMMA ASlave ==
  ASSUME Types, NEW p \in Packet, Supported(p), job[p].id # 0
  PROVE  job[p].id \in Slave /\ job[p].id \in Station
BY DEF Supported, Slave, Station

\* A request has the packet's fields, and is what the slave takes it for.
LEMMA AskIs ==
  ASSUME Types, NEW p \in Packet, NEW f, AskOf(job[p], f)
  PROVE  /\ f.id = job[p].id /\ f.fn = job[p].fn
         /\ f.addr = job[p].addr /\ f.num = job[p].num
         /\ RequestType(f)
<1> DEFINE j == job[p]
<1>1. PICK data : /\ f = Frame(j.id, j.fn, j.addr, j.num, data)
                  /\ Len(data) = IF Writes(j.fn) THEN ArraySize(j) ELSE 0
  BY DEF AskOf
<1>2. /\ f.id = j.id /\ f.fn = j.fn /\ f.addr = j.addr /\ f.num = j.num
      /\ f.data = data
  BY <1>1, FrameIs
<1>3. ArraySize(j) = IF IsBits(f.fn) THEN 8 * MasterOctets(f.num) ELSE f.num
  BY <1>2 DEF ArraySize
<1>4. Writes(f.fn) => Len(f.data) = IF IsBits(f.fn) THEN 8 * MasterOctets(f.num)
                                                    ELSE f.num
  BY <1>1, <1>2, <1>3
<1>5. /\ f.fn \in 1..127 /\ f.addr \in Nat /\ f.num \in Nat
      /\ f.addr + f.num < 65536
      /\ f.fn = WriteRegs => f.num <= 59
      /\ f.fn = WriteCoils => f.num <= 959
  BY <1>2, PacketIs
<1> HIDE DEF j
<1>6. Octets(f.fn, f.data) \in 0..119
  <2>1. CASE f.fn = WriteRegs
    <3>1. f.num \in 0..59
      BY <1>5, <2>1
    <3>2. Len(f.data) = f.num
      BY <1>4, <2>1 DEF Writes, IsBits, WriteRegs, ReadCoils, ReadInputs,
         WriteCoils
    <3>3. ~IsBits(f.fn)
      BY <2>1 DEF IsBits, WriteRegs, ReadCoils, ReadInputs, WriteCoils
    <3>4. PICK n \in 0..59 : n = f.num
      BY <3>1
    <3>5. Octets(f.fn, f.data) = 2 * n
      BY <3>2, <3>3, <3>4 DEF Octets
    <3> QED BY <3>5
  <2>2. CASE f.fn = WriteCoils
    <3>1. f.num \in 0..959
      BY <1>5, <2>2
    <3>2. PICK n \in 0..119 : n = MasterOctets(f.num)
      BY <3>1 DEF MasterOctets
    <3>3. Len(f.data) = 8 * n /\ IsBits(f.fn)
      BY <1>4, <2>2, <3>2 DEF Writes, IsBits
    <3>4. (8 * n) \div 8 = n
      OBVIOUS
    <3> QED BY <3>2, <3>3, <3>4 DEF Octets
  <2>3. CASE ~Writes(f.fn)
    <3>1. Len(f.data) = 0
      BY <1>1, <1>2, <2>3
    <3>2. Octets(f.fn, f.data) = 0
      BY <3>1 DEF Octets
    <3> QED BY <3>2
  <2> QED BY <2>1, <2>2, <2>3 DEF Writes
<1>7. RequestFits(f)
  <2>1. PICK n \in 0..119 : n = Octets(f.fn, f.data)
    BY <1>6
  <2>2. 9 + n <= 128
    OBVIOUS
  <2>3. 9 + Octets(f.fn, f.data) <= BufferSize
    BY ONLY <2>1, <2>2 DEF BufferSize
  <2> QED BY <2>3 DEF RequestFits, InBuffer
<1>8. /\ f.fn \in 1..127 /\ f.addr \in Nat /\ f.num \in Nat
      /\ f.addr + f.num < 65536
  BY <1>5
<1>9. RequestType(f)
  BY ONLY <1>4, <1>7, <1>8 DEF RequestType
<1> QED BY <1>2, <1>9 DEF j

LEMMA FittingSame ==
  ASSUME NEW i, NEW j, NEW g, i.fn = j.fn, i.num = j.num, i.addr = j.addr,
         Fitting(i, g)
  PROVE  Fitting(j, g)
BY DEF Fitting

\* What both sides support is what the slave has.
LEMMA SupportedIs ==
  ASSUME Types, NEW p \in Packet, Supported(p), NEW f, AskOf(job[p], f)
  PROVE  /\ job[p].id # 0 => Has(f.id, f)
         /\ job[p].id = 0 => /\ f.fn = WriteRegs
                             /\ \A s \in SimpleSlaves : FitsIn(f, Setup[s])
<1> DEFINE j == job[p]
<1>1. f.id = j.id /\ f.fn = j.fn /\ f.addr = j.addr /\ f.num = j.num
  BY AskIs
<1>0. j.fn = ReadHolding => j.num <= 61
  BY DEF Supported
<1>2. \A s \in SimpleSlaves : s # 0
  BY SlaveNumber DEF Slave
<1>3. CASE /\ j.id = 0 /\ j.fn = WriteRegs
           /\ \A s \in SimpleSlaves :
                j.num > 0 /\ j.addr + j.num <= Size(Setup[s])
  BY <1>1, <1>3 DEF FitsIn
<1>4. CASE /\ j.id \in SimpleSlaves /\ j.fn \in {ReadHolding, WriteRegs}
           /\ j.num > 0 /\ j.addr + j.num <= Size(Setup[j.id])
  BY <1>0, <1>1, <1>2, <1>4 DEF Has, FitsIn
<1>5. CASE /\ j.id \in BankSlaves \ SimpleSlaves
           /\ \/ /\ j.fn \in {ReadHolding, WriteRegs} /\ j.num \in 1..61
                 /\ \A k \in 0..(j.num - 1) :
                        At(Hregs, j.addr + k) \in DOMAIN Setup[j.id]
              \/ /\ j.fn \in {ReadCoils, WriteCoils} /\ j.num \in 1..7
                 /\ \A k \in 0..(j.num - 1) :
                        At(Coils, j.addr + k) \in DOMAIN Setup[j.id]
  <2>1. j.id # 0
    BY <1>5, SlaveNumber DEF Slave
  <2>2. BankFits(f, Setup[f.id])
    BY <1>1, <1>5 DEF BankFits
  <2> QED BY <1>1, <1>5, <2>1, <2>2 DEF Has
<1>6. j.num <= 61 /\ j.num \in Nat
  BY PacketIs DEF Supported
<1> QED BY <1>3, <1>4, <1>5, <1>6 DEF Supported

\* A slave takes what is in its port, with room for its answer or without.
Looked(s) == [port EXCEPT ![s] = <<>>]

LEMMA LookIs ==
  ASSUME Types, NEW s \in Slave, NEW room, Handle(s, room)
  PROVE  \E f, a, done :
           /\ port[s] = <<f>> /\ a = SlaveAnswer(s, regs[s], f, room)
           /\ done = (s \in SimpleSlaves /\ Executed(f, a.regs))
           /\ regs' = [regs EXCEPT ![s] = a.regs]
           /\ port' = IF a.reply = <<>> THEN Looked(s)
                      ELSE Send(s, a.reply[1], Looked(s))
           /\ served' = IF prompt /\ (a.reply # <<>> \/ done)
                        THEN served \cup {<<s, a.reply, done>>} ELSE served
<1>1. PICK f : port[s] = <<f>>
  BY DEF Handle, Types, AtMostOne, Station
<1>2. Head(port[s]) = f
  BY <1>1
<1> DEFINE a == SlaveAnswer(s, regs[s], f, room)
           done == s \in SimpleSlaves /\ Executed(f, a.regs)
<1>3. /\ regs' = [regs EXCEPT ![s] = a.regs]
      /\ port' = IF a.reply = <<>> THEN Looked(s)
                 ELSE Send(s, a.reply[1], Looked(s))
      /\ served' = IF prompt /\ (a.reply # <<>> \/ done)
                   THEN served \cup {<<s, a.reply, done>>} ELSE served
  BY <1>2 DEF Handle, SlaveAnswer, Looked
<1> QED BY <1>1, <1>3

LEMMA SameJob ==
  ASSUME job' = job, cur' = cur
  PROVE  /\ Supported(cur)' <=> Supported(cur)
         /\ ServedIn(cur, served, port[Master])'
               <=> ServedIn(cur, served', port'[Master])
         /\ ReplyIn(cur, served, port[Master])'
               <=> ReplyIn(cur, served', port'[Master])
<1>1. Supported(cur)' <=> Supported(cur)
  BY DEF Supported
<1>2. \A r : ReplyTo(cur, served, r)' <=> ReplyTo(cur, served', r)
  BY DEF ReplyTo
<1>3. \A r : Fitting(job[cur], r)' <=> Fitting(job[cur], r)
  BY DEF Fitting, ReplyFits, InBuffer, MasterOctets
<1> QED BY <1>1, <1>2, <1>3 DEF ReplyIn, ServedIn, Master

LEMMA SameAsk ==
  ASSUME job' = job, cur' = cur, NEW s
  PROVE  AskIn(job[cur], port[s])' <=> AskIn(job[cur], port'[s])
BY DEF AskIn, AskOf, ArraySize

LEMMA MoreGiven ==
  ASSUME NEW p, NEW given, NEW more, given \subseteq more, NEW q
  PROVE  /\ ReplyIn(p, given, q) => ReplyIn(p, more, q)
         /\ ServedIn(p, given, q) => ServedIn(p, more, q)
<1>1. \A r : ReplyTo(p, given, r) => ReplyTo(p, more, r)
  BY DEF ReplyTo
<1> QED BY <1>1 DEF ReplyIn, ServedIn

LEMMA LookedIs ==
  ASSUME Types, NEW s \in Slave
  PROVE  /\ DOMAIN Looked(s) = Station
         /\ \A st \in Station : Looked(s)[st] = IF st = s THEN <<>> ELSE port[st]
BY DEF Looked, Types, Station

LEMMA StationIs == /\ Master \in Station
                   /\ \A s \in Slave : s \in Station /\ s # Master
BY SlaveNumber DEF Master, Station

\* A slave that is not asked takes what it has heard from the port.
LEMMA LookSilent ==
  ASSUME Types, NEW s \in Slave, NEW room, Handle(s, room), SilentIn(s, port[s])
  PROVE  port' = Looked(s) /\ served \subseteq served'
<1>1. PICK f, a, done :
        /\ port[s] = <<f>> /\ a = SlaveAnswer(s, regs[s], f, room)
        /\ port' = IF a.reply = <<>> THEN Looked(s)
                   ELSE Send(s, a.reply[1], Looked(s))
        /\ served' = IF prompt /\ (a.reply # <<>> \/ done)
                     THEN served \cup {<<s, a.reply, done>>} ELSE served
  BY LookIs
<1>2. f.id # s
  BY <1>1 DEF SilentIn
<1>3. a.reply = <<>>
  BY <1>1, <1>2, SlaveIsSilent
<1> QED BY <1>1, <1>3

\* One that is asked gives an answer, and nobody else may answer then.
LEMMA LookAsked ==
  ASSUME Types, prompt, cur \in Packet, NEW s \in Slave, NEW room, Handle(s, room),
         s = job[cur].id, AskIn(job[cur], port[s])
  PROVE  /\ \A t \in Slave : t # s => SilentIn(t, port'[t])
         /\ port'[s] = <<>>
         /\ port[Master] = <<>> => ReplyIn(cur, served', port'[Master])
         /\ port[Master] = <<>> /\ HasRoom(room) /\ Supported(cur)
               => ServedIn(cur, served', port'[Master])
<1>1. PICK f, a, done :
        /\ port[s] = <<f>> /\ a = SlaveAnswer(s, regs[s], f, room)
        /\ done = (s \in SimpleSlaves /\ Executed(f, a.regs))
        /\ port' = IF a.reply = <<>> THEN Looked(s)
                   ELSE Send(s, a.reply[1], Looked(s))
        /\ served' = IF prompt /\ (a.reply # <<>> \/ done)
                     THEN served \cup {<<s, a.reply, done>>} ELSE served
  BY LookIs
<1>2. AskOf(job[cur], f)
  BY <1>1 DEF AskIn
<1>3. /\ f.id = s /\ f.fn = job[cur].fn /\ f.addr = job[cur].addr
      /\ f.num = job[cur].num /\ RequestType(f)
  BY <1>2, AskIs
<1>4. PICK g : /\ a.reply = <<g>> /\ g.id = s
               /\ g.fn \in Int /\ (g.fn = f.fn \/ g.fn >= 128)
  <2>1. f.fn \in 1..127
    BY <1>3, PacketIs
  <2>2. Answered(a, s, f.fn)
    <3>1. RequestFits(f)
      BY <1>3 DEF RequestType
    <3> QED BY <1>1, <1>3, <2>1, <3>1, SlaveAnswers, Zenon
  <2> QED BY <2>2, Zenon DEF Answered
<1>5. port' = Send(s, g, Looked(s))
  BY <1>1, <1>4
<1>6. ASSUME NEW t \in Slave, t # s PROVE SilentIn(t, port'[t])
  <2>1. port'[t] \in {<<g>>, <<Garbage>>}
    BY <1>5, <1>6, SendIs, HeardIs, StationIs
  <2> QED BY <1>4, <1>6, <2>1, GarbageIs, SlaveNumber DEF SilentIn
<1>7. port'[s] = <<>>
  BY <1>5, SendIs, LookedIs, StationIs
<1>8. ASSUME port[Master] = <<>>
      PROVE  /\ ReplyIn(cur, served', port'[Master])
             /\ HasRoom(room) /\ Supported(cur)
                  => ServedIn(cur, served', port'[Master])
  <2>1. port'[Master] = <<g>>
    BY <1>5, <1>8, SendIs, HeardIs, LookedIs, StationIs
  <2>2. <<s, <<g>>, done>> \in served'
    BY <1>1, <1>4
  <2>3. DOMAIN regs[s] = DOMAIN Setup[s]
    BY DEF Types
  <2>4. g.fn = job[cur].fn /\ Writes(g.fn) /\ job[cur].id \in SimpleSlaves => done
    <3> SUFFICES ASSUME g.fn = f.fn, Writes(f.fn), s \in SimpleSlaves PROVE done
      BY <1>3
    <3>1. Executed(f, a.regs)
      BY <1>1, <1>3, <1>4, <2>3, SlaveExecutes
    <3> QED BY <1>1, <3>1
  <2>5. ASSUME HasRoom(room), Supported(cur) PROVE Fitting(job[cur], g)
    <3>1. Has(s, f)
      BY <1>2, <1>3, <2>5, SupportedIs, SlaveNumber
    <3>2. PICK h : a.reply = <<h>> /\ Fitting(f, h)
      BY <1>1, <1>3, <2>3, <2>5, <3>1, SlaveServes
    <3>3. h = g
      BY <1>4, <3>2
    <3> QED BY <1>3, <3>2, <3>3, FittingSame
  <2>6. ReplyTo(cur, served', g)
    <3> DEFINE x == <<s, <<g>>, done>>
    <3>1. x[1] = s /\ x[2] = <<g>> /\ x[3] = done
      OBVIOUS
    <3> QED BY <1>3, <1>4, <2>2, <2>4, <3>1 DEF ReplyTo
  <2> QED BY <2>1, <2>5, <2>6 DEF ReplyIn, ServedIn
<1> QED BY <1>6, <1>7, <1>8
\* Whatever it does, a slave keeps its registers where they are.
LEMMA LookTypes ==
  ASSUME Types, NEW s \in Slave, NEW room, Handle(s, room)
  PROVE  Types'
<1>1. PICK f, a, done :
        /\ a = SlaveAnswer(s, regs[s], f, room)
        /\ regs' = [regs EXCEPT ![s] = a.regs]
        /\ port' = IF a.reply = <<>> THEN Looked(s)
                   ELSE Send(s, a.reply[1], Looked(s))
  BY LookIs
<1>2. job' = job /\ pk' = pk /\ state' = state /\ cur' = cur
  BY DEF Handle
<1>3. DOMAIN regs' = Slave /\ \A t \in Slave : DOMAIN regs'[t] = DOMAIN Setup[t]
  <2>1. DOMAIN a.regs = DOMAIN regs[s]
    BY <1>1, SlaveKeeps DEF Keeps
  <2> QED BY <1>1, <2>1 DEF Types
<1>4. /\ DOMAIN Looked(s) = Station
      /\ \A st \in Station : AtMostOne(Looked(s)[st])
  BY LookedIs DEF Types, AtMostOne
<1>5. DOMAIN port' = Station /\ \A st \in Station : AtMostOne(port'[st])
  <2>1. CASE a.reply = <<>>
    BY <1>1, <1>4, <2>1
  <2>2. CASE a.reply # <<>>
    <3>1. port' = Send(s, a.reply[1], Looked(s))
      BY <1>1, <2>2
    <3>2. ASSUME NEW st \in Station PROVE AtMostOne(port'[st])
      <4>1. port'[st] = IF st = s THEN Looked(s)[st]
                        ELSE Heard(Looked(s)[st], a.reply[1])
        BY <3>1, SendIs
      <4> QED BY <1>4, <4>1, HeardIs
    <3> QED BY <3>1, <3>2, SendIs
  <2> QED BY <2>1, <2>2
<1> QED BY <1>2, <1>3, <1>5 DEF Types

LEMMA LookLine ==
  ASSUME BusInv, NEW s \in Slave, NEW room, Handle(s, room), prompt' = prompt
  PROVE  Line'
<1> USE DEF BusInv
<1>1. job' = job /\ pk' = pk /\ state' = state /\ cur' = cur
  BY DEF Handle
<1>2. SUFFICES ASSUME prompt
               PROVE  /\ state = "idle" => \A st \in Station : port'[st] = <<>>
                      /\ state = "turnaround" =>
                            /\ port'[Master] = <<>>
                            /\ \A t \in Slave : SilentIn(t, port'[t])
                      /\ state = "reply" =>
                           /\ job[cur].id # 0
                           /\ \/ /\ port'[Master] = <<>>
                                 /\ \A t \in Slave :
                                      \/ SilentIn(t, port'[t])
                                      \/ /\ t = job[cur].id
                                         /\ AskIn(job[cur], port'[t])
                              \/ /\ \A t \in Slave : SilentIn(t, port'[t])
                                 /\ \/ port'[Master] \in {<<>>, <<Garbage>>}
                                    \/ ReplyIn(cur, served', port'[Master])
  BY <1>1, SameJob DEF Line, AskIn, AskOf, SilentIn, ArraySize
<1>3. port[s] # <<>>
  BY DEF Handle
<1>4. state # "idle"
  BY <1>2, <1>3, StationIs DEF Line
<1>5. cur \in Packet
  BY <1>4 DEF Types
<1>6. ASSUME SilentIn(s, port[s])
      PROVE  /\ port'[Master] = port[Master] /\ served \subseteq served'
             /\ \A t \in Slave : port'[t] = IF t = s THEN <<>> ELSE port[t]
  BY <1>6, LookSilent, LookedIs, StationIs
<1>7. \A t : SilentIn(t, <<>>)
  BY DEF SilentIn
<1>8. CASE state = "turnaround"
  <2>1. port[Master] = <<>> /\ \A t \in Slave : SilentIn(t, port[t])
    BY <1>2, <1>8 DEF Line
  <2>2. port'[Master] = <<>> /\ \A t \in Slave : SilentIn(t, port'[t])
    BY <1>6, <1>7, <2>1
  <2> QED BY <1>8, <2>2
<1>9. CASE state = "reply"
  <2>1. job[cur].id # 0
    BY <1>2, <1>9 DEF Line
  <2>2. CASE /\ port[Master] = <<>>
             /\ \A t \in Slave : \/ SilentIn(t, port[t])
                                 \/ t = job[cur].id /\ AskIn(job[cur], port[t])
    <3>1. CASE SilentIn(s, port[s])
      <4>1. port'[Master] = <<>>
        BY <1>6, <2>2, <3>1
      <4>2. ASSUME NEW t \in Slave
            PROVE  \/ SilentIn(t, port'[t])
                   \/ t = job[cur].id /\ AskIn(job[cur], port'[t])
        BY <1>6, <1>7, <2>2, <3>1
      <4> QED BY <1>9, <2>1, <4>1, <4>2
    <3>2. CASE s = job[cur].id /\ AskIn(job[cur], port[s])
      <4>1. /\ \A t \in Slave : t # s => SilentIn(t, port'[t])
            /\ port'[s] = <<>> /\ ReplyIn(cur, served', port'[Master])
        BY <1>2, <1>5, <2>2, <3>2, LookAsked
      <4>2. \A t \in Slave : SilentIn(t, port'[t])
        BY <1>7, <4>1
      <4> QED BY <1>9, <2>1, <4>1, <4>2
    <3> QED BY <2>2, <3>1, <3>2
  <2>3. CASE /\ \A t \in Slave : SilentIn(t, port[t])
             /\ \/ port[Master] \in {<<>>, <<Garbage>>}
                \/ ReplyIn(cur, served, port[Master])
    <3>1. \A t \in Slave : SilentIn(t, port'[t])
      BY <1>6, <1>7, <2>3
    <3>2. \/ port'[Master] \in {<<>>, <<Garbage>>}
          \/ ReplyIn(cur, served', port'[Master])
      BY <1>6, <2>3, MoreGiven
    <3> QED BY <1>9, <2>1, <3>1, <3>2
  <2> QED BY <1>2, <1>9, <2>2, <2>3 DEF Line
<1> QED BY <1>4, <1>8, <1>9 DEF Types
\* Who is silent while an exchange goes on.
LEMMA WhoIsSilent ==
  ASSUME BusInv, prompt, NEW s \in Slave
  PROVE  /\ state = "reply" =>
              \/ SilentIn(s, port[s])
              \/ /\ port[Master] = <<>> /\ s = job[cur].id
                 /\ AskIn(job[cur], port[s])
         /\ state = "turnaround" => SilentIn(s, port[s])
BY DEF BusInv, Line

LEMMA LookExchange ==
  ASSUME BusInv, NEW s \in Slave, Look(s)
  PROVE  Exchange'
<1> USE DEF BusInv
<1>1. /\ job' = job /\ state' = state /\ cur' = cur
      /\ prompt' = prompt /\ hurt' = hurt
  BY DEF Look, Handle, lineVars
<1>2. SUFFICES ASSUME prompt, ~hurt, state = "reply", Supported(cur)
               PROVE  \/ /\ port'[Master] = <<>>
                         /\ AskIn(job[cur], port'[job[cur].id])
                      \/ ServedIn(cur, served', port'[Master])
  BY <1>1, SameJob DEF Exchange, AskIn, AskOf, ArraySize
<1>3. cur \in Packet /\ job[cur].id # 0
  BY <1>2 DEF Types, Line
<1>4. job[cur].id \in Slave
  BY <1>2, <1>3, ASlave
<1>5. CASE SilentIn(s, port[s])
  <2>1. /\ port'[Master] = port[Master] /\ served \subseteq served'
        /\ \A t \in Slave : port'[t] = IF t = s THEN <<>> ELSE port[t]
    BY <1>5, LookSilent, LookedIs, StationIs DEF Look, HasRoom
  <2>2. CASE ServedIn(cur, served, port[Master])
    BY <2>1, <2>2, MoreGiven
  <2>3. CASE port[Master] = <<>> /\ AskIn(job[cur], port[job[cur].id])
    <3>1. job[cur].id # s
      <4>1. PICK f : port[job[cur].id] = <<f>> /\ AskOf(job[cur], f)
        BY <2>3 DEF AskIn
      <4>2. f.id = job[cur].id
        BY <1>3, <4>1, AskIs
      <4> QED BY <1>5, <4>1, <4>2 DEF SilentIn
    <3> QED BY <1>4, <2>1, <2>3, <3>1
  <2> QED BY <1>2, <2>2, <2>3 DEF Exchange
<1>6. CASE /\ port[Master] = <<>> /\ s = job[cur].id
           /\ AskIn(job[cur], port[s])
  BY <1>2, <1>3, <1>6, LookAsked DEF Look, HasRoom
<1> QED BY <1>2, <1>5, <1>6, WhoIsSilent

LEMMA LookSpreading ==
  ASSUME BusInv, NEW s \in Slave, Look(s)
  PROVE  Spreading'
<1> USE DEF BusInv
<1>0. PICK room : HasRoom(room) /\ Handle(s, room)
  BY DEF Look, HasRoom
<1>1. /\ job' = job /\ state' = state /\ cur' = cur
      /\ prompt' = prompt /\ hurt' = hurt
      /\ Supported(cur)' <=> Supported(cur)
  <2>1. /\ job' = job /\ state' = state /\ cur' = cur
        /\ prompt' = prompt /\ hurt' = hurt
    BY DEF Look, Handle, lineVars
  <2> QED BY <2>1, SameJob
<1>2. SUFFICES ASSUME prompt, ~hurt, state = "turnaround", job[cur].id = 0,
                      Supported(cur), NEW t \in SimpleSlaves
               PROVE  \/ <<t, <<>>, TRUE>> \in served'
                      \/ AskIn(job[cur], port'[t])
  BY <1>1, SameAsk DEF Spreading
<1>3. cur \in Packet /\ t \in Slave
  BY <1>2 DEF Types, Slave
<1>4. port' = Looked(s) /\ served \subseteq served'
  BY <1>2, WhoIsSilent, LookSilent DEF Look
<1>5. CASE <<t, <<>>, TRUE>> \in served
  BY <1>4, <1>5
<1>6. CASE t # s /\ AskIn(job[cur], port[t])
  BY <1>3, <1>4, <1>6, LookedIs, StationIs
<1>7. CASE t = s /\ AskIn(job[cur], port[t])
  <2>1. PICK f, a, done :
          /\ port[s] = <<f>> /\ a = SlaveAnswer(s, regs[s], f, room)
          /\ done = (s \in SimpleSlaves /\ Executed(f, a.regs))
          /\ served' = IF prompt /\ (a.reply # <<>> \/ done)
                       THEN served \cup {<<s, a.reply, done>>} ELSE served
    BY <1>0, LookIs
  <2>2. AskOf(job[cur], f)
    BY <1>7, <2>1 DEF AskIn
  <2>3. f.id = 0 /\ RequestType(f)
    BY <1>2, <1>3, <2>2, AskIs
  <2>4. f.fn = WriteRegs /\ FitsIn(f, Setup[s])
    BY <1>2, <1>3, <1>7, <2>2, SupportedIs
  <2>5. a.reply = <<>>
    BY <1>3, <1>7, <2>1, <2>3, SlaveIsSilent, SlaveNumber
  <2>6. Executed(f, a.regs)
    BY <1>2, <1>7, <2>1, <2>3, <2>4, SlaveExecutes DEF Types, Writes
  <2>7. done = TRUE
    BY <1>2, <1>7, <2>1, <2>6
  <2> QED BY <1>2, <1>7, <2>1, <2>5, <2>7
<1> QED BY <1>2, <1>5, <1>6, <1>7 DEF Spreading

LEMMA LookKeeps ==
  ASSUME BusInv, NEW s \in Slave, Look(s)
  PROVE  BusInv'
<1>1. Handle(s, TRUE) /\ prompt' = prompt
  BY DEF Look, lineVars
<1>2. Arrays'
  BY <1>1 DEF BusInv, Arrays, Handle, ArraySize
<1> QED BY <1>1, <1>2, LookTypes, LookLine, LookExchange, LookSpreading DEF BusInv

\* Without room an exception is answered, which the disturbance accounts for.
LEMMA LookWithoutRoomKeeps ==
  ASSUME BusInv, NEW s \in Slave, LookWithoutRoom(s)
  PROVE  BusInv'
<1>1. Handle(s, FALSE) /\ prompt' = prompt /\ hurt' = prompt
  BY DEF LookWithoutRoom, Disturbance
<1>2. Arrays'
  BY <1>1 DEF BusInv, Arrays, Handle, ArraySize
<1>3. Exchange' /\ Spreading'
  BY <1>1 DEF Exchange, Spreading
<1> QED BY <1>1, <1>2, <1>3, LookTypes, LookLine DEF BusInv
-----------------------------------------------------------------------------
(* The master.                                                              *)

\* Until a packet is requested nothing is on the line; then every station
\* has the request, and only the one it names may answer.
LEMMA IdleKeeps ==
  ASSUME BusInv, Idle
  PROVE  BusInv'
<1> USE DEF BusInv
<1>1. PICK p \in Connected :
        /\ cur' = p
        /\ LET sent == [pk[p] EXCEPT !.requests = Up(@)]
               broadcast == job[p].id = 0
           IN  /\ pk' = [pk EXCEPT ![p] = IF broadcast
                             THEN ProcessSuccess(sent) ELSE sent]
               /\ state' = IF broadcast THEN "turnaround" ELSE "reply"
               /\ port' = Send(Master, Request(job[p], pk[p].array), port)
  BY DEF Idle
<1>2. p \in Packet
  BY DEF Connected
<1>3. /\ state = "idle" /\ job' = job /\ regs' = regs /\ prompt' = prompt
  BY DEF Idle
<1> DEFINE f == Request(job[p], pk[p].array)
<1>4. IsRecord(pk'[p]) /\ pk'[p].array = pk[p].array
  <2> DEFINE sent == [pk[p] EXCEPT !.requests = Up(pk[p].requests)]
  <2>1. IsRecord(pk[p]) /\ p \in DOMAIN pk
    BY <1>2 DEF Types
  <2>2. IsRecord(sent) /\ sent.array = pk[p].array
    BY <2>1, FieldsAre
  <2>3. pk'[p] = IF job[p].id = 0 THEN ProcessSuccess(sent) ELSE sent
    BY <1>1, <2>1
  <2> HIDE DEF sent
  <2> QED BY <2>2, <2>3, SuccessIs
<1>5. DOMAIN pk' = DOMAIN pk /\ \A q \in Packet : q # p => pk'[q] = pk[q]
  BY <1>1 DEF Types
<1>6. DOMAIN port' = Station /\ \A st \in Station : AtMostOne(port'[st])
  <2>1. ASSUME NEW st \in Station PROVE AtMostOne(port'[st])
    <3>1. port'[st] = IF st = Master THEN port[st] ELSE Heard(port[st], f)
      BY <1>1, SendIs
    <3> QED BY <3>1, HeardIs DEF Types
  <2> QED BY <1>1, <2>1, SendIs
<1>7. Types'
  BY <1>1, <1>2, <1>3, <1>4, <1>5, <1>6 DEF Types
<1>8. Arrays'
  BY <1>3, <1>4, <1>5 DEF Arrays, ArraySize
<1>9. ASSUME prompt
      PROVE  /\ port'[Master] = <<>>
             /\ \A s \in Slave : port'[s] = <<f>>
             /\ AskOf(job[p], f)
  <2>1. \A st \in Station : port[st] = <<>>
    BY <1>3, <1>9 DEF Line
  <2>2. port'[Master] = <<>> /\ \A s \in Slave : port'[s] = <<f>>
    BY <1>1, <2>1, SendIs, HeardIs, StationIs
  <2>3. AskOf(job[p], f)
    BY <1>2, <1>9 DEF AskOf, Request, Arrays, Writes
  <2> QED BY <2>2, <2>3
<1>10. ASSUME prompt PROVE AskIn(job[p], <<f>>) /\ f.id = job[p].id
  BY <1>2, <1>9, <1>10, AskIs DEF AskIn
<1>11. state' = IF job[p].id = 0 THEN "turnaround" ELSE "reply"
  BY <1>1
<1>12. job'[cur'] = job[p]
  BY <1>1, <1>3
<1>13. Line'
  <2> SUFFICES ASSUME prompt PROVE Line'
    BY <1>3 DEF Line
  <2>1. ASSUME NEW s \in Slave
        PROVE  /\ s = job[p].id \/ SilentIn(s, port'[s])
               /\ AskIn(job[p], port'[s])
    BY <1>9, <1>10 DEF SilentIn
  <2>2. port'[Master] = <<>>
    BY <1>9
  <2>3. CASE job[p].id = 0
    <3>1. \A s \in Slave : SilentIn(s, port'[s])
      BY <2>1, <2>3, SlaveNumber
    <3> QED BY <1>11, <2>2, <2>3, <3>1 DEF Line, SilentIn, Master
  <2>4. CASE job[p].id # 0
    <3>1. state' = "reply"
      BY <1>11, <2>4
    <3> QED BY <1>12, <2>1, <2>2, <2>4, <3>1
         DEF Line, SilentIn, AskIn, AskOf, ArraySize, Master
  <2> QED BY <2>3, <2>4
<1>14. Exchange'
  <2> SUFFICES ASSUME prompt, state' = "reply", Supported(cur)'
               PROVE  port'[Master] = <<>> /\ AskIn(job[p], port'[job[p].id])
    BY <1>3, <1>12 DEF Exchange, AskIn, AskOf, ArraySize, Master
  <2>1. Supported(p)
    BY <1>1, <1>3 DEF Supported
  <2>2. job[p].id \in Slave
    BY <1>2, <1>11, <2>1, ASlave
  <2> QED BY <1>9, <1>10, <2>2
<1>15. Spreading'
  <2> SUFFICES ASSUME prompt, NEW s \in SimpleSlaves
               PROVE  AskIn(job[p], port'[s])
    BY <1>3, <1>12 DEF Spreading, AskIn, AskOf, ArraySize
  <2> QED BY <1>9, <1>10 DEF Slave
<1> QED BY <1>7, <1>8, <1>13, <1>14, <1>15
LEMMA IdleInVainKeeps ==
  ASSUME BusInv, IdleInVain
  PROVE  BusInv'
<1>1. /\ state = "idle" /\ state' = "idle" /\ job' = job /\ pk' = pk
      /\ regs' = regs /\ port' = port /\ prompt' = prompt
  BY DEF IdleInVain, lineVars
<1>2. Types' /\ Arrays'
  BY <1>1 DEF BusInv, Types, Arrays, ArraySize
<1>3. Line' /\ Exchange' /\ Spreading'
  BY <1>1 DEF BusInv, Line, Exchange, Spreading
<1> QED BY <1>2, <1>3 DEF BusInv

\* What the packet that is waited for becomes.
LEMMA Counted ==
  ASSUME Types, cur \in Packet, NEW k, IsRecord(k),
         pk' = [pk EXCEPT ![cur] = k]
  PROVE  /\ DOMAIN pk' = Packet /\ \A p \in Packet : IsRecord(pk'[p])
         /\ pk'[cur] = k /\ \A p \in Packet : p # cur => pk'[p] = pk[p]
BY DEF Types

LEMMA TimeoutKeeps ==
  ASSUME BusInv, Timeout
  PROVE  BusInv'
<1> USE DEF BusInv
<1>1. /\ state = "reply" /\ state' = "idle" /\ job' = job /\ cur' = cur
      /\ regs' = regs /\ port' = port /\ prompt' = prompt
      /\ pk' = [pk EXCEPT ![cur] = ProcessError(pk[cur])]
      /\ port[Master] = <<>> /\ (prompt => SlavesHaveLooked)
  BY DEF Timeout, lineVars
<1>2. cur \in Packet /\ IsRecord(pk[cur])
  BY <1>1 DEF Types
<1>3. /\ IsRecord(ProcessError(pk[cur]))
      /\ ProcessError(pk[cur]).array = pk[cur].array
  BY <1>2, ErrorIs
<1>4. /\ DOMAIN pk' = Packet /\ \A p \in Packet : IsRecord(pk'[p])
      /\ \A p \in Packet : pk'[p].array = pk[p].array
  BY <1>1, <1>2, <1>3, Counted
<1>5. Types' /\ Arrays'
  BY <1>1, <1>4 DEF Types, Arrays, ArraySize
<1>6. prompt => \A st \in Station : port[st] = <<>>
  BY <1>1 DEF SlavesHaveLooked, Station
<1>7. Line' /\ Exchange' /\ Spreading'
  BY <1>1, <1>6 DEF Line, Exchange, Spreading
<1> QED BY <1>5, <1>7

LEMMA TurnaroundKeeps ==
  ASSUME BusInv, Turnaround
  PROVE  BusInv'
<1> USE DEF BusInv
<1>1. /\ state = "turnaround" /\ state' = "idle" /\ job' = job /\ cur' = cur
      /\ regs' = regs /\ port' = port /\ prompt' = prompt /\ pk' = pk
      /\ (prompt => SlavesHaveLooked)
  BY DEF Turnaround, lineVars
<1>2. Types' /\ Arrays'
  BY <1>1 DEF Types, Arrays, ArraySize
<1>3. prompt => \A st \in Station : port[st] = <<>>
  BY <1>1 DEF SlavesHaveLooked, Station, Line
<1>4. Line' /\ Exchange' /\ Spreading'
  BY <1>1, <1>3 DEF Line, Exchange, Spreading
<1> QED BY <1>2, <1>4

\* What the master can find in its port while answers are prompt.
LEMMA PortIs ==
  ASSUME BusInv, prompt, state = "reply", port[Master] # <<>>
  PROVE  /\ job[cur].id # 0 /\ \A s \in Slave : SilentIn(s, port[s])
         /\ \/ port[Master] = <<Garbage>>
            \/ ReplyIn(cur, served, port[Master])
BY DEF BusInv, Line

LEMMA ReadPortIs ==
  ASSUME BusInv, ReadPort
  PROVE  \E f, k :
           /\ port[Master] = <<f>> /\ cur \in Packet /\ IsRecord(k)
           /\ k = IF ReplyFits(f) /\ f.id = job[cur].id
                  THEN ProcessReply(job[cur], pk[cur], f)
                  ELSE ProcessError(pk[cur])
           /\ pk' = [pk EXCEPT ![cur] = k]
<1>1. /\ state = "reply" /\ port[Master] # <<>>
  BY DEF ReadPort
<1>2. PICK f : port[Master] = <<f>>
  BY <1>1, StationIs DEF BusInv, Types, AtMostOne
<1>3. cur \in Packet /\ IsRecord(pk[cur])
  BY <1>1 DEF BusInv, Types
<1> DEFINE k == IF ReplyFits(f) /\ f.id = job[cur].id
                THEN ProcessReply(job[cur], pk[cur], f)
                ELSE ProcessError(pk[cur])
<1>4. IsRecord(k)
  <2>1. job[cur].fn \in 1..127
    BY <1>3, PacketIs DEF BusInv
  <2> QED BY <1>3, <2>1, ReplyIs, ErrorIs DEF Outcome
<1>5. pk' = [pk EXCEPT ![cur] = k]
  BY <1>2 DEF ReadPort
<1> QED BY <1>2, <1>3, <1>4, <1>5

LEMMA ReadingKeeps ==
  ASSUME BusInv, ReadPort
  PROVE  BusInv'
<1> USE DEF BusInv
<1>1. /\ state = "reply" /\ state' = "turnaround" /\ job' = job /\ cur' = cur
      /\ regs' = regs /\ prompt' = prompt /\ port[Master] # <<>>
      /\ port' = [port EXCEPT ![Master] = <<>>]
  BY DEF ReadPort, lineVars
<1>2. PICK f, k :
        /\ port[Master] = <<f>> /\ cur \in Packet /\ IsRecord(k)
        /\ k = IF ReplyFits(f) /\ f.id = job[cur].id
               THEN ProcessReply(job[cur], pk[cur], f)
               ELSE ProcessError(pk[cur])
        /\ pk' = [pk EXCEPT ![cur] = k]
  BY ReadPortIs
<1>3. /\ DOMAIN pk' = Packet /\ \A p \in Packet : IsRecord(pk'[p])
      /\ pk'[cur] = k /\ \A p \in Packet : p # cur => pk'[p] = pk[p]
  BY <1>2, Counted
<1>4. /\ DOMAIN port' = Station /\ port'[Master] = <<>>
      /\ \A s \in Slave : port'[s] = port[s]
      /\ \A st \in Station : AtMostOne(port'[st])
  BY <1>1, StationIs DEF Types, AtMostOne
<1>5. Types'
  BY <1>1, <1>3, <1>4 DEF Types
<1>6. ASSUME prompt, Writes(job[cur].fn) PROVE k.array = pk[cur].array
  <2>1. IsRecord(pk[cur]) /\ job[cur].fn \in 1..127 /\ job[cur].id \in Nat
    BY <1>2, PacketIs DEF Types
  <2>2. CASE port[Master] = <<Garbage>>
    <3>1. f.id # job[cur].id
      BY <1>2, <2>1, <2>2, GarbageIs
    <3> QED BY <1>2, <2>1, <3>1, ErrorIs
  <2>3. CASE ReplyIn(cur, served, port[Master])
    <3>1. f.id = job[cur].id /\ (f.fn = job[cur].fn \/ f.fn >= 128)
      BY <1>2, <2>3 DEF ReplyIn, ReplyTo
    <3>2. ProcessReply(job[cur], pk[cur], f).array = pk[cur].array
      <4>1. Outcome(job[cur], pk[cur], f,
                    ProcessReply(job[cur], pk[cur], f))
        BY <2>1, ReplyIs
      <4> QED BY <1>6, <3>1, <4>1 DEF Outcome
    <3> QED BY <1>2, <2>1, <3>1, <3>2, ErrorIs
  <2> QED BY <1>1, <1>6, <2>2, <2>3, PortIs
<1>7. Arrays'
  BY <1>1, <1>3, <1>6 DEF Arrays, ArraySize
<1>8. prompt => job[cur].id # 0 /\ \A s \in Slave : SilentIn(s, port[s])
  BY <1>1, PortIs
<1>9. Line' /\ Exchange' /\ Spreading'
  BY <1>1, <1>4, <1>8 DEF Line, Exchange, Spreading, SilentIn, Master
<1> QED BY <1>5, <1>7, <1>9
-----------------------------------------------------------------------------
(* The sketches and the line.                                               *)

\* Nothing of what the invariant says about frames has changed.
LEMMA SameLine ==
  ASSUME BusInv, UNCHANGED <<job, state, cur, port, served, prompt, hurt>>
  PROVE  Line' /\ Exchange' /\ Spreading'
<1>1. /\ Supported(cur)' <=> Supported(cur)
      /\ ReplyIn(cur, served, port[Master])' <=> ReplyIn(cur, served, port[Master])
      /\ ServedIn(cur, served, port[Master])'
            <=> ServedIn(cur, served, port[Master])
  BY SameJob DEF Master
<1>2. Line'
  BY <1>1 DEF BusInv, Line, AskIn, AskOf, SilentIn, ArraySize, Master
<1>3. Exchange'
  BY <1>1 DEF BusInv, Exchange, AskIn, AskOf, ArraySize, Master
<1>4. Spreading'
  BY <1>1 DEF BusInv, Spreading, AskIn, AskOf, ArraySize
<1> QED BY <1>2, <1>3, <1>4

LEMMA ReconnectKeeps ==
  ASSUME BusInv, NEW p \in Packet, Reconnect(p)
  PROVE  BusInv'
<1> USE DEF BusInv
<1>1. /\ UNCHANGED <<job, state, cur, port, served, prompt, hurt, regs>>
      /\ pk' = [pk EXCEPT ![p].connection = TRUE]
  BY DEF Reconnect, lineVars
<1>2. /\ DOMAIN pk' = Packet
      /\ \A q \in Packet : IsRecord(pk'[q]) /\ pk'[q].array = pk[q].array
  BY <1>1 DEF Types, IsRecord
<1>3. Types' /\ Arrays'
  BY <1>1, <1>2 DEF Types, Arrays, ArraySize
<1> QED BY <1>1, <1>3, SameLine

LEMMA LoadKeeps ==
  ASSUME BusInv, NEW p \in Packet, NEW v, Load(p, v)
  PROVE  BusInv'
<1> USE DEF BusInv
<1> DEFINE array == [i \in 1..ArraySize(job[p]) |-> v]
<1>1. /\ UNCHANGED <<job, state, cur, port, served, prompt, hurt, regs>>
      /\ pk' = [pk EXCEPT ![p].array = array]
  BY DEF Load, lineVars
<1>2. /\ DOMAIN pk' = Packet
      /\ \A q \in Packet : IsRecord(pk'[q])
      /\ \A q \in Packet : pk'[q].array = IF q = p THEN array ELSE pk[q].array
  BY <1>1 DEF Types, IsRecord
<1>3. ArraySize(job[p]) \in Nat
  BY PacketIs DEF ArraySize, MasterOctets
<1>4. Len(array) = ArraySize(job[p])
  BY <1>3
<1>5. Types' /\ Arrays'
  <2> HIDE DEF array
  <2> QED BY <1>1, <1>2, <1>4 DEF Types, Arrays, ArraySize
<1> QED BY <1>1, <1>5, SameLine

LEMMA MeasureKeeps ==
  ASSUME BusInv, NEW s, NEW a, NEW v, Measure(s, a, v)
  PROVE  BusInv'
<1> USE DEF BusInv
<1>1. /\ UNCHANGED <<job, state, cur, port, served, prompt, hurt, pk>>
      /\ regs' = [regs EXCEPT ![s][a] = v]
  BY DEF Measure, lineVars
<1>2. /\ DOMAIN regs' = Slave
      /\ \A t \in Slave : DOMAIN regs'[t] = DOMAIN Setup[t]
  BY <1>1 DEF Types
<1>3. Types' /\ Arrays'
  BY <1>1, <1>2 DEF Types, Arrays, ArraySize
<1> QED BY <1>1, <1>3, SameLine

\* A disturbance takes a frame away; it never makes one that is answered.
LEMMA DisturbKeeps ==
  ASSUME BusInv, NEW st \in Station, NEW what \in {<<>>, <<Garbage>>},
         Disturb(st, what)
  PROVE  BusInv'
<1> USE DEF BusInv
<1>1. /\ UNCHANGED <<job, state, cur, served, prompt, pk, regs>>
      /\ port' = [port EXCEPT ![st] = what] /\ hurt' = prompt
      /\ prompt => port[st] # <<>>
  BY DEF Disturb, Disturbance
<1>2. /\ DOMAIN port' = Station
      /\ \A x \in Station : port'[x] = IF x = st THEN what ELSE port[x]
      /\ \A x \in Station : AtMostOne(port'[x])
  BY <1>1 DEF Types, AtMostOne
<1>3. Types' /\ Arrays'
  BY <1>1, <1>2 DEF Types, Arrays, ArraySize
<1>4. \A s \in Slave : SilentIn(s, what)
  BY GarbageIs, SlaveNumber DEF SilentIn
<1>5. \A s \in Slave : SilentIn(s, port[s]) => SilentIn(s, port'[s])
  BY <1>2, <1>4, StationIs
<1>6. \A s \in Slave : \/ SilentIn(s, port'[s]) \/ port'[s] = port[s]
  BY <1>2, <1>4, StationIs
<1>7. port'[Master] = port[Master] \/ port'[Master] \in {<<>>, <<Garbage>>}
  BY <1>2, StationIs
<1>8. prompt /\ port[Master] = <<>> => port'[Master] = <<>>
  BY <1>1, <1>2, StationIs
<1>9. Line'
  <2> SUFFICES ASSUME prompt
               PROVE  /\ state = "idle" => \A x \in Station : port'[x] = <<>>
                      /\ state = "turnaround" =>
                            /\ port'[Master] = <<>>
                            /\ \A t \in Slave : SilentIn(t, port'[t])
                      /\ state = "reply" =>
                           /\ job[cur].id # 0
                           /\ \/ /\ port'[Master] = <<>>
                                 /\ \A t \in Slave :
                                      \/ SilentIn(t, port'[t])
                                      \/ /\ t = job[cur].id
                                         /\ AskIn(job[cur], port'[t])
                              \/ /\ \A t \in Slave : SilentIn(t, port'[t])
                                 /\ \/ port'[Master] \in {<<>>, <<Garbage>>}
                                    \/ ReplyIn(cur, served, port'[Master])
    BY <1>1, SameJob DEF Line, AskIn, AskOf, SilentIn, ArraySize
  <2>1. state # "idle"
    BY <1>1 DEF Line
  <2>2. CASE state = "turnaround"
    BY <1>5, <1>8, <2>2 DEF Line
  <2>3. CASE state = "reply"
    <3>1. CASE /\ port[Master] = <<>>
               /\ \A t \in Slave :
                     \/ SilentIn(t, port[t])
                     \/ t = job[cur].id /\ AskIn(job[cur], port[t])
      <4>1. \A t \in Slave : \/ SilentIn(t, port'[t])
                             \/ /\ t = job[cur].id
                                /\ AskIn(job[cur], port'[t])
        BY <1>6, <3>1
      <4> QED BY <1>8, <2>3, <3>1, <4>1 DEF Line
    <3>2. CASE /\ \A t \in Slave : SilentIn(t, port[t])
               /\ \/ port[Master] \in {<<>>, <<Garbage>>}
                  \/ ReplyIn(cur, served, port[Master])
      <4>1. \A t \in Slave : SilentIn(t, port'[t])
        BY <1>5, <3>2
      <4>2. \/ port'[Master] \in {<<>>, <<Garbage>>}
            \/ ReplyIn(cur, served, port'[Master])
        BY <1>7, <3>2
      <4> QED BY <2>3, <4>1, <4>2 DEF Line
    <3> QED BY <2>3, <3>1, <3>2 DEF Line
  <2> QED BY <2>1, <2>2, <2>3 DEF Types
<1>10. Exchange' /\ Spreading'
  BY <1>1 DEF Exchange, Spreading
<1> QED BY <1>3, <1>9, <1>10
-----------------------------------------------------------------------------
LEMMA InitLine ==
  ASSUME Init
  PROVE  BusInv
<1>1. job \in Jobs /\ state = "idle" /\ regs = Setup
      /\ port = [st \in Station |-> <<>>]
  BY DEF Init
<1>2. /\ DOMAIN pk = Packet
      /\ \A p \in Packet : /\ IsRecord(pk[p])
                           /\ pk[p].array = [i \in 1..ArraySize(job[p]) |-> 0]
  BY DEF Init, IsRecord
<1>3. Types
  BY <1>1, <1>2, SlaveAssumption DEF Types, AtMostOne
<1>4. \A p \in Packet : Len(pk[p].array) = ArraySize(job[p])
  <2> TAKE p \in Packet
  <2>1. ArraySize(job[p]) \in Nat
    BY <1>3, PacketIs DEF ArraySize, MasterOctets
  <2>2. Len([i \in 1..ArraySize(job[p]) |-> 0]) = ArraySize(job[p])
    BY <2>1
  <2> QED BY <1>2, <2>2
<1> QED BY <1>1, <1>3, <1>4 DEF BusInv, Arrays, Line, Exchange, Spreading

LEMMA StepLine ==
  ASSUME BusInv, [Next]_vars
  PROVE  BusInv'
<1>1. CASE ModbusUpdate
  BY <1>1, IdleKeeps, IdleInVainKeeps, ReadingKeeps, TimeoutKeeps,
     TurnaroundKeeps DEF ModbusUpdate
<1>2. CASE \E s \in Slave : Look(s) \/ LookWithoutRoom(s)
  BY <1>2, LookKeeps, LookWithoutRoomKeeps
<1>3. CASE \E sa \in Sensors, v \in Values : Measure(sa[1], sa[2], v)
  BY <1>3, MeasureKeeps
<1>4. CASE \E p \in Packet : Reconnect(p) \/ \E v \in Values : Load(p, v)
  BY <1>4, ReconnectKeeps, LoadKeeps
<1>5. CASE \E st \in Station, what \in {<<>>, <<Garbage>>} : Disturb(st, what)
  BY <1>5, DisturbKeeps
<1>6. CASE UNCHANGED vars
  <2>1. /\ UNCHANGED <<job, state, cur, port, served, prompt, hurt>>
        /\ pk' = pk /\ regs' = regs
    BY <1>6 DEF vars
  <2>2. Types' /\ Arrays'
    BY <2>1 DEF BusInv, Types, Arrays, ArraySize
  <2> QED BY <2>1, <2>2, SameLine DEF BusInv
<1> QED BY <1>1, <1>2, <1>3, <1>4, <1>5, <1>6 DEF Next

LEMMA BusInvariant == Spec => []BusInv
BY InitLine, StepLine, PTL DEF Spec
-----------------------------------------------------------------------------
(* What a step may do to the counters.                                      *)

\* The packets a step leaves as they are.
LEMMA OnlyOneCounts ==
  ASSUME BusInv, Next, NEW p \in Packet
  PROVE  \/ pk'[p].successful = pk[p].successful /\ pk'[p].failed = pk[p].failed
         \/ Idle /\ pk'[p].failed = pk[p].failed
         \/ p = cur /\ (ReadPort \/ Timeout)
<1> USE DEF BusInv
<1>1. IsRecord(pk[p]) /\ p \in DOMAIN pk
  BY DEF Types
<1>2. CASE pk' = pk
  BY <1>2
<1>3. CASE Idle
  <2>1. PICK q \in Packet :
          pk' = [pk EXCEPT ![q] = IF job[q].id = 0
                  THEN ProcessSuccess([pk[q] EXCEPT !.requests = Up(pk[q].requests)])
                  ELSE [pk[q] EXCEPT !.requests = Up(pk[q].requests)]]
    BY <1>3 DEF Idle, Connected
  <2> DEFINE sent == [pk[q] EXCEPT !.requests = Up(pk[q].requests)]
  <2>2. IsRecord(sent) /\ sent.failed = pk[q].failed
    BY FieldsAre DEF Types
  <2>3. pk'[q] = IF job[q].id = 0 THEN ProcessSuccess(sent) ELSE sent
    BY <2>1 DEF Types
  <2>4. p # q => pk'[p] = pk[p]
    BY <2>1 DEF Types
  <2> HIDE DEF sent
  <2>5. pk'[q].failed = pk[q].failed
    BY <2>2, <2>3, SuccessIs
  <2> QED BY <1>3, <2>4, <2>5
<1>4. CASE ReadPort \/ Timeout
  <2>1. cur \in Packet /\ \E k : pk' = [pk EXCEPT ![cur] = k]
    BY <1>4 DEF ReadPort, Timeout, Types
  <2> QED BY <1>1, <1>4, <2>1
<1>5. ASSUME NEW q \in Packet, Reconnect(q) \/ \E v \in Values : Load(q, v)
      PROVE  pk'[p].successful = pk[p].successful /\ pk'[p].failed = pk[p].failed
  <2>1. \/ pk' = [pk EXCEPT ![q].connection = TRUE]
        \/ \E a : pk' = [pk EXCEPT ![q].array = a]
    BY <1>5 DEF Reconnect, Load
  <2> QED BY <1>1, <2>1 DEF IsRecord
<1>6. IdleInVain \/ Turnaround => pk' = pk
  BY DEF IdleInVain, Turnaround
<1>7. (\E s \in Slave : Look(s) \/ LookWithoutRoom(s)) => pk' = pk
  BY DEF Look, LookWithoutRoom, Handle
<1>8. (\E sa \in Sensors, v \in Values : Measure(sa[1], sa[2], v)) => pk' = pk
  BY DEF Measure
<1>9. (\E st \in Station, what \in {<<>>, <<Garbage>>} : Disturb(st, what))
        => pk' = pk
  BY DEF Disturb
<1> QED BY <1>2, <1>3, <1>4, <1>5, <1>6, <1>7, <1>8, <1>9 DEF Next, ModbusUpdate

\* What the master has read when it counts a success is the answer.
LEMMA SuccessServedStep ==
  ASSUME BusInv, Next, NEW p \in Packet, prompt, state = "reply", Succeeds(p)
  PROVE  \E r \in served :
             /\ r[1] = job[p].id /\ r[2] # <<>> /\ r[2][1].fn = job[p].fn
             /\ IF job[p].fn \in {WriteRegs, WriteCoils}
                THEN job[p].id \in SimpleSlaves => r[3]
                ELSE pk'[p].array = r[2][1].data
<1> USE DEF BusInv
<1>1. pk'[p].successful # pk[p].successful
  BY DEF Succeeds
<1>2. p = cur /\ ~Timeout /\ ReadPort
  <2>1. ~Idle
    BY DEF Idle
  <2>2. p = cur /\ (ReadPort \/ Timeout)
    BY <1>1, <2>1, OnlyOneCounts
  <2>3. ASSUME Timeout PROVE FALSE
    <3>1. IsRecord(pk[p]) /\ pk'[p] = ProcessError(pk[p])
      BY <2>2, <2>3 DEF Timeout, Types
    <3> QED BY <1>1, <3>1, ErrorIs
  <2> QED BY <2>2, <2>3
<1>3. PICK f, k :
        /\ port[Master] = <<f>> /\ cur \in Packet /\ IsRecord(k)
        /\ k = IF ReplyFits(f) /\ f.id = job[cur].id
               THEN ProcessReply(job[cur], pk[cur], f)
               ELSE ProcessError(pk[cur])
        /\ pk' = [pk EXCEPT ![cur] = k]
  BY <1>2, ReadPortIs
<1>4. /\ IsRecord(pk[p]) /\ pk'[p] = k /\ job[p].fn \in 1..127
      /\ job[p].id \in Nat
  BY <1>2, <1>3, PacketIs DEF Types
<1>5. f.id = job[p].id /\ k = ProcessReply(job[p], pk[p], f)
  BY <1>1, <1>2, <1>3, <1>4, ErrorIs
<1>6. ReplyTo(p, served, f)
  <2>1. port[Master] # <<>> /\ port[Master] # <<Garbage>>
    BY <1>3, <1>4, <1>5, GarbageIs
  <2>2. ReplyIn(p, served, port[Master])
    BY <1>2, <2>1, PortIs
  <2> QED BY <1>3, <2>2 DEF ReplyIn
<1>7. Outcome(job[p], pk[p], f, k)
  BY <1>4, <1>5, ReplyIs
<1>8. /\ f.fn = job[p].fn
      /\ Writes(job[p].fn) \/ k.array = f.data
  BY <1>1, <1>4, <1>6, <1>7 DEF Outcome, ReplyTo
<1>9. PICK x \in served :
        /\ x[1] = job[p].id /\ x[2] = <<f>>
        /\ f.fn = job[p].fn /\ Writes(f.fn) /\ job[p].id \in SimpleSlaves => x[3]
  BY <1>6 DEF ReplyTo
<1>10. x[2] # <<>> /\ x[2][1] = f
  BY <1>9
<1>11. IF job[p].fn \in {WriteRegs, WriteCoils}
       THEN job[p].id \in SimpleSlaves => x[3]
       ELSE pk'[p].array = x[2][1].data
  BY <1>4, <1>8, <1>9, <1>10 DEF Writes
<1> QED BY <1>8, <1>9, <1>10, <1>11

\* What is asked of a slave that has it is answered so that it is a success.
LEMMA NoFalseAlarmStep ==
  ASSUME BusInv, Next, NEW p \in Packet, prompt, Supported(p), Fails(p)
  PROVE  hurt
<1> USE DEF BusInv
<1> SUFFICES ASSUME ~hurt PROVE FALSE
  OBVIOUS
<1>1. pk'[p].failed # pk[p].failed
  BY DEF Fails
<1>2. p = cur /\ (ReadPort \/ Timeout)
  BY <1>1, OnlyOneCounts
<1>3. state = "reply"
  BY <1>2 DEF ReadPort, Timeout
<1>4. \/ port[Master] = <<>> /\ AskIn(job[cur], port[job[cur].id])
      \/ ServedIn(cur, served, port[Master])
  BY <1>2, <1>3 DEF Exchange
<1>5. CASE Timeout
  <2>1. port[Master] = <<>> /\ SlavesHaveLooked
    BY <1>5 DEF Timeout
  <2>2. port[job[cur].id] # <<>>
    BY <1>4, <2>1, FramesAreThere
  <2>3. job[cur].id \in Slave
    BY <1>2, <1>3, ASlave DEF Line
  <2> QED BY <2>1, <2>2, <2>3 DEF SlavesHaveLooked
<1>6. CASE ReadPort
  <2>1. PICK f, k :
          /\ port[Master] = <<f>> /\ cur \in Packet /\ IsRecord(k)
          /\ k = IF ReplyFits(f) /\ f.id = job[cur].id
                 THEN ProcessReply(job[cur], pk[cur], f)
                 ELSE ProcessError(pk[cur])
          /\ pk' = [pk EXCEPT ![cur] = k]
    BY <1>6, ReadPortIs
  <2>2. IsRecord(pk[p]) /\ pk'[p] = k /\ job[p].fn \in 1..127
    BY <1>2, <2>1, PacketIs DEF Types
  <2>3. ReplyTo(p, served, f) /\ Fitting(job[p], f)
    BY <1>2, <1>4, <2>1 DEF ServedIn
  <2>4. f.id = job[p].id /\ ReplyFits(f) /\ Fitting(job[p], f)
    BY <2>3 DEF ReplyTo, Fitting
  <2>5. Outcome(job[p], pk[p], f, k)
    BY <1>2, <2>1, <2>2, <2>4, ReplyIs
  <2> QED BY <1>1, <2>2, <2>4, <2>5 DEF Outcome
<1> QED BY <1>2, <1>5, <1>6
-----------------------------------------------------------------------------
\* A success, as SimpleModbusMaster counts it in the packet it was waiting
\* for, is one that the slave it asked has brought about in this exchange:
\* the answer of that slave, with the function that was asked for, what was
\* read as it was sent, and what was written to a SimpleModbusSlave written.
\* For any number of stations, packets and disturbances.
THEOREM SuccessHolds == Spec => SuccessIsServed
<1>1. BusInv /\ [Next]_vars
        => [\A p \in Packet : prompt /\ state = "reply" /\ Succeeds(p) =>
               \E r \in served :
                   /\ r[1] = job[p].id /\ r[2] # <<>> /\ r[2][1].fn = job[p].fn
                   /\ IF job[p].fn \in {WriteRegs, WriteCoils}
                      THEN job[p].id \in SimpleSlaves => r[3]
                      ELSE pk'[p].array = r[2][1].data]_vars
  BY SuccessServedStep
<1> QED BY <1>1, BusInvariant, PTL DEF Spec, SuccessIsServed

\* processReply() and waiting_for_reply() count no failure of a packet that
\* both sides support unless the line was disturbed after it was requested.
THEOREM NoFalseAlarmHolds == Spec => NoFalseAlarm
<1>1. BusInv /\ [Next]_vars
        => [\A p \in Packet : prompt /\ Supported(p) /\ Fails(p) => hurt]_vars
  BY NoFalseAlarmStep
<1> QED BY <1>1, BusInvariant, PTL DEF Spec, NoFalseAlarm

\* Every SimpleModbusSlave has executed a broadcast that fits its registers
\* when the turnaround delay is over.
THEOREM BroadcastHolds == Spec => BroadcastReaches
<1>1. BusInv /\ [Next]_vars
        => [prompt /\ ~hurt /\ job[cur].id = 0 /\ Supported(cur)
               /\ state = "turnaround" /\ state' = "idle"
            => \A s \in SimpleSlaves : <<s, <<>>, TRUE>> \in served]_vars
  <2> SUFFICES ASSUME BusInv, Next, prompt, ~hurt, job[cur].id = 0,
                      Supported(cur), state = "turnaround", state' = "idle",
                      NEW s \in SimpleSlaves
               PROVE  <<s, <<>>, TRUE>> \in served
    OBVIOUS
  <2>1. Turnaround
    BY DEF Next, ModbusUpdate, Idle, IdleInVain, ReadPort, Timeout, Look,
       LookWithoutRoom, Handle, Measure, Reconnect, Load, Disturb
  <2>2. port[s] = <<>>
    BY <2>1 DEF Turnaround, SlavesHaveLooked, Slave
  <2> QED BY <2>2, FramesAreThere DEF BusInv, Spreading
<1> QED BY <1>1, BusInvariant, PTL DEF Spec, BroadcastReaches
=============================================================================
