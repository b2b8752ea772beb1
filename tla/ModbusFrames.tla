---------------------------- MODULE ModbusFrames ----------------------------
(***************************************************************************)
(* What goes over a Modbus serial line, and the two slaves of the          *)
(* repository as functions of a request: SimpleModbusSlave and the         *)
(* register bank Modbus with the serial transport ModbusSerial.            *)
(*                                                                         *)
(* A frame is a record: station, function, the two 16-bit fields every     *)
(* request has, and the values it carries, one member per register or per  *)
(* bit.  Octets, CRC and byte counts are abstracted: an intact frame has   *)
(* the CRC and the byte count of its values.  Junk is a value read from    *)
(* memory that nobody has written.                                         *)
(***************************************************************************)
EXTENDS Integers, Sequences, FiniteSets

ReadCoils == 1
ReadInputs == 2
ReadHolding == 3
ReadInputRegs == 4
WriteCoil == 5
WriteReg == 6
WriteCoils == 15
WriteRegs == 16

IllegalFunction == 1
IllegalAddress == 2
IllegalValue == 3
SlaveFailure == 4

Junk == -1
Word(x) == x % 65536
On == 65280

Frame(id, fn, addr, num, data) ==
    [id |-> id, fn |-> fn, addr |-> addr, num |-> num, data |-> data]

\* Bits travel in whole octets, registers as they are.
IsBits(fn) == fn \in {ReadCoils, ReadInputs, WriteCoils}
Octets(fn, data) == IF IsBits(fn) THEN Len(data) \div 8 ELSE 2 * Len(data)

\* SimpleModbus reads a frame into a buffer, and drops one that is longer.
\* A request with values has nine octets besides them, a reply five; a frame
\* without values is shorter than the buffer.
BufferSize == 128
InBuffer(others, f) == others + Octets(f.fn, f.data) <= BufferSize
RequestFits(f) == InBuffer(9, f)
ReplyFits(f) == InBuffer(5, f)

\* The answer of a slave: its registers afterwards, and at most one frame.
Nothing(regs) == [regs |-> regs, reply |-> <<>>]
Answer(regs, frame) == [regs |-> regs, reply |-> <<frame>>]
Refuse(regs, id, fn, code) == Answer(regs, Frame(id, fn + 128, 0, code, <<>>))

-----------------------------------------------------------------------------
(* SimpleModbusSlave: regs is a function on 0 .. holdingRegsSize - 1.      *)

Size(regs) == Cardinality(DOMAIN regs)

InBlock(f) == f.addr .. (Word(f.addr + f.num) - 1)

Written(regs, f) ==
    [a \in DOMAIN regs |-> IF a \in InBlock(f) THEN f.data[a - f.addr + 1]
                                               ELSE regs[a]]

\* Mutant: 0 is not a broadcast.
AddressedAlone(me, id) == id = me

Addressed(me, id) == id \in {0, me}

\* modbus_update() of the slave `me` for a frame it has heard intact.  A
\* broadcast is executed and not answered; a refused one is only counted, and
\* so is one longer than the buffer.
SimpleSlave(me, regs, f) ==
    LET quiet(answer) == IF f.id = 0 THEN Nothing(answer.regs) ELSE answer
        checked(answer) ==
            IF f.addr >= Size(regs) THEN Refuse(regs, me, f.fn, IllegalAddress)
            ELSE IF Word(f.addr + f.num) > Size(regs)
                 THEN Refuse(regs, me, f.fn, IllegalValue)
                 ELSE answer
        executed ==
            CASE f.id # 0 /\ f.fn = ReadHolding ->
                     checked(Answer(regs, Frame(me, f.fn, 0, 0,
                         [i \in 1..f.num |-> regs[f.addr + i - 1]])))
              [] f.fn = WriteRegs ->
                     checked(Answer(Written(regs, f),
                         Frame(me, f.fn, f.addr, f.num, <<>>)))
              [] OTHER -> Refuse(regs, me, f.fn, IllegalFunction)
    IN  IF RequestFits(f) /\ Addressed(me, f.id) THEN quiet(executed)
                                                 ELSE Nothing(regs)

-----------------------------------------------------------------------------
(* Modbus: one list of registers for the four kinds, told apart by their   *)
(* address.  regs is a function on the addresses that were added.          *)

Coils == 1
Ists == 10001
Iregs == 30001
Hregs == 40001
At(kind, offset) == Word(offset + kind)
CoilAt(offset) == At(Coils, offset)
HregAt(offset) == At(Hregs, offset)

\* Reg(): an address that was not added reads as 0.
Reg(regs, a) == IF a \in DOMAIN regs THEN regs[a] ELSE 0

Bit(regs, a) == CASE Reg(regs, a) = On -> 1
                  [] Reg(regs, a) = Junk -> Junk
                  [] OTHER -> 0

\* The bits of a reply.  The octet of bit k is computed from k + 1, so every
\* eighth bit goes into the octet after its own, or behind the frame; a bit
\* that is not written is what malloc() returned.
Packed(num, bit) ==
    LET place(k) == 8 * ((k + 1) \div 8) + (k % 8)
    IN  [j \in 1..(8 * ((num + 7) \div 8)) |->
            IF \E k \in 0..(num - 1) : place(k) = j - 1
            THEN bit[CHOOSE k \in 0..(num - 1) : place(k) = j - 1]
            ELSE Junk]

\* The reads and the multiple writes build their answer in memory they ask
\* for once the request is found right; without room nothing has been done.
Built(me, regs, f, room, answer) ==
    IF room THEN answer ELSE Refuse(regs, me, f.fn, SlaveFailure)

\* The four reads check the first address only, and report a missing one
\* under the function code of Read Coils.
BankRead(me, regs, f, room, most, kind, data) ==
    IF f.num \notin 1..most THEN Refuse(regs, me, f.fn, IllegalValue)
    ELSE IF At(kind, f.addr) \notin DOMAIN regs
         THEN Refuse(regs, me, ReadCoils, IllegalAddress)
         ELSE Built(me, regs, f, room,
                    Answer(regs, Frame(me, f.fn, 0, 0, data)))

\* The multiple writes check every address.  They build their reply in the
\* memory of the request before they read the values from it.
BankWrite(me, regs, f, room, most, kind) ==
    LET block == {At(kind, f.addr + k) : k \in 0..(f.num - 1)}
        octets == IF IsBits(f.fn) THEN (f.num + 7) \div 8 ELSE 2 * f.num
    IN  IF f.num \notin 1..most \/ Octets(f.fn, f.data) # octets
        THEN Refuse(regs, me, f.fn, IllegalValue)
        ELSE IF ~(block \subseteq DOMAIN regs)
             THEN Refuse(regs, me, f.fn, IllegalAddress)
             ELSE Built(me, regs, f, room,
                    Answer([a \in DOMAIN regs |-> IF a \in block THEN Junk
                                                                ELSE regs[a]],
                           Frame(me, f.fn, f.addr, f.num, <<>>)))

\* A single write is answered by its own request.
BankWriteOne(me, regs, f, a, value) ==
    IF a \notin DOMAIN regs
    THEN Refuse(regs, me, f.fn, IllegalAddress)
    ELSE Answer([regs EXCEPT ![a] = value], f)

Words(regs, f, kind) ==
    [i \in 1..f.num |-> Reg(regs, At(kind, f.addr + i - 1))]
Bits(regs, f, kind) ==
    Packed(f.num, [k \in 0..(f.num - 1) |-> Bit(regs, At(kind, f.addr + k))])

\* The eight functions of the slave; room is whether malloc() finds some.
readRegisters(me, regs, f, room) ==
    BankRead(me, regs, f, room, 125, Hregs, Words(regs, f, Hregs))
readInputRegisters(me, regs, f, room) ==
    BankRead(me, regs, f, room, 125, Iregs, Words(regs, f, Iregs))
readCoils(me, regs, f, room) ==
    BankRead(me, regs, f, room, 2000, Coils, Bits(regs, f, Coils))
readInputStatus(me, regs, f, room) ==
    BankRead(me, regs, f, room, 2000, Ists, Bits(regs, f, Ists))
writeSingleRegister(me, regs, f) ==
    BankWriteOne(me, regs, f, HregAt(f.addr), f.num)
writeSingleCoil(me, regs, f) ==
    IF f.num \in {0, On} THEN BankWriteOne(me, regs, f, CoilAt(f.addr), f.num)
                         ELSE Refuse(regs, me, f.fn, IllegalValue)
writeMultipleRegisters(me, regs, f, room) == BankWrite(me, regs, f, room, 123, Hregs)
writeMultipleCoils(me, regs, f, room) == BankWrite(me, regs, f, room, 1968, Coils)

receivePDU(me, regs, f, room) ==
    CASE f.fn = WriteReg -> writeSingleRegister(me, regs, f)
      [] f.fn = ReadHolding -> readRegisters(me, regs, f, room)
      [] f.fn = WriteRegs -> writeMultipleRegisters(me, regs, f, room)
      [] f.fn = ReadCoils -> readCoils(me, regs, f, room)
      [] f.fn = ReadInputs -> readInputStatus(me, regs, f, room)
      [] f.fn = ReadInputRegs -> readInputRegisters(me, regs, f, room)
      [] f.fn = WriteCoil -> writeSingleCoil(me, regs, f)
      [] f.fn = WriteCoils -> writeMultipleCoils(me, regs, f, room)
      [] OTHER -> Refuse(regs, me, f.fn, IllegalFunction)

\* ModbusSerial::receive() and task(): its broadcast address is 255.
BankSlave(me, regs, f, room) ==
    IF f.id = 255 THEN Nothing(receivePDU(me, regs, f, room).regs)
    ELSE IF f.id = me THEN receivePDU(me, regs, f, room)
         ELSE Nothing(regs)
=============================================================================
