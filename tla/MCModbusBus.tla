---------------------------- MODULE MCModbusBus ----------------------------
(* Instances of ModbusBus and its properties.                              *)
EXTENDS ModbusBus, TLC

J(id, fn, addr, num) == [id |-> id, fn |-> fn, addr |-> addr, num |-> num]

\* Station 1 is a SimpleModbusSlave with two registers, station 2 a
\* ModbusSerial with three coils and a holding register, or with eight coils.
Station1 == [a \in 0..1 |-> 0]
OneAndTwo ==
    1 :> Station1
    @@ 2 :> [a \in {CoilAt(k) : k \in 0..2} \cup {HregAt(0)} |-> 0]
Eight == 1 :> Station1 @@ 2 :> [a \in {CoilAt(k) : k \in 0..7} |-> On]
Measured == {<<1, 0>>, <<2, CoilAt(0)>>}

LateTable == <<J(2, ReadHolding, 0, 1), J(2, ReadCoils, 0, 1)>>
Tables ==
    { LateTable,
      <<J(1, ReadHolding, 0, 1), J(1, WriteRegs, 0, 2)>>,
      <<J(0, WriteRegs, 1, 1), J(2, ReadHolding, 0, 1)>>,
      <<J(2, WriteRegs, 0, 1), J(1, ReadInputRegs, 0, 1)>>,
      <<J(2, WriteCoils, 1, 2), J(2, ReadCoils, 0, 3)>>,
      <<J(1, ReadHolding, 1, 2), J(2, ReadCoils, 0, 9)>>,
      <<J(2, ReadHolding, 0, 62), J(2, ReadHolding, 0, 1)>>,
      <<J(2, WriteReg, 0, 1), J(2, ReadInputs, 0, 1)>> }
LateTables == {LateTable}

EightCoils == { <<J(2, ReadCoils, 0, 8)>> }

-----------------------------------------------------------------------------
\* What both sides support: the slave has the function and all registers,
\* request and reply fit into the buffers of SimpleModbus
\* (SimpleModbusMaster.h:63-70), and the bits fill their octets the same way
\* on both sides.
Supported(p) ==
    LET j == job[p]
        Fits(s) == j.num > 0 /\ j.addr + j.num <= Size(Setup[s])
        Has(kind) == \A k \in 0..(j.num - 1) :
                        At(kind, j.addr + k) \in DOMAIN Setup[j.id]
    IN  /\ j.num <= IF j.fn = ReadHolding THEN 61 ELSE 59
        /\ \/ j.id = 0 /\ j.fn = WriteRegs /\ \A s \in SimpleSlaves : Fits(s)
           \/ j.id \in SimpleSlaves /\ j.fn \in {ReadHolding, WriteRegs} /\ Fits(j.id)
           \/ /\ j.id \in BankSlaves \ SimpleSlaves
              /\ \/ j.fn \in {ReadHolding, WriteRegs} /\ j.num > 0 /\ Has(Hregs)
                 \/ j.fn \in {ReadCoils, WriteCoils} /\ j.num \in 1..7 /\ Has(Coils)

Succeeds(p) == pk'[p].successful # pk[p].successful
Fails(p) == pk'[p].failed # pk[p].failed

\* waiting_for_reply() compares the station, the function's shape and, for a
\* write, the fields: with prompt slaves this is enough for a success to
\* mean that the slave has executed this very request, and a register_array
\* that was read to be what it answered, also when other frames are lost.
SuccessIsServed ==
    [][\A p \in Packet : prompt /\ state = "reply" /\ Succeeds(p) =>
          \E r \in served :
              /\ r[1] = job[p].id /\ r[2] # <<>> /\ r[2][1].fn = job[p].fn
              /\ IF job[p].fn \in {WriteRegs, WriteCoils}
                 THEN job[p].id \in SimpleSlaves => r[3]
                 ELSE pk'[p].array = r[2][1].data]_vars

\* A request of something both sides support fails, and so loses its
\* connection after retry_count times, only when the line was disturbed
\* after it was sent; an earlier disturbance leaves nothing behind.
NoFalseAlarm ==
    [][\A p \in Packet : prompt /\ Supported(p) /\ Fails(p) => hurt]_vars

\* A broadcast, which is reported as successful when it is sent, has been
\* executed by every SimpleModbusSlave when the turnaround delay is over, if
\* all of them have the registers it writes.
BroadcastReaches ==
    [][prompt /\ ~hurt /\ job[cur].id = 0 /\ Supported(cur)
          /\ state = "turnaround" /\ state' = "idle"
       => \A s \in SimpleSlaves : <<s, <<>>, TRUE>> \in served]_vars

\* idle() goes round: a packet that keeps its connection is requested again
\* and again, whatever happens to the others and on the line; and with fewer
\* disturbances than retry_count, one that both sides support succeeds again
\* and again.
EachGetsItsTurn ==
    \A p \in Packet :
        /\ <>[](pk[p].connection)
           => []<><<pk'[p].requests # pk[p].requests>>_vars
        /\ prompt /\ Supported(p) /\ MaxFaults < RetryCount
           => []<><<Succeeds(p)>>_vars

\* SimpleModbusMaster.h:83, "Reads the ON/OFF status of discrete outputs (0X
\* references, coils) in the slave.": what a successful read of coils leaves
\* in register_array are the coils of the slave.
CoilsAreRead ==
    [][\A p \in Packet :
          prompt /\ Succeeds(p) /\ job[p].fn = ReadCoils =>
              \A k \in 0..(job[p].num - 1) :
                  pk'[p].array[k + 1] =
                      Bit(regs[job[p].id], CoilAt(job[p].addr + k))]_vars
=============================================================================
