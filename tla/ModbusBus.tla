------------------------------ MODULE ModbusBus ------------------------------
(***************************************************************************)
(* SimpleModbusMaster and two kinds of slaves on one RS485 line.           *)
(*                                                                         *)
(* Every station hears every frame, also the answers of the others, and    *)
(* looks at its port when its sketch calls modbus_update() or task().  It  *)
(* then takes all there is for one frame, so two frames that were not      *)
(* looked at in between are as good as a disturbed one: a port is empty or *)
(* holds one frame or Garbage.                                             *)
(*                                                                         *)
(* `prompt` is what the time-out and the polling interval are chosen for:  *)
(* when either ends every slave has looked at its port, and nothing but    *)
(* frames is heard.  Without it answers come late and noise is heard.      *)
(***************************************************************************)
EXTENDS ModbusFrames

CONSTANTS
    Packet,         \* 1 .. total_no_of_packets
    Jobs,           \* the tables of packets a sketch may have
    LateJobs,       \* those also seen with late answers and noise
    SimpleSlaves,   \* station numbers of SimpleModbusSlave
    BankSlaves,     \* station numbers of ModbusSerial
    Setup,          \* the registers each slave starts with
    Sensors,        \* the registers a slave's sketch writes
    Values,         \* what sketches put into registers
    RetryCount,     \* retry_count
    CounterMod,     \* 2^16: where the information counters wrap
    MaxFaults,      \* bound on disturbances while answers are prompt: of the
                    \* line, or a slave without memory for its answer
    MaxNoise        \* bound on disturbances otherwise

Slave == SimpleSlaves \cup BankSlaves
Master == 0
Station == Slave \cup {Master}
Garbage == Frame(-1, 0, 0, 0, <<>>)

ASSUME JobsAssumption ==
    /\ Packet = 1..Cardinality(Packet)
    /\ \A job \in Jobs : DOMAIN job = Packet
ASSUME CountAssumption == RetryCount \in 1..255 /\ CounterMod \in Nat \ {0}
\* Station numbers and function codes are those of the protocol, a packet
\* stays in its address space, and neither the request nor the reply of a
\* SimpleModbusSlave is longer than the buffer it is put together in, which
\* nobody checks: 59 registers or 959 coils to write, 61 registers to read.
\* A SimpleModbusSlave has an array, and an octet for an index into it.
ASSUME PacketAssumption ==
    \A table \in Jobs : \A p \in Packet :
        LET j == table[p]
        IN  /\ j.id \in Nat /\ j.fn \in 1..127 /\ j.addr \in Nat /\ j.num \in Nat
            /\ j.addr + j.num < 65536
            /\ j.fn = WriteRegs => j.num <= 59
            /\ j.fn = WriteCoils => j.num <= 959
            /\ j.fn = ReadHolding /\ j.id \in SimpleSlaves => j.num <= 61
ASSUME SlaveAssumption ==
    /\ Slave \subseteq 1..254 /\ DOMAIN Setup = Slave
    /\ \A s \in SimpleSlaves : /\ Size(Setup[s]) \in Nat /\ Size(Setup[s]) <= 255
                              /\ DOMAIN Setup[s] = 0..(Size(Setup[s]) - 1)

VARIABLES
    job,        \* the sketch's packets: id, fn, addr, num
    pk,         \* their connection, counters and register_array
    state,      \* "idle", "reply" or "turnaround"
    cur,        \* packet
    index,      \* packet_index
    regs,       \* the registers of each slave
    port,       \* what each station has received and not looked at
    prompt,     \* what the intervals are chosen for holds
    faults,     \* disturbances so far
    hurt,       \* history: one of them since the request was sent
    served      \* history: the answers slaves have given to it

vars == <<job, pk, state, cur, index, regs, port, prompt, faults, hurt, served>>
lineVars == <<prompt, faults, hurt>>
-----------------------------------------------------------------------------
\* Mutant: an incomplete word has no octet.
MasterOctetsDown(num) == 2 * (num \div 16)

\* construct_F15() and process_F1_F2() count a word for every sixteen bits
\* and one octet for the bits that remain.
MasterOctets(num) == 2 * (num \div 16) + (IF num % 16 > 0 THEN 1 ELSE 0)

ArraySize(j) == IF IsBits(j.fn) THEN 8 * MasterOctets(j.num) ELSE j.num

Request(j, array) ==
    Frame(j.id, j.fn, j.addr, j.num,
          IF j.fn \in {WriteRegs, WriteCoils} THEN array ELSE <<>>)

\* A station that has not looked at one frame yet has lost it with the next.
Heard(p, f) == IF p = <<>> THEN <<f>> ELSE <<Garbage>>
Send(from, f, ports) ==
    [st \in Station |-> IF st = from THEN ports[st] ELSE Heard(ports[st], f)]

Up(n) == (n + 1) % CounterMod

ProcessError(k) ==
    LET last == k.retries + 1 = RetryCount
    IN  [k EXCEPT !.failed = Up(@),
                  !.retries = IF last THEN 0 ELSE @ + 1,
                  !.connection = @ /\ ~last]

ProcessSuccess(k) == [k EXCEPT !.successful = Up(@), !.retries = 0]

\* A reply is stored as what it says it is, whatever was asked for.
Store(j, k, f) ==
    [k EXCEPT !.array = IF IsBits(f.fn) = IsBits(j.fn) THEN f.data
                                        ELSE [i \in DOMAIN @ |-> Junk]]

\* processReply() for a frame with the station number of the packet.
ProcessReply(j, k, f) ==
    LET bits == f.fn \in {ReadCoils, ReadInputs}
                /\ Octets(f.fn, f.data) = MasterOctets(j.num)
        words == f.fn \in {ReadHolding, ReadInputRegs} /\ Len(f.data) = j.num
        echo == f.fn \in {WriteCoils, WriteRegs}
                /\ f.addr = j.addr /\ f.num = j.num
    IN  CASE f.fn >= 128 ->
                 ProcessError([k EXCEPT !.exceptions = Up(@)])
          [] bits \/ words -> ProcessSuccess(Store(j, k, f))
          [] echo -> ProcessSuccess(k)
          [] OTHER -> ProcessError(k)
-----------------------------------------------------------------------------
Init ==
    /\ job \in Jobs
    /\ pk = [p \in Packet |->
                [connection |-> TRUE, retries |-> 0, requests |-> 0,
                 successful |-> 0, failed |-> 0, exceptions |-> 0,
                 array |-> [i \in 1..ArraySize(job[p]) |-> 0]]]
    /\ state = "idle" /\ cur = 1 /\ index = 1
    /\ regs = Setup
    /\ port = [st \in Station |-> <<>>]
    /\ prompt \in (IF job \in LateJobs THEN BOOLEAN ELSE {TRUE})
    /\ faults = 0 /\ hurt = FALSE
    /\ served = {}

\* The next packet with a connection from packet_index on, round robin.
After(p) == IF p = Cardinality(Packet) THEN 1 ELSE p + 1
Distance(p) == (p - index) % Cardinality(Packet)
Connected == {p \in Packet : pk[p].connection}

\* idle() and constructPacket(): a broadcast has succeeded when it is sent.
Idle ==
    /\ state = "idle"
    /\ \E p \in Connected :
         /\ \A q \in Connected : Distance(p) <= Distance(q)
         /\ cur' = p /\ index' = After(p)
         /\ LET sent == [pk[p] EXCEPT !.requests = Up(@)]
                broadcast == job[p].id = 0
            IN  /\ pk' = [pk EXCEPT ![p] = IF broadcast
                              THEN ProcessSuccess(sent) ELSE sent]
                /\ state' = IF broadcast THEN "turnaround" ELSE "reply"
                /\ port' = Send(Master, Request(job[p], pk[p].array), port)
    /\ hurt' = FALSE /\ served' = {}
    /\ UNCHANGED <<job, regs, prompt, faults>>

\* With all connections lost the loop stops one packet short of a full turn.
IdleInVain ==
    /\ state = "idle" /\ Connected = {}
    /\ cur' = IF index = 1 THEN Cardinality(Packet) ELSE index - 1
    /\ index' = cur'
    /\ UNCHANGED <<job, pk, state, regs, port, served, lineVars>>

\* Mutant: what was read stays in the port.
ReadPortKeeps ==
    /\ state = "reply" /\ port[Master] # <<>>
    /\ LET f == Head(port[Master])
       IN  pk' = [pk EXCEPT ![cur] = IF ReplyFits(f) /\ f.id = job[cur].id
                                     THEN ProcessReply(job[cur], @, f)
                                     ELSE ProcessError(@)]
    /\ state' = "turnaround"
    /\ UNCHANGED <<job, cur, index, regs, port, served, lineVars>>

\* waiting_for_reply() with something in the port.  What is longer than the
\* buffer is an error like the answer of another station.
ReadPort ==
    /\ state = "reply" /\ port[Master] # <<>>
    /\ LET f == Head(port[Master])
       IN  pk' = [pk EXCEPT ![cur] = IF ReplyFits(f) /\ f.id = job[cur].id
                                     THEN ProcessReply(job[cur], @, f)
                                     ELSE ProcessError(@)]
    /\ port' = [port EXCEPT ![Master] = <<>>]
    /\ state' = "turnaround"
    /\ UNCHANGED <<job, cur, index, regs, served, lineVars>>

SlavesHaveLooked == \A s \in Slave : port[s] = <<>>

\* The time-out: no turnaround delay, and the port is not emptied later.
Timeout ==
    /\ state = "reply" /\ port[Master] = <<>>
    /\ prompt => SlavesHaveLooked
    /\ pk' = [pk EXCEPT ![cur] = ProcessError(@)]
    /\ state' = "idle"
    /\ UNCHANGED <<job, cur, index, regs, port, served, lineVars>>

Turnaround ==
    /\ state = "turnaround"
    /\ prompt => SlavesHaveLooked
    /\ state' = "idle"
    /\ UNCHANGED <<job, pk, cur, index, regs, port, served, lineVars>>

\* History: the registers hold what the frame writes.
Executed(f, mem) ==
    /\ f.fn = WriteRegs /\ Len(f.data) = f.num
    /\ \A i \in 1..f.num : /\ f.addr + i - 1 \in DOMAIN mem
                            /\ mem[f.addr + i - 1] = f.data[i]

\* What a slave does with what is in its port.
Handle(s, room) ==
    /\ port[s] # <<>>
    /\ LET f == Head(port[s])
           a == IF f = Garbage THEN Nothing(regs[s])
                ELSE IF s \in SimpleSlaves THEN SimpleSlave(s, regs[s], f)
                     ELSE BankSlave(s, regs[s], f, room)
           looked == [port EXCEPT ![s] = <<>>]
           done == s \in SimpleSlaves /\ Executed(f, a.regs)
       IN  /\ regs' = [regs EXCEPT ![s] = a.regs]
           /\ port' = IF a.reply = <<>> THEN looked
                      ELSE Send(s, a.reply[1], looked)
           /\ served' = IF prompt /\ (a.reply # <<>> \/ done)
                        THEN served \cup {<<s, a.reply, done>>} ELSE served
    /\ UNCHANGED <<job, pk, state, cur, index>>

\* It looks at it: modbus_update() or task().
Look(s) == Handle(s, TRUE) /\ UNCHANGED lineVars

Disturbance ==
    /\ faults < IF prompt THEN MaxFaults ELSE MaxNoise
    /\ faults' = faults + 1
    /\ hurt' = prompt
    /\ UNCHANGED prompt

\* task() of a slave that has no memory left for its answer.
LookWithoutRoom(s) ==
    /\ s \in BankSlaves \ SimpleSlaves
    /\ Handle(s, FALSE)
    /\ Disturbance

\* The sketches: the master's reconnects a packet or loads one it writes,
\* a slave's measures something.
Reconnect(p) ==
    /\ ~pk[p].connection
    /\ pk' = [pk EXCEPT ![p].connection = TRUE]
    /\ UNCHANGED <<job, state, cur, index, regs, port, served, lineVars>>

Load(p, v) ==
    /\ job[p].fn \in {WriteRegs, WriteCoils}
    /\ pk' = [pk EXCEPT ![p].array = [i \in 1..ArraySize(job[p]) |-> v]]
    /\ UNCHANGED <<job, state, cur, index, regs, port, served, lineVars>>

Measure(s, a, v) ==
    /\ regs' = [regs EXCEPT ![s][a] = v]
    /\ UNCHANGED <<job, pk, state, cur, index, port, served, lineVars>>

\* The line: a frame is lost at one station, disturbed, or noise is heard.
Disturb(st, what) ==
    /\ prompt => port[st] # <<>>
    /\ port[st] # what
    /\ port' = [port EXCEPT ![st] = what]
    /\ Disturbance
    /\ UNCHANGED <<job, pk, state, cur, index, regs, served>>

ModbusUpdate == Idle \/ IdleInVain \/ ReadPort \/ Timeout \/ Turnaround

Next ==
    \/ ModbusUpdate
    \/ \E s \in Slave : Look(s) \/ LookWithoutRoom(s)
    \/ \E sa \in Sensors, v \in Values : Measure(sa[1], sa[2], v)
    \/ \E p \in Packet : Reconnect(p) \/ \E v \in Values : Load(p, v)
    \/ \E st \in Station, what \in {<<>>, <<Garbage>>} : Disturb(st, what)

Spec == Init /\ [][Next]_vars

\* Both sketches go on calling the update functions.
Fairness == WF_vars(ModbusUpdate) /\ \A s \in Slave : WF_vars(Look(s))
FairSpec == Spec /\ Fairness
=============================================================================
