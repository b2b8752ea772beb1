# TLA+ specifications of the Arduino libraries

The repository is a collection of some fifty independent Arduino libraries.
This directory specifies the ones that have a protocol, an interrupt handler or
a data structure of their own: the RF22 packet radio stack, the MQTT client, the
Modbus libraries, four libraries that share state with an interrupt handler, the
infrared receiver, and the chess game that comes with U8glib. It holds TLA+
modules, TLC configurations for bounded instances, and TLAPS proofs.

Contents: 1 inventory, 2 plan, 3 modules, 4 runs, 5 bounds, 6 fairness,
7 proofs, 8 known disagreements with the code, 9 what is not modelled.

To repeat a check: `tlc -workers 2 -config RoutesTable.cfg MCRF22RouteAge.tla`
for a run (the module of every run is in the table of section 4), and
`tlapm RF22RoutingTableProofs.tla` for a module of proofs.

## 1. Inventory

"Hard" is what makes the part difficult to test; "correct" is what would make
it right. Parts are ordered by how much of a protocol they contain.

### RF22 (`RF22/`), modelled

Five classes, each derived from the one before; a layer calls the one below as
a base class, and `RF22Mesh` overrides the virtual functions `route` and
`peekAtMessage` that `RF22Router` calls back. All layers share the driver's one
packet buffer `_buf`, and every class has one static `_tmpMessage`.

| class | state | operations |
|---|---|---|
| `RF22` | `_mode`, `_buf`, `_bufLen`, `_rxBufValid`, `_txBufSentIndex`; the chip's FIFOs, mode and status registers | `send`, `waitPacketSent`, `available`, `waitAvailable(Timeout)`, `recv`, `handleInterrupt`, register settings |
| `RF22Datagram` | `_thisAddress`; the four headers, in registers | `sendto`, `recvfrom` |
| `RF22ReliableDatagram` | `_lastSequenceNumber`, `_seenIds[256]`, `_retries`, `_timeout` | `sendtoWait`, `recvfromAck`, `acknowledge` |
| `RF22Router` | `_routes[10]`, `_lastE2ESequenceNumber`, `_max_hops` | `addRouteTo`, `getRouteTo`, `deleteRouteTo`, `retireOldestRoute`, `clearRoutingTable`, `sendtoWait`, `route`, `recvfromAck` |
| `RF22Mesh` | none but `_tmpMessage` | `sendtoWait`, `doArp`, `peekAtMessage`, `route`, `recvfromAck` |

* Hard: the interrupt handler shares `_buf` and `_mode` with the main program,
  and one buffer serves both directions; packets and acknowledgements are lost;
  two nodes send to each other at once; a sender restarts; a hop that was
  reported as failed was taken; answers come after their discovery timed out;
  the table is full; entries are never emptied.
* Correct: a packet is returned whole, once, in order; what is transmitted is
  what was given; `sendtoWait() == true` means taken; a message is returned once
  and only by its destination; routes lead to neighbours; discoveries follow
  loop-free paths; every blocking call returns and the traffic dies out.

### PubSubClient (`PubSubClient/`), modelled

* State: `buffer[128]` for both directions, `nextMsgId`, `lastOutActivity`,
  `lastInActivity`, `pingOutstanding`, the TCP client.
* Operations: `connect`, `disconnect`, `publish`, `publish_P`, `subscribe`,
  `unsubscribe`, `loop`, which calls the sketch's callback, and `connected`.
* Interaction: a broker behind a TCP connection that can stop or be cut at any
  octet; a callback that may call `publish` or `subscribe` itself.
* Hard: the callback is given pointers into `buffer`; `readByte` waits for ever;
  a late PINGRESP, or one for an earlier connection.
* Correct: an acknowledgement goes to the message the callback saw; a live
  broker is never dropped; a dead one is noticed within two keep-alive times;
  calls return while the broker lives.

### Modbus slave (`Modbus/`, `ModbusSerial/`), partly modelled

* State: a linked list of registers, `_frame`, `_len`, `_reply`, the serial port
  or server. Operations: `addReg`, `Reg`, `receivePDU` with eight function
  codes, `task`.
* Hard: `_frame` is freed and allocated again while it is read; `_reply` and
  `_len` survive from one request to the next; bits are packed at a boundary.
* Correct: a write is what a later read returns; a bad request gets an exception
  and changes nothing; a broadcast is never answered.
* The TCP transports `ModbusIP/` and `ModbusIP_ENC28J60/` are not modelled.

### SimpleModbusMaster, SimpleModbusSlave, modelled

* State: the packet array with its counters and `connection` flags, the state
  (IDLE, WAITING_FOR_REPLY, WAITING_FOR_TURNAROUND), one frame buffer for all.
* Interaction: every station of the line hears every frame, requests and the
  answers of the others.
* Hard: a reply after the timeout; packets that lose their `connection` flag;
  the last octet of the buffer; a line that damages frames.
* Correct: every connected packet is served again and again; what counts as a
  success was executed by its slave; a good answer is not counted as an error.
* `ModbusMaster` (blocking transactions) is not modelled.

### Timer and interrupt libraries, modelled but for `Tone_Itead`

| part | shared state | hard |
|---|---|---|
| `VirtualWire` | `vw_rx_buf`, `vw_rx_done`, `vw_rx_active`, `vw_tx_enabled` between the timer interrupt and `vw_get_message`, `vw_send` | the handler begins the next message while the last is copied |
| `SoftwareSerial` | one receive ring, `active_object` of all ports | head and tail are moved on both sides; `listen` switches ports; overflow |
| `MsTimer2`, `Tone_Itead` | `count`, `overflowing`; pin and toggle counters | 32-bit counters written without a lock; a callback that is interrupted |
| `IRremote` | `irparams`: state, raw buffer and length, `timer` | the buffer fills in the middle of a code; `resume`; old entries of the buffer; a tick counter of 16 bits |

* Correct: the ring is a queue and announces what it dropped; the timer's
  function is called in every interval and not re-entered; only whole messages
  are returned, once; a code that was recorded whole is decoded as what was sent,
  and nothing is decoded as a code that was not sent.

### Little Rook Chess (`U8glib/utility/chessengine.c`), partly modelled

* State: `lrc_obj`: the board of 16 by 8 cells with marks, `pawn_dbl_move`,
  `castling_possible`, `ply_count`, the history of half-moves, the search stack;
  the state of the user interface and its two cursors.
* Operations: `chess_Step` with the key commands next, previous, select, back;
  in it marking, `chess_ManualMove`, `chess_ComputerMove`, undo, the menu.
* Hard: the search makes and takes back its moves on the one board that is
  shown; double steps, castlings and marks are state besides the men; the history
  is cut at its limit; the end of the game is told from a search.
* Correct: the moves the player is led to, whatever keys he presses, and the replies
  the search looks at are moves of chess; the search leaves no trace; the game ends when it is over; "Undo
  Move" takes back a full move.

### Chip drivers with a protocol in the chip, planned last

* `RF24` (nRF24L01+: auto-acknowledge and retransmission are in the chip; the
  driver keeps `payload_size`, `ack_payload_available`).
* `MCP2515` (CAN controller; the driver keeps which receive buffer it read last).
* `OneWire` (ROM search with state between the calls) under `DallasTemperature`.
* `EEPROMEx` (the next free address of the pool, checks of writes).

### Not planned

* `TinyWebServer`, `Webduino`, `RestClient`, `IOTFramework`, `LeweiClient`:
  one blocking request or answer at a time; the substance is text handling.
* `DHT*`, `Am2302Sensor`, `DS18B20`, `SHT1x`, `Si7005`, `MLX90614`, `dsm501`,
  `simpleDHT11`, `Adafruit_BMP085*`, `Adafruit_MLX90614`, `Adafruit_Sensor`:
  bit timing and formulas, no state between calls that a model would tell apart.
* `ds1302`, `I2Cmaster`, `SoftI2cMaster`: register and bus transactions.
* The rest of `U8glib`, `LiquidCrystal_I2C`, `LedControl`, `FastSPI_LED`,
  `Adafruit_GFX`, `Adafruit_ILI9341`, `Adafruit_ST7735`: drawing.
* `tinyfat` (a read-only FAT loader), `MemoryFree`.

The hazards of this code, each with its line and the properties that cover it,
are in `PROJECT.json`.

## 2. Plan

Modules, in the order in which they were written; the last item is left.

1. **Routing table.** `RF22Routes` (the table as a value), `RF22RoutingTable`
   (its calls), `RouteMap` (what it promises), `RF22RouteAge`, proofs.
2. **Reliable hop.** `RF22Reliable`, implementing `HopDelivery`.
3. **Driver.** `RF22Radio`: interrupt handler, main program and chip.
4. **Network.** `RF22Mesh`: `RF22Router` and `RF22Mesh` on hops that promise
   `HopDelivery`, each node with a table of `RF22Routes`.
5. **PubSubClient**: client, sketch, broker and connection.
6. **Modbus**: `ModbusFrames` (what a slave does with a request, as functions on
   its registers), `ModbusBus` (the polling master and slaves of both libraries
   on a line).
7. **Interrupt libraries**: `SoftwareSerial` (implementing `SerialQueue`),
   `MsTimer2`, `VirtualWire`, composed by `MCInterrupts`; `IRremote`.
8. **Chess**: `ChessMoves` (the generator), `ChessRules` (the rules, as the
   reference), `ChessGame` (the user interface and the game).
9. Left: **chip drivers** (OneWire search against the set of devices it must
   find, `EEPROMEx` pool, `MCP2515`, `RF24`), `ModbusIP`, `ModbusMaster`,
   `Tone_Itead`.

Theorems, in the order of their worth:

* done: the routing table (type, first match, refinement to `RouteMap`, the oldest
  route is the one retired);
  `RF22Reliable` (what is returned was sent, or is a broadcast of the node's own; and if a
  node that broadcasts is the only one that sends, fewer messages are sent than there are
  sequence numbers and nobody restarts, only duplicates are dropped and `HopDelivery` is
  refined); `RF22Mesh` (all four
  safety properties, for any network); `RF22Radio` (type, buffers, what is sent and what is received); `SoftwareSerial` (refinement to `SerialQueue` and what its
  functions promise); `MsTimer2` (calls one by one); the receive buffer of
  `VirtualWire` and what it returns; `PubSubClient` (type, acknowledged is seen, a dead broker is
  noticed, a live one is kept); `ModbusBus` (a success was served, a good reply is no error,
  broadcasts arrive); `IRremote` (a code that was recorded whole is decoded as it was sent, for
  every code of every protocol);
* left: what `IRremote` makes of codes that were not recorded whole, and the chess game.

The modules that are proved about are written for that: recursion is by
recursive functions, one action per call, handler or step, parameters as
constants with named assumptions. `ChessMoves` has RECURSIVE operators (the search
calls itself) and no theorems.

## 3. Modules

### The RF22 stack

```
RF22Mesh   ---- one table per node ---->  RF22Routes  <----  RF22RoutingTable
   |                                                          |        |
   | each hop is one step that                    implements  |        | EXTENDS
   | promises HopDelivery                                     v        v
   v                                                      RouteMap   RF22RouteAge
HopDelivery  <---- implements ----  RF22Reliable
                                        |  transmits atomically, a waiting
                                        |  packet's payload is overwritten
                                        v
                                    RF22Radio (driver + interrupts + chip)
```

Layers are not composed into one machine: the product would not be explored.
Each layer is checked against what the layer above assumes of it, and a
module's header names the assumption.

### Routing table: `RF22Routes`, `RF22RoutingTable`, `RouteMap`, `RF22RouteAge`

`_routes[]` is a function from slots to `[dest, next_hop, state]`. A slot is
never empty: an unused one is `Invalid` and keeps its old addresses, so the code
has two ways of looking for a destination. `addRouteTo` and `deleteRouteTo` stop
at the first entry with the destination, whatever its state (`SlotsOf`);
`getRouteTo` stops at the first that is not `Invalid` (`RoutesTo`). If these ever
differed, a deleted route would still be used. The initial states are all
contents of the memory, because the constructor sets only the states.
`DeleteRoute` is a `memcpy` of overlapping regions; the model has the outcome of
avr-libc's upward copy.

`RouteMap` is the promise: a map of at most `Capacity` destinations that loses
another route only when a new destination meets a full table. `MapOf` is the
refinement mapping. `RF22RouteAge` adds a history, which routes were set
up before which, to say when "oldest" in `retireOldestRoute` is true: while the
memory was zeroed at construction, the table has not been cleared and no
`Invalid` route has been added.

### Reliable hop: `RF22Reliable`, `HopDelivery`

| action | code |
|---|---|
| `SendtoWait` | `sendtoWait`: sequence number, first transmission; a broadcast returns |
| `AckArrives`, `OtherArrives` | the waiting loop: the acknowledgement it waits for, a repeated request that is acknowledged again, anything else, which is discarded |
| `Retransmit`, `GiveUp` | its timeout |
| `RecvAck`, `RecvBroadcast`, `RecvRequest`, `Accept` | `recvfromAck`; a request is acknowledged in one step and looked up in `_seenIds` in the next |
| `Reset` | power loss: all memory of the node is lost |

The radio is its effect: any subset of the nodes that listen with a free buffer
gets a packet. A sender transmits from the buffer it receives into, so a packet
waiting there has its payload replaced by what is sent; its headers are in registers and
survive. Timeouts are nondeterministic, with the one thing the code's order
guarantees: the poll precedes the test of the time, so a packet that was in the
buffer at the transmission has been looked at.

`HopDelivery` is what `RF22Router` relies on: each message is taken at most once
and in the order of its sender, `true` only if it was taken; `false` says nothing.
A message counts as taken when it has been acknowledged and is new.

### Driver: `RF22Radio`

Three actors share the record `r`: the chip (`Preamble`, `RxOctet`, `RxEnd`,
`TxOctet`, `TxEnd`), the handler (`Interrupt`, which takes all latched flags in
the order of the code) and the main program, broken where the handler can come
between: the two looks of `available` and the test and the two stores of `setModeRx` (`Available`, `Listen`, `SwitchOn`, `StoreMode`, `Look`), the atomic copy of `recv` and the later read of the headers (`Copy`, `Headers`),
`send` with its wait for the transmitter and its atomic block (`Send`,
`Transmit`), and `waitPacketSent`.

An octet is the number of the packet it belongs to, which is enough to see
whether a payload is whole, mixed or somebody else's. The chip is external,
modelled from how the driver uses it: thresholds, automatic switch-off after a
packet, FIFOs that keep their contents over a change of mode (RF22.cpp:499-501 says the latter) and lose what is written into them when they are full.

`crossed` records that a transmission was started while a packet waited or an
interrupt was latched. The safety properties of the payload hold until then;
what happens after is in section 8. `lost` records that the transmit FIFO has overflowed,
and `torn` that `_mode` was set to RX over a receiver that a packet had switched off
between the two stores of `setModeRx`.

### Network: `RF22Mesh`

| action | code |
|---|---|
| `SendtoWait` | `RF22Mesh::sendtoWait`: with a route, or after `doArp` |
| `RouteBroadcast`, `RouteSucceeds`, `RouteFails`, `NoRoute` | `RF22Router::route` and `RF22Mesh::route`: the hop, deletion of the route, the failure message to the originator |
| `Forward`, `Deliver`, `RecvSignal`, `IgnoreRequest`, `RecvRequest` | `RF22Router::recvfromAck` with `peekAtMessage`, and `RF22Mesh::recvfromAck` |
| `ArpReply`, `ArpOther`, `ArpTimeout` | the loop of `doArp` |

Every message a node receives is peeked at first, also when it goes on to
somebody else. The list of a discovery is a sequence of nodes. `peekAtMessage`
increments its index twice and reads one octet behind the list: `Peeked` has the
skipped node and an arbitrary address for that octet. A hop that fails may have
been taken, by `HopDelivery`. A node that is sending takes nothing, since
`RF22ReliableDatagram` discards what arrives while it waits.

### MQTT client: `PubSubClient`

| action | code |
|---|---|
| `Connect`, `Disconnect`, `Write` | `connect` up to its wait, `disconnect`, and `publish`, `subscribe`, `unsubscribe`; the last four also from the callback |
| `ConnectTimeout`, `ConnectReads`, `ReadConnack`, `ReadRefusal` | the wait for the CONNACK in `connect` and what it makes of the packet |
| `Loop`, `LoopGivesUp` | `loop`: keep-alive, the PINGREQ, giving up, `available` |
| `ReadPublish`, `CallbackReturns` | a PUBLISH, the callback, which may publish or subscribe, and the PUBACK |
| `ReadOther` | PINGREQ, PINGRESP and what `loop` ignores |
| `Broker`, `BrokerSends`, `Rest`, `Die`, `Cut`, `Tick` | the environment: a broker that answers, has messages of QoS 0 and 1 of its own, dies or has its connection cut, also in the middle of a packet; time |

Times are ages capped where the code stops telling them apart, so `millis()`
never has to wrap. `seen` and `inflight` are the two halves of the promise about a
QoS 1 message: it leaves the broker's window only by a PUBACK.

### Modbus: `ModbusFrames`, `ModbusBus`

`ModbusFrames` has the slaves as functions of a request: `SimpleModbusSlave` with
its three function codes, and the register bank of `Modbus` with eight of them,
its exceptions and what `ModbusSerial` sends. A value read from freed or unwritten
memory is `Junk`. `RequestFits` and `ReplyFits` are the 128 octets of the buffer that
`SimpleModbusSlave` and `SimpleModbusMaster` read a frame into; a longer one is dropped by the
first and an error to the second. `room` says whether `malloc` finds memory for the answer of the
register bank (`Built`). The order in which the code looks at function codes and errors is
kept by IF/ELSE chains: their conditions overlap, and a TLA+ CASE would choose any of them.
`ModbusBus` puts them on a line: `ModbusUpdate` is one call of
`modbus_update` in its three states, `Look(s)` one call of `modbus_update` or `task`
at a slave, `LookWithoutRoom(s)` one of `task` that gets no memory for its answer, `Measure` a slave's sketch changing a register, `Load` and `Reconnect` the
master's sketch setting its values and a connection flag, `Disturb` a lost, damaged
or invented frame. `prompt` separates two worlds: in the first the timeouts are
chosen so that every slave has looked at the line before the master goes on; in
the second answers come late.

### Libraries that share state with an interrupt handler

`MCInterrupts` composes `SoftwareSerial`, `MsTimer2` and `VirtualWire`; in a behaviour
one of them is in use and the others rest, since they share no state.

* `SoftwareSerial`: `Interrupt` (`Store`, `Drop`) is what `recv` does with a byte.
  `read` is in the steps `Read`, `ReadLoad`, `ReadAdvance`, `listen` in `Listen`,
  `Switch`, `overflow` in `Overflow`, `OverflowClear`, because the handler can come in
  between. `SerialQueue` is the promise: a queue of one byte less than the ring.
* `MsTimer2`: `Tick` is `_overflow`; `Sei` and `Return` are the sketch's function, which
  may enable interrupts and use the library. `Start` and `StartGoes` are the two
  halves of `start`: `count` is cleared first, `overflowing` cleared and the timer set going
  afterwards, and the handler can come in between.
* `VirtualWire`: the interrupt (`OnTheAir`, `Noise`, `Begins`) collects into the one
  buffer; `vw_get_message` is `GetMessage`, `GetLength`, `Copy`, `Clear`, `SumLength`, `Sum`,
  `Return`. `VwSend` and `TxEnds` suspend reception.

### Infrared: `IRremote`

`Sent(code)` is the list of marks and spaces `IRsend` makes of a code, `Ticks` what the
detector and the 50 us tick make of it. `Level` is the interrupt for all ticks of
one level of the line, `TickInResume` a tick between the two stores of `resume`,
`Quiet` the gap that ends a recording, `Decode` the decoders in the order of `decode`,
`Resume` its two stores. `Begin` is a remote: a code after a gap, whole
or cut off. All nine decoders are functions of the raw buffer and its length; some
read entries behind the length, so the old content of the buffer is kept.

### Chess: `ChessMoves`, `ChessRules`, `ChessGame`

`ChessMoves` is the engine: the generators of each man, `chess_ManualMove`'s and the
search's half-move with its undoing, the search with its cut-off. `ChessRules` is a
reference: when a move is one of chess, by ranks and files and attacked squares, and the
board after it. `ChessGame` is `chess_Step`: `NewGame`, `UndoMove`, `Return` of the menu; `SelectStart`,
`PieceKey`, `PieceSelect`, `TargetKey`, `TargetBack`, `TargetSelect` of the two cursors;
`ComputerMove` and `GameEnd`.

## 4. Runs

States are distinct states. All but `modbus_coils` finish with no error.

| run | module, configuration | states | shows |
|---|---|---|---|
| `routes_table` | `MCRF22RouteAge`, `RoutesTable` | 8,121 | from every memory content the table is a bounded map, and a tidy one retires its oldest route |
| `reliable_unicast` | `MCRF22Reliable`, `ReliableUnicast` | 100,713 | two nodes sending to each other with losses and two retransmissions: only duplicates are dropped, `HopDelivery` is implemented, every `sendtoWait` returns, an acknowledged message is returned |
| `reliable_broadcast` | `MCRF22Reliable`, `ReliableBroadcast` | 2,772,984 | two nodes that send and broadcast to each other and to a third, numbers that wrap around, a reset: what is returned is what was sent, or a broadcast of the node's own |
| `radio_duplex` | `MCRF22Radio`, `RadioDuplex` | 315,394 | two packets, two sends and a false preamble: whole packets once in order, `waitPacketSent` returns when the message is out, the receiver does not stay off but for one case of section 8 |
| `radio_fragments` | `MCRF22Radio`, `RadioFragments` | 2,089,823 | a buffer larger than the FIFO and a late handler: refills, underflow and restart, too long packets; messages go out as given until the FIFO overflows, which takes a message longer than the FIFO; the buffer never does |
| `mesh_kite` | `MCRF22Mesh`, `MeshKite` | 167,747 | discovery, delivery and failure on four nodes with a cycle: next hops are neighbours, lists are paths, one delivery, answers are routable, the network comes to rest |
| `modbus_bus` | `MCModbusBus`, `ModbusBus` | 320,154 | a master, a `SimpleModbusSlave` and a `ModbusSerial` slave on a line with faults: a success was served, a good reply is no error, broadcasts arrive, each connected packet gets its turn |
| `modbus_coils` | `MCModbusBus`, `ModbusCoils` | violation | see section 8 |
| `mqtt_session` | `MCPubSubClient`, `MqttSession` | 155,772 | client, sketch and broker over a connection that can be cut or go silent: a live broker is kept, a dead one noticed, QoS 1 is acknowledged after the callback and not before, calls return |
| `interrupts` | `MCInterrupts`, `Interrupts` | 206,383 | the ring is a queue and reports its drops but in two named cases, the timer calls one by one in every interval, only whole messages are returned, collecting ends |
| `ir_receiver` | `MCIRremote`, `IRremote` | 1,734,047 | codes of every protocol, whole or cut off, after gaps of three kinds: a code recorded whole and after a gap that the counter shows as long is decoded as what was sent; a value of the first `decode` of one code cut off, Panasonic's apart, is the beginning of that code's |
| `chess_game` | `MCChess`, `ChessGame` | 30,036 | six boards and every key: the moves the player is led to and the replies the search looks at are moves of chess, the search leaves no trace, the end of the game is true, undo takes back two half-moves |

Each property of a passing run has a mutant in `PROJECT.json`: a change to one
modelled definition, of the kind a bug in that code would make, that violates
the property on the same instance.

`CHECK_DEADLOCK FALSE` stands where the environment is finite: after the bounded
number of calls, packets, codes or half-moves nothing is left to do. The routing
table, the Modbus line, the MQTT session and the interrupt libraries go on for ever
and are checked for deadlock.

## 5. Bounds

* `TableSize = 3`, four addresses (`routes_table`): one destination more than
  fits, so that entries are evicted, moved, reused, and left Invalid in the first,
  the middle and the last slot. Nothing in the code depends on more than the
  first, a middle and the last slot; the theorems are for every size.
* `MaxCalls = 4` with two nodes (unicast), 3 with three of which two send (broadcast). Two
  messages in each direction give an earlier message whose duplicate or acknowledgement can
  interfere with the next one, and a node that sends, or broadcasts, with the other's request
  in its buffer. `Retries` is 2 (unicast) or 1 (broadcast): a lost
  message and a lost acknowledgement of one call.
* `SeqMod = 8 > MaxCalls` in `reliable_unicast`: the counter does not wrap inside a behaviour.
  With 256 messages it does, and then a new message may carry the ID last seen from
  its sender (section 8); `reliable_broadcast` has `SeqMod = 2`, so that it does, and one
  reset. `MaxResets` is 0 otherwise.
* `RF22Radio` keeps the inequalities between the real constants. Shipped:
  `MaxLen 50 < RxThreshold 55 < FifoSize 64`, `TxThreshold 4`. `radio_duplex` has
  3 < 4 < 5 and 1. `RF22.h` allows messages of up to 255 octets, more than
  the FIFO holds: `radio_fragments` has `MaxLen 7` over a FIFO of 5 with
  thresholds 1 and 4, so that messages need one, two or three loads of up to 3 octets, and, like
  the shipped loads of 59 octets in 64, two loads do not fit. Lengths 0 (`radio_duplex`) and
  `MaxLen + 1` are among the inputs.
* `MaxPackets`, `MaxSends` of 1 or 2 and one false preamble: the second packet
  meets what the first left behind, which is the whole state of the driver.
* `RF22Mesh`: four nodes, `TableSize = 3` (a table that can be full of the three
  other nodes), the octet behind a list can be any address. The networks are a
  chain, a diamond (test networks 1 and 2 of `RF22Router.cpp:218-233`) and a kite, a
  cycle behind one node, which makes two discovery paths of different length meet.
  `MaxHops` is 3, the longest loop-free path, or 2.
  The run has the kite with `MaxHops = 3` and `MaxSends = 1`.
* `Addr` in the mesh has one address that is no node's, for uninitialised octets.
* `ModbusBus`: two packets, from eight tables chosen for what meets in them: a read
  and a write of one station, two stations, a broadcast, bits and registers, requests
  out of range, of functions the slave has not and of 62 registers, whose reply is one
  register too long for the master's buffer (the slave reads 61 of them that it has not as 0); `RetryCount = 2`, so that the first failure and the last one
  differ; `CounterMod = 2`, since nothing reads the counters but the sketch and the
  properties compare them with their previous value; `MaxFaults = 1` in the prompt world, a disturbed frame or an answer without room, and
  `MaxNoise = 0` in the late one. In the late world answers may come in any later state.
* `PubSubClient`: `KeepAlive = 4`, `Period = Delay = 1`: a keep-alive longer than a
  round trip and a period together, as the code needs, and short enough for several pings and
  several connections in a behaviour. `MaxUnderWay = 2`: two packets of the broker meet
  in the client. `IdMod = 3` makes the packet identifier wrap past 0.
* `interrupts`: `Size = 3`, the smallest ring with a middle slot, two ports, the
  octets 1 and 255;
  `Intervals = {0, 2, 3}` (0 is taken for 1) with `MaxDepth = 3` nested calls; messages
  with one and two octets of text, and room for 1 and 5 at the caller;
  `InCall = 2` octets at most come during one `vw_get_message`.
* `IRremote`: the shipped `RawBuf = 100` and real microseconds. Thirteen codes, `Excess` of
  50 and 150 us by which the detector stretches a mark (100 is the value the code
  assumes), gaps of 20 ticks (shorter than the silence that ends a code), 936
  (between the two frames of `sendSharp`, the second of them with ten bits inverted),
  and 65560 (the counter has just wrapped), cuts after 3 and 41 entries and none.
  Two codes: the second meets what the first left in the buffer.
* `ChessGame`: `CHM_USER_SIZE = 2` half-moves instead of 6, so that the history is cut
  inside a behaviour. `plies` bounds the half-moves of each setup, 2 or 4: the shipped
  board, the engine's own test board, castling, pawns that pass each other or are about to be
  queens, two kings and a pawn (the history is cut), and two rooks that mate.

## 6. Fairness

* `RF22Reliable!FairSpec`: weak fairness of `Steps(n)`, the loops inside
  `sendtoWait` and `recvfromAck`. They contain nothing but polls and a timer, so
  they go on without anybody's help. Calling `recvfromAck` is the application's
  choice: receiving and sending have no fairness, and neither has the air.
* `RF22Radio!FairSpec`: weak fairness of the chip finishing what it began, of
  the interrupt handler and of the main loop. There is no fairness of
  packets arriving, nor of `Send`. `radio_duplex` has `Late = FALSE`: nobody
  else disables interrupts for the time of an octet. With `Late = TRUE` no
  liveness is claimed.
* `RF22Mesh!FairSpec`: weak fairness of the steps of each node: every loop polls
  and has a timeout. Which outcome a hop has is not fair: `RouteFails` may be
  taken each time, and a broadcast may reach nobody.
* `ModbusBus!FairSpec`: both sketches go on calling their update functions.
* `PubSubClient!FairSpec`: the client's blocking calls go on by themselves, a live
  broker reads what is sent to it and finishes what it began, time passes. The
  broker is taken as strongly fair: a connection that is cut again and again must not
  keep it from ever answering. Cutting and dying are not fair.
* `VirtualWire!Fairness` (in `BoardSpec`): the timer interrupt comes again, and
  `vw_get_message` is not stopped. The interrupt always has something to do (noise,
  if no message).
* `IRremote` and `ChessGame` have no fairness: what happens there is up to a user.

## 7. Proofs

### `RF22RoutingTableProofs`

Checked by TLAPS, for every `TableSize \in Nat \ {0}`,
every set `Addr` and every `AddStates \subseteq RouteState`; these two assumptions
are the only ones.

* `TypeCorrect`: `Spec => []TypeOK`.
* `FirstMatchCorrect`: `Spec => []FirstMatchIsTheRoute`.
* `RouteMapCorrect`: `Spec => IsARouteMap`, the refinement to `RouteMap`.
* `OldestIsRetired`: `AgedSpec => TidyTableRetiresOldest`.

`FirstMatchIsTheRoute`, that both scans of the code agree, is the reason why the
table can be a map; no run repeats it, since `IsARouteMap` fails without it.

The argument. `FirstMatchIsTheRoute` (no live entry has an entry with the same
destination before it, live or not) is inductive together with the type: the
invariant is `Inv == TypeOK /\ FirstMatchIsTheRoute`. The weaker statement "no
destination has two live entries" would not be: an Invalid entry before a live
one could be revived by `addRouteTo`. `ScanStopsAtFirst` says what `Min` of a
nonempty set of slots is, by well-foundedness of the strict subset ordering.
`DeleteRouteKeeps` and `AddRouteToKeeps` show that each update preserves the
invariant; the second rests on `FullTableShifts`, which shows that the loop
without a `return` in `addRouteTo` fills exactly one slot. For the refinement
`DeleteRouteMap`, `UpdateMap`, `FillMap` and `EvictMap` say what each update does to
the map, `MapIsFull` and `MapHasRoom` relate its size to the free slots, and
there is one lemma per action (`AddIsRouteMapStep`, ...).

`OldestIsRetired` is about the specification with the history. That the live entries
stand in the order of their age is not inductive: a deleted entry leaves
its old destination behind the live ones, and `addRouteTo` takes an entry
with the destination it adds before it looks for the first free one.
`Tidied` therefore says three things: the live entries come first (`Compact`), they are in
order of age (`InOrder`), and the others all have the same destination (`OneRest`), so
that whichever of the two searches finds an entry for a new route, it is the one right
behind the live ones. Zeroed memory is tidied; `clearRoutingTable` and a route
added as Invalid break `OneRest`, which is why the property excludes them. Every way a
call changes a table keeps it (`DeleteTidies`, `UpdateTidies`, `FillTidies`,
`EvictTidies`), and in a full tidied table the first entry is the oldest (`OldestIsFirst`).

### `RF22ReliableProofs`

For any `Node`, `Retries`, `MaxCalls`, `Senders` and `To` of `ReliableAssumption`.

* `ReturnsWhatWasSent`: `Spec => []PayloadIntact`, whoever sends and broadcasts. Restarts and
  numbers that wrap around do no harm to it. The exception in `PayloadIntact` is needed: section
  8 says what happens.
* `DropsOnlyDuplicates`: `Spec => DroppedIsDuplicate`, and
* `ImplementsHopDelivery`: `Spec => DeliversByHop`, both under `Usage`: `OneBroadcasts` (if there are
  broadcasts, one node does all the sending), `MaxCalls < SeqMod` (the numbers do not wrap
  around) and `MaxResets = 0`. All three are needed (section 8).

The argument for what is returned. Headers cannot change, since they are in registers of the chip,
and a payload is lost only when a node transmits with a packet in its buffer. `Intact` says
that a request in a buffer has the payload of the call its headers name, or (`Laid`) its node has
broadcast since it came, or its node waits with that very payload: `sendtoWait` takes every packet
out and returns none, and its timer is read only after a look at the buffer, so what is left when
it ends has come after its last transmission (`EndIntact`). A broadcast is not waited for, and what
it leaves in the buffer is returned. Nothing in `Intact` is about numbers.

The argument for the other two. The number of a call is how many calls its sender has made up to it
(`Seqs`), so the numbers of one sender grow (`SeqsGrow`) and a new call gets the
next (`NewCall`). The invariant `Inv` follows a message: a node waits for the last of
its calls (`Waiting`), so what it sends again is not older than anything its receiver
has returned; a request in a buffer is a call with that property (`Buffered`), and
stays so, because the buffer of a receiver holds one packet and is empty while it decides
(`Acknowledged`). `Remembered` says that the number in `_seenIds` is that of the youngest
message returned; comparing with it is then the same as comparing with all of
them (`SeenWasReturned`). An acknowledgement in a buffer is for a call that was taken.
`Calm` is used beside it, which is `Intact` and what `OneBroadcasts` adds: the node that
broadcasts is asked for nothing (`Unasked`), so nothing is sent through a buffer with a request in
it, what is looked at is what was sent (`CalmIsGiven`), and a node that waits finds no broadcast. There is one lemma per action (`SendtoWaitKeeps`,
`RecvRequestKeeps`, ...); `DeliverKeeps` is for a message that was acknowledged and for a broadcast; `SoundIsBuffered` has what the three that transmit have in common.
For the refinement, `SendIsBegin`, `ReturnIsReturn`, `RequestIsTake`, `BroadcastIsTake` and
`AcceptIsStutter` map the actions to those of `HopDelivery`.

### `RF22MeshProofs`

For every `Node`, `Links`, `TableSize`, `MaxHops`, `MaxSends` and `Addr` of the
assumptions of `RF22Routes` and `RF22Mesh`. The module begins with what the operations on a
table do; `RF22RoutingTableProofs` has the lemmas of these that it needs.

* `RoutesLeadToNeighbours`: `Spec => []NextHopIsNeighbour`.
* `DiscoveriesArePaths`: `Spec => []ListIsAPath`.
* `MessagesDeliveredOnce`: `Spec => []DeliveredOnce`.
* `AnswersRoutable`: `Spec => []AnswerIsRoutable`.

The argument. One invariant `Inv` holds them together, since a step of a node changes
its table, its message and its call at once. `OneAtATime`: a node routes what it has
received before it takes the next message, and what it holds came from a
neighbour or is its own. `HopsInv`: every live next hop is a neighbour. `PathInv`: the list of
a request or response in transit, behind its originator, is a path, and that of
a request ends at the node it came from. `CallsInv`: the message of a call is for
the address the call names, and in one place: waiting for its route, under way at one node,
or returned. There is one lemma for every
action. `AddRoutes` is a recursive function over the list of a message: `AddRoutesKeeps`
says that what one `AddRouteTo` keeps all of them keep. An induction theorem of the
library cannot be used for that; `CountingUp` is the induction over a finite interval it needs,
from well-foundedness of the strict subset ordering, with the set as its
parameter and not an operator. `AnswerIsRoutable` is about the moment when the
answer is made (`hops = 0`): a route can be lost later.

### `RF22RadioProofs`

For all lengths and thresholds of `RadioAssumption`, any number of packets, messages and
false preambles.

* `TypeCorrect`: `Spec => []TypeOK`.
* `BuffersHold`: `Spec => []NothingOverflows`: the message buffer never overflows, and the transmit
  FIFO only when the handler is late and a message is longer than the FIFO (section 8).
* `SentAsGiven`: `Spec => []SentIsGiven` and `WaitsUntilSent`: `Spec => WaitMeansSent`, both until
  the transmit FIFO overflows. By `BuffersHold` it does not as long as `MaxLen <= FifoSize`, as
  shipped (50 in 64), or nobody holds off the handler.
* `ReceivesWholeOnceInOrder`: `Spec => []RecvWholeOnceInOrder` under `AsShipped`: the
  handler is not late, `MaxLen < RxThreshold`, and no packet is longer than `MaxLen`. TLC
  finds counterexamples without any one of the three: a fragment in `_buf` is
  taken by a `recv` that has looked at `_rxBufValid` before the preamble; a preamble is
  processed after its packet; the octets of a packet that is refused stay in the FIFO
  (all three in section 8).

The argument. Until a transmission starts in the way of a reception (`crossed`) or octets are
lost (`lost`), the transmitter is quiet, or it is busy with the last message: what it has
transmitted and what is in its FIFO add up to what was taken from the buffer, or the
FIFO has run empty, or all is out (`Sending`); and when the low-water mark is latched, no more
than the threshold is in the FIFO (`Low`), so that a refill by itself fits. A refill that
does not fit therefore follows a restart in the same run of the handler (`InterruptLoses`): two
flags were latched together, and what was loaded and what is left of the message are more than
the FIFO. The handler is taken apart by
one lemma for each operation on the record of the radio (`SendNextFragmentIs`,
`StartTransmitIs`, ...), and `HandlerBusy`, `HandlerSilent` say what a run of it makes of a transmission.
For reception, a packet that comes in is alone in the FIFO, and the buffer is empty
from its preamble on (`Receiving`); what was returned, what `recv` has copied and what
waits are packets in the order in which they came (`Ordered`).

### `InterruptsProofs`

About the board of `MCInterrupts` and its three libraries, one after the other.

* `SoftwareSerial`, for every size of the ring of at least 2, every set of ports and
  of octets (`SizeAssumption`, `PortAssumption`, `ByteAssumption`): `TypeCorrect`,
  `PromiseIsKept` (what `available` and `peek` said stays true until the sketch reads, `peek`
  by its eight bits),
  `ReadsWhatWasReceived`, `DropsAreReported`, and `RingIsAQueue`: `Spec => IsAQueue`, the
  refinement to `SerialQueue`. The invariant says that the slots from head to
  tail are filled, that `d` of a read in progress is what is at the head, and that what
  was announced is not more than the ring holds. `RingIsASequence` turns the
  slots into a sequence; `StoreIsArrive` and `ReadAdvanceIsTake` map the handler's and the
  sketch's access to the two ends.
* `CallsOneByOne`: `BoardSpec => []TimerCallsOneByOne`, for every set of intervals up to
  `MaxCount` (`Bounds`). The invariant adds that `overflowing` is set while a call runs
  unless `start` was called from it (`Guarded`), and that `count` is never behind the
  time since the last call (`Counted`).
* `BufferHolds`: `BoardSpec => []WireBufferFits`, for every size of the buffer and
  messages of any length (`WireSizes`): the interrupt stays inside its buffer,
  whatever is on the air, and what it announces is long enough for what
  `vw_get_message` takes off its length. The invariant adds that collecting begins
  only with a count that the buffer has room for.
* `TrueMeansWhole`: `BoardSpec => WireTrueIsWhole`, for messages of at least four octets, of which
  at most four come during `vw_get_message` (`WireMessages`; its copy takes a fraction of the time of
  one). The bound is exact: with five, TLC has the shortest message come whole between the copy and
  the sum, and `vw_get_message` returns true with octets of two messages. The invariant
  says that octets are in the buffer in their order (`InOrder`), and that what was announced is
  either still there, or replaced by fewer octets than any message has (`Still`, `Renewed`). So the
  last octet of what is summed was there all the time, and tells of all that were
  copied before (`Summing`).

### `PubSubClientProofs`

All under `TimeAssumption` alone, for every keep-alive time, delay, period, range of
identifiers and `MaxUnderWay`.

* `TypeCorrect`.
* `AcknowledgedIsSeen`: `Spec => AckedIsSeen`.
* `DeadBrokerIsNoticed`: `Spec => []DeadBrokerNoticed`.
* `LiveBrokerIsKept`: `Spec => []LiveBrokerKept`. That no live broker is given up has
  the condition on the keep-alive time that the property itself states; how long such
  a broker may not hear from the client is proved for every timing.

**Acknowledged is seen.** A QoS 1
message of the broker is in exactly one place: on its way, in the client's hands,
in `seen`, or lost with a connection (`OnePlace`). With the type that is inductive, and the only
action that takes a message out of the broker's window is a PUBACK for one in `seen`.

**Dead is noticed.** How long the client goes on depends on what the broker has left to
read, so the packets are counted first (`Room`): there are never more than `MaxUnderWay`, a
PINGREQ and a PUBACK more. The PUBACK belongs there: TLC refuted the bound without it, since
the callback sends it whatever is under way. `Line` says which state goes with which:
no packets without a connection, nothing to a broker that is dead. `Silent` then bounds the
silence by what the client has done in the meantime: one `Period` for every packet that it has
read, which are `MaxUnderWay + 1` less those that are left, and the time since the last
`loop()`; when nothing is left, the age of what it has last read, or the keep-alive time, and
a keep-alive time and a `Period` more if a PINGREQ is already outstanding. One lemma for each
kind of step shows that it is kept (`SilentTake`, `SilentLoop`, `SilentTick`, `SilentDie`).

**Live is kept.** Three parts. `Accepting`: during `connect()` the CONNECT is with the broker,
or its answer is with the client, and no part of the exchange is older than
`Delay`. `Heard`: after it, what the broker has not heard for long the client
has not sent for long, so `loop()` sends a PINGREQ. `Awaited`: with a PINGREQ outstanding,
either it is still before the broker, or its answer has begun, or the answer is at some place of
the queue; and the ages of the client are no more than the broker's delay and one
`Period` for every packet that `loop()` has read or has still before it. At the moment at which
`loop()` would give the broker up, that sum is at most
`Delay + (MaxUnderWay + 1) * Period`, so it has not come to the keep-alive time.

### `ModbusBusProofs`

For any packets, slaves, registers, retry count and number of disturbances, under the
assumptions of `ModbusBus`, which TLC evaluates on its instances: station numbers and function
codes are those of the protocol, a packet stays in its address space, a `SimpleModbusSlave` has
up to 255 registers in an array (its `index` is an `unsigned char`), and what the two libraries put
together in their buffer of 128 octets fits: requests to write up to 59 registers or 959 coils, and
to read up to 61 registers of a `SimpleModbusSlave` (`PacketAssumption`, `SlaveAssumption`). Beyond
them the code writes behind the buffer. What the buffers *receive* may be of any length:
a reply of the register bank with more than 61 registers is an error on every line, and
`Supported`, the precondition of `NoFalseAlarm` and `BroadcastReaches`, ends at 61 registers read and 59
written, the numbers of `SimpleModbusMaster.h:63-70`.

* `SuccessHolds`: `Spec => SuccessIsServed`.
* `NoFalseAlarmHolds`: `Spec => NoFalseAlarm`.
* `BroadcastHolds`: `Spec => BroadcastReaches`.

The argument. A slave keeps its addresses whatever it hears (`SlaveKeeps`), is silent about what
is for others (`SlaveIsSilent`), and otherwise answers once, with its own number and the function
or a refusal of it (`SlaveAnswers`). What it has and the master asks for is answered in the shape that
`processReply` accepts (`SlaveServes`: for coils, up to seven of them, where both sides count one
octet, and with values that fit the master's buffer), and a `SimpleModbusSlave` that reports
a write as done, or hears a broadcast that fits, has its registers written (`SlaveExecutes`). `Outcome` says what `processReply` makes of a frame. None of
that can be told from one frame alone, since `waiting_for_reply` compares only the station
and the shape: what makes it enough is who may still answer. `Line`: nothing is left of an exchange when the
next begins; in one, only the slave that is asked may answer until the master has heard
something, and nobody after that. It is inductive because the turnaround delay ends only when every slave has
looked at its port; without `prompt` a late answer to one packet is taken for that to the
next of the same station (section 8). `Exchange` and `Spreading` say where
on an undisturbed line a request is, or that its answer is there. A register bank without room
answers a refusal, which ends both: it counts as a disturbance.

### `IRremoteProofs`

* `CodesAreRead`: `Spec => []CodeIsRead`.

For any set of codes of the protocols, with every value of their bits: 32 bits for NEC, 48 for Panasonic, 16
for JVC and its repeat, 12 to 32 for Sony, 11 to 32 for RC5, 5 to 32 for RC6, NEC's repeat, and
SHARP and DISH codes of up to 32 bits among them, which are sent but have no decoder
(`CodesAssumption`; a word of `data` has 32 bits. With fewer bits than that Sony's and RC5's decoders
refuse some codes for their length, `MIN_RC5_SAMPLES` being 11, and the proof for RC6 is about codes that go on
behind the fourth bit, the long one); a detector that makes marks up to 150 us longer (`DetectorAssumption`; the
tolerances of the decoders are made for 100), any
phase of the ticks, any gaps and cuts, any number of codes, and the buffer as shipped
(`RawBufAssumption`). TLC evaluates these assumptions on the run's constants.

The argument has two halves. The first is about functions. An entry of a recording is within one
tick of the time that was sent, a mark longer and a space shorter by what the detector makes of
it (`TicksAreNear`, from the two roundings in `SeenApart`). Within that a decoder's 25 per cent
tell a one from a zero (`NECIsRead`, `SonyIsRead`, ...), and each decoder that `decode` asks before
the right one fails (RC5's, for instance, at the first or the second entry of the codes of
others: `FirstFailsRC5`, `SecondFailsRC5`). RC5 and RC6 send levels, and equal
neighbours become one mark or space: `JoinedIs` says that `Joined` sends the runs of the levels, as
a function from the run to where it begins, which exists because the members of a set of
numbers have an order (`NthInOrder`); `LevelsAreRuns` that the decoder, which does not see the
last space, gets the same levels back from the runs; `RC5OfLevels` and `RC6OfLevels` that
it gets the bits from these. `ReadIsDecoded` collects the protocols.

The second half is about the interrupt. `CodeInv` is inductive: as long as a code may still be
whole, the receiver is in one of three places of it (`Recorder`). It is under way, and the buffer holds the
entries up to the last edge and `timer` is one less than the last level; or the next code is due and
the last mark has not ended; or all is there. `TickIs` and `RunIs` are the handler; `ALevelIs`
what it does in all ticks of a level; `UnderWayGoesOn`, `EndIsHeard` and `AllStays` take the
receiver from one place to the next. A code fits the buffer and none of its spaces is
as long as the gap that ends a recording (`CodesAreShaped`, `ShapedOnAir`), so neither a full buffer nor
`_GAP` ends it early. Between the two stores of `resume` nothing can be whole, because the second drops
what a tick between them has begun. TLC checked `CodeInv` on the constants of `ir_receiver`
before it was proved.

### What is only model-checked

`DecodedWasSent`: what the decoders make of codes cut off or run into one another; and the chess game. Liveness under
fairness is not provable with the backends used; nor is an induction over data whose claim
cannot be put as a set over an interval, nor anything about a RECURSIVE operator, which
the search of the chess game is.

## 8. Known disagreements with the code

One run checks what a comment says and finds it violated by what the code does.

* `modbus_coils`: `readCoils` decrements `numregs` before it computes the index of the
  octet (`Modbus.cpp:339`, and `readInputStatus` in the same order), so every eighth
  coil is put into the next octet, or behind the reply. `SimpleModbusMaster.h:83` says
  that function 1 reads the status of the coils.

Seen while modelling, with no run of their own:

RF22

* A sender numbers from 1 again after a restart. If its last message before had
  ID 1, the first one after is acknowledged and dropped as a duplicate;
  `RF22ReliableDatagram.h:142-144` speaks of duplicates only.
* The eight-bit sequence counter serves all destinations. When the traffic with
  others has moved it round to the ID a receiver last saw, a new message is
  acknowledged and dropped.
* A broadcast, or any transmission, while a received packet waits overwrites that
  packet's payload. `sendtoWait` to one node discards such a packet or takes only its
  headers from it; after a broadcast it is still there, and `recvfromAck` returns it with the
  octets of the broadcast and the headers of the other's message. `PayloadIntact` names this as the one exception, and `reliable_broadcast` has two nodes that
  broadcast, so that it happens.
* A packet longer than `RF22_MAX_MESSAGE_LEN` is refused but its octets stay in the
  receive FIFO, and the next packet is read from them (if the chip keeps its FIFO
  over a change of mode).
* For messages longer than the FIFO, a late handler finds the underflow of the transmit
  FIFO and its low-water mark latched together (`RF22.cpp:202-217`): it starts the
  transmission again, with one load of the FIFO, and then refills it at once with the next. TLC shows the
  overflow with `MaxLen = 7`, `FifoSize = 5`; `RF22.h:374-376` says that 255 is the longest
  message.
* With messages longer than the threshold, `recv` can copy the first fragment of a packet
  that is still coming in, if a preamble came between `available` and `recv`.
* A late handler that finds a preamble and the end of its packet latched together looks
  at the end first, with `_bufLen` still that of the message sent before: a shorter packet is
  refused, and the next one is read from the octets it leaves in the FIFO.
* A reception that ends while `send` has interrupts disabled is processed
  afterwards with the length of the message being sent, so that `recv` returns the
  application's own message. After it `waitPacketSent` can return in the middle of a
  transmission, and octets of one that was cut short stay in the transmit FIFO.
* `available` calls `setModeRx` with interrupts enabled. If, after its write to the chip, a whole packet
  comes in before it stores `_mode` (`RF22.cpp:488-489`), the handler's IDLE is replaced by RX with the receiver
  off, and `setModeRx` does nothing from then on: the node hears nothing until it sends
  a message itself. `NeverDeaf` fails without its last disjunct (`torn`).
* Between the two looks of `available` a packet can be announced that the
  preamble handler has cleared by the time `recv` copies it: `recv` returns an
  empty packet. `RecvWholeOnceInOrder` allows it.
* `doArp` takes any discovery response for the one it waits for. The late answer to
  an earlier discovery makes its bearer the next hop to another address.
* `peekAtMessage` skips the node behind itself on the list of a response, where
  `RF22Mesh.cpp:94` says it learns the routes to all of them.
* After `clearRoutingTable` or a route added as Invalid, or in memory that was not
  zero, a full table may give up a younger route than the oldest, which
  `RF22Router.h:94` names.
* A node that answers a discovery adds the route to the originator first and
  those to the listed nodes after it; when the table is full the former can be
  retired by the latter and the answer is lost. With the ten entries shipped this
  takes ten other known destinations. `AnswerIsRoutable` says exactly that.

MQTT client

* When the connection goes silent in the middle of a packet, `readByte` waits for
  ever: `loop` and `connect` do not return. `CallsReturn` is about a live broker.
* `publish_P` returns false for a remaining length of 128 or more although it has sent
  the packet (`PubSubClient.cpp:326`).
* A QoS 1 packet that does not fit the buffer is neither given to the callback nor
  acknowledged. A QoS 2 message is given to the callback as if of QoS 0.
* A callback that publishes overwrites its own topic and payload; the documentation of
  the library says so.
* `connect` takes any packet of four octets with a zero in the last for a CONNACK. A
  correct broker sends no other first. The length of a packet is cut to eight bits, which the
  shipped buffer of 128 octets keeps from mattering.

Modbus

* The values of a multiple write are read from the frame after it was freed and
  another one of the reply's size was allocated in its place: the registers get what
  the allocator left there. `SuccessIsServed` therefore leaves out what such a write stores.
* An exception to a read of any kind carries the code of Read Coils.
* A late reply is taken for the answer to the next packet of the same station, function
  and length, and from then on every reply is; no later event puts the master right.
* `RetryCount = 0` makes a failing packet be tried for ever. The master's broadcast
  address 0 is not `ModbusSerial`'s, which is 255.
* Both ends find out about an overflow after they stored one octet behind `frame[128]`
  (`SimpleModbusMaster.cpp:215-218`, `SimpleModbusSlave.cpp:81-83`), on the master's side the
  next variable in memory. Nothing checks that what they send fits: more than 59 registers
  or 959 coils to write in one packet, or than 61 registers to read of a `SimpleModbusSlave`,
  go over the end of the buffer, and a slave with more than 255 registers can be asked for a block
  whose end its `index` never reaches. The assumptions of `ModbusBus` leave these out.
* `exceptionResponse` and `ModbusSerial::task` do not look at what `malloc` gave them. Of the allocations that
  may fail, the model has those the code checks.
* `ModbusIP` writes its length as `_len | 0xFF`.

Interrupt libraries

* `overflow` of `SoftwareSerial` reads and clears its flag in two steps: a byte lost in between
  is not reported. `listen` clears the flag of its port (`SoftwareSerial.cpp:180`): a byte lost
  there, another port listened to, and the first again, and nobody hears of it. Those two are
  what `DropIsReported` allows; `during` and `forgotten` name the ports.
* `peek` returns a `char` of the ring as an `int` (`SoftwareSerial.cpp:514`): octets from 128
  on come out negative, and 255 as -1, which means that there is nothing. `read` goes through
  a `uint8_t` and does not.
* `MsTimer2::start` in the timer's function
  clears `overflowing`, after which the function can be entered while it runs; an overflow
  pending at `start` makes the first interval a millisecond short.
* `vw_get_message` looks at `vw_rx_len` twice: when the next message begins in between, the
  length it takes 3 from can be 0 and becomes 253; the checksum then fails. The message that
  waited is lost as well.

IRremote

* `resume` sets the state and then the length, and the interrupt can come in
  between: the recording is then one entry off, or an old full buffer is decoded a
  second time.
* The tick counter has 16 bits and wraps after 3.28 s. A code that begins within 5 ms of
  it is lost, and a short first entry makes the SANYO decoder report a repeat. `CodeIsRead`
  is about gaps that do not.
* `decodePanasonic` does not look at the length. A DISH code whose marks are stretched by
  100 us or more is taken for a JVC repeat, a NEC code cut off after its leader's bits
  for JVC, and two RC5 or RC6 codes that the receiver has run into one for anything.

Chess

* `chess_ManualMove` erases the side's `pawn_dbl_move` after `cu_Move` has set it
  (`chessengine.c:1665`), so on the real board nobody can take en passant.
* A rook that is taken leaves its castling flag; castling is then offered without a rook.
  The square beside the rook must not be attacked on the queen's side, which chess does
  not ask for, and an enemy king beside the way is not counted.
* NEXT behind the last mark gives target 255; SELECT then makes a move to it, a store at
  `board[127]`. The comment at line 448 says positions are between 0 and 63.
* The test for the end of the game after a player's move is made before the marks are
  cleared, and a marked empty square counts as a white man: a mate can be missed, and
  the machine then "moves" from square 255.
* With one half-move in the history "Undo Move" takes back that one and two from
  `ply_count`. PREV reaches a1 from no other square, only from "Options", and from a1 it
  goes to the last marked square. Stalemate is valued as a win.

## 9. What is not modelled

* `RF22`: register access, modem configuration, frequency, power, temperature,
  ADC, wakeup timer and frequency hopping, which write registers and keep no state.
* `RF22ReliableDatagram`: the durations of the timeouts; a broadcast with
  `waitPacketSent` interrupted.
* `RF22Router`: serial dump of the table, the end-to-end sequence number (nothing
  reads it), flags.
* `RF22Mesh`: empty and over-long application messages (an empty one shortens
  the buffer of `doArp` for the rest of its wait), sends to the broadcast address,
  and restarts of nodes.
* `PubSubClient`: payloads to a `Stream`, a callback that calls `connect`, the contents of
  topics and payloads, `publish_P` of 128 octets or more.
* Modbus: `ModbusIP`, `ModbusIP_ENC28J60`, `ModbusMaster`; the error counter of
  `SimpleModbusSlave`; octets, CRC and byte counts of intact frames; the wrap of `millis()`.
* `SoftwareSerial`: bit timing and the bits of `write`. `VirtualWire`: samples, the
  phase-locked loop, symbols and the content of what is sent. `Tone_Itead`.
* `IRremote`: the value of `decodeHash`, the blink flag; no liveness is claimed.
* Chess: key debouncing, the cursor of the menu, drawing, the wrap of `ply_count` at
  256, the weights of the evaluation (any of the best replies may be taken). A game
  stops in the model when a move went to a square that is none (`offboard`).
* The other libraries, as said in section 1.
