--------------------------- MODULE SoftwareSerial ---------------------------
(***************************************************************************)
(* The receiving side of SoftwareSerial: the interrupt handler puts bytes  *)
(* into one ring that all ports share, the sketch takes them out.  The     *)
(* handler can run between any two accesses of the sketch to what they     *)
(* share, except where listen() and flush() have interrupts off.  What     *)
(* write() does to reception, a byte lost or misread while it has them     *)
(* off, is a byte that does not arrive or another one that does.           *)
(***************************************************************************)
EXTENDS Integers, Sequences

CONSTANTS
    Port,       \* the SoftwareSerial objects
    NoPort,     \* no such object
    Byte,       \* the octets that can be received
    Size        \* _SS_MAX_RX_BUFF, 64

ASSUME SizeAssumption == Size \in Nat \ {0, 1}
ASSUME PortAssumption == NoPort \notin Port
ASSUME ByteAssumption == Byte \subseteq 0..255

Slot == 0..(Size - 1)

VARIABLES
    active,     \* active_object
    buffer, head, tail,         \* the ring; a slot never written holds <<>>
    overflow,   \* _buffer_overflow of each port
    pc, port, d,        \* the sketch's call: where it is, of which port, and
                        \* the byte that read() has taken from the ring
    out,        \* what read() returned last
    promised,   \* history: what available() said and was not read since
    peeked,     \* history: what peek() returned of the byte that is next
    missed,     \* history: ports with a lost byte that nobody has heard of
    during,     \* history: those where overflow() was just being called
    forgotten   \* history: those where listen() cleared the flag after it

ring == <<buffer, head, tail>>
losses == <<missed, during, forgotten>>
history == <<promised, peeked, losses>>
vars == <<active, ring, overflow, pc, port, d, out, history>>

\* (i + 1) % _SS_MAX_RX_BUFF
Succ(i) == IF i + 1 = Size THEN 0 ELSE i + 1

\* Mutant: the difference of the indices is taken as it is.
CountPlain == IF tail >= head THEN tail - head ELSE 0

\* available(): (tail + _SS_MAX_RX_BUFF - head) % _SS_MAX_RX_BUFF
Count == IF tail >= head THEN tail - head ELSE tail + Size - head

At(k) == IF head + k < Size THEN head + k ELSE head + k - Size
Contents == [k \in 1..Count |-> buffer[At(k - 1)]]

Init ==
    /\ active = NoPort
    /\ buffer = [i \in Slot |-> <<>>] /\ head = 0 /\ tail = 0
    /\ overflow = [p \in Port |-> FALSE]
    /\ pc = "idle" /\ port = NoPort /\ d = <<>> /\ out = <<>>
    /\ promised = 0 /\ peeked = <<>>
    /\ missed = {} /\ during = {} /\ forgotten = {}

Full == Succ(tail) = head

\* recv() of the active object: the byte is stored if there is room.
Store(b) ==
    /\ active # NoPort /\ ~Full
    /\ buffer' = [buffer EXCEPT ![tail] = <<b>>]
    /\ tail' = Succ(tail)
    /\ UNCHANGED <<active, head, overflow, pc, port, d, out, history>>

Drop ==
    /\ active # NoPort /\ Full
    /\ overflow' = [overflow EXCEPT ![active] = TRUE]
    /\ missed' = missed \cup {active}
    /\ during' = IF pc = "clear" /\ port = active THEN during \cup {active}
                                                  ELSE during \ {active}
    /\ forgotten' = forgotten \ {active}
    /\ UNCHANGED <<active, ring, pc, port, d, out, promised, peeked>>

\* read(): the emptiness test, the byte, the new head.
Read(p) ==
    /\ pc = "idle" /\ active = p /\ head # tail
    /\ pc' = "load" /\ port' = p
    /\ UNCHANGED <<active, ring, overflow, d, out, history>>

ReadLoad ==
    /\ pc = "load"
    /\ d' = buffer[head] /\ pc' = "advance"
    /\ UNCHANGED <<active, ring, overflow, port, out, history>>

ReadAdvance ==
    /\ pc = "advance"
    /\ head' = Succ(head)
    /\ out' = d /\ pc' = "idle"
    /\ promised' = IF promised > 0 THEN promised - 1 ELSE 0
    /\ peeked' = <<>>
    /\ UNCHANGED <<active, buffer, tail, overflow, port, d, losses>>

Available(p) ==
    /\ pc = "idle" /\ active = p
    /\ promised' = Count
    /\ UNCHANGED <<active, ring, overflow, pc, port, d, out, peeked, losses>>

\* An octet in a char of the ring becomes an int with its sign: 255 is -1, which
\* is also what peek() returns when there is nothing.  read() goes through a
\* uint8_t.
Extended(b) == IF b < 128 THEN b ELSE b - 256

Peek(p) ==
    /\ pc = "idle" /\ active = p /\ head # tail
    /\ peeked' = <<Extended(buffer[head][1])>>
    /\ UNCHANGED <<active, ring, overflow, pc, port, d, out, promised, losses>>

Empty == head' = 0 /\ tail' = 0 /\ promised' = 0 /\ peeked' = <<>>

Flush(p) ==
    /\ pc = "idle" /\ active = p
    /\ Empty
    /\ UNCHANGED <<active, buffer, overflow, pc, port, d, out, losses>>

\* listen(): the flag first, reported or not, the rest with interrupts off.
Listen(p) ==
    /\ pc = "idle" /\ active # p
    /\ overflow' = [overflow EXCEPT ![p] = FALSE]
    /\ forgotten' = forgotten \cup ({p} \cap missed)
    /\ pc' = "switch" /\ port' = p
    /\ UNCHANGED <<active, ring, d, out, promised, peeked, missed, during>>

Switch ==
    /\ pc = "switch"
    /\ Empty
    /\ active' = port /\ pc' = "idle"
    /\ UNCHANGED <<buffer, overflow, port, d, out, losses>>

\* overflow(): reads the flag, then clears it.
Overflow(p) ==
    /\ pc = "idle"
    /\ LET reported == IF overflow[p] THEN {p} ELSE {}
       IN /\ missed' = missed \ reported
          /\ during' = during \ reported
          /\ forgotten' = forgotten \ reported
    /\ pc' = "clear" /\ port' = p
    /\ UNCHANGED <<active, ring, overflow, d, out, promised, peeked>>

\* Mutant: one flag for all ports.
OverflowClearAll ==
    /\ pc = "clear"
    /\ overflow' = [p \in Port |-> FALSE]
    /\ pc' = "idle"
    /\ UNCHANGED <<active, ring, port, d, out, history>>

OverflowClear ==
    /\ pc = "clear"
    /\ overflow' = [overflow EXCEPT ![port] = FALSE]
    /\ pc' = "idle"
    /\ UNCHANGED <<active, ring, port, d, out, history>>

Interrupt == Drop \/ \E b \in Byte : Store(b)

Sketch ==
    \/ ReadLoad \/ ReadAdvance \/ Switch \/ OverflowClear
    \/ \E p \in Port : \/ Read(p) \/ Available(p) \/ Peek(p)
                       \/ Flush(p) \/ Listen(p) \/ Overflow(p)

Next == Interrupt \/ Sketch

Spec == Init /\ [][Next]_vars
-----------------------------------------------------------------------------
TypeOK ==
    /\ active \in Port \cup {NoPort} /\ port \in Port \cup {NoPort}
    /\ buffer \in [Slot -> {<<>>} \cup {<<b>> : b \in Byte}]
    /\ head \in Slot /\ tail \in Slot
    /\ overflow \in [Port -> BOOLEAN]
    /\ pc \in {"idle", "load", "advance", "switch", "clear"}
    /\ promised \in Nat /\ missed \subseteq Port
    /\ during \subseteq Port /\ forgotten \subseteq Port

\* What available() has announced can be read, whatever arrives before it is,
\* and what peek() has shown are the eight bits read() finds: the same number
\* for an octet below 128, and 256 less for the others, -1 for 255.
PromiseKept ==
    /\ promised <= Count
    /\ peeked # <<>> => Count > 0 /\ buffer[head] = <<peeked[1] % 256>>

\* read() never returns a slot that nothing was received into, or one that
\* the handler is filling again: the byte it has loaded is still there.
LoadedIsHead ==
    /\ pc \in {"load", "advance"} => Count > 0
    /\ pc = "advance" => d = buffer[head] /\ d # <<>>

\* A byte that found no room is reported by the next overflow() of its port but
\* in two cases: it came while overflow() of that port was being called, between
\* its reading the flag and clearing it, or the port had to listen() again before
\* overflow() was called, and listen() clears the flag.
DropIsReported ==
    \A p \in missed : overflow[p] \/ p \in during \/ p \in forgotten

\* The ring is a queue of one byte less than it has slots.
Queue == INSTANCE SerialQueue
    WITH Capacity <- Size - 1,
         queue <- [k \in DOMAIN Contents |-> Contents[k][1]],
         out <- out
IsAQueue == Queue!Spec
=============================================================================
