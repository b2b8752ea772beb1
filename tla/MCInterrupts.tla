---------------------------- MODULE MCInterrupts ----------------------------
(* The libraries whose interrupt handler shares state with the sketch, each  *)
(* on a small instance: one of them is in use, the others are at rest.       *)
EXTENDS SoftwareSerial, TLC

CONSTANTS Intervals, MaxDepth, MaxCount, Message, Length, MaxLen, Room, InCall

VARIABLES
    library,
    msecs, running, count, overflowing, calls, open, halfway, idle, restarted,
    air, enabled, transmitting, collecting, done, octets, mem, len, at, room,
    copied, summed, sumlen, inCall, fresh

Timer == INSTANCE MsTimer2
Wire == INSTANCE VirtualWire WITH pc <- at, count <- octets

\* A message of one octet and one of two.
Lengths == "a" :> 4 @@ "b" :> 5

timer == <<msecs, running, count, overflowing, calls, open, halfway, idle,
           restarted>>
wire == <<air, enabled, transmitting, collecting, done, octets, mem, len, at,
          room, copied, summed, sumlen, inCall, fresh>>
Board == <<library, vars, timer, wire>>

BoardInit ==
    /\ library \in {"SoftwareSerial", "MsTimer2", "VirtualWire"}
    /\ Init /\ Timer!Init /\ Wire!Init

BoardNext ==
    /\ UNCHANGED library
    /\ \/ library = "SoftwareSerial" /\ Next
          /\ UNCHANGED <<timer, wire>>
       \/ library = "MsTimer2" /\ Timer!Next
          /\ UNCHANGED <<vars, wire>>
       \/ library = "VirtualWire" /\ Wire!Next
          /\ UNCHANGED <<vars, timer>>

BoardSpec ==
    BoardInit /\ [][BoardNext]_Board /\ (library = "VirtualWire" => Wire!Fairness)
-----------------------------------------------------------------------------
\* MsTimer2::_overflow(): its function is called in every interval and never
\* while it runs, unless it has called start() itself.
TimerCallsOneByOne == Timer!TimerCallsOneByOne

\* VirtualWire: the buffer holds what it has room for, and what is announced
\* is long enough for vw_get_message() to take three from its length.
WireBufferFits == Wire!WireBufferFits

\* VirtualWire: vw_get_message() returns true only for a whole message, once.
WireTrueIsWhole == Wire!TrueIsWhole

\* VirtualWire: collecting ends, also after a start symbol nobody sent.
WireCollectingEnds == Wire!CollectingEnds
=============================================================================
