------------------------------ MODULE MsTimer2 ------------------------------
(***************************************************************************)
(* MsTimer2: an interrupt every millisecond counts up to msecs and calls   *)
(* the sketch's function.  The function runs in the handler; if it enables *)
(* interrupts the handler can be entered again while it runs, and is then  *)
(* kept from calling it again by `overflowing`.  The function may use the  *)
(* library itself.  set() stops the timer first, so that msecs is never    *)
(* read half written.                                                      *)
(***************************************************************************)
EXTENDS Integers

CONSTANTS
    Intervals,  \* what set() is called with; 0 counts as 1
    MaxDepth,   \* bound on calls that run one inside the other
    MaxCount    \* counts above it are not told apart; at least max Intervals

VARIABLES
    msecs, running,     \* running: the timer's interrupt is enabled
    count, overflowing,
    calls,      \* calls of the function that run, one inside the other
    open,       \* the innermost of them has enabled interrupts
    halfway,    \* the levels of `calls` at which start() has put the count to
                \* 0 and not yet `overflowing`; 0 is the sketch
    idle,       \* history: milliseconds since the last call or start()
    restarted   \* history: start() was called by a call that still runs

vars == <<msecs, running, count, overflowing, calls, open, halfway, idle,
          restarted>>

Older(n) == IF n < MaxCount THEN n + 1 ELSE n

Init ==
    /\ msecs = 0 /\ running = FALSE
    /\ count = 0 /\ overflowing = FALSE
    /\ calls = 0 /\ open = FALSE /\ halfway = {}
    /\ idle = 0 /\ restarted = FALSE

\* set(), start() and stop() from the sketch or from the function.
Set(ms) ==
    /\ calls \notin halfway
    /\ msecs' = IF ms = 0 THEN 1 ELSE ms
    /\ running' = FALSE
    /\ UNCHANGED <<count, overflowing, calls, open, halfway, idle, restarted>>

Start ==
    /\ calls \notin halfway /\ msecs > 0
    /\ count' = 0 /\ idle' = 0
    /\ halfway' = halfway \cup {calls}
    /\ UNCHANGED <<msecs, running, overflowing, calls, open, restarted>>

StartGoes ==
    /\ calls \in halfway
    /\ overflowing' = FALSE /\ running' = TRUE
    /\ halfway' = halfway \ {calls}
    /\ restarted' = (restarted \/ calls > 0)
    /\ UNCHANGED <<msecs, count, calls, open, idle>>

Stop ==
    /\ calls \notin halfway
    /\ running' = FALSE
    /\ UNCHANGED <<msecs, count, overflowing, calls, open, halfway, idle,
                   restarted>>

\* Mutant: what kept the function from being called is not looked at.
DueAlways == count + 1 >= msecs

Due == count + 1 >= msecs /\ ~overflowing

\* The interrupt and _overflow(), up to the call of the function.
Tick ==
    /\ running /\ (calls = 0 \/ open)
    /\ IF Due
       THEN /\ calls < MaxDepth /\ calls' = calls + 1
            /\ open' = FALSE
            /\ overflowing' = TRUE /\ count' = 0 /\ idle' = 0
       ELSE /\ count' = Older(count)
            /\ idle' = IF calls > 0 THEN 0 ELSE Older(idle)
            /\ UNCHANGED <<overflowing, calls, open>>
    /\ UNCHANGED <<msecs, running, halfway, restarted>>

Sei ==
    /\ calls > 0 /\ ~open
    /\ open' = TRUE
    /\ UNCHANGED <<msecs, running, count, overflowing, calls, halfway, idle,
                   restarted>>

\* Mutant: the flag that keeps the function from being called stays set.
ReturnBlocked ==
    /\ calls > 0 /\ calls \notin halfway
    /\ calls' = calls - 1
    /\ open' = (calls > 1)
    /\ restarted' = (restarted /\ calls > 1)
    /\ UNCHANGED <<msecs, running, count, overflowing, halfway, idle>>

\* The function returns, to the call it interrupted or to the sketch.
Return ==
    /\ calls > 0 /\ calls \notin halfway
    /\ calls' = calls - 1
    /\ overflowing' = FALSE
    /\ open' = (calls > 1)
    /\ restarted' = (restarted /\ calls > 1)
    /\ UNCHANGED <<msecs, running, count, halfway, idle>>

Next == Start \/ StartGoes \/ Stop \/ Tick \/ Sei \/ Return
        \/ \E ms \in Intervals : Set(ms)

Spec == Init /\ [][Next]_vars
-----------------------------------------------------------------------------
\* The function is not called while it runs, though it has enabled interrupts,
\* unless it has called start() itself, which clears `overflowing`.
NotReentered == calls <= 1 \/ restarted

\* While the timer runs no interval goes by without a call: after a call has
\* ended, or after start(), the next begins within msecs milliseconds.
NoneMissed == running /\ calls = 0 /\ 0 \notin halfway => idle < msecs

\* _overflow() calls the function one call after the other, one an interval.
TimerCallsOneByOne == NotReentered /\ NoneMissed
=============================================================================
