------------------------------ MODULE IRremote ------------------------------
(***************************************************************************)
(* IRremote: what IRsend puts on the air for a code, how the receiver's    *)
(* interrupt records it in ticks of 50 us, and how the sketch decodes and  *)
(* resumes while the next code may begin.                                  *)
(*                                                                         *)
(* A code is a protocol and its bits.  Times on the air are exact but for  *)
(* what the detector adds to every mark and takes from every space, and    *)
(* for where in a tick a code begins.  The interrupt is modelled a level   *)
(* of the line at a time, for all its ticks.                               *)
(***************************************************************************)
EXTENDS Integers, Sequences, FiniteSets, FiniteSetsExt

CONSTANTS
    Codes,      \* what remotes send: [type, bits]
    Excess,     \* how much longer a detector makes a mark, in us
    Late,       \* where in a tick a code begins, in us
    Gaps,       \* quiet ticks before a code
    Cuts,       \* marks and spaces after which a code may be cut off
    MaxCodes,   \* bound on the codes sent
    RawBuf      \* RAWBUF, 100

VARIABLES
    last,       \* the code on the air or the last that was: [code, gap, upTo]
    sent,       \* how many there were
    place,      \* in it: 0 in the gap before, k in its k-th mark or space
    passed,     \* 1 if one tick of that has passed, else 0
    excess, late,
    timer, rcvstate, rawbuf, rawlen,        \* irparams
    pc, result,     \* the sketch: decode(), then the two stores of resume()
    rec,        \* history: codes on the air since the recording began
    whole       \* history: it holds one code from its first mark to its last

Mark == 0
Space == 1
GapTicks == 100

-----------------------------------------------------------------------------
(* What a sketch hands to IRsend: a protocol, and as many bits as its decoder *)
(* reads; Sony's, RC5's and RC6's read how many there are, from the least on. *)

IsCode(code, type, lengths) ==
    \E n \in lengths : code \in [type : {type}, bits : [1..n -> {0, 1}]]

ASSUME CodesAssumption ==
    \A code \in Codes :
        \/ IsCode(code, "NEC", {32}) \/ code = [type |-> "NECrepeat", bits |-> <<>>]
        \/ IsCode(code, "SONY", 12..32) \/ IsCode(code, "PANASONIC", {48})
        \/ IsCode(code, "RC5", 11..32) \/ IsCode(code, "RC6", 5..32)
        \/ IsCode(code, "JVC", {16}) \/ IsCode(code, "JVCrepeat", {16})
        \/ IsCode(code, "SHARP", 1..32) \/ IsCode(code, "DISH", 1..32)

\* The decoders expect a detector that makes marks longer, by MARK_EXCESS, 100.
ASSUME DetectorAssumption == Excess \subseteq 0..150 /\ Late \subseteq Nat
ASSUME GapsAssumption == Gaps \subseteq Nat /\ Cuts \subseteq Nat
ASSUME RawBufAssumption == RawBuf = 100

-----------------------------------------------------------------------------
(* IRsend.                                                                 *)

\* Header mark and space, mark and space of a one and of a zero, and whether
\* a last mark ends the last space; 0 is no header.
Distance(hm, hs, mark, one, zero, stop) ==
    [hm |-> hm, hs |-> hs, m1 |-> mark, s1 |-> one, m0 |-> mark, s0 |-> zero,
     stop |-> stop]
Timing ==
    [NEC |-> Distance(9000, 4500, 560, 1600, 560, TRUE),
     SONY |-> [hm |-> 2400, hs |-> 600, m1 |-> 1200, s1 |-> 600, m0 |-> 600,
               s0 |-> 600, stop |-> FALSE],
     PANASONIC |-> Distance(3502, 1750, 502, 1244, 400, TRUE),
     JVC |-> Distance(8000, 4000, 600, 1600, 550, TRUE),
     JVCrepeat |-> Distance(0, 0, 600, 1600, 550, TRUE),
     SHARP |-> Distance(0, 0, 245, 1805, 795, TRUE),
     DISH |-> Distance(400, 6100, 400, 1700, 2800, FALSE)]

Flat(f, n) == [k \in 1..(2 * n) |-> f[(k + 1) \div 2][2 - (k % 2)]]

\* sendNEC() to sendDISH(): marks and spaces in turn; the last space of a
\* code is the beginning of the gap.
SendPulses(t, bits) ==
    LET n == Len(bits)
        pulses == Flat([i \in 1..n |-> IF bits[i] = 1 THEN <<t.m1, t.s1>>
                                                     ELSE <<t.m0, t.s0>>], n)
    IN  (IF t.hm = 0 THEN <<>> ELSE <<t.hm, t.hs>>)
        \o (IF t.stop THEN Append(pulses, t.m0)
                      ELSE SubSeq(pulses, 1, 2 * n - 1))

\* Levels of one length each, joined where they are equal.
Joined(levels, t) ==
    LET starts == {i \in DOMAIN levels : i = 1 \/ levels[i] # levels[i - 1]}
        nth(k) == CHOOSE i \in starts : Cardinality({j \in starts : j < i}) = k - 1
        end(k) == IF k = Cardinality(starts) THEN Len(levels) ELSE nth(k + 1) - 1
        runs == [k \in 1..Cardinality(starts) |-> t * (end(k) - nth(k) + 1)]
    IN  IF levels[Len(levels)] = Space THEN SubSeq(runs, 1, Len(runs) - 1)
                                       ELSE runs

\* sendRC5(): a one is a space and a mark; sendRC6(): a mark and a space, the
\* fourth bit twice as long.
RC5Levels(bits) ==
    <<Mark, Space, Mark>>
    \o Flat([i \in DOMAIN bits |-> <<bits[i], 1 - bits[i]>>], Len(bits))
RC6Levels(bits) ==
    LET halves == Flat([i \in DOMAIN bits |-> <<1 - bits[i], bits[i]>>],
                       Len(bits))
    IN  <<Mark, Space>> \o SubSeq(halves, 1, 6)
        \o <<halves[7], halves[7], halves[8], halves[8]>>
        \o SubSeq(halves, 9, Len(halves))

\* Marks and spaces of a code in us.  sendSharp() sends two: the second, with the
\* bits of SHARP_TOGGLE_MASK inverted, begins 46.8 ms after the last mark of the
\* first and is a code of its own, of the same type.
Sent(code) ==
    CASE code.type = "RC5" -> Joined(RC5Levels(code.bits), 889)
      [] code.type = "RC6" -> <<2666, 889>> \o Joined(RC6Levels(code.bits), 444)
      [] code.type = "NECrepeat" -> <<9000, 2250, 560>>
      [] OTHER -> SendPulses(Timing[code.type], code.bits)

\* In ticks: the interrupt sees an edge at the next tick, and the end of a
\* mark `excess` late.
Ticks(code, e, l) ==
    LET us == Sent(code)
        edge[k \in 0..Len(us)] == IF k = 0 THEN l ELSE edge[k - 1] + us[k]
        seen(k) == (edge[k] + (IF k % 2 = 1 THEN e ELSE 0)) \div 50
    IN  [k \in DOMAIN us |-> seen(k) - seen(k - 1)]

OnAir == [code \in Codes |-> [e \in Excess |-> [l \in Late |-> Ticks(code, e, l)]]]
-----------------------------------------------------------------------------
(* Decoders: b is rawbuf, all of it, and n is rawlen.                       *)

Match(ticks, us) == ticks >= (us * 3) \div 200 /\ ticks <= (us * 5) \div 200 + 1
MatchMark(ticks, us) == Match(ticks, us + 100)
MatchSpace(ticks, us) == Match(ticks, us - 100)

Err == [type |-> "ERR", bits |-> <<>>, repeat |-> FALSE]
Repeat(type) == [type |-> type, bits |-> <<>>, repeat |-> TRUE]
Result(type, bits) == [type |-> type, bits |-> bits, repeat |-> FALSE]

\* `bits` pulses from entry `from` on, the space telling a one from a zero.
DistanceBits(b, from, bits, mark, one, zero) ==
    [ok |-> \A i \in 0..(bits - 1) :
                /\ MatchMark(b[from + 2 * i], mark)
                /\ \/ MatchSpace(b[from + 2 * i + 1], one)
                   \/ MatchSpace(b[from + 2 * i + 1], zero),
     bits |-> [i \in 1..bits |->
                  IF MatchSpace(b[from + 2 * i - 1], one) THEN 1 ELSE 0]]

\* Mutant: the rest of the buffer is taken for the code, whatever its length.
decodeNECUnbounded(b, n) ==
    LET d == DistanceBits(b, 3, 32, 560, 1600, 560)
    IN  IF ~MatchMark(b[1], 9000) THEN Err
        ELSE IF n = 4 /\ MatchSpace(b[2], 2250) /\ MatchMark(b[3], 560)
        THEN Repeat("NEC")
        ELSE IF MatchSpace(b[2], 4500) /\ d.ok THEN Result("NEC", d.bits)
        ELSE Err

decodeNEC(b, n) ==
    LET d == DistanceBits(b, 3, 32, 560, 1600, 560)
    IN  IF ~MatchMark(b[1], 9000) THEN Err
        ELSE IF n = 4 /\ MatchSpace(b[2], 2250) /\ MatchMark(b[3], 560)
        THEN Repeat("NEC")
        ELSE IF n >= 68 /\ MatchSpace(b[2], 4500) /\ d.ok
        THEN Result("NEC", d.bits)
        ELSE Err

\* Pairs of a space and a mark from entry `from` on, up to a space that does
\* not match: how many, whether all marks do, and their bits.
WidthBits(b, n, from, space, one, zero) ==
    LET pairs == {j \in 0..49 : from + 2 * j + 1 < n}
        good == {j \in pairs : \A i \in 0..j : MatchSpace(b[from + 2 * i], space)}
    IN  [ok |-> \A j \in good : \/ MatchMark(b[from + 2 * j + 1], one)
                                \/ MatchMark(b[from + 2 * j + 1], zero),
         bits |-> [i \in 1..Cardinality(good) |->
                      IF MatchMark(b[from + 2 * i - 1], one) THEN 1 ELSE 0]]

\* A first entry below 500 or 800 ticks is a repeat of any protocol.
decodeSony(b, n) ==
    LET w == WidthBits(b, n, 2, 600, 1200, 600)
    IN  IF n < 26 THEN Err
        ELSE IF b[0] < 500 THEN Repeat("SANYO")
        ELSE IF MatchMark(b[1], 2400) /\ w.ok /\ Len(w.bits) >= 12
        THEN Result("SONY", w.bits)
        ELSE Err

decodeSanyo(b, n) ==
    LET w == WidthBits(b, n, 3, 950, 2400, 700)
    IN  IF n < 26 THEN Err
        ELSE IF b[0] < 800 THEN Repeat("SANYO")
        ELSE IF /\ MatchMark(b[1], 3500) /\ MatchMark(b[2], 3500)
                /\ w.ok /\ Len(w.bits) + 1 >= 12
        THEN Result("SANYO", w.bits)
        ELSE Err

\* Entries 2, 4, ... tell the bits, by times the header calls marks.
decodeMitsubishi(b, n) ==
    LET one(k) == MatchMark(b[k], 1950)
        pairs == {j \in 0..48 : 3 + 2 * j < n}
        before(j) == \A i \in 0..(j - 1) : MatchSpace(b[3 + 2 * i], 350)
        seen == {j \in pairs : before(j)}
    IN  IF /\ n >= 34 /\ MatchMark(b[1], 350)
           /\ \A j \in seen : one(2 + 2 * j) \/ MatchMark(b[2 + 2 * j], 750)
           /\ Cardinality(seen) >= 16
        THEN Result("MITSUBISHI", [i \in 1..Cardinality(seen) |->
                                      IF one(2 * i) THEN 1 ELSE 0])
        ELSE Err

\* getRClevel(): an entry is one, two or three units of its level.
Units(ticks, us) ==
    LET fits == {u \in 1..3 : Match(ticks, us[u])}
    IN  IF fits = {} THEN 0 ELSE Min(fits)
EntryLevels(b, k, t1) ==
    LET level == IF k % 2 = 1 THEN Mark ELSE Space
        corrected == [m \in 1..3 |-> m * t1 + (IF level = Mark THEN 100 ELSE -100)]
        units == Units(b[k], corrected)
    IN  IF units = 0 THEN <<-1>> ELSE [i \in 1..units |-> level]

Levels(b, n, from, t1) ==
    LET upTo[k \in (from - 1)..(n - 1)] ==
            IF k < from THEN <<>> ELSE upTo[k - 1] \o EntryLevels(b, k, t1)
    IN  IF n <= from THEN <<>> ELSE upTo[n - 1]

\* After the end of the recording there is space.
LevelAt(levels, p) == IF p <= Len(levels) THEN levels[p] ELSE Space

decodeRC5(b, n) ==
    LET l == Levels(b, n, 1, 889)
        bits == (Len(l) - 2) \div 2
        first(i) == LevelAt(l, 2 + 2 * i)
    IN  IF /\ n >= 13
           /\ LevelAt(l, 1) = Mark /\ LevelAt(l, 2) = Space /\ LevelAt(l, 3) = Mark
           /\ \A i \in 1..bits :
                 {first(i), LevelAt(l, 3 + 2 * i)} = {Mark, Space}
        THEN Result("RC5", [i \in 1..bits |-> first(i)])
        ELSE Err

decodeRC6(b, n) ==
    LET l == Levels(b, n, 3, 444)
        start(i) == IF i <= 4 THEN 1 + 2 * i ELSE 3 + 2 * i
        half(i) == IF i = 4 THEN 2 ELSE 1
        bits == Cardinality({i \in 1..Len(l) : start(i) <= Len(l)})
        first(i) == LevelAt(l, start(i))
        second(i) == LevelAt(l, start(i) + half(i))
    IN  IF /\ n >= 1 /\ MatchMark(b[1], 2666) /\ MatchSpace(b[2], 889)
           /\ LevelAt(l, 1) = Mark /\ LevelAt(l, 2) = Space
           /\ \A i \in 1..bits : {first(i), second(i)} = {Mark, Space}
           /\ bits >= 4 => /\ LevelAt(l, 10) = first(4)
                           /\ LevelAt(l, 12) = second(4)
        THEN Result("RC6", [i \in 1..bits |-> 1 - first(i)])
        ELSE Err

\* Neither looks at rawlen before it reads forty-eight bits.
decodePanasonic(b, n) ==
    LET d == DistanceBits(b, 3, 48, 502, 1244, 400)
    IN  IF MatchMark(b[1], 3502) /\ MatchMark(b[2], 1750) /\ d.ok
        THEN Result("PANASONIC", d.bits) ELSE Err

decodeJVC(b, n) ==
    LET d == DistanceBits(b, 3, 16, 600, 1600, 550)
    IN  IF n = 34 /\ MatchMark(b[1], 600) /\ MatchMark(b[33], 600)
        THEN Repeat("JVC")
        ELSE IF /\ n >= 33 /\ MatchMark(b[1], 8000) /\ MatchSpace(b[2], 4000)
                /\ d.ok /\ MatchMark(b[35], 600)
        THEN Result("JVC", d.bits)
        ELSE Err

\* The value of decodeHash() is not modelled.
decodeHash(b, n) == IF n < 6 THEN Err ELSE Result("UNKNOWN", <<>>)

Decoders(b, n) ==
    << decodeNEC(b, n), decodeSony(b, n), decodeSanyo(b, n),
       decodeMitsubishi(b, n), decodeRC5(b, n), decodeRC6(b, n),
       decodePanasonic(b, n), decodeJVC(b, n), decodeHash(b, n) >>

\* decode(): the first that does not fail.
decode(b, n) ==
    LET d == Decoders(b, n)
        good == {i \in DOMAIN d : d[i] # Err}
    IN  IF good = {} THEN Err
        ELSE d[CHOOSE i \in good : \A j \in good : i <= j]
-----------------------------------------------------------------------------
(* The interrupt.                                                          *)

Receiver == [timer |-> timer, rcvstate |-> rcvstate, rawbuf |-> rawbuf,
             rawlen |-> rawlen]

Later(t, n) == (t + n) % 65536

\* The first thing in the handler: a full buffer stops the recording.
Stopped(r) == IF r.rawlen >= RawBuf THEN [r EXCEPT !.rcvstate = "stop"] ELSE r

\* Mutant: the time goes on.
RecordSum(r, state) ==
    [timer |-> r.timer, rcvstate |-> state,
     rawbuf |-> [r.rawbuf EXCEPT ![r.rawlen] = r.timer],
     rawlen |-> r.rawlen + 1]

Record(r, state) ==
    [timer |-> 0, rcvstate |-> state,
     rawbuf |-> [r.rawbuf EXCEPT ![r.rawlen] = r.timer],
     rawlen |-> r.rawlen + 1]

\* One tick: the handler, with the level it reads.
Tick(r, level) ==
    LET t == Stopped([r EXCEPT !.timer = Later(r.timer, 1)])
    IN  CASE t.rcvstate = "idle" /\ level = Mark ->
                 IF t.timer < GapTicks THEN [t EXCEPT !.timer = 0]
                                       ELSE Record([t EXCEPT !.rawlen = 0], "mark")
          [] t.rcvstate = "mark" /\ level = Space -> Record(t, "space")
          [] t.rcvstate = "space" /\ level = Mark -> Record(t, "mark")
          [] t.rcvstate = "space" /\ level = Space /\ t.timer > GapTicks ->
                 [t EXCEPT !.rcvstate = "stop"]
          [] t.rcvstate = "stop" /\ level = Mark -> [t EXCEPT !.timer = 0]
          [] OTHER -> t

\* n ticks of the level the line is already in.
Run(r, level, n) ==
    LET t == Stopped([r EXCEPT !.timer = Later(r.timer, n)])
    IN  CASE n = 0 -> r
          [] n > 0 /\ t.rcvstate \in {"idle", "stop"} /\ level = Mark ->
                 [t EXCEPT !.timer = 0]
          [] n > 0 /\ t.rcvstate = "space" /\ t.timer > GapTicks ->
                 [t EXCEPT !.rcvstate = "stop"]
          [] OTHER -> t

Set(r) ==
    /\ timer' = r.timer /\ rcvstate' = r.rcvstate
    /\ rawbuf' = r.rawbuf /\ rawlen' = r.rawlen
-----------------------------------------------------------------------------
irparams == <<timer, rcvstate, rawbuf, rawlen>>
remote == <<last, sent, place, passed, excess, late>>
history == <<rec, whole>>
vars == <<remote, irparams, pc, result, history>>

NoCode == [type |-> "none", bits |-> <<>>]

Init ==
    /\ last = [code |-> NoCode, gap |-> 0, upTo |-> -1]
    /\ sent = 0 /\ place = 0 /\ passed = 0
    /\ excess \in Excess /\ late \in Late
    /\ timer = 0 /\ rcvstate = "idle" /\ rawlen = 0
    /\ rawbuf = [i \in 0..(RawBuf - 1) |-> 0]
    /\ pc = "idle" /\ result = Err
    /\ rec = <<>> /\ whole = FALSE

OnLine == place <= last.upTo
Pulses == OnAir[last.code][excess][late]
LineLevel == IF place % 2 = 1 THEN Mark ELSE Space
TicksLeft == (IF place = 0 THEN last.gap ELSE Pulses[place]) - passed

\* A remote sends a code, after a gap, the whole of it or the first `cut`
\* marks and spaces; the rest is not seen by the detector.
Begin(code, gap, cut) ==
    LET n == Len(OnAir[code][excess][late]) IN
    /\ ~OnLine /\ sent < MaxCodes
    /\ last' = [code |-> code, gap |-> gap, upTo |-> IF cut < n THEN cut ELSE n]
    /\ sent' = sent + 1 /\ place' = 0 /\ passed' = 0
    /\ UNCHANGED <<excess, late, irparams, pc, result, history>>

InResume == pc \in {"half", "late"}

\* The recording begins, or goes on into the code that now begins.
Recorded ==
    LET starts == place = 1 /\ passed = 0
        begins == rcvstate = "idle" /\ rcvstate' # "idle"
        joined == rcvstate = "space" /\ rcvstate' = "mark" /\ starts
    IN  /\ rec' = CASE begins -> <<last.code>>
                    [] joined -> Append(rec, last.code)
                    [] OTHER -> rec
        /\ whole' = IF begins THEN starts /\ last.upTo = Len(Pulses)
                               ELSE whole /\ ~joined

\* All ticks of a level; while resume() is between its stores, one tick.
Level ==
    /\ OnLine /\ ~InResume
    /\ Set(Run(Tick(Receiver, LineLevel), LineLevel, TicksLeft - 1))
    /\ Recorded
    /\ place' = place + 1 /\ passed' = 0
    /\ UNCHANGED <<last, sent, excess, late, pc, result>>

TickInResume ==
    /\ OnLine /\ pc = "half" /\ TicksLeft > 1
    /\ Set(Tick(Receiver, LineLevel))
    /\ Recorded
    /\ passed' = 1 /\ pc' = "late"
    /\ UNCHANGED <<last, sent, place, excess, late, result>>

\* No code comes, and the recording ends.
Quiet ==
    /\ ~OnLine /\ ~InResume /\ rcvstate \in {"mark", "space"}
    /\ Set(Run(Tick(Receiver, Space), Space, GapTicks + 10))
    /\ UNCHANGED <<remote, pc, result, history>>

\* decode() does nothing before the recording has stopped; it calls resume()
\* itself when it fails, else the sketch does.
Decode ==
    /\ pc = "idle" /\ rcvstate = "stop"
    /\ result' = decode(rawbuf, rawlen)
    /\ pc' = "resume"
    /\ UNCHANGED <<remote, irparams, history>>

ResumeState ==
    /\ pc = "resume"
    /\ rcvstate' = "idle" /\ pc' = "half"
    /\ UNCHANGED <<remote, timer, rawbuf, rawlen, result, history>>

ResumeLen ==
    /\ InResume
    /\ rawlen' = 0 /\ pc' = "idle"
    /\ whole' = (whole /\ rcvstate = "idle")
    /\ UNCHANGED <<remote, timer, rcvstate, rawbuf, result, rec>>

Resume == ResumeState \/ ResumeLen

Next ==
    \/ Level \/ TickInResume \/ Quiet \/ Decode \/ Resume
    \/ \E c \in Codes, gap \in Gaps, cut \in Cuts : Begin(c, gap, cut)

Spec == Init /\ [][Next]_vars
-----------------------------------------------------------------------------
\* What decode() returns for a code that has a decoder.
Expected(code) ==
    CASE code.type = "NECrepeat" -> Repeat("NEC")
      [] code.type = "JVCrepeat" -> Repeat("JVC")
      [] OTHER -> Result(code.type, code.bits)

\* A code that was recorded from its first mark to its last, and alone, after a
\* gap that the tick counter shows to be 40 ms or more (a counter that has just
\* wrapped shows less), is decoded as what IRsend was called with, by the decoder
\* of its protocol.
CodeIsRead ==
    /\ pc = "resume" /\ whole /\ rawbuf[0] >= 800
    /\ rec[1].type \notin {"SHARP", "DISH"}
    => result = Expected(rec[1])

\* A value that is not a repeat or a hash is the first bits of the code that was
\* recorded, also when the code was cut off or recorded from its middle and an
\* earlier code is left behind it in the buffer; but for Panasonic's decoder,
\* which reads on in what is left, and for codes with no gap between them.  The
\* protocol may be another: the beginning of NEC's passes for JVC's.
IsPrefix(s, t) == Len(s) <= Len(t) /\ s = SubSeq(t, 1, Len(s))
DecodedWasSent ==
    /\ pc = "resume" /\ result.type \notin {"ERR", "UNKNOWN"}
    /\ ~result.repeat /\ Len(rec) = 1
    /\ (result.type = "PANASONIC" => rawlen = RawBuf)
    => IsPrefix(result.bits, rec[1].bits)
=============================================================================
