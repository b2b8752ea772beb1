-------------------------- MODULE IRremoteProofs --------------------------
(***************************************************************************)
(* A code that was recorded whole and alone is decoded as it was sent, for *)
(* every code of every protocol that IRsend sends and decode() has a       *)
(* decoder for, whatever else is on the air and whenever the sketch calls  *)
(* decode() and resume().                                                  *)
(*                                                                         *)
(* The first half is about the operators of the model, not its states:     *)
(* the ticks of a code, and what each decoder returns for them and for     *)
(* those of the protocols it is asked before.  The second half is the      *)
(* inductive invariant: while a code may still be read as whole, the       *)
(* buffer holds what has been on the air of it and the tick counter the    *)
(* rest.                                                                   *)
(***************************************************************************)
EXTENDS IRremote, FiniteSetTheorems, WellFoundedInduction, SequenceTheorems, TLAPS

-----------------------------------------------------------------------------
(* Sums, and the ticks of a code's marks and spaces.                       *)

\* A set of numbers that is not empty and has a bound has a least element.
LEMMA Smallest ==
  ASSUME NEW N \in Nat, NEW S, S \subseteq 0 .. N, S # {}
  PROVE  \E m \in S : \A j \in S : m <= j
<1> DEFINE All == 0 .. N
           Prefixes == {0 .. i : i \in S}
<1>1. IsFiniteSet(All)
  BY FS_Interval
<1>2. Prefixes \subseteq SUBSET All /\ Prefixes # {}
  <2>1. ASSUME NEW i \in S
        PROVE  0 .. i \in SUBSET All
    OBVIOUS
  <2> QED BY <2>1
<1>3. PICK P \in Prefixes :
        \A Q \in Prefixes : ~ (<<Q, P>> \in StrictSubsetOrdering(All))
  <2>1. IsWellFoundedOn(StrictSubsetOrdering(All), SUBSET All)
    BY <1>1, FS_FiniteSubsetsOfFinite, FS_StrictSubsetOrderingWellFounded, Zenon
  <2> HIDE DEF Prefixes
  <2> QED BY <1>2, <2>1, WFMin, Zenon
<1>4. PICK m \in S : P = 0 .. m
  OBVIOUS
<1>5. ASSUME NEW j \in S, j < m
      PROVE  FALSE
  <2>1. 0 .. j \subseteq 0 .. m /\ 0 .. j # 0 .. m
    BY <1>5
  <2>2. <<0 .. j, P>> \in StrictSubsetOrdering(All)
    BY <1>2, <1>4, <2>1 DEF StrictSubsetOrdering
  <2> QED BY <1>3, <2>2
<1> QED BY <1>5

\* A set that holds a number, and with each one below N the next, holds all up
\* to N.
LEMMA CountUp ==
  ASSUME NEW a \in Int, NEW N \in Int, NEW G, a \in G,
         \A i \in a .. N - 1 : i \in G => i + 1 \in G
  PROVE  \A i \in a .. N : i \in G
<1> DEFINE B == {i \in a .. N : i \notin G}
           S == {i - a : i \in B}
<1>1. SUFFICES ASSUME B # {} PROVE FALSE
  OBVIOUS
<1>2. PICK m \in S : \A j \in S : m <= j
  <2>1. N - a \in Nat /\ S \subseteq 0 .. (N - a) /\ S # {}
    BY <1>1
  <2> HIDE DEF S
  <2> QED BY <2>1, Smallest
<1>3. PICK i \in B : m = i - a
  OBVIOUS
<1>4. i # a /\ i - 1 \in a .. N - 1 /\ i - 1 \notin B
  <2>1. i \in a .. N /\ i \notin G
    OBVIOUS
  <2>2. i # a /\ i - 1 \in a .. N - 1
    BY <2>1
  <2>3. CASE i - 1 \in B
    <3>1. i - 1 - a \in S
      BY <2>3
    <3>2. m <= i - 1 - a
      BY <1>2, <3>1
    <3> QED BY ONLY <1>3, <2>1, <3>2, a \in Int
  <2> QED BY <2>2, <2>3
<1> QED BY <1>3, <1>4

\* The sums that begin with l and add us one by one exist.
Sums(us, l, f) == f = [k \in 0 .. Len(us) |-> IF k = 0 THEN l ELSE f[k - 1] + us[k]]

\* There is a function of those sums, by counting up to each of its lengths.
LEMMA SumsExist ==
  ASSUME NEW N \in Nat, NEW us, Len(us) = N, NEW l
  PROVE  \E f : Sums(us, l, f)
<1> DEFINE Value(g, i) == IF i = 0 THEN l ELSE g[i - 1] + us[i]
           Added(n, g) == g = [i \in 0 .. n |-> Value(g, i)]
           G == {n \in 0 .. N : \E g : Added(n, g)}
<1>1. 0 \in G
  <2>1. Added(0, [i \in 0 .. 0 |-> l])
    OBVIOUS
  <2> HIDE DEF Added
  <2> QED BY <2>1
<1>2. ASSUME NEW n \in 0 .. N - 1, n \in G
      PROVE  n + 1 \in G
  <2>1. PICK g : Added(n, g)
    BY <1>2
  <2> DEFINE h == [i \in 0 .. n + 1 |-> IF i <= n THEN g[i] ELSE Value(g, i)]
  <2>2. \A i \in 0 .. n + 1 : h[i] = Value(h, i)
    <3>1. ASSUME NEW i \in 0 .. n + 1, i # 0
          PROVE  i - 1 \in 0 .. n /\ h[i - 1] = g[i - 1]
      BY <3>1
    <3>2. \A i \in 0 .. n : g[i] = Value(g, i)
      BY <2>1
    <3> QED BY <3>1, <3>2
  <2>3. Added(n + 1, h)
    BY <2>2
  <2> HIDE DEF h, Added
  <2> QED BY <2>3
<1>3. N \in G
  <2> HIDE DEF G
  <2>1. \A i \in 0 .. N - 1 : i \in G => i + 1 \in G
    BY <1>2
  <2>2. \A i \in 0 .. N : i \in G
    BY <1>1, <2>1, CountUp
  <2> QED BY <2>2
<1>4. PICK f : Added(N, f)
  BY <1>3
<1> QED BY <1>4 DEF Sums

\* Its values are numbers, each the one before and the next time.
LEMMA SumsAreNat ==
  ASSUME NEW N \in Nat, NEW us \in [1 .. N -> Nat], Len(us) = N, NEW l \in Nat,
         NEW f, Sums(us, l, f)
  PROVE  /\ f[0] = l
         /\ \A k \in 1 .. N : f[k] \in Nat /\ f[k - 1] \in Nat
                              /\ f[k] = f[k - 1] + us[k]
<1> DEFINE Value(i) == IF i = 0 THEN l ELSE f[i - 1] + us[i]
           G == {n \in 0 .. N : f[n] \in Nat}
<1>1. \A i \in 0 .. N : f[i] = Value(i)
  BY DEF Sums
<1>2. 0 \in G
  BY <1>1
<1>3. ASSUME NEW n \in 0 .. N - 1, n \in G
      PROVE  n + 1 \in G
  <2>1. f[n + 1] = f[n] + us[n + 1]
    BY <1>1, n + 1 \in 0 .. N, n + 1 - 1 = n
  <2> QED BY <1>3, <2>1
<1>4. \A i \in 0 .. N : i \in G
  <2> HIDE DEF G
  <2>1. \A n \in 0 .. N - 1 : n \in G => n + 1 \in G
    BY <1>3
  <2> QED BY <1>2, <2>1, CountUp, 0 \in Int, N \in Int, Zenon
<1> QED
  <2>1. ASSUME NEW k \in 1 .. N PROVE f[k] \in Nat /\ f[k - 1] \in Nat
                                      /\ f[k] = f[k - 1] + us[k]
    BY <1>1, <1>4, k \in 0 .. N, k - 1 \in 0 .. N
  <2> QED BY <1>1, <2>1

\* A number of ticks is that of a time, give or take one.
Near(p, us) == p \in Int /\ us - 50 < 50 * p /\ 50 * p < us + 50

\* The ticks between two edges are those of the time between them.
LEMMA TicksBetween ==
  ASSUME NEW a \in Nat, NEW x \in Nat
  PROVE  Near((a + x) \div 50 - a \div 50, x)
BY DEF Near

\* So they are when the detector moves one of the edges, and then the time is longer
\* or shorter by as much.
LEMMA SeenApart ==
  ASSUME NEW a \in Nat, NEW u \in Nat, u >= 150, NEW b, b = a + u,
         NEW e \in 0 .. 150, NEW k \in Nat
  PROVE  Near((b + (IF k % 2 = 1 THEN e ELSE 0)) \div 50
                - (a + (IF (k - 1) % 2 = 1 THEN e ELSE 0)) \div 50,
              u + (IF k % 2 = 1 THEN e ELSE - e))
<1>1. k % 2 = 1 <=> (k - 1) % 2 # 1
  OBVIOUS
<1>2. CASE k % 2 = 1
  <2>1. u + e \in Nat /\ b + e = a + (u + e)
    OBVIOUS
  <2>2. Near((a + (u + e)) \div 50 - a \div 50, u + e)
    BY <2>1, TicksBetween
  <2> QED BY <1>1, <1>2, <2>1, <2>2
<1>3. CASE k % 2 # 1
  <2>1. u - e \in Nat /\ a + e \in Nat /\ b + 0 = (a + e) + (u - e) /\ u - e = u + (- e)
    OBVIOUS
  <2>2. Near(((a + e) + (u - e)) \div 50 - (a + e) \div 50, u - e)
    BY <2>1, TicksBetween
  <2> QED BY <1>1, <1>3, <2>1, <2>2
<1> QED BY <1>2, <1>3

\* Marks are longer by the excess of the detector, and spaces shorter.
AllNear(P, us, N, e) ==
    /\ DOMAIN P = 1 .. N
    /\ \A k \in 1 .. N : Near(P[k], us[k] + (IF k % 2 = 1 THEN e ELSE - e))

\* The ticks of a code are near its times, marks longer and spaces shorter.
LEMMA TicksAreNear ==
  ASSUME NEW code, NEW N \in Nat, Len(Sent(code)) = N,
         Sent(code) \in [1 .. N -> Nat],
         NEW e \in 0 .. 150, NEW l \in Nat, \A k \in 1 .. N : Sent(code)[k] >= 150
  PROVE  AllNear(Ticks(code, e, l), Sent(code), N, e)
<1>1. PICK us \in [1 .. N -> Nat] : us = Sent(code)
  OBVIOUS
<1>2. PICK f : f = CHOOSE g : Sums(us, l, g)
  OBVIOUS
<1>3. Sums(us, l, f)
  BY <1>1, <1>2, SumsExist
<1> DEFINE seen(k) == (f[k] + (IF k % 2 = 1 THEN e ELSE 0)) \div 50
<1>4. Ticks(code, e, l) = [k \in DOMAIN us |-> seen(k) - seen(k - 1)]
  BY <1>1, <1>2 DEF Ticks, Sums
<1>5. ASSUME NEW k \in 1 .. N
      PROVE  Near(seen(k) - seen(k - 1), us[k] + (IF k % 2 = 1 THEN e ELSE - e))
  <2>1. f[k] \in Nat /\ f[k - 1] \in Nat /\ f[k] = f[k - 1] + us[k]
    <3>1. Len(us) = N
      BY <1>1
    <3> QED BY ONLY <1>3, <3>1, SumsAreNat, N \in Nat, l \in Nat, k \in 1 .. N,
                    us \in [1 .. N -> Nat], SMTT(30)
  <2>2. us[k] \in Nat /\ us[k] >= 150
    BY <1>1
  <2>3. PICK a \in Nat, u \in Nat, b \in Nat : a = f[k - 1] /\ u = us[k] /\ b = f[k]
    BY <2>1, <2>2
  <2>4. u >= 150 /\ b = a + u
    BY <2>1, <2>2, <2>3
  <2>5. Near((b + (IF k % 2 = 1 THEN e ELSE 0)) \div 50
                - (a + (IF (k - 1) % 2 = 1 THEN e ELSE 0)) \div 50,
              u + (IF k % 2 = 1 THEN e ELSE - e))
    BY <2>4, SeenApart, k \in Nat
  <2> QED BY <2>3, <2>5
<1> HIDE DEF seen
<1>6. AllNear(Ticks(code, e, l), us, N, e)
  BY <1>1, <1>4, <1>5 DEF AllNear
<1> QED BY <1>1, <1>6

-----------------------------------------------------------------------------
(* What IRsend sends of a code whose bits are pulses.                      *)

Bits(n) == [1 .. n -> {0, 1}]

\* What IRsend sends of a code: marks and spaces, the times of a one and of a
\* zero.
Times == [hm : Nat, hs : Nat, m1 : Nat, s1 : Nat, m0 : Nat, s0 : Nat, stop : BOOLEAN]

MarkOf(t, bit) == IF bit = 1 THEN t.m1 ELSE t.m0
SpaceOf(t, bit) == IF bit = 1 THEN t.s1 ELSE t.s0

Pairs(t, bits, n) == Flat([i \in 1 .. n |-> IF bits[i] = 1 THEN <<t.m1, t.s1>>
                                                           ELSE <<t.m0, t.s0>>], n)

\* Each bit is its mark and its space.
LEMMA PairsAre ==
  ASSUME NEW n \in Nat, NEW t \in Times, NEW bits \in Bits(n), NEW f,
         f = Pairs(t, bits, n)
  PROVE  /\ f \in Seq(Nat) /\ Len(f) = 2 * n
         /\ \A i \in 1 .. n : /\ f[2 * i - 1] = MarkOf(t, bits[i])
                              /\ f[2 * i] = SpaceOf(t, bits[i])
<1> DEFINE g == [i \in 1 .. n |-> IF bits[i] = 1 THEN <<t.m1, t.s1>>
                                                 ELSE <<t.m0, t.s0>>]
<1>1. \A i \in 1 .. n : /\ g[i][1] = MarkOf(t, bits[i]) /\ g[i][1] \in Nat
                        /\ g[i][2] = SpaceOf(t, bits[i]) /\ g[i][2] \in Nat
  BY DEF MarkOf, SpaceOf, Times
<1> HIDE DEF g
<1>2. f = [k \in 1 .. (2 * n) |-> g[(k + 1) \div 2][2 - (k % 2)]]
  BY DEF Pairs, Flat, g
<1>3. ASSUME NEW k \in 1 .. (2 * n)
      PROVE  (k + 1) \div 2 \in 1 .. n /\ 2 - (k % 2) \in {1, 2}
  OBVIOUS
<1>4. ASSUME NEW k \in 1 .. (2 * n) PROVE f[k] \in Nat
  BY <1>1, <1>2, <1>3
<1>5. f \in [1 .. (2 * n) -> Nat] /\ 2 * n \in Nat
  <2>1. f = [k \in 1 .. (2 * n) |-> f[k]]
    BY <1>2
  <2> QED BY <1>4, <2>1
<1>6. f \in Seq(Nat) /\ Len(f) = 2 * n
  BY <1>5
<1>7. ASSUME NEW i \in 1 .. n
      PROVE  f[2 * i - 1] = g[i][1] /\ f[2 * i] = g[i][2]
  <2>1. /\ 2 * i - 1 \in 1 .. (2 * n) /\ 2 * i \in 1 .. (2 * n)
        /\ (2 * i - 1 + 1) \div 2 = i /\ (2 * i + 1) \div 2 = i
        /\ 2 - ((2 * i - 1) % 2) = 1 /\ 2 - ((2 * i) % 2) = 2
    OBVIOUS
  <2> QED BY <1>2, <2>1
<1> QED BY <1>1, <1>6, <1>7

\* Append() to a sequence.
LEMMA PutBehind ==
  ASSUME NEW S, NEW q \in Seq(S), NEW e \in S
  PROVE  /\ Append(q, e) \in Seq(S) /\ Len(Append(q, e)) = Len(q) + 1
         /\ \A i \in 1 .. Len(q) : Append(q, e)[i] = q[i]
         /\ Append(q, e)[Len(q) + 1] = e
OBVIOUS

HeaderOf(t) == IF t.hm = 0 THEN 0 ELSE 2

\* The pulses of a code stand behind its header.
LEMMA PulsesAre ==
  ASSUME NEW n \in Nat \ {0}, NEW t \in Times, NEW bits \in Bits(n), NEW us,
         us = SendPulses(t, bits)
  PROVE  /\ us \in Seq(Nat)
         /\ Len(us) = HeaderOf(t) + 2 * n + (IF t.stop THEN 1 ELSE -1)
         /\ t.hm # 0 => us[1] = t.hm /\ us[2] = t.hs
         /\ \A i \in 1 .. n :
              /\ us[HeaderOf(t) + 2 * i - 1] = MarkOf(t, bits[i])
              /\ t.stop \/ i < n => us[HeaderOf(t) + 2 * i] = SpaceOf(t, bits[i])
         /\ t.stop => us[HeaderOf(t) + 2 * n + 1] = t.m0
<1>1. PICK f : f = Pairs(t, bits, n)
  OBVIOUS
<1>2. /\ f \in Seq(Nat) /\ Len(f) = 2 * n
      /\ \A i \in 1 .. n : /\ f[2 * i - 1] = MarkOf(t, bits[i])
                           /\ f[2 * i] = SpaceOf(t, bits[i])
  BY <1>1, PairsAre, SMTT(30)
<1>3. PICK q : q = IF t.stop THEN Append(f, t.m0) ELSE SubSeq(f, 1, 2 * n - 1)
  OBVIOUS
<1>4. PICK l \in Nat : l = 2 * n + (IF t.stop THEN 1 ELSE -1)
  OBVIOUS
<1>5. /\ q \in Seq(Nat) /\ Len(q) = l
      /\ \A k \in 1 .. 2 * n : k <= l => q[k] = f[k]
      /\ t.stop => q[2 * n + 1] = t.m0
  <2>1. CASE t.stop
    <3>1. t.m0 \in Nat /\ q = Append(f, t.m0)
      BY <1>3, <2>1 DEF Times
    <3>2. /\ q \in Seq(Nat) /\ Len(q) = Len(f) + 1
          /\ \A i \in 1 .. Len(f) : q[i] = f[i]
          /\ q[Len(f) + 1] = t.m0
      <4>1. /\ Append(f, t.m0) \in Seq(Nat) /\ Len(Append(f, t.m0)) = Len(f) + 1
            /\ \A i \in 1 .. Len(f) : Append(f, t.m0)[i] = f[i]
            /\ Append(f, t.m0)[Len(f) + 1] = t.m0
        <5>1. PICK e \in Nat : e = t.m0
          BY <3>1
        <5>2. f \in Seq(Nat)
          BY <1>2
        <5>3. /\ Append(f, e) \in Seq(Nat) /\ Len(Append(f, e)) = Len(f) + 1
              /\ \A i \in 1 .. Len(f) : Append(f, e)[i] = f[i]
              /\ Append(f, e)[Len(f) + 1] = e
          BY <5>2, PutBehind
        <5> QED BY <5>1, <5>3
      <4> QED BY <3>1, <4>1, Zenon
    <3> QED BY <1>2, <1>4, <2>1, <3>2
  <2>2. CASE ~t.stop
    <3>1. q = SubSeq(f, 1, 2 * n - 1)
      BY <1>3, <2>2
    <3>2. \A i \in 1 .. (2 * n - 1) : f[i] \in Nat
      BY <1>2
    <3>3. /\ q \in Seq(Nat) /\ Len(q) = 2 * n - 1
          /\ \A i \in 1 .. (2 * n - 1) : q[i] = f[i]
      BY <3>1, <3>2, SubSeqProperties
    <3> QED BY <1>4, <2>2, <3>3
  <2> QED BY <2>1, <2>2
<1>6. us = (IF t.hm = 0 THEN <<>> ELSE <<t.hm, t.hs>>) \o q
  <2>1. Len(bits) = n /\ 2 * Len(bits) - 1 = 2 * n - 1
    BY DEF Bits
  <2> QED BY <1>1, <1>3, <2>1, Zenon DEF SendPulses, Pairs
<1>7. PICK h : h = IF t.hm = 0 THEN <<>> ELSE <<t.hm, t.hs>>
  OBVIOUS
<1>8. PICK hl \in {0, 2} : hl = HeaderOf(t)
  BY DEF HeaderOf
<1>15. /\ h \in Seq(Nat) /\ Len(h) = hl
       /\ t.hm # 0 => h[1] = t.hm /\ h[2] = t.hs
  <2>1. t.hm \in Nat /\ t.hs \in Nat
    BY DEF Times
  <2>2. CASE t.hm = 0
    BY <1>7, <1>8, <2>2 DEF HeaderOf
  <2>3. CASE t.hm # 0
    BY <1>7, <1>8, <2>1, <2>3 DEF HeaderOf
  <2> QED BY <2>2, <2>3
<1>9. /\ us \in Seq(Nat) /\ Len(us) = hl + l
      /\ \A i \in 1 .. hl + l : us[i] = IF i <= hl THEN h[i] ELSE q[i - hl]
  <2>1. us = h \o q
    BY <1>6, <1>7
  <2>2. /\ h \o q \in Seq(Nat) /\ Len(h \o q) = Len(h) + Len(q)
        /\ \A i \in 1 .. Len(h) + Len(q) :
              (h \o q)[i] = IF i <= Len(h) THEN h[i] ELSE q[i - Len(h)]
    BY <1>5, <1>15, ConcatProperties, Zenon
  <2> QED BY <1>5, <1>15, <2>1, <2>2
<1>10. t.hm # 0 => us[1] = t.hm /\ us[2] = t.hs
  BY <1>4, <1>8, <1>9, <1>15 DEF HeaderOf
<1>11. ASSUME NEW k \in 1 .. l PROVE us[hl + k] = q[k]
  <2>1. PICK j : j = hl + k
    OBVIOUS
  <2>2. j \in 1 .. hl + l /\ ~(j <= hl) /\ j - hl = k
    BY <1>8, <2>1
  <2> QED BY <1>9, <2>1, <2>2
<1>12. \A i \in 1 .. n : /\ 2 * i - 1 \in 1 .. l /\ us[hl + 2 * i - 1] = q[2 * i - 1]
                         /\ t.stop \/ i < n => 2 * i \in 1 .. l /\ us[hl + 2 * i] = q[2 * i]
  <2>1. ASSUME NEW i \in 1 .. n
        PROVE  /\ 2 * i - 1 \in 1 .. l /\ hl + 2 * i - 1 = hl + (2 * i - 1)
               /\ t.stop \/ i < n => 2 * i \in 1 .. l
    BY <1>4, <1>8
  <2> QED BY <1>11, <2>1
<1>13. \A i \in 1 .. n : /\ us[hl + 2 * i - 1] = MarkOf(t, bits[i])
                         /\ t.stop \/ i < n => us[hl + 2 * i] = SpaceOf(t, bits[i])
  <2>1. ASSUME NEW i \in 1 .. n
        PROVE  /\ 2 * i - 1 \in 1 .. 2 * n /\ 2 * i \in 1 .. 2 * n
               /\ \A j \in 1 .. l : j <= l
    OBVIOUS
  <2>2. ASSUME NEW i \in 1 .. n
        PROVE  /\ q[2 * i - 1] = MarkOf(t, bits[i])
               /\ t.stop \/ i < n => q[2 * i] = SpaceOf(t, bits[i])
    BY <1>2, <1>5, <1>12, <2>1
  <2> QED BY <1>12, <2>2
<1>14. t.stop => us[hl + 2 * n + 1] = t.m0
  <2>1. t.stop => 2 * n + 1 \in 1 .. l /\ hl + 2 * n + 1 = hl + (2 * n + 1)
    BY <1>4, <1>8
  <2> QED BY <1>5, <1>11, <2>1
<1>16. Len(us) = hl + 2 * n + (IF t.stop THEN 1 ELSE -1)
  <2>1. PICK s \in {1, -1} : s = IF t.stop THEN 1 ELSE -1
    OBVIOUS
  <2>2. l = 2 * n + s /\ Len(us) = hl + l
    BY <1>4, <1>9, <2>1
  <2>3. hl + (2 * n + s) = hl + 2 * n + s
    BY <1>8, <2>1
  <2> QED BY <2>1, <2>2, <2>3
<1> QED BY <1>8, <1>9, <1>10, <1>13, <1>14, <1>16, Zenon

\* The header and the times of each protocol.
LEMMA TimesAre ==
  /\ Timing["NEC"] = Distance(9000, 4500, 560, 1600, 560, TRUE)
  /\ Timing["SONY"] = [hm |-> 2400, hs |-> 600, m1 |-> 1200, s1 |-> 600, m0 |-> 600,
                       s0 |-> 600, stop |-> FALSE]
  /\ Timing["PANASONIC"] = Distance(3502, 1750, 502, 1244, 400, TRUE)
  /\ Timing["JVC"] = Distance(8000, 4000, 600, 1600, 550, TRUE)
  /\ Timing["JVCrepeat"] = Distance(0, 0, 600, 1600, 550, TRUE)
  /\ Timing["SHARP"] = Distance(0, 0, 245, 1805, 795, TRUE)
  /\ Timing["DISH"] = Distance(400, 6100, 400, 1700, 2800, FALSE)
  /\ \A p \in {"NEC", "SONY", "PANASONIC", "JVC", "JVCrepeat", "SHARP", "DISH"} :
        Timing[p] \in Times
BY DEF Timing, Distance, Times

-----------------------------------------------------------------------------
(* decode(), and the bits that are told by the space behind a mark.        *)

\* decode() returns what the first decoder that does not fail returns.
LEMMA DecodesFirst ==
  ASSUME NEW b, NEW n, NEW m \in 1 .. 9, NEW d, d = Decoders(b, n), d[m] # Err,
         \A i \in 1 .. 9 : i < m => d[i] = Err
  PROVE  decode(b, n) = d[m]
<1> DEFINE good == {i \in DOMAIN d : d[i] # Err}
<1>1. DOMAIN d = 1 .. 9
  BY DEF Decoders
<1>2. m \in good /\ \A j \in good : m <= j
  BY <1>1
<1>3. \A i \in good : (\A j \in good : i <= j) => i = m
  BY <1>1, <1>2
<1>4. (CHOOSE i \in good : \A j \in good : i <= j) = m
  <2> HIDE DEF good
  <2> QED BY <1>2, <1>3
<1>5. good # {}
  BY <1>2
<1>6. decode(b, n) = IF good = {} THEN Err
                     ELSE d[CHOOSE i \in good : \A j \in good : i <= j]
  BY DEF decode
<1> HIDE DEF good
<1> QED BY <1>4, <1>5, <1>6

\* What a decoder returns for a code of its own is no failure.
LEMMA ResultIsNoErr ==
  \A type, bits : type # "ERR" => Result(type, bits) # Err /\ Repeat(type) # Err
BY DEF Result, Repeat, Err

\* Pulses whose space tells the bit are read, if their times are told apart.
LEMMA DistanceIsRead ==
  ASSUME NEW n \in Nat, NEW bits \in Bits(n), NEW b, NEW mark, NEW one, NEW zero,
         \A i \in 1 .. n :
           /\ MatchMark(b[2 * i + 1], mark)
           /\ IF bits[i] = 1 THEN MatchSpace(b[2 * i + 2], one)
              ELSE ~MatchSpace(b[2 * i + 2], one) /\ MatchSpace(b[2 * i + 2], zero)
  PROVE  /\ DistanceBits(b, 3, n, mark, one, zero).ok
         /\ DistanceBits(b, 3, n, mark, one, zero).bits = bits
<1>1. ASSUME NEW i \in 0 .. (n - 1)
      PROVE  /\ MatchMark(b[3 + 2 * i], mark)
             /\ MatchSpace(b[3 + 2 * i + 1], one) \/ MatchSpace(b[3 + 2 * i + 1], zero)
  <2>1. /\ i + 1 \in 1 .. n /\ 2 * (i + 1) + 1 = 3 + 2 * i
        /\ 2 * (i + 1) + 2 = 3 + 2 * i + 1
    OBVIOUS
  <2> QED BY <2>1
<1>2. ASSUME NEW i \in 1 .. n
      PROVE  (IF MatchSpace(b[3 + 2 * i - 1], one) THEN 1 ELSE 0) = bits[i]
  <2>1. 3 + 2 * i - 1 = 2 * i + 2 /\ bits[i] \in {0, 1}
    BY DEF Bits
  <2> QED BY <2>1
<1>3. [i \in 1 .. n |-> IF MatchSpace(b[3 + 2 * i - 1], one) THEN 1 ELSE 0] = bits
  BY <1>2 DEF Bits
<1> QED BY <1>1, <1>3 DEF DistanceBits

\* The bits of a recording: after the header, each with the times of its pulse.
Pulsed(b, t, n, bits, e) ==
    \A i \in 1 .. n : /\ Near(b[2 * i + 1], MarkOf(t, bits[i]) + e)
                      /\ t.stop \/ i < n => Near(b[2 * i + 2], SpaceOf(t, bits[i]) - e)

\* A recording of NEC's header and thirty-two pulses is read as those bits.
LEMMA NECIsRead ==
  ASSUME NEW bits \in Bits(32), NEW e \in 0 .. 150, NEW b, Near(b[1], 9000 + e),
         Near(b[2], 4500 - e), Pulsed(b, Timing["NEC"], 32, bits, e)
  PROVE  decode(b, 68) = Result("NEC", bits)
<1>1. /\ MatchMark(b[1], 9000) /\ MatchSpace(b[2], 4500)
  BY DEF Near, MatchMark, MatchSpace, Match
<1>2. ASSUME NEW i \in 1 .. 32
      PROVE  /\ MatchMark(b[2 * i + 1], 560)
             /\ IF bits[i] = 1 THEN MatchSpace(b[2 * i + 2], 1600)
                ELSE ~MatchSpace(b[2 * i + 2], 1600) /\ MatchSpace(b[2 * i + 2], 560)
  <2>1. /\ Near(b[2 * i + 1], 560 + e)
        /\ Near(b[2 * i + 2], (IF bits[i] = 1 THEN 1600 ELSE 560) - e)
    BY TimesAre DEF Pulsed, Distance, MarkOf, SpaceOf
  <2> QED BY <2>1 DEF Near, MatchMark, MatchSpace, Match
<1>3. decodeNEC(b, 68) = Result("NEC", bits)
  BY <1>1, <1>2, DistanceIsRead DEF decodeNEC
<1>4. Decoders(b, 68)[1] = decodeNEC(b, 68)
  BY DEF Decoders
<1> QED BY <1>3, <1>4, DecodesFirst, ResultIsNoErr

-----------------------------------------------------------------------------
(* The levels that the decoders of RC5 and RC6 take from the entries.      *)

\* The levels up to each entry.
Grown(b, n, from, t1, f) ==
    f = [k \in (from - 1) .. (n - 1) |->
           IF k < from THEN <<>> ELSE f[k - 1] \o EntryLevels(b, k, t1)]

\* There is a function of them, by counting up to each entry.
LEMMA LevelsExist ==
  ASSUME NEW b, NEW n \in Nat, NEW from \in Nat, from < n, NEW t1
  PROVE  \E f : Grown(b, n, from, t1, f)
<1> DEFINE Value(g, k) == IF k < from THEN <<>> ELSE g[k - 1] \o EntryLevels(b, k, t1)
           Added(m, g) == g = [k \in (from - 1) .. m |-> Value(g, k)]
           G == {m \in (from - 1) .. (n - 1) : \E g : Added(m, g)}
<1>1. from - 1 \in G
  <2>1. Added(from - 1, [k \in (from - 1) .. (from - 1) |-> <<>>])
    <3>1. \A g : \A k \in (from - 1) .. (from - 1) : Value(g, k) = <<>>
      OBVIOUS
    <3> HIDE DEF Value
    <3> QED BY <3>1
  <2> HIDE DEF Added
  <2> QED BY <2>1
<1>2. ASSUME NEW m \in (from - 1) .. (n - 1) - 1, m \in G
      PROVE  m + 1 \in G
  <2>1. PICK g : Added(m, g)
    BY <1>2
  <2> DEFINE h == [k \in (from - 1) .. m + 1 |-> IF k <= m THEN g[k] ELSE Value(g, k)]
  <2>2. \A k \in (from - 1) .. m + 1 : h[k] = Value(h, k)
    <3>1. ASSUME NEW k \in (from - 1) .. m + 1, ~(k < from)
          PROVE  k - 1 \in (from - 1) .. m /\ h[k - 1] = g[k - 1]
      BY <3>1
    <3>2. \A k \in (from - 1) .. m : g[k] = Value(g, k)
      BY <2>1
    <3> QED BY <3>1, <3>2
  <2>3. Added(m + 1, h)
    BY <2>2
  <2> HIDE DEF h, Added
  <2> QED BY <2>3
<1>3. n - 1 \in G
  <2> HIDE DEF G
  <2>1. \A m \in (from - 1) .. (n - 1) - 1 : m \in G => m + 1 \in G
    BY <1>2
  <2>2. from - 1 \in Int /\ n - 1 \in Int /\ n - 1 \in (from - 1) .. (n - 1)
    OBVIOUS
  <2>3. \A m \in (from - 1) .. (n - 1) : m \in G
    BY <1>1, <2>1, <2>2, CountUp
  <2> QED BY <2>2, <2>3
<1>4. PICK f : Added(n - 1, f)
  BY <1>3
<1> QED BY <1>4 DEF Grown

UpTo(b, n, from, t1, f) ==
    /\ f[from - 1] = <<>>
    /\ \A k \in from .. (n - 1) : f[k] = f[k - 1] \o EntryLevels(b, k, t1)

\* Levels are those up to the last entry.
LEMMA LevelsAre ==
  ASSUME NEW b, NEW n \in Nat, NEW from \in Nat, from < n, NEW t1
  PROVE  \E f : UpTo(b, n, from, t1, f) /\ Levels(b, n, from, t1) = f[n - 1]
<1>1. PICK f : f = CHOOSE g : Grown(b, n, from, t1, g)
  OBVIOUS
<1>2. Grown(b, n, from, t1, f)
  BY <1>1, LevelsExist
<1>3. Levels(b, n, from, t1) = f[n - 1]
  <2>1. Levels(b, n, from, t1) =
          IF n <= from THEN <<>> ELSE (CHOOSE g : Grown(b, n, from, t1, g))[n - 1]
    BY DEF Levels, Grown
  <2> QED BY <1>1, <2>1
<1>4. \A k \in (from - 1) .. (n - 1) :
        f[k] = IF k < from THEN <<>> ELSE f[k - 1] \o EntryLevels(b, k, t1)
  BY <1>2 DEF Grown
<1>5. f[from - 1] = <<>>
  <2>1. PICK j \in (from - 1) .. (n - 1) : j = from - 1
    OBVIOUS
  <2>2. j < from
    BY <2>1
  <2>3. f[j] = <<>>
    BY <1>4, <2>2
  <2> QED BY <2>1, <2>3
<1>6. \A k \in from .. (n - 1) : f[k] = f[k - 1] \o EntryLevels(b, k, t1)
  <2>1. ASSUME NEW k \in from .. (n - 1)
        PROVE  k \in (from - 1) .. (n - 1) /\ ~(k < from)
    OBVIOUS
  <2> QED BY <1>4, <2>1
<1>7. UpTo(b, n, from, t1, f)
  BY <1>5, <1>6 DEF UpTo
<1> QED BY <1>3, <1>7

\* An entry is as many units as the first time that fits it.
LEMMA UnitsAre ==
  ASSUME NEW ticks, NEW us, NEW u \in 1 .. 3, Match(ticks, us[u]),
         \A v \in 1 .. 3 : v < u => ~Match(ticks, us[v])
  PROVE  Units(ticks, us) = u
<1> DEFINE fits == {v \in 1 .. 3 : Match(ticks, us[v])}
<1>1. u \in fits /\ \A v \in fits : u <= v
  OBVIOUS
<1>2. \A w \in fits : (\A v \in fits : w <= v) => w = u
  BY <1>1
<1>3. Units(ticks, us) = IF fits = {} THEN 0 ELSE Min(fits)
  BY DEF Units
<1>4. Min(fits) = u
  <2> HIDE DEF fits
  <2> QED BY <1>1, <1>2 DEF Min
<1> QED BY <1>1, <1>3, <1>4

\* An entry that none of the times fits is of no units.
LEMMA NoUnits ==
  ASSUME NEW ticks, NEW us, \A v \in 1 .. 3 : ~Match(ticks, us[v])
  PROVE  Units(ticks, us) = 0
BY DEF Units

Corrected(k, t1, m) == m * t1 + (IF k % 2 = 1 THEN 100 ELSE -100)
LevelOf(k) == IF k % 2 = 1 THEN Mark ELSE Space

\* An entry of u units, and one that fits none.
Fits(b, k, t1, u) ==
    /\ Match(b[k], Corrected(k, t1, u))
    /\ \A v \in 1 .. 3 : v < u => ~Match(b[k], Corrected(k, t1, v))
FitsNone(b, k, t1) == \A v \in 1 .. 3 : ~Match(b[k], Corrected(k, t1, v))

\* An entry of u units is u equal levels, marks and spaces in turn.
LEMMA EntryIs ==
  ASSUME NEW b, NEW k \in Nat, NEW t1 \in Nat, NEW u \in 1 .. 3, Fits(b, k, t1, u)
  PROVE  /\ EntryLevels(b, k, t1) \in Seq(Int) /\ Len(EntryLevels(b, k, t1)) = u
         /\ \A i \in 1 .. u : EntryLevels(b, k, t1)[i] = LevelOf(k)
<1> DEFINE us == [m \in 1 .. 3 |-> m * t1 + (IF LevelOf(k) = Mark THEN 100 ELSE -100)]
<1>1. \A m \in 1 .. 3 : us[m] = Corrected(k, t1, m)
  BY DEF Corrected, LevelOf, Mark, Space
<1> HIDE DEF us
<1>2. Units(b[k], us) = u
  BY <1>1, UnitsAre DEF Fits
<1>3. EntryLevels(b, k, t1) = IF Units(b[k], us) = 0 THEN <<-1>>
                              ELSE [i \in 1 .. Units(b[k], us) |-> LevelOf(k)]
  BY DEF EntryLevels, LevelOf, us
<1>4. EntryLevels(b, k, t1) = [i \in 1 .. u |-> LevelOf(k)]
  BY <1>2, <1>3
<1>5. LevelOf(k) \in Int
  BY DEF LevelOf, Mark, Space
<1> QED BY <1>4, <1>5

\* An entry that fits none is one that no decoder takes.
LEMMA EntryIsNone ==
  ASSUME NEW b, NEW k \in Nat, NEW t1 \in Nat, FitsNone(b, k, t1)
  PROVE  EntryLevels(b, k, t1) = <<-1>>
<1> DEFINE us == [m \in 1 .. 3 |-> m * t1 + (IF LevelOf(k) = Mark THEN 100 ELSE -100)]
<1>1. \A m \in 1 .. 3 : us[m] = Corrected(k, t1, m)
  BY DEF Corrected, LevelOf, Mark, Space
<1> HIDE DEF us
<1>2. Units(b[k], us) = 0
  BY <1>1, NoUnits DEF FitsNone
<1>3. EntryLevels(b, k, t1) = IF Units(b[k], us) = 0 THEN <<-1>>
                              ELSE [i \in 1 .. Units(b[k], us) |-> LevelOf(k)]
  BY DEF EntryLevels, LevelOf, us
<1> QED BY <1>2, <1>3

\* Every entry is at least one level, whatever is in the buffer.
LEMMA EntryIsALevel ==
  ASSUME NEW b, NEW k \in Nat, NEW t1
  PROVE  EntryLevels(b, k, t1) \in Seq(Int) /\ Len(EntryLevels(b, k, t1)) >= 1
<1> DEFINE us == [m \in 1 .. 3 |-> m * t1 + (IF LevelOf(k) = Mark THEN 100 ELSE -100)]
<1>1. EntryLevels(b, k, t1) = IF Units(b[k], us) = 0 THEN <<-1>>
                              ELSE [i \in 1 .. Units(b[k], us) |-> LevelOf(k)]
  BY DEF EntryLevels, LevelOf
<1> HIDE DEF us
<1>2. Units(b[k], us) \in 0 .. 3
  <2>1. CASE \A v \in 1 .. 3 : ~Match(b[k], us[v])
    BY <2>1, NoUnits
  <2>2. CASE \E v \in 1 .. 3 : Match(b[k], us[v])
    <3>1. PICK u \in 1 .. 3 : /\ Match(b[k], us[u])
                              /\ \A v \in 1 .. 3 : v < u => ~Match(b[k], us[v])
      <4>1. CASE Match(b[k], us[1])
        BY <4>1
      <4>2. CASE ~Match(b[k], us[1]) /\ Match(b[k], us[2])
        BY <4>2
      <4>3. CASE ~Match(b[k], us[1]) /\ ~Match(b[k], us[2]) /\ Match(b[k], us[3])
        BY <4>3
      <4> QED BY <2>2, <4>1, <4>2, <4>3
    <3> QED BY <3>1, UnitsAre
  <2> QED BY <2>1, <2>2
<1>3. PICK u \in 0 .. 3 : u = Units(b[k], us)
  BY <1>2
<1>4. LevelOf(k) \in Int
  BY DEF LevelOf, Mark, Space
<1>5. CASE u = 0
  BY <1>1, <1>3, <1>5
<1>6. CASE u # 0
  <2>1. EntryLevels(b, k, t1) = [i \in 1 .. u |-> LevelOf(k)]
    BY <1>1, <1>3, <1>6
  <2>2. [i \in 1 .. u |-> LevelOf(k)] \in Seq(Int) /\ Len([i \in 1 .. u |-> LevelOf(k)]) = u
    BY <1>4
  <2> QED BY <1>6, <2>1, <2>2
<1> QED BY <1>5, <1>6

\* The levels of the first entries come first.
LEMMA LevelsBegin ==
  ASSUME NEW b, NEW n \in Nat, NEW from \in Nat, from < n, NEW t1, NEW f,
         UpTo(b, n, from, t1, f), NEW k \in (from - 1) .. (n - 1)
  PROVE  /\ f[k] \in Seq(Int) /\ f[n - 1] \in Seq(Int)
         /\ Len(f[k]) <= Len(f[n - 1])
         /\ \A p \in 1 .. Len(f[k]) : f[n - 1][p] = f[k][p]
<1> DEFINE T == {m \in (from - 1) .. (n - 1) : f[m] \in Seq(Int)}
           G == {m \in k .. (n - 1) : /\ Len(f[k]) <= Len(f[m])
                                      /\ \A p \in 1 .. Len(f[k]) : f[m][p] = f[k][p]}
<1>4. f[from - 1] = <<>>
  BY DEF UpTo
<1>5. \A m \in from .. (n - 1) : f[m] = f[m - 1] \o EntryLevels(b, m, t1)
  BY DEF UpTo
<1>1. \A m \in (from - 1) .. (n - 1) : m \in T
  <2>1. from - 1 \in T
    <3>1. from - 1 \in (from - 1) .. (n - 1) /\ <<>> \in Seq(Int)
      OBVIOUS
    <3> QED BY <1>4, <3>1
  <2>2. ASSUME NEW m \in (from - 1) .. (n - 1) - 1, m \in T
        PROVE  m + 1 \in T
    <3>1. f[m + 1] = f[m] \o EntryLevels(b, m + 1, t1)
      <4>1. PICK j \in from .. (n - 1) : j = m + 1
        OBVIOUS
      <4>2. j - 1 = m
        BY <4>1
      <4>3. f[j] = f[j - 1] \o EntryLevels(b, j, t1)
        BY <1>5
      <4> QED BY <4>1, <4>2, <4>3
    <3>2. f[m] \in Seq(Int) /\ EntryLevels(b, m + 1, t1) \in Seq(Int)
      BY <2>2, EntryIsALevel, m + 1 \in Nat
    <3>3. f[m + 1] \in Seq(Int)
      BY <3>1, <3>2, ConcatProperties, Zenon
    <3> QED BY <3>3
  <2> HIDE DEF T
  <2>3. \A m \in (from - 1) .. (n - 1) - 1 : m \in T => m + 1 \in T
    BY <2>2
  <2> QED BY <2>1, <2>3, CountUp, from - 1 \in Int, n - 1 \in Int
<1>2. \A m \in (from - 1) .. (n - 1) : f[m] \in Seq(Int)
  BY <1>1
<1>3. \A m \in k .. (n - 1) : m \in G
  <2>1. k \in G
    <3>1. f[k] \in Seq(Int)
      BY <1>2
    <3>2. Len(f[k]) \in Nat
      BY <3>1
    <3> QED BY <3>2
  <2>2. ASSUME NEW m \in k .. (n - 1) - 1, m \in G
        PROVE  m + 1 \in G
    <3>1. f[m + 1] = f[m] \o EntryLevels(b, m + 1, t1)
      <4>1. PICK j \in from .. (n - 1) : j = m + 1
        OBVIOUS
      <4>2. j - 1 = m
        BY <4>1
      <4>3. f[j] = f[j - 1] \o EntryLevels(b, j, t1)
        BY <1>5
      <4> QED BY <4>1, <4>2, <4>3
    <3>2. PICK q \in Seq(Int), x \in Seq(Int), z \in Seq(Int) :
             q = f[m] /\ x = EntryLevels(b, m + 1, t1) /\ z = f[k]
      BY <1>2, EntryIsALevel, m + 1 \in Nat
    <3>3. Len(z) <= Len(q) /\ \A p \in 1 .. Len(z) : q[p] = z[p]
      BY <2>2, <3>2
    <3>4. /\ Len(q \o x) = Len(q) + Len(x)
          /\ \A i \in 1 .. Len(q) + Len(x) :
               (q \o x)[i] = IF i <= Len(q) THEN q[i] ELSE x[i - Len(q)]
      BY ConcatProperties, Zenon
    <3>5. Len(z) \in Nat /\ Len(q) \in Nat /\ Len(x) \in Nat
      OBVIOUS
    <3>6. Len(z) <= Len(q \o x) /\ \A p \in 1 .. Len(z) : (q \o x)[p] = z[p]
      BY <3>3, <3>4, <3>5
    <3>7. f[m + 1] = q \o x /\ f[k] = z
      BY <3>1, <3>2
    <3>8. Len(f[k]) <= Len(f[m + 1])
      BY <3>6, <3>7
    <3>9. \A p \in 1 .. Len(f[k]) : f[m + 1][p] = f[k][p]
      BY <3>6, <3>7
    <3>10. m + 1 \in k .. (n - 1)
      OBVIOUS
    <3> QED BY <3>8, <3>9, <3>10
  <2> HIDE DEF G
  <2>3. \A m \in k .. (n - 1) - 1 : m \in G => m + 1 \in G
    BY <2>2
  <2> QED BY <2>1, <2>3, CountUp, k \in Int, n - 1 \in Int
<1> QED BY <1>2, <1>3, n - 1 \in k .. (n - 1), n - 1 \in (from - 1) .. (n - 1)

-----------------------------------------------------------------------------
(* The decoders that are asked first do not take the codes of others.      *)

\* RC5's decoder reads the levels of the first two entries first.
BeginWith(l, x) ==
    /\ x \in Seq(Int) /\ l \in Seq(Int) /\ Len(x) <= Len(l)
    /\ \A p \in 1 .. Len(x) : l[p] = x[p]

FirstTwo(b) == EntryLevels(b, 1, 889) \o EntryLevels(b, 2, 889)

\* They are the beginning of all its levels.
LEMMA RC5Begins ==
  ASSUME NEW b, NEW n \in Nat, n >= 13
  PROVE  BeginWith(Levels(b, n, 1, 889), FirstTwo(b))
<1>1. PICK from \in Nat, t \in Nat : from = 1 /\ t = 889
  OBVIOUS
<1>2. from < n
  BY <1>1
<1>3. PICK f : UpTo(b, n, from, t, f) /\ Levels(b, n, from, t) = f[n - 1]
  BY <1>2, LevelsAre
<1>4. \A k \in from .. (n - 1) : f[k] = f[k - 1] \o EntryLevels(b, k, t)
  BY <1>3 DEF UpTo
<1>5. PICK two \in from .. (n - 1) : two = 2
  BY <1>1
<1>6. from \in from .. (n - 1) /\ two - 1 = from /\ two \in (from - 1) .. (n - 1)
  BY <1>1, <1>2, <1>5
<1>7. f[from] = <<>> \o EntryLevels(b, from, t)
  <2>1. f[from] = f[from - 1] \o EntryLevels(b, from, t)
    BY <1>4, <1>6
  <2> QED BY <1>3, <2>1 DEF UpTo
<1>8. f[two] = f[from] \o EntryLevels(b, two, t)
  <2>1. f[two] = f[two - 1] \o EntryLevels(b, two, t)
    BY <1>4
  <2> QED BY <1>6, <2>1
<1>9. EntryLevels(b, from, t) \in Seq(Int) /\ EntryLevels(b, two, t) \in Seq(Int)
  BY <1>5, EntryIsALevel
<1>10. f[two] = EntryLevels(b, from, t) \o EntryLevels(b, two, t)
  BY <1>7, <1>8, <1>9
<1>11. BeginWith(f[n - 1], f[two])
  <2>1. PICK k \in (from - 1) .. (n - 1) : k = two
    BY <1>6
  <2>2. UpTo(b, n, from, t, f)
    BY <1>3
  <2>3. /\ f[k] \in Seq(Int) /\ f[n - 1] \in Seq(Int)
        /\ Len(f[k]) <= Len(f[n - 1])
        /\ \A p \in 1 .. Len(f[k]) : f[n - 1][p] = f[k][p]
    BY <1>2, <2>2, LevelsBegin
  <2> QED BY <2>1, <2>3 DEF BeginWith
<1>12. FirstTwo(b) = f[two] /\ Levels(b, n, 1, 889) = f[n - 1]
  BY <1>1, <1>3, <1>5, <1>10 DEF FirstTwo
<1> QED BY <1>11, <1>12

\* A first entry that is no mark of one unit makes RC5's decoder fail, and so does
\* a second that is no space of one unit, behind a mark of one unit.
NoStart(b, y, z) ==
  /\ y = EntryLevels(b, 1, 889) /\ z = EntryLevels(b, 2, 889)
  /\ Len(y) >= 1 /\ Len(z) >= 1
  /\ \/ y[1] # Mark
     \/ Len(y) >= 2 /\ y[2] = Mark
     \/ Len(y) = 1 /\ z[1] # Space
     \/ Len(y) = 1 /\ Len(z) >= 2 /\ z[2] = Space

\* Then it returns an error, whatever follows.
LEMMA BeginFailsRC5 ==
  ASSUME NEW b, NEW n \in Nat, NEW y \in Seq(Int), NEW z \in Seq(Int),
         NoStart(b, y, z)
  PROVE  decodeRC5(b, n) = Err
<1>1. CASE n < 13
  BY <1>1 DEF decodeRC5
<1>2. CASE n >= 13
  <2>1. PICK x \in Seq(Int) :
            /\ x = y \o z /\ Len(x) = Len(y) + Len(z)
            /\ \A i \in 1 .. Len(y) : x[i] = y[i]
            /\ \A i \in 1 .. Len(z) : x[Len(y) + i] = z[i]
    <3>1. PICK x : x = y \o z
      OBVIOUS
    <3>2. x \in Seq(Int) /\ Len(x) = Len(y) + Len(z)
      BY <3>1
    <3>3. \A i \in 1 .. Len(y) : x[i] = y[i]
      BY <3>1
    <3>4. \A i \in 1 .. Len(z) : x[Len(y) + i] = z[i]
      BY <3>1
    <3> QED BY <3>1, <3>2, <3>3, <3>4, Zenon
  <2>8. PICK l : l = Levels(b, n, 1, 889)
    OBVIOUS
  <2>2. /\ x \in Seq(Int) /\ l \in Seq(Int) /\ Len(x) <= Len(l)
        /\ \A p \in 1 .. Len(x) : l[p] = x[p]
    <3>1. x = FirstTwo(b)
      BY <2>1 DEF NoStart, FirstTwo
    <3>2. BeginWith(Levels(b, n, 1, 889), FirstTwo(b))
      BY <1>2, RC5Begins
    <3>3. BeginWith(l, x)
      BY <2>8, <3>1, <3>2, Zenon
    <3> QED BY <3>3 DEF BeginWith
  <2>4. PICK ly \in Nat, lz \in Nat : /\ ly = Len(y) /\ lz = Len(z)
                                       /\ ly >= 1 /\ lz >= 1
    BY DEF NoStart
  <2>9. Len(x) = ly + lz
    BY <2>1, <2>4
  <2>5. \A p \in 1 .. ly + lz : LevelAt(l, p) = x[p]
    <3>1. \A p \in 1 .. ly + lz : p <= Len(l)
      BY <2>2, <2>9
    <3>2. \A p : p <= Len(l) => LevelAt(l, p) = l[p]
      BY DEF LevelAt
    <3> QED BY <2>2, <2>9, <3>1, <3>2
  <2>6. \A p \in 1 .. ly : p \in 1 .. ly + lz /\ x[p] = y[p]
    BY <2>1, <2>4
  <2>10. \A p \in 1 .. lz : ly + p \in 1 .. ly + lz /\ x[ly + p] = z[p]
    <3> QED BY <2>1, <2>4
  <2>7. ~(LevelAt(l, 1) = Mark /\ LevelAt(l, 2) = Space /\ LevelAt(l, 3) = Mark)
    <3>2. CASE y[1] # Mark
      <4>1. 1 \in 1 .. ly
        BY <2>4
      <4> QED BY <2>5, <2>6, <3>2, <4>1
    <3>3. CASE ly >= 2 /\ y[2] = Mark
      <4>1. 2 \in 1 .. ly
        BY <3>3
      <4>2. LevelAt(l, 2) = x[2] /\ x[2] = y[2]
        BY <2>5, <2>6, <4>1
      <4>3. Mark # Space
        BY DEF Mark, Space
      <4> QED BY <3>3, <4>2, <4>3
    <3>4. CASE ly = 1 /\ z[1] # Space
      <4>1. 1 \in 1 .. lz /\ ly + 1 = 2
        BY <3>4, <2>4
      <4>2. x[ly + 1] = z[1] /\ ly + 1 \in 1 .. ly + lz
        BY <2>10, <4>1
      <4> QED BY <2>5, <3>4, <4>1, <4>2
    <3>5. CASE ly = 1 /\ lz >= 2 /\ z[2] = Space
      <4>1. 2 \in 1 .. lz /\ ly + 2 = 3
        BY <3>5
      <4>2. x[ly + 2] = z[2] /\ ly + 2 \in 1 .. ly + lz
        BY <2>10, <4>1
      <4> QED BY <2>5, <3>5, <4>1, <4>2 DEF Mark, Space
    <3> QED BY <2>4, <3>2, <3>3, <3>4, <3>5 DEF NoStart
  <2> QED BY <2>7, <2>8 DEF decodeRC5
<1> QED BY <1>1, <1>2

\* A first entry of another length is no beginning of RC5's.
LEMMA FirstFailsRC5 ==
  ASSUME NEW b, NEW n \in Nat,
         FitsNone(b, 1, 889) \/ \E u \in 2 .. 3 : Fits(b, 1, 889, u)
  PROVE  decodeRC5(b, n) = Err
<1>1. PICK k \in Nat, t \in Nat : k = 1 /\ t = 889
  OBVIOUS
<1>2. PICK y \in Seq(Int), z \in Seq(Int) :
         /\ y = EntryLevels(b, k, t) /\ z = EntryLevels(b, 2, 889)
         /\ Len(y) >= 1 /\ Len(z) >= 1
  BY EntryIsALevel, 2 \in Nat
<1>3. y[1] # Mark \/ (Len(y) >= 2 /\ y[2] = Mark)
  <2>1. CASE FitsNone(b, 1, 889)
    <3>1. y = <<-1>>
      BY <1>1, <1>2, <2>1, EntryIsNone
    <3> QED BY <3>1 DEF Mark
  <2>2. CASE \E u \in 2 .. 3 : Fits(b, 1, 889, u)
    <3>1. PICK u \in 1 .. 3 : u >= 2 /\ Fits(b, k, t, u)
      BY <1>1, <2>2
    <3>2. Len(y) = u /\ \A i \in 1 .. u : y[i] = LevelOf(k)
      <4>1. y = EntryLevels(b, k, t)
        BY <1>2
      <4> QED BY ONLY <3>1, <4>1, EntryIs, k \in Nat, t \in Nat
    <3>3. LevelOf(k) = Mark
      BY <1>1 DEF LevelOf
    <3> QED BY <3>1, <3>2, <3>3
  <2> QED BY <2>1, <2>2
<1> QED BY <1>1, <1>2, <1>3, BeginFailsRC5 DEF NoStart

\* Nor is a second of another length.
LEMMA SecondFailsRC5 ==
  ASSUME NEW b, NEW n \in Nat, Fits(b, 1, 889, 1),
         FitsNone(b, 2, 889) \/ Fits(b, 2, 889, 2)
  PROVE  decodeRC5(b, n) = Err
<1>1. PICK k \in Nat, j \in Nat, t \in Nat, one \in 1 .. 3, two \in 1 .. 3 :
        k = 1 /\ j = 2 /\ t = 889 /\ one = 1 /\ two = 2
  OBVIOUS
<1>2. PICK y \in Seq(Int), z \in Seq(Int) :
         /\ y = EntryLevels(b, k, t) /\ z = EntryLevels(b, j, t)
         /\ Len(y) >= 1 /\ Len(z) >= 1
  BY EntryIsALevel
<1>3. Len(y) = 1
  <2>1. Fits(b, k, t, one)
    BY <1>1
  <2>2. Len(y) = one
    BY <1>2, <2>1, EntryIs
  <2> QED BY <1>1, <2>2
<1>4. z[1] # Space \/ (Len(z) >= 2 /\ z[2] = Space)
  <2>1. CASE FitsNone(b, 2, 889)
    <3>1. FitsNone(b, j, t)
      BY <1>1, <2>1
    <3>2. z = <<-1>>
      BY <1>2, <3>1, EntryIsNone
    <3> QED BY <3>2 DEF Space
  <2>2. CASE Fits(b, 2, 889, 2)
    <3>1. Fits(b, j, t, two)
      BY <1>1, <2>2
    <3>3. Len(z) = two /\ \A i \in 1 .. two : z[i] = LevelOf(j)
      BY <1>2, <3>1, EntryIs
    <3>4. LevelOf(j) = Space
      BY <1>1 DEF LevelOf
    <3> QED BY <1>1, <3>3, <3>4
  <2> QED BY <2>1, <2>2
<1> QED BY <1>1, <1>2, <1>3, <1>4, BeginFailsRC5 DEF NoStart

\* NEC's repeat is read as that.
LEMMA NECRepeatIsRead ==
  ASSUME NEW e \in 0 .. 150, NEW b, Near(b[1], 9000 + e), Near(b[2], 2250 - e),
         Near(b[3], 560 + e)
  PROVE  decode(b, 4) = Repeat("NEC")
<1>1. /\ MatchMark(b[1], 9000) /\ MatchSpace(b[2], 2250) /\ MatchMark(b[3], 560)
  BY DEF Near, MatchMark, MatchSpace, Match
<1>2. decodeNEC(b, 4) = Repeat("NEC")
  BY <1>1 DEF decodeNEC
<1>3. Decoders(b, 4)[1] = decodeNEC(b, 4)
  BY DEF Decoders
<1> QED BY <1>2, <1>3, DecodesFirst, ResultIsNoErr

\* A recording of JVC's header and sixteen pulses is read as those bits.
LEMMA JVCIsRead ==
  ASSUME NEW bits \in Bits(16), NEW e \in 0 .. 150, NEW b, b[0] \in Int, b[0] >= 800,
         Near(b[1], 8000 + e), Near(b[2], 4000 - e), Pulsed(b, Timing["JVC"], 16, bits, e),
         Near(b[35], 550 + e) \/ Near(b[35], 600 + e)
  PROVE  decode(b, 36) = Result("JVC", bits)
<1>1. /\ MatchMark(b[1], 8000) /\ MatchSpace(b[2], 4000) /\ MatchMark(b[35], 600)
  BY DEF Near, MatchMark, MatchSpace, Match
<1>2. ASSUME NEW i \in 1 .. 16
      PROVE  /\ MatchMark(b[2 * i + 1], 600)
             /\ IF bits[i] = 1 THEN MatchSpace(b[2 * i + 2], 1600)
                ELSE ~MatchSpace(b[2 * i + 2], 1600) /\ MatchSpace(b[2 * i + 2], 550)
  <2>1. /\ Near(b[2 * i + 1], 600 + e)
        /\ Near(b[2 * i + 2], (IF bits[i] = 1 THEN 1600 ELSE 550) - e)
    BY TimesAre DEF Pulsed, Distance, MarkOf, SpaceOf
  <2> QED BY <2>1 DEF Near, MatchMark, MatchSpace, Match
<1>3. ~MatchMark(b[1], 600)
  BY DEF Near, MatchMark, Match
<1>4. decodeJVC(b, 36) = Result("JVC", bits)
  BY <1>1, <1>2, DistanceIsRead DEF decodeJVC
<1>5. decodeNEC(b, 36) = Err
  BY DEF decodeNEC
<1>6. decodeSony(b, 36) = Err
  <2>1. ~MatchMark(b[1], 2400)
    BY DEF Near, MatchMark, Match
  <2> QED BY <2>1 DEF decodeSony
<1>7. decodeSanyo(b, 36) = Err
  <2>1. ~MatchMark(b[1], 3500)
    BY DEF Near, MatchMark, Match
  <2> QED BY <2>1 DEF decodeSanyo
<1>8. decodeMitsubishi(b, 36) = Err
  <2>1. ~MatchMark(b[1], 350)
    BY DEF Near, MatchMark, Match
  <2> QED BY <2>1 DEF decodeMitsubishi
<1>9. decodeRC5(b, 36) = Err
  <2>1. FitsNone(b, 1, 889)
    BY DEF Near, Match, Corrected, FitsNone
  <2> QED BY <2>1, FirstFailsRC5
<1>10. decodeRC6(b, 36) = Err
  <2>1. ~MatchMark(b[1], 2666)
    BY DEF Near, MatchMark, Match
  <2> QED BY <2>1 DEF decodeRC6
<1>11. decodePanasonic(b, 36) = Err
  <2>1. ~MatchMark(b[1], 3502)
    BY DEF Near, MatchMark, Match
  <2> QED BY <2>1 DEF decodePanasonic
<1>12. /\ Decoders(b, 36)[1] = decodeNEC(b, 36) /\ Decoders(b, 36)[2] = decodeSony(b, 36)
       /\ Decoders(b, 36)[3] = decodeSanyo(b, 36)
       /\ Decoders(b, 36)[4] = decodeMitsubishi(b, 36)
       /\ Decoders(b, 36)[5] = decodeRC5(b, 36) /\ Decoders(b, 36)[6] = decodeRC6(b, 36)
       /\ Decoders(b, 36)[7] = decodePanasonic(b, 36)
       /\ Decoders(b, 36)[8] = decodeJVC(b, 36)
  BY DEF Decoders
<1>13. \A i \in 1 .. 9 : i < 8 => Decoders(b, 36)[i] = Err
  BY <1>5, <1>6, <1>7, <1>8, <1>9, <1>10, <1>11, <1>12
<1> QED BY <1>4, <1>12, <1>13, DecodesFirst, ResultIsNoErr

\* JVC's repeat has no header, and no other decoder takes it.
LEMMA JVCRepeatIsRead ==
  ASSUME NEW bits \in Bits(16), NEW e \in 0 .. 150, NEW b, b[0] \in Int, b[0] >= 800,
         Near(b[1], 600 + e), Near(b[3], 600 + e),
         Near(b[2], (IF bits[1] = 1 THEN 1600 ELSE 550) - e),
         Near(b[33], 550 + e) \/ Near(b[33], 600 + e)
  PROVE  decode(b, 34) = Repeat("JVC")
<1>1. MatchMark(b[1], 600) /\ MatchMark(b[33], 600)
  BY DEF Near, MatchMark, Match
<1>2. decodeJVC(b, 34) = Repeat("JVC")
  BY <1>1 DEF decodeJVC
<1>3. /\ ~MatchMark(b[1], 9000) /\ ~MatchMark(b[1], 2400) /\ ~MatchMark(b[1], 3500)
      /\ ~MatchMark(b[1], 2666) /\ ~MatchMark(b[1], 3502)
  BY DEF Near, MatchMark, Match
<1>4. /\ decodeNEC(b, 34) = Err /\ decodeSony(b, 34) = Err /\ decodeSanyo(b, 34) = Err
      /\ decodeRC6(b, 34) = Err /\ decodePanasonic(b, 34) = Err
  <2>1. decodeNEC(b, 34) = Err
    BY <1>3 DEF decodeNEC
  <2>2. decodeSony(b, 34) = Err
    BY <1>3 DEF decodeSony
  <2>3. decodeSanyo(b, 34) = Err
    BY <1>3 DEF decodeSanyo
  <2>4. decodeRC6(b, 34) = Err
    BY <1>3 DEF decodeRC6
  <2>5. decodePanasonic(b, 34) = Err
    BY <1>3 DEF decodePanasonic
  <2> QED BY <2>1, <2>2, <2>3, <2>4, <2>5
<1>5. decodeMitsubishi(b, 34) = Err
  <2> DEFINE before(j) == \A i \in 0 .. (j - 1) : MatchSpace(b[3 + 2 * i], 350)
             seen == {j \in {k \in 0 .. 48 : 3 + 2 * k < 34} : before(j)}
  <2>1. ~MatchSpace(b[3], 350)
    BY DEF Near, MatchSpace, Match
  <2>2. ASSUME NEW j \in 0 .. 48, before(j)
        PROVE  j = 0
    <3>1. 0 \in 0 .. (j - 1) => MatchSpace(b[3 + 2 * 0], 350)
      BY <2>2
    <3>2. 3 + 2 * 0 = 3
      OBVIOUS
    <3> QED BY <2>1, <3>1, <3>2
  <2>3. seen \subseteq {0}
    BY <2>2
  <2> HIDE DEF seen
  <2>4. Cardinality(seen) <= 1 /\ Cardinality(seen) \in Nat
    <3>1. IsFiniteSet({0}) /\ Cardinality({0}) = 1
      BY FS_Singleton
    <3>2. IsFiniteSet(seen) /\ Cardinality(seen) <= Cardinality({0})
      BY <2>3, <3>1, FS_Subset
    <3> QED BY <3>1, <3>2, FS_CardinalityType
  <2> QED BY <2>4 DEF decodeMitsubishi, seen
<1>6. decodeRC5(b, 34) = Err
  <2>1. CASE ~Match(b[1], Corrected(1, 889, 1))
    <3>1. FitsNone(b, 1, 889)
      BY <2>1 DEF Near, Match, Corrected, FitsNone
    <3> QED BY <3>1, FirstFailsRC5
  <2>2. CASE Match(b[1], Corrected(1, 889, 1))
    <3>1. e > 50
      BY <2>2 DEF Near, Match, Corrected
    <3>4. Fits(b, 1, 889, 1)
      <4>1. \A v \in 1 .. 3 : ~(v < 1)
        OBVIOUS
      <4> QED BY <2>2, <4>1 DEF Fits
    <3>2. CASE bits[1] = 1
      <4>1. /\ Match(b[2], Corrected(2, 889, 2)) /\ ~Match(b[2], Corrected(2, 889, 1))
        BY <3>2 DEF Near, Match, Corrected
      <4>2. \A v \in 1 .. 3 : v < 2 => v = 1
        OBVIOUS
      <4>3. Fits(b, 2, 889, 2)
        BY <4>1, <4>2 DEF Fits
      <4> QED BY <3>4, <4>3, SecondFailsRC5
    <3>3. CASE bits[1] # 1
      <4>1. FitsNone(b, 2, 889)
        BY <3>1, <3>3 DEF Near, Match, Corrected, FitsNone
      <4> QED BY <3>4, <4>1, SecondFailsRC5
    <3> QED BY <3>2, <3>3
  <2> QED BY <2>1, <2>2
<1>7. /\ Decoders(b, 34)[1] = decodeNEC(b, 34) /\ Decoders(b, 34)[2] = decodeSony(b, 34)
      /\ Decoders(b, 34)[3] = decodeSanyo(b, 34)
      /\ Decoders(b, 34)[4] = decodeMitsubishi(b, 34)
      /\ Decoders(b, 34)[5] = decodeRC5(b, 34) /\ Decoders(b, 34)[6] = decodeRC6(b, 34)
      /\ Decoders(b, 34)[7] = decodePanasonic(b, 34)
      /\ Decoders(b, 34)[8] = decodeJVC(b, 34)
  BY DEF Decoders
<1>8. \A i \in 1 .. 9 : i < 8 => Decoders(b, 34)[i] = Err
  BY <1>4, <1>5, <1>6, <1>7
<1>9. Repeat("JVC") # Err
  BY ResultIsNoErr
<1>10. PICK m, d : m \in 1 .. 9 /\ m = 8 /\ d = Decoders(b, 34)
  OBVIOUS
<1>11. d[m] = Repeat("JVC") /\ \A i \in 1 .. 9 : i < m => d[i] = Err
  BY <1>2, <1>7, <1>8, <1>10
<1>12. decode(b, 34) = d[m]
  BY <1>9, <1>10, <1>11, DecodesFirst
<1> QED BY <1>11, <1>12, Zenon

\* A recording of Panasonic's header and forty-eight pulses is read as those bits.
LEMMA PanasonicIsRead ==
  ASSUME NEW bits \in Bits(48), NEW e \in 0 .. 150, NEW b, b[0] \in Int, b[0] >= 800,
         Near(b[1], 3502 + e), Near(b[2], 1750 - e),
         Pulsed(b, Timing["PANASONIC"], 48, bits, e)
  PROVE  decode(b, 100) = Result("PANASONIC", bits)
<1>1. /\ MatchMark(b[1], 3502) /\ MatchMark(b[2], 1750)
  BY DEF Near, MatchMark, Match
<1>2. ASSUME NEW i \in 1 .. 48
      PROVE  /\ MatchMark(b[2 * i + 1], 502)
             /\ IF bits[i] = 1 THEN MatchSpace(b[2 * i + 2], 1244)
                ELSE ~MatchSpace(b[2 * i + 2], 1244) /\ MatchSpace(b[2 * i + 2], 400)
  <2>1. /\ Near(b[2 * i + 1], 502 + e)
        /\ Near(b[2 * i + 2], (IF bits[i] = 1 THEN 1244 ELSE 400) - e)
    BY TimesAre DEF Pulsed, Distance, MarkOf, SpaceOf
  <2> QED BY <2>1 DEF Near, MatchMark, MatchSpace, Match
<1>3. decodePanasonic(b, 100) = Result("PANASONIC", bits)
  BY <1>1, <1>2, DistanceIsRead DEF decodePanasonic
<1>4. /\ ~MatchMark(b[1], 9000) /\ ~MatchMark(b[1], 2400) /\ ~MatchMark(b[2], 3500)
      /\ ~MatchSpace(b[2], 889) /\ ~MatchMark(b[1], 350)
  BY DEF Near, MatchMark, MatchSpace, Match
<1>5. decodeNEC(b, 100) = Err
  BY <1>4 DEF decodeNEC
<1>6. decodeSony(b, 100) = Err
  BY <1>4 DEF decodeSony
<1>7. decodeSanyo(b, 100) = Err
  BY <1>4 DEF decodeSanyo
<1>8. decodeMitsubishi(b, 100) = Err
  BY <1>4 DEF decodeMitsubishi
<1>9. decodeRC6(b, 100) = Err
  BY <1>4 DEF decodeRC6
<1>10. decodeRC5(b, 100) = Err
  <2>1. ~Match(b[1], Corrected(1, 889, 1)) /\ ~Match(b[1], Corrected(1, 889, 2))
    BY DEF Near, Match, Corrected
  <2>2. CASE Match(b[1], Corrected(1, 889, 3))
    <3>1. \A v \in 1 .. 3 : v < 3 => v = 1 \/ v = 2
      OBVIOUS
    <3>2. 3 \in 2 .. 3 /\ Fits(b, 1, 889, 3)
      BY <2>1, <2>2, <3>1 DEF Fits
    <3> QED BY <3>2, FirstFailsRC5
  <2>3. CASE ~Match(b[1], Corrected(1, 889, 3))
    <3>1. \A v \in 1 .. 3 : v = 1 \/ v = 2 \/ v = 3
      OBVIOUS
    <3>2. FitsNone(b, 1, 889)
      BY <2>1, <2>3, <3>1 DEF FitsNone
    <3> QED BY <3>2, FirstFailsRC5
  <2> QED BY <2>2, <2>3
<1>11. /\ Decoders(b, 100)[1] = decodeNEC(b, 100)
       /\ Decoders(b, 100)[2] = decodeSony(b, 100)
       /\ Decoders(b, 100)[3] = decodeSanyo(b, 100)
       /\ Decoders(b, 100)[4] = decodeMitsubishi(b, 100)
       /\ Decoders(b, 100)[5] = decodeRC5(b, 100)
       /\ Decoders(b, 100)[6] = decodeRC6(b, 100)
       /\ Decoders(b, 100)[7] = decodePanasonic(b, 100)
  BY DEF Decoders
<1>12. \A i \in 1 .. 9 : i < 7 => Decoders(b, 100)[i] = Err
  BY <1>5, <1>6, <1>7, <1>8, <1>9, <1>10, <1>11
<1> QED BY <1>3, <1>11, <1>12, DecodesFirst, ResultIsNoErr

\* Sony's bits are told by the width of the mark behind each space.
SonyRecording(b, m, bits, e) ==
    /\ m \in 12 .. 32 /\ bits \in Bits(m) /\ e \in 0 .. 150
    /\ b[0] \in Int /\ b[0] >= 800 /\ Near(b[1], 2400 + e) /\ Near(b[2], 600 - e)
    /\ Pulsed(b, Timing["SONY"], m, bits, e)

\* They are read, for every number of them that sendSony() can be given.
LEMMA SonyIsRead ==
  ASSUME NEW b, NEW m, NEW bits, NEW e, SonyRecording(b, m, bits, e),
         NEW n \in Nat, n = 2 * m + 2
  PROVE  decode(b, n) = Result("SONY", bits)
<1> USE DEF SonyRecording
<1> DEFINE pairs == {j \in 0 .. 49 : 2 + 2 * j + 1 < n}
           good == {j \in pairs : \A i \in 0 .. j : MatchSpace(b[2 + 2 * i], 600)}
           w == WidthBits(b, n, 2, 600, 1200, 600)
<1>1. MatchMark(b[1], 2400) /\ MatchSpace(b[2], 600) /\ ~MatchMark(b[1], 9000)
  BY DEF Near, MatchMark, MatchSpace, Match
<1>2. pairs = 0 .. (m - 1)
  OBVIOUS
<1>3. ASSUME NEW i \in 1 .. m
      PROVE  /\ IF bits[i] = 1 THEN MatchMark(b[2 * i + 1], 1200)
                ELSE ~MatchMark(b[2 * i + 1], 1200) /\ MatchMark(b[2 * i + 1], 600)
             /\ i < m => MatchSpace(b[2 * i + 2], 600)
  <2>1. /\ Near(b[2 * i + 1], (IF bits[i] = 1 THEN 1200 ELSE 600) + e)
        /\ i < m => Near(b[2 * i + 2], 600 - e)
    BY TimesAre DEF Pulsed, MarkOf, SpaceOf
  <2> QED BY <2>1 DEF Near, MatchMark, MatchSpace, Match
<1>4. ASSUME NEW i \in 0 .. (m - 1) PROVE MatchSpace(b[2 + 2 * i], 600)
  <2>1. CASE i = 0
    <3>1. 2 + 2 * 0 = 2
      OBVIOUS
    <3> QED BY <1>1, <2>1, <3>1
  <2>2. CASE i # 0
    <3>1. i \in 1 .. m /\ i < m /\ 2 * i + 2 = 2 + 2 * i
      BY <2>2
    <3> QED BY <1>3, <3>1
  <2> QED BY <2>1, <2>2
<1>5. good = 0 .. (m - 1)
  <2>1. \A j \in 0 .. (m - 1) : \A i \in 0 .. j : i \in 0 .. (m - 1)
    OBVIOUS
  <2> HIDE DEF pairs
  <2> QED BY <1>2, <1>4, <2>1
<1>6. Cardinality(good) = m
  <2>1. Cardinality(0 .. (m - 1)) = m
    BY FS_Interval
  <2> HIDE DEF good
  <2> QED BY <1>5, <2>1
<1>7. w.ok
  <2>1. ASSUME NEW j \in 0 .. (m - 1)
        PROVE  MatchMark(b[2 + 2 * j + 1], 1200) \/ MatchMark(b[2 + 2 * j + 1], 600)
    <3>1. j + 1 \in 1 .. m /\ 2 * (j + 1) + 1 = 2 + 2 * j + 1
      OBVIOUS
    <3> QED BY <1>3, <3>1
  <2>2. w.ok = \A j \in good : \/ MatchMark(b[2 + 2 * j + 1], 1200)
                               \/ MatchMark(b[2 + 2 * j + 1], 600)
    BY DEF WidthBits
  <2> HIDE DEF w, good
  <2> QED BY <1>5, <2>1, <2>2
<1>8. w.bits = bits
  <2>1. ASSUME NEW i \in 1 .. m
        PROVE  (IF MatchMark(b[2 + 2 * i - 1], 1200) THEN 1 ELSE 0) = bits[i]
    <3>1. 2 + 2 * i - 1 = 2 * i + 1 /\ bits[i] \in {0, 1}
      BY DEF Bits
    <3> QED BY <1>3, <3>1
  <2>2. w.bits = [i \in 1 .. Cardinality(good) |->
                    IF MatchMark(b[2 + 2 * i - 1], 1200) THEN 1 ELSE 0]
    BY DEF WidthBits
  <2> HIDE DEF w, good
  <2> QED BY <1>6, <2>1, <2>2 DEF Bits
<1>9. Len(w.bits) = m
  <2>1. \A x \in Bits(m) : Len(x) = m
    BY DEF Bits
  <2> QED BY <1>8, <2>1
<1>10. decodeSony(b, n) = Result("SONY", bits)
  <2>1. n >= 26 /\ ~(b[0] < 500) /\ n \in Nat
    OBVIOUS
  <2>2. PICK v : v = w
    OBVIOUS
  <2>3. decodeSony(b, n) = IF n < 26 THEN Err
        ELSE IF b[0] < 500 THEN Repeat("SANYO")
        ELSE IF MatchMark(b[1], 2400) /\ v.ok /\ Len(v.bits) >= 12
        THEN Result("SONY", v.bits)
        ELSE Err
    BY <2>2 DEF decodeSony
  <2>4. v.ok /\ v.bits = bits /\ Len(v.bits) >= 12
    BY <1>7, <1>8, <1>9, <2>2
  <2>5. MatchMark(b[1], 2400) /\ v.ok /\ Len(v.bits) >= 12
    BY <1>1, <2>4
  <2> HIDE DEF w
  <2>6. decodeSony(b, n) = Result("SONY", v.bits)
    <3>1. ~(n < 26)
      BY <2>1
    <3>2. PICK r : r = IF MatchMark(b[1], 2400) /\ v.ok /\ Len(v.bits) >= 12
                       THEN Result("SONY", v.bits) ELSE Err
      OBVIOUS
    <3>3. decodeSony(b, n) = r
      BY <2>1, <2>3, <3>1, <3>2
    <3>4. r = Result("SONY", v.bits)
      BY <2>5, <3>2
    <3> QED BY <3>3, <3>4
  <2> QED BY <2>4, <2>6
<1>11. decodeNEC(b, n) = Err
  BY <1>1 DEF decodeNEC
<1>12. Decoders(b, n)[1] = decodeNEC(b, n) /\ Decoders(b, n)[2] = decodeSony(b, n)
  BY DEF Decoders
<1>13. \A i \in 1 .. 9 : i < 2 => Decoders(b, n)[i] = Err
  BY <1>11, <1>12
<1>14. decode(b, n) = Result("SONY", bits)
  BY <1>10, <1>12, <1>13, DecodesFirst, ResultIsNoErr
<1> QED BY <1>14

-----------------------------------------------------------------------------
(* The members of a set of numbers, in their order.                        *)

\* How many members of S there are below i, and the k-th.
Below(S, i) == Cardinality({j \in S : j < i})
Nth(S, k) == CHOOSE i \in S : Below(S, i) = k - 1

Low(S, i) == {j \in S : j < i}

\* The number below i counts the members as i goes up.
LEMMA BelowCounts ==
  ASSUME NEW M \in Nat, NEW S, S \subseteq 1 .. M
  PROVE  /\ \A i \in Int : Below(S, i) \in Nat
         /\ \A i, j \in Int : i <= j => Below(S, i) <= Below(S, j)
         /\ \A i \in Int : Below(S, i + 1) = IF i \in S THEN Below(S, i) + 1 ELSE Below(S, i)
         /\ Below(S, 1) = 0 /\ Below(S, M + 1) = Cardinality(S)
         /\ Cardinality(S) \in Nat /\ Cardinality(S) <= M
<1>1. IsFiniteSet(1 .. M) /\ Cardinality(1 .. M) = M
  BY FS_Interval
<1>2. IsFiniteSet(S) /\ Cardinality(S) <= M /\ Cardinality(S) \in Nat
  BY <1>1, FS_Subset, FS_CardinalityType
<1>0. \A i \in S : i \in Int /\ i >= 1 /\ i <= M
  OBVIOUS
<1>7. \A i \in Int : \A x : x \in Low(S, i) <=> x \in S /\ x < i
  BY DEF Low
<1>3. \A i : IsFiniteSet(Low(S, i)) /\ Below(S, i) = Cardinality(Low(S, i)) /\ Below(S, i) \in Nat
  <2>1. \A i : Low(S, i) \subseteq S
    BY DEF Low
  <2>2. \A i : IsFiniteSet(Low(S, i)) /\ Cardinality(Low(S, i)) \in Nat
    <3> QED BY <1>2, <2>1, FS_Subset, FS_CardinalityType
  <2> QED BY <2>2 DEF Below, Low
<1>4. ASSUME NEW i \in Int, NEW j \in Int, i <= j PROVE Below(S, i) <= Below(S, j)
  <2>1. Low(S, i) \subseteq Low(S, j)
    <3>1. ASSUME NEW x \in Low(S, i) PROVE x \in Low(S, j)
      <4>1. x \in S /\ x < i
        BY <1>7
      <4>2. x \in Int
        BY <1>0, <4>1
      <4>3. x < j
        BY <1>4, <4>1, <4>2
      <4> QED BY <1>7, <4>1, <4>3
    <3> QED BY <3>1
  <2> QED BY <1>3, <2>1, FS_Subset
<1>5. ASSUME NEW i \in Int
      PROVE  Below(S, i + 1) = IF i \in S THEN Below(S, i) + 1 ELSE Below(S, i)
  <2>1. CASE i \in S
    <3>1. Low(S, i + 1) = Low(S, i) \cup {i} /\ i \notin Low(S, i)
      <4>1. \A x \in S : x < i + 1 <=> x < i \/ x = i
        BY <1>0
      <4>2. \A x : x \in Low(S, i + 1) <=> x \in Low(S, i) \/ x = i
        BY <1>7, <2>1, <4>1, i + 1 \in Int
      <4>3. i \notin Low(S, i)
        BY <1>7
      <4> QED BY <4>2, <4>3
    <3>2. Cardinality(Low(S, i) \cup {i}) = Cardinality(Low(S, i)) + 1
      BY <1>3, <3>1, FS_AddElement
    <3> QED BY <1>3, <2>1, <3>1, <3>2
  <2>2. CASE i \notin S
    <3>1. Low(S, i + 1) = Low(S, i)
      <4>1. \A x \in S : x < i + 1 <=> x < i
        BY <1>0, <2>2
      <4>2. \A x : x \in Low(S, i + 1) <=> x \in Low(S, i)
        BY <1>7, <4>1, i + 1 \in Int
      <4> QED BY <4>2
    <3> QED BY <1>3, <2>2, <3>1
  <2> QED BY <2>1, <2>2
<1>6. Below(S, 1) = 0 /\ Below(S, M + 1) = Cardinality(S)
  <2>1. Low(S, 1) = {} /\ Low(S, M + 1) = S
    <3>1. \A x \in S : ~(x < 1) /\ x < M + 1
      BY <1>0
    <3>2. \A x : x \notin Low(S, 1) /\ (x \in Low(S, M + 1) <=> x \in S)
      BY <1>7, <3>1, 1 \in Int, M + 1 \in Int
    <3> QED BY <3>2
  <2> QED BY <1>3, <2>1, FS_EmptySet
<1> QED BY <1>2, <1>3, <1>4, <1>5, <1>6

\* There is a k-th member, with k - 1 below it.
LEMMA NthIs ==
  ASSUME NEW M \in Nat, NEW S, S \subseteq 1 .. M, NEW k \in 1 .. Cardinality(S)
  PROVE  /\ Nth(S, k) \in S /\ Below(S, Nth(S, k)) = k - 1
<1> DEFINE G == {m \in 1 .. M + 1 : \A h \in 1 .. Below(S, m) :
                                      \E i \in S : Below(S, i) = h - 1}
<1>0. /\ \A i \in Int : Below(S, i) \in Nat
      /\ \A i \in Int : Below(S, i + 1) = IF i \in S THEN Below(S, i) + 1 ELSE Below(S, i)
      /\ Below(S, 1) = 0 /\ Below(S, M + 1) = Cardinality(S)
  BY BelowCounts
<1>1. 1 \in G
  <2>1. 1 .. Below(S, 1) = {}
    <3>1. 1 .. 0 = {}
      OBVIOUS
    <3> QED BY <1>0, <3>1
  <2> QED BY <2>1
<1>2. ASSUME NEW m \in 1 .. M + 1 - 1, m \in G PROVE m + 1 \in G
  <2>1. SUFFICES ASSUME NEW h \in 1 .. Below(S, m + 1)
                 PROVE  \E i \in S : Below(S, i) = h - 1
    OBVIOUS
  <2>2. Below(S, m) \in Nat
        /\ Below(S, m + 1) = IF m \in S THEN Below(S, m) + 1 ELSE Below(S, m)
    <3>1. m \in Int
      OBVIOUS
    <3> QED BY ONLY <1>0, <3>1
  <2>3. CASE h <= Below(S, m)
    BY <1>2, <2>2, <2>3
  <2>4. CASE ~(h <= Below(S, m))
    <3>1. m \in S /\ h = Below(S, m) + 1
      BY <2>1, <2>2, <2>4
    <3> QED BY <2>2, <3>1
  <2> QED BY <2>3, <2>4
<1>3. M + 1 \in G
  <2> HIDE DEF G
  <2>1. \A m \in 1 .. M + 1 - 1 : m \in G => m + 1 \in G
    BY <1>2
  <2> QED BY <1>1, <2>1, CountUp, 1 \in Int, M + 1 \in Int, M + 1 \in 1 .. M + 1
<1>4. \E i \in S : Below(S, i) = k - 1
  <2>1. Below(S, M + 1) = Cardinality(S)
    BY <1>0
  <2> QED BY <1>3, <2>1
<1> QED BY <1>4 DEF Nth

\* The members in their order, none left out.
LEMMA NthInOrder ==
  ASSUME NEW M \in Nat, NEW S, S \subseteq 1 .. M, NEW c, c = Cardinality(S)
  PROVE  /\ \A k \in 1 .. c - 1 : /\ Nth(S, k) < Nth(S, k + 1)
                                  /\ \A i \in S : ~(Nth(S, k) < i /\ i < Nth(S, k + 1))
         /\ c > 0 => \A i \in S : i <= Nth(S, c)
         /\ 1 \in S => c > 0 /\ Nth(S, 1) = 1
<1>1. /\ c \in Nat
      /\ \A i \in Int : Below(S, i) \in Nat
      /\ \A i, j \in Int : i <= j => Below(S, i) <= Below(S, j)
      /\ \A i \in Int : Below(S, i + 1) = IF i \in S THEN Below(S, i) + 1 ELSE Below(S, i)
      /\ Below(S, 1) = 0 /\ Below(S, M + 1) = c
  BY BelowCounts
<1>2. \A k \in 1 .. c : Nth(S, k) \in S /\ Below(S, Nth(S, k)) = k - 1
  BY NthIs
<1>3. S \subseteq Int
  OBVIOUS
<1>4. ASSUME NEW i \in S, NEW j \in S PROVE Below(S, i) < Below(S, j) <=> i < j
  <2>1. CASE i < j
    <3>1. i + 1 <= j /\ i + 1 \in Int
      BY <1>3, <2>1
    <3> QED BY <1>1, <1>3, <2>1, <3>1
  <2>2. CASE ~(i < j)
    BY <1>1, <1>3, <2>2
  <2> QED BY <2>1, <2>2
<1>5. ASSUME NEW k \in 1 .. c - 1
      PROVE  /\ Nth(S, k) < Nth(S, k + 1)
             /\ \A i \in S : ~(Nth(S, k) < i /\ i < Nth(S, k + 1))
  <2>1. PICK x \in S, y \in S : /\ x = Nth(S, k) /\ y = Nth(S, k + 1)
                                /\ Below(S, x) = k - 1 /\ Below(S, y) = k
    <3>1. PICK h : h = k + 1
      OBVIOUS
    <3>2. k \in 1 .. c /\ h \in 1 .. c /\ h - 1 = k
      BY ONLY <1>1, <3>1, k \in 1 .. c - 1
    <3>3. Nth(S, k) \in S /\ Below(S, Nth(S, k)) = k - 1
      BY <1>2, <3>2
    <3>4. Nth(S, h) \in S /\ Below(S, Nth(S, h)) = h - 1
      BY <1>2, <3>2
    <3> QED BY <3>1, <3>2, <3>3, <3>4
  <2>2. x < y
    BY <1>4, <2>1
  <2>3. ASSUME NEW i \in S, x < i, i < y PROVE FALSE
    <3>1. Below(S, x) < Below(S, i) /\ Below(S, i) < Below(S, y)
      BY <1>4, <2>3
    <3>2. Below(S, i) \in Nat
      BY <1>1, <1>3
    <3> QED BY <2>1, <3>1, <3>2
  <2> QED BY <2>1, <2>2, <2>3
<1>6. ASSUME c > 0, NEW i \in S PROVE i <= Nth(S, c)
  <2>1. PICK x \in S : x = Nth(S, c) /\ Below(S, x) = c - 1
    <3>1. c \in 1 .. c
      BY <1>1, <1>6
    <3> QED BY <1>2, <3>1
  <2>2. Below(S, i) + 1 <= c /\ Below(S, i) \in Nat
    <3>1. i + 1 <= M + 1 /\ i + 1 \in Int /\ M + 1 \in Int /\ i \in Int
      OBVIOUS
    <3>2. Below(S, i + 1) <= Below(S, M + 1) /\ Below(S, i + 1) = Below(S, i) + 1
      BY <1>1, <3>1
    <3> QED BY <1>1, <3>1, <3>2
  <2>3. ~(x < i)
    BY <1>1, <1>4, <2>1, <2>2
  <2> QED BY <1>3, <2>1, <2>3
<1>7. ASSUME 1 \in S PROVE c > 0 /\ Nth(S, 1) = 1
  <2>1. c > 0
    <3>1. 1 + 1 <= M + 1 /\ Below(S, 1 + 1) = 1
      BY <1>1, <1>7
    <3>2. Below(S, 1 + 1) <= Below(S, M + 1)
      BY <1>1, <3>1
    <3> QED BY <1>1, <3>1, <3>2
  <2>2. PICK x \in S : x = Nth(S, 1) /\ Below(S, x) = 0
    <3>1. PICK k \in 1 .. c : k = 1
      BY <1>1, <2>1
    <3>2. Nth(S, k) \in S /\ Below(S, Nth(S, k)) = k - 1 /\ k - 1 = 0
      BY <1>2, <3>1
    <3> QED BY <3>1, <3>2
  <2>3. ~(1 < x)
    BY <1>1, <1>4, <1>7, <2>2
  <2> QED BY <2>1, <2>2, <2>3
<1> QED BY <1>5, <1>6, <1>7

-----------------------------------------------------------------------------
(* Runs: equal levels of RC5 and RC6 that are sent as one mark or space.   *)

\* The runs of levels: F[k] is where the k-th begins, marks and spaces in turn.
Runs(L, M, F, c) ==
    /\ M \in Nat /\ c \in Nat /\ c >= 1 /\ c <= M /\ DOMAIN F = 1 .. (c + 1)
    /\ F[1] = 1 /\ F[c + 1] = M + 1
    /\ \A k \in 1 .. c : /\ F[k] \in Int /\ F[k] >= 1 /\ F[k + 1] \in Int
                          /\ F[k] < F[k + 1] /\ F[k + 1] <= M + 1
    /\ \A k \in 1 .. c : \A p \in Int : F[k] <= p /\ p < F[k + 1] => L[p] = LevelOf(k)

\* Those that are sent: a last space is not.
Shown(c) == IF c % 2 = 1 THEN c ELSE c - 1

StartsOf(L) == {i \in DOMAIN L : i = 1 \/ L[i] # L[i - 1]}
EndOf(L, k) == IF k = Cardinality(StartsOf(L)) THEN Len(L) ELSE Nth(StartsOf(L), k + 1) - 1
RunsOf(L, t) == [k \in 1 .. Cardinality(StartsOf(L)) |-> t * (EndOf(L, k) - Nth(StartsOf(L), k) + 1)]

\* Joined(), in terms of these.
LEMMA JoinedDef ==
  ASSUME NEW L, NEW t
  PROVE  Joined(L, t) = IF L[Len(L)] = Space
                        THEN SubSeq(RunsOf(L, t), 1, Len(RunsOf(L, t)) - 1) ELSE RunsOf(L, t)
BY DEF Joined, RunsOf, EndOf, StartsOf, Nth, Below

\* Where the runs begin, in their order, none left out.
Between(S, x, y, M) ==
    /\ x \in Int /\ x >= 1 /\ x <= M /\ y \in Int /\ x < y /\ y <= M + 1
    /\ \A i \in S : ~(x < i /\ i < y)
Beginnings(S, F, c, M) ==
    /\ c \in Nat /\ c >= 1 /\ c <= M /\ DOMAIN F = 1 .. (c + 1)
    /\ F[1] = 1 /\ F[c + 1] = M + 1
    /\ \A k \in 1 .. c : Between(S, F[k], F[k + 1], M) /\ (k < c => F[k + 1] \in S)

InOrder(S, c, M) == [k \in 1 .. (c + 1) |-> IF k = c + 1 THEN M + 1 ELSE Nth(S, k)]

\* The places where a level differs from the one before are such beginnings.
LEMMA BeginningsAre ==
  ASSUME NEW M \in Nat \ {0}, NEW S, S \subseteq 1 .. M, 1 \in S, NEW c, c = Cardinality(S),
         NEW F, F = InOrder(S, c, M)
  PROVE  /\ Beginnings(S, F, c, M)
         /\ \A k \in 1 .. c : F[k] = Nth(S, k)
<1> USE DEF InOrder
<1>1. \A i \in S : i \in Int /\ i >= 1 /\ i <= M
  OBVIOUS
<1>2. c \in Nat /\ c <= M
  BY BelowCounts
<1>3. /\ \A k \in 1 .. c - 1 : /\ Nth(S, k) < Nth(S, k + 1)
                               /\ \A i \in S : ~(Nth(S, k) < i /\ i < Nth(S, k + 1))
      /\ c > 0 /\ Nth(S, 1) = 1 /\ \A i \in S : i <= Nth(S, c)
  BY NthInOrder
<1>4. \A k \in 1 .. c : Nth(S, k) \in S
  BY NthIs
<1>5. ASSUME NEW k \in 1 .. c
      PROVE  /\ F[k] = Nth(S, k) /\ (k < c => F[k + 1] \in S)
             /\ Between(S, F[k], F[k + 1], M)
  <2>1. k \in 1 .. (c + 1) /\ k + 1 \in 1 .. (c + 1) /\ k # c + 1 /\ (k + 1 = c + 1 <=> k = c)
    BY <1>2
  <2>2. PICK x, y : x = F[k] /\ y = F[k + 1]
    OBVIOUS
  <2>3. x = Nth(S, k) /\ y = IF k = c THEN M + 1 ELSE Nth(S, k + 1)
    BY <2>1, <2>2
  <2>4. x \in S /\ x \in Int /\ x >= 1 /\ x <= M
    BY <1>1, <1>4, <2>3
  <2>5. CASE k = c
    <3>1. y = M + 1 /\ y \in Int
      BY <2>3, <2>5
    <3>2. \A i \in S : i <= x
      BY <1>3, <2>3, <2>5
    <3>3. \A i \in S : ~(x < i)
      BY <1>1, <2>4, <3>2
    <3>4. x < y /\ y <= M + 1
      BY <2>4, <3>1
    <3> QED BY ONLY <2>2, <2>3, <2>4, <2>5, <3>1, <3>3, <3>4 DEF Between
  <2>6. CASE k # c
    <3>1. k \in 1 .. c - 1 /\ k + 1 \in 1 .. c
      BY <1>2, <2>6
    <3>2. y = Nth(S, k + 1) /\ y \in S
      BY <1>4, <2>3, <2>6, <3>1
    <3>3. Nth(S, k) < Nth(S, k + 1)
          /\ \A i \in S : ~(Nth(S, k) < i /\ i < Nth(S, k + 1))
      BY ONLY <1>3, <3>1
    <3>4. x < y /\ \A i \in S : ~(x < i /\ i < y)
      BY ONLY <2>3, <3>2, <3>3, Zenon
    <3>5. y \in Int /\ y <= M
      BY <1>1, <3>2
    <3>6. Between(S, x, y, M)
      BY ONLY <2>4, <3>4, <3>5, M \in Nat DEF Between
    <3> QED BY ONLY <2>2, <2>3, <3>2, <3>6
  <2> QED BY <2>5, <2>6
<1>6. F[1] = 1 /\ F[c + 1] = M + 1 /\ DOMAIN F = 1 .. (c + 1) /\ c >= 1
  <2>1. 1 \in 1 .. c /\ c + 1 \in 1 .. (c + 1)
    BY <1>2, <1>3
  <2>2. F[1] = Nth(S, 1)
    BY <1>5, <2>1
  <2>3. F[c + 1] = M + 1
    BY <2>1
  <2> QED BY <1>2, <1>3, <2>2, <2>3
<1> QED BY ONLY <1>2, <1>5, <1>6 DEF Beginnings

\* Between two of them all levels are equal, and each run is of the other level.
LEMMA RunsFollow ==
  ASSUME NEW M \in Nat \ {0}, NEW L \in [1 .. M -> {Mark, Space}], L[1] = Mark,
         NEW S, \A i \in 1 .. M : i \in S <=> i = 1 \/ L[i] # L[i - 1],
         NEW c, NEW F, Beginnings(S, F, c, M)
  PROVE  Runs(L, M, F, c)
<1>1. /\ c \in Nat /\ c >= 1 /\ c <= M /\ DOMAIN F = 1 .. (c + 1)
      /\ F[1] = 1 /\ F[c + 1] = M + 1
      /\ \A k \in 1 .. c : Between(S, F[k], F[k + 1], M) /\ (k < c => F[k + 1] \in S)
  BY DEF Beginnings
<1>7. ASSUME NEW x, NEW y, Between(S, x, y, M), NEW p \in Int, x <= p, p < y
      PROVE  L[p] = L[x]
  <2>1. x \in Int /\ y \in Int /\ x >= 1 /\ y <= M + 1 /\ \A i \in S : ~(x < i /\ i < y)
    BY <1>7 DEF Between
  <2> DEFINE G == {i \in x .. y - 1 : L[i] = L[x]}
  <2>2. x \in G
    BY <1>7, <2>1
  <2>3. ASSUME NEW i \in x .. y - 1 - 1, i \in G PROVE i + 1 \in G
    <3>1. i + 1 \in 1 .. M /\ i + 1 # 1 /\ i + 1 - 1 = i /\ x < i + 1 /\ i + 1 < y
          /\ i + 1 \in x .. y - 1
      BY <2>1
    <3>2. i + 1 \notin S
      BY <2>1, <3>1
    <3>3. L[i + 1] = L[i]
      BY <3>1, <3>2
    <3> QED BY <2>3, <3>1, <3>3
  <2>4. \A i \in x .. y - 1 : i \in G
    <3> HIDE DEF G
    <3>1. \A i \in x .. y - 1 - 1 : i \in G => i + 1 \in G
      BY <2>3
    <3> QED BY <2>1, <2>2, <3>1, CountUp, y - 1 \in Int
  <2>5. p \in x .. y - 1
    BY <1>7, <2>1
  <2> QED BY <2>4, <2>5
<1>8. Mark = 0 /\ Space = 1
  BY DEF Mark, Space
<1>9. \A k \in 1 .. c : L[F[k]] = LevelOf(k)
  <2> DEFINE G == {k \in 1 .. c : L[F[k]] = LevelOf(k)}
  <2>1. 1 \in G
    BY <1>1 DEF LevelOf
  <2>2. ASSUME NEW k \in 1 .. c - 1, k \in G PROVE k + 1 \in G
    <3>1. k \in 1 .. c /\ k + 1 \in 1 .. c /\ k < c
      BY <1>1
    <3>2. PICK x, y : x = F[k] /\ y = F[k + 1]
      OBVIOUS
    <3>3. Between(S, x, y, M) /\ y \in S
      BY <1>1, <3>1, <3>2
    <3>4. x \in Int /\ x >= 1 /\ y \in Int /\ x < y /\ y <= M + 1
      BY <3>3 DEF Between
    <3>5. y \in 1 .. M /\ y # 1 /\ x <= y - 1 /\ y - 1 < y /\ y - 1 \in Int
      <4>1. y # M + 1
        <5>1. k + 1 \in 1 .. c
          BY <3>1
        <5>2. Between(S, F[k + 1], F[k + 1 + 1], M)
          BY <1>1, <5>1
        <5> QED BY <3>2, <5>2 DEF Between
      <4> QED BY <3>4, <4>1
    <3>6. L[y] # L[y - 1]
      BY <3>3, <3>5
    <3>7. L[y - 1] = L[x]
      BY <1>7, <3>3, <3>5
    <3>8. L[y] \in {Mark, Space} /\ L[x] = LevelOf(k)
      BY <2>2, <3>2, <3>5
    <3>9. k % 2 = 1 <=> (k + 1) % 2 # 1
      OBVIOUS
    <3>10. L[y] = LevelOf(k + 1)
      BY <1>8, <3>6, <3>7, <3>8, <3>9 DEF LevelOf
    <3> QED BY <3>1, <3>2, <3>10
  <2>3. \A k \in 1 .. c : k \in G
    <3> HIDE DEF G
    <3>1. \A k \in 1 .. c - 1 : k \in G => k + 1 \in G
      BY <2>2
    <3>2. c \in Int /\ 1 \in Int
      BY <1>1
    <3> QED BY ONLY <2>1, <3>1, <3>2, CountUp
  <2> QED BY <2>3
<1>10. ASSUME NEW k \in 1 .. c
       PROVE  /\ F[k] \in Int /\ F[k] >= 1 /\ F[k + 1] \in Int
              /\ F[k] < F[k + 1] /\ F[k + 1] <= M + 1
  <2>1. Between(S, F[k], F[k + 1], M)
    BY <1>1
  <2> QED BY <2>1 DEF Between
<1>11. ASSUME NEW k \in 1 .. c, NEW p \in Int, F[k] <= p, p < F[k + 1]
       PROVE  L[p] = LevelOf(k)
  <2>1. PICK x, y : x = F[k] /\ y = F[k + 1]
    OBVIOUS
  <2>2. Between(S, x, y, M) /\ L[x] = LevelOf(k) /\ x <= p /\ p < y
    BY <1>1, <1>9, <1>11, <2>1
  <2> QED BY <1>7, <2>2
<1> QED BY <1>1, <1>10, <1>11 DEF Runs

-----------------------------------------------------------------------------
(* What is sent of the runs, and what a decoder makes of them.             *)

\* What is sent of runs: each as long as its levels.
Sending(us, F, c, t) ==
    /\ us \in Seq(Nat) /\ Len(us) = Shown(c)
    /\ \A k \in 1 .. Shown(c) : us[k] = t * (F[k + 1] - F[k])

\* Joined() sends the runs of the levels it is given.
LEMMA JoinedIs ==
  ASSUME NEW M \in Nat \ {0}, NEW L \in [1 .. M -> {Mark, Space}], L[1] = Mark,
         NEW t \in Nat, NEW us, us = Joined(L, t)
  PROVE  \E F, c : Runs(L, M, F, c) /\ Sending(us, F, c, t)
<1>1. PICK S : S = StartsOf(L)
  OBVIOUS
<1>2. DOMAIN L = 1 .. M /\ Len(L) = M
  <2>1. L \in Seq({Mark, Space})
    OBVIOUS
  <2> QED BY <2>1
<1>3. S \subseteq 1 .. M /\ \A i \in 1 .. M : i \in S <=> i = 1 \/ L[i] # L[i - 1]
  BY <1>1, <1>2 DEF StartsOf
<1>4. 1 \in S
  BY <1>3
<1>5. PICK c : c = Cardinality(S)
  OBVIOUS
<1>6. PICK F : F = InOrder(S, c, M)
  OBVIOUS
<1>7. Beginnings(S, F, c, M) /\ \A k \in 1 .. c : F[k] = Nth(S, k)
  <2>1. M \in Nat \ {0} /\ S \subseteq 1 .. M
    BY <1>3
  <2>2. M \in Nat \ {0} /\ S \subseteq 1 .. M /\ 1 \in S /\ c = Cardinality(S) /\ F = InOrder(S, c, M)
    BY <1>4, <1>5, <1>6, <2>1
  <2>3. Beginnings(S, F, c, M)
    BY ONLY <2>2, BeginningsAre
  <2>4. \A k \in 1 .. c : F[k] = Nth(S, k)
    <3>1. c \in Nat
      BY <2>3 DEF Beginnings
    <3>2. \A k \in 1 .. c : k \in 1 .. (c + 1) /\ k # c + 1
      BY ONLY <3>1
    <3> QED BY ONLY <2>2, <3>2 DEF InOrder
  <2> QED BY <2>3, <2>4
<1>8. Runs(L, M, F, c)
  BY <1>3, <1>7, RunsFollow
<1>9. /\ c \in Nat /\ c >= 1 /\ c <= M /\ F[c + 1] = M + 1
      /\ \A k \in 1 .. c : F[k] \in Int /\ F[k + 1] \in Int /\ F[k] < F[k + 1]
      /\ \A k \in 1 .. c : \A p \in Int : F[k] <= p /\ p < F[k + 1] => L[p] = LevelOf(k)
  BY <1>8 DEF Runs
<1>10. PICK q : q = RunsOf(L, t)
  OBVIOUS
<1>11. q \in Seq(Nat) /\ Len(q) = c /\ \A k \in 1 .. c : q[k] = t * (F[k + 1] - F[k])
  <2>1. q = [k \in 1 .. c |-> t * (EndOf(L, k) - Nth(S, k) + 1)]
    BY <1>1, <1>5, <1>10 DEF RunsOf
  <2>2. ASSUME NEW k \in 1 .. c
        PROVE  q[k] = t * (F[k + 1] - F[k]) /\ q[k] \in Nat
    <3>1. EndOf(L, k) = F[k + 1] - 1
      <4>1. CASE k = c
        <5>1. EndOf(L, k) = M
          BY <1>1, <1>2, <1>5, <4>1 DEF EndOf
        <5> QED BY <1>9, <4>1, <5>1
      <4>2. CASE k # c
        <5>1. k + 1 \in 1 .. c
          BY <1>9, <4>2
        <5>2. EndOf(L, k) = Nth(S, k + 1) - 1
          BY <1>1, <1>5, <4>2 DEF EndOf
        <5> QED BY <1>7, <5>1, <5>2
      <4> QED BY <4>1, <4>2
    <3>2. q[k] = t * (EndOf(L, k) - Nth(S, k) + 1)
      BY <2>1
    <3>3. PICK x, y \in Int : x = F[k] /\ y = F[k + 1] /\ x < y
      BY <1>9
    <3>4. q[k] = t * (y - 1 - x + 1)
      BY <1>7, <3>1, <3>2, <3>3
    <3>5. PICK u \in Nat : u = y - x
      BY <3>3
    <3>6. y - 1 - x + 1 = u
      BY <3>3, <3>5
    <3> QED BY <3>3, <3>4, <3>5, <3>6, SMTT(30)
  <2>3. q \in [1 .. c -> Nat]
    <3>1. q = [k \in 1 .. c |-> q[k]]
      BY <2>1
    <3> QED BY <2>2, <3>1
  <2> QED BY <1>9, <2>2, <2>3
<1>12. L[M] = LevelOf(c)
  <2>1. c \in 1 .. c
    BY <1>9
  <2>2. PICK x \in Int : x = F[c] /\ x < M + 1
    BY <1>9, <2>1
  <2>3. x <= M /\ M < F[c + 1] /\ M \in Int
    BY <1>9, <2>2
  <2> QED BY <1>9, <2>1, <2>2, <2>3, SMTT(40)
<1>13. us = IF c % 2 = 1 THEN q ELSE SubSeq(q, 1, c - 1)
  <2>1. us = IF L[Len(L)] = Space THEN SubSeq(q, 1, Len(q) - 1) ELSE q
    BY <1>10, JoinedDef
  <2>2. L[Len(L)] = Space <=> ~(c % 2 = 1)
    BY <1>2, <1>12 DEF LevelOf, Mark, Space
  <2> QED BY <1>11, <2>1, <2>2
<1>14. Sending(us, F, c, t)
  <2>1. CASE c % 2 = 1
    BY <1>11, <1>13, <2>1 DEF Sending, Shown
  <2>2. CASE ~(c % 2 = 1)
    <3>1. us = SubSeq(q, 1, c - 1)
      BY <1>13, <2>2
    <3>2. \A i \in 1 .. (c - 1) : q[i] \in Nat
      BY <1>11
    <3>3. c - 1 \in Nat
      BY <1>9
    <3>4. us \in Seq(Nat) /\ Len(us) = c - 1 /\ \A i \in 1 .. (c - 1) : us[i] = q[i]
      BY <3>1, <3>2, <3>3, SubSeqProperties
    <3>5. Shown(c) = c - 1
      BY <2>2 DEF Shown
    <3> QED BY <1>11, <3>3, <3>4, <3>5 DEF Sending
  <2> QED BY <2>1, <2>2
<1> QED BY <1>8, <1>14

\* An odd number of runs is sent, and only a space is left out.
LEMMA ShownIs ==
  ASSUME NEW c \in Nat, c >= 1
  PROVE  /\ Shown(c) \in Nat /\ Shown(c) >= 1 /\ Shown(c) % 2 = 1
         /\ Shown(c) = c \/ (Shown(c) = c - 1 /\ LevelOf(c) = Space)
<1>1. c % 2 = 1 \/ (c % 2 = 0 /\ (c - 1) % 2 = 1 /\ c - 1 >= 1)
  OBVIOUS
<1> QED BY <1>1 DEF Shown, LevelOf

\* Every run that is sent is recorded as so many units of its level.
HeardFrom(b, from, F, c, t1) ==
    \A k \in 1 .. Shown(c) : /\ F[k + 1] - F[k] \in 1 .. 3
                             /\ Fits(b, from - 1 + k, t1, F[k + 1] - F[k])

LevelsOf(l, L, M) ==
    /\ l \in Seq(Int) /\ Len(l) <= M
    /\ \A p \in 1 .. M : LevelAt(l, p) = L[p]

\* The levels that a decoder takes from the recording are those that were sent.
LEMMA LevelsAreRuns ==
  ASSUME NEW M, NEW L, NEW F, NEW c, Runs(L, M, F, c),
         NEW from \in {1, 3}, NEW t1 \in Nat, NEW b, HeardFrom(b, from, F, c, t1),
         NEW n, n = from + Shown(c), NEW l, l = Levels(b, n, from, t1)
  PROVE  LevelsOf(l, L, M) /\ Len(l) = F[Shown(c) + 1] - 1
<1>1. /\ M \in Nat /\ c \in Nat /\ c >= 1 /\ c <= M /\ F[1] = 1 /\ F[c + 1] = M + 1
      /\ \A k \in 1 .. c : F[k] \in Int /\ F[k] >= 1 /\ F[k + 1] \in Int /\ F[k] < F[k + 1]
      /\ \A k \in 1 .. c : \A p \in Int : F[k] <= p /\ p < F[k + 1] => L[p] = LevelOf(k)
  BY DEF Runs
<1>2. PICK R \in Nat : /\ R = Shown(c) /\ R >= 1
                       /\ R = c \/ (R = c - 1 /\ LevelOf(c) = Space)
  BY <1>1, ShownIs
<1>3. n = from + R /\ n \in Nat /\ from \in Nat /\ from < n
  BY <1>2
<1>4. PICK f : UpTo(b, n, from, t1, f) /\ l = f[n - 1]
  BY <1>3, LevelsAre
<1>5. /\ f[from - 1] = <<>>
      /\ \A k \in from .. (n - 1) : f[k] = f[k - 1] \o EntryLevels(b, k, t1)
  BY <1>4 DEF UpTo
<1> DEFINE Good(k) == /\ f[from - 1 + k] \in Seq(Int)
                      /\ Len(f[from - 1 + k]) = F[k + 1] - 1
                      /\ \A p \in 1 .. F[k + 1] - 1 : f[from - 1 + k][p] = L[p]
           G == {k \in 0 .. R : Good(k)}
<1>6. 0 \in G
  <2>1. f[from - 1 + 0] = <<>>
    BY <1>5
  <2>2. F[0 + 1] = 1
    BY <1>1
  <2>3. <<>> \in Seq(Int) /\ Len(<<>>) = 0 /\ 1 .. 1 - 1 = {}
    OBVIOUS
  <2>4. Good(0)
    BY <2>1, <2>2, <2>3
  <2> QED BY <2>4
<1>7. ASSUME NEW k \in 0 .. R - 1, k \in G PROVE k + 1 \in G
  <2>1. PICK j \in 1 .. R : j = k + 1
    BY <1>2
  <2>2. PICK i \in Nat : i = from - 1 + j /\ i - 1 = from - 1 + k /\ i \in from .. (n - 1)
    BY <1>3, <2>1
  <2>3. j \in 1 .. c
    BY <1>1, <1>2, <2>1
  <2>4. PICK x, y \in Int : x = F[k + 1] /\ y = F[j + 1] /\ x >= 1 /\ x < y
                            /\ \A p \in Int : x <= p /\ p < y => L[p] = LevelOf(j)
    BY <1>1, <2>1, <2>3
  <2>5. PICK u \in 1 .. 3 : u = y - x /\ Fits(b, i, t1, u)
    BY <1>2, <2>1, <2>2, <2>4 DEF HeardFrom
  <2>6. PICK z : z = EntryLevels(b, i, t1)
    OBVIOUS
  <2>7. z \in Seq(Int) /\ Len(z) = u /\ \A m \in 1 .. u : z[m] = LevelOf(i)
    <3>1. /\ EntryLevels(b, i, t1) \in Seq(Int) /\ Len(EntryLevels(b, i, t1)) = u
          /\ \A m \in 1 .. u : EntryLevels(b, i, t1)[m] = LevelOf(i)
      <4>1. i \in Nat /\ t1 \in Nat /\ u \in 1 .. 3 /\ Fits(b, i, t1, u)
        BY <2>2, <2>5
      <4> QED BY ONLY <4>1, EntryIs
    <3> QED BY ONLY <2>6, <3>1
  <2>8. LevelOf(i) = LevelOf(j)
    <3>1. i % 2 = 1 <=> j % 2 = 1
      BY <2>1, <2>2
    <3> QED BY <3>1 DEF LevelOf
  <2>9. PICK g : g = f[i - 1]
    OBVIOUS
  <2>10. g \in Seq(Int) /\ Len(g) = x - 1 /\ \A p \in 1 .. x - 1 : g[p] = L[p]
    BY <1>7, <2>2, <2>4, <2>9
  <2>11. PICK h : h = f[i] /\ h = g \o z
    BY <1>5, <2>2, <2>6, <2>9
  <2>12. /\ h \in Seq(Int) /\ Len(h) = Len(g) + Len(z)
         /\ \A p \in 1 .. Len(g) + Len(z) :
              h[p] = IF p <= Len(g) THEN g[p] ELSE z[p - Len(g)]
    <3>1. /\ g \o z \in Seq(Int) /\ Len(g \o z) = Len(g) + Len(z)
          /\ \A p \in 1 .. Len(g) + Len(z) :
              (g \o z)[p] = IF p <= Len(g) THEN g[p] ELSE z[p - Len(g)]
      BY <2>7, <2>10, ConcatProperties, Zenon
    <3> QED BY <2>11, <3>1
  <2>13. Len(h) = y - 1
    BY <2>5, <2>7, <2>10, <2>12
  <2>14. ASSUME NEW p \in 1 .. y - 1 PROVE h[p] = L[p]
    <3>1. h[p] = IF p <= x - 1 THEN g[p] ELSE z[p - (x - 1)]
      BY <2>5, <2>7, <2>10, <2>12
    <3>2. CASE p <= x - 1
      <4>1. p \in 1 .. x - 1
        BY <2>4, <3>2
      <4> QED BY <2>10, <3>1, <3>2, <4>1
    <3>3. CASE ~(p <= x - 1)
      <4>1. p - (x - 1) \in 1 .. u /\ x <= p /\ p < y /\ p \in Int
        BY <2>4, <2>5, <3>3
      <4> QED BY <2>4, <2>7, <2>8, <3>1, <3>3, <4>1
    <3> QED BY <3>2, <3>3
  <2>15. Good(j)
    BY <2>2, <2>4, <2>11, <2>12, <2>13, <2>14
  <2> HIDE DEF Good
  <2> QED BY <2>1, <2>15
<1>8. Good(R)
  <2> HIDE DEF Good
  <2>1. R \in G
    <3> HIDE DEF G
    <3>1. \A k \in 0 .. R - 1 : k \in G => k + 1 \in G
      BY <1>7
    <3>2. R \in 0 .. R /\ 0 \in Int /\ R \in Int
      BY <1>2
    <3> QED BY <1>6, <3>1, <3>2, CountUp
  <2> QED BY <2>1
<1>9. /\ l \in Seq(Int) /\ Len(l) = F[R + 1] - 1
      /\ \A p \in 1 .. F[R + 1] - 1 : l[p] = L[p]
  <2>1. from - 1 + R = n - 1
    BY <1>3
  <2> QED BY <1>4, <1>8, <2>1
<1>10. PICK y : y = F[R + 1]
  OBVIOUS
<1>11. /\ y \in Int /\ y <= M + 1
       /\ \A p \in Int : y <= p /\ p <= M => L[p] = Space
  <2>1. CASE R = c
    <3>1. y = M + 1
      BY <1>1, <1>10, <2>1
    <3> QED BY <1>1, <3>1
  <2>2. CASE R = c - 1 /\ LevelOf(c) = Space
    <3>1. c \in 1 .. c /\ y = F[c]
      BY <1>1, <1>10, <2>2
    <3>2. /\ y \in Int /\ y < M + 1
          /\ \A p \in Int : y <= p /\ p < M + 1 => L[p] = LevelOf(c)
      BY <1>1, <3>1
    <3>3. \A p \in Int : p <= M => p < M + 1
      BY <1>1
    <3> QED BY <1>1, <2>2, <3>2, <3>3
  <2> QED BY <1>2, <2>1, <2>2
<1>12. ASSUME NEW p \in 1 .. M PROVE LevelAt(l, p) = L[p]
  <2>1. CASE p <= Len(l)
    <3>1. p \in 1 .. y - 1
      BY <1>9, <1>10, <1>11, <2>1
    <3> QED BY <1>9, <1>10, <2>1, <3>1 DEF LevelAt
  <2>2. CASE ~(p <= Len(l))
    <3>1. y <= p /\ p <= M /\ p \in Int
      BY <1>1, <1>9, <1>10, <1>11, <2>2, SMTT(40)
    <3> QED BY <1>11, <2>2, <3>1 DEF LevelAt
  <2> QED BY <2>1, <2>2
<1>13. Len(l) <= M
  <2>1. PICK j : j = Len(l)
    OBVIOUS
  <2>2. j = y - 1
    BY <1>9, <1>10, <2>1
  <2>3. y \in Int /\ y <= M + 1 /\ M \in Int
    BY <1>1, <1>11
  <2> QED BY <2>1, <2>2, <2>3
<1> QED BY <1>2, <1>9, <1>12, <1>13 DEF LevelsOf

-----------------------------------------------------------------------------
(* The levels of RC5 and RC6 codes.                                        *)

\* Flat() of pairs of levels.
LEMMA FlatIs ==
  ASSUME NEW n \in Nat, NEW g, \A i \in 1 .. n : g[i][1] \in {0, 1} /\ g[i][2] \in {0, 1},
         NEW f, f = Flat(g, n)
  PROVE  /\ f \in Seq({0, 1}) /\ Len(f) = 2 * n
         /\ \A i \in 1 .. n : f[2 * i - 1] = g[i][1] /\ f[2 * i] = g[i][2]
<1>1. f = [k \in 1 .. (2 * n) |-> g[(k + 1) \div 2][2 - (k % 2)]]
  BY DEF Flat
<1>2. ASSUME NEW k \in 1 .. (2 * n)
      PROVE  (k + 1) \div 2 \in 1 .. n /\ 2 - (k % 2) \in {1, 2}
  OBVIOUS
<1>3. ASSUME NEW k \in 1 .. (2 * n) PROVE f[k] \in {0, 1}
  BY <1>1, <1>2
<1>4. f \in [1 .. (2 * n) -> {0, 1}] /\ 2 * n \in Nat
  <2>1. f = [k \in 1 .. (2 * n) |-> f[k]]
    BY <1>1
  <2> QED BY <1>3, <2>1
<1>5. f \in Seq({0, 1}) /\ Len(f) = 2 * n
  BY <1>4
<1>6. ASSUME NEW i \in 1 .. n
      PROVE  f[2 * i - 1] = g[i][1] /\ f[2 * i] = g[i][2]
  <2>1. /\ 2 * i - 1 \in 1 .. (2 * n) /\ 2 * i \in 1 .. (2 * n)
        /\ (2 * i - 1 + 1) \div 2 = i /\ (2 * i + 1) \div 2 = i
        /\ 2 - ((2 * i - 1) % 2) = 1 /\ 2 - ((2 * i) % 2) = 2
    OBVIOUS
  <2> QED BY <1>1, <2>1
<1> QED BY <1>5, <1>6

\* The levels of RC5 and RC6 codes of n bits.
RC5Of(L, M, bits, n) ==
    /\ M = 3 + 2 * n /\ L \in [1 .. M -> {Mark, Space}]
    /\ L[1] = Mark /\ L[2] = Space /\ L[3] = Mark
    /\ \A i \in 1 .. n : L[2 + 2 * i] = bits[i] /\ L[3 + 2 * i] = 1 - bits[i]

\* RC5's levels are two for each bit, behind the start.
LEMMA RC5LevelsAre ==
  ASSUME NEW n \in Nat, NEW bits \in Bits(n)
  PROVE  RC5Of(RC5Levels(bits), 3 + 2 * n, bits, n)
<1>1. PICK g : g = [i \in 1 .. n |-> <<bits[i], 1 - bits[i]>>]
  OBVIOUS
<1>2. ASSUME NEW i \in 1 .. n
      PROVE  /\ g[i][1] = bits[i] /\ g[i][2] = 1 - bits[i]
             /\ g[i][1] \in {0, 1} /\ g[i][2] \in {0, 1}
  BY <1>1 DEF Bits
<1>3. PICK q : q = Flat(g, n)
  OBVIOUS
<1>4. /\ q \in Seq({0, 1}) /\ Len(q) = 2 * n
      /\ \A i \in 1 .. n : q[2 * i - 1] = g[i][1] /\ q[2 * i] = g[i][2]
  <2>1. \A i \in 1 .. n : g[i][1] \in {0, 1} /\ g[i][2] \in {0, 1}
    BY <1>2
  <2> QED BY ONLY <1>3, <2>1, FlatIs, n \in Nat
<1>5. PICK h : h = <<Mark, Space, Mark>>
  OBVIOUS
<1>6. h \in Seq({0, 1}) /\ Len(h) = 3 /\ h[1] = Mark /\ h[2] = Space /\ h[3] = Mark
  BY <1>5 DEF Mark, Space
<1>7. PICK L : L = RC5Levels(bits) /\ L = h \o q
  <2>1. DOMAIN bits = 1 .. n /\ Len(bits) = n
    BY DEF Bits
  <2> QED BY <1>1, <1>3, <1>5, <2>1 DEF RC5Levels
<1>8. /\ L \in Seq({0, 1}) /\ Len(L) = Len(h) + Len(q)
      /\ \A p \in 1 .. Len(h) + Len(q) :
            L[p] = IF p <= Len(h) THEN h[p] ELSE q[p - Len(h)]
  <2>1. /\ h \o q \in Seq({0, 1}) /\ Len(h \o q) = Len(h) + Len(q)
        /\ \A p \in 1 .. Len(h) + Len(q) :
              (h \o q)[p] = IF p <= Len(h) THEN h[p] ELSE q[p - Len(h)]
    BY <1>4, <1>6, ConcatProperties, Zenon
  <2> QED BY <1>7, <2>1
<1>9. PICK M \in Nat : M = 3 + 2 * n /\ M = Len(h) + Len(q)
  BY <1>4, <1>6
<1>10. \A p \in 1 .. M : L[p] = IF p <= 3 THEN h[p] ELSE q[p - 3]
  BY <1>6, <1>8, <1>9
<1>11. L[1] = Mark /\ L[2] = Space /\ L[3] = Mark
  <2>1. 1 \in 1 .. M /\ 2 \in 1 .. M /\ 3 \in 1 .. M /\ 1 <= 3 /\ 2 <= 3 /\ 3 <= 3
    BY <1>9
  <2> QED BY <1>6, <1>10, <2>1
<1>12. ASSUME NEW i \in 1 .. n
       PROVE  L[2 + 2 * i] = bits[i] /\ L[3 + 2 * i] = 1 - bits[i]
  <2>1. PICK a, c : a = 2 + 2 * i /\ c = 3 + 2 * i
    OBVIOUS
  <2>2. /\ a \in 1 .. M /\ ~(a <= 3) /\ a - 3 = 2 * i - 1
        /\ c \in 1 .. M /\ ~(c <= 3) /\ c - 3 = 2 * i
    BY <1>9, <2>1
  <2>3. L[a] = q[2 * i - 1] /\ L[c] = q[2 * i]
    BY <1>10, <2>2
  <2> QED BY <1>2, <1>4, <2>1, <2>3
<1>13. L \in [1 .. M -> {Mark, Space}]
  <2>1. L \in [1 .. M -> {0, 1}]
    <3>1. L \in Seq({0, 1}) /\ Len(L) = M
      BY <1>8, <1>9
    <3> QED BY ONLY <3>1
  <2> QED BY <2>1 DEF Mark, Space
<1> QED BY <1>7, <1>9, <1>11, <1>12, <1>13 DEF RC5Of

RC6Of(L, M, bits, n) ==
    /\ M = 4 + 2 * n /\ L \in [1 .. M -> {Mark, Space}] /\ L[1] = Mark /\ L[2] = Space
    /\ \A i \in 1 .. n :
         /\ i <= 3 => L[1 + 2 * i] = 1 - bits[i] /\ L[2 + 2 * i] = bits[i]
         /\ i = 4 => /\ L[9] = 1 - bits[i] /\ L[10] = 1 - bits[i]
                     /\ L[11] = bits[i] /\ L[12] = bits[i]
         /\ i >= 5 => L[3 + 2 * i] = 1 - bits[i] /\ L[4 + 2 * i] = bits[i]

\* Two sequences of levels, one behind the other.
Behind(L, x, y) ==
    /\ L \in Seq({0, 1}) /\ Len(L) = Len(x) + Len(y)
    /\ \A p \in 1 .. Len(x) + Len(y) : L[p] = IF p <= Len(x) THEN x[p] ELSE y[p - Len(x)]

\* So is what \o puts together.
LEMMA Joining ==
  ASSUME NEW x \in Seq({0, 1}), NEW y \in Seq({0, 1}), NEW L, L = x \o y
  PROVE  Behind(L, x, y)
<1>1. /\ x \o y \in Seq({0, 1}) /\ Len(x \o y) = Len(x) + Len(y)
      /\ \A p \in 1 .. Len(x) + Len(y) :
            (x \o y)[p] = IF p <= Len(x) THEN x[p] ELSE y[p - Len(x)]
  BY ConcatProperties, Zenon
<1> QED BY <1>1 DEF Behind

\* RC6's levels are two for each bit and four for the fourth, behind the header.
LEMMA RC6LevelsAre ==
  ASSUME NEW n \in Nat, n >= 4, NEW bits \in Bits(n)
  PROVE  RC6Of(RC6Levels(bits), 4 + 2 * n, bits, n)
<1>1. PICK g : g = [i \in 1 .. n |-> <<1 - bits[i], bits[i]>>]
  OBVIOUS
<1>2. ASSUME NEW i \in 1 .. n
      PROVE  /\ g[i][1] = 1 - bits[i] /\ g[i][2] = bits[i]
             /\ g[i][1] \in {0, 1} /\ g[i][2] \in {0, 1}
  BY <1>1 DEF Bits
<1>3. PICK q : q = Flat(g, n)
  OBVIOUS
<1>4. /\ q \in Seq({0, 1}) /\ Len(q) = 2 * n
      /\ \A i \in 1 .. n : q[2 * i - 1] = 1 - bits[i] /\ q[2 * i] = bits[i]
  <2>1. \A i \in 1 .. n : g[i][1] \in {0, 1} /\ g[i][2] \in {0, 1}
    BY <1>2
  <2>2. /\ q \in Seq({0, 1}) /\ Len(q) = 2 * n
        /\ \A i \in 1 .. n : q[2 * i - 1] = g[i][1] /\ q[2 * i] = g[i][2]
    BY ONLY <1>3, <2>1, FlatIs, n \in Nat
  <2> QED BY <1>2, <2>2
<1>5. \A k \in 1 .. 2 * n : q[k] \in {0, 1}
  BY <1>4
<1>6. PICK a, b, c, d :
        /\ a = <<Mark, Space>> /\ b = SubSeq(q, 1, 6)
        /\ c = <<q[7], q[7], q[8], q[8]>> /\ d = SubSeq(q, 9, 2 * n)
  OBVIOUS
<1>7. a \in Seq({0, 1}) /\ Len(a) = 2 /\ a[1] = Mark /\ a[2] = Space
  BY <1>6 DEF Mark, Space
<1>8. b \in Seq({0, 1}) /\ Len(b) = 6 /\ \A i \in 1 .. 6 : b[i] = q[i]
  <2>1. \A i \in 1 .. 6 : q[i] \in {0, 1}
    BY <1>5
  <2> QED BY <1>6, <2>1, SubSeqProperties
<1>9. /\ c \in Seq({0, 1}) /\ Len(c) = 4
      /\ c[1] = q[7] /\ c[2] = q[7] /\ c[3] = q[8] /\ c[4] = q[8]
  <2>1. q[7] \in {0, 1} /\ q[8] \in {0, 1}
    BY <1>5
  <2> QED BY <1>6, <2>1
<1>10. d \in Seq({0, 1}) /\ Len(d) = 2 * n - 8 /\ \A i \in 1 .. (2 * n - 8) : d[i] = q[8 + i]
  <2>1. \A i \in 9 .. 2 * n : q[i] \in {0, 1}
    BY <1>5
  <2>2. 9 \in Int /\ 2 * n \in Int /\ 9 <= 2 * n + 1
    OBVIOUS
  <2>3. /\ d \in Seq({0, 1})
        /\ Len(d) = (IF 9 <= 2 * n THEN 2 * n - 9 + 1 ELSE 0)
        /\ \A i \in 1 .. 2 * n - 9 + 1 : d[i] = q[9 + i - 1]
    BY <1>6, <2>1, <2>2, SubSeqProperties
  <2>4. /\ (IF 9 <= 2 * n THEN 2 * n - 9 + 1 ELSE 0) = 2 * n - 8 /\ 2 * n - 9 + 1 = 2 * n - 8
        /\ \A i \in 1 .. (2 * n - 8) : 9 + i - 1 = 8 + i
    OBVIOUS
  <2> QED BY <2>3, <2>4
<1>11. PICK x, y, L : /\ x = a \o b /\ y = x \o c /\ L = y \o d
                      /\ L = RC6Levels(bits)
  <2>1. DOMAIN bits = 1 .. n /\ Len(bits) = n
    BY DEF Bits
  <2> QED BY <1>1, <1>3, <1>4, <1>6, <2>1 DEF RC6Levels
<1>12. Behind(x, a, b)
  BY <1>7, <1>8, <1>11, Joining
<1>13. x \in Seq({0, 1}) /\ Len(x) = 8 /\ x[1] = Mark /\ x[2] = Space
       /\ \A k \in 1 .. 6 : x[2 + k] = q[k]
  BY <1>7, <1>8, <1>12 DEF Behind
<1>14. Behind(y, x, c)
  BY <1>9, <1>11, <1>13, Joining
<1>15. /\ y \in Seq({0, 1}) /\ Len(y) = 12 /\ \A k \in 1 .. 8 : y[k] = x[k]
       /\ y[9] = q[7] /\ y[10] = q[7] /\ y[11] = q[8] /\ y[12] = q[8]
  BY <1>9, <1>13, <1>14 DEF Behind
<1>16. Behind(L, y, d)
  BY <1>10, <1>11, <1>15, Joining
<1>17. PICK M \in Nat : M = 4 + 2 * n
  OBVIOUS
<1>18. /\ L \in Seq({0, 1}) /\ Len(L) = M /\ \A k \in 1 .. 12 : L[k] = y[k]
       /\ \A k \in 9 .. 2 * n : L[k + 4] = q[k]
  <2>1. Len(y) + Len(d) = M
    BY <1>10, <1>15, <1>17
  <2>2. /\ L \in Seq({0, 1}) /\ Len(L) = M
        /\ \A p \in 1 .. M : L[p] = IF p <= 12 THEN y[p] ELSE d[p - 12]
    BY <1>15, <1>16, <2>1 DEF Behind
  <2>3. \A k \in 1 .. 12 : k \in 1 .. M /\ k <= 12
    BY <1>17
  <2>4. ASSUME NEW k \in 9 .. 2 * n PROVE L[k + 4] = q[k]
    <3>1. /\ k + 4 \in 1 .. M /\ ~(k + 4 <= 12) /\ k + 4 - 12 = k - 8
          /\ k - 8 \in 1 .. (2 * n - 8) /\ 8 + (k - 8) = k
      BY <1>17
    <3> QED BY <1>10, <2>2, <3>1, SMTT(30)
  <2> QED BY <2>2, <2>3, <2>4
<1>19. ASSUME NEW i \in 1 .. n
       PROVE  /\ i <= 3 => L[1 + 2 * i] = 1 - bits[i] /\ L[2 + 2 * i] = bits[i]
              /\ i = 4 => /\ L[9] = 1 - bits[i] /\ L[10] = 1 - bits[i]
                          /\ L[11] = bits[i] /\ L[12] = bits[i]
              /\ i >= 5 => L[3 + 2 * i] = 1 - bits[i] /\ L[4 + 2 * i] = bits[i]
  <2>0. q[2 * i - 1] = 1 - bits[i] /\ q[2 * i] = bits[i]
    BY <1>4
  <2>1. ASSUME i <= 3 PROVE L[1 + 2 * i] = 1 - bits[i] /\ L[2 + 2 * i] = bits[i]
    <3>1. /\ 1 + 2 * i \in 1 .. 8 /\ 1 + 2 * i \in 1 .. 12
          /\ 2 + 2 * i \in 1 .. 8 /\ 2 + 2 * i \in 1 .. 12
          /\ 2 * i - 1 \in 1 .. 6 /\ 2 * i \in 1 .. 6 /\ 2 + (2 * i - 1) = 1 + 2 * i
      BY <2>1
    <3>2. L[1 + 2 * i] = x[1 + 2 * i] /\ L[2 + 2 * i] = x[2 + 2 * i]
      BY <1>15, <1>18, <3>1
    <3>3. x[1 + 2 * i] = q[2 * i - 1] /\ x[2 + 2 * i] = q[2 * i]
      BY <1>13, <3>1
    <3> QED BY <2>0, <3>2, <3>3
  <2>2. ASSUME i = 4 PROVE /\ L[9] = 1 - bits[i] /\ L[10] = 1 - bits[i]
                           /\ L[11] = bits[i] /\ L[12] = bits[i]
    <3>1. 2 * i - 1 = 7 /\ 2 * i = 8
      BY <2>2
    <3>2. L[9] = q[7] /\ L[10] = q[7] /\ L[11] = q[8] /\ L[12] = q[8]
      BY <1>15, <1>18
    <3> QED BY <2>0, <3>1, <3>2
  <2>3. ASSUME i >= 5 PROVE L[3 + 2 * i] = 1 - bits[i] /\ L[4 + 2 * i] = bits[i]
    <3>1. /\ 2 * i - 1 \in 9 .. 2 * n /\ 2 * i \in 9 .. 2 * n
          /\ 2 * i - 1 + 4 = 3 + 2 * i /\ 2 * i + 4 = 4 + 2 * i
      BY <2>3
    <3>2. L[2 * i - 1 + 4] = q[2 * i - 1] /\ L[2 * i + 4] = q[2 * i]
      BY <1>18, <3>1
    <3> QED BY <2>0, <3>1, <3>2
  <2> QED BY <2>1, <2>2, <2>3
<1>20. L \in [1 .. M -> {Mark, Space}] /\ L[1] = Mark /\ L[2] = Space
  <2>1. L \in [1 .. M -> {0, 1}]
    BY <1>18
  <2>2. 1 \in 1 .. 12 /\ 2 \in 1 .. 12 /\ 1 \in 1 .. 8 /\ 2 \in 1 .. 8
    OBVIOUS
  <2>3. L[1] = x[1] /\ L[2] = x[2]
    BY <1>15, <1>18, <2>2
  <2> QED BY <1>13, <2>1, <2>3 DEF Mark, Space
<1> QED BY <1>11, <1>17, <1>19, <1>20 DEF RC6Of

-----------------------------------------------------------------------------
(* How long their runs are.                                                *)

\* No run is longer than m if among m + 1 levels in a row two neighbours differ.
LEMMA RunsAreShort ==
  ASSUME NEW M, NEW L, NEW F, NEW c, Runs(L, M, F, c), NEW m \in Nat,
         \A x \in 1 .. (M - m) : \E p \in x .. (x + m - 1) : L[p] # L[p + 1],
         NEW k \in 1 .. c
  PROVE  F[k + 1] - F[k] \in 1 .. m
<1>1. PICK x, y \in Int : /\ x = F[k] /\ y = F[k + 1] /\ x >= 1 /\ x < y /\ y <= M + 1
                          /\ \A p \in Int : x <= p /\ p < y => L[p] = LevelOf(k)
  BY DEF Runs
<1>2. M \in Nat
  BY DEF Runs
<1>3. ASSUME y - x > m PROVE FALSE
  <2>1. x \in 1 .. (M - m)
    BY <1>1, <1>2, <1>3
  <2>2. PICK p \in x .. (x + m - 1) : L[p] # L[p + 1]
    BY <2>1
  <2>3. x <= p /\ p < y /\ x <= p + 1 /\ p + 1 < y /\ p \in Int /\ p + 1 \in Int
    BY <1>1, <1>3
  <2> QED BY <1>1, <2>2, <2>3
<1> QED BY <1>1, <1>3

\* The last level is a run if it differs from the one before.
LEMMA LastRun ==
  ASSUME NEW M, NEW L, NEW F, NEW c, Runs(L, M, F, c), M >= 2, L[M - 1] # L[M]
  PROVE  F[c] = M
<1>1. M \in Nat /\ c \in Nat /\ c >= 1 /\ c \in 1 .. c /\ F[c + 1] = M + 1
  BY DEF Runs
<1>2. PICK x \in Int : /\ x = F[c] /\ x < M + 1
                       /\ \A p \in Int : x <= p /\ p < M + 1 => L[p] = LevelOf(c)
  BY <1>1 DEF Runs
<1>3. ASSUME x <= M - 1 PROVE FALSE
  <2>1. M - 1 \in Int /\ M \in Int /\ x <= M /\ M - 1 < M + 1 /\ M < M + 1
    BY <1>1, <1>2, <1>3
  <2> QED BY <1>2, <1>3, <2>1
<1> QED BY <1>1, <1>2, <1>3

\* Short runs are many.
LEMMA RunsAreMany ==
  ASSUME NEW M, NEW L, NEW F, NEW c, Runs(L, M, F, c), NEW m \in Nat,
         \A k \in 1 .. c : F[k + 1] - F[k] \in 1 .. m
  PROVE  M <= m * c
<1>1. /\ M \in Nat /\ c \in Nat /\ c >= 1 /\ F[1] = 1 /\ F[c + 1] = M + 1
      /\ \A k \in 1 .. c : F[k] \in Int /\ F[k + 1] \in Int
  BY DEF Runs
<1> DEFINE G == {k \in 0 .. c : F[k + 1] - 1 <= m * k}
<1>2. 0 \in G
  BY <1>1
<1>3. ASSUME NEW k \in 0 .. c - 1, k \in G PROVE k + 1 \in G
  <2>1. PICK j \in 1 .. c : j = k + 1
    BY <1>1
  <2>2. PICK x, y \in Int : x = F[j] /\ y = F[j + 1] /\ y - x <= m
    BY <1>1, <2>1
  <2>3. x - 1 <= m * k
    BY <1>3, <2>1, <2>2
  <2>4. m * j = m * k + m /\ m * k \in Int
    BY <2>1
  <2>5. y - 1 <= m * j
    BY <2>2, <2>3, <2>4
  <2> QED BY <1>1, <2>1, <2>2, <2>5
<1>4. c \in G
  <2> HIDE DEF G
  <2>1. \A k \in 0 .. c - 1 : k \in G => k + 1 \in G
    BY <1>3
  <2>2. c \in 0 .. c /\ 0 \in Int /\ c \in Int
    BY <1>1
  <2> QED BY <1>2, <2>1, <2>2, CountUp
<1> QED BY <1>1, <1>4

\* The runs of a code: how long, and how many levels a decoder counts.
CodeRuns(L, M, F, c, m) ==
    /\ \A k \in 1 .. c : F[k + 1] - F[k] \in 1 .. m
    /\ F[Shown(c) + 1] - 1 \in {M - 1, M}

\* A decoder sees all levels of a code, or all but a last space.
LEMMA LevelsCounted ==
  ASSUME NEW M, NEW L, NEW F, NEW c, Runs(L, M, F, c), M >= 2, L[M - 1] # L[M]
  PROVE  F[Shown(c) + 1] - 1 \in {M - 1, M}
<1>1. M \in Nat /\ c \in Nat /\ c >= 1 /\ F[c + 1] = M + 1 /\ F[c] = M
  <2>1. F[c] = M
    BY LastRun
  <2> QED BY <2>1 DEF Runs
<1>2. Shown(c) = c \/ Shown(c) = c - 1
  BY DEF Shown
<1>3. Shown(c) + 1 = c + 1 \/ Shown(c) + 1 = c
  BY <1>1, <1>2
<1> QED BY <1>1, <1>3

\* Runs of RC5's are one or two levels long.
LEMMA RC5Runs ==
  ASSUME NEW n \in Nat \ {0}, NEW bits \in Bits(n), NEW L, NEW M, RC5Of(L, M, bits, n),
         NEW F, NEW c, Runs(L, M, F, c)
  PROVE  CodeRuns(L, M, F, c, 2)
<1>1. M = 3 + 2 * n /\ L[2] = Space /\ L[3] = Mark
      /\ \A i \in 1 .. n : L[2 + 2 * i] = bits[i] /\ L[3 + 2 * i] = 1 - bits[i]
  BY DEF RC5Of
<1>2. ASSUME NEW p \in 2 .. (M - 1), p % 2 = 0
      PROVE  L[p] # L[p + 1]
  <2>1. CASE p = 2
    BY <1>1, <2>1 DEF Mark, Space
  <2>2. CASE p # 2
    <3>1. PICK i \in 1 .. n : p = 2 + 2 * i /\ p + 1 = 3 + 2 * i
      <4>1. (p - 2) \div 2 \in 1 .. n /\ p = 2 + 2 * ((p - 2) \div 2)
        BY <1>1, <1>2, <2>2
      <4> QED BY <4>1
    <3>2. bits[i] \in {0, 1}
      BY DEF Bits
    <3>3. L[p] = bits[i] /\ L[p + 1] = 1 - bits[i]
      BY <1>1, <3>1
    <3> QED BY <3>2, <3>3
  <2> QED BY <2>1, <2>2
<1>3. PICK m \in Nat : m = 2
  OBVIOUS
<1>4. ASSUME NEW x \in 1 .. (M - m)
      PROVE  \E p \in x .. (x + m - 1) : L[p] # L[p + 1]
  <2>1. CASE x % 2 = 0
    <3>1. x \in 2 .. (M - 1) /\ x \in x .. (x + m - 1)
      BY <1>1, <1>3, <2>1
    <3> QED BY <1>2, <2>1, <3>1
  <2>2. CASE x % 2 # 0
    <3>1. x + 1 \in 2 .. (M - 1) /\ x + 1 \in x .. (x + m - 1) /\ (x + 1) % 2 = 0
      BY <1>1, <1>3, <2>2
    <3> QED BY <1>2, <3>1
  <2> QED BY <2>1, <2>2
<1>5. \A k \in 1 .. c : F[k + 1] - F[k] \in 1 .. m
  BY <1>4, RunsAreShort
<1>6. M - 1 \in 2 .. (M - 1) /\ (M - 1) % 2 = 0 /\ M - 1 + 1 = M /\ M >= 2
  BY <1>1
<1>7. L[M - 1] # L[M]
  BY <1>2, <1>6
<1>8. F[Shown(c) + 1] - 1 \in {M - 1, M}
  BY <1>6, <1>7, LevelsCounted
<1> QED BY <1>3, <1>5, <1>8 DEF CodeRuns

\* Runs of RC6's are up to three levels long.
LEMMA RC6Runs ==
  ASSUME NEW n \in Nat, n >= 5, NEW bits \in Bits(n), NEW L, NEW M, RC6Of(L, M, bits, n),
         NEW F, NEW c, Runs(L, M, F, c)
  PROVE  CodeRuns(L, M, F, c, 3)
<1>1. /\ M = 4 + 2 * n /\ L[1] = Mark /\ L[2] = Space
      /\ \A i \in 1 .. n :
           /\ i <= 3 => L[1 + 2 * i] = 1 - bits[i] /\ L[2 + 2 * i] = bits[i]
           /\ i = 4 => L[10] = 1 - bits[i] /\ L[11] = bits[i]
           /\ i >= 5 => L[3 + 2 * i] = 1 - bits[i] /\ L[4 + 2 * i] = bits[i]
  BY DEF RC6Of
<1>2. \A i \in 1 .. n : bits[i] \in {0, 1} /\ bits[i] # 1 - bits[i]
  BY DEF Bits
<1>3. L[1] # L[1 + 1]
  BY <1>1 DEF Mark, Space
<1>4. L[3] # L[3 + 1] /\ L[5] # L[5 + 1] /\ L[7] # L[7 + 1]
  <2>1. ASSUME NEW i \in 1 .. 3 PROVE L[1 + 2 * i] # L[1 + 2 * i + 1]
    <3>1. i \in 1 .. n /\ 1 + 2 * i + 1 = 2 + 2 * i
      OBVIOUS
    <3> QED BY <1>1, <1>2, <3>1
  <2>2. PICK i, j, k \in 1 .. 3 : i = 1 /\ j = 2 /\ k = 3
    OBVIOUS
  <2>3. 1 + 2 * i = 3 /\ 1 + 2 * j = 5 /\ 1 + 2 * k = 7
    BY <2>2
  <2>4. L[1 + 2 * i] # L[1 + 2 * i + 1] /\ L[1 + 2 * j] # L[1 + 2 * j + 1]
        /\ L[1 + 2 * k] # L[1 + 2 * k + 1]
    BY <2>1
  <2> QED BY <2>3, <2>4
<1>5. L[10] # L[10 + 1]
  <2>1. PICK i \in 1 .. n : i = 4
    OBVIOUS
  <2> QED BY <1>1, <1>2, <2>1
<1>6. ASSUME NEW p \in 13 .. (M - 1), p % 2 = 1
      PROVE  L[p] # L[p + 1]
  <2>1. PICK i \in 5 .. n : p = 3 + 2 * i /\ p + 1 = 4 + 2 * i
    <3>1. (p - 3) \div 2 \in 5 .. n /\ p = 3 + 2 * ((p - 3) \div 2)
      BY <1>1, <1>6
    <3> QED BY <3>1
  <2> QED BY <1>1, <1>2, <2>1
<1>7. PICK m \in Nat : m = 3
  OBVIOUS
<1>8. ASSUME NEW x \in 1 .. (M - m)
      PROVE  \E p \in x .. (x + m - 1) : L[p] # L[p + 1]
  <2>1. ASSUME NEW p \in Int, x <= p, p <= x + 2, L[p] # L[p + 1]
        PROVE  \E q \in x .. (x + m - 1) : L[q] # L[q + 1]
    <3>1. p \in x .. (x + m - 1)
      BY <1>7, <2>1
    <3> QED BY <2>1, <3>1
  <2>2. CASE x = 1
    BY <1>3, <2>1, <2>2
  <2>3. CASE x = 2 \/ x = 3
    BY <1>4, <2>1, <2>3
  <2>4. CASE x = 4 \/ x = 5
    BY <1>4, <2>1, <2>4
  <2>5. CASE x = 6 \/ x = 7
    BY <1>4, <2>1, <2>5
  <2>6. CASE x = 8 \/ x = 9 \/ x = 10
    BY <1>5, <2>1, <2>6
  <2>7. CASE x >= 11
    <3>1. CASE x <= 12
      <4>1. 13 \in 13 .. (M - 1) /\ 13 % 2 = 1
        BY <1>1
      <4>2. L[13] # L[13 + 1]
        BY <1>6, <4>1
      <4> QED BY <2>1, <2>7, <3>1, <4>2
    <3>2. CASE x > 12 /\ x % 2 = 1
      <4>1. x \in 13 .. (M - 1)
        BY <1>1, <1>7, <3>2
      <4> QED BY <1>6, <2>1, <3>2, <4>1
    <3>3. CASE x > 12 /\ x % 2 # 1
      <4>1. x + 1 \in 13 .. (M - 1) /\ (x + 1) % 2 = 1
        BY <1>1, <1>7, <3>3
      <4>2. L[x + 1] # L[x + 1 + 1]
        BY <1>6, <4>1
      <4> QED BY <2>1, <4>2
    <3> QED BY <3>1, <3>2, <3>3
  <2> QED BY <2>2, <2>3, <2>4, <2>5, <2>6, <2>7
<1>9. \A k \in 1 .. c : F[k + 1] - F[k] \in 1 .. m
  BY <1>8, RunsAreShort
<1>10. M - 1 \in 13 .. (M - 1) /\ (M - 1) % 2 = 1 /\ M - 1 + 1 = M /\ M >= 2
  BY <1>1
<1>11. L[M - 1] # L[M]
  BY <1>6, <1>10
<1>12. F[Shown(c) + 1] - 1 \in {M - 1, M}
  BY <1>10, <1>11, LevelsCounted
<1> QED BY <1>7, <1>9, <1>12 DEF CodeRuns

-----------------------------------------------------------------------------
(* The decoders of RC5 and RC6, given the levels.                          *)

\* A run of the right length is taken for its units, and no fewer.
LEMMA FitsRC5 ==
  ASSUME NEW b, NEW k \in Nat, NEW u \in 1 .. 2, NEW e \in 0 .. 150,
         Near(b[k], 889 * u + (IF k % 2 = 1 THEN e ELSE - e))
  PROVE  Fits(b, k, 889, u)
<1>1. PICK p : p = b[k]
  OBVIOUS
<1>2. CASE k % 2 = 1
  <2>1. Near(p, 889 * u + e)
    BY <1>1, <1>2
  <2>2. \A v \in 1 .. 3 : Corrected(k, 889, v) = v * 889 + 100
    BY <1>2 DEF Corrected
  <2>3. Match(p, u * 889 + 100) /\ \A v \in 1 .. 3 : v < u => ~Match(p, v * 889 + 100)
    BY ONLY <2>1, u \in 1 .. 2, e \in 0 .. 150 DEF Near, Match
  <2> QED BY <1>1, <2>2, <2>3 DEF Fits
<1>3. CASE k % 2 # 1
  <2>1. Near(p, 889 * u + (- e))
    BY <1>1, <1>3
  <2>2. \A v \in 1 .. 3 : Corrected(k, 889, v) = v * 889 + (-100)
    BY <1>3 DEF Corrected
  <2>3. Match(p, u * 889 + (-100)) /\ \A v \in 1 .. 3 : v < u => ~Match(p, v * 889 + (-100))
    BY ONLY <2>1, u \in 1 .. 2, e \in 0 .. 150 DEF Near, Match
  <2> QED BY <1>1, <2>2, <2>3 DEF Fits
<1> QED BY <1>2, <1>3

\* The same for RC6's, whose unit is shorter.
LEMMA FitsRC6 ==
  ASSUME NEW b, NEW k \in Nat, NEW u \in 1 .. 3, NEW e \in 0 .. 150,
         Near(b[k], 444 * u + (IF k % 2 = 1 THEN e ELSE - e))
  PROVE  Fits(b, k, 444, u)
<1>1. PICK p : p = b[k]
  OBVIOUS
<1>2. CASE k % 2 = 1
  <2>1. Near(p, 444 * u + e)
    BY <1>1, <1>2
  <2>2. \A v \in 1 .. 3 : Corrected(k, 444, v) = v * 444 + 100
    BY <1>2 DEF Corrected
  <2>3. Match(p, u * 444 + 100) /\ \A v \in 1 .. 3 : v < u => ~Match(p, v * 444 + 100)
    BY ONLY <2>1, u \in 1 .. 3, e \in 0 .. 150 DEF Near, Match
  <2> QED BY <1>1, <2>2, <2>3 DEF Fits
<1>3. CASE k % 2 # 1
  <2>1. Near(p, 444 * u + (- e))
    BY <1>1, <1>3
  <2>2. \A v \in 1 .. 3 : Corrected(k, 444, v) = v * 444 + (-100)
    BY <1>3 DEF Corrected
  <2>3. Match(p, u * 444 + (-100)) /\ \A v \in 1 .. 3 : v < u => ~Match(p, v * 444 + (-100))
    BY ONLY <2>1, u \in 1 .. 3, e \in 0 .. 150 DEF Near, Match
  <2> QED BY <1>1, <2>2, <2>3 DEF Fits
<1> QED BY <1>2, <1>3

\* The decoders return the bits whose levels they see.
Apart(x, y) == {x, y} = {Mark, Space}
RC5Pairs(l, n) == \A i \in 1 .. n : Apart(LevelAt(l, 2 + 2 * i), LevelAt(l, 3 + 2 * i))
RC5Bits(l, n) == [i \in 1 .. n |-> LevelAt(l, 2 + 2 * i)]

\* RC5's decoder, when it sees the levels of a code.
LEMMA RC5OfLevels ==
  ASSUME NEW n \in Nat \ {0}, NEW bits \in Bits(n), NEW L, NEW M, RC5Of(L, M, bits, n),
         NEW b, NEW r \in Nat, r >= 13, NEW l, l = Levels(b, r, 1, 889),
         LevelsOf(l, L, M), Len(l) \in {M - 1, M}
  PROVE  decodeRC5(b, r) = Result("RC5", bits)
<1>1. /\ M = 3 + 2 * n /\ L[1] = Mark /\ L[2] = Space /\ L[3] = Mark
      /\ \A i \in 1 .. n : L[2 + 2 * i] = bits[i] /\ L[3 + 2 * i] = 1 - bits[i]
  BY DEF RC5Of
<1>2. \A p \in 1 .. M : LevelAt(l, p) = L[p]
  BY DEF LevelsOf
<1>3. (Len(l) - 2) \div 2 = n
  <2>1. PICK j \in Int : j = Len(l) /\ j \in {M - 1, M}
    BY <1>1
  <2>2. (j - 2) \div 2 = n
    <3>1. M = 3 + 2 * n
      BY <1>1
    <3> QED BY ONLY <2>1, <3>1, n \in Nat
  <2> QED BY <2>1, <2>2
<1>4. /\ LevelAt(l, 1) = Mark /\ LevelAt(l, 2) = Space /\ LevelAt(l, 3) = Mark
  <2>1. 1 \in 1 .. M /\ 2 \in 1 .. M /\ 3 \in 1 .. M
    BY <1>1
  <2> QED BY <1>1, <1>2, <2>1
<1>5. ASSUME NEW i \in 1 .. n
      PROVE  /\ LevelAt(l, 2 + 2 * i) = bits[i]
             /\ Apart(LevelAt(l, 2 + 2 * i), LevelAt(l, 3 + 2 * i))
  <2>1. PICK p, q \in 1 .. M : p = 2 + 2 * i /\ q = 3 + 2 * i
    BY <1>1
  <2>2. PICK x, y : x = LevelAt(l, p) /\ y = LevelAt(l, q)
    OBVIOUS
  <2>3. x = bits[i] /\ y = 1 - bits[i]
    BY <1>1, <1>2, <2>1, <2>2
  <2>4. bits[i] \in {0, 1}
    BY DEF Bits
  <2>5. Apart(x, y)
    BY <2>3, <2>4 DEF Mark, Space, Apart
  <2> QED BY ONLY <2>1, <2>2, <2>3, <2>5
<1>6. RC5Bits(l, n) = bits
  <2>1. \A i \in 1 .. n : LevelAt(l, 2 + 2 * i) = bits[i]
    BY <1>5
  <2> QED BY <2>1 DEF Bits, RC5Bits
<1>7. RC5Pairs(l, n)
  <2>1. \A i \in 1 .. n : Apart(LevelAt(l, 2 + 2 * i), LevelAt(l, 3 + 2 * i))
    BY ONLY <1>5
  <2> QED BY ONLY <2>1, Zenon DEF RC5Pairs
<1>8. PICK m : m = (Len(l) - 2) \div 2
  OBVIOUS
<1>9. m = n
  BY <1>3, <1>8
<1>10. decodeRC5(b, r) =
         IF /\ r >= 13
            /\ LevelAt(l, 1) = Mark /\ LevelAt(l, 2) = Space /\ LevelAt(l, 3) = Mark
            /\ RC5Pairs(l, m)
         THEN Result("RC5", RC5Bits(l, m))
         ELSE Err
  BY <1>8 DEF decodeRC5, RC5Pairs, RC5Bits, Apart
<1> QED BY <1>4, <1>6, <1>7, <1>9, <1>10

\* Where a bit of an RC6 code starts: the fourth is twice as long.
StartOf(i) == IF i <= 4 THEN 1 + 2 * i ELSE 3 + 2 * i
HalfOf(i) == IF i = 4 THEN 2 ELSE 1

RC6Count(l) == Cardinality({i \in 1 .. Len(l) : StartOf(i) <= Len(l)})
RC6Pairs(l, n) ==
    \A i \in 1 .. n : Apart(LevelAt(l, StartOf(i)), LevelAt(l, StartOf(i) + HalfOf(i)))
RC6Bits(l, n) == [i \in 1 .. n |-> 1 - LevelAt(l, StartOf(i))]
RC6Answer(b, n, l) ==
    IF /\ n >= 1 /\ MatchMark(b[1], 2666) /\ MatchSpace(b[2], 889)
       /\ LevelAt(l, 1) = Mark /\ LevelAt(l, 2) = Space
       /\ RC6Pairs(l, RC6Count(l))
       /\ RC6Count(l) >= 4 => /\ LevelAt(l, 10) = LevelAt(l, StartOf(4))
                              /\ LevelAt(l, 12) = LevelAt(l, StartOf(4) + HalfOf(4))
    THEN Result("RC6", RC6Bits(l, RC6Count(l)))
    ELSE Err

\* RC6's decoder, in terms of these.
LEMMA RC6Answers ==
  ASSUME NEW b, NEW n
  PROVE  decodeRC6(b, n) = RC6Answer(b, n, Levels(b, n, 3, 444))
BY DEF decodeRC6, RC6Answer, RC6Pairs, RC6Bits, Apart, RC6Count, StartOf, HalfOf

\* RC6's decoder, when it sees the levels of a code.
LEMMA RC6OfLevels ==
  ASSUME NEW n \in Nat, n >= 5, NEW bits \in Bits(n), NEW L, NEW M, RC6Of(L, M, bits, n),
         NEW b, MatchMark(b[1], 2666), MatchSpace(b[2], 889),
         NEW r \in Nat, r >= 1, NEW l, l = Levels(b, r, 3, 444),
         LevelsOf(l, L, M), Len(l) \in {M - 1, M}
  PROVE  decodeRC6(b, r) = Result("RC6", bits)
<1>1. /\ M = 4 + 2 * n /\ L[1] = Mark /\ L[2] = Space
      /\ \A i \in 1 .. n :
           /\ i <= 3 => L[1 + 2 * i] = 1 - bits[i] /\ L[2 + 2 * i] = bits[i]
           /\ i = 4 => /\ L[9] = 1 - bits[i] /\ L[10] = 1 - bits[i]
                       /\ L[11] = bits[i] /\ L[12] = bits[i]
           /\ i >= 5 => L[3 + 2 * i] = 1 - bits[i] /\ L[4 + 2 * i] = bits[i]
  BY DEF RC6Of
<1>2. \A p \in 1 .. M : LevelAt(l, p) = L[p]
  BY DEF LevelsOf
<1>3. RC6Count(l) = n
  <2>1. PICK j \in Int : j = Len(l) /\ j \in {M - 1, M}
    BY <1>1
  <2>2. ASSUME NEW i \in 1 .. j PROVE StartOf(i) <= j <=> i <= n
    <3>1. j = 3 + 2 * n \/ j = 4 + 2 * n
      BY ONLY <1>1, <2>1, n \in Nat
    <3>2. CASE i <= 4
      BY ONLY <2>1, <3>1, <3>2, n \in Nat, n >= 5, i \in 1 .. j DEF StartOf
    <3>3. CASE i > 4
      BY ONLY <2>1, <3>1, <3>3, n \in Nat, n >= 5, i \in 1 .. j DEF StartOf
    <3> QED BY ONLY <2>1, <3>2, <3>3, i \in 1 .. j
  <2>3. n <= j
    BY <1>1, <2>1, SMTT(30)
  <2>4. {i \in 1 .. Len(l) : StartOf(i) <= Len(l)} = 1 .. n
    <3>1. {i \in 1 .. j : StartOf(i) <= j} = {i \in 1 .. j : i <= n}
      BY <2>2
    <3>2. {i \in 1 .. j : i <= n} = 1 .. n
      BY <2>3
    <3> QED BY <2>1, <3>1, <3>2
  <2>5. Cardinality(1 .. n) = n
    BY FS_Interval
  <2>6. RC6Count(l) = Cardinality(1 .. n)
    BY ONLY <2>4, Zenon DEF RC6Count
  <2> QED BY <2>5, <2>6
<1>4. LevelAt(l, 1) = Mark /\ LevelAt(l, 2) = Space
  <2>1. 1 \in 1 .. M /\ 2 \in 1 .. M
    BY <1>1
  <2> QED BY <1>1, <1>2, <2>1
<1>5. ASSUME NEW i \in 1 .. n
      PROVE  /\ L[StartOf(i)] = 1 - bits[i] /\ L[StartOf(i) + HalfOf(i)] = bits[i]
             /\ StartOf(i) \in 1 .. M /\ StartOf(i) + HalfOf(i) \in 1 .. M
  <2>1. CASE i <= 3
    <3>1. StartOf(i) = 1 + 2 * i /\ StartOf(i) + HalfOf(i) = 2 + 2 * i
      BY <2>1 DEF StartOf, HalfOf
    <3> QED BY <1>1, <2>1, <3>1, SMTT(30)
  <2>2. CASE i = 4
    <3>1. StartOf(i) = 9 /\ StartOf(i) + HalfOf(i) = 11
      BY <2>2 DEF StartOf, HalfOf
    <3> QED BY <1>1, <2>2, <3>1
  <2>3. CASE i >= 5
    <3>1. StartOf(i) = 3 + 2 * i /\ StartOf(i) + HalfOf(i) = 4 + 2 * i
      BY <2>3 DEF StartOf, HalfOf
    <3> QED BY ONLY <1>1, <2>3, <3>1, i \in 1 .. n, n \in Nat
  <2> QED BY <2>1, <2>2, <2>3
<1>6. ASSUME NEW i \in 1 .. n
      PROVE  /\ LevelAt(l, StartOf(i)) = 1 - bits[i]
             /\ LevelAt(l, StartOf(i) + HalfOf(i)) = bits[i]
             /\ Apart(LevelAt(l, StartOf(i)), LevelAt(l, StartOf(i) + HalfOf(i)))
             /\ 1 - LevelAt(l, StartOf(i)) = bits[i]
  <2>1. PICK p, q \in 1 .. M : p = StartOf(i) /\ q = StartOf(i) + HalfOf(i)
    <3>1. StartOf(i) \in 1 .. M /\ StartOf(i) + HalfOf(i) \in 1 .. M
      BY ONLY <1>5, i \in 1 .. n
    <3> QED BY ONLY <3>1, Zenon
  <2>2. PICK x, y : x = LevelAt(l, p) /\ y = LevelAt(l, q)
    OBVIOUS
  <2>3. x = 1 - bits[i] /\ y = bits[i]
    <3>1. L[StartOf(i)] = 1 - bits[i] /\ L[StartOf(i) + HalfOf(i)] = bits[i]
      BY ONLY <1>5, i \in 1 .. n
    <3>2. x = L[p] /\ y = L[q]
      BY ONLY <1>2, <2>1, <2>2
    <3> QED BY ONLY <2>1, <3>1, <3>2
  <2>4. bits[i] \in {0, 1}
    BY DEF Bits
  <2>5. Apart(x, y) /\ 1 - x = bits[i]
    BY <2>3, <2>4 DEF Mark, Space, Apart
  <2> QED BY ONLY <2>1, <2>2, <2>3, <2>5
<1>7. RC6Bits(l, n) = bits
  <2>1. \A i \in 1 .. n : 1 - LevelAt(l, StartOf(i)) = bits[i]
    BY <1>6
  <2> QED BY <2>1 DEF Bits, RC6Bits
<1>8. /\ LevelAt(l, 10) = LevelAt(l, StartOf(4))
      /\ LevelAt(l, 12) = LevelAt(l, StartOf(4) + HalfOf(4))
  <2>1. PICK i \in 1 .. n : i = 4
    OBVIOUS
  <2>2. L[10] = 1 - bits[i] /\ L[12] = bits[i] /\ 10 \in 1 .. M /\ 12 \in 1 .. M
    BY <1>1, <2>1
  <2>3. LevelAt(l, 10) = LevelAt(l, StartOf(i))
        /\ LevelAt(l, 12) = LevelAt(l, StartOf(i) + HalfOf(i))
    BY <1>2, <1>6, <2>2
  <2> QED BY <2>1, <2>3
<1>9. RC6Pairs(l, n)
  BY <1>6 DEF RC6Pairs
<1>10. decodeRC6(b, r) = RC6Answer(b, r, l)
  BY RC6Answers
<1>11. RC6Pairs(l, RC6Count(l))
       /\ RC6Bits(l, RC6Count(l)) = bits
  BY <1>3, <1>7, <1>9
<1> QED BY <1>4, <1>8, <1>10, <1>11 DEF RC6Answer

-----------------------------------------------------------------------------
(* RC5's and RC6's codes through all of decode().                          *)

\* The decoders that are asked before RC5's and RC6's do not take their codes.
LEMMA RC5IsRead ==
  ASSUME NEW b, NEW r \in Nat, NEW e \in 0 .. 150, b[0] \in Int, b[0] >= 800,
         Near(b[1], 889 + e), NEW bits, decodeRC5(b, r) = Result("RC5", bits)
  PROVE  decode(b, r) = Result("RC5", bits)
<1>1. PICK p : p = b[1]
  OBVIOUS
<1>2. /\ ~MatchMark(p, 9000) /\ ~MatchMark(p, 2400) /\ ~MatchMark(p, 3500)
      /\ ~MatchMark(p, 350)
  <2>1. Near(p, 889 + e)
    BY <1>1
  <2> QED BY ONLY <2>1, e \in 0 .. 150 DEF Near, MatchMark, Match
<1>3. decodeNEC(b, r) = Err
  BY <1>1, <1>2 DEF decodeNEC
<1>4. decodeSony(b, r) = Err
  BY <1>1, <1>2 DEF decodeSony
<1>5. decodeSanyo(b, r) = Err
  BY <1>1, <1>2 DEF decodeSanyo
<1>6. decodeMitsubishi(b, r) = Err
  BY <1>1, <1>2 DEF decodeMitsubishi
<1>7. PICK m, d : m \in 1 .. 9 /\ m = 5 /\ d = Decoders(b, r)
  OBVIOUS
<1>8. /\ d[1] = decodeNEC(b, r) /\ d[2] = decodeSony(b, r) /\ d[3] = decodeSanyo(b, r)
      /\ d[4] = decodeMitsubishi(b, r) /\ d[5] = decodeRC5(b, r)
  BY <1>7 DEF Decoders
<1>9. \A i \in 1 .. 9 : i < m => d[i] = Err
  <2>1. \A i \in 1 .. 9 : i < m => i = 1 \/ i = 2 \/ i = 3 \/ i = 4
    BY <1>7
  <2> QED BY ONLY <1>3, <1>4, <1>5, <1>6, <1>8, <2>1
<1>10. d[m] = Result("RC5", bits)
  BY ONLY <1>7, <1>8, decodeRC5(b, r) = Result("RC5", bits)
<1>11. d[m] # Err
  BY <1>10, ResultIsNoErr
<1>12. decode(b, r) = d[m]
  BY ONLY <1>7, <1>9, <1>11, DecodesFirst
<1> QED BY ONLY <1>10, <1>12

\* NEC's, Sony's and RC5's decoders fail for a code of RC6's.
LEMMA RC6IsRead ==
  ASSUME NEW b, NEW r \in Nat, NEW e \in 0 .. 150, b[0] \in Int, b[0] >= 800,
         Near(b[1], 2666 + e), Near(b[2], 889 - e),
         NEW bits, decodeRC6(b, r) = Result("RC6", bits)
  PROVE  decode(b, r) = Result("RC6", bits)
<1>1. PICK p, q : p = b[1] /\ q = b[2]
  OBVIOUS
<1>2. /\ ~MatchMark(p, 9000) /\ ~MatchMark(p, 350) /\ Match(p, 2767)
      /\ ~Match(p, 989) /\ ~Match(p, 1878)
  <2>1. Near(p, 2666 + e)
    BY <1>1
  <2> QED BY ONLY <2>1, e \in 0 .. 150 DEF Near, MatchMark, Match
<1>3. ~MatchMark(q, 3500) /\ ~MatchSpace(q, 600)
  <2>1. Near(q, 889 - e)
    BY <1>1
  <2> QED BY ONLY <2>1, e \in 0 .. 150 DEF Near, MatchMark, MatchSpace, Match
<1>4. decodeNEC(b, r) = Err
  BY <1>1, <1>2 DEF decodeNEC
<1>5. decodeSony(b, r) = Err
  <2> DEFINE w == WidthBits(b, r, 2, 600, 1200, 600)
             pairs == {j \in 0 .. 49 : 2 + 2 * j + 1 < r}
             good == {j \in pairs : \A i \in 0 .. j : MatchSpace(b[2 + 2 * i], 600)}
  <2>1. good = {}
    <3>1. ASSUME NEW j \in good PROVE FALSE
      <4>1. 0 \in 0 .. j /\ 2 + 2 * 0 = 2
        OBVIOUS
      <4> QED BY <1>1, <1>3, <3>1, <4>1
    <3> QED BY <3>1
  <2>2. w.bits = [i \in 1 .. Cardinality(good) |->
                    IF MatchMark(b[2 + 2 * i - 1], 1200) THEN 1 ELSE 0]
    BY DEF WidthBits
  <2>3. Cardinality(good) = 0
    BY <2>1, FS_EmptySet
  <2>4. w.bits = <<>>
    <3> HIDE DEF w, good
    <3>1. \A c : c = 0 => 1 .. c = {}
      OBVIOUS
    <3> QED BY <2>2, <2>3, <3>1
  <2>5. Len(w.bits) = 0
    <3> HIDE DEF w
    <3> QED BY <2>4
  <2>6. ~(Len(w.bits) >= 12)
    <3> HIDE DEF w
    <3> QED BY <2>5
  <2>7. decodeSony(b, r) = IF r < 26 THEN Err
                           ELSE IF b[0] < 500 THEN Repeat("SANYO")
                           ELSE IF MatchMark(b[1], 2400) /\ w.ok /\ Len(w.bits) >= 12
                           THEN Result("SONY", w.bits) ELSE Err
    BY DEF decodeSony
  <2>8. ~(b[0] < 500)
    OBVIOUS
  <2> HIDE DEF w, good, pairs
  <2> QED BY ONLY <2>6, <2>7, <2>8
<1>6. decodeSanyo(b, r) = Err
  <2>1. ~MatchMark(b[2], 3500) /\ ~(b[0] < 800)
    BY <1>1, <1>3
  <2> QED BY ONLY <2>1 DEF decodeSanyo
<1>7. decodeMitsubishi(b, r) = Err
  BY <1>1, <1>2 DEF decodeMitsubishi
<1>8. decodeRC5(b, r) = Err
  <2>1. Corrected(1, 889, 1) = 989 /\ Corrected(1, 889, 2) = 1878 /\ Corrected(1, 889, 3) = 2767
    BY DEF Corrected
  <2>2. \A v \in 1 .. 3 : v < 3 => v = 1 \/ v = 2
    OBVIOUS
  <2>3. 3 \in 2 .. 3 /\ Fits(b, 1, 889, 3)
    BY <1>1, <1>2, <2>1, <2>2 DEF Fits
  <2> QED BY ONLY <2>3, r \in Nat, FirstFailsRC5
<1>9. PICK m, d : m \in 1 .. 9 /\ m = 6 /\ d = Decoders(b, r)
  OBVIOUS
<1>10. /\ d[1] = decodeNEC(b, r) /\ d[2] = decodeSony(b, r) /\ d[3] = decodeSanyo(b, r)
       /\ d[4] = decodeMitsubishi(b, r) /\ d[5] = decodeRC5(b, r) /\ d[6] = decodeRC6(b, r)
  BY <1>9 DEF Decoders
<1>11. \A i \in 1 .. 9 : i < m => d[i] = Err
  <2>1. \A i \in 1 .. 9 : i < m => i = 1 \/ i = 2 \/ i = 3 \/ i = 4 \/ i = 5
    BY <1>9
  <2> QED BY ONLY <1>4, <1>5, <1>6, <1>7, <1>8, <1>10, <2>1
<1>12. d[m] = Result("RC6", bits)
  BY ONLY <1>9, <1>10, decodeRC6(b, r) = Result("RC6", bits)
<1>13. d[m] # Err
  BY <1>12, ResultIsNoErr
<1>14. decode(b, r) = d[m]
  BY ONLY <1>9, <1>11, <1>13, DecodesFirst
<1> QED BY ONLY <1>12, <1>14

\* The first run of a code that begins with a mark and a space is one level.
LEMMA FirstRun ==
  ASSUME NEW M, NEW L, NEW F, NEW c, Runs(L, M, F, c), L[1] # L[2]
  PROVE  F[2] - F[1] = 1
<1>1. PICK k \in 1 .. c : k = 1
  BY DEF Runs
<1>2. PICK x, y \in Int : /\ x = F[k] /\ y = F[k + 1] /\ x = 1 /\ x < y
                          /\ \A p \in Int : x <= p /\ p < y => L[p] = LevelOf(k)
  BY <1>1 DEF Runs
<1>3. ASSUME 2 < y PROVE FALSE
  <2>1. L[1] = LevelOf(k) /\ L[2] = LevelOf(k)
    BY <1>2, <1>3
  <2> QED BY <2>1
<1>4. y - x = 1
  BY <1>2, <1>3
<1>5. k + 1 = 2
  BY <1>1
<1> QED BY <1>1, <1>2, <1>4, <1>5

-----------------------------------------------------------------------------
(* Which codes there are, and how many marks and spaces of which length.   *)

\* What a remote sends: marks and spaces that are longer than a detector makes
\* them longer or shorter, as many as the buffer has room for.
PulseTimes == 245 .. 9000

Shaped(us, N, high) ==
    /\ us \in Seq(Nat) /\ Len(us) = N /\ N \in Nat /\ N % 2 = 1 /\ N <= 99
    /\ \A k \in 1 .. N : us[k] \in PulseTimes /\ (k % 2 = 0 => us[k] <= high)

Timed(t, high) ==
    /\ t.hm # 0 => t.hm \in PulseTimes /\ t.hs \in PulseTimes /\ t.hs <= high
    /\ t.m1 \in PulseTimes /\ t.m0 \in PulseTimes
    /\ t.s1 \in PulseTimes /\ t.s0 \in PulseTimes /\ t.s1 <= high /\ t.s0 <= high

\* The length of what a code sends.
Pulsing(n, t) == HeaderOf(t) + 2 * n + (IF t.stop THEN 1 ELSE -1)

\* The pulses of a code have those lengths.
LEMMA PulsesAreShaped ==
  ASSUME NEW n \in Nat \ {0}, NEW t \in Times, NEW bits \in Bits(n), NEW high \in Nat,
         Timed(t, high), NEW N \in Nat, N = Pulsing(n, t), N <= 99
  PROVE  Shaped(SendPulses(t, bits), N, high)
<1>1. PICK us : us = SendPulses(t, bits)
  OBVIOUS
<1>2. PICK h \in {0, 2} : h = HeaderOf(t)
  BY DEF HeaderOf
<1>3. /\ us \in Seq(Nat) /\ Len(us) = N
      /\ t.hm # 0 => us[1] = t.hm /\ us[2] = t.hs
      /\ \A i \in 1 .. n :
           /\ us[h + 2 * i - 1] = MarkOf(t, bits[i])
           /\ t.stop \/ i < n => us[h + 2 * i] = SpaceOf(t, bits[i])
      /\ t.stop => us[h + 2 * n + 1] = t.m0
  <2>1. /\ us \in Seq(Nat)
        /\ Len(us) = HeaderOf(t) + 2 * n + (IF t.stop THEN 1 ELSE -1)
        /\ t.hm # 0 => us[1] = t.hm /\ us[2] = t.hs
        /\ \A i \in 1 .. n :
             /\ us[HeaderOf(t) + 2 * i - 1] = MarkOf(t, bits[i])
             /\ t.stop \/ i < n => us[HeaderOf(t) + 2 * i] = SpaceOf(t, bits[i])
        /\ t.stop => us[HeaderOf(t) + 2 * n + 1] = t.m0
    BY <1>1, PulsesAre, SMTT(30)
  <2> QED BY <1>2, <2>1 DEF Pulsing
<1>4. PICK s \in {1, -1} : s = (IF t.stop THEN 1 ELSE -1)
  OBVIOUS
<1>5. N = h + 2 * n + s /\ N \in Nat /\ N % 2 = 1
  <2>1. N = h + 2 * n + s
    BY <1>2, <1>4 DEF Pulsing
  <2> QED BY <1>2, <1>4, <2>1
<1>6. \A i \in 1 .. n : /\ MarkOf(t, bits[i]) \in PulseTimes
                        /\ SpaceOf(t, bits[i]) \in PulseTimes
                        /\ SpaceOf(t, bits[i]) <= high
  <2>1. PICK m1 \in PulseTimes, m0 \in PulseTimes, s1 \in PulseTimes, s0 \in PulseTimes :
          m1 = t.m1 /\ m0 = t.m0 /\ s1 = t.s1 /\ s0 = t.s0 /\ s1 <= high /\ s0 <= high
    BY Zenon DEF Timed
  <2>2. ASSUME NEW i \in 1 .. n
        PROVE  /\ MarkOf(t, bits[i]) = m1 \/ MarkOf(t, bits[i]) = m0
               /\ SpaceOf(t, bits[i]) = s1 \/ SpaceOf(t, bits[i]) = s0
    BY <2>1, Zenon DEF MarkOf, SpaceOf
  <2> QED BY <2>1, <2>2
<1>7. ASSUME NEW k \in 1 .. N
      PROVE  us[k] \in PulseTimes /\ (k % 2 = 0 => us[k] <= high)
  <2>1. CASE k <= h
    <3>1. h = 2 /\ t.hm # 0 /\ (k = 1 \/ k = 2)
      BY <1>2, <2>1 DEF HeaderOf
    <3>2. us[1] = t.hm /\ us[2] = t.hs
      BY <1>3, <3>1
    <3>3. t.hm \in PulseTimes /\ t.hs \in PulseTimes /\ t.hs <= high
      BY <3>1, Zenon DEF Timed
    <3>4. PICK u, v : u = us[1] /\ v = us[2]
      OBVIOUS
    <3>5. u \in PulseTimes /\ v \in PulseTimes /\ v <= high
      BY <3>2, <3>3, <3>4, Zenon
    <3> QED BY <3>1, <3>4, <3>5
  <2>2. CASE k > h /\ k % 2 = 1 /\ k <= h + 2 * n
    <3>1. PICK i \in 1 .. n : k = h + 2 * i - 1
      <4>1. (k - h + 1) \div 2 \in 1 .. n /\ k = h + 2 * ((k - h + 1) \div 2) - 1
        BY <1>2, <2>2
      <4> QED BY <4>1
    <3>2. us[k] = MarkOf(t, bits[i])
      BY <1>3, <3>1
    <3>3. us[k] \in PulseTimes
      BY <1>6, <3>2, Zenon
    <3> QED BY <2>2, <3>3
  <2>3. CASE k > h /\ k % 2 = 0
    <3>1. PICK i \in 1 .. n : k = h + 2 * i
      <4>1. (k - h) \div 2 \in 1 .. n /\ k = h + 2 * ((k - h) \div 2)
        BY <1>2, <1>4, <1>5, <2>3
      <4> QED BY <4>1
    <3>2. t.stop \/ i < n
      BY <1>4, <1>5, <3>1
    <3>3. us[k] = SpaceOf(t, bits[i])
      BY <1>3, <3>1, <3>2
    <3> QED BY <1>6, <3>3, Zenon
  <2>4. CASE k > h + 2 * n
    <3>1. k = h + 2 * n + 1 /\ s = 1
      BY <1>2, <1>4, <1>5, <2>4
    <3>2. t.stop
      BY <1>4, <3>1
    <3>3. us[k] = t.m0 /\ k % 2 = 1
      BY <1>2, <1>3, <3>1, <3>2, SMTT(30)
    <3>4. us[k] \in PulseTimes
      BY <3>3, Zenon DEF Timed
    <3> QED BY <3>3, <3>4
  <2>5. k \in Nat /\ h \in Nat /\ n \in Nat /\ (k % 2 = 0 \/ k % 2 = 1)
    BY <1>2, <1>5
  <2> QED BY <2>1, <2>2, <2>3, <2>4, <2>5
<1> QED BY <1>1, <1>3, <1>5, <1>7 DEF Shaped

\* The codes that IRsend sends and decode() has a decoder for; bits of a repeat
\* are not looked at.
Coded(type, n) == [type : {type}, bits : Bits(n)]
Sonys == UNION {Coded("SONY", n) : n \in 12 .. 32}
RC5s == UNION {Coded("RC5", n) : n \in 11 .. 32}
RC6s == UNION {Coded("RC6", n) : n \in 5 .. 32}
NECAgain == [type |-> "NECrepeat", bits |-> <<>>]
Read ==
    Coded("NEC", 32) \cup Coded("PANASONIC", 48) \cup Coded("JVC", 16)
    \cup Coded("JVCrepeat", 16) \cup Sonys \cup RC5s \cup RC6s \cup {NECAgain}

\* Those it has none for.
Unread == UNION {Coded("SHARP", n) \cup Coded("DISH", n) : n \in 1 .. 32}

\* A code has its protocol, and its bits.
LEMMA CodedIs ==
  ASSUME NEW type, NEW n, NEW code \in Coded(type, n)
  PROVE  code.type = type /\ code.bits \in Bits(n)
BY DEF Coded

\* What is sent for a code whose bits are pulses.
LEMMA SentIsPulses ==
  ASSUME NEW type \in {"NEC", "SONY", "PANASONIC", "JVC", "JVCrepeat", "SHARP", "DISH"},
         NEW code, code.type = type
  PROVE  Sent(code) = SendPulses(Timing[type], code.bits)
BY DEF Sent

MostOf(type) == IF type = "PANASONIC" THEN 48 ELSE 32
HighOf(type) == IF type = "DISH" THEN 6100 ELSE 4500

\* Every such code is sent in times that are long enough, and fits the buffer.
LEMMA BitsAreShaped ==
  ASSUME NEW type \in {"NEC", "SONY", "PANASONIC", "JVC", "JVCrepeat", "SHARP", "DISH"},
         NEW n \in Nat \ {0}, n <= MostOf(type),
         NEW code, code.type = type, code.bits \in Bits(n)
  PROVE  Shaped(Sent(code), Pulsing(n, Timing[type]), HighOf(type))
<1>1. PICK t \in Times : t = Timing[type]
  BY TimesAre
<1>2. PICK high \in Nat : high = HighOf(type)
  BY DEF HighOf
<1>3. PICK bits \in Bits(n) : bits = code.bits
  OBVIOUS
<1>4. Timed(t, high)
  <2>1. CASE type = "NEC"
    BY <1>1, <1>2, <2>1, TimesAre DEF Distance, HighOf, Timed, PulseTimes
  <2>2. CASE type = "SONY"
    BY <1>1, <1>2, <2>2, TimesAre DEF HighOf, Timed, PulseTimes
  <2>3. CASE type = "PANASONIC"
    BY <1>1, <1>2, <2>3, TimesAre DEF Distance, HighOf, Timed, PulseTimes
  <2>4. CASE type = "JVC"
    BY <1>1, <1>2, <2>4, TimesAre DEF Distance, HighOf, Timed, PulseTimes
  <2>5. CASE type = "JVCrepeat"
    BY <1>1, <1>2, <2>5, TimesAre DEF Distance, HighOf, Timed, PulseTimes
  <2>6. CASE type = "SHARP"
    BY <1>1, <1>2, <2>6, TimesAre DEF Distance, HighOf, Timed, PulseTimes
  <2>7. CASE type = "DISH"
    BY <1>1, <1>2, <2>7, TimesAre DEF Distance, HighOf, Timed, PulseTimes
  <2> QED BY <2>1, <2>2, <2>3, <2>4, <2>5, <2>6, <2>7
<1>5. PICK N \in Nat : N = Pulsing(n, t)
  BY DEF HeaderOf, Pulsing
<1>6. N <= 99
  <2>1. CASE type = "PANASONIC"
    <3>1. t.stop /\ HeaderOf(t) = 2
      BY <1>1, <2>1, TimesAre DEF Distance, HeaderOf
    <3> QED BY <1>5, <2>1, <3>1 DEF Pulsing, MostOf
  <2>2. CASE type # "PANASONIC"
    BY <1>5, <2>2 DEF Pulsing, HeaderOf, MostOf
  <2> QED BY <2>1, <2>2
<1>7. Shaped(SendPulses(t, bits), N, high)
  BY <1>4, <1>5, <1>6, PulsesAreShaped
<1>8. Sent(code) = SendPulses(t, bits)
  BY <1>1, <1>3, SentIsPulses
<1> QED BY <1>1, <1>2, <1>5, <1>7, <1>8

\* So does NEC's repeat.
LEMMA NECRepeatIsShaped ==
  ASSUME NEW code, code.type = "NECrepeat"
  PROVE  Sent(code) = <<9000, 2250, 560>> /\ Shaped(Sent(code), 3, 4500)
<1>1. Sent(code) = <<9000, 2250, 560>>
  BY DEF Sent
<1> QED BY <1>1 DEF Shaped, PulseTimes

\* Levels that are sent in their runs.
Beaten(us, L, M, F, c, m, t) ==
    Runs(L, M, F, c) /\ CodeRuns(L, M, F, c, m) /\ Sending(us, F, c, t)

\* sendRC5() sends the runs of a code's levels.
LEMMA RC5IsSent ==
  ASSUME NEW n \in 11 .. 32, NEW bits \in Bits(n),
         NEW code, code.type = "RC5", code.bits = bits,
         NEW L, NEW M, L = RC5Levels(bits), M = 3 + 2 * n
  PROVE  RC5Of(L, M, bits, n) /\ \E F, c : Beaten(Sent(code), L, M, F, c, 2, 889)
<1>1. RC5Of(L, M, bits, n)
  BY RC5LevelsAre
<1>2. M \in Nat \ {0} /\ L \in [1 .. M -> {Mark, Space}] /\ L[1] = Mark
  BY <1>1 DEF RC5Of
<1>3. PICK t \in Nat : t = 889
  OBVIOUS
<1>4. PICK us : us = Joined(L, t)
  OBVIOUS
<1>5. PICK F, c : Runs(L, M, F, c) /\ Sending(us, F, c, t)
  BY ONLY <1>2, <1>4, JoinedIs, t \in Nat
<1>6. n \in Nat \ {0}
  OBVIOUS
<1>7. CodeRuns(L, M, F, c, 2)
  BY ONLY <1>1, <1>5, <1>6, RC5Runs, bits \in Bits(n)
<1>8. Sent(code) = us
  BY <1>3, <1>4 DEF Sent
<1> QED BY <1>1, <1>3, <1>5, <1>7, <1>8 DEF Beaten

\* RC6's header in front.
Headed(us) == <<2666, 889>> \o us

\* sendRC6() sends the header and the runs of a code's levels.
LEMMA RC6IsSent ==
  ASSUME NEW n \in 5 .. 32, NEW bits \in Bits(n),
         NEW code, code.type = "RC6", code.bits = bits,
         NEW L, NEW M, L = RC6Levels(bits), M = 4 + 2 * n
  PROVE  /\ RC6Of(L, M, bits, n)
         /\ \E F, c, us : /\ Beaten(us, L, M, F, c, 3, 444)
                          /\ Sent(code) = Headed(us)
<1>1. RC6Of(L, M, bits, n)
  BY RC6LevelsAre
<1>2. M \in Nat \ {0} /\ L \in [1 .. M -> {Mark, Space}] /\ L[1] = Mark
  BY <1>1 DEF RC6Of
<1>3. PICK t \in Nat : t = 444
  OBVIOUS
<1>4. PICK us : us = Joined(L, t)
  OBVIOUS
<1>5. PICK F, c : Runs(L, M, F, c) /\ Sending(us, F, c, t)
  BY ONLY <1>2, <1>4, JoinedIs, t \in Nat
<1>6. n \in Nat /\ n >= 5
  OBVIOUS
<1>7. CodeRuns(L, M, F, c, 3)
  BY ONLY <1>1, <1>5, <1>6, RC6Runs, bits \in Bits(n)
<1>8. Sent(code) = Headed(us)
  BY <1>3, <1>4 DEF Sent, Headed
<1> QED BY <1>1, <1>3, <1>5, <1>7, <1>8 DEF Beaten

\* Each pulse is a number of units.
UnitsOf(us, F, N, M, m, t) ==
    /\ us \in Seq(Nat) /\ Len(us) = N /\ N \in Nat /\ N % 2 = 1 /\ N <= M /\ M \in Nat
    /\ \A k \in 1 .. N : F[k + 1] - F[k] \in 1 .. m /\ us[k] = t * (F[k + 1] - F[k])

\* Each run that is sent is as many units as it has levels.
LEMMA UnitsAreSent ==
  ASSUME NEW us, NEW L, NEW M, NEW F, NEW c, NEW m \in Nat, NEW t \in Nat,
         Beaten(us, L, M, F, c, m, t), NEW N, N = Shown(c)
  PROVE  UnitsOf(us, F, N, M, m, t)
<1>1. /\ M \in Nat /\ c \in Nat /\ c >= 1 /\ c <= M
      /\ \A k \in 1 .. c : F[k + 1] - F[k] \in 1 .. m
  BY DEF Beaten, Runs, CodeRuns
<1>2. N \in Nat /\ N % 2 = 1 /\ (N = c \/ N = c - 1)
  BY <1>1, ShownIs
<1>3. us \in Seq(Nat) /\ Len(us) = N /\ \A k \in 1 .. N : us[k] = t * (F[k + 1] - F[k])
  BY DEF Beaten, Sending
<1>4. N <= M /\ \A k \in 1 .. N : k \in 1 .. c
  BY <1>1, <1>2
<1> QED BY <1>1, <1>2, <1>3, <1>4 DEF UnitsOf

\* RC5's codes are sent in times that are long enough, and fit the buffer.
LEMMA RC5IsShaped ==
  ASSUME NEW us, NEW L, NEW M, NEW F, NEW c, Beaten(us, L, M, F, c, 2, 889), M <= 99
  PROVE  Shaped(us, Shown(c), 4500)
<1>1. PICK m \in Nat, t \in Nat : m = 2 /\ t = 889
  OBVIOUS
<1>2. PICK N : N = Shown(c)
  OBVIOUS
<1>3. /\ us \in Seq(Nat) /\ Len(us) = N /\ N \in Nat /\ N % 2 = 1 /\ N <= M /\ M \in Nat
      /\ \A k \in 1 .. N : F[k + 1] - F[k] \in 1 .. m /\ us[k] = t * (F[k + 1] - F[k])
  <2>1. Beaten(us, L, M, F, c, m, t)
    BY <1>1
  <2>2. UnitsOf(us, F, N, M, m, t)
    BY ONLY <1>2, <2>1, UnitsAreSent, m \in Nat, t \in Nat
  <2> QED BY ONLY <2>2 DEF UnitsOf
<1>4. ASSUME NEW u \in 1 .. 2 PROVE 889 * u \in PulseTimes /\ 889 * u <= 4500
  BY DEF PulseTimes
<1>5. \A k \in 1 .. N : us[k] \in PulseTimes /\ (k % 2 = 0 => us[k] <= 4500)
  <2>1. ASSUME NEW k \in 1 .. N
        PROVE  us[k] \in PulseTimes /\ us[k] <= 4500
    <3>1. F[k + 1] - F[k] \in 1 .. 2 /\ us[k] = 889 * (F[k + 1] - F[k])
      BY ONLY <1>1, <1>3, k \in 1 .. N
    <3> QED BY ONLY <1>4, <3>1
  <2> QED BY ONLY <2>1
<1>6. N <= 99
  BY <1>3
<1> QED BY <1>2, <1>3, <1>5, <1>6 DEF Shaped

\* So are RC6's codes, and they do.
LEMMA RC6IsShaped ==
  ASSUME NEW us, NEW L, NEW M, NEW F, NEW c, Beaten(us, L, M, F, c, 3, 444), M <= 97,
         NEW all, all = Headed(us)
  PROVE  /\ Shaped(all, 2 + Shown(c), 4500) /\ all[1] = 2666 /\ all[2] = 889
         /\ \A k \in 1 .. Shown(c) : all[2 + k] = us[k]
<1>1. PICK m \in Nat, t \in Nat : m = 3 /\ t = 444
  OBVIOUS
<1>2. PICK N : N = Shown(c)
  OBVIOUS
<1>3. /\ us \in Seq(Nat) /\ Len(us) = N /\ N \in Nat /\ N % 2 = 1 /\ N <= M /\ M \in Nat
      /\ \A k \in 1 .. N : F[k + 1] - F[k] \in 1 .. m /\ us[k] = t * (F[k + 1] - F[k])
  <2>1. Beaten(us, L, M, F, c, m, t)
    BY <1>1
  <2>2. UnitsOf(us, F, N, M, m, t)
    BY ONLY <1>2, <2>1, UnitsAreSent, m \in Nat, t \in Nat
  <2> QED BY ONLY <2>2 DEF UnitsOf
<1>4. ASSUME NEW u \in 1 .. 3 PROVE 444 * u \in PulseTimes /\ 444 * u <= 4500
  BY DEF PulseTimes
<1>5. ASSUME NEW k \in 1 .. N PROVE us[k] \in PulseTimes /\ us[k] <= 4500
  <2>1. PICK u \in 1 .. 3 : us[k] = 444 * u
    <3>1. F[k + 1] - F[k] \in 1 .. 3 /\ us[k] = 444 * (F[k + 1] - F[k])
      BY ONLY <1>1, <1>3, k \in 1 .. N
    <3> QED BY ONLY <3>1
  <2> QED BY ONLY <1>4, <2>1
<1>15. PICK x, y \in Nat : x = 2666 /\ y = 889
  OBVIOUS
<1>6. PICK h : h = <<x, y>>
  BY Zenon
<1>7. h \in Seq(Nat) /\ Len(h) = 2 /\ h[1] = 2666 /\ h[2] = 889
  BY <1>6, <1>15
<1>8. /\ all \in Seq(Nat) /\ Len(all) = 2 + N
      /\ \A i \in 1 .. 2 + N : all[i] = IF i <= 2 THEN h[i] ELSE us[i - 2]
  <2>1. /\ h \o us \in Seq(Nat) /\ Len(h \o us) = Len(h) + Len(us)
        /\ \A i \in 1 .. Len(h) + Len(us) :
              (h \o us)[i] = IF i <= Len(h) THEN h[i] ELSE us[i - Len(h)]
    <3>1. h \in Seq(Nat) /\ us \in Seq(Nat)
      BY <1>3, <1>7
    <3> QED BY ONLY <3>1, ConcatProperties, Zenon
  <2>2. all = h \o us
    BY <1>6, <1>15 DEF Headed
  <2>3. Len(h) = 2 /\ Len(us) = N
    BY <1>3, <1>7
  <2> QED BY ONLY <2>1, <2>2, <2>3
<1>9. 2666 \in PulseTimes /\ 889 \in PulseTimes /\ 889 <= 4500
  BY DEF PulseTimes
<1>10. all[1] = 2666 /\ all[2] = 889
  <2>1. 1 \in 1 .. 2 + N /\ 2 \in 1 .. 2 + N
    BY <1>3
  <2> QED BY ONLY <1>7, <1>8, <2>1
<1>11. ASSUME NEW k \in 1 .. N PROVE all[2 + k] = us[k]
  <2>1. 2 + k \in 1 .. 2 + N /\ ~(2 + k <= 2) /\ 2 + k - 2 = k
    BY <1>3
  <2> QED BY ONLY <1>8, <2>1
<1>12. ASSUME NEW k \in 1 .. 2 + N
       PROVE  all[k] \in PulseTimes /\ (k % 2 = 0 => all[k] <= 4500)
  <2>1. CASE k = 1
    BY <1>9, <1>10, <2>1
  <2>2. CASE k = 2
    BY <1>9, <1>10, <2>2
  <2>3. CASE k > 2
    <3>1. PICK j \in 1 .. N : k = 2 + j
      <4>1. k - 2 \in 1 .. N /\ k = 2 + (k - 2)
        BY <1>3, <2>3
      <4> QED BY <4>1
    <3>2. all[k] = us[j]
      BY ONLY <1>11, <3>1
    <3>3. us[j] \in PulseTimes /\ us[j] <= 4500
      BY ONLY <1>5, j \in 1 .. N
    <3> QED BY ONLY <3>2, <3>3
  <2>4. k = 1 \/ k = 2 \/ k > 2
    BY <1>3
  <2> QED BY ONLY <2>1, <2>2, <2>3, <2>4
<1>13. 2 + N \in Nat /\ (2 + N) % 2 = 1 /\ 2 + N <= 99
  BY <1>3
<1>14. Shaped(all, 2 + N, 4500)
  BY <1>8, <1>12, <1>13 DEF Shaped
<1> QED BY ONLY <1>2, <1>10, <1>11, <1>14

-----------------------------------------------------------------------------
(* What is on the air, and what a recording of it holds.                   *)

\* What is on the air is as long as what is sent, and each of its marks and
\* spaces has a tick to be seen in.
OnLineFor(P, N, high) ==
    /\ N \in Nat /\ N % 2 = 1 /\ N <= 99
    /\ P \in [1 .. N -> 1 .. 200] /\ Len(P) = N
    /\ \A k \in 1 .. N : k % 2 = 0 => 50 * P[k] <= high + 50

\* A code that is sent in such times is on the air in such ticks.
LEMMA ShapedOnAir ==
  ASSUME NEW code, NEW N \in Nat, NEW high \in Nat, Shaped(Sent(code), N, high),
         NEW e \in 0 .. 150, NEW l \in Nat
  PROVE  /\ OnLineFor(Ticks(code, e, l), N, high)
         /\ AllNear(Ticks(code, e, l), Sent(code), N, e)
<1>1. PICK us, P : us = Sent(code) /\ P = Ticks(code, e, l)
  OBVIOUS
<1>2. /\ us \in Seq(Nat) /\ Len(us) = N /\ N \in Nat /\ N % 2 = 1 /\ N <= 99
      /\ \A k \in 1 .. N : us[k] \in PulseTimes /\ (k % 2 = 0 => us[k] <= high)
  BY <1>1 DEF Shaped
<1>3. us \in [1 .. N -> Nat]
  BY <1>2
<1>4. \A k \in 1 .. N : us[k] >= 245 /\ us[k] <= 9000 /\ us[k] >= 150
  <2>1. ASSUME NEW u \in PulseTimes PROVE u >= 245 /\ u <= 9000 /\ u >= 150
    BY DEF PulseTimes
  <2> QED BY <1>2, <2>1
<1>5. /\ DOMAIN P = 1 .. N
      /\ \A k \in 1 .. N : Near(P[k], us[k] + (IF k % 2 = 1 THEN e ELSE - e))
  <2>1. Len(Sent(code)) = N /\ Sent(code) \in [1 .. N -> Nat]
        /\ \A k \in 1 .. N : Sent(code)[k] >= 150
    BY <1>1, <1>2, <1>3, <1>4
  <2>2. AllNear(Ticks(code, e, l), Sent(code), N, e)
    BY <2>1, TicksAreNear
  <2>3. AllNear(P, us, N, e)
    BY <1>1, <2>2
  <2> QED BY <2>3 DEF AllNear
<1>6. ASSUME NEW k \in 1 .. N
      PROVE  P[k] \in 1 .. 200 /\ (k % 2 = 0 => 50 * P[k] <= high + 50)
  <2>1. PICK u \in Nat : u = us[k]
    BY <1>3
  <2>7. PICK p : p = P[k]
    OBVIOUS
  <2>2. u >= 245 /\ u <= 9000 /\ (k % 2 = 0 => u <= high)
    BY <1>2, <1>4, <2>1
  <2>3. Near(p, u + (IF k % 2 = 1 THEN e ELSE - e))
    BY <1>5, <2>1, <2>7
  <2>5. p \in Int /\ 50 * p < u + 200 /\ u - 200 < 50 * p
    BY <2>3 DEF Near
  <2>6. k % 2 = 0 => 50 * p < u + 50
    BY <2>3 DEF Near
  <2>4. p \in 1 .. 200 /\ (k % 2 = 0 => 50 * p <= high + 50)
    BY <2>2, <2>5, <2>6
  <2> QED BY <2>4, <2>7
<1>7. P = [k \in DOMAIN P |-> P[k]]
  BY <1>1 DEF Ticks
<1>8. P \in [1 .. N -> 1 .. 200]
  BY <1>5, <1>6, <1>7
<1>9. Len(P) = N
  <2>1. P \in Seq(1 .. 200)
    <3>1. P \in [1 .. N -> 1 .. 200] /\ N \in Nat
      BY <1>8
    <3> QED BY <3>1
  <2> QED BY <1>2, <1>5, <2>1
<1>10. OnLineFor(P, N, high)
  BY <1>2, <1>6, <1>8, <1>9 DEF OnLineFor
<1>11. AllNear(P, us, N, e)
  BY <1>5 DEF AllNear
<1> QED BY <1>1, <1>10, <1>11

\* A recording of a code that is read: its ticks, behind those of the gap.
Recording(b, P) == b[0] \in Int /\ b[0] >= 800 /\ \A k \in 1 .. Len(P) : b[k] = P[k]

\* What a code of those bits is recorded as.
RecordedAs(b, P, t, n, bits, e) ==
    /\ Len(P) = Pulsing(n, t)
    /\ t.hm # 0 => /\ Near(b[1], t.hm + e) /\ Near(b[2], t.hs - e)
                   /\ Pulsed(b, t, n, bits, e)
    /\ t.hm = 0 => /\ Near(b[1], MarkOf(t, bits[1]) + e)
                   /\ Near(b[2], SpaceOf(t, bits[1]) - e)
                   /\ n > 1 => Near(b[3], MarkOf(t, bits[2]) + e)
    /\ t.stop => Near(b[Pulsing(n, t)], t.m0 + e)

\* A recording of a code whose bits are pulses holds times near those of each bit.
LEMMA RecordingOfBits ==
  ASSUME NEW type \in {"NEC", "SONY", "PANASONIC", "JVC", "JVCrepeat"},
         NEW n \in Nat \ {0}, n <= MostOf(type),
         NEW code, code.type = type, NEW bits \in Bits(n), code.bits = bits,
         NEW e \in 0 .. 150, NEW l \in Nat, NEW b, Recording(b, Ticks(code, e, l)),
         NEW t \in Times, t = Timing[type]
  PROVE  RecordedAs(b, Ticks(code, e, l), t, n, bits, e)
<1>1. PICK us, P : us = Sent(code) /\ P = Ticks(code, e, l)
  OBVIOUS
<1>2. PICK N \in Nat, high \in Nat : N = Pulsing(n, t) /\ high = HighOf(type)
  <2>1. Pulsing(n, t) \in Nat /\ HighOf(type) \in Nat
    BY DEF Pulsing, HeaderOf, HighOf
  <2> QED BY <2>1
<1>3. Shaped(us, N, high)
  BY <1>1, <1>2, BitsAreShaped
<1>4. OnLineFor(P, N, high)
  BY <1>1, <1>3, ShapedOnAir
<1>5. \A k \in 1 .. N : Near(P[k], us[k] + (IF k % 2 = 1 THEN e ELSE - e))
  BY <1>1, <1>3, ShapedOnAir DEF AllNear
<1>6. Len(P) = N
  BY <1>4 DEF OnLineFor
<1>7. \A k \in 1 .. N : Near(b[k], us[k] + (IF k % 2 = 1 THEN e ELSE - e))
  BY <1>1, <1>5, <1>6 DEF Recording
<1>8. us = SendPulses(t, bits)
  BY <1>1, SentIsPulses
<1>9. PICK h \in {0, 2} : h = HeaderOf(t)
  BY DEF HeaderOf
<1>10. PICK s \in {1, -1} : s = (IF t.stop THEN 1 ELSE -1)
  OBVIOUS
<1>11. N = h + 2 * n + s
  BY <1>2, <1>9, <1>10 DEF Pulsing
<1>12. /\ t.hm # 0 => us[1] = t.hm /\ us[2] = t.hs
       /\ \A i \in 1 .. n :
            /\ us[h + 2 * i - 1] = MarkOf(t, bits[i])
            /\ t.stop \/ i < n => us[h + 2 * i] = SpaceOf(t, bits[i])
       /\ t.stop => us[h + 2 * n + 1] = t.m0
  <2>1. /\ t.hm # 0 => us[1] = t.hm /\ us[2] = t.hs
        /\ \A i \in 1 .. n :
             /\ us[HeaderOf(t) + 2 * i - 1] = MarkOf(t, bits[i])
             /\ t.stop \/ i < n => us[HeaderOf(t) + 2 * i] = SpaceOf(t, bits[i])
        /\ t.stop => us[HeaderOf(t) + 2 * n + 1] = t.m0
    BY ONLY <1>8, PulsesAre, n \in Nat \ {0}, t \in Times, bits \in Bits(n)
  <2> QED BY <1>9, <2>1
<1>13. \A k \in 1 .. N : /\ k % 2 = 1 => Near(b[k], us[k] + e)
                         /\ k % 2 = 0 => Near(b[k], us[k] - e)
  <2>1. \A k \in 1 .. N : k % 2 = 0 => ~(k % 2 = 1)
    OBVIOUS
  <2>2. \A k \in 1 .. N : us[k] \in Nat
    BY ONLY <1>3, N \in Nat DEF Shaped
  <2>3. \A k \in 1 .. N : us[k] + (- e) = us[k] - e
    BY <2>2
  <2> QED BY <1>7, <2>1, <2>3
<1>14. ASSUME NEW i \in 1 .. n
       PROVE  /\ Near(b[h + 2 * i - 1], MarkOf(t, bits[i]) + e)
              /\ t.stop \/ i < n => Near(b[h + 2 * i], SpaceOf(t, bits[i]) - e)
  <2>1. PICK k, j : k = h + 2 * i - 1 /\ j = h + 2 * i
    OBVIOUS
  <2>2. k \in 1 .. N /\ k % 2 = 1
    BY ONLY <1>9, <1>10, <1>11, <2>1, n \in Nat \ {0}, i \in 1 .. n, SMTT(30)
  <2>3. t.stop \/ i < n => j \in 1 .. N /\ j % 2 = 0
    BY ONLY <1>9, <1>10, <1>11, <2>1, n \in Nat \ {0}, i \in 1 .. n, SMTT(30)
  <2>4. us[k] = MarkOf(t, bits[i]) /\ (t.stop \/ i < n => us[j] = SpaceOf(t, bits[i]))
    BY <1>12, <2>1
  <2>5. Near(b[k], MarkOf(t, bits[i]) + e)
    BY <1>13, <2>2, <2>4
  <2>6. t.stop \/ i < n => Near(b[j], SpaceOf(t, bits[i]) - e)
    BY <1>13, <2>3, <2>4
  <2> QED BY <2>1, <2>5, <2>6
<1>15. t.hm # 0 => /\ Near(b[1], t.hm + e) /\ Near(b[2], t.hs - e)
                   /\ Pulsed(b, t, n, bits, e)
  <2> SUFFICES ASSUME t.hm # 0
               PROVE  /\ Near(b[1], t.hm + e) /\ Near(b[2], t.hs - e)
                      /\ Pulsed(b, t, n, bits, e)
    OBVIOUS
  <2>1. h = 2
    BY <1>9 DEF HeaderOf
  <2>2. 1 \in 1 .. N /\ 2 \in 1 .. N
    BY <1>10, <1>11, <2>1
  <2>3. Near(b[1], t.hm + e) /\ Near(b[2], t.hs - e)
    BY <1>12, <1>13, <2>2
  <2>4. ASSUME NEW i \in 1 .. n
        PROVE  /\ Near(b[2 * i + 1], MarkOf(t, bits[i]) + e)
               /\ t.stop \/ i < n => Near(b[2 * i + 2], SpaceOf(t, bits[i]) - e)
    <3>1. h + 2 * i - 1 = 2 * i + 1 /\ h + 2 * i = 2 * i + 2
      BY <2>1
    <3> QED BY <1>14, <3>1
  <2> QED BY <2>3, <2>4 DEF Pulsed
<1>16. t.hm = 0 => /\ Near(b[1], MarkOf(t, bits[1]) + e)
                   /\ (t.stop => Near(b[2], SpaceOf(t, bits[1]) - e))
                   /\ n > 1 => Near(b[3], MarkOf(t, bits[2]) + e)
  <2> SUFFICES ASSUME t.hm = 0
               PROVE  /\ Near(b[1], MarkOf(t, bits[1]) + e)
                      /\ (t.stop => Near(b[2], SpaceOf(t, bits[1]) - e))
                      /\ n > 1 => Near(b[3], MarkOf(t, bits[2]) + e)
    OBVIOUS
  <2>1. h = 0
    BY <1>9 DEF HeaderOf
  <2>2. PICK i \in 1 .. n : i = 1
    OBVIOUS
  <2>3. h + 2 * i - 1 = 1 /\ h + 2 * i = 2
    BY <2>1, <2>2
  <2>4. Near(b[1], MarkOf(t, bits[1]) + e) /\ (t.stop => Near(b[2], SpaceOf(t, bits[1]) - e))
    BY <1>14, <2>2, <2>3
  <2>5. n > 1 => Near(b[3], MarkOf(t, bits[2]) + e)
    <3>1. SUFFICES ASSUME n > 1 PROVE Near(b[3], MarkOf(t, bits[2]) + e)
      OBVIOUS
    <3>2. PICK j \in 1 .. n : j = 2
      BY <3>1
    <3>3. h + 2 * j - 1 = 3
      BY <2>1, <3>2
    <3> QED BY <1>14, <3>2, <3>3
  <2> QED BY <2>4, <2>5
<1>17. t.stop => Near(b[N], t.m0 + e)
  <2> SUFFICES ASSUME t.stop PROVE Near(b[N], t.m0 + e)
    OBVIOUS
  <2>1. N = h + 2 * n + 1 /\ N \in 1 .. N /\ N % 2 = 1
    BY <1>9, <1>10, <1>11
  <2>2. us[N] = t.m0
    BY <1>12, <2>1
  <2> QED BY <1>13, <2>1, <2>2
<1>18. t.hm = 0 => t.stop
  BY TimesAre DEF Distance
<1>19. RecordedAs(b, P, t, n, bits, e)
  BY <1>2, <1>6, <1>15, <1>16, <1>17, <1>18 DEF RecordedAs
<1> QED BY <1>1, <1>19

-----------------------------------------------------------------------------
(* A recording of a whole code is decoded as the code.                     *)

\* Each protocol's recording is decoded as the code: NEC's,
LEMMA NECDecoded ==
  ASSUME NEW code, code.type = "NEC", NEW bits \in Bits(32), code.bits = bits,
         NEW e \in 0 .. 150, NEW l \in Nat, NEW b, Recording(b, Ticks(code, e, l))
  PROVE  decode(b, Len(Ticks(code, e, l)) + 1) = Expected(code)
<1>1. PICK type \in {"NEC", "SONY", "PANASONIC", "JVC", "JVCrepeat"},
           n \in Nat \ {0}, t \in Times :
        type = "NEC" /\ n = 32 /\ t = Timing[type]
  BY TimesAre
<1>2. /\ Len(Ticks(code, e, l)) = Pulsing(n, t)
      /\ t.hm # 0 => /\ Near(b[1], t.hm + e) /\ Near(b[2], t.hs - e)
                     /\ Pulsed(b, t, n, bits, e)
  <2>1. n <= MostOf(type)
    BY <1>1 DEF MostOf
  <2>2. RecordedAs(b, Ticks(code, e, l), t, n, bits, e)
    BY <1>1, <2>1, RecordingOfBits
  <2> QED BY <1>1, <2>2 DEF RecordedAs
<1>3. t.hm = 9000 /\ t.hs = 4500 /\ t.stop
  BY <1>1, TimesAre DEF Distance
<1>4. Pulsing(n, t) + 1 = 68
  BY <1>1, <1>3 DEF Pulsing, HeaderOf
<1>5. /\ Near(b[1], 9000 + e) /\ Near(b[2], 4500 - e)
      /\ Pulsed(b, Timing["NEC"], 32, bits, e)
  BY <1>1, <1>2, <1>3
<1>6. decode(b, 68) = Result("NEC", bits)
  BY <1>5, NECIsRead
<1>7. Expected(code) = Result("NEC", bits)
  BY DEF Expected
<1> QED BY <1>2, <1>4, <1>6, <1>7

\* Panasonic's,
LEMMA PanasonicDecoded ==
  ASSUME NEW code, code.type = "PANASONIC", NEW bits \in Bits(48), code.bits = bits,
         NEW e \in 0 .. 150, NEW l \in Nat, NEW b, Recording(b, Ticks(code, e, l))
  PROVE  decode(b, Len(Ticks(code, e, l)) + 1) = Expected(code)
<1>1. PICK type \in {"NEC", "SONY", "PANASONIC", "JVC", "JVCrepeat"},
           n \in Nat \ {0}, t \in Times :
        type = "PANASONIC" /\ n = 48 /\ t = Timing[type]
  BY TimesAre
<1>2. /\ Len(Ticks(code, e, l)) = Pulsing(n, t)
      /\ t.hm # 0 => /\ Near(b[1], t.hm + e) /\ Near(b[2], t.hs - e)
                     /\ Pulsed(b, t, n, bits, e)
  <2>1. n <= MostOf(type)
    BY <1>1 DEF MostOf
  <2>2. RecordedAs(b, Ticks(code, e, l), t, n, bits, e)
    BY <1>1, <2>1, RecordingOfBits
  <2> QED BY <1>1, <2>2 DEF RecordedAs
<1>3. t.hm = 3502 /\ t.hs = 1750 /\ t.stop
  BY <1>1, TimesAre DEF Distance
<1>4. Pulsing(n, t) + 1 = 100
  BY <1>1, <1>3 DEF Pulsing, HeaderOf
<1>5. /\ Near(b[1], 3502 + e) /\ Near(b[2], 1750 - e)
      /\ Pulsed(b, Timing["PANASONIC"], 48, bits, e)
  BY <1>1, <1>2, <1>3
<1>6. decode(b, 100) = Result("PANASONIC", bits)
  <2>1. b[0] \in Int /\ b[0] >= 800
    BY DEF Recording
  <2> QED BY <1>5, <2>1, PanasonicIsRead
<1>7. Expected(code) = Result("PANASONIC", bits)
  BY DEF Expected
<1> QED BY <1>2, <1>4, <1>6, <1>7

\* JVC's,
LEMMA JVCDecoded ==
  ASSUME NEW code, code.type = "JVC", NEW bits \in Bits(16), code.bits = bits,
         NEW e \in 0 .. 150, NEW l \in Nat, NEW b, Recording(b, Ticks(code, e, l))
  PROVE  decode(b, Len(Ticks(code, e, l)) + 1) = Expected(code)
<1>1. PICK type \in {"NEC", "SONY", "PANASONIC", "JVC", "JVCrepeat"},
           n \in Nat \ {0}, t \in Times :
        type = "JVC" /\ n = 16 /\ t = Timing[type]
  BY TimesAre
<1>2. /\ Len(Ticks(code, e, l)) = Pulsing(n, t)
      /\ t.hm # 0 => /\ Near(b[1], t.hm + e) /\ Near(b[2], t.hs - e)
                     /\ Pulsed(b, t, n, bits, e)
      /\ t.stop => Near(b[Pulsing(n, t)], t.m0 + e)
  <2>1. n <= MostOf(type)
    BY <1>1 DEF MostOf
  <2>2. RecordedAs(b, Ticks(code, e, l), t, n, bits, e)
    BY <1>1, <2>1, RecordingOfBits
  <2> QED BY <1>1, <2>2 DEF RecordedAs
<1>3. t.hm = 8000 /\ t.hs = 4000 /\ t.stop /\ t.m0 = 600
  BY <1>1, TimesAre DEF Distance
<1>4. Pulsing(n, t) = 35
  BY <1>1, <1>3 DEF Pulsing, HeaderOf
<1>5. /\ Near(b[1], 8000 + e) /\ Near(b[2], 4000 - e) /\ Near(b[35], 600 + e)
      /\ Pulsed(b, Timing["JVC"], 16, bits, e)
  BY <1>1, <1>2, <1>3, <1>4
<1>6. decode(b, 36) = Result("JVC", bits)
  <2>1. b[0] \in Int /\ b[0] >= 800
    BY DEF Recording
  <2> QED BY <1>5, <2>1, JVCIsRead
<1>7. Expected(code) = Result("JVC", bits)
  BY DEF Expected
<1> QED BY <1>2, <1>4, <1>6, <1>7

\* JVC's repeat,
LEMMA JVCRepeatDecoded ==
  ASSUME NEW code, code.type = "JVCrepeat", NEW bits \in Bits(16), code.bits = bits,
         NEW e \in 0 .. 150, NEW l \in Nat, NEW b, Recording(b, Ticks(code, e, l))
  PROVE  decode(b, Len(Ticks(code, e, l)) + 1) = Expected(code)
<1>1. PICK type \in {"NEC", "SONY", "PANASONIC", "JVC", "JVCrepeat"},
           n \in Nat \ {0}, t \in Times :
        type = "JVCrepeat" /\ n = 16 /\ t = Timing[type]
  BY TimesAre
<1>2. /\ Len(Ticks(code, e, l)) = Pulsing(n, t)
      /\ t.hm = 0 => /\ Near(b[1], MarkOf(t, bits[1]) + e)
                     /\ Near(b[2], SpaceOf(t, bits[1]) - e)
                     /\ n > 1 => Near(b[3], MarkOf(t, bits[2]) + e)
      /\ t.stop => Near(b[Pulsing(n, t)], t.m0 + e)
  <2>1. n <= MostOf(type)
    BY <1>1 DEF MostOf
  <2>2. RecordedAs(b, Ticks(code, e, l), t, n, bits, e)
    BY <1>1, <2>1, RecordingOfBits
  <2> QED BY <1>1, <2>2 DEF RecordedAs
<1>3. /\ t.hm = 0 /\ t.stop /\ t.m0 = 600 /\ t.m1 = 600 /\ t.s1 = 1600 /\ t.s0 = 550
  BY <1>1, TimesAre DEF Distance
<1>4. Pulsing(n, t) = 33
  BY <1>1, <1>3 DEF Pulsing, HeaderOf
<1>8. /\ MarkOf(t, bits[1]) = 600 /\ MarkOf(t, bits[2]) = 600
      /\ SpaceOf(t, bits[1]) = IF bits[1] = 1 THEN 1600 ELSE 550
  BY <1>3 DEF MarkOf, SpaceOf
<1>5. /\ Near(b[1], 600 + e) /\ Near(b[3], 600 + e) /\ Near(b[33], 600 + e)
      /\ Near(b[2], (IF bits[1] = 1 THEN 1600 ELSE 550) - e)
  BY <1>1, <1>2, <1>3, <1>4, <1>8
<1>6. decode(b, 34) = Repeat("JVC")
  <2>1. b[0] \in Int /\ b[0] >= 800
    BY DEF Recording
  <2> QED BY <1>5, <2>1, JVCRepeatIsRead
<1>7. Expected(code) = Repeat("JVC")
  BY DEF Expected
<1> QED BY <1>2, <1>4, <1>6, <1>7

\* Sony's,
LEMMA SonyDecoded ==
  ASSUME NEW code, code.type = "SONY", NEW m \in 12 .. 32, NEW bits \in Bits(m),
         code.bits = bits,
         NEW e \in 0 .. 150, NEW l \in Nat, NEW b, Recording(b, Ticks(code, e, l))
  PROVE  decode(b, Len(Ticks(code, e, l)) + 1) = Expected(code)
<1>1. PICK type \in {"NEC", "SONY", "PANASONIC", "JVC", "JVCrepeat"},
           n \in Nat \ {0}, t \in Times :
        type = "SONY" /\ n = m /\ t = Timing[type]
  BY TimesAre
<1>2. /\ Len(Ticks(code, e, l)) = Pulsing(n, t)
      /\ t.hm # 0 => /\ Near(b[1], t.hm + e) /\ Near(b[2], t.hs - e)
                     /\ Pulsed(b, t, n, bits, e)
  <2>1. n <= MostOf(type)
    BY <1>1 DEF MostOf
  <2>2. RecordedAs(b, Ticks(code, e, l), t, n, bits, e)
    BY <1>1, <2>1, RecordingOfBits
  <2> QED BY <1>1, <2>2 DEF RecordedAs
<1>3. t.hm = 2400 /\ t.hs = 600 /\ ~t.stop
  BY <1>1, TimesAre
<1>4. Pulsing(n, t) + 1 = 2 * m + 2
  BY <1>1, <1>3 DEF Pulsing, HeaderOf
<1>5. /\ Near(b[1], 2400 + e) /\ Near(b[2], 600 - e)
      /\ Pulsed(b, Timing["SONY"], m, bits, e)
  BY <1>1, <1>2, <1>3
<1>8. PICK k \in Nat : k = 2 * m + 2
  OBVIOUS
<1>6. decode(b, k) = Result("SONY", bits)
  <2>1. b[0] \in Int /\ b[0] >= 800
    BY DEF Recording
  <2>2. Near(b[1], 2400 + e) /\ Near(b[2], 600 - e)
    BY <1>5
  <2>3. Pulsed(b, Timing["SONY"], m, bits, e)
    BY <1>5
  <2>4. SonyRecording(b, m, bits, e)
    BY <2>1, <2>2, <2>3 DEF SonyRecording
  <2> QED BY <1>8, <2>4, SonyIsRead
<1>7. Expected(code) = Result("SONY", bits)
  BY DEF Expected
<1> QED BY <1>2, <1>4, <1>6, <1>7, <1>8

\* NEC's repeat,
LEMMA NECRepeatDecoded ==
  ASSUME NEW code, code.type = "NECrepeat",
         NEW e \in 0 .. 150, NEW l \in Nat, NEW b, Recording(b, Ticks(code, e, l))
  PROVE  decode(b, Len(Ticks(code, e, l)) + 1) = Expected(code)
<1>1. PICK N \in Nat, high \in Nat : N = 3 /\ high = 4500
  OBVIOUS
<1>2. Shaped(Sent(code), N, high) /\ Sent(code) = <<9000, 2250, 560>>
  BY <1>1, NECRepeatIsShaped
<1>3. PICK P : P = Ticks(code, e, l)
  OBVIOUS
<1>4. /\ Len(P) = N
      /\ \A k \in 1 .. N : Near(P[k], Sent(code)[k] + (IF k % 2 = 1 THEN e ELSE - e))
  <2>1. OnLineFor(P, N, high) /\ AllNear(P, Sent(code), N, e)
    <3>1. Shaped(Sent(code), N, high)
      BY <1>2
    <3>2. /\ OnLineFor(Ticks(code, e, l), N, high)
          /\ AllNear(Ticks(code, e, l), Sent(code), N, e)
      BY <3>1, ShapedOnAir
    <3> QED BY <1>3, <3>2
  <2> QED BY <2>1 DEF OnLineFor, AllNear
<1>5. \A k \in 1 .. N : Near(b[k], Sent(code)[k] + (IF k % 2 = 1 THEN e ELSE - e))
  BY <1>3, <1>4 DEF Recording
<1>6. Near(b[1], 9000 + e) /\ Near(b[2], 2250 - e) /\ Near(b[3], 560 + e)
  <2>1. PICK one \in 1 .. N, two \in 1 .. N, three \in 1 .. N :
          one = 1 /\ two = 2 /\ three = 3
    BY <1>1
  <2>2. Near(b[one], Sent(code)[one] + e) /\ Near(b[three], Sent(code)[three] + e)
    BY <1>5, <2>1
  <2>3. Near(b[two], Sent(code)[two] + (- e))
    BY <1>5, <2>1
  <2>4. Sent(code)[one] = 9000 /\ Sent(code)[two] = 2250 /\ Sent(code)[three] = 560
    BY <1>2, <2>1
  <2>5. 2250 + (- e) = 2250 - e
    OBVIOUS
  <2> QED BY <2>1, <2>2, <2>3, <2>4, <2>5
<1>7. decode(b, 4) = Repeat("NEC")
  BY <1>6, NECRepeatIsRead
<1>8. Expected(code) = Repeat("NEC")
  BY DEF Expected
<1> QED BY <1>1, <1>3, <1>4, <1>7, <1>8

\* RC5's,
LEMMA RC5Decoded ==
  ASSUME NEW code, code.type = "RC5", NEW n \in 11 .. 32, NEW bits \in Bits(n),
         code.bits = bits,
         NEW e \in 0 .. 150, NEW l \in Nat, NEW b, Recording(b, Ticks(code, e, l))
  PROVE  decode(b, Len(Ticks(code, e, l)) + 1) = Expected(code)
<1>1. PICK L, M, us, P : /\ L = RC5Levels(bits) /\ M = 3 + 2 * n
                         /\ us = Sent(code) /\ P = Ticks(code, e, l)
  OBVIOUS
<1>2. RC5Of(L, M, bits, n) /\ \E F, c : Beaten(Sent(code), L, M, F, c, 2, 889)
  BY ONLY <1>1, RC5IsSent, code.type = "RC5", code.bits = bits, n \in 11 .. 32, bits \in Bits(n)
<1>3. PICK F, c : Beaten(us, L, M, F, c, 2, 889)
  BY <1>1, <1>2
<1>4. PICK m \in Nat, t \in Nat, high \in Nat : m = 2 /\ t = 889 /\ high = 4500
  OBVIOUS
<1>5. PICK N : N = Shown(c)
  OBVIOUS
<1>6. UnitsOf(us, F, N, M, m, t)
  <2>1. Beaten(us, L, M, F, c, m, t)
    BY <1>3, <1>4
  <2> QED BY ONLY <1>5, <2>1, UnitsAreSent, m \in Nat, t \in Nat
<1>7. /\ N \in Nat
      /\ \A k \in 1 .. N : F[k + 1] - F[k] \in 1 .. 2 /\ us[k] = 889 * (F[k + 1] - F[k])
  BY ONLY <1>4, <1>6 DEF UnitsOf
<1>8. Shaped(us, N, high)
  <2>1. M <= 99
    BY <1>1
  <2> QED BY ONLY <1>3, <1>4, <1>5, <2>1, RC5IsShaped
<1>9. OnLineFor(P, N, high) /\ AllNear(P, us, N, e)
  <2>1. Shaped(Sent(code), N, high)
    BY <1>1, <1>8
  <2>2. /\ OnLineFor(Ticks(code, e, l), N, high)
        /\ AllNear(Ticks(code, e, l), Sent(code), N, e)
    <3>1. N \in Nat
      BY <1>7
    <3> QED BY <2>1, <3>1, ShapedOnAir, Zenon
  <2> QED BY <1>1, <2>2
<1>10. Len(P) = N
  BY <1>9 DEF OnLineFor
<1>11. ASSUME NEW k \in 1 .. N
       PROVE  Near(b[k], 889 * (F[k + 1] - F[k]) + (IF k % 2 = 1 THEN e ELSE - e))
  <2>1. Near(P[k], us[k] + (IF k % 2 = 1 THEN e ELSE - e))
    BY <1>9 DEF AllNear
  <2>2. b[k] = P[k]
    BY <1>1, <1>10 DEF Recording
  <2> QED BY ONLY <1>7, <2>1, <2>2, k \in 1 .. N
<1>12. Runs(L, M, F, c) /\ CodeRuns(L, M, F, c, 2)
  BY <1>3 DEF Beaten
<1>13. PICK from \in {1, 3} : from = 1
  OBVIOUS
<1>14. HeardFrom(b, from, F, c, t)
  <2>1. ASSUME NEW k \in 1 .. N
        PROVE  F[k + 1] - F[k] \in 1 .. 3 /\ Fits(b, from - 1 + k, t, F[k + 1] - F[k])
    <3>1. PICK u \in 1 .. 2 : u = F[k + 1] - F[k]
      BY <1>7
    <3>2. Near(b[k], 889 * u + (IF k % 2 = 1 THEN e ELSE - e))
      BY <1>11, <3>1
    <3>3. k \in Nat
      BY <1>7
    <3>4. Fits(b, k, 889, u)
      BY ONLY <3>2, <3>3, FitsRC5, e \in 0 .. 150, u \in 1 .. 2, SMTT(30)
    <3>5. from - 1 + k = k /\ u \in 1 .. 3
      BY <1>13, <3>3
    <3> QED BY ONLY <1>4, <3>1, <3>4, <3>5
  <2> QED BY ONLY <1>5, <2>1 DEF HeardFrom
<1>15. PICK r \in Nat, x \in {Levels(b, from + N, from, t)} :
         r = from + N /\ x = Levels(b, r, from, t)
  BY <1>7
<1>16. LevelsOf(x, L, M) /\ Len(x) = F[N + 1] - 1
  BY ONLY <1>5, <1>12, <1>14, <1>15, LevelsAreRuns, from \in {1, 3}, t \in Nat
<1>17. Len(x) \in {M - 1, M}
  BY <1>5, <1>12, <1>16 DEF CodeRuns
<1>18. r >= 13 /\ r = N + 1
  <2>1. M <= m * c
    BY ONLY <1>4, <1>12, RunsAreMany, m \in Nat DEF CodeRuns
  <2>2. c \in Nat /\ c >= 1
    BY <1>12 DEF Runs
  <2>3. (N = c \/ N = c - 1) /\ N % 2 = 1
    BY <1>5, <2>2, ShownIs
  <2> QED BY <1>1, <1>4, <1>13, <1>15, <2>1, <2>2, <2>3
<1>19. decodeRC5(b, r) = Result("RC5", bits)
  <2>1. x = Levels(b, r, 1, 889) /\ n \in Nat \ {0}
    BY <1>4, <1>13, <1>15
  <2> QED BY ONLY <1>2, <1>16, <1>17, <1>18, <2>1, RC5OfLevels, bits \in Bits(n), r \in Nat
<1>20. Near(b[1], 889 + e)
  <2>1. L[1] # L[2]
    BY <1>2 DEF RC5Of, Mark, Space
  <2>2. F[2] - F[1] = 1
    BY <1>12, <2>1, FirstRun
  <2>3. PICK k \in 1 .. N : k = 1
    BY <1>7, <1>18
  <2>4. Near(b[k], 889 * (F[k + 1] - F[k]) + e)
    BY <1>11, <2>3
  <2>5. F[k + 1] - F[k] = 1
    BY <2>2, <2>3
  <2>6. 889 * 1 + e = 889 + e
    OBVIOUS
  <2> QED BY <2>3, <2>4, <2>5, <2>6
<1>21. decode(b, r) = Result("RC5", bits)
  <2>1. b[0] \in Int /\ b[0] >= 800
    BY DEF Recording
  <2> QED BY ONLY <1>19, <1>20, <2>1, RC5IsRead, e \in 0 .. 150, r \in Nat
<1>22. Expected(code) = Result("RC5", bits)
  BY DEF Expected
<1> QED BY <1>1, <1>10, <1>18, <1>21, <1>22

\* and RC6's.
LEMMA RC6Decoded ==
  ASSUME NEW code, code.type = "RC6", NEW n \in 5 .. 32, NEW bits \in Bits(n),
         code.bits = bits,
         NEW e \in 0 .. 150, NEW l \in Nat, NEW b, Recording(b, Ticks(code, e, l))
  PROVE  decode(b, Len(Ticks(code, e, l)) + 1) = Expected(code)
<1>1. PICK L, M, all, P : /\ L = RC6Levels(bits) /\ M = 4 + 2 * n
                          /\ all = Sent(code) /\ P = Ticks(code, e, l)
  OBVIOUS
<1>2. /\ RC6Of(L, M, bits, n)
      /\ \E F, c, us : Beaten(us, L, M, F, c, 3, 444) /\ Sent(code) = Headed(us)
  BY ONLY <1>1, RC6IsSent, code.type = "RC6", code.bits = bits, n \in 5 .. 32, bits \in Bits(n)
<1>3. PICK F, c, us : Beaten(us, L, M, F, c, 3, 444) /\ all = Headed(us)
  BY <1>1, <1>2
<1>4. PICK m \in Nat, t \in Nat, high \in Nat : m = 3 /\ t = 444 /\ high = 4500
  OBVIOUS
<1>5. PICK N : N = Shown(c)
  OBVIOUS
<1>6. UnitsOf(us, F, N, M, m, t)
  <2>1. Beaten(us, L, M, F, c, m, t)
    BY <1>3, <1>4
  <2> QED BY ONLY <1>5, <2>1, UnitsAreSent, m \in Nat, t \in Nat
<1>7. /\ N \in Nat
      /\ \A k \in 1 .. N : F[k + 1] - F[k] \in 1 .. 3 /\ us[k] = 444 * (F[k + 1] - F[k])
  BY ONLY <1>4, <1>6 DEF UnitsOf
<1>8. /\ Shaped(all, 2 + N, high) /\ all[1] = 2666 /\ all[2] = 889
      /\ \A k \in 1 .. N : all[2 + k] = us[k]
  <2>1. M <= 97
    BY <1>1
  <2> QED BY ONLY <1>3, <1>4, <1>5, <2>1, RC6IsShaped
<1>9. OnLineFor(P, 2 + N, high) /\ AllNear(P, all, 2 + N, e)
  <2>1. Shaped(Sent(code), 2 + N, high) /\ 2 + N \in Nat
    BY <1>1, <1>7, <1>8
  <2>2. /\ OnLineFor(Ticks(code, e, l), 2 + N, high)
        /\ AllNear(Ticks(code, e, l), Sent(code), 2 + N, e)
    BY <2>1, ShapedOnAir, Zenon
  <2> QED BY <1>1, <2>2
<1>10. Len(P) = 2 + N
  BY <1>9 DEF OnLineFor
<1>11. ASSUME NEW k \in 1 .. 2 + N
       PROVE  Near(b[k], all[k] + (IF k % 2 = 1 THEN e ELSE - e))
  <2>1. Near(P[k], all[k] + (IF k % 2 = 1 THEN e ELSE - e))
    BY <1>9 DEF AllNear
  <2>2. b[k] = P[k]
    BY <1>1, <1>10 DEF Recording
  <2> QED BY ONLY <2>1, <2>2
<1>12. Runs(L, M, F, c) /\ CodeRuns(L, M, F, c, 3)
  BY <1>3 DEF Beaten
<1>13. PICK from \in {1, 3} : from = 3
  OBVIOUS
<1>14. HeardFrom(b, from, F, c, t)
  <2>1. ASSUME NEW k \in 1 .. N
        PROVE  F[k + 1] - F[k] \in 1 .. 3 /\ Fits(b, from - 1 + k, t, F[k + 1] - F[k])
    <3>1. PICK u \in 1 .. 3 : u = F[k + 1] - F[k] /\ us[k] = 444 * u
      BY <1>7
    <3>2. PICK j \in 1 .. 2 + N : j = 2 + k /\ j \in Nat
      BY <1>7
    <3>3. all[j] = 444 * u
      BY ONLY <1>8, <3>1, <3>2, k \in 1 .. N
    <3>4. Near(b[j], 444 * u + (IF j % 2 = 1 THEN e ELSE - e))
      BY ONLY <1>11, <3>2, <3>3
    <3>5. Fits(b, j, 444, u)
      <4>1. j \in Nat
        BY ONLY <3>2
      <4> QED BY ONLY <3>4, <4>1, FitsRC6, e \in 0 .. 150, u \in 1 .. 3, SMTT(30)
    <3>6. from - 1 + k = j
      BY <1>7, <1>13, <3>2
    <3> QED BY ONLY <1>4, <3>1, <3>5, <3>6
  <2> QED BY ONLY <1>5, <2>1 DEF HeardFrom
<1>15. PICK r \in Nat, x \in {Levels(b, from + N, from, t)} :
         r = from + N /\ x = Levels(b, r, from, t)
  BY <1>7
<1>16. LevelsOf(x, L, M) /\ Len(x) = F[N + 1] - 1
  BY ONLY <1>5, <1>12, <1>14, <1>15, LevelsAreRuns, from \in {1, 3}, t \in Nat
<1>17. Len(x) \in {M - 1, M}
  BY <1>5, <1>12, <1>16 DEF CodeRuns
<1>18. r >= 1 /\ r = 2 + N + 1
  BY <1>7, <1>13, <1>15
<1>19. Near(b[1], 2666 + e) /\ Near(b[2], 889 - e)
  <2>1. PICK j \in 1 .. 2 + N, k \in 1 .. 2 + N : j = 1 /\ k = 2
    BY <1>7
  <2>2. Near(b[j], all[j] + e)
    BY <1>11, <2>1
  <2>3. Near(b[k], all[k] + (- e))
    BY <1>11, <2>1
  <2>4. 889 + (- e) = 889 - e
    OBVIOUS
  <2> QED BY <1>8, <2>1, <2>2, <2>3, <2>4
<1>20. MatchMark(b[1], 2666) /\ MatchSpace(b[2], 889)
  BY ONLY <1>19, e \in 0 .. 150 DEF Near, MatchMark, MatchSpace, Match
<1>21. decodeRC6(b, r) = Result("RC6", bits)
  <2>1. x = Levels(b, r, 3, 444) /\ n \in Nat /\ n >= 5
    BY <1>4, <1>13, <1>15
  <2> QED BY ONLY <1>2, <1>16, <1>17, <1>18, <1>20, <2>1, RC6OfLevels, bits \in Bits(n), r \in Nat
<1>22. decode(b, r) = Result("RC6", bits)
  <2>1. b[0] \in Int /\ b[0] >= 800
    BY DEF Recording
  <2> QED BY ONLY <1>19, <1>21, <2>1, RC6IsRead, e \in 0 .. 150, r \in Nat
<1>23. Expected(code) = Result("RC6", bits)
  BY DEF Expected
<1> QED BY <1>1, <1>10, <1>18, <1>22, <1>23

\* decode() returns what was sent, for each code it has a decoder for.
LEMMA ReadIsDecoded ==
  ASSUME NEW code \in Read, NEW e \in 0 .. 150, NEW l \in Nat, NEW b,
         Recording(b, Ticks(code, e, l))
  PROVE  decode(b, Len(Ticks(code, e, l)) + 1) = Expected(code)
<1>1. CASE code \in Coded("NEC", 32)
  BY <1>1, CodedIs, NECDecoded
<1>2. CASE code \in Coded("PANASONIC", 48)
  BY <1>2, CodedIs, PanasonicDecoded, SMTT(30)
<1>3. CASE code \in Coded("JVC", 16)
  BY <1>3, CodedIs, JVCDecoded
<1>4. CASE code \in Coded("JVCrepeat", 16)
  BY <1>4, CodedIs, JVCRepeatDecoded
<1>5. CASE code \in Sonys
  <2>1. PICK n \in 12 .. 32 : code \in Coded("SONY", n)
    BY <1>5 DEF Sonys
  <2>2. code.type = "SONY" /\ code.bits \in Bits(n)
    BY <2>1, CodedIs
  <2>3. PICK bits \in Bits(n) : code.bits = bits
    BY <2>2
  <2> QED BY <2>2, <2>3, SonyDecoded
<1>6. CASE code = NECAgain
  BY <1>6, NECRepeatDecoded DEF NECAgain
<1>7. CASE code \in RC5s
  <2>1. PICK n \in 11 .. 32 : code \in Coded("RC5", n)
    BY <1>7 DEF RC5s
  <2>2. code.type = "RC5" /\ code.bits \in Bits(n)
    BY <2>1, CodedIs
  <2>3. PICK bits \in Bits(n) : code.bits = bits
    BY <2>2
  <2> QED BY <2>2, <2>3, RC5Decoded
<1>8. CASE code \in RC6s
  <2>1. PICK n \in 5 .. 32 : code \in Coded("RC6", n)
    BY <1>8 DEF RC6s
  <2>2. code.type = "RC6" /\ code.bits \in Bits(n)
    BY <2>1, CodedIs
  <2>3. PICK bits \in Bits(n) : code.bits = bits
    BY <2>2
  <2> QED BY <2>2, <2>3, RC6Decoded
<1> QED BY <1>1, <1>2, <1>3, <1>4, <1>5, <1>6, <1>7, <1>8, Zenon DEF Read

DecodedTypes == {"NEC", "PANASONIC", "JVC", "JVCrepeat", "SONY", "RC5", "RC6", "NECrepeat"}

\* The codes that are read are of the protocols that have a decoder.
LEMMA ReadTypes ==
  ASSUME NEW code \in Read
  PROVE  code.type \in DecodedTypes
<1> USE DEF DecodedTypes
<1>1. CASE code \in Sonys
  <2>1. PICK n \in 12 .. 32 : code \in Coded("SONY", n)
    BY <1>1 DEF Sonys
  <2> QED BY <2>1, CodedIs
<1>2. CASE code = NECAgain
  BY <1>2 DEF NECAgain
<1>3. ASSUME NEW type \in {"NEC", "PANASONIC", "JVC", "JVCrepeat"}, NEW n,
             code \in Coded(type, n)
      PROVE  code.type \in DecodedTypes
  <2>1. code.type = type
    BY <1>3, CodedIs
  <2> QED BY <2>1
<1>4. CASE code \in RC5s
  <2>1. PICK n \in 11 .. 32 : code \in Coded("RC5", n)
    BY <1>4 DEF RC5s
  <2> QED BY <2>1, CodedIs
<1>5. CASE code \in RC6s
  <2>1. PICK n \in 5 .. 32 : code \in Coded("RC6", n)
    BY <1>5 DEF RC6s
  <2> QED BY <2>1, CodedIs
<1> QED BY <1>1, <1>2, <1>3, <1>4, <1>5, Zenon DEF Read

\* Every code fits the buffer; a space of those that are read is no gap.
HighestOf(code) == IF code \in Read THEN 4500 ELSE 6100

Fitting(code) == \E N \in Nat : Shaped(Sent(code), N, HighestOf(code))

\* Whatever is sent fits, also codes that nothing decodes.
LEMMA CodesAreShaped ==
  ASSUME NEW code \in Read \cup Unread
  PROVE  Fitting(code)
<1>1. ASSUME NEW type \in {"NEC", "SONY", "PANASONIC", "JVC", "JVCrepeat", "SHARP", "DISH"},
             NEW n \in Nat \ {0}, n <= MostOf(type),
             code.type = type, code.bits \in Bits(n),
             type = "DISH" => code \notin Read
      PROVE  Fitting(code)
  <2>1. PICK N : N = Pulsing(n, Timing[type])
    OBVIOUS
  <2>2. Shaped(Sent(code), N, HighOf(type))
    BY <1>1, <2>1, BitsAreShaped
  <2>3. HighOf(type) <= HighestOf(code) /\ HighOf(type) \in Nat /\ HighestOf(code) \in Nat
    BY <1>1 DEF HighOf, HighestOf
  <2>9. PICK us : us = Sent(code)
    OBVIOUS
  <2>4. PICK low \in Nat, high \in Nat :
          low = HighOf(type) /\ high = HighestOf(code)
    BY <2>3
  <2>5. Shaped(us, N, low) /\ low <= high
    BY <2>2, <2>3, <2>4, <2>9
  <2>6. /\ us \in Seq(Nat) /\ Len(us) = N /\ N \in Nat /\ N % 2 = 1 /\ N <= 99
        /\ \A k \in 1 .. N : us[k] \in PulseTimes /\ (k % 2 = 0 => us[k] <= low)
    BY <2>5 DEF Shaped
  <2>7. \A k \in 1 .. N : us[k] \in PulseTimes /\ (k % 2 = 0 => us[k] <= high)
    <3>1. \A k \in 1 .. N : us[k] \in Nat
      BY <2>6
    <3> QED BY <2>5, <2>6, <3>1
  <2>8. Shaped(us, N, high)
    BY <2>6, <2>7 DEF Shaped
  <2> QED BY <2>4, <2>6, <2>8, <2>9 DEF Fitting
<1>2. CASE code \in Coded("NEC", 32)
  <2>1. code.type = "NEC" /\ code.bits \in Bits(32)
    BY <1>2, CodedIs
  <2>2. 32 \in Nat \ {0} /\ 32 <= MostOf("NEC")
    BY DEF MostOf
  <2> QED BY <1>1, <2>1, <2>2
<1>3. CASE code \in Coded("PANASONIC", 48)
  <2>1. code.type = "PANASONIC" /\ code.bits \in Bits(48)
    BY <1>3, CodedIs
  <2>2. 48 \in Nat \ {0} /\ 48 <= MostOf("PANASONIC")
    BY DEF MostOf
  <2> QED BY <1>1, <2>1, <2>2
<1>4. CASE code \in Coded("JVC", 16)
  <2>1. code.type = "JVC" /\ code.bits \in Bits(16)
    BY <1>4, CodedIs
  <2>2. 16 \in Nat \ {0} /\ 16 <= MostOf("JVC")
    BY DEF MostOf
  <2> QED BY <1>1, <2>1, <2>2
<1>5. CASE code \in Coded("JVCrepeat", 16)
  <2>1. code.type = "JVCrepeat" /\ code.bits \in Bits(16)
    BY <1>5, CodedIs
  <2>2. 16 \in Nat \ {0} /\ 16 <= MostOf("JVCrepeat")
    BY DEF MostOf
  <2> QED BY <1>1, <2>1, <2>2
<1>6. CASE code \in Sonys
  <2>1. PICK n \in 12 .. 32 : code \in Coded("SONY", n)
    BY <1>6 DEF Sonys
  <2>2. code.type = "SONY" /\ code.bits \in Bits(n)
    BY <2>1, CodedIs
  <2>3. n \in Nat \ {0} /\ n <= MostOf("SONY")
    BY DEF MostOf
  <2> QED BY <1>1, <2>2, <2>3
<1>7. CASE code = NECAgain
  <2>1. code \in Read
    BY <1>7, Zenon DEF Read
  <2> QED BY <1>7, <2>1, NECRepeatIsShaped DEF HighestOf, Fitting, NECAgain
<1>9. CASE code \in RC5s
  <2>1. PICK n \in 11 .. 32 : code \in Coded("RC5", n)
    BY <1>9 DEF RC5s
  <2>2. code.type = "RC5" /\ code.bits \in Bits(n)
    BY <2>1, CodedIs
  <2>3. PICK bits \in Bits(n), L \in {RC5Levels(code.bits)}, M \in Nat :
          code.bits = bits /\ L = RC5Levels(bits) /\ M = 3 + 2 * n
    BY <2>2
  <2>4. PICK F, c : Beaten(Sent(code), L, M, F, c, 2, 889)
    BY <2>2, <2>3, RC5IsSent
  <2>5. M <= 99
    BY <2>3
  <2>6. PICK N : N = Shown(c)
    OBVIOUS
  <2>7. Shaped(Sent(code), N, 4500)
    BY ONLY <2>4, <2>5, <2>6, RC5IsShaped
  <2>8. code \in Read
    BY <1>9, Zenon DEF Read
  <2>9. N \in Nat
    BY <2>7 DEF Shaped
  <2> QED BY <2>7, <2>8, <2>9 DEF HighestOf, Fitting
<1>10. CASE code \in RC6s
  <2>1. PICK n \in 5 .. 32 : code \in Coded("RC6", n)
    BY <1>10 DEF RC6s
  <2>2. code.type = "RC6" /\ code.bits \in Bits(n)
    BY <2>1, CodedIs
  <2>3. PICK bits \in Bits(n), L \in {RC6Levels(code.bits)}, M \in Nat :
          code.bits = bits /\ L = RC6Levels(bits) /\ M = 4 + 2 * n
    BY <2>2
  <2>4. PICK F, c, us : Beaten(us, L, M, F, c, 3, 444) /\ Sent(code) = Headed(us)
    BY <2>2, <2>3, RC6IsSent
  <2>5. M <= 97
    BY <2>3
  <2>6. PICK N : N = 2 + Shown(c)
    OBVIOUS
  <2>7. Shaped(Sent(code), N, 4500)
    BY ONLY <2>4, <2>5, <2>6, RC6IsShaped
  <2>8. code \in Read
    BY <1>10, Zenon DEF Read
  <2>9. N \in Nat
    BY <2>7 DEF Shaped
  <2> QED BY <2>7, <2>8, <2>9 DEF HighestOf, Fitting
<1>8. CASE code \in Unread
  <2>1. PICK n \in 1 .. 32 : code \in Coded("SHARP", n) \cup Coded("DISH", n)
    BY <1>8 DEF Unread
  <2>2. PICK type \in {"SHARP", "DISH"} : code \in Coded(type, n)
    BY <2>1
  <2>3. code.type = type /\ code.bits \in Bits(n)
    BY <2>2, CodedIs
  <2>4. n \in Nat \ {0} /\ n <= MostOf(type)
    BY DEF MostOf
  <2>5. code \notin Read
    BY <2>3, ReadTypes DEF DecodedTypes
  <2> QED BY <1>1, <2>3, <2>4, <2>5
<1> QED BY <1>2, <1>3, <1>4, <1>5, <1>6, <1>7, <1>8, <1>9, <1>10, Zenon DEF Read

-----------------------------------------------------------------------------
(* The interrupt handler: one tick, and the ticks of a level.              *)

\* What the assumptions say of the constants.
Remotes ==
    /\ Codes \subseteq Read \cup Unread
    /\ Excess \subseteq 0 .. 150 /\ Late \subseteq Nat
    /\ Gaps \subseteq Nat /\ Cuts \subseteq Nat /\ RawBuf = 100

\* Every code that is sent is one that is read or one that nothing decodes.
LEMMA RemotesHold == Remotes
<1>1. ASSUME NEW code, NEW type, NEW lengths, IsCode(code, type, lengths)
      PROVE  \E n \in lengths : code \in Coded(type, n)
  BY <1>1, Zenon DEF IsCode, Coded, Bits
<1>2. ASSUME NEW code \in Codes
      PROVE  code \in Read \cup Unread
  <2>1. CASE IsCode(code, "SONY", 12 .. 32)
    <3>1. PICK n \in 12 .. 32 : code \in Coded("SONY", n)
      BY <1>1, <2>1
    <3> QED BY <3>1 DEF Read, Sonys
  <2>2. CASE IsCode(code, "RC5", 11 .. 32)
    <3>1. PICK n \in 11 .. 32 : code \in Coded("RC5", n)
      BY <1>1, <2>2
    <3> QED BY <3>1 DEF Read, RC5s
  <2>3. CASE IsCode(code, "RC6", 5 .. 32)
    <3>1. PICK n \in 5 .. 32 : code \in Coded("RC6", n)
      BY <1>1, <2>3
    <3> QED BY <3>1 DEF Read, RC6s
  <2>4. CASE IsCode(code, "SHARP", 1 .. 32)
    <3>1. PICK n \in 1 .. 32 : code \in Coded("SHARP", n)
      BY <1>1, <2>4
    <3> QED BY <3>1 DEF Unread
  <2>5. CASE IsCode(code, "DISH", 1 .. 32)
    <3>1. PICK n \in 1 .. 32 : code \in Coded("DISH", n)
      BY <1>1, <2>5
    <3> QED BY <3>1 DEF Unread
  <2>6. ASSUME NEW type, NEW k, IsCode(code, type, {k})
        PROVE  code \in Coded(type, k)
    BY <1>1, <2>6
  <2>7. CASE IsCode(code, "NEC", {32})
    BY <2>6, <2>7, Zenon DEF Read
  <2>8. CASE IsCode(code, "PANASONIC", {48})
    BY <2>6, <2>8, Zenon DEF Read
  <2>9. CASE IsCode(code, "JVC", {16})
    BY <2>6, <2>9, Zenon DEF Read
  <2>10. CASE IsCode(code, "JVCrepeat", {16})
    BY <2>6, <2>10, Zenon DEF Read
  <2>11. CASE code = [type |-> "NECrepeat", bits |-> <<>>]
    BY <2>11, Zenon DEF Read, NECAgain
  <2> QED BY <1>2, <2>1, <2>2, <2>3, <2>4, <2>5, <2>7, <2>8, <2>9, <2>10, <2>11,
             CodesAssumption, Zenon
<1> QED BY <1>2, DetectorAssumption, GapsAssumption, RawBufAssumption DEF Remotes

PulsesOf(c) == OnAir[c][excess][late]

\* What is on the air is what was sent, in ticks.
LEMMA PulsesAreTicks ==
  ASSUME Remotes, NEW c \in Codes, excess \in Excess, late \in Late
  PROVE  /\ PulsesOf(c) = Ticks(c, excess, late)
         /\ \E N \in Nat : OnLineFor(PulsesOf(c), N, HighestOf(c))
<1>1. PulsesOf(c) = Ticks(c, excess, late)
  BY DEF PulsesOf, OnAir
<1>2. c \in Read \cup Unread /\ excess \in 0 .. 150 /\ late \in Nat
  BY DEF Remotes
<1>3. PICK N \in Nat : Shaped(Sent(c), N, HighestOf(c))
  BY <1>2, CodesAreShaped DEF Fitting
<1>4. HighestOf(c) \in Nat
  BY DEF HighestOf
<1>5. OnLineFor(Ticks(c, excess, late), N, HighestOf(c))
  BY <1>2, <1>3, <1>4, ShapedOnAir
<1> QED BY <1>1, <1>5

States == {"idle", "mark", "space", "stop"}
Word == {t \in Int : t >= 0 /\ t < 65536}
Buffer == [0 .. (RawBuf - 1) -> Word]
Receivers == [timer : Word, rcvstate : States, rawbuf : Buffer, rawlen : 0 .. RawBuf]

\* The tick counter is a word; it does not wrap within a code.
LEMMA LaterIs ==
  ASSUME NEW t \in Word, NEW n \in Int
  PROVE  /\ Later(t, n) \in Word
         /\ n >= 0 /\ t + n < 65536 => Later(t, n) = t + n
BY DEF Later, Word

\* The handler, by the state it is in and the level it reads.
LEMMA TickIs ==
  ASSUME RawBuf \in Nat \ {0}, NEW r \in Receivers, NEW level \in {Mark, Space},
         NEW q, q = Tick(r, level), NEW t, t = Later(r.timer, 1)
  PROVE  /\ q \in Receivers /\ (r.rcvstate # "idle" => q.rcvstate # "idle")
         /\ r.rawlen = RawBuf \/ r.rcvstate = "stop" =>
              q.rcvstate = "stop" /\ q.rawbuf = r.rawbuf /\ q.rawlen = r.rawlen
         /\ r.rawlen < RawBuf /\ r.rcvstate = "idle" =>
              \/ q.rcvstate = "idle" /\ q.rawlen = r.rawlen
              \/ level = Mark /\ q.rcvstate = "mark" /\ q.rawlen = 1 /\ q.timer = 0
         /\ r.rawlen < RawBuf /\ r.rcvstate = "mark" /\ level = Space =>
              /\ q.rcvstate = "space" /\ q.rawlen = r.rawlen + 1 /\ q.timer = 0
              /\ q.rawbuf = [r.rawbuf EXCEPT ![r.rawlen] = t]
         /\ r.rawlen < RawBuf /\ r.rcvstate = "space" /\ level = Mark =>
              /\ q.rcvstate = "mark" /\ q.rawlen = r.rawlen + 1 /\ q.timer = 0
              /\ q.rawbuf = [r.rawbuf EXCEPT ![r.rawlen] = t]
         /\ r.rcvstate = "space" /\ level = Space =>
              /\ q.rcvstate \in {"space", "stop"}
              /\ q.rawbuf = r.rawbuf /\ q.rawlen = r.rawlen
<1> DEFINE u == Stopped([r EXCEPT !.timer = Later(r.timer, 1)])
<1>1. t \in Word /\ t = Later(r.timer, 1)
  BY LaterIs DEF Receivers
<1>2. /\ u \in Receivers /\ u.timer = t /\ u.rawbuf = r.rawbuf /\ u.rawlen = r.rawlen
      /\ u.rcvstate = IF r.rawlen = RawBuf THEN "stop" ELSE r.rcvstate
  <2>1. PICK w : w = [r EXCEPT !.timer = t]
    OBVIOUS
  <2>2. /\ w \in Receivers /\ w.timer = t /\ w.rawbuf = r.rawbuf /\ w.rawlen = r.rawlen
        /\ w.rcvstate = r.rcvstate /\ w.rawlen \in 0 .. RawBuf
    BY <1>1, <2>1 DEF Receivers
  <2>3. u = IF w.rawlen >= RawBuf THEN [w EXCEPT !.rcvstate = "stop"] ELSE w
    BY <1>1, <2>1 DEF Stopped
  <2>4. r.rawlen = RawBuf <=> w.rawlen >= RawBuf
    BY <2>2
  <2> HIDE DEF u
  <2>5. CASE w.rawlen >= RawBuf
    <3>1. u = [w EXCEPT !.rcvstate = "stop"]
      BY <2>3, <2>5
    <3> QED BY <2>2, <2>4, <2>5, <3>1 DEF Receivers, States
  <2>6. CASE ~(w.rawlen >= RawBuf)
    <3>1. u = w
      BY <2>3, <2>6
    <3> QED BY <2>2, <2>4, <2>6, <3>1
  <2> QED BY <2>5, <2>6
<1>3. q = CASE u.rcvstate = "idle" /\ level = Mark ->
                 IF u.timer < GapTicks THEN [u EXCEPT !.timer = 0]
                                       ELSE Record([u EXCEPT !.rawlen = 0], "mark")
          [] u.rcvstate = "mark" /\ level = Space -> Record(u, "space")
          [] u.rcvstate = "space" /\ level = Mark -> Record(u, "mark")
          [] u.rcvstate = "space" /\ level = Space /\ u.timer > GapTicks ->
                 [u EXCEPT !.rcvstate = "stop"]
          [] u.rcvstate = "stop" /\ level = Mark -> [u EXCEPT !.timer = 0]
          [] OTHER -> u
  BY DEF Tick
<1> HIDE DEF u
<1>4. Mark # Space
  BY DEF Mark, Space
<1>5. r.rawlen \in 0 .. RawBuf /\ r.rcvstate \in States /\ r.rawbuf \in Buffer
  BY DEF Receivers
<1>6. CASE u.rcvstate = "idle" /\ level = Mark /\ u.timer < GapTicks
  <2>1. q = [u EXCEPT !.timer = 0]
    BY <1>3, <1>6
  <2> QED BY <1>2, <1>4, <1>5, <1>6, <2>1 DEF Word, Receivers
<1>7. CASE u.rcvstate = "idle" /\ level = Mark /\ ~(u.timer < GapTicks)
  <2>1. q = Record([u EXCEPT !.rawlen = 0], "mark")
    BY <1>3, <1>7
  <2>2. /\ q.rcvstate = "mark" /\ q.rawlen = 1 /\ q.timer = 0 /\ q \in Receivers
    BY <1>2, <1>5, <2>1 DEF Word, Receivers, Record, States, Buffer
  <2> QED BY <1>2, <1>4, <1>5, <1>7, <2>2
<1>8. CASE u.rcvstate = "mark" /\ level = Space
  <2>1. q = Record(u, "space")
    BY <1>3, <1>4, <1>8
  <2>2. r.rawlen \in 0 .. (RawBuf - 1)
    BY <1>2, <1>5, <1>8
  <2>3. /\ q.rcvstate = "space" /\ q.rawlen = r.rawlen + 1 /\ q.timer = 0
        /\ q.rawbuf = [r.rawbuf EXCEPT ![r.rawlen] = t] /\ q \in Receivers
    BY <1>1, <1>2, <1>5, <2>1, <2>2 DEF Word, Receivers, Record, States, Buffer
  <2> QED BY <1>2, <1>4, <1>5, <1>8, <2>2, <2>3
<1>9. CASE u.rcvstate = "space" /\ level = Mark
  <2>1. q = Record(u, "mark")
    BY <1>3, <1>4, <1>9
  <2>2. r.rawlen \in 0 .. (RawBuf - 1)
    BY <1>2, <1>5, <1>9
  <2>3. /\ q.rcvstate = "mark" /\ q.rawlen = r.rawlen + 1 /\ q.timer = 0
        /\ q.rawbuf = [r.rawbuf EXCEPT ![r.rawlen] = t] /\ q \in Receivers
    BY <1>1, <1>2, <1>5, <2>1, <2>2 DEF Word, Receivers, Record, States, Buffer
  <2> QED BY <1>2, <1>4, <1>5, <1>9, <2>2, <2>3
<1>10. CASE u.rcvstate = "space" /\ level = Space /\ u.timer > GapTicks
  <2>1. q = [u EXCEPT !.rcvstate = "stop"]
    BY <1>3, <1>4, <1>10
  <2> QED BY <1>2, <1>4, <1>5, <1>10, <2>1 DEF Receivers, States
<1>11. CASE u.rcvstate = "stop" /\ level = Mark
  <2>1. q = [u EXCEPT !.timer = 0]
    BY <1>3, <1>4, <1>11
  <2> QED BY <1>2, <1>4, <1>5, <1>11, <2>1 DEF Word, Receivers, States
<1>12. CASE /\ ~(u.rcvstate = "idle" /\ level = Mark)
            /\ ~(u.rcvstate = "mark" /\ level = Space)
            /\ ~(u.rcvstate = "space" /\ level = Mark)
            /\ ~(u.rcvstate = "space" /\ level = Space /\ u.timer > GapTicks)
            /\ ~(u.rcvstate = "stop" /\ level = Mark)
  <2>1. q = u
    BY <1>3, <1>12
  <2> QED BY <1>2, <1>4, <1>5, <1>12, <2>1
<1> QED BY <1>6, <1>7, <1>8, <1>9, <1>10, <1>11, <1>12

\* The ticks of a level the line is already in.
RunOf(r, n, q, t) ==
    /\ q \in Receivers /\ q.rawbuf = r.rawbuf /\ q.rawlen = r.rawlen
    /\ q.rcvstate \in {r.rcvstate, "stop"}
    /\ r.rawlen < RawBuf /\ r.rcvstate \in {"idle", "mark"} => q.rcvstate = r.rcvstate
    /\ r.rawlen < RawBuf /\ r.rcvstate = "mark" => q.timer = t
    /\ r.rawlen < RawBuf /\ r.rcvstate = "space" /\ t <= GapTicks =>
         q.rcvstate = "space" /\ q.timer = t
    /\ n > 0 /\ r.rcvstate = "space" /\ (r.rawlen = RawBuf \/ t > GapTicks) =>
         q.rcvstate = "stop"

\* They change the state at the end of a space, and never the buffer.
LEMMA RunIs ==
  ASSUME RawBuf \in Nat \ {0}, NEW r \in Receivers, NEW level \in {Mark, Space}, NEW n \in Int,
         NEW q, q = Run(r, level, n), NEW t, t = Later(r.timer, n)
  PROVE  RunOf(r, n, q, t)
<1> USE DEF RunOf
<1> DEFINE u == Stopped([r EXCEPT !.timer = Later(r.timer, n)])
<1>1. t \in Word /\ t = Later(r.timer, n) /\ (n = 0 => t = r.timer)
  BY LaterIs DEF Word, Receivers
<1>2. /\ u \in Receivers /\ u.timer = t /\ u.rawbuf = r.rawbuf /\ u.rawlen = r.rawlen
      /\ u.rcvstate = IF r.rawlen = RawBuf THEN "stop" ELSE r.rcvstate
  <2>1. PICK w : w = [r EXCEPT !.timer = t]
    OBVIOUS
  <2>2. /\ w \in Receivers /\ w.timer = t /\ w.rawbuf = r.rawbuf /\ w.rawlen = r.rawlen
        /\ w.rcvstate = r.rcvstate /\ w.rawlen \in 0 .. RawBuf
    BY <1>1, <2>1 DEF Receivers
  <2>3. u = IF w.rawlen >= RawBuf THEN [w EXCEPT !.rcvstate = "stop"] ELSE w
    BY <1>1, <2>1 DEF Stopped
  <2>4. r.rawlen = RawBuf <=> w.rawlen >= RawBuf
    BY <2>2
  <2> HIDE DEF u
  <2>5. CASE w.rawlen >= RawBuf
    <3>1. u = [w EXCEPT !.rcvstate = "stop"]
      BY <2>3, <2>5
    <3> QED BY <2>2, <2>4, <2>5, <3>1 DEF Receivers, States
  <2>6. CASE ~(w.rawlen >= RawBuf)
    <3>1. u = w
      BY <2>3, <2>6
    <3> QED BY <2>2, <2>4, <2>6, <3>1
  <2> QED BY <2>5, <2>6
<1>3. q = CASE n = 0 -> r
          [] n > 0 /\ u.rcvstate \in {"idle", "stop"} /\ level = Mark ->
                 [u EXCEPT !.timer = 0]
          [] n > 0 /\ u.rcvstate = "space" /\ u.timer > GapTicks ->
                 [u EXCEPT !.rcvstate = "stop"]
          [] OTHER -> u
  BY DEF Run
<1> HIDE DEF u
<1>5. r.rawlen \in 0 .. RawBuf /\ r.rcvstate \in States /\ r.rawbuf \in Buffer
      /\ r.timer \in Word
  BY DEF Receivers
<1>6. CASE n = 0
  <2>1. q = r
    BY <1>3, <1>6
  <2> QED BY <1>1, <1>5, <1>6, <2>1
<1>7. CASE n > 0 /\ u.rcvstate \in {"idle", "stop"} /\ level = Mark
  <2>1. q = [u EXCEPT !.timer = 0]
    BY <1>3, <1>7
  <2> QED BY <1>2, <1>5, <1>7, <2>1 DEF Word, Receivers
<1>8. CASE n > 0 /\ u.rcvstate = "space" /\ u.timer > GapTicks
  <2>1. q = [u EXCEPT !.rcvstate = "stop"]
    BY <1>3, <1>8
  <2> QED BY <1>1, <1>2, <1>5, <1>8, <2>1 DEF Word, Receivers, States, GapTicks
<1>9. CASE /\ n # 0
           /\ ~(n > 0 /\ u.rcvstate \in {"idle", "stop"} /\ level = Mark)
           /\ ~(n > 0 /\ u.rcvstate = "space" /\ u.timer > GapTicks)
  <2>1. q = u
    BY <1>3, <1>9
  <2> QED BY <1>1, <1>2, <1>5, <1>9, <2>1 DEF GapTicks
<1> QED BY <1>6, <1>7, <1>8, <1>9

-----------------------------------------------------------------------------
(* The inductive invariant.                                                *)

Types ==
    /\ last \in [code : Codes \cup {NoCode}, gap : Nat, upTo : Int]
    /\ last.upTo >= 0 =>
         last.code \in Codes /\ last.upTo <= Len(PulsesOf(last.code))
    /\ place \in Nat /\ passed \in {0, 1} /\ excess \in Excess /\ late \in Late
    /\ Receiver \in Receivers /\ whole \in BOOLEAN

\* What the sketch may find.
Sketch ==
    /\ pc \in {"idle", "resume", "half", "late"}
    /\ pc = "resume" => rcvstate = "stop" /\ result = decode(rawbuf, rawlen)
    /\ pc = "half" => rcvstate = "idle"
    /\ pc = "idle" /\ rcvstate = "idle" => rawlen = 0

Heard(P, m) == \A i \in 1 .. m : rawbuf[i] = P[i]

\* The code is on the air, the recording is up to its last edge.
UnderWay(c, P, n) ==
    /\ last.code = c /\ last.upTo = n /\ place \in 2 .. (n + 1) /\ passed = 0
    /\ rcvstate = IF place % 2 = 0 THEN "mark" ELSE "space"
    /\ rawlen = place - 1 /\ timer = P[place - 1] - 1
    /\ Heard(P, place - 2)

\* The next code is due, the last mark of this one has not been recorded.
AtItsEnd(P, n) ==
    /\ place = 0 /\ passed = 0
    /\ rcvstate = "mark" /\ rawlen = n /\ timer = P[n] - 1
    /\ Heard(P, n - 1)

\* All of it is in the buffer.
AllThere(P, n) ==
    /\ rawlen = n + 1 /\ Heard(P, n)
    /\ \/ rcvstate = "stop"
       \/ rcvstate = "space" /\ place \in {0, 1} /\ passed = 0

Recorder(c, P, n) == UnderWay(c, P, n) \/ AtItsEnd(P, n) \/ AllThere(P, n)

Kept ==
    whole =>
        /\ rec[1] \in Codes
        /\ rcvstate # "idle" /\ pc \in {"idle", "resume"} /\ rec[1] \in Read =>
             Recorder(rec[1], PulsesOf(rec[1]), Len(PulsesOf(rec[1])))

CodeInv == Types /\ Sketch /\ Kept

\* The handler of a whole level: its first tick, and the others.
LevelIs(r, level, n, q) ==
    /\ q \in Receivers /\ (r.rcvstate # "idle" => q.rcvstate # "idle")
    /\ r.rcvstate = "stop" =>
         q.rcvstate = "stop" /\ q.rawbuf = r.rawbuf /\ q.rawlen = r.rawlen
    /\ r.rcvstate = "idle" /\ r.rawlen = 0 =>
         \/ q.rcvstate = "idle" /\ q.rawlen = 0
         \/ /\ level = Mark /\ q.rcvstate = "mark" /\ q.rawlen = 1
            /\ n >= 1 /\ n <= 200 => q.timer = n - 1
    /\ r.rcvstate = "mark" /\ level = Space /\ r.rawlen < RawBuf =>
         /\ q.rawlen = r.rawlen + 1
         /\ q.rawbuf = [r.rawbuf EXCEPT ![r.rawlen] = Later(r.timer, 1)]
         /\ q.rcvstate \in {"space", "stop"}
         /\ q.rawlen < RawBuf /\ n >= 1 /\ n <= 101 => q.rcvstate = "space" /\ q.timer = n - 1
         /\ n = GapTicks + 11 => q.rcvstate = "stop"
    /\ r.rcvstate = "space" /\ level = Mark /\ r.rawlen < RawBuf =>
         /\ q.rawlen = r.rawlen + 1
         /\ q.rawbuf = [r.rawbuf EXCEPT ![r.rawlen] = Later(r.timer, 1)]
         /\ q.rawlen < RawBuf => q.rcvstate = "mark" /\ (n >= 1 /\ n <= 200 => q.timer = n - 1)
    /\ r.rcvstate = "space" /\ (level = Space \/ r.rawlen = RawBuf) =>
         /\ q.rcvstate \in {"space", "stop"} /\ q.rawbuf = r.rawbuf /\ q.rawlen = r.rawlen
         /\ r.rawlen = RawBuf => q.rcvstate = "stop"

\* That is what the first tick and the others do together.
LEMMA ALevelIs ==
  ASSUME RawBuf \in Nat \ {0, 1}, NEW r \in Receivers, NEW level \in {Mark, Space}, NEW n \in Int,
         NEW q, q = Run(Tick(r, level), level, n - 1)
  PROVE  LevelIs(r, level, n, q)
<1>0. PICK m \in Int : m = n - 1
  OBVIOUS
<1>1. PICK w, t, v : /\ w = Tick(r, level) /\ t = Later(r.timer, 1)
                     /\ v = Later(w.timer, m) /\ q = Run(w, level, m)
  BY <1>0
<1>2. /\ w \in Receivers /\ (r.rcvstate # "idle" => w.rcvstate # "idle")
      /\ r.rawlen = RawBuf \/ r.rcvstate = "stop" =>
           w.rcvstate = "stop" /\ w.rawbuf = r.rawbuf /\ w.rawlen = r.rawlen
      /\ r.rawlen < RawBuf /\ r.rcvstate = "idle" =>
           \/ w.rcvstate = "idle" /\ w.rawlen = r.rawlen
           \/ level = Mark /\ w.rcvstate = "mark" /\ w.rawlen = 1 /\ w.timer = 0
      /\ r.rawlen < RawBuf /\ r.rcvstate = "mark" /\ level = Space =>
           /\ w.rcvstate = "space" /\ w.rawlen = r.rawlen + 1 /\ w.timer = 0
           /\ w.rawbuf = [r.rawbuf EXCEPT ![r.rawlen] = t]
      /\ r.rawlen < RawBuf /\ r.rcvstate = "space" /\ level = Mark =>
           /\ w.rcvstate = "mark" /\ w.rawlen = r.rawlen + 1 /\ w.timer = 0
           /\ w.rawbuf = [r.rawbuf EXCEPT ![r.rawlen] = t]
      /\ r.rcvstate = "space" /\ level = Space =>
           /\ w.rcvstate \in {"space", "stop"}
           /\ w.rawbuf = r.rawbuf /\ w.rawlen = r.rawlen
  BY <1>1, TickIs
<1>3. RunOf(w, m, q, v)
  <2>1. RawBuf \in Nat \ {0} /\ w \in Receivers
    BY <1>2
  <2>2. q = Run(w, level, m) /\ v = Later(w.timer, m)
    BY <1>1
  <2> QED BY ONLY level \in {Mark, Space}, m \in Int, <2>1, <2>2, RunIs
<1>4. w.timer = 0 /\ n >= 1 /\ n <= 200 => v = n - 1
  <2>1. 0 \in Word
    BY DEF Word
  <2>2. w.timer = 0 => (m >= 0 /\ 0 + m < 65536 => v = 0 + m)
    BY <1>1, <2>1, LaterIs
  <2> QED BY <1>0, <2>2
<1>5. r.rawlen \in 0 .. RawBuf
  BY DEF Receivers
<1>6. n >= 1 /\ n <= 101 => n >= 1 /\ n <= 200 /\ m <= GapTicks
  BY <1>0 DEF GapTicks
<1>7. n = GapTicks + 11 => n >= 1 /\ n <= 200 /\ m > GapTicks /\ m > 0
  BY <1>0 DEF GapTicks
<1>8. Mark # Space
  BY DEF Mark, Space
<1>9. CASE r.rcvstate = "stop"
  BY <1>2, <1>3, <1>9 DEF LevelIs, RunOf
<1>10. CASE r.rcvstate = "idle" /\ r.rawlen = 0
  BY <1>2, <1>3, <1>4, <1>10 DEF LevelIs, RunOf
<1>11. CASE r.rcvstate = "mark" /\ level = Space /\ r.rawlen < RawBuf
  <2>1. /\ w.rcvstate = "space" /\ w.rawlen = r.rawlen + 1 /\ w.timer = 0
        /\ w.rawbuf = [r.rawbuf EXCEPT ![r.rawlen] = Later(r.timer, 1)]
        /\ w.rawlen \in 0 .. RawBuf
    BY <1>1, <1>2, <1>5, <1>11
  <2>2. q.rcvstate \in {"space", "stop"} /\ q.rawbuf = w.rawbuf /\ q.rawlen = w.rawlen
    BY <1>3, <2>1 DEF RunOf
  <2>3. q.rawlen < RawBuf /\ n >= 1 /\ n <= 101 => q.rcvstate = "space" /\ q.timer = n - 1
    BY <1>0, <1>3, <1>4, <1>6, <2>1, <2>2 DEF RunOf
  <2>4. n = GapTicks + 11 => q.rcvstate = "stop"
    BY <1>0, <1>3, <1>4, <1>7, <2>1, <2>2 DEF RunOf
  <2> QED BY <1>3, <1>8, <1>11, <2>1, <2>2, <2>3, <2>4 DEF LevelIs, RunOf
<1>12. CASE r.rcvstate = "space" /\ level = Mark /\ r.rawlen < RawBuf
  BY <1>0, <1>1, <1>2, <1>3, <1>4, <1>5, <1>8, <1>12 DEF LevelIs, RunOf
<1>13. CASE r.rcvstate = "space" /\ (level = Space \/ r.rawlen = RawBuf)
  BY <1>1, <1>2, <1>3, <1>5, <1>8, <1>13 DEF LevelIs, RunOf
<1>14. r.rcvstate # "idle" => q.rcvstate # "idle"
  BY <1>2, <1>3 DEF RunOf
<1> QED BY <1>3, <1>14, <1>9, <1>10, <1>11, <1>12, <1>13 DEF LevelIs, RunOf

-----------------------------------------------------------------------------
(* A level of a code that is on the air, and what the handler makes of it. *)

\* What a remote puts on the air for a code.
Played(P, n) ==
    /\ n \in Nat /\ n % 2 = 1 /\ n >= 1 /\ n < RawBuf /\ n = Len(P)
    /\ \A k \in 1 .. n : P[k] \in Int /\ P[k] >= 1 /\ P[k] <= 200
Brief(P, n) == \A k \in 1 .. n : k % 2 = 0 => P[k] <= 101

\* The buffer has RAWBUF entries.
LEMMA RawBufIs == Remotes => RawBuf = 100 /\ RawBuf \in Nat \ {0, 1}
BY DEF Remotes

\* Every code is played so, and no space of one that is read ends a recording.
LEMMA PulsesPlayed ==
  ASSUME Remotes, Types, NEW c \in Codes, NEW P, P = PulsesOf(c), NEW n, n = Len(P)
  PROVE  Played(P, n) /\ (c \in Read => Brief(P, n))
<1>1. excess \in Excess /\ late \in Late
  BY DEF Types
<1>2. PICK N \in Nat : OnLineFor(P, N, HighestOf(c))
  BY <1>1, PulsesAreTicks
<1>3. /\ N % 2 = 1 /\ N <= 99 /\ P \in [1 .. N -> 1 .. 200] /\ n = N
      /\ \A k \in 1 .. N : k % 2 = 0 => 50 * P[k] <= HighestOf(c) + 50
  BY <1>2 DEF OnLineFor
<1>4. ASSUME NEW k \in 1 .. N PROVE P[k] \in Int /\ P[k] >= 1 /\ P[k] <= 200
  <2>1. PICK S : S = 1 .. 200
    OBVIOUS
  <2>2. P[k] \in S
    BY <1>3, <2>1
  <2>3. ASSUME NEW p \in 1 .. 200 PROVE p \in Int /\ p >= 1 /\ p <= 200
    OBVIOUS
  <2> QED BY <2>1, <2>2, <2>3
<1>5. N >= 1 /\ N < RawBuf
  BY <1>3, RawBufIs
<1>6. ASSUME c \in Read, NEW k \in 1 .. N, k % 2 = 0 PROVE P[k] <= 101
  <2>1. PICK p \in Int : p = P[k]
    BY <1>4
  <2>2. 50 * p <= 4500 + 50
    BY <1>3, <1>6, <2>1 DEF HighestOf
  <2>3. p <= 101
    BY <2>2
  <2> QED BY <2>1, <2>3
<1> QED BY <1>3, <1>4, <1>5, <1>6 DEF Played, Brief

\* The line is at a mark or at a space.
LEMMA LevelOrSpace == LineLevel \in {Mark, Space} /\ Mark # Space
BY DEF LineLevel, Mark, Space

\* A level that is on the air has the ticks of its pulse left.
LEMMA TickCounts ==
  ASSUME Remotes, Types, OnLine
  PROVE  /\ TicksLeft \in Int /\ last.code \in Codes
         /\ place \in Nat /\ place <= last.upTo /\ last.upTo <= Len(Pulses)
         /\ Played(Pulses, Len(Pulses))
         /\ place >= 1 /\ passed = 0 => TicksLeft = Pulses[place]
<1>1. /\ place \in Nat /\ passed \in {0, 1} /\ place <= last.upTo /\ last.upTo \in Int
      /\ last.gap \in Nat
  BY DEF Types, OnLine
<1>2. last.code \in Codes /\ last.upTo <= Len(PulsesOf(last.code))
  BY <1>1 DEF Types
<1>3. PICK P, n : P = PulsesOf(last.code) /\ n = Len(P)
  OBVIOUS
<1>4. Pulses = P
  BY <1>3 DEF Pulses, PulsesOf
<1>5. Played(P, n)
  BY <1>2, <1>3, PulsesPlayed
<1>6. place >= 1 => Pulses[place] \in Int
  BY <1>1, <1>2, <1>3, <1>4, <1>5 DEF Played
<1>7. TicksLeft \in Int /\ (place >= 1 /\ passed = 0 => TicksLeft = Pulses[place])
  <2>1. CASE place = 0
    BY <1>1, <2>1 DEF TicksLeft
  <2>2. CASE place # 0
    BY <1>1, <1>6, <2>2 DEF TicksLeft
  <2> QED BY <2>1, <2>2
<1> QED BY <1>1, <1>2, <1>3, <1>4, <1>5, <1>7

\* The receiver after an interrupt is what the handler makes of it.
LEMMA SetIs ==
  ASSUME NEW q \in Receivers, Set(q)
  PROVE  Receiver' = q
BY DEF Set, Receiver, Receivers

\* Level does to the receiver what the handler does in all the ticks of it.
LEMMA LevelHeard ==
  ASSUME Remotes, Types, OnLine,
         Set(Run(Tick(Receiver, LineLevel), LineLevel, TicksLeft - 1))
  PROVE  LevelIs(Receiver, LineLevel, TicksLeft, Receiver')
<1>1. PICK r, n, q : /\ r = Receiver /\ n = TicksLeft
                     /\ q = Run(Tick(Receiver, LineLevel), LineLevel, TicksLeft - 1)
  OBVIOUS
<1>2. PICK level : level = LineLevel
  OBVIOUS
<1>3. r \in Receivers /\ n \in Int /\ level \in {Mark, Space}
  BY <1>1, <1>2, TickCounts, LevelOrSpace DEF Types
<1>4. LevelIs(r, level, n, q)
  BY <1>1, <1>2, <1>3, RawBufIs, ALevelIs
<1>5. Receiver' = q
  BY <1>1, <1>4, SetIs DEF LevelIs
<1> QED BY <1>1, <1>2, <1>4, <1>5

-----------------------------------------------------------------------------
(* A whole code, from its first mark until it is in the buffer.            *)

\* One more entry is what was sent.
LEMMA HeardOn ==
  ASSUME Types, RawBuf \in Nat, NEW P, NEW n \in Nat, NEW x, n < RawBuf, rawlen = n, Heard(P, n - 1),
         rawbuf' = [rawbuf EXCEPT ![n] = x], x = P[n], n >= 1
  PROVE  Heard(P, n)'
<1>1. DOMAIN rawbuf = 0 .. (RawBuf - 1)
  BY DEF Types, Receiver, Receivers, Buffer
<1>2. ASSUME NEW i \in 1 .. n PROVE rawbuf'[i] = P[i]
  <2>1. CASE i = n
    <3>1. n \in DOMAIN rawbuf
      BY <1>1
    <3> QED BY <2>1, <3>1
  <2>2. CASE i # n
    BY <2>2 DEF Heard
  <2> QED BY <2>1, <2>2
<1> QED BY <1>2 DEF Heard

\* The next tick of a time that has run to one below a pulse's.
LEMMA NextTick ==
  ASSUME NEW t, NEW p \in Int, p >= 1, p <= 200, t = p - 1
  PROVE  Later(t, 1) = p
<1>1. t \in Word /\ t + 1 = p /\ 1 >= 0 /\ t + 1 < 65536
  BY DEF Word
<1> QED BY <1>1, LaterIs

\* A code that is on the air and under way goes on so to its next edge.
LEMMA UnderWayGoesOn ==
  ASSUME Remotes, Types, Level, NEW c \in Codes, NEW P, NEW n, P = PulsesOf(c),
         Played(P, n), Brief(P, n), UnderWay(c, P, n)
  PROVE  UnderWay(c, P, n)' /\ rec' = rec
<1>1. PICK k : k = place
  OBVIOUS
<1>2. OnLine /\ LevelIs(Receiver, LineLevel, TicksLeft, Receiver') /\ Recorded
  BY LevelHeard DEF Level
<1>3. k \in Int /\ k >= 2 /\ k <= n /\ n \in Nat /\ n < RawBuf /\ RawBuf \in Nat
      /\ last.code = c /\ last.upTo = n /\ passed = 0
  BY <1>1, <1>2, RawBufIs DEF UnderWay, Played, OnLine
<1>4. Pulses = P
  BY <1>3 DEF Pulses, PulsesOf
<1>5. P[k] \in Int /\ P[k] >= 1 /\ P[k] <= 200 /\ (k % 2 = 0 => P[k] <= 101)
  BY <1>3 DEF Played, Brief
<1>6. TicksLeft = P[k]
  BY <1>1, <1>2, <1>3, <1>4, TickCounts
<1>7. PICK h : h = k - 1
  OBVIOUS
<1>8. h \in Nat /\ h >= 1 /\ h < RawBuf /\ rawlen = h /\ k = h + 1
      /\ timer = P[h] - 1 /\ Heard(P, h - 1)
  BY <1>1, <1>3, <1>7 DEF UnderWay
<1>9. P[h] \in Int /\ P[h] >= 1 /\ P[h] <= 200
  BY <1>3, <1>8 DEF Played
<1>10. Later(timer, 1) = P[h]
  BY <1>8, <1>9, NextTick
<1>11. place' = k + 1 /\ passed' = 0 /\ last' = last
  BY <1>1 DEF Level
<1>12. CASE k % 2 = 0
  <2>1. rcvstate = "mark" /\ LineLevel = Space
    BY <1>1, <1>12 DEF UnderWay, LineLevel
  <2>2. /\ rawlen' = rawlen + 1 /\ rawbuf' = [rawbuf EXCEPT ![rawlen] = Later(timer, 1)]
        /\ rawlen' < RawBuf => rcvstate' = "space" /\ timer' = P[k] - 1
    BY <1>2, <1>5, <1>6, <1>8, <1>12, <2>1 DEF LevelIs, Receiver
  <2>3. rcvstate' = "space" /\ timer' = P[k] - 1 /\ rawlen' = k
    BY <1>3, <1>8, <2>2
  <2>4. Heard(P, h)'
    BY <1>8, <1>10, <2>2, <1>3, HeardOn
  <2>5. rec' = rec
    BY <1>2, <2>1, <2>3 DEF Recorded
  <2>6. (k + 1) % 2 # 0 /\ (k + 1) - 1 = k /\ (k + 1) - 2 = h /\ k + 1 \in 2 .. (n + 1)
    BY <1>3, <1>8, <1>12
  <2> QED BY <1>3, <1>11, <2>3, <2>4, <2>5, <2>6 DEF UnderWay
<1>13. CASE k % 2 # 0
  <2>1. rcvstate = "space" /\ LineLevel = Mark
    BY <1>1, <1>3, <1>13 DEF UnderWay, LineLevel
  <2>2. /\ rawlen' = rawlen + 1 /\ rawbuf' = [rawbuf EXCEPT ![rawlen] = Later(timer, 1)]
        /\ rawlen' < RawBuf => rcvstate' = "mark" /\ timer' = P[k] - 1
    BY <1>2, <1>5, <1>6, <1>8, <2>1 DEF LevelIs, Receiver
  <2>3. rcvstate' = "mark" /\ timer' = P[k] - 1 /\ rawlen' = k
    BY <1>3, <1>8, <2>2
  <2>4. Heard(P, h)'
    BY <1>8, <1>10, <2>2, <1>3, HeardOn
  <2>5. rec' = rec
    BY <1>1, <1>2, <1>3, <2>1, <2>3 DEF Recorded
  <2>6. (k + 1) % 2 = 0 /\ (k + 1) - 1 = k /\ (k + 1) - 2 = h /\ k + 1 \in 2 .. (n + 1)
    BY <1>3, <1>8, <1>13
  <2> QED BY <1>3, <1>11, <2>3, <2>4, <2>5, <2>6 DEF UnderWay
<1> QED BY <1>12, <1>13

\* The gap after it ends the last mark, and then all of the code is there.
LEMMA EndIsHeard ==
  ASSUME Remotes, Types, Level, NEW c, NEW P, NEW n,
         Played(P, n), AtItsEnd(P, n)
  PROVE  AllThere(P, n)' /\ rec' = rec
<1>1. OnLine /\ LevelIs(Receiver, LineLevel, TicksLeft, Receiver') /\ Recorded
  BY LevelHeard DEF Level
<1>2. /\ n \in Nat /\ n >= 1 /\ n < RawBuf /\ RawBuf \in Nat
      /\ P[n] \in Int /\ P[n] >= 1 /\ P[n] <= 200
  BY RawBufIs DEF Played
<1>3. place = 0 /\ rcvstate = "mark" /\ rawlen = n /\ timer = P[n] - 1 /\ Heard(P, n - 1)
  BY DEF AtItsEnd
<1>4. LineLevel = Space
  BY <1>3 DEF LineLevel
<1>5. /\ rawlen' = n + 1 /\ rawbuf' = [rawbuf EXCEPT ![n] = Later(timer, 1)]
      /\ rcvstate' \in {"space", "stop"}
  BY <1>1, <1>2, <1>3, <1>4 DEF LevelIs, Receiver
<1>6. Heard(P, n)'
  BY <1>2, <1>3, <1>5, NextTick, HeardOn
<1>7. place' = 1 /\ passed' = 0
  BY <1>3 DEF Level
<1>8. rec' = rec
  BY <1>1, <1>3, <1>5 DEF Recorded
<1> QED BY <1>5, <1>6, <1>7, <1>8 DEF AllThere

\* It stays there, until the recording is joined by another code or read.
LEMMA AllStays ==
  ASSUME Remotes, Types, Level, NEW P, NEW n, Played(P, n), AllThere(P, n), whole'
  PROVE  AllThere(P, n)' /\ rec' = rec
<1>1. OnLine /\ LevelIs(Receiver, LineLevel, TicksLeft, Receiver') /\ Recorded
  BY LevelHeard DEF Level
<1>2. /\ n \in Nat /\ n % 2 = 1 /\ n < RawBuf /\ RawBuf = 100
      /\ rawlen = n + 1 /\ Heard(P, n) /\ RawBuf \in Nat
  BY RawBufIs DEF Played, AllThere
<1>3. CASE rcvstate = "stop"
  <2>1. rcvstate' = "stop" /\ rawbuf' = rawbuf /\ rawlen' = rawlen
    BY <1>1, <1>3 DEF LevelIs, Receiver
  <2> QED BY <1>1, <1>2, <1>3, <2>1 DEF AllThere, Heard, Recorded
<1>4. CASE rcvstate = "space" /\ place \in {0, 1} /\ passed = 0
  <2>1. CASE place = 0 \/ rawlen = RawBuf
    <3>1. /\ rcvstate' \in {"space", "stop"} /\ rawbuf' = rawbuf /\ rawlen' = rawlen
          /\ rawlen = RawBuf => rcvstate' = "stop"
      BY <1>1, <1>4, <2>1 DEF LevelIs, Receiver, LineLevel
    <3>2. place' = place + 1 /\ passed' = 0
      BY DEF Level
    <3>3. Heard(P, n)'
      BY <1>2, <3>1 DEF Heard
    <3>4. rcvstate' = "stop" \/ (rcvstate' = "space" /\ place' \in {0, 1} /\ passed' = 0)
      BY <1>4, <2>1, <3>1, <3>2
    <3>5. rec' = rec
      BY <1>1, <1>4, <3>1 DEF Recorded
    <3> QED BY <1>2, <3>1, <3>3, <3>4, <3>5 DEF AllThere
  <2>2. CASE place = 1 /\ rawlen # RawBuf
    <3>1. rawlen < RawBuf /\ rawlen + 1 < RawBuf
      BY <1>2, <2>2
    <3>2. LineLevel = Mark
      BY <2>2 DEF LineLevel
    <3>3. rcvstate' = "mark"
      BY <1>1, <1>4, <3>1, <3>2 DEF LevelIs, Receiver
    <3>4. ~whole'
      BY <1>1, <1>4, <2>2, <3>3 DEF Recorded
    <3> QED BY <3>4
  <2> QED BY <1>4, <2>1, <2>2
<1> QED BY <1>2, <1>3, <1>4 DEF AllThere

-----------------------------------------------------------------------------
(* Level keeps the invariant.                                              *)

\* What a step that leaves the code on the air alone keeps.
LEMMA TypesOf ==
  ASSUME Types, last' = last, excess' = excess, late' = late,
         place' \in Nat, passed' \in {0, 1}, Receiver' \in Receivers, whole' \in BOOLEAN
  PROVE  Types'
BY DEF Types, PulsesOf

\* Level keeps the types.
LEMMA LevelTypes ==
  ASSUME Remotes, Types, Level
  PROVE  Types'
<1>1. OnLine /\ LevelIs(Receiver, LineLevel, TicksLeft, Receiver') /\ Recorded
  BY LevelHeard DEF Level
<1>2. Receiver' \in Receivers
  BY <1>1 DEF LevelIs
<1>3. whole' \in BOOLEAN
  BY <1>1 DEF Recorded, Types
<1>4. place' \in Nat /\ passed' \in {0, 1}
  BY DEF Level, Types
<1> QED BY <1>2, <1>3, <1>4, TypesOf DEF Level

\* The receiver's state and length.
LEMMA StateIs ==
  ASSUME Types
  PROVE  rcvstate \in {"idle", "mark", "space", "stop"} /\ rawlen \in 0 .. RawBuf
BY DEF Types, Receiver, Receivers, States

\* Level keeps what the sketch may find: a recording that has stopped stays as it is.
LEMMA LevelSketch ==
  ASSUME Remotes, Types, Sketch, Level
  PROVE  Sketch'
<1>1. LevelIs(Receiver, LineLevel, TicksLeft, Receiver')
  BY LevelHeard DEF Level
<1>2. /\ rcvstate # "idle" => rcvstate' # "idle"
      /\ rcvstate = "stop" => rcvstate' = "stop" /\ rawbuf' = rawbuf /\ rawlen' = rawlen
      /\ rcvstate = "idle" /\ rawlen = 0 /\ rcvstate' = "idle" => rawlen' = 0
  BY <1>1 DEF LevelIs, Receiver
<1>3. pc' = pc /\ result' = result /\ pc \in {"idle", "resume"}
  BY DEF Level, InResume, Sketch
<1> QED BY <1>2, <1>3 DEF Sketch

\* A recording that begins with the first mark of a whole code is under way.
LEMMA RecordingBegins ==
  ASSUME Remotes, Types, Sketch, Level, rcvstate = "idle", rcvstate' # "idle", whole',
         NEW c, c = rec'[1], NEW P, P = PulsesOf(c), NEW n, n = Len(P)
  PROVE  c \in Codes /\ UnderWay(c, P, n)'
<1>1. OnLine /\ LevelIs(Receiver, LineLevel, TicksLeft, Receiver') /\ Recorded
  BY LevelHeard DEF Level
<1>2. rec' = <<last.code>> /\ place = 1 /\ passed = 0 /\ last.upTo = Len(Pulses)
  BY <1>1 DEF Recorded
<1>3. c = last.code /\ c \in Codes
  BY <1>1, <1>2, TickCounts
<1>4. Pulses = P /\ last.upTo = n
  BY <1>2, <1>3 DEF Pulses, PulsesOf
<1>5. Played(P, n) /\ TicksLeft = P[1] /\ Mark # Space
  BY <1>1, <1>2, <1>4, TickCounts, LevelOrSpace
<1>6. n \in Nat /\ n >= 1 /\ P[1] \in Int /\ P[1] >= 1 /\ P[1] <= 200
  BY <1>5 DEF Played
<1>7. rawlen = 0
  BY DEF Level, InResume, Sketch
<1>8. rcvstate' = "mark" /\ rawlen' = 1 /\ timer' = P[1] - 1
  BY <1>1, <1>5, <1>6, <1>7 DEF LevelIs, Receiver
<1>9. place' = 2 /\ passed' = 0 /\ last' = last
  BY <1>2 DEF Level
<1>10. Heard(P, 0)'
  BY DEF Heard
<1>11. 2 \in 2 .. (n + 1) /\ 2 % 2 = 0 /\ 2 - 1 = 1 /\ 2 - 2 = 0
  BY <1>6
<1> QED BY <1>3, <1>4, <1>8, <1>9, <1>10, <1>11 DEF UnderWay

\* A whole code stays what the receiver has, or will have, recorded.
LEMMA LevelKept ==
  ASSUME Remotes, CodeInv, Level
  PROVE  Kept'
<1> USE DEF CodeInv
<1>1. OnLine /\ LevelIs(Receiver, LineLevel, TicksLeft, Receiver') /\ Recorded
  BY LevelHeard DEF Level
<1>2. SUFFICES ASSUME whole'
      PROVE  /\ rec'[1] \in Codes
             /\ rcvstate' # "idle" /\ pc' \in {"idle", "resume"} /\ rec'[1] \in Read =>
                  Recorder(rec[1], PulsesOf(rec[1]), Len(PulsesOf(rec[1])))'
  BY DEF Kept
<1>3. PICK c, P, n : c = rec'[1] /\ P = PulsesOf(c) /\ n = Len(P)
  OBVIOUS
<1>4. PulsesOf(c)' = P
  BY <1>3 DEF Level, PulsesOf
<1>5. SUFFICES /\ c \in Codes
               /\ rcvstate' # "idle" /\ c \in Read => Recorder(c, P, n)'
  BY <1>3, <1>4
<1>6. CASE rcvstate = "idle" /\ rcvstate' # "idle"
  BY <1>2, <1>3, <1>6, RecordingBegins DEF Recorder
<1>7. CASE ~(rcvstate = "idle" /\ rcvstate' # "idle")
  <2>1. whole
    BY <1>1, <1>2, <1>7 DEF Recorded
  <2>2. ~(rcvstate = "space" /\ rcvstate' = "mark" /\ place = 1 /\ passed = 0)
    BY <1>1, <1>2, <1>7 DEF Recorded
  <2>3. rec' = rec
    BY <1>1, <1>7, <2>2 DEF Recorded
  <2>4. c \in Codes /\ c = rec[1]
    BY <1>3, <2>1, <2>3 DEF Kept
  <2>5. ASSUME rcvstate' # "idle", c \in Read
        PROVE  Recorder(c, P, n)'
    <3>1. Recorder(c, P, n)
      BY <1>3, <1>7, <2>1, <2>4, <2>5 DEF Kept, Sketch, Level, InResume
    <3>2. Played(P, n) /\ Brief(P, n)
      BY <1>3, <2>4, <2>5, PulsesPlayed
    <3>3. CASE UnderWay(c, P, n)
      BY <1>3, <2>4, <3>2, <3>3, UnderWayGoesOn DEF Recorder
    <3>4. CASE AtItsEnd(P, n)
      BY <3>2, <3>4, EndIsHeard DEF Recorder
    <3>5. CASE AllThere(P, n)
      BY <1>2, <3>2, <3>5, AllStays DEF Recorder
    <3> QED BY <3>1, <3>3, <3>4, <3>5 DEF Recorder
  <2> QED BY <2>4, <2>5
<1> QED BY <1>6, <1>7

\* The three together.
LEMMA LevelKeeps ==
  ASSUME Remotes, CodeInv, Level
  PROVE  CodeInv'
BY LevelTypes, LevelSketch, LevelKept DEF CodeInv

-----------------------------------------------------------------------------
(* So do the other steps, and it means that the code is read.              *)

\* A tick between the stores of resume() begins no recording that is read later.
LEMMA TickInResumeKeeps ==
  ASSUME Remotes, CodeInv, TickInResume
  PROVE  CodeInv'
<1> USE DEF CodeInv
<1>1. OnLine /\ Recorded /\ pc = "half" /\ rcvstate = "idle" /\ pc' = "late"
  BY DEF TickInResume, Sketch
<1>2. PICK r, level, q, t : /\ r = Receiver /\ level = LineLevel /\ q = Tick(r, level)
                            /\ t = Later(r.timer, 1)
  OBVIOUS
<1>3. q \in Receivers
  BY <1>2, RawBufIs, LevelOrSpace, TickIs DEF Types
<1>4. Receiver' \in Receivers
  BY <1>2, <1>3, SetIs DEF TickInResume
<1>5. whole' \in BOOLEAN
  BY <1>1 DEF Recorded, Types
<1>6. Types'
  BY <1>4, <1>5, TypesOf DEF TickInResume, Types
<1>7. Sketch'
  BY <1>1 DEF Sketch
<1>8. whole' => rec'[1] \in Codes
  BY <1>1, TickCounts DEF Recorded, Kept
<1> QED BY <1>1, <1>6, <1>7, <1>8 DEF Kept

\* Quiet ends the recording, with all of the code in the buffer.
LEMMA QuietKeeps ==
  ASSUME Remotes, CodeInv, Quiet
  PROVE  CodeInv'
<1> USE DEF CodeInv
<1>0. PICK n \in Int : n = GapTicks + 11 /\ n - 1 = GapTicks + 10
  BY DEF GapTicks
<1>1. PICK r, q : r = Receiver /\ q = Run(Tick(r, Space), Space, n - 1)
  OBVIOUS
<1>2. LevelIs(r, Space, n, q)
  BY <1>1, RawBufIs, LevelOrSpace, ALevelIs DEF Types
<1>3. q \in Receivers /\ Receiver' = q
  BY <1>0, <1>1, <1>2, SetIs DEF Quiet, LevelIs
<1>4. LevelIs(Receiver, Space, GapTicks + 11, Receiver')
  BY <1>0, <1>1, <1>2, <1>3
<1>5. UNCHANGED <<remote, pc, result, history>> /\ ~OnLine /\ rcvstate \in {"mark", "space"}
      /\ pc \in {"idle", "resume"}
  BY DEF Quiet, InResume, Sketch
<1>6. Types'
  BY <1>3, <1>5, TypesOf DEF Types, remote, history
<1>7. rcvstate' # "idle"
  BY <1>4, <1>5 DEF LevelIs, Receiver
<1>8. Sketch'
  BY <1>5, <1>7 DEF Sketch
<1>9. ASSUME whole PROVE rec'[1] \in Codes /\ (rec[1] \in Read =>
          Recorder(rec[1], PulsesOf(rec[1]), Len(PulsesOf(rec[1])))')
  <2>1. PICK c, P, m : c = rec[1] /\ P = PulsesOf(c) /\ m = Len(P)
    OBVIOUS
  <2>2. c \in Codes /\ rec' = rec /\ PulsesOf(c)' = P
    BY <1>5, <1>9, <2>1 DEF Kept, remote, history, PulsesOf
  <2>3. ASSUME c \in Read PROVE Recorder(c, P, m)'
    <3>1. Recorder(c, P, m) /\ Played(P, m)
      BY <1>5, <1>9, <2>1, <2>2, <2>3, PulsesPlayed DEF Kept
    <3>2. /\ m \in Nat /\ m >= 1 /\ m % 2 = 1 /\ m < RawBuf /\ RawBuf \in Nat
          /\ P[m] \in Int /\ P[m] >= 1 /\ P[m] <= 200
      BY <3>1, RawBufIs DEF Played
    <3>3. ASSUME rcvstate = "mark", rawlen = m, timer = P[m] - 1, Heard(P, m - 1)
          PROVE  AllThere(P, m)'
      <4>1. /\ rawlen' = m + 1 /\ rawbuf' = [rawbuf EXCEPT ![m] = Later(timer, 1)]
            /\ rcvstate' = "stop"
        BY <1>4, <3>2, <3>3 DEF LevelIs, Receiver
      <4>2. Heard(P, m)'
        BY <3>2, <3>3, <4>1, NextTick, HeardOn
      <4> QED BY <4>1, <4>2 DEF AllThere
    <3>4. CASE UnderWay(c, P, m)
      <4>1. place = m + 1
        BY <1>5, <3>2, <3>4 DEF UnderWay, OnLine
      <4>2. place % 2 = 0 /\ place - 1 = m /\ place - 2 = m - 1
        BY <3>2, <4>1
      <4> QED BY <3>3, <3>4, <4>2 DEF UnderWay, Recorder
    <3>5. CASE AtItsEnd(P, m)
      BY <3>3, <3>5 DEF AtItsEnd, Recorder
    <3>6. CASE AllThere(P, m)
      <4>1. rcvstate = "space" /\ place \in {0, 1} /\ passed = 0
        BY <1>5, <3>6 DEF AllThere
      <4>2. /\ rcvstate' \in {"space", "stop"} /\ rawbuf' = rawbuf /\ rawlen' = rawlen
        BY <1>4, <4>1 DEF LevelIs, Receiver
      <4> QED BY <1>5, <3>6, <4>1, <4>2 DEF AllThere, Heard, Recorder, remote
    <3> QED BY <3>1, <3>4, <3>5, <3>6 DEF Recorder
  <2> QED BY <2>1, <2>2, <2>3
<1> QED BY <1>5, <1>6, <1>8, <1>9 DEF Kept, history

\* decode() reads the buffer only.
LEMMA DecodeKeeps ==
  ASSUME Remotes, CodeInv, Decode
  PROVE  CodeInv'
<1> USE DEF CodeInv
<1>1. /\ UNCHANGED <<remote, irparams, history>> /\ pc = "idle" /\ pc' = "resume"
      /\ rcvstate = "stop" /\ result' = decode(rawbuf, rawlen)
  BY DEF Decode
<1>2. Types'
  BY <1>1, TypesOf DEF Types, Receiver, remote, irparams, history
<1>3. Sketch'
  BY <1>1 DEF Sketch, irparams
<1>4. ASSUME whole PROVE rec[1] \in Codes /\ (rec[1] \in Read =>
          Recorder(rec[1], PulsesOf(rec[1]), Len(PulsesOf(rec[1])))')
  BY <1>1, <1>4 DEF Kept, Recorder, UnderWay, AtItsEnd, AllThere, Heard, PulsesOf,
                    remote, irparams, history
<1> QED BY <1>1, <1>2, <1>3, <1>4 DEF Kept, history

\* The first store of resume() drops the recording.
LEMMA ResumeStateKeeps ==
  ASSUME Remotes, CodeInv, ResumeState
  PROVE  CodeInv'
<1> USE DEF CodeInv
<1>1. Receiver' \in Receivers
  BY DEF Types, Receiver, Receivers, States, ResumeState
<1>2. Types'
  BY <1>1, TypesOf DEF Types, ResumeState, remote, history
<1>3. Sketch' /\ Kept'
  BY DEF Sketch, Kept, ResumeState, history
<1> QED BY <1>2, <1>3

\* After the second the receiver waits for a code again, or for the end of one it
\* has begun and lost the beginning of.
LEMMA ResumeLenKeeps ==
  ASSUME Remotes, CodeInv, ResumeLen
  PROVE  CodeInv'
<1> USE DEF CodeInv
<1>1. Receiver' \in Receivers
  BY RawBufIs DEF Types, Receiver, Receivers, ResumeLen
<1>2. Types'
  BY <1>1, TypesOf DEF Types, ResumeLen, remote
<1>3. Sketch' /\ Kept'
  BY DEF Sketch, Kept, ResumeLen, Types
<1> QED BY <1>2, <1>3

\* The next code begins, while the last mark of this one may not be recorded.
LEMMA BeginKeeps ==
  ASSUME Remotes, CodeInv, NEW code \in Codes, NEW gap \in Gaps, NEW cut \in Cuts,
         Begin(code, gap, cut)
  PROVE  CodeInv'
<1> USE DEF CodeInv
<1>1. PICK n : n = Len(PulsesOf(code))
  OBVIOUS
<1>2. n \in Nat
  BY <1>1, PulsesPlayed DEF Played
<1>3. PICK end : end = IF cut < n THEN cut ELSE n
  OBVIOUS
<1>4. end \in Nat /\ end <= n /\ gap \in Nat
  BY <1>2, <1>3 DEF Remotes
<1>5. /\ last' = [code |-> code, gap |-> gap, upTo |-> end]
      /\ place' = 0 /\ passed' = 0 /\ excess' = excess /\ late' = late
      /\ UNCHANGED <<irparams, pc, result, history>> /\ ~OnLine
  BY <1>1, <1>3 DEF Begin, PulsesOf
<1>6. PulsesOf(code)' = PulsesOf(code)
  BY <1>5 DEF PulsesOf
<1>7. Types'
  BY <1>1, <1>4, <1>5, <1>6 DEF Types, Receiver, irparams, history
<1>8. Sketch'
  BY <1>5 DEF Sketch, irparams
<1>9. ASSUME whole, rcvstate # "idle", pc \in {"idle", "resume"}, rec[1] \in Read
      PROVE  Recorder(rec[1], PulsesOf(rec[1]), Len(PulsesOf(rec[1])))'
  <2>1. PICK c, P, m : c = rec[1] /\ P = PulsesOf(c) /\ m = Len(P)
    OBVIOUS
  <2>2. c \in Codes /\ rec' = rec /\ PulsesOf(c)' = P
    BY <1>5, <1>9, <2>1 DEF Kept, history, PulsesOf
  <2>3. Recorder(c, P, m) /\ Played(P, m)
    BY <1>9, <2>1, <2>2, PulsesPlayed DEF Kept
  <2>4. m \in Nat /\ m >= 1 /\ m % 2 = 1
    BY <2>3 DEF Played
  <2>5. ASSUME rcvstate = "mark", rawlen = m, timer = P[m] - 1, Heard(P, m - 1)
        PROVE  AtItsEnd(P, m)'
    BY <1>5, <2>5 DEF AtItsEnd, Heard, irparams
  <2>6. CASE UnderWay(c, P, m)
    <3>1. place = m + 1
      BY <1>5, <2>4, <2>6 DEF UnderWay, OnLine
    <3>2. place % 2 = 0 /\ place - 1 = m /\ place - 2 = m - 1
      BY <2>4, <3>1
    <3> QED BY <2>5, <2>6, <3>2, <2>1, <2>2 DEF UnderWay, Recorder
  <2>7. CASE AtItsEnd(P, m)
    BY <2>1, <2>2, <2>5, <2>7 DEF AtItsEnd, Recorder
  <2>8. CASE AllThere(P, m)
    BY <1>5, <2>1, <2>2, <2>8 DEF AllThere, Heard, Recorder, irparams
  <2> QED BY <2>3, <2>6, <2>7, <2>8 DEF Recorder
<1> QED BY <1>5, <1>7, <1>8, <1>9 DEF Kept, irparams, history

\* A step that changes nothing.
LEMMA StutterKeeps ==
  ASSUME CodeInv, UNCHANGED vars
  PROVE  CodeInv'
<1> USE DEF vars, remote, irparams, history
<1>1. Types'
  BY TypesOf DEF CodeInv, Types, Receiver
<1>2. Sketch'
  BY DEF CodeInv, Sketch
<1>3. Kept'
  BY DEF CodeInv, Kept, Recorder, UnderWay, AtItsEnd, AllThere, Heard, PulsesOf
<1> QED BY <1>1, <1>2, <1>3 DEF CodeInv

\* There is nothing recorded at first.
LEMMA InitIsKept ==
  ASSUME Remotes, Init
  PROVE  CodeInv
<1>1. 0 \in Word /\ 0 \in 0 .. RawBuf
  BY RawBufIs DEF Word
<1>2. Receiver \in Receivers
  BY <1>1 DEF Init, Receiver, Receivers, Buffer, States
<1>3. Types
  <2>1. last \in [code : Codes \cup {NoCode}, gap : Nat, upTo : Int] /\ ~(last.upTo >= 0)
    BY DEF Init
  <2> QED BY <1>2, <2>1 DEF Init, Types
<1> QED BY <1>3 DEF Init, CodeInv, Sketch, Kept

\* What decode() has then read is all of one code, so it returns that.
LEMMA InvMeansRead ==
  ASSUME Remotes, CodeInv
  PROVE  CodeIsRead
<1> SUFFICES ASSUME pc = "resume", whole, rawbuf[0] >= 800,
                    rec[1].type \notin {"SHARP", "DISH"}
             PROVE  result = Expected(rec[1])
  BY DEF CodeIsRead
<1>1. PICK c, P, n : c = rec[1] /\ P = PulsesOf(c) /\ n = Len(P)
  OBVIOUS
<1>2. rcvstate = "stop" /\ result = decode(rawbuf, rawlen) /\ c \in Codes
  BY <1>1 DEF CodeInv, Sketch, Kept
<1>3. c \in Read
  <2>1. ASSUME c \in Unread PROVE FALSE
    <3>1. PICK k \in 1 .. 32 : c \in Coded("SHARP", k) \cup Coded("DISH", k)
      BY <2>1 DEF Unread
    <3>2. PICK type \in {"SHARP", "DISH"} : c \in Coded(type, k)
      BY <3>1
    <3>3. c.type = type
      BY <3>2, CodedIs
    <3> QED BY <1>1, <3>3
  <2> QED BY <1>2, <2>1 DEF Remotes
<1>4. AllThere(P, n)
  BY <1>1, <1>2, <1>3 DEF CodeInv, Kept, Recorder, UnderWay, AtItsEnd
<1>5. /\ excess \in Excess /\ late \in Late /\ rawbuf \in Buffer
  BY DEF CodeInv, Types, Receiver, Receivers
<1>6. PICK e \in Excess, l \in Late : e = excess /\ l = late
  BY <1>5
<1>7. P = Ticks(c, e, l)
  BY <1>1, <1>2, <1>5, <1>6, PulsesAreTicks
<1>8. e \in 0 .. 150 /\ l \in Nat
  BY DEF Remotes
<1>9. rawbuf[0] \in Int
  BY <1>5, RawBufIs DEF Buffer, Word
<1>10. PICK b : b = rawbuf
  OBVIOUS
<1>11. Recording(b, P)
  BY <1>1, <1>4, <1>9, <1>10 DEF Recording, AllThere, Heard
<1>12. decode(b, Len(P) + 1) = Expected(c)
  BY <1>3, <1>7, <1>8, <1>11, ReadIsDecoded
<1>13. rawlen = Len(P) + 1
  BY <1>1, <1>4 DEF AllThere
<1> QED BY <1>1, <1>2, <1>10, <1>12, <1>13

\* Whatever the codes sent, the gaps between them, where each is cut off and
\* wherever the sketch calls decode() and resume(): a code recorded whole and alone
\* is decoded as it was sent.
THEOREM CodesAreRead == Spec => []CodeIsRead
<1>1. Init => CodeInv
  BY RemotesHold, InitIsKept
<1>2. CodeInv /\ [Next]_vars => CodeInv'
  BY RemotesHold, LevelKeeps, TickInResumeKeeps, QuietKeeps, DecodeKeeps,
     ResumeStateKeeps, ResumeLenKeeps, BeginKeeps, StutterKeeps DEF Next, Resume
<1>3. CodeInv => CodeIsRead
  BY RemotesHold, InvMeansRead
<1> QED BY <1>1, <1>2, <1>3, PTL DEF Spec

=============================================================================
