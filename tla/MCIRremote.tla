----------------------------- MODULE MCIRremote -----------------------------
(* Codes of each protocol IRsend has, two where a decoder could mix them up;  *)
(* cut off or whole; at once after another, later, and when the tick counter *)
(* has just wrapped.                                                         *)
EXTENDS IRremote

Code(type, bits) == [type |-> type, bits |-> bits]
Thirds(n) == [i \in 1..n |-> IF i % 3 = 0 THEN 1 ELSE 0]
Ones(n) == [i \in 1..n |-> 1]
Turns(n) == [i \in 1..n |-> i % 2]
\* SHARP_TOGGLE_MASK: the last ten bits, in the second frame of sendSharp().
Toggled(bits) ==
    [i \in DOMAIN bits |-> IF i > Len(bits) - 10 THEN 1 - bits[i] ELSE bits[i]]

RemoteCodes ==
    { Code("NEC", Thirds(32)), Code("NEC", Turns(32)), Code("NECrepeat", <<>>),
      Code("SONY", Turns(20)), Code("RC5", Thirds(12)), Code("RC6", Turns(20)),
      Code("PANASONIC", Ones(48)), Code("PANASONIC", Thirds(48)),
      Code("JVC", Turns(16)), Code("JVCrepeat", Turns(16)),
      Code("SHARP", Thirds(15)), Code("SHARP", Toggled(Thirds(15))),
      Code("DISH", Turns(16)) }
=============================================================================
