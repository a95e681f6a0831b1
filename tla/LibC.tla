-------------------------------- MODULE LibC --------------------------------
(***************************************************************************)
(* The two conversions of user/libc.c, between integers of Width bits and  *)
(* strings, which are sequences of character codes here.                   *)
(***************************************************************************)
EXTENDS Integers, Sequences

CONSTANT Width  \* the bits of an int (32)

ASSUME WidthAssumption == Width \in Nat \ {0}

Top  == 2 ^ (Width - 1)
Ints == -Top .. Top - 1

\* Results outside the type lose their high bits.
Wrap(n) == ((n + Top) % (2 * Top)) - Top

Zero  == 48
Minus == 45
Plus  == 43

(***************************************************************************)
(* atoii takes any characters for digits, whatever they are.               *)
(***************************************************************************)
atoii(x) ==
  LET s == x # <<>> /\ x[1] = Minus
      p == IF x # <<>> /\ x[1] \in {Minus, Plus} THEN Tail(x) ELSE x
      r[k \in 0 .. Len(p)] ==
        IF k = 0 THEN 0
        ELSE LET digit == p[k] - Zero
             IN Wrap(IF s THEN r[k - 1] * 10 - digit ELSE r[k - 1] * 10 + digit)
  IN r[Len(p)]

\* C's division rounds towards zero.
Quotient(t, d)  == IF t < 0 THEN -((-t) \div d) ELSE t \div d
Remainder(t, d) == t - d * Quotient(t, d)

(***************************************************************************)
(* itoa writes the digits from the last to the first.  The absolute value  *)
(* of the least integer is itself.                                         *)
(***************************************************************************)
Numeral[t \in Ints] ==
  LET tens == Quotient(t, 10)
  IN Append(IF tens = 0 THEN <<>> ELSE Numeral[tens], Zero + Remainder(t, 10))

itoa(x) == IF x < 0 THEN <<Minus>> \o Numeral[Wrap(-x)] ELSE Numeral[x]

(***************************************************************************)
(* What the conversions promise.                                           *)
(***************************************************************************)
\* atoii undoes itoa for every integer: even for the least one, whose digits
\* itoa writes as characters below '0' and atoii subtracts as negative ones.
RoundTrip == \A x \in Ints : atoii(itoa(x)) = x

\* But for that one, itoa writes digits, the first of which is 0 only in "0".
WritesNumerals ==
  \A x \in Ints \ {-Top} :
    LET digits == IF x < 0 THEN Tail(itoa(x)) ELSE itoa(x) IN
    /\ \A i \in DOMAIN digits : digits[i] \in Zero .. Zero + 9
    /\ digits[1] = Zero => x = 0
=============================================================================
