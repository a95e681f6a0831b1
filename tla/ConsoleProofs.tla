--------------------------- MODULE ConsoleProofs ---------------------------
(***************************************************************************)
(* Proofs about the shell among the processes: the console lives for ever, *)
(* a command does to processes what its line says, whatever the timer and  *)
(* other programs do in between, and death and turns are as in Processes;  *)
(* and about the conversions of numbers that the commands rest on.         *)
(***************************************************************************)
EXTENDS Console, ProcessesProofs, FiniteSetTheorems

-----------------------------------------------------------------------------
(* The conversions of libc.c, for any width of an int: each is the loop of *)
(* the code, and there is no induction over numbers here but that a set of *)
(* counterexamples would have a least one.                                 *)

LEMMA LeastOf ==
  ASSUME NEW T, T \subseteq Nat, T # {}
  PROVE  \E n \in T : \A m \in T : n <= m
<1> DEFINE R == OpToRel(<, Nat)
<1>1. IsWellFoundedOn(R, Nat)
  BY NatLessThanWellFounded
<1>2. PICK n \in T : \A m \in T : ~(<<m, n>> \in R)
  BY <1>1, WFMin
<1>3. \A m \in T : ~(m < n)
  BY <1>2 DEF OpToRel
<1> QED
  BY <1>3

LEMMA TopType == Top \in Nat \ {0}
<1>1. Width - 1 \in Nat
  BY WidthAssumption
<1> DEFINE n == Width - 1
<1>2. IsFiniteSet(1 .. n) /\ Cardinality(1 .. n) = n
  BY <1>1, FS_Interval
<1>3. IsFiniteSet(SUBSET (1 .. n)) /\ Cardinality(SUBSET (1 .. n)) = 2 ^ n
  BY <1>2, FS_SUBSET
<1>4. SUBSET (1 .. n) # {}
  OBVIOUS
<1> QED
  BY <1>3, <1>4, FS_CardinalityType, FS_EmptySet DEF Top

\* Wrap keeps what an int can hold, and takes what it cannot hold into the type.
LEMMA Wraps ==
  /\ \A n \in Int : Wrap(n) \in Ints
  /\ \A n \in Ints : Wrap(n) = n
  /\ Wrap(Top) = -Top
<1>1. Top \in Int /\ 0 < Top
  BY TopType
<1> HIDE DEF Top
<1>2. ASSUME NEW n \in Int
      PROVE  Wrap(n) \in Ints
  <2>1. n + Top \in Int /\ 2 * Top \in Int /\ 0 < 2 * Top
    BY <1>1
  <2>2. (n + Top) % (2 * Top) \in 0 .. 2 * Top - 1
    BY <2>1
  <2> QED
    BY <1>1, <2>2 DEF Wrap, Ints
<1>3. ASSUME NEW n \in Ints
      PROVE  Wrap(n) = n
  <2>1. n \in Int /\ 0 <= n + Top /\ n + Top < 2 * Top
    BY <1>1 DEF Ints
  <2>2. (n + Top) % (2 * Top) = n + Top
    BY <1>1, <2>1
  <2> QED
    BY <1>1, <2>1, <2>2 DEF Wrap
<1>4. Wrap(Top) = -Top
  <2>1. (2 * Top) % (2 * Top) = 0 /\ Top + Top = 2 * Top
    BY <1>1
  <2> QED
    BY <1>1, <2>1 DEF Wrap
<1> QED
  BY <1>2, <1>3, <1>4

-----------------------------------------------------------------------------
(* atoii                                                                   *)

\* The loop of atoii, over the characters p, with or without a minus sign.
Digits(minus, p, r, k) ==
  IF k = 0 THEN 0
  ELSE LET digit == p[k] - Zero
       IN Wrap(IF minus THEN r[k - 1] * 10 - digit ELSE r[k - 1] * 10 + digit)

Loop(minus, p) == CHOOSE r : r = [k \in 0 .. Len(p) |-> Digits(minus, p, r, k)]

\* What it computes of them.
Value(minus, p) == Loop(minus, p)[Len(p)]

LEMMA DigitsType ==
  ASSUME NEW minus \in BOOLEAN, NEW p \in Seq(Int), NEW r, NEW k \in 0 .. Len(p),
         k # 0 => r[k - 1] \in Int
  PROVE  Digits(minus, p, r, k) \in Ints
<1>1. CASE k = 0
  BY <1>1, TopType DEF Digits, Ints
<1>2. CASE k # 0
  <2>1. Len(p) \in Nat /\ k \in 1 .. Len(p)
    BY <1>2, LenProperties
  <2>2. p[k] \in Int /\ r[k - 1] \in Int
    BY <1>2, <2>1, ElementOfSeq
  <2>3. (IF minus THEN r[k - 1] * 10 - (p[k] - Zero) ELSE r[k - 1] * 10 + (p[k] - Zero)) \in Int
    BY <2>2 DEF Zero
  <2> QED
    BY <1>2, <2>3, Wraps DEF Digits
<1> QED
  BY <1>1, <1>2

\* The loop ends for a string of any length: its values exist, one after the other.
LEMMA LoopRuns ==
  ASSUME NEW minus \in BOOLEAN, NEW p \in Seq(Int)
  PROVE  \A n \in 0 .. Len(p) :
           \E r : r = [k \in 0 .. n |-> Digits(minus, p, r, k)]
<1> DEFINE T == {n \in 0 .. Len(p) : ~ \E r : r = [k \in 0 .. n |-> Digits(minus, p, r, k)]}
<1> SUFFICES ASSUME T # {} PROVE FALSE
  OBVIOUS
<1>1. Len(p) \in Nat /\ T \subseteq Nat
  BY LenProperties
<1>2. PICK n \in T : \A m \in T : n <= m
  <2> HIDE DEF T
  <2> QED
    BY <1>1, LeastOf
<1>3. n \in 0 .. Len(p) /\ n \in Nat
  BY <1>1
<1>4. n # 0
  <2> SUFFICES ASSUME n = 0 PROVE FALSE
    OBVIOUS
  <2> DEFINE r == [k \in 0 .. n |-> 0]
  <2>1. \A k \in 0 .. n : Digits(minus, p, r, k) = 0
    BY DEF Digits
  <2>2. r = [k \in 0 .. n |-> Digits(minus, p, r, k)]
    BY <2>1
  <2> QED
    BY <2>2
<1>5. PICK r : r = [k \in 0 .. n - 1 |-> Digits(minus, p, r, k)]
  <2>1. n - 1 \in 0 .. Len(p) /\ ~(n <= n - 1)
    BY <1>1, <1>3, <1>4
  <2>2. n - 1 \notin T
    BY <1>2, <2>1
  <2> QED
    BY <2>1, <2>2
<1> DEFINE longer == [k \in 0 .. n |-> IF k = n THEN Digits(minus, p, r, n) ELSE r[k]]
<1>6. \A k \in 0 .. n : Digits(minus, p, longer, k) = Digits(minus, p, r, k)
  <2> SUFFICES ASSUME NEW k \in 0 .. n, k # 0
               PROVE  longer[k - 1] = r[k - 1]
    BY DEF Digits
  <2>1. k - 1 \in 0 .. n /\ k - 1 # n
    BY <1>3
  <2> QED
    BY <2>1
<1>7. \A k \in 0 .. n : longer[k] = Digits(minus, p, r, k)
  <2> SUFFICES ASSUME NEW k \in 0 .. n, k # n
               PROVE  r[k] = Digits(minus, p, r, k)
    OBVIOUS
  <2>1. k \in 0 .. n - 1
    BY <1>3
  <2> QED
    BY <1>5, <2>1
<1>8. longer = [k \in 0 .. n |-> Digits(minus, p, longer, k)]
  <2> HIDE DEF longer
  <2>1. longer = [k \in 0 .. n |-> longer[k]]
    BY DEF longer
  <2> QED
    BY <1>6, <1>7, <2>1
<1> QED
  BY <1>2, <1>8

\* One turn of the loop after another, and every value is an int.
LEMMA LoopIs ==
  ASSUME NEW minus \in BOOLEAN, NEW p \in Seq(Int)
  PROVE  /\ Len(p) \in Nat
         /\ \A k \in 0 .. Len(p) :
              /\ Loop(minus, p)[k] = Digits(minus, p, Loop(minus, p), k)
              /\ Loop(minus, p)[k] \in Ints
<1> DEFINE r == Loop(minus, p)
<1>1. Len(p) \in Nat /\ Len(p) \in 0 .. Len(p)
  BY LenProperties
<1>2. \A k \in 0 .. Len(p) : r[k] = Digits(minus, p, r, k)
  <2>1. r = [k \in 0 .. Len(p) |-> Digits(minus, p, r, k)]
    BY <1>1, LoopRuns DEF Loop
  <2> HIDE DEF r
  <2> QED
    BY <2>1
<1> DEFINE T == {k \in 0 .. Len(p) : r[k] \notin Ints}
<1> HIDE DEF r
<1>3. T = {}
  <2> SUFFICES ASSUME T # {} PROVE FALSE
    OBVIOUS
  <2>1. T \subseteq Nat
    BY <1>1
  <2>2. PICK n \in T : \A m \in T : n <= m
    <3> HIDE DEF T
    <3> QED
      BY <2>1, LeastOf
  <2>3. n \in 0 .. Len(p) /\ n \in Nat /\ r[n] \notin Ints
    BY <1>1
  <2>4. n # 0 => r[n - 1] \in Int
    <3> SUFFICES ASSUME n # 0 PROVE n - 1 \notin T /\ n - 1 \in 0 .. Len(p)
      BY TopType DEF Ints
    <3>1. n - 1 \in 0 .. Len(p) /\ ~(n <= n - 1)
      BY <1>1, <2>3
    <3> QED
      BY <2>2, <3>1
  <2> QED
    BY <1>2, <2>3, <2>4, DigitsType
<1> QED
  BY <1>1, <1>2, <1>3 DEF r

\* The value of a longer string, from that of the string without its last character.
LEMMA ValueOfAppend ==
  ASSUME NEW minus \in BOOLEAN, NEW p \in Seq(Int), NEW c \in Int
  PROVE  Value(minus, Append(p, c)) =
           Wrap(IF minus THEN Value(minus, p) * 10 - (c - Zero)
                         ELSE Value(minus, p) * 10 + (c - Zero))
<1> DEFINE q == Append(p, c)
           n == Len(p)
           r == Loop(minus, p)
           l == Loop(minus, q)
<1>1. /\ q \in Seq(Int) /\ Len(q) = n + 1 /\ n \in Nat
      /\ \A k \in 1 .. n : q[k] = p[k]
      /\ q[n + 1] = c
  BY AppendProperties, LenProperties
<1>2. \A k \in 0 .. n : r[k] = Digits(minus, p, r, k)
  BY LoopIs
<1>3. \A k \in 0 .. n + 1 : l[k] = Digits(minus, q, l, k)
  BY <1>1, LoopIs
<1> HIDE DEF q, n, r, l
<1> DEFINE T == {k \in 0 .. n : l[k] # r[k]}
<1>4. T = {}
  <2> SUFFICES ASSUME T # {} PROVE FALSE
    OBVIOUS
  <2>1. T \subseteq Nat
    BY <1>1
  <2>2. PICK m \in T : \A j \in T : m <= j
    <3> HIDE DEF T
    <3> QED
      BY <2>1, LeastOf
  <2>3. m \in 0 .. n /\ m \in Nat /\ l[m] # r[m]
    BY <1>1
  <2>4. m # 0 => l[m - 1] = r[m - 1] /\ q[m] = p[m]
    <3> SUFFICES ASSUME m # 0 PROVE m - 1 \notin T /\ m - 1 \in 0 .. n /\ m \in 1 .. n
      BY <1>1
    <3>1. m - 1 \in 0 .. n /\ m \in 1 .. n /\ ~(m <= m - 1)
      BY <1>1, <2>3
    <3> QED
      BY <2>2, <3>1
  <2>5. Digits(minus, q, l, m) = Digits(minus, p, r, m)
    BY <2>4 DEF Digits
  <2>6. m \in 0 .. n + 1
    BY <1>1, <2>3
  <2> QED
    BY <1>2, <1>3, <2>3, <2>5, <2>6
<1>5. n \in 0 .. n /\ n + 1 \in 0 .. n + 1 /\ n + 1 # 0 /\ (n + 1) - 1 = n
  BY <1>1
<1>6. l[n] = r[n]
  BY <1>4, <1>5
<1>7. l[n + 1] = Wrap(IF minus THEN r[n] * 10 - (c - Zero) ELSE r[n] * 10 + (c - Zero))
  BY <1>1, <1>3, <1>5, <1>6 DEF Digits
<1> QED
  BY <1>1, <1>7 DEF Value, q, n, r, l

LEMMA ValueType ==
  ASSUME NEW minus \in BOOLEAN, NEW p \in Seq(Int)
  PROVE  Value(minus, p) \in Ints /\ Value(minus, <<>>) = 0
<1>1. Value(minus, p) \in Ints
  BY LoopIs DEF Value
<1>2. <<>> \in Seq(Int) /\ Len(<<>>) = 0
  OBVIOUS
<1> DEFINE e == <<>>
<1>3. e \in Seq(Int) /\ Len(e) = 0
  BY <1>2
<1> HIDE DEF e
<1>4. 0 \in 0 .. Len(e)
  BY <1>3
<1>5. Loop(minus, e)[0] = Digits(minus, e, Loop(minus, e), 0)
  BY <1>3, <1>4, LoopIs
<1>6. Value(minus, e) = 0
  BY <1>3, <1>5 DEF Value, Digits
<1> QED
  BY <1>1, <1>6 DEF e

LEMMA AtoiiIs ==
  ASSUME NEW s \in Seq(Int)
  PROVE  atoii(s) = IF s # <<>> /\ s[1] = Minus THEN Value(TRUE, Tail(s))
                    ELSE Value(FALSE, IF s # <<>> /\ s[1] = Plus THEN Tail(s) ELSE s)
<1> DEFINE minus == s # <<>> /\ s[1] = Minus
           p     == IF s # <<>> /\ s[1] \in {Minus, Plus} THEN Tail(s) ELSE s
<1>1. atoii(s) = Value(minus, p)
  BY DEF atoii, Value, Loop, Digits
<1> QED
  BY <1>1

\* atoii gives an int for any string.
LEMMA ConversionType ==
  ASSUME NEW s \in Seq(Int)
  PROVE  atoii(s) \in Int
<1>1. s # <<>> => Tail(s) \in Seq(Int)
  BY HeadTailProperties
<1>2. Ints \subseteq Int
  BY TopType DEF Ints
<1> QED
  BY <1>1, <1>2, AtoiiIs, ValueType
-----------------------------------------------------------------------------
(* itoa                                                                    *)

\* A digit, and what is left when it is written.
Divided(t, q, d) ==
  /\ q \in Int /\ d \in Int /\ t = 10 * q + d
  /\ t >= 0 => 0 <= q /\ q <= t /\ 0 <= d /\ d <= 9
  /\ t <= 0 => t <= q /\ q <= 0
  /\ t # 0 => q # t

LEMMA Divides ==
  ASSUME NEW t \in Int
  PROVE  Divided(t, Quotient(t, 10), Remainder(t, 10))
<1>1. CASE t >= 0
  BY <1>1 DEF Quotient, Remainder, Divided
<1>2. CASE t < 0
  <2> DEFINE u == -t
  <2>1. u \in Nat /\ u > 0 /\ t = -u
    BY <1>2
  <2>2. /\ u \div 10 \in 0 .. u /\ u \div 10 < u
    BY <2>1
  <2>3. Quotient(t, 10) = -(u \div 10)
    BY <1>2 DEF Quotient
  <2> HIDE DEF u
  <2> QED
    BY <1>2, <2>1, <2>2, <2>3 DEF Remainder, Divided
<1> QED
  BY <1>1, <1>2

\* The loop of itoa, for t.
Writes(f, t) ==
  Append(IF Quotient(t, 10) = 0 THEN <<>> ELSE f[Quotient(t, 10)], Zero + Remainder(t, 10))

UpTo(m) == {t \in Ints : -m <= t /\ t <= m}

LEMMA LeftIsLess ==
  ASSUME NEW m \in Nat, NEW t \in UpTo(m), Quotient(t, 10) # 0
  PROVE  m # 0 /\ Quotient(t, 10) \in UpTo(m - 1) /\ Quotient(t, 10) \in Ints
<1>1. t \in Int /\ t \in -Top .. Top - 1 /\ -m <= t /\ t <= m /\ Top \in Int
  BY TopType DEF UpTo, Ints
<1> DEFINE q == Quotient(t, 10)
           d == Remainder(t, 10)
<1>2. Divided(t, q, d) /\ q # 0
  BY <1>1, Divides
<1> HIDE DEF q, d
<1>3. t # 0 /\ q \in Int /\ (t > 0 => 0 < q /\ q < t) /\ (t < 0 => q < 0 /\ t < q)
  BY <1>1, <1>2 DEF Divided
<1>4. q \in Ints /\ m # 0 /\ -(m - 1) <= q /\ q <= m - 1
  BY <1>1, <1>2, <1>3 DEF Ints
<1> QED
  BY <1>4 DEF UpTo, q

\* The loop ends for every int: what it writes exists, number after number.
LEMMA NumeralRuns ==
  \A n \in Nat : \E f : f = [t \in UpTo(n) |-> Writes(f, t)]
<1> DEFINE T == {n \in Nat : ~ \E f : f = [t \in UpTo(n) |-> Writes(f, t)]}
<1> SUFFICES ASSUME T # {} PROVE FALSE
  OBVIOUS
<1>1. PICK n \in T : \A m \in T : n <= m
  <2>1. T \subseteq Nat
    OBVIOUS
  <2> HIDE DEF T
  <2> QED
    BY <2>1, LeastOf
<1>2. n \in Nat
  OBVIOUS
<1>3. n # 0
  <2> SUFFICES ASSUME n = 0 PROVE FALSE
    OBVIOUS
  <2> DEFINE f == [t \in UpTo(n) |-> Writes(<<>>, t)]
  <2>1. \A t \in UpTo(n) : Writes(f, t) = Writes(<<>>, t)
    <3>1. \A t \in UpTo(n) : Quotient(t, 10) = 0
      BY LeftIsLess
    <3> QED
      BY <3>1 DEF Writes
  <2>2. f = [t \in UpTo(n) |-> Writes(f, t)]
    <3>1. f = [t \in UpTo(n) |-> Writes(<<>>, t)]
      OBVIOUS
    <3> HIDE DEF f
    <3> QED
      BY <2>1, <3>1
  <2> QED
    BY <2>2
<1>4. PICK f : f = [t \in UpTo(n - 1) |-> Writes(f, t)]
  <2>1. n - 1 \in Nat /\ ~(n <= n - 1)
    BY <1>2, <1>3
  <2>2. n - 1 \notin T
    BY <1>1, <2>1
  <2> QED
    BY <2>1, <2>2
<1> DEFINE longer == [t \in UpTo(n) |-> IF t \in UpTo(n - 1) THEN f[t] ELSE Writes(f, t)]
<1>5. UpTo(n - 1) \subseteq UpTo(n)
  BY <1>2, TopType DEF UpTo, Ints
<1>6. \A t \in UpTo(n) : Writes(longer, t) = Writes(f, t)
  <2> SUFFICES ASSUME NEW t \in UpTo(n), Quotient(t, 10) # 0
               PROVE  longer[Quotient(t, 10)] = f[Quotient(t, 10)]
    BY DEF Writes
  <2>1. Quotient(t, 10) \in UpTo(n - 1)
    BY <1>2, LeftIsLess
  <2> QED
    BY <1>5, <2>1
<1>7. \A t \in UpTo(n) : longer[t] = Writes(f, t)
  <2> SUFFICES ASSUME NEW t \in UpTo(n - 1)
               PROVE  f[t] = Writes(f, t)
    OBVIOUS
  <2> QED
    BY <1>4
<1>8. longer = [t \in UpTo(n) |-> Writes(longer, t)]
  <2>1. longer = [t \in UpTo(n) |-> longer[t]]
    OBVIOUS
  <2> HIDE DEF longer
  <2> QED
    BY <1>6, <1>7, <2>1
<1> QED
  BY <1>1, <1>8

LEMMA NumeralIs == \A t \in Ints : Numeral[t] = Writes(Numeral, t)
<1>1. UpTo(Top) = Ints /\ Top \in Nat
  BY TopType DEF UpTo, Ints
<1>2. \E f : f = [t \in Ints |-> Writes(f, t)]
  BY <1>1, NumeralRuns
<1>3. Numeral = CHOOSE f : f = [t \in Ints |-> Writes(f, t)]
  BY DEF Numeral, Writes
<1>4. Numeral = [t \in Ints |-> Writes(Numeral, t)]
  <2> HIDE DEF Numeral
  <2> QED
    BY <1>2, <1>3
<1> HIDE DEF Numeral
<1> QED
  BY <1>4

\* What is written for t is a string with the value t, of digits if t is not
\* negative, and with no zeroes in front.
Right(t) ==
  /\ Numeral[t] \in Seq(Int) /\ Numeral[t] # <<>>
  /\ Value(TRUE, Numeral[t]) = Wrap(-t) /\ Value(FALSE, Numeral[t]) = Wrap(t)
  /\ t >= 0 => /\ \A i \in DOMAIN Numeral[t] : Numeral[t][i] \in Zero .. Zero + 9
               /\ Numeral[t][1] = Zero => t = 0

LEMMA NumeralStep ==
  ASSUME NEW t \in Ints, Quotient(t, 10) # 0 => Quotient(t, 10) \in Ints /\ Right(Quotient(t, 10))
  PROVE  Right(t)
<1> DEFINE q == Quotient(t, 10)
           d == Remainder(t, 10)
           p == IF q = 0 THEN <<>> ELSE Numeral[q]
           c == Zero + d
<1>0. t \in Int
  BY TopType DEF Ints
<1>1. Divided(t, q, d)
  BY <1>0, Divides
<1>2. Numeral[t] = Append(p, c)
  BY NumeralIs DEF Writes
<1>3. q # 0 => q \in Ints /\ Right(q)
  OBVIOUS
<1> HIDE DEF q, d
<1>4. p \in Seq(Int) /\ c \in Int /\ c - Zero = d
  <2>1. c \in Int /\ c - Zero = d
    BY <1>1 DEF Zero, Divided
  <2>2. CASE q = 0
    <3>1. p = <<>>
      BY <2>2
    <3> HIDE DEF p
    <3>2. p \in Seq(Int)
      BY <3>1
    <3> QED
      BY <2>1, <3>2
  <2>3. CASE q # 0
    <3>1. p = Numeral[q]
      BY <2>3
    <3> QED
      BY <1>3, <2>1, <2>3, <3>1 DEF Right
  <2> QED
    BY <2>2, <2>3
<1>5. Value(TRUE, p) = -q /\ Value(FALSE, p) = q
  <2>1. CASE q = 0
    <3>1. p = <<>>
      BY <2>1
    <3> HIDE DEF p
    <3>2. TRUE \in BOOLEAN /\ FALSE \in BOOLEAN
      OBVIOUS
    <3>3. Value(TRUE, <<>>) = 0 /\ Value(FALSE, <<>>) = 0
      BY <1>4, <3>2, ValueType
    <3>4. -q = 0
      <4>1. \A n \in Int : n <= 0 /\ 0 <= n => -n <= 0 /\ 0 <= -n /\ -n \in Int
        OBVIOUS
      <4>2. q \in Int /\ q <= 0 /\ 0 <= q
        BY <2>1
      <4>3. -q <= 0 /\ 0 <= -q /\ -q \in Int
        BY <4>1, <4>2
      <4> QED
        BY <4>3
    <3> QED
      BY <2>1, <3>1, <3>3, <3>4
  <2>2. CASE q # 0
    <3>1. q \in Ints /\ -q \in Ints
      <4>1. q # t /\ (t >= 0 => 0 <= q /\ q <= t) /\ (t <= 0 => t <= q /\ q <= 0)
        BY <1>0, <1>1, <2>2 DEF Divided
      <4>2. Top \in Int /\ -Top <= t /\ t <= Top - 1
        BY TopType DEF Ints
      <4> QED
        BY <1>0, <1>3, <2>2, <4>1, <4>2 DEF Ints
    <3> QED
      BY <1>3, <2>2, <3>1, Wraps DEF Right
  <2> QED
    BY <2>1, <2>2
<1> HIDE DEF c
<1>6. Value(TRUE, Append(p, c)) = Wrap(-t) /\ Value(FALSE, Append(p, c)) = Wrap(t)
  <2>1. (-q) * 10 - d = -t /\ q * 10 + d = t
    BY <1>1 DEF Divided
  <2>2. /\ Value(TRUE, Append(p, c)) = Wrap(Value(TRUE, p) * 10 - (c - Zero))
        /\ Value(FALSE, Append(p, c)) = Wrap(Value(FALSE, p) * 10 + (c - Zero))
    <3> HIDE DEF p
    <3> QED
      BY <1>4, ValueOfAppend
  <2> QED
    BY <1>4, <1>5, <2>1, <2>2
<1>7. /\ Append(p, c) \in Seq(Int) /\ Append(p, c) # <<>>
      /\ DOMAIN Append(p, c) = 1 .. Len(p) + 1 /\ Len(p) \in Nat
      /\ \A i \in 1 .. Len(p) : Append(p, c)[i] = p[i]
      /\ Append(p, c)[Len(p) + 1] = c
  <2> HIDE DEF p
  <2> QED
    BY <1>4, AppendProperties, LenProperties
<1>8. ASSUME t >= 0
      PROVE  /\ \A i \in DOMAIN Append(p, c) : Append(p, c)[i] \in Zero .. Zero + 9
             /\ Append(p, c)[1] = Zero => t = 0
  <2>1. c \in Zero .. Zero + 9
    BY <1>0, <1>1, <1>4, <1>8 DEF c, Zero, Divided
  <2>2. CASE q = 0
    <3>1. Len(p) = 0
      BY <2>2
    <3>2. Append(p, c)[1] = Zero => t = 0
      <4>1. Append(p, c)[1] = c
        BY <1>7, <3>1
      <4>2. c = Zero => t = 0
        BY <1>0, <1>1, <1>4, <2>2 DEF Zero, Divided
      <4> QED
        BY <4>1, <4>2
    <3>3. \A i \in 1 .. Len(p) + 1 : i = Len(p) + 1
      BY <3>1
    <3> QED
      BY <1>7, <2>1, <3>2, <3>3
  <2>3. CASE q # 0
    <3>1. p = Numeral[q]
      BY <2>3
    <3>2. q >= 0
      BY <1>0, <1>1, <1>8 DEF Divided
    <3> HIDE DEF p
    <3>3. p # <<>> /\ Right(q)
      BY <1>3, <2>3, <3>1 DEF Right
    <3>4. Len(p) >= 1 /\ DOMAIN p = 1 .. Len(p)
      BY <1>4, <3>3, LenProperties, EmptySeq
    <3>5. \A i \in 1 .. Len(p) : p[i] \in Zero .. Zero + 9
      BY <3>1, <3>2, <3>3, <3>4 DEF Right
    <3>6. Append(p, c)[1] # Zero
      <4>1. p[1] # Zero
        BY <2>3, <3>1, <3>2, <3>3 DEF Right
      <4> QED
        BY <1>7, <3>4, <4>1
    <3>7. \A i \in 1 .. Len(p) + 1 : i \in 1 .. Len(p) \/ i = Len(p) + 1
      BY <1>7
    <3> QED
      BY <1>7, <2>1, <3>5, <3>6, <3>7
  <2> QED
    BY <2>2, <2>3
<1> QED
  BY <1>2, <1>6, <1>7, <1>8 DEF Right

LEMMA NumeralRight == \A t \in Ints : Right(t)
<1> DEFINE T == {n \in Nat : \E t \in UpTo(n) : ~Right(t)}
<1>1. T = {}
  <2> SUFFICES ASSUME T # {} PROVE FALSE
    OBVIOUS
  <2>1. PICK n \in T : \A m \in T : n <= m
    <3>1. T \subseteq Nat
      OBVIOUS
    <3> HIDE DEF T
    <3> QED
      BY <3>1, LeastOf
  <2>2. PICK t \in UpTo(n) : ~Right(t)
    OBVIOUS
  <2>3. ASSUME Quotient(t, 10) # 0
        PROVE  Quotient(t, 10) \in Ints /\ Right(Quotient(t, 10))
    <3>1. n \in Nat /\ n # 0 /\ Quotient(t, 10) \in UpTo(n - 1) /\ Quotient(t, 10) \in Ints
      BY <2>3, LeftIsLess
    <3>2. n - 1 \in Nat /\ ~(n <= n - 1)
      BY <3>1
    <3>3. n - 1 \notin T
      BY <2>1, <3>2
    <3> QED
      BY <3>1, <3>2, <3>3
  <2>4. t \in Ints
    BY DEF UpTo
  <2> QED
    BY <2>2, <2>3, <2>4, NumeralStep
<1>2. UpTo(Top) = Ints /\ Top \in Nat
  BY TopType DEF UpTo, Ints
<1> QED
  BY <1>1, <1>2

\* atoii undoes itoa, and itoa writes numerals, for ints of any width.
THEOREM ConversionsRight == RoundTrip /\ WritesNumerals
<1>1. Top \in Int /\ 0 < Top
  BY TopType
<1> HIDE DEF Top
<1>2. ASSUME NEW v \in Ints, v >= 0
      PROVE  itoa(v) = Numeral[v] /\ atoii(itoa(v)) = v
  <2>1. itoa(v) = Numeral[v]
    BY <1>1, <1>2 DEF itoa, Ints
  <2>2. Right(v)
    BY NumeralRight
  <2>3. 1 \in DOMAIN Numeral[v]
    <3>1. Numeral[v] \in Seq(Int) /\ Numeral[v] # <<>>
      BY <2>2 DEF Right
    <3> QED
      BY <3>1, LenProperties, EmptySeq
  <2>4. Numeral[v][1] # Minus /\ Numeral[v][1] # Plus
    <3>1. Numeral[v][1] \in Zero .. Zero + 9
      BY <1>2, <2>2, <2>3 DEF Right
    <3> QED
      BY <3>1 DEF Zero, Minus, Plus
  <2>5. atoii(Numeral[v]) = Value(FALSE, Numeral[v])
    BY <2>2, <2>4, AtoiiIs DEF Right
  <2> QED
    BY <2>1, <2>2, <2>5, Wraps DEF Right
<1>3. ASSUME NEW v \in Ints, v < 0
      PROVE  /\ Tail(itoa(v)) = Numeral[Wrap(-v)] /\ atoii(itoa(v)) = v
  <2> DEFINE t == Wrap(-v)
             s == <<Minus>> \o Numeral[t]
  <2>1. v \in Int /\ -v \in Int /\ t \in Ints
    BY <1>1, Wraps DEF Ints
  <2>2. Wrap(-t) = v
    <3>1. CASE v = -Top
      <4>1. -v = Top
        BY <1>1, <3>1
      <4>2. -t = Top
        BY <1>1, <4>1, Wraps
      <4> QED
        BY <3>1, <4>2, Wraps
    <3>2. CASE v # -Top
      <4>1. -v \in Ints
        BY <1>1, <1>3, <3>2 DEF Ints
      <4>2. t = -v
        BY <4>1, Wraps
      <4>3. -t = v
        BY <2>1, <4>2
      <4> QED
        BY <4>3, Wraps
    <3> QED
      BY <3>1, <3>2
  <2>3. itoa(v) = s
    BY <1>3 DEF itoa
  <2>4. Right(t)
    BY <2>1, NumeralRight
  <2> HIDE DEF t
  <2>5. Numeral[t] \in Seq(Int)
    BY <2>4 DEF Right
  <2> DEFINE n == Numeral[t]
  <2> HIDE DEF n
  <2>6. n \in Seq(Int) /\ Minus \in Int
    BY <2>5 DEF n, Minus
  <2>7. /\ <<Minus>> \o n \in Seq(Int) /\ <<Minus>> \o n # <<>>
        /\ (<<Minus>> \o n)[1] = Minus /\ Tail(<<Minus>> \o n) = n
    BY <2>6
  <2>8. atoii(s) = Value(TRUE, n)
    BY <2>7, AtoiiIs DEF n
  <2> QED
    BY <2>2, <2>3, <2>4, <2>7, <2>8 DEF Right, n, t
<1>4. RoundTrip
  <2>1. \A v \in Ints : v >= 0 \/ v < 0
    BY <1>1 DEF Ints
  <2> QED
    BY <1>2, <1>3, <2>1 DEF RoundTrip
<1>5. WritesNumerals
  <2> SUFFICES ASSUME NEW v \in Ints \ {-Top}
               PROVE  LET digits == IF v < 0 THEN Tail(itoa(v)) ELSE itoa(v) IN
                      /\ \A i \in DOMAIN digits : digits[i] \in Zero .. Zero + 9
                      /\ digits[1] = Zero => v = 0
    BY DEF WritesNumerals
  <2>1. v \in Int
    BY <1>1 DEF Ints
  <2>2. CASE v >= 0
    <3>1. Right(v) /\ itoa(v) = Numeral[v] /\ ~(v < 0)
      BY <1>2, <2>1, <2>2, NumeralRight
    <3> QED
      BY <2>2, <3>1 DEF Right
  <2>3. CASE v < 0
    <3>1. -v \in Ints /\ -v >= 0 /\ -v # 0
      BY <1>1, <2>3 DEF Ints
    <3>2. Tail(itoa(v)) = Numeral[-v]
      BY <1>3, <2>3, <3>1, Wraps
    <3>3. Right(-v)
      BY <3>1, NumeralRight
    <3> QED
      BY <2>3, <3>1, <3>2, <3>3 DEF Right
  <2>4. v >= 0 \/ v < 0
    BY <2>1
  <2> QED
    BY <2>2, <2>3, <2>4
<1> QED
  BY <1>4, <1>5

-----------------------------------------------------------------------------
(* The invariant of the shell.                                             *)

\* A child of fork that has not used its registers since.
IsNew(c) == c.at = "fork" /\ c.r0 = 0

\* The processes that wait, and the one that executes: pids with their registers.
Waits == {<<queue[i].pid, queue[i].ctx>> : i \in DOMAIN queue}
Now   == <<curr_prog.pid, ctx>>

\* The console is process 1; what else runs its image is a new child of it.
Role(e) ==
  /\ e[1] = 1 => e[2].prog = Console
  /\ e[2].prog = Console => (e[1] = 1 <=> ~IsNew(e[2]))

Roles ==
  /\ \A e \in Waits : Role(e)
  /\ mode \notin {"fork", "exec", "kill"} => Role(Now)
  /\ mode \in {"exit", "getpid", "yield", "nice"} => ctx.prog # Console
  /\ mode = "fork" => ctx.at = "fork" /\ (curr_prog.pid = 1 <=> ctx.prog = Console)
  /\ mode = "kill" => curr_prog.pid = 1 /\ ctx.prog = Console /\ ctx.at = "run"
  /\ mode = "exec" => curr_prog.pid # 1 /\ ctx.r0 # Console /\ ctx.at = "run"

\* Until the machine ends nobody stops the console, and the kernel finds it.
Alive == PidsUnique /\ mode # "hung" /\ 1 \in LivePids

\* The arguments of a line: no token is empty.
Words == Seq(Seq(Int) \ {NULL})

ShellTyped == Typed /\ x.args \in Words /\ num \in Int

ShellInv == mode = "und" \/ (ShellTyped /\ Alive /\ Roles)

-----------------------------------------------------------------------------
(* What the kernel's steps do to those who wait and the one that executes. *)

\* The scheduler changes nobody's registers, and forgets nobody who is live.
LEMMA SwitchStep ==
  ASSUME Typed, hilevel_handler_irq \/ svc_exit
  PROVE  /\ mode' \in {"usr", "hung"}
         /\ mode' = "usr" => Waits' \cup {Now'} \subseteq Waits \cup {Now}
         /\ \A p \in LivePids :
              (svc_exit => p # curr_prog.pid) => mode' = "usr" /\ p \in LivePids'
<1>1. mode # "hung" /\ UNCHANGED <<curr_pid, stack>>
  BY SchedulerCalls
<1>0. PICK status \in {"EXECUTING", "TERMINATED"} :
        /\ scheduler([Saved EXCEPT !.status = status])
        /\ ~svc_exit => status = "EXECUTING"
  <2>1. CASE hilevel_handler_irq
    <3>1. mode = "usr" /\ scheduler(Saved)
      BY <2>1 DEF hilevel_handler_irq
    <3>2. Saved = [Saved EXCEPT !.status = "EXECUTING"]
      BY <3>1 DEF Typed, TypeOK, Saved, PCB
    <3> QED
      BY <3>1, <3>2
  <2>2. CASE svc_exit
    BY <2>2 DEF svc_exit
  <2> QED
    BY <2>1, <2>2
<1>2. PICK q \in Seq(PCB) :
        /\ status = "EXECUTING" => Len(q) > Len(queue)
        /\ Candidates(q)
        /\ (\E k \in 1 .. Len(q) : Runs(q, k)) \/ Stops(q)
  BY <1>0, <1>1, SchedulerStep
<1>3. /\ Len(q) \in Nat /\ Len(queue) \in Nat /\ DOMAIN queue = 1 .. Len(queue)
  BY LenProperties DEF Typed, TypeOK
<1>4. DOMAIN queue' = 1 .. Len(queue')
  <2>1. Typed'
    BY <1>0, <1>1, SchedulerTyped
  <2> QED
    BY <2>1, LenProperties DEF Typed, TypeOK
<1>5. \A k \in 1 .. Len(q) : <<q[k].pid, q[k].ctx>> \in Waits \cup {Now}
  <2> SUFFICES ASSUME NEW k \in 1 .. Len(q)
               PROVE  <<q[k].pid, q[k].ctx>> \in Waits \cup {Now}
    OBVIOUS
  <2>1. CASE k \in 1 .. Len(queue) /\ q[k] = queue[k]
    BY <1>3, <2>1 DEF Waits
  <2>2. CASE q[k].pid = curr_prog.pid /\ q[k].ctx = ctx
    BY <2>2 DEF Now
  <2> QED
    BY <1>2, <2>1, <2>2 DEF Candidates
<1>6. \A p \in LivePids : (svc_exit => p # curr_prog.pid) =>
        \E k \in 1 .. Len(q) : q[k].pid = p /\ q[k].status = "READY"
  <2> SUFFICES ASSUME NEW p \in LivePids, svc_exit => p # curr_prog.pid
               PROVE  \E k \in 1 .. Len(q) : q[k].pid = p /\ q[k].status = "READY"
    OBVIOUS
  <2>1. CASE p = curr_prog.pid
    <3>1. Len(queue) + 1 \in 1 .. Len(q)
      BY <1>0, <1>2, <1>3, <2>1
    <3>2. Len(queue) + 1 \notin 1 .. Len(queue)
      BY <1>3
    <3> QED
      BY <1>2, <2>1, <3>1, <3>2 DEF Candidates
  <2>2. CASE p # curr_prog.pid
    <3>1. PICK i \in 1 .. Len(queue) : queue[i].pid = p /\ queue[i].status = "READY"
      BY <1>1, <1>3, <2>2 DEF LivePids
    <3>2. i \in 1 .. Len(q) /\ i # Len(queue) + 1
      BY <1>2, <1>3 DEF Candidates
    <3>3. q[i] = queue[i]
      BY <1>2, <3>2 DEF Candidates
    <3> QED
      BY <3>1, <3>2, <3>3
  <2> QED
    BY <2>1, <2>2
<1>7. ASSUME NEW k \in 1 .. Len(q), Runs(q, k)
      PROVE  /\ mode' = "usr"
             /\ Waits' \cup {Now'} \subseteq Waits \cup {Now}
             /\ \A p \in LivePids : (svc_exit => p # curr_prog.pid) => p \in LivePids'
  <2>1. \A i \in DOMAIN queue' : k + i \in 1 .. Len(q) /\ queue'[i] = q[k + i]
    BY <1>3, <1>4, <1>7 DEF Runs
  <2>2. curr_prog'.pid = q[k].pid /\ ctx' = q[k].ctx /\ mode' = "usr"
    BY <1>7 DEF Runs
  <2>3. Waits' \subseteq Waits \cup {Now}
    BY <1>5, <2>1 DEF Waits
  <2>4. Now' \in Waits \cup {Now}
    BY <1>5, <2>2 DEF Now
  <2>5. ASSUME NEW p \in LivePids, svc_exit => p # curr_prog.pid
        PROVE  p \in LivePids'
    <3>1. PICK j \in 1 .. Len(q) : q[j].pid = p /\ q[j].status = "READY"
      BY <1>6, <2>5
    <3>2. ~(j \in 1 .. k - 1)
      BY <1>7, <3>1 DEF Runs
    <3>3. CASE j = k
      BY <2>2, <3>1, <3>3 DEF LivePids
    <3>4. CASE j # k
      <4>1. j - k \in DOMAIN queue' /\ k + (j - k) = j
        BY <1>3, <1>4, <1>7, <3>2, <3>4 DEF Runs
      <4>2. queue'[j - k] = q[j]
        BY <2>1, <4>1
      <4> QED
        BY <3>1, <4>1, <4>2 DEF LivePids
    <3> QED
      BY <3>3, <3>4
  <2> QED
    BY <2>2, <2>3, <2>4, <2>5
<1>8. CASE Stops(q)
  <2>1. ~ \E k \in 1 .. Len(q) : q[k].status = "READY"
    BY <1>8 DEF Stops
  <2>2. mode' = "hung"
    BY <1>8 DEF Stops
  <2> QED
    BY <1>6, <2>1, <2>2
<1> QED
  BY <1>2, <1>7, <1>8

\* fork adds its child, and tells the caller its pid.
LEMMA ForkAdds ==
  ASSUME Typed, svc_fork
  PROVE  /\ mode = "fork" /\ mode' = "usr" /\ curr_prog' = curr_prog /\ curr_pid' = curr_pid + 1
         /\ ctx' = [ctx EXCEPT !.r0 = curr_pid]
         /\ \E c : /\ Waits' = Waits \cup {<<curr_pid, c>>}
                   /\ c.prog = ctx.prog /\ c.at = ctx.at /\ c.r0 = 0
         /\ LivePids \subseteq LivePids'
<1> PICK s \in StackIds : queue' = Append(queue, Child(s))
  BY DEF svc_fork
<1>1. /\ mode = "fork" /\ mode' = "usr" /\ curr_prog' = curr_prog /\ curr_pid' = curr_pid + 1
      /\ ctx' = [ctx EXCEPT !.r0 = curr_pid]
  BY DEF svc_fork
<1>2. /\ Child(s) \in PCB /\ Child(s).pid = curr_pid
      /\ Child(s).ctx.prog = ctx.prog /\ Child(s).ctx.at = ctx.at /\ Child(s).ctx.r0 = 0
  BY <1>1, ChildType
<1>3. /\ DOMAIN queue = 1 .. Len(queue) /\ DOMAIN queue' = 1 .. Len(queue) + 1
      /\ \A i \in 1 .. Len(queue) : queue'[i] = queue[i]
      /\ queue'[Len(queue) + 1] = Child(s) /\ Len(queue) \in Nat
  BY <1>2, AppendProperties, LenProperties DEF Typed, TypeOK
<1>4. Waits' = Waits \cup {<<curr_pid, Child(s).ctx>>}
  <2>1. \A i \in DOMAIN queue' :
          <<queue'[i].pid, queue'[i].ctx>> \in Waits \cup {<<curr_pid, Child(s).ctx>>}
    <3> SUFFICES ASSUME NEW i \in 1 .. Len(queue) + 1
                 PROVE  <<queue'[i].pid, queue'[i].ctx>> \in Waits \cup {<<curr_pid, Child(s).ctx>>}
      BY <1>3
    <3>1. i \in 1 .. Len(queue) \/ i = Len(queue) + 1
      BY <1>3
    <3> QED
      BY <1>2, <1>3, <3>1 DEF Waits
  <2>2. Waits \subseteq Waits'
    <3>1. \A i \in DOMAIN queue : i \in DOMAIN queue' /\ queue'[i] = queue[i]
      BY <1>3
    <3> QED
      BY <3>1 DEF Waits
  <2>3. <<curr_pid, Child(s).ctx>> \in Waits'
    <3>1. Len(queue) + 1 \in DOMAIN queue'
      BY <1>3
    <3> QED
      BY <1>2, <1>3, <3>1 DEF Waits
  <2>4. Waits' \subseteq Waits \cup {<<curr_pid, Child(s).ctx>>}
    BY <2>1 DEF Waits
  <2> QED
    BY <2>2, <2>3, <2>4
<1>5. LivePids \subseteq LivePids'
  <2>1. \A i \in DOMAIN queue : i \in DOMAIN queue' /\ queue'[i] = queue[i]
    BY <1>3
  <2> QED
    BY <1>1, <2>1 DEF LivePids
<1> QED
  BY <1>1, <1>2, <1>4, <1>5

\* kill takes its victim, and nobody else, from those who are live.
LEMMA KillTakes ==
  ASSUME Typed, PidsUnique, svc_kill
  PROVE  /\ Waits' = Waits /\ curr_prog' = curr_prog /\ curr_pid' = curr_pid
         /\ mode = "kill" /\ mode' = "usr"
         /\ LivePids' = LivePids \ ({ctx.r0} \ {curr_prog.pid})
         /\ ctx' = [ctx EXCEPT !.r0 = IF ctx.r0 \in Queued THEN 1 ELSE 0]
<1>1. /\ mode = "kill" /\ mode' = "usr" /\ curr_prog' = curr_prog /\ curr_pid' = curr_pid
  BY DEF svc_kill
<1>2. queue \in Seq(PCB) /\ DOMAIN queue = 1 .. Len(queue)
  BY LenProperties DEF Typed, TypeOK
<1>3. ASSUME NEW i \in DOMAIN queue, queue[i].pid = ctx.r0,
             queue' = [queue EXCEPT ![i].status = "TERMINATED"],
             ctx' = [ctx EXCEPT !.r0 = 1]
      PROVE  /\ Waits' = Waits
             /\ LivePids' = LivePids \ ({ctx.r0} \ {curr_prog.pid})
             /\ ctx' = [ctx EXCEPT !.r0 = IF ctx.r0 \in Queued THEN 1 ELSE 0]
  <2> DEFINE dead == [queue[i] EXCEPT !.status = "TERMINATED"]
  <2>1. queue[i] \in PCB
    BY <1>2, ElementOfSeq
  <2>2. /\ dead \in PCB /\ dead.pid = queue[i].pid /\ dead.ctx = queue[i].ctx
        /\ dead.status = "TERMINATED"
    BY <2>1 DEF PCB, Status
  <2>3. queue' = [queue EXCEPT ![i] = dead]
    BY <1>3
  <2> HIDE DEF dead
  <2>4. /\ queue' \in Seq(PCB) /\ Len(queue') = Len(queue)
        /\ \A j \in 1 .. Len(queue) : queue'[j] = IF j = i THEN dead ELSE queue[j]
    BY <1>2, <2>2, <2>3, ExceptSeq
  <2>5. /\ DOMAIN queue' = DOMAIN queue
        /\ \A j \in DOMAIN queue : queue'[j].pid = queue[j].pid /\ queue'[j].ctx = queue[j].ctx
        /\ \A j \in DOMAIN queue :
             queue'[j].status = "READY" <=> j # i /\ queue[j].status = "READY"
    BY <1>2, <2>2, <2>4, LenProperties
  <2>6. Waits' = Waits
    BY <2>5 DEF Waits
  <2>7. ctx.r0 \in Queued /\ ctx.r0 # curr_prog.pid
    BY <1>3 DEF Queued, PidsUnique
  <2>8. \A j \in DOMAIN queue : j # i <=> queue[j].pid # ctx.r0
    BY <1>3 DEF PidsUnique
  <2>9. LivePids' = LivePids \ {ctx.r0}
    <3>1. LivePids' = {curr_prog.pid} \cup
            {queue'[j].pid : j \in {l \in DOMAIN queue' : queue'[l].status = "READY"}}
      BY <1>1 DEF LivePids
    <3>2. LivePids = {curr_prog.pid} \cup
            {queue[j].pid : j \in {l \in DOMAIN queue : queue[l].status = "READY"}}
      BY <1>1 DEF LivePids
    <3>3. \A l \in DOMAIN queue' : queue'[l].status = "READY" =>
            /\ l \in DOMAIN queue /\ queue'[l].pid = queue[l].pid /\ queue[l].status = "READY"
            /\ queue[l].pid # ctx.r0
      BY <2>5, <2>8
    <3>4. \A l \in DOMAIN queue : queue[l].status = "READY" /\ queue[l].pid # ctx.r0 =>
            l \in DOMAIN queue' /\ queue'[l].pid = queue[l].pid /\ queue'[l].status = "READY"
      BY <2>5, <2>8
    <3> QED
      BY <2>7, <3>1, <3>2, <3>3, <3>4
  <2> QED
    BY <1>3, <2>6, <2>7, <2>9
<1>4. ASSUME \A i \in DOMAIN queue : queue[i].pid # ctx.r0, UNCHANGED queue,
             ctx' = [ctx EXCEPT !.r0 = 0]
      PROVE  /\ Waits' = Waits
             /\ LivePids' = LivePids \ ({ctx.r0} \ {curr_prog.pid})
             /\ ctx' = [ctx EXCEPT !.r0 = IF ctx.r0 \in Queued THEN 1 ELSE 0]
  <2>1. ctx.r0 \notin Queued
    BY <1>4 DEF Queued
  <2>2. LivePids' = LivePids /\ (ctx.r0 = curr_prog.pid \/ ctx.r0 \notin LivePids)
    BY <1>1, <1>4 DEF LivePids
  <2> QED
    BY <1>4, <2>1, <2>2 DEF Waits
<1> QED
  BY <1>1, <1>3, <1>4 DEF svc_kill, IsVictim

\* The kernel's other calls leave everybody where they are.
LEMMA OthersKeep ==
  ASSUME Typed, svc_fork_fails \/ svc_exec \/ svc_getpid \/ svc_default
  PROVE  /\ mode' = "usr" /\ mode # "hung" /\ UNCHANGED queue
         /\ curr_prog'.pid = curr_prog.pid /\ curr_pid' = curr_pid
         /\ Waits' = Waits /\ LivePids' = LivePids
<1>1. /\ mode' = "usr" /\ mode # "hung" /\ UNCHANGED queue
      /\ curr_prog'.pid = curr_prog.pid /\ curr_pid' = curr_pid
  BY DEF svc_fork_fails, svc_exec, svc_getpid, svc_default, Typed, TypeOK, PCB
<1> QED
  BY <1>1 DEF Waits, LivePids

-----------------------------------------------------------------------------
(* What the programs' steps are to the kernel.                             *)

LEMMA TokenType ==
  ASSUME x.args \in Words
  PROVE  Text(Token) \in Seq(Int)
<1>1. NULL \in Seq(Int) /\ Middle \in Seq(Int)
  BY DEF NULL, Middle
<1>2. \A k \in DOMAIN x.args : x.args[k] \in Seq(Int)
  <2>1. DOMAIN x.args = 1 .. Len(x.args)
    BY LenProperties DEF Words
  <2> QED
    BY <2>1, ElementOfSeq DEF Words
<1>3. Token \in Seq(Int)
  BY <1>1, <1>2 DEF Token
<1> QED
  BY <1>3, ConsoleAssumption DEF Text

LEMMA LoadType == \A name : load(name) \in Programs \ {Console}
BY ConsoleAssumption DEF load

\* A call by svc changes mode and registers only.
CallsKernel(id, arg) ==
  /\ mode = "usr" /\ mode' = id
  /\ ctx' = [ctx EXCEPT !.r0 = arg, !.at = IF id = "fork" THEN "fork" ELSE "run"]
  /\ UNCHANGED <<curr_pid, curr_prog, queue, fullStacks, stack>>

LEMMA SvcCalls ==
  ASSUME NEW id, NEW arg, Svc(id, arg)
  PROVE  CallsKernel(id, arg)
BY DEF Svc, CallsKernel

\* Everything between two steps of the kernel is one of these.
ShellOnly == gets \/ split \/ terminate_pid \/ terminate_sig \/ UNCHANGED cvars

LEMMA ShellOnlyKeeps == ShellOnly => UNCHANGED vars
BY DEF ShellOnly, gets, split, terminate_pid, terminate_sig, cvars

LEMMA ConsoleCalls ==
  ASSUME ShellTyped, execute \/ execute_child \/ terminate
  PROVE  Typed' /\ \E id \in {"fork", "exec", "kill"} : \E arg : CallsKernel(id, arg)
<1>1. CASE execute
  <2>1. Svc("fork", ctx.r0) /\ ctx.r0 \in Int \cup Programs
    BY <1>1 DEF execute, ShellTyped, Typed, TypeOK, Ctx
  <2> QED
    BY <2>1, SvcTyped, SvcCalls DEF ShellTyped, Calls
<1>2. CASE execute_child
  <2>1. Svc("exec", load(Text(Token))) /\ load(Text(Token)) \in Programs
    BY <1>2, LoadType DEF execute_child
  <2> QED
    BY <2>1, SvcTyped, SvcCalls DEF ShellTyped, Calls
<1>3. CASE terminate
  <2>1. Svc("kill", num) /\ num \in Int
    BY <1>3 DEF terminate, ShellTyped
  <2> QED
    BY <2>1, SvcTyped, SvcCalls DEF ShellTyped, Calls
<1> QED
  BY <1>1, <1>2, <1>3

LEMMA MkfifoKeeps ==
  ASSUME Typed, mkfifo
  PROVE  /\ Typed' /\ mode = "usr" /\ mode' = "usr"
         /\ UNCHANGED <<curr_pid, curr_prog, queue, fullStacks, stack>>
         /\ ctx.prog = Waiter /\ ~IsNew(ctx)
         /\ ctx'.prog = Waiter /\ ctx'.at = "run"
<1>1. /\ mode = "usr" /\ UNCHANGED <<curr_pid, curr_prog, queue, fullStacks, stack, mode>>
      /\ ctx.prog = Waiter /\ ~IsChild
      /\ ctx' = [ctx EXCEPT !.at = "run", !.r0 = 0] \/ ctx' = [ctx EXCEPT !.at = "run", !.r0 = -1]
  BY DEF mkfifo
<1>2. ctx' \in Ctx /\ ctx'.sp = ctx.sp /\ ctx'.prog = ctx.prog /\ ctx'.at = "run"
  <2>1. ASSUME NEW r \in Int, ctx' = [ctx EXCEPT !.at = "run", !.r0 = r]
        PROVE  /\ ctx' \in Ctx
               /\ ctx'.sp = ctx.sp /\ ctx'.prog = ctx.prog /\ ctx'.at = "run"
    BY <2>1 DEF Typed, TypeOK, Ctx
  <2>2. 0 \in Int /\ -1 \in Int
    OBVIOUS
  <2> QED
    BY <1>1, <2>1, <2>2
<1>3. TypeOK'
  BY <1>1, <1>2 DEF Typed, TypeOK
<1>4. Typed'
  BY <1>1, <1>2, <1>3 DEF Typed, SpInOwnStack, ExecLoads
<1> QED
  BY <1>1, <1>2, <1>4 DEF IsNew, IsChild

\* A step of the system is one of the kernel and its programs, or keeps the
\* processes, or is the end of the machine.
LEMMA ShellSteps ==
  ASSUME ShellTyped, [ShellNext]_cvars
  PROVE  \/ [Next]_vars
         \/ /\ mode = "usr" /\ mode' # "hung" /\ Typed'
            /\ UNCHANGED <<curr_pid, curr_prog, queue, fullStacks>>
         \/ ResetInUserMode
<1>1. CASE ShellOnly
  BY <1>1, ShellOnlyKeeps
<1>2. CASE execute \/ execute_child \/ terminate
  BY <1>2, ConsoleCalls DEF CallsKernel
<1>3. CASE mkfifo
  BY <1>3, MkfifoKeeps DEF ShellTyped
<1>4. CASE Program \/ Kernel
  BY <1>4 DEF Program, Kernel, Next
<1> QED
  BY <1>1, <1>2, <1>3, <1>4 DEF ShellNext, ConsoleStep, ShellOnly

\* The machine ends with a process that no pid named before, and nobody waits.
LEMMA ResetEnds ==
  ASSUME Typed, ResetInUserMode
  PROVE  /\ mode' = "und" /\ mode = "usr" /\ queue' = <<>>
         /\ curr_prog'.pid = curr_pid /\ LivePids' = {curr_pid}
         /\ curr_pid' = curr_pid + 1
<1> PICK s : curr_prog' = [create_process(curr_pid, Console, s) EXCEPT !.status = "EXECUTING"]
  BY DEF ResetInUserMode
<1>1. curr_prog'.pid = curr_pid
  BY DEF create_process
<1>2. mode' = "und" /\ mode = "usr" /\ queue' = <<>> /\ curr_pid' = curr_pid + 1
  BY DEF ResetInUserMode
<1> QED
  BY <1>1, <1>2 DEF LivePids

\* After it there is nothing.
LEMMA EndOfMachine ==
  ASSUME mode = "und", [ShellNext]_cvars
  PROVE  UNCHANGED cvars
<1>1. ~gets /\ ~split /\ ~execute /\ ~terminate_pid /\ ~terminate_sig /\ ~terminate
  BY DEF gets, split, execute, terminate_pid, terminate_sig, terminate, InConsole
<1>2. ~execute_child /\ ~mkfifo /\ ~ResetInUserMode
  BY DEF execute_child, Svc, mkfifo, ResetInUserMode
<1>3. ~Program
  BY DEF Program, User, Compute, fork, exec, exit, kill, getpid, yield, nice, Svc
<1>4. ~Kernel
  BY DEF Kernel, hilevel_handler_irq, hilevel_handler_svc, svc_fork, svc_fork_fails,
         svc_exit, svc_exec, svc_kill, svc_getpid, svc_default
<1> QED
  BY <1>1, <1>2, <1>3, <1>4 DEF ShellNext, ConsoleStep

-----------------------------------------------------------------------------
(* The invariant holds: types and pids as in Processes, and the roles.     *)

LEMMA ShellKeepsTypes ==
  ASSUME ShellTyped, PidsUnique, [ShellNext]_cvars, mode' # "und"
  PROVE  ShellTyped' /\ PidsUnique'
<1>1. Typed' /\ PidsUnique'
  <2>1. CASE [Next]_vars
    BY <2>1, StepTyped, StepKeepsPids DEF ShellTyped
  <2>2. CASE Typed' /\ UNCHANGED <<curr_pid, curr_prog, queue>>
    BY <2>2 DEF PidsUnique
  <2> QED
    BY <2>1, <2>2, ShellSteps, ResetEnds DEF ShellTyped
<1>2. x'.args \in Words /\ num' \in Int
  <2>1. CASE gets
    <3>1. x' \in Lines /\ num' = num
      BY <2>1 DEF gets
    <3>2. x' \in [verb : STRING, args : Words]
      BY <3>1, ConsoleAssumption DEF Words, NULL
    <3> QED
      BY <3>1, <3>2 DEF ShellTyped
  <2>2. CASE terminate_pid
    <3>1. x' = x /\ num' = atoii(Text(Token))
      BY <2>2 DEF terminate_pid
    <3> QED
      BY <3>1, TokenType, ConversionType DEF ShellTyped
  <2>3. CASE terminate
    BY <2>3 DEF terminate, ShellTyped
  <2>4. CASE split \/ execute \/ terminate_sig \/ execute_child \/ Program \/ mkfifo
             \/ Kernel \/ UNCHANGED cvars
    <3>1. UNCHANGED <<x, num>>
      BY <2>4 DEF split, execute, terminate_sig, execute_child, Program, mkfifo, Kernel,
                  cvars, shell
    <3> QED
      BY <3>1 DEF ShellTyped
  <2>5. CASE ResetInUserMode
    BY <2>5, ResetEnds DEF ShellTyped
  <2> QED
    BY <2>1, <2>2, <2>3, <2>4, <2>5 DEF ShellNext, ConsoleStep
<1> QED
  BY <1>1, <1>2 DEF ShellTyped

\* Who is the console, and who its child, is in the registers.
LEMMA RoleOfNow ==
  ASSUME Roles, mode \notin {"fork", "exec", "kill"}
  PROVE  /\ curr_prog.pid = 1 => ctx.prog = Console
         /\ ctx.prog = Console => (curr_prog.pid = 1 <=> ~IsNew(ctx))
BY DEF Roles, Role, Now

LEMMA SameRoles ==
  ASSUME Roles, mode = "usr", Waits' = Waits, curr_prog'.pid = curr_prog.pid
  PROVE  /\ mode' = "usr" /\ ctx'.prog = ctx.prog /\ (ctx.prog = Console => ctx' = ctx)
              => Roles'
         /\ mode' = "usr" /\ ctx'.prog = ctx.prog /\ ctx'.at = ctx.at /\ ctx'.r0 = ctx.r0
              => Roles'
<1>1. \A e \in Waits : Role(e)
  BY DEF Roles
<1>2. \A e : Role(e)' = Role(e)
  BY DEF Role, IsNew
<1> QED
  BY <1>1, RoleOfNow DEF Roles, Role, IsNew, Now

LEMMA CallRoles ==
  ASSUME Roles, mode = "usr", Waits' = Waits, NEW id, NEW arg, CallsKernel(id, arg), ctx \in Ctx,
         \/ id = "fork" /\ (curr_prog.pid = 1 <=> ctx.prog = Console)
         \/ id = "exec" /\ curr_prog.pid # 1 /\ arg # Console
         \/ id = "kill" /\ curr_prog.pid = 1
         \/ id \in {"exit", "getpid", "yield", "nice"} /\ ctx.prog # Console
  PROVE  Roles'
<1>1. /\ mode' = id /\ curr_prog' = curr_prog
      /\ ctx'.prog = ctx.prog /\ ctx'.r0 = arg
      /\ ctx'.at = IF id = "fork" THEN "fork" ELSE "run"
  BY DEF CallsKernel, Ctx
<1>2. \A e \in Waits' : Role(e)'
  BY DEF Roles, Role, IsNew
<1>3. /\ curr_prog.pid = 1 => ctx.prog = Console
  BY RoleOfNow
<1> QED
  BY <1>1, <1>2, <1>3 DEF Roles, Role, Now, IsNew

LEMMA ProgramRoles ==
  ASSUME ShellTyped, Roles, Program
  PROVE  Roles'
<1>1. mode = "usr" /\ User /\ UNCHANGED <<curr_pid, curr_prog, queue>>
  BY DEF Program, User, Compute, fork, exec, exit, kill, getpid, yield, nice, Svc
<1>2. Waits' = Waits /\ ctx \in Ctx
  BY <1>1 DEF Waits, ShellTyped, Typed, TypeOK
<1>3. ctx.prog \in Programs /\ Uses[Console] = {} /\ Loads[Console] = {}
      /\ "kill" \notin Uses[ctx.prog] /\ Console \notin Loads[ctx.prog]
  BY <1>2, ConsoleAssumption DEF Ctx
<1>4. CASE Compute
  <2>1. mode' = "usr" /\ ctx'.prog = ctx.prog /\ ctx'.at = ctx.at /\ ctx'.r0 = ctx.r0
    BY <1>2, <1>4 DEF Compute, Ctx
  <2> QED
    BY <1>1, <1>2, <2>1, SameRoles
<1>5. CASE fork \/ exit \/ getpid \/ yield \/ nice
  <2>1. PICK id \in {"fork", "exit", "getpid", "yield", "nice"} :
          May(id) /\ \E arg : Svc(id, arg)
    BY <1>5 DEF fork, exit, getpid, yield, nice
  <2>2. PICK arg : Svc(id, arg)
    BY <2>1
  <2>3. ctx.prog # Console /\ CallsKernel(id, arg)
    BY <1>3, <2>1, <2>2, SvcCalls DEF May
  <2>4. curr_prog.pid # 1
    BY <1>1, <2>3, RoleOfNow
  <2> QED
    BY <1>1, <1>2, <2>1, <2>2, <2>3, <2>4, CallRoles
<1>6. CASE exec
  <2>1. PICK image \in Loads[ctx.prog] : Svc("exec", image)
    BY <1>6 DEF exec
  <2>2. ctx.prog # Console /\ image # Console /\ CallsKernel("exec", image)
    BY <1>3, <2>1, SvcCalls
  <2>3. curr_prog.pid # 1
    BY <1>1, <2>2, RoleOfNow
  <2> QED
    BY <1>1, <1>2, <2>2, <2>3, CallRoles
<1>7. ~kill
  BY <1>3 DEF kill, May
<1> QED
  BY <1>1, <1>4, <1>5, <1>6, <1>7 DEF User

LEMMA ConsoleRoles ==
  ASSUME ShellTyped, Roles, execute \/ execute_child \/ terminate
  PROVE  Roles'
<1>1. mode = "usr" /\ ctx \in Ctx /\ ctx.prog = Console
  BY DEF execute, execute_child, terminate, InConsole, Svc, ShellTyped, Typed, TypeOK
<1>2. Waits' = Waits
  BY ConsoleCalls DEF CallsKernel, Waits
<1>3. CASE execute
  <2>1. CallsKernel("fork", ctx.r0) /\ ~IsNew(ctx)
    BY <1>3, SvcCalls DEF execute, InConsole, IsChild, IsNew
  <2>2. curr_prog.pid = 1
    BY <1>1, <2>1, RoleOfNow
  <2> QED
    BY <1>1, <1>2, <2>1, <2>2, CallRoles
<1>4. CASE execute_child
  <2>1. CallsKernel("exec", load(Text(Token))) /\ IsNew(ctx)
    BY <1>4, SvcCalls DEF execute_child, IsChild, IsNew
  <2>2. curr_prog.pid # 1
    BY <1>1, <2>1, RoleOfNow
  <2> QED
    BY <1>1, <1>2, <2>1, <2>2, LoadType, CallRoles
<1>5. CASE terminate
  <2>1. CallsKernel("kill", num) /\ ~IsNew(ctx)
    BY <1>5, SvcCalls DEF terminate, InConsole, IsChild, IsNew
  <2>2. curr_prog.pid = 1
    BY <1>1, <2>1, RoleOfNow
  <2> QED
    BY <1>1, <1>2, <2>1, <2>2, CallRoles
<1> QED
  BY <1>3, <1>4, <1>5

LEMMA KernelRoles ==
  ASSUME ShellTyped, Alive, Roles, Kernel
  PROVE  Roles' /\ 1 \in LivePids' /\ mode' = "usr"
<1>1. Typed /\ PidsUnique /\ 1 \in LivePids /\ ctx \in Ctx
  BY DEF ShellTyped, Alive, Typed, TypeOK
<1>2. \A e \in Waits : Role(e)
  BY DEF Roles
<1>3. \A e : Role(e)' = Role(e)
  BY DEF Role, IsNew
<1>4. CASE hilevel_handler_irq \/ svc_exit
  <2>1. mode \in {"usr", "exit"} /\ (svc_exit => mode = "exit")
    BY <1>4 DEF hilevel_handler_irq, svc_exit
  <2>2. svc_exit => 1 # curr_prog.pid
    BY <2>1, RoleOfNow DEF Roles
  <2>3. mode' = "usr" /\ 1 \in LivePids' /\ Waits' \cup {Now'} \subseteq Waits \cup {Now}
    BY <1>1, <1>4, <2>2, SwitchStep
  <2>4. \A e \in Waits' \cup {Now'} : Role(e)
    BY <1>2, <2>1, <2>3 DEF Roles
  <2> QED
    BY <1>3, <2>3, <2>4 DEF Roles
<1>5. CASE svc_fork
  <2>1. /\ mode = "fork" /\ mode' = "usr" /\ curr_prog' = curr_prog
        /\ ctx' = [ctx EXCEPT !.r0 = curr_pid] /\ 1 \in LivePids'
    BY <1>1, <1>5, ForkAdds
  <2>2. PICK c : /\ Waits' = Waits \cup {<<curr_pid, c>>}
                 /\ c.prog = ctx.prog /\ c.at = ctx.at /\ c.r0 = 0
    BY <1>1, <1>5, ForkAdds
  <2>3. curr_pid # 1 /\ curr_pid # 0
    BY <1>1 DEF PidsUnique, Typed, TypeOK, PCB, Pids
  <2>4. ctx'.prog = ctx.prog /\ ctx'.r0 = curr_pid
    BY <1>1, <2>1 DEF Ctx
  <2>5. Role(<<curr_pid, c>>)
    BY <2>1, <2>2, <2>3 DEF Roles, Role, IsNew
  <2>6. Role(Now')
    BY <2>1, <2>3, <2>4 DEF Roles, Role, IsNew, Now
  <2>7. \A e \in Waits' \cup {Now'} : Role(e)
    BY <1>2, <2>2, <2>5, <2>6
  <2> QED
    BY <1>3, <2>1, <2>7 DEF Roles
<1>6. CASE svc_kill
  <2>1. /\ Waits' = Waits /\ curr_prog' = curr_prog /\ mode = "kill" /\ mode' = "usr"
        /\ LivePids' = LivePids \ ({ctx.r0} \ {curr_prog.pid})
        /\ ctx' = [ctx EXCEPT !.r0 = IF ctx.r0 \in Queued THEN 1 ELSE 0]
    BY <1>1, <1>6, KillTakes
  <2>2. curr_prog.pid = 1 /\ ctx.prog = Console /\ ctx.at = "run"
    BY <2>1 DEF Roles
  <2>3. ctx'.prog = Console /\ ctx'.at = "run"
    BY <1>1, <2>1, <2>2 DEF Ctx
  <2>4. Role(Now')
    BY <2>1, <2>2, <2>3 DEF Role, IsNew, Now
  <2>5. \A e \in Waits' \cup {Now'} : Role(e)
    BY <1>2, <2>1, <2>4
  <2> QED
    BY <1>1, <1>3, <2>1, <2>2, <2>5 DEF Roles
<1>7. CASE svc_fork_fails \/ svc_exec \/ svc_getpid \/ svc_default
  <2>1. /\ mode' = "usr" /\ curr_prog'.pid = curr_prog.pid
        /\ Waits' = Waits /\ LivePids' = LivePids
    BY <1>1, <1>7, OthersKeep
  <2>2. Role(Now')
    <3>1. CASE svc_fork_fails
      <4>1. mode = "fork" /\ ctx' = [ctx EXCEPT !.r0 = -1]
        BY <3>1 DEF svc_fork_fails
      <4>2. ctx'.prog = ctx.prog /\ ctx'.r0 # 0
        BY <1>1, <4>1 DEF Ctx
      <4> QED
        BY <2>1, <4>1, <4>2 DEF Roles, Role, IsNew, Now
    <3>2. CASE svc_exec
      <4>1. mode = "exec" /\ ctx'.prog = ctx.r0
        BY <1>1, <3>2 DEF svc_exec, Ctx
      <4> QED
        BY <2>1, <4>1 DEF Roles, Role, Now
    <3>3. CASE svc_getpid \/ svc_default
      <4>1. mode \in {"getpid", "yield", "nice"} /\ ctx'.prog = ctx.prog
        BY <1>1, <3>3 DEF svc_getpid, svc_default, Ctx
      <4>2. ctx.prog # Console /\ curr_prog.pid # 1
        BY <4>1, RoleOfNow DEF Roles
      <4> QED
        BY <2>1, <4>1, <4>2 DEF Role, Now
    <3> QED
      BY <1>7, <3>1, <3>2, <3>3
  <2>3. \A e \in Waits' \cup {Now'} : Role(e)
    BY <1>2, <2>1, <2>2
  <2> QED
    BY <1>1, <1>3, <2>1, <2>3 DEF Roles
<1> QED
  BY <1>4, <1>5, <1>6, <1>7 DEF Kernel, hilevel_handler_svc

LEMMA ShellStarts == ShellInit => ShellInv
<1> SUFFICES ASSUME ShellInit PROVE ShellTyped /\ Alive /\ Roles
  BY DEF ShellInv
<1>1. /\ mode = "usr" /\ queue = <<>> /\ curr_pid = 2 /\ curr_prog.pid = 1
      /\ ctx.prog = Console /\ ctx.at = "run"
  BY DEF ShellInit, Init, create_process
<1>2. Typed
  BY InitTyped DEF ShellInit
<1>3. x.args \in Words /\ num \in Int
  <2>1. x.args = <<>> /\ num = 0
    BY DEF ShellInit
  <2> QED
    BY <2>1, EmptySeq DEF Words
<1>4. PidsUnique /\ LivePids = {1} /\ Waits = {}
  BY <1>1 DEF PidsUnique, LivePids, Waits
<1>5. Roles
  BY <1>1, <1>4 DEF Roles, Role, IsNew, Now
<1> QED
  BY <1>1, <1>2, <1>3, <1>4, <1>5 DEF ShellTyped, Alive

LEMMA StepKeepsShell ==
  ASSUME ShellInv, [ShellNext]_cvars
  PROVE  ShellInv'
<1>1. CASE mode = "und"
  BY <1>1, EndOfMachine DEF ShellInv, cvars, vars
<1> SUFFICES ASSUME ShellTyped, Alive, Roles, mode' # "und"
             PROVE  Alive' /\ Roles'
  BY <1>1, ShellKeepsTypes DEF ShellInv, Alive
<1>2. PidsUnique'
  BY ShellKeepsTypes DEF Alive
<1>3. CASE ShellOnly
  <2>1. UNCHANGED vars
    BY <1>3, ShellOnlyKeeps
  <2>2. LivePids' = LivePids /\ Waits' = Waits /\ Now' = Now /\ mode' = mode
    BY <2>1 DEF vars, LivePids, Waits, Now
  <2>3. Roles'
    BY <2>1, <2>2 DEF vars, Roles, Role, IsNew
  <2> QED
    BY <1>2, <2>2, <2>3 DEF Alive
<1>4. CASE execute \/ execute_child \/ terminate
  <2>1. mode' # "hung" /\ mode = "usr" /\ UNCHANGED <<curr_prog, queue>>
    BY <1>4, ConsoleCalls DEF CallsKernel
  <2> QED
    BY <1>2, <1>4, <2>1, ConsoleRoles DEF Alive, LivePids
<1>5. CASE Program
  <2>1. mode' # "hung" /\ mode = "usr" /\ UNCHANGED <<curr_prog, queue>>
    BY <1>5 DEF Program, User, Compute, fork, exec, exit, kill, getpid, yield, nice, Svc
  <2> QED
    BY <1>2, <1>5, <2>1, ProgramRoles DEF Alive, LivePids
<1>6. CASE mkfifo
  <2>1. /\ mode = "usr" /\ mode' = "usr" /\ UNCHANGED <<curr_prog, queue>>
        /\ ctx.prog = Waiter /\ ctx'.prog = Waiter
    BY <1>6, MkfifoKeeps DEF ShellTyped
  <2>2. Roles'
    BY <2>1, ConsoleAssumption, SameRoles DEF Waits
  <2> QED
    BY <1>2, <2>1, <2>2 DEF Alive, LivePids
<1>7. CASE Kernel
  BY <1>2, <1>7, KernelRoles DEF Alive
<1>8. ~ResetInUserMode
  BY ResetEnds DEF ShellTyped
<1> QED
  BY <1>3, <1>4, <1>5, <1>6, <1>7, <1>8 DEF ShellNext, ConsoleStep, ShellOnly

\* Types, pids and roles: whatever the user types and the programs do, process 1 is
\* the console and is live, and what else runs its image is its child before exec.
THEOREM ConsoleLives == ShellSpec => []ShellInv
<1> QED
  BY ShellStarts, StepKeepsShell, PTL DEF ShellSpec

\* The scheduler always finds a process to run: the console, which cannot be killed
\* because only it kills, and not itself.
THEOREM KernelNeverHangs == ShellSpec => []NeverHung
<1>1. ShellInv => NeverHung
  BY DEF ShellInv, Alive, NeverHung
<1> QED
  BY <1>1, ConsoleLives, PTL

-----------------------------------------------------------------------------
(* Death and turns, with the shell and the end of the machine.             *)

LEMMA ShellRevivesNobody ==
  ASSUME ShellTyped, PidsUnique, [ShellNext]_cvars
  PROVE  LivePids' \subseteq LivePids \cup {curr_pid}
<1>1. CASE [Next]_vars
  BY <1>1, StepRevivesNobody DEF ShellTyped
<1>2. CASE mode = "usr" /\ mode' # "hung" /\ UNCHANGED <<curr_pid, curr_prog, queue>>
  BY <1>2 DEF LivePids
<1>3. CASE ResetInUserMode
  BY <1>3, ResetEnds DEF ShellTyped
<1> QED
  BY <1>1, <1>2, <1>3, ShellSteps

\* A process that has exited or been killed executes nothing any more, whatever the
\* shell starts and terminates, not even if the machine starts again.
THEOREM ShellDeadStayDead == ShellSpec => DeadStayDead
<1>1. ShellInv /\ [ShellNext]_cvars =>
        [\A p \in 1 .. curr_pid - 1 : p \notin LivePids => p \notin LivePids']_vars
  <2> SUFFICES ASSUME ShellInv, [ShellNext]_cvars, vars' # vars,
                      NEW p \in 1 .. curr_pid - 1, p \in LivePids'
               PROVE  p \in LivePids
    OBVIOUS
  <2>1. mode # "und"
    BY EndOfMachine DEF cvars
  <2>2. ShellTyped /\ PidsUnique
    BY <2>1 DEF ShellInv, Alive
  <2>3. p # curr_pid
    BY <2>2 DEF ShellTyped, Typed, TypeOK, Pids
  <2> QED
    BY <2>2, <2>3, ShellRevivesNobody
<1> QED
  BY <1>1, ConsoleLives, PTL DEF ShellSpec, DeadStayDead

LEMMA ShellInTurn ==
  ASSUME ShellTyped, ShellTyped' \/ mode' = "und", PidsUnique, [ShellNext]_cvars
  PROVE  KeepsOrder /\ LeavesNobody /\ PassesOn
<1>1. Typed
  BY DEF ShellTyped
<1>2. CASE [Next]_vars
  <2>1. Typed'
    BY <1>1, <1>2, StepTyped
  <2> QED
    BY <1>1, <1>2, <2>1, SchedulerInTurn, OthersInTurn
<1>3. ASSUME ~[Next]_vars
      PROVE  PassesOn
  BY <1>3 DEF PassesOn, Next
<1>4. CASE mode = "usr" /\ mode' # "hung" /\ Typed' /\ UNCHANGED <<curr_pid, curr_prog, queue>>
  <2>1. DOMAIN queue = 1 .. Len(queue) /\ Len(queue) \in Nat /\ 0 \in Nat
    BY <1>1, QueueDomain
  <2>2. \A i \in DOMAIN queue' : 0 + i \in DOMAIN queue /\ queue'[i].pid = queue[0 + i].pid
    BY <1>4, <2>1
  <2>3. Shifted(0)
    BY <2>2 DEF Shifted
  <2>4. KeepsOrder
    BY <1>1, <1>4, <2>1, <2>3, ShiftedKeepsOrder
  <2>5. LeavesNobody
    BY <1>4 DEF LeavesNobody
  <2> QED
    BY <1>2, <1>3, <2>4, <2>5
<1>5. CASE ResetInUserMode
  <2>1. queue' = <<>> /\ curr_prog'.pid = curr_pid
    BY <1>1, <1>5, ResetEnds
  <2>2. Queued' = {}
    BY <2>1 DEF Queued
  <2>3. KeepsOrder
    BY <2>2 DEF KeepsOrder
  <2>4. curr_pid \notin Queued
    <3>1. \A i \in DOMAIN queue : queue[i] \in PCB
      BY <1>1, LenProperties, ElementOfSeq DEF Typed, TypeOK
    <3>2. \A i \in DOMAIN queue : queue[i].pid \in Nat /\ queue[i].pid < curr_pid
      BY <3>1 DEF PidsUnique, PCB, Pids
    <3> QED
      BY <1>1, <3>2 DEF Queued, Typed, TypeOK, Pids
  <2>5. LeavesNobody
    BY <2>1, <2>4 DEF LeavesNobody, Before, Queued
  <2> QED
    BY <1>2, <1>3, <2>3, <2>5
<1> QED
  BY <1>2, <1>4, <1>5, ShellSteps

\* Nobody overtakes in the queue, with the console's calls among the programs'.
THEOREM ShellRoundRobin == ShellSpec => RoundRobin
<1>1. ShellInv /\ ShellInv' /\ [ShellNext]_cvars =>
        [/\ hilevel_handler_irq /\ LivePids # {curr_prog.pid} => curr_prog'.pid # curr_prog.pid
         /\ \A p, q \in Queued \cup Queued' :
           /\ p \in Queued /\ q \in Queued' /\ p \in Queued' /\ ~Before(q, p) /\ p # q
                => Before(p, q)'
           /\ Before(p, q) /\ p \in LivePids /\ q \in LivePids
                => curr_prog'.pid # q \/ curr_prog.pid = q]_vars
  <2> SUFFICES ASSUME ShellInv, ShellInv', [ShellNext]_cvars, vars' # vars
               PROVE  KeepsOrder /\ LeavesNobody /\ PassesOn
    BY DEF KeepsOrder, LeavesNobody, PassesOn
  <2>1. mode # "und"
    BY EndOfMachine DEF cvars
  <2>2. ShellTyped /\ PidsUnique /\ (ShellTyped' \/ mode' = "und")
    BY <2>1 DEF ShellInv, Alive
  <2> QED
    BY <2>2, ShellInTurn
<1> QED
  BY <1>1, ConsoleLives, PTL DEF ShellSpec, RoundRobin

-----------------------------------------------------------------------------
(* A command, from its line to what it does.  The user is patient.         *)

\* What execute and terminate are given.
Arg == IF x.args = <<>> THEN NULL ELSE x.args[1]

NewConsole(c) == c.prog = Console /\ IsNew(c)

\* The children of the console that have still to become a program.
Children ==
  {e \in Waits : NewConsole(e[2])}
    \cup {e \in {Now} : mode = "usr" /\ NewConsole(e[2])}

Forking == mode = "fork" /\ curr_prog.pid = 1

\* A command is under way, and strtok's position is needed.
Busy == place # "gets" \/ Children # {} \/ Forking

\* Meanwhile no waiter has pipes to make: a new waiter comes of the command itself
\* only, and the children of a waiter become philosophers.
Calm(e) == e[2].prog = Waiter /\ ~IsNew(e[2]) => mkfifos[e[1]] = 0

AllCalm ==
  /\ \A e \in Waits : Calm(e)
  /\ mode = "usr" => Calm(Now)
  /\ mode \notin {"usr", "exec"} /\ ctx.prog = Waiter => mkfifos[curr_prog.pid] = 0

\* The pids of the model suffice for the forks to come.
Numbers ==
  /\ curr_pid <= MaxPid + 1
  /\ mode = "fork" => curr_pid <= MaxPid /\ (curr_prog.pid # 1 => curr_pid < MaxPid)
  /\ place \in {"split", "fork"} /\ x.verb = "execute" => curr_pid <= MaxPid
  /\ DOMAIN asked = 1 .. MaxPid

Command ==
  /\ place # "gets" \/ Forking => Children = {}
  /\ Forking => place = "gets" /\ asked[curr_pid] = Arg
  /\ place = "fork" => x.verb = "execute"
  /\ place \in {"fork", "pid"} \/ Forking \/ Children # {} => position = First(x)
  /\ place \in {"sig", "kill"} /\ x.args # <<>> => num = atoii(x.args[1])
  /\ mode = "kill" /\ x.args # <<>> => ctx.r0 = atoii(x.args[1])
  /\ mode = "exec" /\ ctx.r0 = Waiter => ~Busy
  /\ \A e, f \in Children : e = f
  /\ \A e \in Children : asked[e[1]] = Arg

CommandInv == Numbers /\ (Busy => AllCalm) /\ Command

\* The first argument of a line is a token.
LEMMA FirstArg ==
  ASSUME x.args \in Words, x.args # <<>>
  PROVE  1 \in DOMAIN x.args /\ x.args[1] # NULL
<1>1. 1 \in DOMAIN x.args
  BY LenProperties, EmptySeq DEF Words
<1> QED
  BY <1>1, ElementOfSeq, LenProperties DEF Words

LEMMA TokenIsArg ==
  ASSUME x.args \in Words, position = First(x)
  PROVE  Token = Arg
<1>1. CASE x.args = <<>>
  BY <1>1 DEF First, Token, Arg, Nowhere, NULL
<1>2. CASE x.args # <<>>
  <2>1. 1 \in DOMAIN x.args
    BY <1>2, FirstArg
  <2>2. position.verb = x.verb /\ position.k = 1
    BY <1>2 DEF First
  <2>3. position # Nowhere
    <3>1. Nowhere.k = 0
      BY DEF Nowhere
    <3> QED
      BY <2>2, <3>1
  <2> QED
    BY <1>2, <2>1, <2>2, <2>3 DEF Token, Arg
<1> QED
  BY <1>1, <1>2

\* Nobody who waits has the pid of the one that executes.
LEMMA OthersWait ==
  ASSUME PidsUnique
  PROVE  \A e \in Waits : e[1] # curr_prog.pid
BY DEF PidsUnique, Waits

\* What a step of the kernel does to the console's children: it makes one if the
\* console forks, and no other.
LEMMA KernelChildren ==
  ASSUME ShellTyped, Alive, Roles, Kernel
  PROVE  \/ Children' \subseteq Children
         \/ Forking /\ \E c : Children' \subseteq Children \cup {<<curr_pid, c>>}
<1>1. Typed /\ PidsUnique /\ ctx \in Ctx /\ mode' = "usr"
  BY KernelRoles DEF ShellTyped, Alive, Typed, TypeOK
<1>2. \A c : NewConsole(c)' = NewConsole(c)
  BY DEF NewConsole, IsNew
<1>3. Children' = {e \in Waits' \cup {Now'} : NewConsole(e[2])}
  BY <1>1, <1>2 DEF Children
<1>4. CASE hilevel_handler_irq \/ svc_exit
  <2>1. mode = "usr" \/ (mode = "exit" /\ ~NewConsole(ctx))
    BY <1>4 DEF hilevel_handler_irq, svc_exit, Roles, NewConsole
  <2>2. Waits' \cup {Now'} \subseteq Waits \cup {Now}
    BY <1>1, <1>4, SwitchStep
  <2>3. \A e \in Waits \cup {Now} : NewConsole(e[2]) => e \in Children
    BY <2>1 DEF Children, Now
  <2> QED
    BY <1>3, <2>2, <2>3
<1>5. CASE svc_fork
  <2>1. mode = "fork" /\ ctx' = [ctx EXCEPT !.r0 = curr_pid] /\ curr_prog' = curr_prog
    BY <1>1, <1>5, ForkAdds
  <2>2. PICK c : /\ Waits' = Waits \cup {<<curr_pid, c>>}
                 /\ c.prog = ctx.prog /\ c.at = ctx.at /\ c.r0 = 0
    BY <1>1, <1>5, ForkAdds
  <2>3. curr_pid # 0 /\ ctx'.r0 = curr_pid
    BY <1>1, <2>1 DEF Typed, TypeOK, Pids, Ctx
  <2>4. ~NewConsole(Now'[2])
    BY <2>3 DEF NewConsole, IsNew, Now
  <2>5. Children' \subseteq Children \cup {e \in {<<curr_pid, c>>} : NewConsole(e[2])}
    BY <1>3, <2>2, <2>4 DEF Children
  <2>6. ~Forking => ~NewConsole(c)
    BY <2>1, <2>2 DEF Forking, Roles, NewConsole
  <2> QED
    BY <2>5, <2>6
<1>6. CASE svc_fork_fails \/ svc_exec \/ svc_getpid \/ svc_default \/ svc_kill
  <2>1. Waits' = Waits
    BY <1>1, <1>6, OthersKeep, KillTakes
  <2>2. ~NewConsole(Now'[2])
    <3>1. CASE svc_fork_fails
      <4>1. ctx'.r0 # 0
        BY <1>1, <3>1 DEF svc_fork_fails, Ctx
      <4> QED
        BY <4>1 DEF NewConsole, IsNew, Now
    <3>2. CASE svc_exec
      <4>1. ctx'.prog # Console
        BY <1>1, <3>2 DEF svc_exec, Ctx, Roles
      <4> QED
        BY <4>1 DEF NewConsole, Now
    <3>3. CASE svc_getpid \/ svc_default
      <4>1. ctx'.prog # Console
        BY <1>1, <3>3 DEF svc_getpid, svc_default, Ctx, Roles
      <4> QED
        BY <4>1 DEF NewConsole, Now
    <3>4. CASE svc_kill
      <4>1. ctx'.at # "fork"
        BY <1>1, <3>4, KillTakes DEF Ctx, Roles
      <4> QED
        BY <4>1 DEF NewConsole, IsNew, Now
    <3> QED
      BY <1>6, <3>1, <3>2, <3>3, <3>4
  <2> QED
    BY <1>3, <2>1, <2>2 DEF Children
<1> QED
  BY <1>4, <1>5, <1>6 DEF Kernel, hilevel_handler_svc

\* With no more children, no fork of the console and nothing typed, a step needs
\* to keep no more than the command.
LEMMA NothingNew ==
  ASSUME Command, Children' \subseteq Children, ~Forking', mode' # "kill",
         mode' = "exec" => ctx'.r0 # Waiter, UNCHANGED <<place, x, position, num, asked>>
  PROVE  Command' /\ (Busy' => Busy)
<1>1. Arg' = Arg
  BY DEF Arg
<1> QED
  BY <1>1 DEF Command, Busy

LEMMA KernelCommand ==
  ASSUME ShellTyped, Alive, Roles, CommandInv, Kernel
  PROVE  CommandInv'
<1>1. /\ Typed /\ PidsUnique /\ ctx \in Ctx /\ mode' = "usr" /\ Roles'
      /\ UNCHANGED <<place, x, position, num, asked, mkfifos>> /\ Arg' = Arg
  BY KernelRoles DEF Kernel, shell, ShellTyped, Alive, Typed, TypeOK, Arg
<1>2. ~Forking'
  BY <1>1 DEF Forking
<1>3. Numbers'
  <2>1. CASE svc_fork
    <3>1. mode = "fork" /\ curr_pid' = curr_pid + 1 /\ curr_pid \in Nat
      BY <1>1, <2>1, ForkAdds DEF Typed, TypeOK, Pids
    <3>2. curr_prog.pid = 1 => place = "gets"
      BY <3>1 DEF CommandInv, Command, Forking
    <3> QED
      BY <1>1, <3>1, <3>2, ConstantsAssumption DEF CommandInv, Numbers
  <2>2. CASE ~svc_fork
    <3>1. curr_pid' = curr_pid
      BY <1>1, <2>2, SchedulerCalls, KillTakes, OthersKeep DEF Kernel, hilevel_handler_svc
    <3> QED
      BY <1>1, <3>1 DEF CommandInv, Numbers
  <2> QED
    BY <2>1, <2>2
<1>4. Command' /\ (Busy' => Busy)
  <2>1. CASE Children' \subseteq Children
    BY <1>1, <1>2, <2>1, NothingNew DEF CommandInv
  <2>2. ASSUME Forking, NEW c, Children' \subseteq Children \cup {<<curr_pid, c>>}
        PROVE  Command' /\ (Busy' => Busy)
    <3>1. /\ Children = {} /\ place = "gets" /\ asked[curr_pid] = Arg /\ position = First(x)
      BY <2>2 DEF CommandInv, Command
    <3>2. \A e \in Children' : e = <<curr_pid, c>>
      BY <2>2, <3>1
    <3> QED
      BY <1>1, <1>2, <2>2, <3>1, <3>2 DEF Command, Busy
  <2> QED
    BY <2>1, <2>2, KernelChildren
<1>5. ASSUME Busy'
      PROVE  AllCalm'
  <2>1. Busy /\ AllCalm
    BY <1>4, <1>5 DEF CommandInv
  <2>2. \A e : Calm(e)' = Calm(e)
    BY <1>1 DEF Calm, IsNew
  <2>3. \A e \in Waits' \cup {Now'} : Calm(e)
    <3>1. \A e \in Waits : Calm(e)
      BY <2>1 DEF AllCalm
    <3>2. CASE hilevel_handler_irq \/ svc_exit
      <4>1. mode \in {"usr", "exit"}
        BY <3>2 DEF hilevel_handler_irq, svc_exit
      <4>2. Calm(Now)
        BY <2>1, <4>1 DEF AllCalm, Calm, Now
      <4>3. Waits' \cup {Now'} \subseteq Waits \cup {Now}
        BY <1>1, <3>2, SwitchStep
      <4> QED
        BY <3>1, <4>2, <4>3
    <3>3. CASE svc_fork
      <4>1. PICK c : /\ Waits' = Waits \cup {<<curr_pid, c>>}
                     /\ c.prog = ctx.prog /\ c.at = ctx.at /\ c.r0 = 0
        BY <1>1, <3>3, ForkAdds
      <4>2. /\ mode = "fork" /\ curr_prog' = curr_prog /\ ctx' = [ctx EXCEPT !.r0 = curr_pid]
        BY <1>1, <3>3, ForkAdds
      <4>3. IsNew(c)
        BY <4>1, <4>2 DEF Roles, IsNew
      <4>4. ctx'.prog = ctx.prog
        BY <1>1, <4>2 DEF Ctx
      <4>5. Calm(<<curr_pid, c>>)
        BY <4>3 DEF Calm
      <4>6. Calm(Now')
        BY <2>1, <4>2, <4>4 DEF AllCalm, Calm, Now
      <4> QED
        BY <3>1, <4>1, <4>5, <4>6
    <3>4. CASE svc_exec
      <4>1. Waits' = Waits
        BY <1>1, <3>4, OthersKeep
      <4>2. mode = "exec" /\ ctx'.prog = ctx.r0
        BY <1>1, <3>4 DEF svc_exec, Ctx
      <4>3. ctx'.prog # Waiter
        BY <2>1, <4>2 DEF CommandInv, Command
      <4> QED
        BY <3>1, <4>1, <4>3 DEF Calm, Now
    <3>5. CASE svc_fork_fails \/ svc_getpid \/ svc_default \/ svc_kill
      <4>1. Waits' = Waits /\ curr_prog'.pid = curr_prog.pid
        BY <1>1, <3>5, OthersKeep, KillTakes
      <4>2. ctx'.prog = ctx.prog
        BY <1>1, <3>5, KillTakes DEF svc_fork_fails, svc_getpid, svc_default, Ctx
      <4>3. mode \notin {"usr", "exec"}
        BY <3>5 DEF svc_fork_fails, svc_getpid, svc_default, svc_kill
      <4> QED
        BY <2>1, <3>1, <4>1, <4>2, <4>3 DEF AllCalm, Calm, Now
    <3> QED
      BY <3>2, <3>3, <3>4, <3>5 DEF Kernel, hilevel_handler_svc
  <2> QED
    BY <1>1, <2>2, <2>3 DEF AllCalm
<1> QED
  BY <1>3, <1>4, <1>5 DEF CommandInv

-----------------------------------------------------------------------------
(* The steps of the console, while its user is patient.                    *)

\* Registers that nobody changes make the same processes new and calm.
LEMMA SameWaits ==
  ASSUME UNCHANGED queue
  PROVE  /\ Waits' = Waits
         /\ \A c : NewConsole(c)' = NewConsole(c)
         /\ Children' = {e \in Waits : NewConsole(e[2])}
                          \cup {e \in {Now'} : mode' = "usr" /\ NewConsole(e[2])}
         /\ UNCHANGED mkfifos => \A e : Calm(e)' = Calm(e)
<1>1. Waits' = Waits /\ \A c : NewConsole(c)' = NewConsole(c)
  BY DEF Waits, NewConsole, IsNew
<1>2. UNCHANGED mkfifos => \A e : Calm(e)' = Calm(e)
  BY DEF Calm, IsNew
<1> QED
  BY <1>1, <1>2 DEF Children

\* Who executes the console's own code is not a child of it.
LEMMA InConsoleIs ==
  ASSUME ShellTyped, Roles, NEW at, InConsole(at)
  PROVE  /\ mode = "usr" /\ place = at /\ ctx.prog = Console /\ ctx.prog # Waiter
         /\ curr_prog.pid = 1 /\ ~NewConsole(ctx)
         /\ Children = {e \in Waits : NewConsole(e[2])}
<1>1. mode = "usr" /\ place = at /\ ctx.prog = Console /\ ~IsNew(ctx)
  BY DEF InConsole, IsChild, IsNew
<1>2. curr_prog.pid = 1
  BY <1>1, RoleOfNow
<1> QED
  BY <1>1, <1>2, ConsoleAssumption DEF NewConsole, Children, Now

\* A line that is typed while nothing of the last one is left.
LEMMA GetsCommand ==
  ASSUME ShellTyped, Alive, Roles, CommandInv, Patient, gets
  PROVE  CommandInv'
<1>1. /\ InConsole("gets") /\ Done /\ place' = "split"
      /\ UNCHANGED <<curr_pid, curr_prog, queue, ctx, mode, position, num, asked, mkfifos>>
      /\ x'.verb = "execute" => curr_pid <= MaxPid
  BY DEF gets, vars
<1>2. mode = "usr" /\ ctx.prog # Waiter /\ Children = {e \in Waits : NewConsole(e[2])}
  BY <1>1, InConsoleIs
<1>3. \A i \in DOMAIN queue :
        /\ ~NewConsole(queue[i].ctx)
        /\ queue[i].ctx.prog = Waiter => mkfifos[queue[i].pid] = 0
  BY <1>1 DEF Done, Pending, NewConsole, IsNew
<1>4. Children = {}
  BY <1>2, <1>3 DEF Waits
<1>5. Children' = {}
  BY <1>1, <1>4 DEF Children, Waits, Now, NewConsole, IsNew
<1>6. AllCalm
  <2>1. \A e \in Waits : Calm(e)
    BY <1>3 DEF Waits, Calm
  <2>2. Calm(Now)
    BY <1>2 DEF Calm, Now
  <2> QED
    BY <1>2, <2>1, <2>2 DEF AllCalm
<1>7. AllCalm'
  <2>1. \A e \in Waits' \cup {Now'} : Calm(e)'
    BY <1>1, <1>2, <1>6 DEF AllCalm, Waits, Now, Calm, IsNew
  <2> QED
    BY <1>1, <1>2, <2>1 DEF AllCalm
<1>8. mode' = "usr" /\ ~Forking'
  BY <1>1, <1>2 DEF Forking
<1>9. Numbers'
  BY <1>1, <1>8 DEF CommandInv, Numbers
<1>10. Command'
  BY <1>1, <1>5, <1>8 DEF Command
<1> QED
  BY <1>7, <1>9, <1>10 DEF CommandInv

\* What the console does by itself, between the line and the call.
LEMMA ByItself ==
  ASSUME ShellTyped, Roles, CommandInv, UNCHANGED <<vars, x, asked, mkfifos>>,
         NEW at, at # "gets", InConsole(at), place' # "split",
         place' = "fork" => place = "split" /\ x.verb = "execute"
  PROVE  /\ Children = {} /\ Children' = {} /\ ~Forking' /\ mode' = "usr"
         /\ Numbers' /\ AllCalm' /\ Arg' = Arg
<1>1. mode = "usr" /\ place = at /\ mode' = "usr"
  BY InConsoleIs DEF vars
<1>2. Busy /\ Children = {} /\ ~Forking'
  BY <1>1 DEF Busy, CommandInv, Command, Forking
<1>3. Children' = {}
  BY <1>2 DEF Children, Waits, Now, NewConsole, IsNew, vars
<1>4. AllCalm
  BY <1>2 DEF CommandInv
<1>5. AllCalm'
  BY <1>4 DEF AllCalm, Waits, Now, Calm, IsNew, vars
<1>6. Numbers'
  BY <1>1 DEF CommandInv, Numbers, vars
<1> QED
  BY <1>1, <1>2, <1>3, <1>5, <1>6 DEF Arg

LEMMA SplitCommand ==
  ASSUME ShellTyped, Roles, CommandInv, split
  PROVE  CommandInv'
<1>1. /\ InConsole("split") /\ position' = First(x) /\ place = "split"
      /\ place' \in {"fork", "pid", "gets"} /\ (place' = "fork" => x.verb = "execute")
      /\ UNCHANGED <<vars, x, num, asked, mkfifos>>
  BY DEF split, InConsole
<1>2. /\ Children = {} /\ Children' = {} /\ ~Forking' /\ mode' = "usr"
      /\ Numbers' /\ AllCalm' /\ Arg' = Arg
  BY <1>1, ByItself
<1>3. position' = First(x')
  BY <1>1
<1>4. Command'
  BY <1>1, <1>2, <1>3 DEF Command
<1> QED
  BY <1>2, <1>4 DEF CommandInv

LEMMA TerminateCommand ==
  ASSUME ShellTyped, Roles, CommandInv, terminate_pid \/ terminate_sig
  PROVE  CommandInv'
<1>1. /\ UNCHANGED <<vars, x, asked, mkfifos>>
      /\ terminate_pid => /\ InConsole("pid") /\ place = "pid" /\ place' = "sig"
                          /\ num' = atoii(Text(Token))
      /\ terminate_sig => /\ InConsole("sig") /\ place = "sig" /\ place' = "kill"
                          /\ num' = num
  BY DEF terminate_pid, terminate_sig, InConsole
<1>2. /\ Children = {} /\ Children' = {} /\ ~Forking' /\ mode' = "usr"
      /\ Numbers' /\ AllCalm' /\ Arg' = Arg
  <2>1. CASE terminate_pid
    BY <1>1, <2>1, ByItself
  <2>2. CASE terminate_sig
    BY <1>1, <2>2, ByItself
  <2> QED
    BY <2>1, <2>2
<1>3. x.args # <<>> => num' = atoii(x.args[1])
  <2>1. CASE terminate_pid
    <3>1. Token = Arg
      BY <1>1, <2>1, TokenIsArg DEF CommandInv, Command, ShellTyped
    <3>2. x.args # <<>> => Token = x.args[1] /\ x.args[1] # NULL
      BY <3>1, FirstArg DEF Arg, ShellTyped
    <3> QED
      BY <1>1, <2>1, <3>2 DEF Text
  <2>2. CASE terminate_sig
    BY <1>1, <2>2 DEF CommandInv, Command
  <2> QED
    BY <2>1, <2>2
<1>4. place' \in {"sig", "kill"} /\ x' = x
  BY <1>1
<1>5. Command'
  BY <1>2, <1>3, <1>4 DEF Command
<1> QED
  BY <1>2, <1>5 DEF CommandInv

LEMMA ExecuteCommand ==
  ASSUME ShellTyped, Roles, CommandInv, execute
  PROVE  CommandInv'
<1>1. /\ InConsole("fork") /\ place' = "gets" /\ CallsKernel("fork", ctx.r0)
      /\ asked' = [asked EXCEPT ![curr_pid] = Arg]
      /\ UNCHANGED <<x, position, num, mkfifos>>
  BY SvcCalls DEF execute, Arg, NULL
<1>2. mode = "usr" /\ place = "fork" /\ curr_prog.pid = 1 /\ ctx.prog # Waiter
  BY <1>1, InConsoleIs
<1>3. /\ UNCHANGED <<curr_pid, curr_prog, queue>> /\ mode' = "fork" /\ ctx'.prog = ctx.prog
      /\ Arg' = Arg
  BY <1>1, <1>2 DEF CallsKernel, ShellTyped, Typed, TypeOK, Ctx, Arg
<1>4. Busy /\ Children = {} /\ AllCalm /\ x.verb = "execute" /\ position = First(x)
  BY <1>2 DEF CommandInv, Command, Busy
<1>5. Children' = {}
  BY <1>3, <1>4, SameWaits DEF Children
<1>6. curr_pid \in 1 .. MaxPid /\ curr_pid \in DOMAIN asked
  BY <1>2, <1>4, ConstantsAssumption DEF CommandInv, Numbers, ShellTyped, Typed, TypeOK, Pids
<1>7. asked'[curr_pid] = Arg
  BY <1>1, <1>6
<1>8. Numbers'
  BY <1>1, <1>2, <1>3, <1>6 DEF CommandInv, Numbers
<1>9. AllCalm'
  <2>1. \A e \in Waits' : Calm(e)'
    BY <1>1, <1>3, <1>4, SameWaits DEF AllCalm
  <2> QED
    BY <1>2, <1>3, <2>1 DEF AllCalm
<1>10. Command'
  BY <1>1, <1>3, <1>4, <1>5, <1>7 DEF Command
<1> QED
  BY <1>8, <1>9, <1>10 DEF CommandInv

LEMMA ChildCommand ==
  ASSUME ShellTyped, PidsUnique, Roles, CommandInv, execute_child
  PROVE  /\ CommandInv' /\ Children = {Now} /\ position = First(x) /\ asked[curr_prog.pid] = Arg
<1>1. /\ NewConsole(ctx) /\ CallsKernel("exec", load(Text(Token)))
      /\ asked' = [asked EXCEPT ![curr_prog.pid] = NULL]
      /\ UNCHANGED <<place, x, num, mkfifos>>
  BY SvcCalls DEF execute_child, IsChild, NewConsole, IsNew
<1>2. /\ mode = "usr" /\ mode' = "exec" /\ UNCHANGED <<curr_pid, curr_prog, queue>>
  BY <1>1 DEF CallsKernel
<1>3. Now \in Children
  BY <1>1, <1>2 DEF Children, Now
<1>4. /\ Children = {Now} /\ place = "gets" /\ position = First(x)
      /\ asked[curr_prog.pid] = Arg
  BY <1>3 DEF CommandInv, Command, Now
<1>5. Children' = {}
  <2> SUFFICES ASSUME NEW e \in Waits, NewConsole(e[2])
               PROVE  FALSE
    BY <1>2, SameWaits
  <2>1. e = Now
    BY <1>4 DEF Children
  <2> QED
    BY <2>1, OthersWait DEF Now
<1>6. ~Busy' /\ place' = "gets"
  BY <1>1, <1>2, <1>4, <1>5 DEF Busy, Forking
<1>7. Numbers'
  BY <1>1, <1>2, <1>6 DEF CommandInv, Numbers
<1>8. Command'
  BY <1>2, <1>5, <1>6 DEF Command, Busy
<1> QED
  BY <1>4, <1>6, <1>7, <1>8 DEF CommandInv

LEMMA KillCommand ==
  ASSUME ShellTyped, Roles, CommandInv, terminate
  PROVE  CommandInv'
<1>1. /\ InConsole("kill") /\ place' = "gets" /\ CallsKernel("kill", num)
      /\ UNCHANGED <<x, position, asked, mkfifos>>
  BY SvcCalls DEF terminate
<1>2. mode = "usr" /\ place = "kill"
  BY <1>1, InConsoleIs
<1>3. UNCHANGED <<curr_pid, curr_prog, queue>> /\ mode' = "kill" /\ ctx'.r0 = num
  BY <1>1, <1>2 DEF CallsKernel, ShellTyped, Typed, TypeOK, Ctx
<1>4. Children = {} /\ (x.args # <<>> => num = atoii(x.args[1]))
  BY <1>2 DEF CommandInv, Command
<1>5. Children' = {}
  BY <1>3, <1>4, SameWaits DEF Children
<1>6. ~Busy' /\ place' = "gets"
  BY <1>1, <1>3, <1>5 DEF Busy, Forking
<1>7. Numbers'
  BY <1>1, <1>3 DEF CommandInv, Numbers
<1>8. Command'
  BY <1>1, <1>3, <1>4, <1>5, <1>6 DEF Command, Busy
<1> QED
  BY <1>6, <1>7, <1>8 DEF CommandInv

-----------------------------------------------------------------------------
(* The steps of the other programs.                                        *)

\* A call of a program other than the console.
LEMMA CallCommand ==
  ASSUME ShellTyped, Roles, CommandInv, NEW id, NEW arg, CallsKernel(id, arg),
         ctx.prog # Console, UNCHANGED <<shell, position, mkfifos>>,
         id \in {"fork", "exec", "exit", "getpid", "yield", "nice"},
         id = "fork" => curr_pid < MaxPid,
         id = "exec" => arg # Waiter,
         id # "exec" => ~IsNew(ctx)
  PROVE  CommandInv'
<1>1. /\ mode = "usr" /\ mode' = id /\ UNCHANGED <<curr_pid, curr_prog, queue>>
      /\ ctx'.prog = ctx.prog /\ ctx'.r0 = arg /\ UNCHANGED <<place, x, num, asked>>
  BY DEF CallsKernel, ShellTyped, Typed, TypeOK, Ctx, shell
<1>2. curr_prog.pid # 1
  BY <1>1, RoleOfNow
<1>3. ~Forking' /\ Children' \subseteq Children
  BY <1>1, <1>2, SameWaits DEF Forking, Children
<1>4. Command' /\ (Busy' => Busy)
  BY <1>1, <1>3, NothingNew DEF CommandInv
<1>5. Numbers'
  BY <1>1, <1>2, ConstantsAssumption DEF CommandInv, Numbers, ShellTyped, Typed, TypeOK, Pids
<1>6. ASSUME Busy
      PROVE  AllCalm'
  <2>1. AllCalm
    BY <1>6 DEF CommandInv
  <2>2. \A e \in Waits' : Calm(e)'
    BY <1>1, <2>1, SameWaits DEF AllCalm
  <2>3. id # "exec" /\ ctx.prog = Waiter => mkfifos[curr_prog.pid] = 0
    BY <1>1, <2>1 DEF AllCalm, Calm, Now
  <2> QED
    BY <1>1, <2>2, <2>3 DEF AllCalm
<1> QED
  BY <1>4, <1>5, <1>6 DEF CommandInv

\* Instructions, of the console's child too.
LEMMA ComputeCommand ==
  ASSUME ShellTyped, PidsUnique, Roles, CommandInv, Compute, UNCHANGED <<shell, position, mkfifos>>
  PROVE  CommandInv'
<1>1. /\ mode = "usr" /\ mode' = "usr" /\ UNCHANGED <<curr_pid, curr_prog, queue>>
      /\ ctx'.prog = ctx.prog /\ ctx'.at = ctx.at /\ ctx'.r0 = ctx.r0
      /\ UNCHANGED <<place, x, num, asked>> /\ Arg' = Arg
  BY DEF Compute, ShellTyped, Typed, TypeOK, Ctx, shell, Arg
<1>2. ~Forking /\ ~Forking' /\ (NewConsole(ctx') <=> NewConsole(ctx))
  BY <1>1 DEF Forking, NewConsole, IsNew
<1>3. CASE ~NewConsole(ctx)
  <2>1. Children' \subseteq Children
    BY <1>1, <1>2, <1>3, SameWaits DEF Children, Now
  <2> QED
    <3>1. Command' /\ (Busy' => Busy)
      BY <1>1, <1>2, <2>1, NothingNew DEF CommandInv
    <3>2. Numbers'
      BY <1>1 DEF CommandInv, Numbers
    <3>3. Busy => AllCalm'
      <4> SUFFICES ASSUME AllCalm PROVE AllCalm'
        BY DEF CommandInv
      <4>1. \A e \in Waits' : Calm(e)'
        BY <1>1, SameWaits DEF AllCalm
      <4>2. Calm(Now)'
        BY <1>1 DEF AllCalm, Calm, IsNew, Now
      <4> QED
        BY <1>1, <4>1, <4>2 DEF AllCalm
    <3> QED
      BY <3>1, <3>2, <3>3 DEF CommandInv
<1>4. CASE NewConsole(ctx)
  <2>1. Now \in Children
    BY <1>1, <1>4 DEF Children, Now
  <2>2. /\ Children = {Now} /\ place = "gets" /\ position = First(x)
        /\ asked[curr_prog.pid] = Arg
    BY <2>1 DEF CommandInv, Command, Now
  <2>3. Children' = {Now'}
    <3>1. \A e \in Waits : ~NewConsole(e[2])
      <4> SUFFICES ASSUME NEW e \in Waits, NewConsole(e[2]) PROVE FALSE
        OBVIOUS
      <4>1. e = Now
        BY <2>2 DEF Children
      <4> QED
        BY <4>1, OthersWait DEF Now
    <3> QED
      BY <1>1, <1>2, <1>4, <3>1, SameWaits DEF Now
  <2>4. Command'
    BY <1>1, <1>2, <2>2, <2>3 DEF Command, Now
  <2>5. Numbers'
    BY <1>1 DEF CommandInv, Numbers
  <2>6. Busy /\ AllCalm
    BY <2>2 DEF Busy, CommandInv
  <2>7. AllCalm'
    <3>1. \A e \in Waits' : Calm(e)'
      BY <1>1, <2>6, SameWaits DEF AllCalm
    <3>2. ctx'.prog # Waiter
      BY <1>1, <1>4, ConsoleAssumption DEF NewConsole
    <3> QED
      BY <1>1, <3>1, <3>2 DEF AllCalm, Calm, Now
  <2> QED
    BY <2>4, <2>5, <2>7 DEF CommandInv
<1> QED
  BY <1>3, <1>4

LEMMA ProgramCommand ==
  ASSUME ShellTyped, PidsUnique, Roles, CommandInv, Program
  PROVE  CommandInv'
<1>1. User /\ (mode' = "fork" => curr_pid < MaxPid) /\ UNCHANGED <<shell, position, mkfifos>>
  BY DEF Program
<1>2. /\ ctx.prog \in Programs /\ Uses[Console] = {} /\ Loads[Console] = {}
      /\ "kill" \notin Uses[ctx.prog] /\ Waiter \notin Loads[ctx.prog]
  BY ConsoleAssumption DEF ShellTyped, Typed, TypeOK, Ctx
<1>3. CASE Compute
  BY <1>1, <1>3, ComputeCommand
<1>4. CASE fork \/ exit \/ getpid \/ yield \/ nice
  <2>1. PICK id \in {"fork", "exit", "getpid", "yield", "nice"} :
          May(id) /\ \E arg : Svc(id, arg)
    BY <1>4 DEF fork, exit, getpid, yield, nice
  <2>2. PICK arg : Svc(id, arg)
    BY <2>1
  <2>3. ctx.prog # Console /\ ~IsNew(ctx) /\ CallsKernel(id, arg) /\ mode' = id
    BY <1>2, <2>1, <2>2, SvcCalls DEF May, IsChild, IsNew, Svc
  <2> QED
    BY <1>1, <2>1, <2>2, <2>3, CallCommand
<1>5. CASE exec
  <2>1. PICK image \in Loads[ctx.prog] : Svc("exec", image)
    BY <1>5 DEF exec
  <2>2. ctx.prog # Console /\ image # Waiter /\ CallsKernel("exec", image)
    BY <1>2, <2>1, SvcCalls
  <2> QED
    BY <1>1, <2>2, CallCommand
<1>6. ~kill
  BY <1>2 DEF kill, May
<1> QED
  BY <1>1, <1>3, <1>4, <1>5, <1>6 DEF User

\* A waiter makes pipes when no command needs strtok.
LEMMA MkfifoCommand ==
  ASSUME ShellTyped, Roles, CommandInv, mkfifo
  PROVE  CommandInv'
<1>1. /\ mode = "usr" /\ mode' = "usr" /\ UNCHANGED <<curr_pid, curr_prog, queue, shell>>
      /\ ctx.prog = Waiter /\ ~IsNew(ctx) /\ ctx'.prog = Waiter
  BY MkfifoKeeps DEF ShellTyped, mkfifo
<1>2. mkfifos[curr_prog.pid] # 0
  BY DEF mkfifo
<1>3. ~Calm(Now)
  BY <1>1, <1>2 DEF Calm, Now
<1>4. ~Busy
  BY <1>1, <1>3 DEF CommandInv, AllCalm
<1>5. ~NewConsole(ctx')
  BY <1>1, ConsoleAssumption DEF NewConsole
<1>6. Children' = {} /\ ~Forking' /\ place' = "gets"
  BY <1>1, <1>4, <1>5, SameWaits DEF Busy, Children, Forking, Now, shell
<1>7. ~Busy'
  BY <1>6 DEF Busy
<1>8. Numbers'
  BY <1>1 DEF CommandInv, Numbers, shell
<1>9. Command'
  BY <1>1, <1>6 DEF Command
<1> QED
  BY <1>7, <1>8, <1>9 DEF CommandInv

-----------------------------------------------------------------------------
(* What a patient user is promised.                                        *)

LEMMA CommandsStart == ShellInit => CommandInv
<1> SUFFICES ASSUME ShellInit PROVE CommandInv
  OBVIOUS
<1>1. /\ mode = "usr" /\ queue = <<>> /\ curr_pid = 2 /\ ctx.at = "run" /\ place = "gets"
      /\ asked = [p \in 1 .. MaxPid |-> <<>>]
  BY DEF ShellInit, Init, create_process
<1>2. Waits = {} /\ ~NewConsole(ctx)
  BY <1>1 DEF Waits, NewConsole, IsNew
<1>3. Children = {} /\ ~Busy
  BY <1>1, <1>2 DEF Children, Busy, Forking, Now
<1>4. Numbers
  BY <1>1, ConstantsAssumption DEF Numbers
<1>5. Command
  BY <1>1, <1>3 DEF Command, Busy
<1> QED
  BY <1>3, <1>4, <1>5 DEF CommandInv

CommandsInv == mode = "und" \/ CommandInv

LEMMA StepKeepsCommands ==
  ASSUME Patient, ShellInv, CommandsInv, [ShellNext]_cvars
  PROVE  CommandsInv'
<1>1. CASE mode = "und"
  BY <1>1, EndOfMachine DEF CommandsInv, cvars, vars
<1>2. CASE mode # "und"
  <2>1. ShellTyped /\ Alive /\ PidsUnique /\ Roles /\ CommandInv
    BY <1>2 DEF ShellInv, Alive, CommandsInv
  <2>2. CASE gets
    BY <2>1, <2>2, GetsCommand DEF CommandsInv
  <2>3. CASE ConsoleStep
    BY <2>1, <2>3, SplitCommand, ExecuteCommand, TerminateCommand, KillCommand
       DEF ConsoleStep, CommandsInv
  <2>4. CASE execute_child
    BY <2>1, <2>4, ChildCommand DEF CommandsInv
  <2>5. CASE Program
    BY <2>1, <2>5, ProgramCommand DEF CommandsInv
  <2>6. CASE mkfifo
    BY <2>1, <2>6, MkfifoCommand DEF CommandsInv
  <2>7. CASE ResetInUserMode
    BY <2>1, <2>7, ResetEnds DEF CommandsInv, ShellTyped
  <2>8. CASE Kernel
    BY <2>1, <2>8, KernelCommand DEF CommandsInv
  <2>9. CASE UNCHANGED cvars
    <3>1. /\ UNCHANGED <<vars, place, x, position, num, asked, mkfifos>>
      BY <2>9 DEF cvars, shell
    <3>2. Waits' = Waits /\ Now' = Now /\ Children' = Children /\ Arg' = Arg
      BY <3>1 DEF Waits, Now, Children, NewConsole, IsNew, Arg, vars
    <3>3. AllCalm' = AllCalm /\ Busy' = Busy /\ Forking' = Forking
      BY <3>1, <3>2 DEF AllCalm, Calm, IsNew, Busy, Forking, vars
    <3> QED
      BY <2>1, <3>1, <3>2, <3>3 DEF CommandsInv, CommandInv, Numbers, Command, First, vars
  <2> QED
    BY <2>2, <2>3, <2>4, <2>5, <2>6, <2>7, <2>8, <2>9 DEF ShellNext
<1> QED
  BY <1>1, <1>2

LEMMA CommandsOneByOne ==
  ASSUME Patient
  PROVE  ShellSpec => [](ShellInv /\ CommandsInv)
<1>1. ShellInit => CommandsInv
  BY CommandsStart DEF CommandsInv
<1>2. ShellInv /\ CommandsInv /\ [ShellNext]_cvars => CommandsInv'
  BY StepKeepsCommands
<1> QED
  BY <1>1, <1>2, ConsoleLives, PTL DEF ShellSpec

\* Who executes exec with the console's image is the child of a command.
LEMMA OnlyTheChildExecs ==
  ASSUME ShellTyped, Alive, Roles, [ShellNext]_cvars,
         mode = "usr", mode' = "exec", ctx.prog = Console
  PROVE  execute_child
<1>1. ~ShellOnly
  BY ShellOnlyKeeps DEF vars
<1>2. ~execute /\ ~terminate
  BY DEF execute, terminate, Svc
<1>3. ~Program
  <2>1. Loads[Console] = {}
    BY ConsoleAssumption
  <2>2. ~exec
    BY <2>1 DEF exec
  <2> QED
    BY <2>2 DEF Program, User, Compute, fork, exit, kill, getpid, yield, nice, Svc
<1>4. ~mkfifo /\ ~ResetInUserMode
  BY DEF mkfifo, ResetInUserMode
<1>5. ~Kernel
  BY KernelRoles
<1> QED
  BY <1>1, <1>2, <1>3, <1>4, <1>5 DEF ShellNext, ConsoleStep, ShellOnly

\* A child of the command "execute name" becomes the program of that name, for every
\* set of programs and lines and whenever the timer goes off, if the user types no
\* line before the last command is done: strtok's position is still that of the line.
THEOREM CommandsRunTheirProgram ==
  ASSUME Patient
  PROVE  ShellSpec => RunsNamedProgram
<1>1. ShellInv /\ CommandsInv /\ [ShellNext]_cvars =>
        [\A name \in DOMAIN Linked :
           mode = "usr" /\ mode' = "exec" /\ ctx.prog = Console /\ asked[curr_prog.pid] = name
             => ctx'.r0 = Linked[name]]_cvars
  <2> SUFFICES ASSUME ShellInv, CommandsInv, [ShellNext]_cvars, NEW name \in DOMAIN Linked,
                      mode = "usr", mode' = "exec", ctx.prog = Console,
                      asked[curr_prog.pid] = name
               PROVE  ctx'.r0 = Linked[name]
    OBVIOUS
  <2>1. ShellTyped /\ Alive /\ PidsUnique /\ Roles /\ CommandInv
    BY DEF ShellInv, Alive, CommandsInv
  <2>2. execute_child
    BY <2>1, OnlyTheChildExecs
  <2>3. Token = name
    BY <2>1, <2>2, ChildCommand, TokenIsArg DEF ShellTyped
  <2>4. ctx'.r0 = load(Text(Token))
    BY <2>1, <2>2 DEF execute_child, Svc, ShellTyped, Typed, TypeOK, Ctx
  <2>5. name # NULL
    BY ConsoleAssumption DEF NULL
  <2> QED
    BY <2>3, <2>4, <2>5 DEF load, Text
<1>2. ShellSpec => [](ShellInv /\ CommandsInv)
  BY CommandsOneByOne
<1> QED
  BY <1>1, <1>2, PTL DEF ShellSpec, RunsNamedProgram

\* The command "terminate pid" stops the process of that pid if it is in the queue,
\* and nobody else, and is told so: the number the user typed is the one killed.
THEOREM CommandsTerminateTheirVictim ==
  ASSUME Patient
  PROVE  ShellSpec => TerminatesNumbered
<1>1. ShellInv /\ CommandsInv /\ [ShellNext]_cvars =>
        [\A victim \in Ints \cap Nat :
           mode = "kill" /\ mode' = "usr" /\ x.args # <<>> /\ x.args[1] = itoa(victim) =>
             /\ LivePids' = LivePids \ ({victim} \ {curr_prog.pid})
             /\ ctx'.r0 = 1 <=> victim \in Queued]_cvars
  <2> SUFFICES ASSUME ShellInv, CommandsInv, [ShellNext]_cvars, NEW victim \in Ints \cap Nat,
                      mode = "kill", mode' = "usr", x.args # <<>>, x.args[1] = itoa(victim)
               PROVE  /\ LivePids' = LivePids \ ({victim} \ {curr_prog.pid})
                      /\ ctx'.r0 = 1 <=> victim \in Queued
    OBVIOUS
  <2>1. ShellTyped /\ Alive /\ PidsUnique /\ Roles /\ CommandInv
    BY DEF ShellInv, Alive, CommandsInv
  <2>2. svc_kill
    <3>1. [Next]_vars
      BY <2>1, ShellSteps DEF ResetInUserMode
    <3> QED
      BY <3>1 DEF vars, Next, User, Compute, fork, exec, exit, kill, getpid, yield, nice, Svc,
         hilevel_handler_irq, hilevel_handler_svc, svc_fork, svc_fork_fails, svc_exit,
         svc_exec, svc_getpid, svc_default
  <2>3. ctx.r0 = victim
    <3>1. ctx.r0 = atoii(itoa(victim))
      BY <2>1 DEF CommandInv, Command
    <3> QED
      BY <3>1, ConversionsRight DEF RoundTrip
  <2>4. /\ LivePids' = LivePids \ ({ctx.r0} \ {curr_prog.pid})
        /\ ctx' = [ctx EXCEPT !.r0 = IF ctx.r0 \in Queued THEN 1 ELSE 0]
    BY <2>1, <2>2, KillTakes DEF ShellTyped
  <2> QED
    BY <2>1, <2>3, <2>4 DEF ShellTyped, Typed, TypeOK, Ctx
<1>2. ShellSpec => [](ShellInv /\ CommandsInv)
  BY CommandsOneByOne
<1> QED
  BY <1>1, <1>2, PTL DEF ShellSpec, TerminatesNumbered
=============================================================================
