------------------------------ MODULE Programs ------------------------------
(***************************************************************************)
(* The programs linked into the kernel image, as a processor sees them:    *)
(* instructions at addresses, working on registers.  P1 and P2 print; P3   *)
(* computes Hamming weights, P4 greatest common divisors, P5 primes, and   *)
(* ends; the console executes the programs of a list, one after the other. *)
(*                                                                         *)
(* A context c has a program counter, general registers, stack pointer,    *)
(* link register and condition flags, c.pc, c.gpr, c.sp, c.lr, c.flags;    *)
(* the locals of a program are the registers r0, r1, ... = c.gpr[1], ...   *)
(* An address is the number of an instruction.  After(c) is the context    *)
(* after the instruction at c.pc, unless that is svc, which SvcAt knows.   *)
(* A comparison is an instruction, and the branch on its flags the next.   *)
(***************************************************************************)
EXTENDS Integers, Sequences, FiniteSets, FiniteSetsExt

CONSTANTS
  WeightLo, WeightHi,  \* the range of P3 (2^8 to 2^24)
  GcdLo, GcdHi,        \* the range of P4 (2^4 to 2^8)
  PrimeLo, PrimeHi,    \* the range of P5 (2^8 to 2^16)
  Rounds,              \* how often P5 goes through it (50)
  Sessions             \* what a user may execute: sequences of programs' addresses

VARIABLE executed      \* the programs this user executes, one after the other

\* Where the programs begin.
main_P1 == 100
main_P2 == 200
main_P3 == 300
main_P4 == 400
main_P5 == 500
main_console == 600

ASSUME ProgramsAssumption ==
  /\ WeightLo \in Nat /\ WeightHi \in Nat /\ WeightLo < WeightHi /\ WeightHi < 2 ^ 30
  /\ GcdLo \in Nat \ {0} /\ GcdHi \in Nat /\ GcdLo < GcdHi
  /\ PrimeLo \in Nat /\ PrimeHi \in Nat /\ PrimeLo < PrimeHi
  /\ Rounds \in Nat \ {0}
  /\ Sessions \subseteq Seq({main_P1, main_P2, main_P3, main_P4, main_P5})

Gprs == 4  \* r0 to r12 in the processor; the programs here need four

SYS_WRITE == 1
SYS_FORK  == 3
SYS_EXIT  == 4
SYS_EXEC  == 5

STDOUT_FILENO == 1

\* The svc instructions, with the system call each makes.
SvcAt ==
  LET Writes == {main_P1 + 1, main_P2 + 1, main_P3 + 1, main_P4 + 1, main_P5 + 2}
      Exit == main_P5 + 19  Fork == main_console + 1  Exec == main_console + 8 IN
  [a \in Writes \cup {Exit, Fork, Exec} |->
     CASE a \in Writes -> SYS_WRITE [] a = Exit -> SYS_EXIT
       [] a = Fork -> SYS_FORK [] a = Exec -> SYS_EXEC]

\* Context c with pc and some registers changed.
Goto(c, k) == [c EXCEPT !.pc = k]
Set(c, i, v) == [c EXCEPT !.pc = @ + 1, !.gpr[i] = v]

\* The function at pc + 1 is called with r0 = x, and goes back to address k.
Call(c, x, k) == [c EXCEPT !.pc = @ + 1, !.gpr[1] = x, !.lr = k]

\* A function returns v.
Return(c, v) == [c EXCEPT !.pc = c.lr, !.gpr[1] = v]

\* The condition flags are C, which has the weight 1, and Z.  Of two numbers that
\* are compared the first is lower, higher or equal.
Lower  == 0
Higher == 1
Equal  == 3

Compared(a, b) == IF a < b THEN Lower ELSE IF a = b THEN Equal ELSE Higher

\* Register i becomes v, if it changes, and is compared with w.
Compare(c, v, w) == [c EXCEPT !.pc = @ + 1, !.flags = Compared(v, w)]
SetCompare(c, i, v, w) == [Compare(c, v, w) EXCEPT !.gpr[i] = v]

\* Go to k if the flags say so, and on to the next instruction otherwise.
Branch(c, flags, k) == Goto(c, IF c.flags = flags THEN k ELSE c.pc + 1)

\* The arguments of write( STDOUT_FILENO, x, 2 ); where x is does not matter here.
WriteArgs(c) == [c EXCEPT !.pc = @ + 1, !.gpr[1] = STDOUT_FILENO, !.gpr[2] = 0, !.gpr[3] = 2]

(***************************************************************************)
(* main_P1, main_P2.                                                       *)
(***************************************************************************)
P1orP2(c, main) == IF c.pc = main THEN WriteArgs(c) ELSE Goto(c, main)

(***************************************************************************)
(* main_P3, with x in r3, and weight, with x in r0.                        *)
(***************************************************************************)
\* x & y, bit by bit.
And(x, y) ==
  LET and[p \in Nat \X Nat] ==
        IF 0 \in {p[1], p[2]} THEN 0
        ELSE (p[1] % 2) * (p[2] % 2) + 2 * and[<<p[1] \div 2, p[2] \div 2>>]
  IN and[<<x, y>>]

\* 0x55555555, 0x33333333, 0x0F0F0F0F, 0x00FF00FF, 0x0000FFFF
Masks == <<1431655765, 858993459, 252645135, 16711935, 65535>>

\* One of the five sums: neighbouring fields of 2^(k-1) bits are added.
weightStage(x, k) == And(x, Masks[k]) + And(x \div 2 ^ (2 ^ (k - 1)), Masks[k])

P3(c) ==
  LET x == c.gpr[4]  at == c.pc - main_P3 IN
  CASE at = 0 -> WriteArgs(c)
    [] at = 2 -> Set(c, 4, WeightLo)
    [] at = 3 -> Call(c, x, main_P3 + 9)
    [] at \in 4 .. 7 -> Set(c, 1, weightStage(c.gpr[1], at - 3))
    [] at = 8 -> Return(c, weightStage(c.gpr[1], 5))
    [] at = 9 -> SetCompare(c, 4, x + 1, WeightHi)
    [] at = 10 -> Branch(c, Lower, main_P3 + 3)
    [] OTHER -> Goto(c, main_P3)

(***************************************************************************)
(* main_P4, with x in r2 and y in r3, and gcd( r0, r1 ), whose recursive   *)
(* calls are the last thing it does.                                       *)
(***************************************************************************)
P4(c) ==
  LET x == c.gpr[3]  y == c.gpr[4]  a == c.gpr[1]  b == c.gpr[2]  at == c.pc - main_P4 IN
  CASE at = 0 -> WriteArgs(c)
    [] at = 2 -> Set(c, 3, GcdLo)
    [] at = 3 -> Set(c, 4, GcdLo)
    [] at = 4 -> [Call(c, x, main_P4 + 9) EXCEPT !.gpr[2] = y]
    [] at = 5 -> Compare(c, a, b)
    [] at = 6 -> IF c.flags = Equal THEN Return(c, a) ELSE Branch(c, Lower, main_P4 + 8)
    [] at = 7 -> [Goto(c, main_P4 + 5) EXCEPT !.gpr[1] = a - b]
    [] at = 8 -> [Goto(c, main_P4 + 5) EXCEPT !.gpr[2] = b - a]
    [] at = 9 -> SetCompare(c, 4, y + 1, GcdHi)
    [] at = 10 -> Branch(c, Lower, main_P4 + 4)
    [] at = 11 -> SetCompare(c, 3, x + 1, GcdHi)
    [] at = 12 -> Branch(c, Lower, main_P4 + 3)
    [] OTHER -> Goto(c, main_P4)

(***************************************************************************)
(* main_P5, with i in r3 and x in r2, and is_prime( r0 ), with d in r1.    *)
(***************************************************************************)
\* Mutant of is_prime: the square of a divisor is not tried.
is_prime_NoSquares(c, at) ==
  LET a == c.gpr[1]  d == c.gpr[2] IN
  CASE at = 5 -> Compare(c, a % 2, 0)
    [] at = 6 -> Branch(c, Equal, main_P5 + 9)
    [] at = 7 -> Compare(c, a, 2)
    [] at = 8 -> IF c.flags = Lower THEN Goto(c, main_P5 + 9) ELSE [Goto(c, main_P5 + 11) EXCEPT !.gpr[2] = 3]
    [] at = 9 -> Compare(c, a, 2)
    [] at = 10 -> Return(c, IF c.flags = Equal THEN 1 ELSE 0)
    [] at = 11 -> Compare(c, d * d + 1, a)
    [] at = 12 -> IF c.flags = Higher THEN Return(c, 1) ELSE Goto(c, main_P5 + 13)
    [] at = 13 -> Compare(c, a % d, 0)
    [] OTHER -> IF c.flags = Equal THEN Return(c, 0) ELSE [Goto(c, main_P5 + 11) EXCEPT !.gpr[2] = d + 2]

is_prime(c, at) ==
  LET a == c.gpr[1]  d == c.gpr[2] IN
  CASE at = 5 -> Compare(c, a % 2, 0)
    [] at = 6 -> Branch(c, Equal, main_P5 + 9)
    [] at = 7 -> Compare(c, a, 2)
    [] at = 8 -> IF c.flags = Lower THEN Goto(c, main_P5 + 9) ELSE [Goto(c, main_P5 + 11) EXCEPT !.gpr[2] = 3]
    [] at = 9 -> Compare(c, a, 2)
    [] at = 10 -> Return(c, IF c.flags = Equal THEN 1 ELSE 0)
    [] at = 11 -> Compare(c, d * d, a)
    [] at = 12 -> IF c.flags = Higher THEN Return(c, 1) ELSE Goto(c, main_P5 + 13)
    [] at = 13 -> Compare(c, a % d, 0)
    [] OTHER -> IF c.flags = Equal THEN Return(c, 0) ELSE [Goto(c, main_P5 + 11) EXCEPT !.gpr[2] = d + 2]

P5(c) ==
  LET i == c.gpr[4]  x == c.gpr[3]  at == c.pc - main_P5 IN
  CASE at = 0 -> Set(c, 4, 0)
    [] at = 1 -> WriteArgs(c)
    [] at = 3 -> Set(c, 3, PrimeLo)
    [] at = 4 -> Call(c, x, main_P5 + 15)
    [] at \in 5 .. 14 -> is_prime(c, at)
    [] at = 15 -> SetCompare(c, 3, x + 1, PrimeHi)
    [] at = 16 -> Branch(c, Lower, main_P5 + 4)
    [] at = 17 -> SetCompare(c, 4, i + 1, Rounds)
    [] at = 18 -> IF c.flags = Lower THEN Goto(c, main_P5 + 1) ELSE Set(c, 1, 0)
    [] OTHER -> c

(***************************************************************************)
(* main_console, reduced to executing programs: command k is in r3.        *)
(***************************************************************************)
Commands(c) ==
  LET k == c.gpr[4]  at == c.pc - main_console IN
  CASE at = 0 /\ executed # <<>> -> Set(c, 4, 1)
    [] at = 2 -> Compare(c, c.gpr[1], 0)
    [] at = 3 -> Branch(c, Equal, main_console + 7)
    [] at = 4 -> Compare(c, k, Len(executed))
    [] at = 5 /\ c.flags = Lower -> [Goto(c, main_console + 1) EXCEPT !.gpr[4] = k + 1]
    [] at = 5 /\ c.flags # Lower -> Goto(c, main_console + 6)
    [] at = 7 -> Set(c, 1, executed[k])
    [] OTHER -> c  \* gets waits for a character

After(c) ==
  CASE c.pc \div 100 = 1 -> P1orP2(c, main_P1)
    [] c.pc \div 100 = 2 -> P1orP2(c, main_P2)
    [] c.pc \div 100 = 3 -> P3(c)
    [] c.pc \div 100 = 4 -> P4(c)
    [] c.pc \div 100 = 5 -> P5(c)
    [] OTHER -> Commands(c)

(***************************************************************************)
(* What the functions of the programs should compute.                      *)
(***************************************************************************)
Bits(x) == {i \in 0 .. 30 : (x \div 2 ^ i) % 2 = 1}

IsGcd(g, x, y) ==
  /\ x % g = 0 /\ y % g = 0
  /\ \A d \in g + 1 .. x : x % d # 0 \/ y % d # 0

IsPrime(x) == x > 1 /\ \A d \in 2 .. x - 1 : x % d # 0

\* A context at the return of weight, gcd or is_prime holds the right result for
\* the arguments that the loop around the call has.
ResultRight(c) ==
  /\ c.pc = main_P3 + 9 => c.gpr[1] = Cardinality(Bits(c.gpr[4]))
  /\ c.pc = main_P4 + 9 => IsGcd(c.gpr[1], c.gpr[3], c.gpr[4])
  /\ c.pc = main_P5 + 15 => (c.gpr[1] = 1 <=> IsPrime(c.gpr[3]))
=============================================================================
