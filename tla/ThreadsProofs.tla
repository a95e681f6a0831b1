--------------------------- MODULE ThreadsProofs ---------------------------
(***************************************************************************)
(* Proof that LowLevel implements Threads: whatever interrupts a program,  *)
(* and at whatever instruction, it finds its registers as it left them,    *)
(* and a call does what it should exactly once.  It follows that what the  *)
(* programs compute is right, whoever runs in between.                     *)
(***************************************************************************)
EXTENDS LowLevelProofs

(***************************************************************************)
(* Threads, as functions of the running thread and all threads.            *)
(***************************************************************************)
\* The context after a call that returns v.
Result(c, v) == Set(c, 1, v)

Calling(c, id) == c.pc \in DOMAIN SvcAt /\ SvcAt[c.pc] = id

FirstThread ==
  [pc |-> main_console, gpr |-> [i \in 1 .. Gprs |-> 0], sp |-> 0, lr |-> 0, flags |-> 0]

Boots(r, t, r2, t2) == r = 0 /\ r2 = 1 /\ t2 = [p \in {1} |-> FirstThread]

Writes(r, t, r2, t2) ==
  r2 = r /\ Calling(t[r], SYS_WRITE) /\ t2 = [t EXCEPT ![r] = Result(t[r], t[r].gpr[3])]

Forks(r, t, r2, t2) ==
  /\ r2 = r /\ Calling(t[r], SYS_FORK)
  /\ \E child \in (Nat \ {0}) \ DOMAIN t :
       t2 = [p \in DOMAIN t \cup {child} |->
               CASE p = child -> [Result(t[r], 0) EXCEPT !.sp = @ + child - r]
                 [] p = r -> Result(t[r], child)
                 [] OTHER -> t[p]]

Execs(r, t, r2, t2) ==
  r2 = r /\ Calling(t[r], SYS_EXEC) /\ t2 = [t EXCEPT ![r] = [t[r] EXCEPT !.pc = t[r].gpr[1]]]

Exits(r, t, r2, t2) ==
  /\ Calling(t[r], SYS_EXIT)
  /\ t2 = [p \in DOMAIN t \ {r} |-> t[p]] /\ r2 \in DOMAIN t2

Switches(r, t, r2, t2) == r2 \in DOMAIN t /\ t2 = t

\* What the kernel does while a handler runs is a step of Threads.
Serves(r, t, r2, t2) ==
  \/ Boots(r, t, r2, t2)
  \/ /\ r # 0
     /\ \/ Writes(r, t, r2, t2) \/ Forks(r, t, r2, t2) \/ Execs(r, t, r2, t2)
        \/ Exits(r, t, r2, t2) \/ Switches(r, t, r2, t2)

(***************************************************************************)
(* Programs go from instruction to instruction, and each process has the   *)
(* stack with its number.                                                  *)
(***************************************************************************)
Links == {0, main_P3 + 9, main_P4 + 9, main_P5 + 15}
Starts == {main_P1, main_P2, main_P3, main_P4, main_P5}

\* The console has a command to execute from its first fork to exec.
Sound(c) ==
  /\ IsContext(c)
  /\ c.pc \in Int /\ c.lr \in Links
  /\ c.pc \in main_console + 1 .. main_console + 8 => c.gpr[4] \in 1 .. Len(executed)
  /\ c.pc = main_console + 5 /\ c.flags = Lower => c.gpr[4] < Len(executed)
  /\ c.pc = main_console + 8 => c.gpr[1] \in Starts

AllSound(t) == \A p \in DOMAIN t : p \in Nat \ {0} /\ Sound(t[p]) /\ t[p].sp = p - 1

(***************************************************************************)
(* Where the registers of the current process are while a handler runs.    *)
(***************************************************************************)
\* The threads that are process cur, with context c, and those who wait in q.
PidsOf(cur, q) == {cur} \cup {q[i].pid : i \in DOMAIN q}

ThreadsOf(cur, q, c) ==
  [p \in PidsOf(cur, q) |->
     IF p = cur THEN c ELSE ContextOf(q[CHOOSE i \in DOMAIN q : q[i].pid = p].frame)]

\* A program has made a call, which the kernel has not served; the call is in r1.
Calls(a)  == a \in 2000 .. 2006 \cup 2100 .. 2101
Called(a) == a \in {2006, 2100, 2101}

\* The return address is one too far.
Ahead(a) == Calls(a) \/ a = 3000

\* The first process has not been created yet.
Booting(a) == a \in 1000 .. 1001 \cup 1100 .. 1106 \cup 1200 .. 1201

\* The kernel has done what the handler is for.
Served(a) ==
  a \in 1107 .. 1111 \cup 1202 .. 1301 \cup 2007 .. 2011 \cup {2102} \cup 3006 .. 3010 \cup 3103 .. 3105

\* The registers are where the program left them, or on the stack without pc.
InRegisters(a) == Height(a) = 0 \/ a \in {2002, 3002, 1110, 2010, 3009}
OnStack(a)     == Height(a) = GprWords /\ ~InRegisters(a)

Words(w, k) == [i \in 1 .. Gprs |-> w[k + i]]

Regs(a) ==
  [pc |-> cpu.lr[ModeAt(a)], gpr |-> cpu.gpr, sp |-> cpu.sp, lr |-> cpu.lr[USR],
   flags |-> FlagsOf(cpu.spsr[ModeAt(a)])]

\* The status is in spsr or in r0.
Status(a) == IF Place(a) = "r0" THEN cpu.gpr[1] ELSE cpu.spsr[ModeAt(a)]

Stored(a, w) ==
  [pc |-> cpu.lr[ModeAt(a)], gpr |-> Words(w, 0), sp |-> w[Gprs + 1], lr |-> w[Gprs + 2],
   flags |-> FlagsOf(Status(a))]

\* Words k + 1 .. k + CtxWords as a ctx_t.
Framed(w, k) ==
  [pc |-> w[k + 2], gpr |-> Words(w, k + 2), sp |-> w[k + Gprs + 3], lr |-> w[k + Gprs + 4],
   flags |-> FlagsOf(w[k + 1])]

\* The registers of the current process, with the return address for pc.
Mine(a) ==
  IF InRegisters(a) THEN Regs(a)
  ELSE IF OnStack(a) THEN Stored(a, stk[ModeAt(a)])
  ELSE IF Height(a) = CtxWords THEN Framed(stk[ModeAt(a)], 0)
  ELSE Framed(stk[ModeAt(a)], 1)

\* The context in which the program was, if this is Mine.
Resumed(a, c) == IF Ahead(a) THEN [c EXCEPT !.pc = @ - 1] ELSE c

Now(a) == ThreadsOf(curr_prog, queue, Resumed(a, Mine(a)))

(***************************************************************************)
(* The invariant.                                                          *)
(***************************************************************************)
NumberedIn(cur, q, n) ==
  /\ n \in Nat \ {0}
  /\ cur \in 0 .. n - 1
  /\ \A i \in DOMAIN q : q[i].pid \in 1 .. n - 1 /\ q[i].pid # cur
  /\ \A i, j \in DOMAIN q : q[i].pid = q[j].pid => i = j

Numbered == NumberedIn(curr_prog, queue, curr_pid)

\* What has been seen is what is.
Seen(t) == seen = [running |-> curr_prog, thread |-> t] /\ curr_prog # 0 /\ AllSound(t)

\* A handler finds the program where it was seen last, before the kernel has served
\* it; the call it wants is in r1 for the C function.
Finds(a) ==
  /\ Seen(Now(a))
  /\ Ahead(a) => Mine(a).pc \in Int
  /\ Calls(a) => Mine(a).pc - 1 \in DOMAIN SvcAt
  /\ a = 2005 => cpu.lr[SVC] = Mine(a).pc
  /\ Called(a) => cpu.gpr[2] = SvcAt[Mine(a).pc - 1]

\* After it, what will be seen next is a step from what was seen last.
Leaves(a) ==
  /\ seen.running # 0 => seen.running \in DOMAIN seen.thread /\ AllSound(seen.thread)
  /\ curr_prog # 0
  /\ Serves(seen.running, seen.thread, curr_prog, Now(a))

Starting == seen.running = 0 /\ curr_pid = 1

Traces(a) ==
  IF Booting(a) THEN Starting ELSE IF Served(a) THEN Leaves(a) ELSE Finds(a)

Traced ==
  /\ Balanced
  /\ Numbered
  /\ executed \in Sessions
  /\ IF InProgram THEN Seen(Contexts) ELSE Traces(cpu.pc)

(***************************************************************************)
(* Programs: no instruction leaves the code, or the process's own stack.   *)
(***************************************************************************)
\* Not an address where the console works on a command.
Outside(k) == k \in Int /\ k \notin main_console + 1 .. main_console + 8

\* d is a sound context on the stack of c.
Moves(c, d) == IsContext(d) /\ d.sp = c.sp /\ Outside(d.pc) /\ d.lr \in Links

LEMMA MovesAreSound ==
  ASSUME NEW c, NEW d, Moves(c, d)  PROVE Sound(d) /\ d.sp = c.sp
BY DEF Moves, Sound, Outside, main_console

LEMMA Moved ==
  ASSUME NEW c, IsContext(c), c.lr \in Links, NEW i, NEW v, NEW k
  PROVE  /\ Outside(k) => Moves(c, Goto(c, k)) /\ Moves(c, [c EXCEPT !.pc = k, !.gpr[i] = v])
         /\ Outside(c.pc + 1) =>
              /\ Moves(c, Set(c, i, v)) /\ Moves(c, WriteArgs(c))
              /\ k \in Links => Moves(c, Call(c, v, k)) /\ Moves(c, [Call(c, v, k) EXCEPT !.gpr[2] = i])
         /\ Outside(c.pc) => Moves(c, c) /\ Moves(c, [c EXCEPT !.gpr[i] = v])
         /\ Moves(c, Return(c, v))
<1>1. Outside(c.lr)
  BY DEF Links, Outside, main_P3, main_P4, main_P5, main_console
<1>2. /\ IsContext(Goto(c, k)) /\ Goto(c, k).pc = k /\ Goto(c, k).lr = c.lr /\ Goto(c, k).sp = c.sp
      /\ IsContext(Set(c, i, v)) /\ Set(c, i, v).pc = c.pc + 1 /\ Set(c, i, v).lr = c.lr
      /\ Set(c, i, v).sp = c.sp
  BY DEF IsContext, IsMap, Goto, Set
<1>3. LET d == [c EXCEPT !.pc = k, !.gpr[i] = v]
          e == [c EXCEPT !.gpr[i] = v] IN
      /\ IsContext(d) /\ d.pc = k /\ d.lr = c.lr /\ d.sp = c.sp
      /\ IsContext(e) /\ e.pc = c.pc /\ e.lr = c.lr /\ e.sp = c.sp
  BY DEF IsContext, IsMap
<1>4. LET d == WriteArgs(c)
          e == Return(c, v) IN
      /\ IsContext(d) /\ d.pc = c.pc + 1 /\ d.lr = c.lr /\ d.sp = c.sp
      /\ IsContext(e) /\ e.pc = c.lr /\ e.lr = c.lr /\ e.sp = c.sp
  BY DEF IsContext, IsMap, WriteArgs, Return
<1>5. LET d == Call(c, v, k)
          e == [d EXCEPT !.gpr[2] = i] IN
      /\ IsContext(d) /\ d.pc = c.pc + 1 /\ d.lr = k /\ d.sp = c.sp
      /\ IsContext(e) /\ e.pc = c.pc + 1 /\ e.lr = k /\ e.sp = c.sp
  BY DEF IsContext, IsMap, Call
<1>6. QED
  BY <1>1, <1>2, <1>3, <1>4, <1>5 DEF Moves

\* A comparison leaves the registers alone, or sets one; a branch goes on or to k.
LEMMA ComparedContext ==
  ASSUME NEW c, IsContext(c), NEW v, NEW w
  PROVE  LET d == Compare(c, v, w) IN
         /\ IsContext(d) /\ d.pc = c.pc + 1 /\ d.gpr = c.gpr /\ d.lr = c.lr /\ d.sp = c.sp
         /\ d.flags = Compared(v, w)
<1>1. IsContext(Compare(c, v, w))
  BY Comparisons
<1>2. QED
  BY <1>1 DEF IsContext, IsMap, Compare

LEMMA BranchedContext ==
  ASSUME NEW c, IsContext(c), NEW i, NEW k
  PROVE  LET d == Branch(c, i, k) IN
         /\ IsContext(d) /\ d.pc = (IF c.flags = i THEN k ELSE c.pc + 1)
         /\ d.gpr = c.gpr /\ d.lr = c.lr /\ d.sp = c.sp /\ d.flags = c.flags
<1>1. IsContext(Branch(c, i, k))
  BY Comparisons
<1>2. QED
  BY <1>1 DEF IsContext, IsMap, Branch, Goto

LEMMA MovedOn ==
  ASSUME NEW c, IsContext(c), c.lr \in Links, Outside(c.pc + 1), NEW i, NEW v, NEW w, NEW k
  PROVE  /\ Moves(c, Compare(c, v, w)) /\ Moves(c, SetCompare(c, i, v, w))
         /\ Outside(k) => Moves(c, Branch(c, i, k)) /\ Moves(c, [Goto(c, k) EXCEPT !.gpr[i] = v])
<1>1. Moves(c, Compare(c, v, w))
  BY ComparedContext DEF Moves
<1>2. Moves(c, SetCompare(c, i, v, w))
  <2> DEFINE d == Compare(c, v, w)
             e == [d EXCEPT !.gpr[i] = v]
  <2>1. IsContext(d) /\ d.pc = c.pc + 1 /\ d.lr = c.lr /\ d.sp = c.sp
    BY ComparedContext
  <2> HIDE DEF d
  <2>2. IsContext(e) /\ e.pc = c.pc + 1 /\ e.lr = c.lr /\ e.sp = c.sp
    BY <2>1 DEF IsContext, IsMap
  <2> QED
    BY <2>2 DEF Moves, SetCompare, d
<1>3. Outside(k) => Moves(c, Branch(c, i, k))
  BY BranchedContext DEF Moves
<1>4. Outside(k) => Moves(c, [Goto(c, k) EXCEPT !.gpr[i] = v])
  <2> DEFINE d == [Goto(c, k) EXCEPT !.gpr[i] = v]
  <2>1. IsContext(d) /\ d.pc = k /\ d.lr = c.lr /\ d.sp = c.sp
    BY DEF IsContext, IsMap, Goto
  <2> QED
    BY <2>1 DEF Moves
<1> QED
  BY <1>1, <1>2, <1>3, <1>4

LEMMA WithinProgram ==
  ASSUME NEW k \in Int, k \div 100 < 6
  PROVE  Outside(k) /\ Outside(k + 1)
BY DEF Outside, main_console

LEMMA OutsideStarts ==
  /\ \A k \in Starts \cup {main_console} : Outside(k)
  /\ \A i \in 0 .. 20 : Outside(main_P3 + i) /\ Outside(main_P4 + i) /\ Outside(main_P5 + i)
  /\ main_P3 + 9 \in Links /\ main_P4 + 9 \in Links /\ main_P5 + 15 \in Links
BY DEF Outside, Links, Starts, main_console, main_P1, main_P2, main_P3, main_P4, main_P5

LEMMA P1orP2Moves ==
  ASSUME NEW c, Sound(c), c.pc \div 100 < 6, NEW main \in Starts
  PROVE  Moves(c, P1orP2(c, main))
BY Moved, WithinProgram, OutsideStarts, Zenon DEF Sound, P1orP2

LEMMA P3Moves ==
  ASSUME NEW c, Sound(c), c.pc \div 100 < 6
  PROVE  Moves(c, P3(c))
<1>1. Outside(c.pc) /\ Outside(c.pc + 1) /\ IsContext(c) /\ c.lr \in Links
  BY WithinProgram DEF Sound
<1>2. Outside(main_P3 + 3) /\ Outside(main_P3) /\ main_P3 + 9 \in Links
  BY OutsideStarts DEF Starts
<1>3. QED
  BY <1>1, <1>2, Moved, MovedOn, Zenon DEF P3

LEMMA P4Moves ==
  ASSUME NEW c, Sound(c), c.pc \div 100 < 6
  PROVE  Moves(c, P4(c))
<1>1. Outside(c.pc) /\ Outside(c.pc + 1) /\ IsContext(c) /\ c.lr \in Links
  BY WithinProgram DEF Sound
<1>2. /\ Outside(main_P4 + 3) /\ Outside(main_P4 + 4) /\ Outside(main_P4 + 5)
      /\ Outside(main_P4 + 8) /\ Outside(main_P4) /\ main_P4 + 9 \in Links
  BY OutsideStarts DEF Starts
<1>3. QED
  BY <1>1, <1>2, Moved, MovedOn, Zenon DEF P4

LEMMA P5Moves ==
  ASSUME NEW c, Sound(c), c.pc \div 100 < 6
  PROVE  Moves(c, P5(c))
<1>1. Outside(c.pc) /\ Outside(c.pc + 1) /\ IsContext(c) /\ c.lr \in Links
  BY WithinProgram DEF Sound
<1>2. /\ Outside(main_P5 + 1) /\ Outside(main_P5 + 4) /\ Outside(main_P5 + 9)
      /\ Outside(main_P5 + 11) /\ Outside(main_P5 + 13) /\ main_P5 + 15 \in Links
  BY OutsideStarts
<1>3. \A at : Moves(c, is_prime(c, at))
  BY <1>1, <1>2, Moved, MovedOn, Zenon DEF is_prime
<1>4. QED
  BY <1>1, <1>2, <1>3, Moved, MovedOn, Zenon DEF P5

\* The commands of a session, and where they start.
LEMMA Session ==
  ASSUME executed \in Sessions
  PROVE  Len(executed) \in Nat /\ \A k \in 1 .. Len(executed) : executed[k] \in Starts
BY ProgramsAssumption DEF Starts

LEMMA RegisterSet ==
  ASSUME NEW c, IsContext(c), NEW i \in 1 .. Gprs, NEW v
  PROVE  /\ IsContext(Set(c, i, v)) /\ Set(c, i, v).pc = c.pc + 1 /\ Set(c, i, v).lr = c.lr
         /\ Set(c, i, v).sp = c.sp /\ Set(c, i, v).gpr[i] = v
         /\ \A j \in 1 .. Gprs \ {i} : Set(c, i, v).gpr[j] = c.gpr[j]
BY DEF IsContext, IsMap, Set

LEMMA CommandsSound ==
  ASSUME NEW c, Sound(c), executed \in Sessions
  PROVE  Sound(Commands(c)) /\ Commands(c).sp = c.sp
<1> DEFINE k == c.gpr[4]
           at == c.pc - main_console
           n == Len(executed)
<1>1. IsContext(c) /\ c.pc \in Int /\ c.lr \in Links /\ n \in Nat /\ 4 \in 1 .. Gprs /\ 1 \in 1 .. Gprs
  BY Session DEF Sound, Gprs
<1>2. at \in 1 .. 8 => k \in 1 .. n
  BY <1>1 DEF Sound, main_console
<1>3. CASE at = 0 /\ executed # <<>>
  <2>1. n >= 1
    BY <1>1, <1>3, ProgramsAssumption
  <2> DEFINE d == Set(c, 4, 1)
  <2>2. IsContext(d) /\ d.pc = main_console + 1 /\ d.gpr[4] = 1 /\ d.lr = c.lr /\ d.sp = c.sp
    <3>1. c.pc + 1 = main_console + 1
      BY <1>1, <1>3 DEF main_console
    <3>2. QED
      BY <1>1, <3>1, RegisterSet
  <2>3. Commands(c) = d
    BY <1>1, <1>3 DEF Commands
  <2> HIDE DEF d
  <2>4. QED
    BY <1>1, <2>1, <2>2, <2>3 DEF Sound, main_console
<1>4. CASE at \in {2, 4}
  <2> DEFINE v == IF at = 2 THEN c.gpr[1] ELSE k
             w == IF at = 2 THEN 0 ELSE n
             d == Compare(c, v, w)
  <2>1. IsContext(d) /\ d.pc = c.pc + 1 /\ d.gpr = c.gpr /\ d.lr = c.lr /\ d.sp = c.sp
        /\ d.flags = Compared(v, w)
    BY <1>1, ComparedContext
  <2>2. Commands(c) = d
    BY <1>1, <1>4 DEF Commands
  <2>3. at = 4 /\ d.flags = Lower => k < n
    BY <1>1, <1>2, <1>4, <2>1 DEF Compared, Lower, Higher, Equal
  <2> HIDE DEF d
  <2>4. QED
    BY <1>1, <1>2, <1>4, <2>1, <2>2, <2>3 DEF Sound, main_console
<1>5. CASE at = 3
  <2> DEFINE d == Branch(c, Equal, main_console + 7)
  <2>1. IsContext(d) /\ d.pc \in {main_console + 4, main_console + 7} /\ d.gpr = c.gpr
        /\ d.lr = c.lr /\ d.sp = c.sp
    <3>1. c.pc + 1 = main_console + 4
      BY <1>1, <1>5 DEF main_console
    <3>2. QED
      BY <1>1, <3>1, BranchedContext
  <2>2. Commands(c) = d
    BY <1>1, <1>5 DEF Commands
  <2> HIDE DEF d
  <2>3. QED
    BY <1>1, <1>2, <1>5, <2>1, <2>2 DEF Sound, main_console
<1>6. CASE at = 5 /\ c.flags = Lower
  <2> DEFINE d == [Goto(c, main_console + 1) EXCEPT !.gpr[4] = k + 1]
  <2>1. IsContext(d) /\ d.pc = main_console + 1 /\ d.gpr[4] = k + 1 /\ d.lr = c.lr /\ d.sp = c.sp
    BY <1>1 DEF IsContext, IsMap, Goto, Gprs
  <2>2. Commands(c) = d
    BY <1>6 DEF Commands
  <2>3. k + 1 \in 1 .. n
    <3>1. k < n
      BY <1>1, <1>6 DEF Sound, main_console
    <3>2. QED
      BY <1>1, <1>2, <1>6, <3>1
  <2> HIDE DEF d
  <2>4. QED
    BY <1>1, <2>1, <2>2, <2>3 DEF Sound, main_console
<1>7. CASE at = 5 /\ c.flags # Lower
  <2> DEFINE d == Goto(c, main_console + 6)
  <2>1. IsContext(d) /\ d.pc = main_console + 6 /\ d.gpr = c.gpr /\ d.lr = c.lr /\ d.sp = c.sp
    BY <1>1 DEF IsContext, IsMap, Goto
  <2>2. Commands(c) = d
    BY <1>7 DEF Commands
  <2> HIDE DEF d
  <2>3. QED
    BY <1>1, <1>2, <1>7, <2>1, <2>2 DEF Sound, main_console
<1>8. CASE at = 7
  <2> DEFINE d == Set(c, 1, executed[k])
  <2>1. IsContext(d) /\ d.pc = main_console + 8 /\ d.gpr[4] = k /\ d.gpr[1] = executed[k]
        /\ d.lr = c.lr /\ d.sp = c.sp
    <3>1. c.pc + 1 = main_console + 8 /\ 4 \in 1 .. Gprs \ {1}
      BY <1>1, <1>8 DEF main_console, Gprs
    <3>2. QED
      BY <1>1, <3>1, RegisterSet
  <2>2. Commands(c) = d
    BY <1>1, <1>8 DEF Commands
  <2>3. executed[k] \in Starts
    BY <1>2, <1>8, Session
  <2> HIDE DEF d
  <2>4. QED
    BY <1>1, <1>2, <1>8, <2>1, <2>2, <2>3 DEF Sound, main_console
<1>9. CASE ~(at = 0 /\ executed # <<>>) /\ at \notin {2, 3, 4, 5, 7}
  <2>1. Commands(c) = c
    BY <1>1, <1>9 DEF Commands
  <2>2. QED
    BY <2>1
<1>10. QED
  BY <1>3, <1>4, <1>5, <1>6, <1>7, <1>8, <1>9

LEMMA AfterSound ==
  ASSUME NEW c, Sound(c), executed \in Sessions
  PROVE  Sound(After(c)) /\ After(c).sp = c.sp
<1> DEFINE n == c.pc \div 100
<1>1. n \in Int /\ main_P1 \in Starts /\ main_P2 \in Starts
  BY DEF Sound, Starts
<1>2. n \in 1 .. 5 => Moves(c, After(c))
  <2>1. n = 1 => After(c) = P1orP2(c, main_P1)
    BY DEF After
  <2>2. n = 2 => After(c) = P1orP2(c, main_P2)
    BY DEF After
  <2>3. n = 3 => After(c) = P3(c)
    BY DEF After
  <2>4. n = 4 => After(c) = P4(c)
    BY DEF After
  <2>5. n = 5 => After(c) = P5(c)
    BY DEF After
  <2>6. n \in 1 .. 5 => n < 6
    OBVIOUS
  <2>7. QED
    BY <1>1, <2>1, <2>2, <2>3, <2>4, <2>5, <2>6, P1orP2Moves, P3Moves, P4Moves, P5Moves
<1>3. n \notin 1 .. 5 => After(c) = Commands(c)
  BY <1>1 DEF After
<1>4. QED
  BY <1>2, <1>3, MovesAreSound, CommandsSound

(***************************************************************************)
(* Calls keep threads sound.                                               *)
(***************************************************************************)
LEMMA Svcs ==
  ASSUME NEW a \in DOMAIN SvcAt
  PROVE  /\ a \in Int /\ SvcAt[a] \in {SYS_WRITE, SYS_FORK, SYS_EXIT, SYS_EXEC}
         /\ SvcAt[a] = SYS_WRITE => Outside(a + 1)
         /\ SvcAt[a] = SYS_FORK => a = main_console + 1
         /\ SvcAt[a] = SYS_EXEC => a = main_console + 8
<1> DEFINE Writing == {101, 201, 301, 401, 502}
<1>1. /\ DOMAIN SvcAt = Writing \cup {519, 601, 608}
      /\ \A k \in Writing : SvcAt[k] = 1
      /\ SvcAt[519] = 4 /\ SvcAt[601] = 3 /\ SvcAt[608] = 5
  BY DEF SvcAt, main_P1, main_P2, main_P3, main_P4, main_P5, main_console, SYS_WRITE, SYS_FORK,
     SYS_EXIT, SYS_EXEC
<1>2. QED
  BY <1>1 DEF Outside, main_console, SYS_WRITE, SYS_FORK, SYS_EXIT, SYS_EXEC

LEMMA ResultContext ==
  ASSUME NEW c, IsContext(c), NEW v
  PROVE  LET d == Result(c, v) IN
         /\ IsContext(d) /\ d.pc = c.pc + 1 /\ d.lr = c.lr /\ d.sp = c.sp
         /\ d.gpr[4] = c.gpr[4]
<1>1. 1 \in 1 .. Gprs /\ 4 \in 1 .. Gprs \ {1}
  BY DEF Gprs
<1>2. QED
  BY <1>1, RegisterSet DEF Result

LEMMA WriteSound ==
  ASSUME NEW c, Sound(c), Calling(c, SYS_WRITE), NEW v
  PROVE  Sound(Result(c, v)) /\ Result(c, v).sp = c.sp
<1> DEFINE d == Result(c, v)
<1>1. IsContext(c) /\ c.lr \in Links /\ Outside(c.pc + 1)
  BY Svcs DEF Sound, Calling
<1>2. IsContext(d) /\ d.pc = c.pc + 1 /\ d.lr = c.lr /\ d.sp = c.sp
  BY <1>1, ResultContext
<1> HIDE DEF d
<1>3. Moves(c, d)
  BY <1>1, <1>2 DEF Moves
<1>4. QED
  BY <1>3, MovesAreSound DEF d

LEMMA ForkSound ==
  ASSUME NEW c, Sound(c), Calling(c, SYS_FORK), NEW v
  PROVE  Sound(Result(c, v)) /\ Result(c, v).sp = c.sp
<1> DEFINE d == Result(c, v)
<1>1. IsContext(c) /\ c.lr \in Links /\ c.pc = main_console + 1 /\ c.gpr[4] \in 1 .. Len(executed)
  <2>1. c.pc = main_console + 1
    BY Svcs DEF Calling
  <2>2. QED
    BY <2>1 DEF Sound, main_console
<1>2. IsContext(d) /\ d.pc = c.pc + 1 /\ d.lr = c.lr /\ d.sp = c.sp /\ d.gpr[4] = c.gpr[4]
  BY <1>1, ResultContext
<1> HIDE DEF d
<1>3. d.pc = main_console + 2
  BY <1>1, <1>2 DEF main_console
<1>4. Sound(d)
  BY <1>1, <1>2, <1>3 DEF Sound, main_console
<1>5. QED
  BY <1>2, <1>4 DEF d

\* The child differs from its parent in the stack.
LEMMA ChildSound ==
  ASSUME NEW c, Sound(c), NEW s
  PROVE  Sound([c EXCEPT !.sp = s]) /\ [c EXCEPT !.sp = s].sp = s
<1> DEFINE d == [c EXCEPT !.sp = s]
<1>1. IsContext(d) /\ d.pc = c.pc /\ d.lr = c.lr /\ d.gpr = c.gpr /\ d.sp = s /\ d.flags = c.flags
  BY DEF Sound, IsContext, IsMap
<1> HIDE DEF d
<1>2. Sound(d)
  BY <1>1 DEF Sound
<1>3. QED
  BY <1>1, <1>2 DEF d

LEMMA ExecSound ==
  ASSUME NEW c, Sound(c), Calling(c, SYS_EXEC)
  PROVE  LET d == [c EXCEPT !.pc = c.gpr[1]] IN Sound(d) /\ d.sp = c.sp
<1> DEFINE d == [c EXCEPT !.pc = c.gpr[1]]
<1>1. IsContext(c) /\ c.lr \in Links /\ c.gpr[1] \in Starts
  <2>1. c.pc = main_console + 8
    BY Svcs DEF Calling
  <2>2. QED
    BY <2>1 DEF Sound
<1>2. IsContext(d) /\ d.pc = c.gpr[1] /\ d.lr = c.lr /\ d.sp = c.sp
  BY <1>1 DEF IsContext, IsMap
<1> HIDE DEF d
<1>3. Moves(c, d)
  BY <1>1, <1>2, OutsideStarts DEF Moves
<1>4. QED
  BY <1>3, MovesAreSound DEF d

LEMMA FirstSound == Sound(FirstThread) /\ FirstThread.sp = 0
<1>1. IsContext(FirstThread)
  <2>1. IsMap(FirstThread, {"pc", "gpr", "sp", "lr", "flags"})
    BY DEF IsMap, FirstThread
  <2>2. IsMap(FirstThread.gpr, 1 .. Gprs) /\ FirstThread.flags = 0
    BY DEF IsMap, FirstThread
  <2>3. QED
    BY <2>1, <2>2 DEF IsContext
<1>2. FirstThread.pc = 600 /\ FirstThread.lr = 0 /\ FirstThread.sp = 0
  BY DEF FirstThread, main_console
<1>3. QED
  BY <1>1, <1>2 DEF Sound, Links, main_console

\* A map with another value for one thread.
LEMMA OneSound ==
  ASSUME NEW t, AllSound(t), NEW r \in DOMAIN t, NEW c, Sound(c), c.sp = t[r].sp
  PROVE  AllSound([t EXCEPT ![r] = c])
BY DEF AllSound

LEMMA ServesSound ==
  ASSUME NEW r, NEW t, NEW r2, NEW t2, Serves(r, t, r2, t2),
         r # 0 => r \in DOMAIN t /\ AllSound(t)
  PROVE  AllSound(t2)
<1>1. CASE Boots(r, t, r2, t2)
  BY <1>1, FirstSound DEF Boots, AllSound
<1> DEFINE c == t[r]
<1>2. CASE r # 0 /\ Writes(r, t, r2, t2)
  <2>1. r \in DOMAIN t /\ AllSound(t) /\ Sound(c) /\ Calling(c, SYS_WRITE)
    BY <1>2 DEF AllSound, Writes
  <2>2. PICK d : Sound(d) /\ d.sp = c.sp /\ t2 = [t EXCEPT ![r] = d]
    BY <1>2, <2>1, WriteSound DEF Writes
  <2>3. QED
    BY <2>1, <2>2, OneSound
<1>3. CASE r # 0 /\ Forks(r, t, r2, t2)
  <2>1. r \in DOMAIN t /\ AllSound(t) /\ Sound(c) /\ Calling(c, SYS_FORK) /\ r \in Nat /\ c.sp = r - 1
    BY <1>3 DEF AllSound, Forks
  <2>2. PICK child \in (Nat \ {0}) \ DOMAIN t :
          t2 = [p \in DOMAIN t \cup {child} |->
                  CASE p = child -> [Result(c, 0) EXCEPT !.sp = @ + child - r]
                    [] p = r -> Result(c, child)
                    [] OTHER -> t[p]]
    BY <1>3 DEF Forks
  <2>3. PICK d : Sound(d) /\ d.sp = c.sp /\ d = Result(c, 0)
    BY <2>1, ForkSound
  <2>4. PICK e : Sound(e) /\ e.sp = c.sp /\ e = Result(c, child)
    BY <2>1, ForkSound
  <2>5. d.sp + child - r = child - 1
    BY <2>1, <2>3
  <2>6. PICK f : Sound(f) /\ f.sp = child - 1 /\ f = [d EXCEPT !.sp = d.sp + child - r]
    BY <2>3, <2>5, ChildSound
  <2>7. DOMAIN t2 = DOMAIN t \cup {child} /\ t2[child] = f /\ t2[r] = e
        /\ \A p \in DOMAIN t \ {r} : t2[p] = t[p]
    BY <2>1, <2>2, <2>3, <2>4, <2>6
  <2>8. QED
    BY <2>1, <2>4, <2>6, <2>7 DEF AllSound
<1>4. CASE r # 0 /\ Execs(r, t, r2, t2)
  <2>1. r \in DOMAIN t /\ AllSound(t) /\ Sound(c) /\ Calling(c, SYS_EXEC)
    BY <1>4 DEF AllSound, Execs
  <2>2. PICK d : Sound(d) /\ d.sp = c.sp /\ t2 = [t EXCEPT ![r] = d]
    BY <1>4, <2>1, ExecSound DEF Execs
  <2>3. QED
    BY <2>1, <2>2, OneSound
<1>5. CASE r # 0 /\ Exits(r, t, r2, t2)
  BY <1>5 DEF Exits, AllSound
<1>6. CASE r # 0 /\ Switches(r, t, r2, t2)
  BY <1>6 DEF Switches
<1>7. QED
  BY <1>1, <1>2, <1>3, <1>4, <1>5, <1>6 DEF Serves

(***************************************************************************)
(* The steps are those of Threads.                                         *)
(***************************************************************************)
\* Threads runs the same programs.
LEMMA SamePrograms ==
  /\ \A c : T!After(c) = After(c)
  /\ T!SvcAt = SvcAt
  /\ T!SYS_WRITE = SYS_WRITE /\ T!SYS_FORK = SYS_FORK /\ T!SYS_EXIT = SYS_EXIT /\ T!SYS_EXEC = SYS_EXEC
  /\ T!main_console = main_console /\ T!Gprs = Gprs
<1>1. \A c : T!After(c) = After(c)
  BY DEF T!After, After, T!P1orP2, P1orP2, T!P3, P3, T!P4, P4, T!P5, P5, T!Commands, Commands,
     T!is_prime, is_prime, T!weightStage, weightStage, T!And, And, T!Masks, Masks,
     T!WriteArgs, WriteArgs, T!Set, Set, T!Call, Call, T!Return, Return, T!Goto, Goto,
     T!STDOUT_FILENO, STDOUT_FILENO, T!main_P1, main_P1, T!main_P2, main_P2, T!main_P3, main_P3,
     T!main_P4, main_P4, T!main_P5, main_P5, T!main_console, main_console
<1>2. T!SvcAt = SvcAt
  BY DEF T!SvcAt, SvcAt, T!main_P1, main_P1, T!main_P2, main_P2, T!main_P3, main_P3,
     T!main_P4, main_P4, T!main_P5, main_P5, T!main_console, main_console,
     T!SYS_WRITE, SYS_WRITE, T!SYS_FORK, SYS_FORK, T!SYS_EXIT, SYS_EXIT, T!SYS_EXEC, SYS_EXEC
<1>3. QED
  BY <1>1, <1>2 DEF T!SYS_WRITE, SYS_WRITE, T!SYS_FORK, SYS_FORK, T!SYS_EXIT, SYS_EXIT,
     T!SYS_EXEC, SYS_EXEC, T!main_console, main_console, T!Gprs, Gprs

LEMMA ServesStep ==
  ASSUME Serves(seen.running, seen.thread, seen'.running, seen'.thread), UNCHANGED executed
  PROVE  T!Next
<1> DEFINE r == seen.running
           t == seen.thread
           r2 == seen'.running
           t2 == seen'.thread
<1> USE SamePrograms DEF Calling, T!Calls, T!Me, T!Returned, Result, Set
<1>1. CASE Boots(r, t, r2, t2)
  <2>1. T!Boot
    BY <1>1 DEF Boots, T!Boot, FirstThread
  <2>2. QED
    BY <2>1 DEF T!Next
<1>2. CASE r # 0 /\ Writes(r, t, r2, t2)
  <2>1. T!Write
    BY <1>2 DEF Writes, T!Write
  <2>2. QED
    BY <2>1 DEF T!Next
<1>3. CASE r # 0 /\ Forks(r, t, r2, t2)
  <2>1. PICK child \in (Nat \ {0}) \ DOMAIN t :
          t2 = [p \in DOMAIN t \cup {child} |->
                  CASE p = child -> [Result(t[r], 0) EXCEPT !.sp = @ + child - r]
                    [] p = r -> Result(t[r], child)
                    [] OTHER -> t[p]]
    BY <1>3 DEF Forks
  <2>2. child \in DOMAIN t2 \ DOMAIN t
    BY <2>1, SMTT(30)
  <2>3. T!Fork
    BY <1>3, <2>1, <2>2, ZenonT(30) DEF Forks, T!Fork
  <2>4. QED
    BY <2>3, Zenon DEF T!Next
<1>4. CASE r # 0 /\ Execs(r, t, r2, t2)
  <2>1. T!Exec
    BY <1>4 DEF Execs, T!Exec
  <2>2. QED
    BY <2>1 DEF T!Next
<1>5. CASE r # 0 /\ Exits(r, t, r2, t2)
  <2>1. T!Exit
    BY <1>5 DEF Exits, T!Exit
  <2>2. QED
    BY <2>1 DEF T!Next
<1>6. CASE r # 0 /\ Switches(r, t, r2, t2)
  <2>1. T!Switch
    BY <1>6 DEF Switches, T!Switch
  <2>2. QED
    BY <2>1 DEF T!Next
<1>7. QED
  BY <1>1, <1>2, <1>3, <1>4, <1>5, <1>6 DEF Serves

(***************************************************************************)
(* Threads that wait in a queue.                                           *)
(***************************************************************************)
\* All threads but r, and all with one more.
Without(t, r) == [p \in DOMAIN t \ {r} |-> t[p]]
With(t, r, c) == [p \in DOMAIN t \cup {r} |-> IF p = r THEN c ELSE t[p]]

LEMMA Members ==
  ASSUME NEW cur, NEW q, NEW n, NumberedIn(cur, q, n), NEW c
  PROVE  LET t == ThreadsOf(cur, q, c) IN
         /\ IsMap(t, PidsOf(cur, q))
         /\ t[cur] = c
         /\ \A i \in DOMAIN q : t[q[i].pid] = ContextOf(q[i].frame)
<1> DEFINE t == ThreadsOf(cur, q, c)
           D == PidsOf(cur, q)
<1>1. t = [p \in D |-> t[p]]
  BY DEF ThreadsOf
<1>2. t[cur] = c
  BY DEF ThreadsOf, PidsOf
<1>3. ASSUME NEW i \in DOMAIN q  PROVE t[q[i].pid] = ContextOf(q[i].frame)
  <2>1. q[i].pid # cur /\ q[i].pid \in D
    BY DEF NumberedIn, PidsOf
  <2>2. (CHOOSE k \in DOMAIN q : q[k].pid = q[i].pid) = i
    BY DEF NumberedIn
  <2>3. t[q[i].pid] = ContextOf(q[CHOOSE k \in DOMAIN q : q[k].pid = q[i].pid].frame)
    BY <2>1 DEF ThreadsOf
  <2>4. QED
    BY <2>2, <2>3
<1>4. QED
  BY <1>1, <1>2, <1>3 DEF IsMap

\* Maps with the same domain and values are the same.
LEMMA SameMap ==
  ASSUME NEW D, NEW f, NEW g, IsMap(f, D), IsMap(g, D), \A x \in D : f[x] = g[x]
  PROVE  f = g
<1>1. [x \in D |-> f[x]] = [x \in D |-> g[x]]
  OBVIOUS
<1>2. QED
  BY <1>1 DEF IsMap

LEMMA OneChanges ==
  ASSUME NEW cur, NEW q, NEW c, NEW d
  PROVE  ThreadsOf(cur, q, d) = [ThreadsOf(cur, q, c) EXCEPT ![cur] = d]
<1> DEFINE t == ThreadsOf(cur, q, c)
           u == ThreadsOf(cur, q, d)
           D == PidsOf(cur, q)
<1>1. cur \in D
  BY DEF PidsOf
<1> HIDE DEF D
<1>2. IsMap(t, D) /\ IsMap(u, D) /\ u[cur] = d /\ \A p \in D \ {cur} : u[p] = t[p]
  BY <1>1 DEF ThreadsOf, IsMap, D
<1> HIDE DEF t, u
<1>3. QED
  BY <1>1, <1>2 DEF IsMap, t, u

\* The first of the queue goes on.
LEMMA FirstRuns ==
  ASSUME NEW q, IsSequence(q), q # <<>>, NEW cur, NEW n, NumberedIn(cur, q, n), NEW c
  PROVE  LET t == ThreadsOf(cur, q, c)
             r == q[1] IN
         /\ NumberedIn(r.pid, Tail(q), n) /\ r.pid # 0 /\ r.pid \in DOMAIN t \ {cur}
         /\ ThreadsOf(r.pid, Tail(q), ContextOf(r.frame)) = Without(t, cur)
<1> DEFINE t == ThreadsOf(cur, q, c)
           r == q[1]
           s == Tail(q)
           u == ThreadsOf(r.pid, s, ContextOf(r.frame))
           D == PidsOf(r.pid, s)
<1>1. PICK l \in Nat \ {0} : DOMAIN q = 1 .. l /\ Len(q) = l
  BY DEF IsSequence
<1>2. DOMAIN s = 1 .. l - 1 /\ \A i \in 1 .. l - 1 : s[i] = q[i + 1]
  BY <1>1 DEF IsSequence
<1>3. /\ n \in Nat \ {0} /\ cur \in 0 .. n - 1
      /\ \A i \in 1 .. l : q[i].pid \in 1 .. n - 1 /\ q[i].pid # cur
      /\ \A i, j \in 1 .. l : q[i].pid = q[j].pid => i = j
  BY <1>1 DEF NumberedIn
<1> HIDE DEF s
<1>4. NumberedIn(r.pid, s, n)
  <2>1. 1 \in 1 .. l /\ \A i \in 1 .. l - 1 : i + 1 \in 1 .. l /\ i + 1 # 1
    BY <1>1
  <2>2. r.pid \in 1 .. n - 1 /\ r.pid \in 0 .. n - 1
    BY <1>3, <2>1
  <2>3. ASSUME NEW i \in 1 .. l - 1  PROVE s[i].pid \in 1 .. n - 1 /\ s[i].pid # r.pid
    <3>1. s[i].pid = q[i + 1].pid /\ i + 1 \in 1 .. l /\ i + 1 # 1
      BY <1>2, <2>1
    <3>2. QED
      BY <1>3, <2>1, <3>1
  <2>4. ASSUME NEW i \in 1 .. l - 1, NEW j \in 1 .. l - 1, s[i].pid = s[j].pid  PROVE i = j
    <3>1. s[i].pid = q[i + 1].pid /\ s[j].pid = q[j + 1].pid /\ i + 1 \in 1 .. l /\ j + 1 \in 1 .. l
      BY <1>2, <2>1
    <3>2. i + 1 = j + 1
      BY <1>3, <2>4, <3>1
    <3>3. QED
      BY <3>2
  <2>5. QED
    BY <1>2, <1>3, <2>2, <2>3, <2>4 DEF NumberedIn
<1>5. IsMap(t, PidsOf(cur, q)) /\ \A i \in DOMAIN q : t[q[i].pid] = ContextOf(q[i].frame)
  BY Members
<1>6. /\ IsMap(u, D) /\ u[r.pid] = ContextOf(r.frame)
      /\ \A i \in DOMAIN s : u[s[i].pid] = ContextOf(s[i].frame)
  BY <1>4, Members
<1>7. D = PidsOf(cur, q) \ {cur} /\ r.pid \in D /\ r.pid # 0
  <2>1. \A i \in 1 .. l : i = 1 \/ (i - 1 \in 1 .. l - 1 /\ (i - 1) + 1 = i)
    OBVIOUS
  <2>2. \A i \in 1 .. l : q[i].pid = r.pid \/ \E j \in 1 .. l - 1 : s[j].pid = q[i].pid
    BY <1>2, <2>1
  <2>3. \A i \in 1 .. l - 1 : \E j \in 1 .. l : s[i].pid = q[j].pid
    BY <1>2
  <2>4. 1 \in 1 .. l
    BY <1>1
  <2>5. r.pid \in D /\ r.pid # 0
    BY <1>3, <2>4 DEF PidsOf
  <2>6. ASSUME NEW p \in PidsOf(cur, q) \ {cur}  PROVE p \in D
    <3>1. PICK i \in 1 .. l : q[i].pid = p
      BY <1>1, <2>6 DEF PidsOf
    <3>2. QED
      BY <1>2, <2>2, <3>1 DEF PidsOf
  <2>7. ASSUME NEW p \in D  PROVE p \in PidsOf(cur, q) \ {cur}
    <3>1. \E i \in 1 .. l : q[i].pid = p
      <4>1. CASE p = r.pid
        BY <2>4, <4>1
      <4>2. CASE p # r.pid
        <5>1. \E j \in DOMAIN s : s[j].pid = p
          BY <2>7, <4>2 DEF PidsOf
        <5>2. PICK j \in 1 .. l - 1 : s[j].pid = p
          BY <1>2, <5>1
        <5>3. QED
          BY <2>3, <5>2
      <4>3. QED
        BY <4>1, <4>2
    <3>2. PICK i \in 1 .. l : q[i].pid = p
      BY <3>1
    <3>3. QED
      BY <1>1, <1>3, <3>2 DEF PidsOf
  <2> HIDE DEF D
  <2>8. QED
    BY <2>5, <2>6, <2>7
<1>8. \A p \in D : u[p] = t[p]
  <2>1. ASSUME NEW i \in 1 .. l  PROVE u[q[i].pid] = t[q[i].pid]
    <3>1. t[q[i].pid] = ContextOf(q[i].frame)
      BY <1>1, <1>5
    <3>2. CASE i = 1
      BY <1>6, <3>1, <3>2
    <3>3. CASE i # 1
      <4>1. i - 1 \in DOMAIN s /\ s[i - 1] = q[i]
        BY <1>2, <3>3
      <4>2. QED
        BY <1>6, <3>1, <4>1
    <3>4. QED
      BY <3>2, <3>3
  <2>2. \A p \in D : \E i \in 1 .. l : q[i].pid = p
    BY <1>1, <1>7 DEF PidsOf
  <2>3. QED
    BY <2>1, <2>2
<1>9. DOMAIN t = PidsOf(cur, q) /\ DOMAIN u = D
  BY <1>5, <1>6 DEF IsMap
<1> HIDE DEF t, u, D
<1>10. u = [p \in D |-> t[p]]
  BY <1>6, <1>7, <1>8 DEF IsMap
<1>11. u = Without(t, cur)
  BY <1>7, <1>9, <1>10 DEF Without
<1>12. QED
  BY <1>4, <1>7, <1>9, <1>11 DEF t, u, s

\* One more waits.
LEMMA OneMore ==
  ASSUME NEW q, IsSequence(q), NEW cur, NEW n, NumberedIn(cur, q, n), NEW c,
         NEW m \in Nat, n <= m, NEW r, r.pid \in 1 .. m - 1, r.pid \notin PidsOf(cur, q)
  PROVE  LET s == Append(q, r)
             t == ThreadsOf(cur, q, c) IN
         /\ NumberedIn(cur, s, m)
         /\ ThreadsOf(cur, s, c) = With(t, r.pid, ContextOf(r.frame))
<1> DEFINE s == Append(q, r)
           t == ThreadsOf(cur, q, c)
           u == ThreadsOf(cur, s, c)
           k == r.pid
           D == PidsOf(cur, q)
<1>1. PICK l \in Nat : DOMAIN q = 1 .. l /\ Len(q) = l
  BY DEF IsSequence
<1>2. DOMAIN s = 1 .. l + 1 /\ s[l + 1] = r /\ \A i \in 1 .. l : s[i] = q[i]
  BY <1>1 DEF IsSequence
<1>3. /\ n \in Nat \ {0} /\ cur \in 0 .. n - 1
      /\ \A i \in 1 .. l : q[i].pid \in 1 .. n - 1 /\ q[i].pid # cur
      /\ \A i, j \in 1 .. l : q[i].pid = q[j].pid => i = j
  BY <1>1 DEF NumberedIn
<1>4. k # cur /\ \A i \in 1 .. l : q[i].pid # k
  BY <1>1 DEF PidsOf
<1> HIDE DEF s, k
<1>5. \A i \in 1 .. l + 1 : (i = l + 1 /\ s[i].pid = k) \/ (i \in 1 .. l /\ s[i].pid = q[i].pid)
  BY <1>1, <1>2 DEF k
<1>6. NumberedIn(cur, s, m)
  <2>1. m \in Nat \ {0} /\ cur \in 0 .. m - 1
    BY <1>3
  <2>2. ASSUME NEW i \in 1 .. l + 1  PROVE s[i].pid \in 1 .. m - 1 /\ s[i].pid # cur
    <3>1. CASE i = l + 1 /\ s[i].pid = k
      BY <1>4, <3>1 DEF k
    <3>2. CASE i \in 1 .. l /\ s[i].pid = q[i].pid
      BY <1>3, <3>2
    <3>3. QED
      BY <1>5, <3>1, <3>2
  <2>3. ASSUME NEW i \in 1 .. l + 1, NEW j \in 1 .. l + 1, s[i].pid = s[j].pid  PROVE i = j
    BY <1>3, <1>4, <1>5, <2>3
  <2>4. QED
    BY <1>2, <2>1, <2>2, <2>3 DEF NumberedIn
<1>7. IsMap(t, D) /\ t[cur] = c /\ \A i \in DOMAIN q : t[q[i].pid] = ContextOf(q[i].frame)
  BY Members
<1>8. IsMap(u, PidsOf(cur, s)) /\ u[cur] = c /\ \A i \in DOMAIN s : u[s[i].pid] = ContextOf(s[i].frame)
  BY <1>6, Members
<1>9. PidsOf(cur, s) = D \cup {k}
  <2>1. ASSUME NEW p \in PidsOf(cur, s)  PROVE p \in D \cup {k}
    <3>1. CASE p = cur
      BY <3>1 DEF PidsOf
    <3>2. CASE p # cur
      <4>1. PICK i \in 1 .. l + 1 : s[i].pid = p
        BY <1>2, <2>1, <3>2 DEF PidsOf
      <4>2. QED
        BY <1>1, <1>5, <4>1 DEF PidsOf
    <3>3. QED
      BY <3>1, <3>2
  <2>2. ASSUME NEW p \in D \cup {k}  PROVE p \in PidsOf(cur, s)
    <3>1. CASE p = cur
      BY <3>1 DEF PidsOf
    <3>2. CASE p = k
      <4>1. l + 1 \in DOMAIN s /\ s[l + 1].pid = p
        BY <1>1, <1>2, <3>2 DEF k
      <4>2. QED
        BY <4>1 DEF PidsOf
    <3>3. CASE p # cur /\ p # k
      <4>1. PICK i \in 1 .. l : q[i].pid = p
        BY <1>1, <2>2, <3>3 DEF PidsOf
      <4>2. i \in DOMAIN s /\ s[i].pid = p
        BY <1>1, <1>2, <4>1
      <4>3. QED
        BY <4>2 DEF PidsOf
    <3>4. QED
      BY <3>1, <3>2, <3>3
  <2>3. QED
    BY <2>1, <2>2
<1>10. u[k] = ContextOf(r.frame) /\ k \notin D
  <2>1. l + 1 \in DOMAIN s /\ s[l + 1] = r
    BY <1>1, <1>2
  <2>2. QED
    BY <1>8, <2>1 DEF k
<1>11. ASSUME NEW p \in D  PROVE u[p] = t[p]
  <2>1. CASE p = cur
    BY <1>7, <1>8, <2>1
  <2>2. CASE p # cur
    <3>1. PICK i \in 1 .. l : q[i].pid = p
      BY <1>1, <1>11, <2>2 DEF PidsOf
    <3>2. i \in DOMAIN s /\ i \in DOMAIN q /\ s[i] = q[i]
      BY <1>1, <1>2
    <3>3. QED
      BY <1>7, <1>8, <3>1, <3>2
  <2>3. QED
    BY <2>1, <2>2
<1> HIDE DEF t, u, D
<1>12. DOMAIN t = D /\ u = [p \in D \cup {k} |-> IF p = k THEN ContextOf(r.frame) ELSE t[p]]
  BY <1>7, <1>8, <1>9, <1>10, <1>11 DEF IsMap
<1>13. u = With(t, k, ContextOf(r.frame))
  BY <1>12 DEF With
<1>14. QED
  BY <1>6, <1>13 DEF s, t, u, k

\* The current process joins the queue, and the first of it goes on: all threads
\* are as before.
LEMMA Rotates ==
  ASSUME NEW q, IsSequence(q), NEW cur, NEW n, cur # 0, NumberedIn(cur, q, n),
         NEW r, r.pid = cur
  PROVE  LET s == Append(q, r)
             t == ThreadsOf(cur, q, ContextOf(r.frame)) IN
         /\ s # <<>> /\ NumberedIn(s[1].pid, Tail(s), n) /\ s[1].pid # 0 /\ s[1].pid \in DOMAIN t
         /\ ThreadsOf(s[1].pid, Tail(s), ContextOf(s[1].frame)) = t
<1> DEFINE s == Append(q, r)
           t == ThreadsOf(cur, q, ContextOf(r.frame))
           v == ThreadsOf(0, q, 0)
           w == ThreadsOf(0, s, 0)
<1>1. IsSequence(s) /\ s # <<>>
  BY DEF IsSequence
<1>2. NumberedIn(0, q, n) /\ n \in Nat /\ cur \in 1 .. n - 1 /\ n <= n
  BY DEF NumberedIn
<1>3. r.pid \in 1 .. n - 1 /\ r.pid \notin PidsOf(0, q)
  BY <1>2 DEF NumberedIn, PidsOf
<1>4. NumberedIn(0, s, n) /\ w = With(v, cur, ContextOf(r.frame))
  BY <1>2, <1>3, OneMore
<1> HIDE DEF s
<1>5. /\ NumberedIn(s[1].pid, Tail(s), n) /\ s[1].pid # 0 /\ s[1].pid \in DOMAIN w \ {0}
      /\ ThreadsOf(s[1].pid, Tail(s), ContextOf(s[1].frame)) = Without(w, 0)
  BY <1>1, <1>4, FirstRuns
<1>6. IsMap(t, PidsOf(cur, q)) /\ t[cur] = ContextOf(r.frame)
      /\ \A i \in DOMAIN q : t[q[i].pid] = ContextOf(q[i].frame)
  BY Members
<1>7. IsMap(v, PidsOf(0, q)) /\ \A i \in DOMAIN q : v[q[i].pid] = ContextOf(q[i].frame)
  BY <1>2, Members
<1>8. PidsOf(cur, q) = (PidsOf(0, q) \cup {cur}) \ {0}
  BY <1>2 DEF PidsOf, NumberedIn
<1>9. ASSUME NEW p \in PidsOf(cur, q)  PROVE t[p] = IF p = cur THEN ContextOf(r.frame) ELSE v[p]
  <2>1. CASE p = cur
    BY <1>6, <2>1
  <2>2. CASE p # cur
    <3>1. PICK i \in DOMAIN q : q[i].pid = p
      BY <1>9, <2>2 DEF PidsOf
    <3>2. QED
      BY <1>6, <1>7, <2>2, <3>1
  <2>3. QED
    BY <2>1, <2>2
<1> HIDE DEF t, v, w
<1>10. DOMAIN w \ {0} = PidsOf(cur, q) /\ DOMAIN t = PidsOf(cur, q)
  BY <1>4, <1>6, <1>7, <1>8 DEF IsMap, With
<1>11. t = Without(w, 0)
  BY <1>4, <1>6, <1>9, <1>10, <1>7, <1>8 DEF IsMap, With, Without
<1>12. QED
  BY <1>1, <1>5, <1>10, <1>11 DEF s, t
-----------------------------------------------------------------------------
(***************************************************************************)
(* Second part: every instruction of the handlers keeps the registers of   *)
(* the program it serves, until the kernel does for it what Threads says.  *)
(***************************************************************************)

(***************************************************************************)
(* Where the registers are before and after each instruction.              *)
(***************************************************************************)
\* The kernel has done as much at b as at a.
Phase(a, b) ==
  /\ Booting(b) <=> Booting(a)
  /\ Served(b) <=> Served(a)
  /\ Ahead(b) <=> Ahead(a)
  /\ Calls(b) => Calls(a)
  /\ Called(b) => Called(a)
  /\ b = 2005 => a = 2004

\* In a frame, with the return address of a C function below it or not.
InFrame(a) == Height(a) \in {CtxWords, CtxWords + 1} /\ ~InRegisters(a) /\ ~OnStack(a)

MarkedAs(a, op, n) ==
  LET b == a + 1 IN
  /\ op \in {"bl", "push_lr", "configure", "IAR", "IntClr", "EOIR", "enable"} =>
       LET k == IF op = "bl" THEN n ELSE b IN
       Phase(a, k) /\ (Booting(a) \/ (InFrame(a) /\ InFrame(k)))
  /\ op = "mov_pc_lr" => Phase(a, Link(a)) /\ (Booting(a) \/ (InFrame(a) /\ InFrame(Link(a))))
  /\ op \in {"copy", "msr_cpsr", "ldr_sp"} => Booting(a) /\ Phase(a, b)
  /\ op = "sub_sp" => Phase(a, b) /\ (Booting(a) \/ (InRegisters(a) /\ InRegisters(b)))
  /\ op = "sub_lr" =>
       /\ InRegisters(a) /\ InRegisters(b) /\ ~Booting(a) /\ ~Booting(b) /\ ~Served(a) /\ ~Served(b)
       /\ Ahead(a) /\ ~Called(b) /\ b # 2005 /\ (Calls(b) => Calls(a))
       /\ (n = 0 /\ Ahead(b)) \/ (n = 1 /\ ~Ahead(b))
  /\ op = "stmia_user" => InRegisters(a) /\ OnStack(b) /\ Phase(a, b) /\ ~Called(b)
  /\ op \in {"mrs_spsr", "msr_spsr"} => OnStack(a) /\ OnStack(b) /\ Phase(a, b) /\ ~Called(b)
  /\ op = "stmdb_sp" => OnStack(a) /\ InFrame(b) /\ Phase(a, b) /\ ~Called(b)
  /\ op = "ldmia_sp" => InFrame(a) /\ OnStack(b) /\ Phase(a, b) /\ Served(a)
  /\ op = "ldmia_user" => OnStack(a) /\ InRegisters(b) /\ Phase(a, b) /\ Served(a)
  /\ op = "add_sp" => InRegisters(a) /\ InRegisters(b) /\ Phase(a, b) /\ Served(a)
  /\ op = "ldr_svc" =>
       /\ a = 2005 /\ InFrame(a) /\ InFrame(b) /\ Calls(a) /\ Calls(b)
       /\ ~Booting(a) /\ ~Booting(b) /\ ~Served(a) /\ ~Served(b)
  /\ op = "pop_pc" => InFrame(a) /\ InFrame(ReturnFrom(a)) /\ Phase(a, ReturnFrom(a)) /\ Served(a)
  /\ op \in {"create", "switch", "scheduler"} =>
       /\ InFrame(a) /\ InFrame(b) /\ ~Served(a) /\ Served(b) /\ ~Booting(b) /\ ~Ahead(b)
       /\ op = "create" <=> Booting(a)
       /\ op = "switch" <=> Called(a)
       /\ op = "switch" <=> Ahead(a)
  /\ op = "movs_pc" => InRegisters(a) /\ Served(a) /\ ~Booting(a) /\ ~Ahead(a)

Marked(a) == MarkedAs(a, Code[a].op, Code[a].n)

\* The same, address by address: what is so of which instructions.
LEMMA Rows ==
  \A a \in Nat :
    /\ Calls(a) <=> a \in 2000 .. 2006 \cup 2100 .. 2101
    /\ Called(a) <=> a \in {2006, 2100, 2101}
    /\ Ahead(a) <=> a \in 2000 .. 2006 \cup 2100 .. 2101 \cup {3000}
    /\ Booting(a) <=> a \in 1000 .. 1001 \cup 1100 .. 1106 \cup 1200 .. 1201
    /\ Served(a) <=> a \in 1107 .. 1111 \cup 1202 .. 1301 \cup 2007 .. 2011 \cup {2102}
                           \cup 3006 .. 3010 \cup 3103 .. 3105
    /\ OnStack(a) <=> a \in 1108 .. 1109 \cup 2003 .. 2004 \cup 2008 .. 2009
                            \cup 3003 .. 3004 \cup 3007 .. 3008
    /\ InFrame(a) <=> a \in 1106 .. 1107 \cup 1200 .. 1301 \cup 2005 .. 2007 \cup 2100 .. 2102
                            \cup 3005 .. 3006 \cup 3100 .. 3105
    /\ InRegisters(a) <=> ~OnStack(a) /\ ~InFrame(a)
BY SMTT(30) DEF InFrame, InRegisters, OnStack, Booting, Served, Ahead, Calls, Called, Height, GprWords, CtxWords, Gprs

LEMMA IntInitMarks ==
  \A a \in 1000 .. 1001 : Marked(a)
<1>1. MarkedAs(1000, "copy", 0)
  BY Rows DEF MarkedAs, Phase
<1>2. MarkedAs(1001, "mov_pc_lr", 0)
  BY Rows DEF MarkedAs, Phase, Link, ReturnFrom, Early
<1>3. QED
  BY <1>1, <1>2, IntInitCode, SMTT(30) DEF Marked, I, N

LEMMA RstHandlerMarks ==
  \A a \in 1100 .. 1111 : Marked(a)
<1>1. MarkedAs(1100, "bl", 1000)
  BY Rows DEF MarkedAs, Phase
<1>2. MarkedAs(1101, "msr_cpsr", 211)
  BY Rows DEF MarkedAs, Phase
<1>3. MarkedAs(1102, "ldr_sp", 0)
  BY Rows DEF MarkedAs, Phase
<1>4. MarkedAs(1103, "msr_cpsr", 210)
  BY Rows DEF MarkedAs, Phase
<1>5. MarkedAs(1104, "ldr_sp", 0)
  BY Rows DEF MarkedAs, Phase
<1>6. MarkedAs(1105, "sub_sp", CtxWords)
  BY Rows DEF MarkedAs, Phase
<1>7. MarkedAs(1106, "bl", 1200)
  BY Rows DEF MarkedAs, Phase
<1>8. MarkedAs(1107, "ldmia_sp", 0)
  BY Rows DEF MarkedAs, Phase
<1>9. MarkedAs(1108, "msr_spsr", 0)
  BY Rows DEF MarkedAs, Phase
<1>10. MarkedAs(1109, "ldmia_user", 0)
  BY Rows DEF MarkedAs, Phase
<1>11. MarkedAs(1110, "add_sp", GprWords)
  BY Rows DEF MarkedAs, Phase
<1>12. MarkedAs(1111, "movs_pc", 0)
  BY Rows DEF MarkedAs, Phase
<1>13. QED
  BY <1>1, <1>2, <1>3, <1>4, <1>5, <1>6, <1>7, <1>8, <1>9, <1>10, <1>11, <1>12, RstHandlerCode, SMTT(30) DEF Marked, I, N

LEMMA RstFunctionMarks ==
  \A a \in 1200 .. 1204 : Marked(a)
<1>1. MarkedAs(1200, "push_lr", 0)
  BY Rows DEF MarkedAs, Phase
<1>2. MarkedAs(1201, "create", 0)
  BY Rows DEF MarkedAs, Phase
<1>3. MarkedAs(1202, "configure", 0)
  BY Rows DEF MarkedAs, Phase
<1>4. MarkedAs(1203, "bl", 1300)
  BY Rows DEF MarkedAs, Phase
<1>5. MarkedAs(1204, "pop_pc", 0)
  BY Rows DEF MarkedAs, Phase, ReturnFrom, Early
<1>6. QED
  BY <1>1, <1>2, <1>3, <1>4, <1>5, RstFunctionCode, SMTT(30) DEF Marked, I, N

LEMMA EnableIrqMarks ==
  \A a \in 1300 .. 1301 : Marked(a)
<1>1. MarkedAs(1300, "enable", 0)
  BY Rows DEF MarkedAs, Phase
<1>2. MarkedAs(1301, "mov_pc_lr", 0)
  BY Rows DEF MarkedAs, Phase, Link, ReturnFrom, Early
<1>3. QED
  BY <1>1, <1>2, EnableIrqCode, SMTT(30) DEF Marked, I, N

LEMMA SvcHandlerMarks ==
  \A a \in 2000 .. 2011 : Marked(a)
<1>1. MarkedAs(2000, "sub_lr", 0)
  BY Rows DEF MarkedAs, Phase
<1>2. MarkedAs(2001, "sub_sp", GprWords)
  BY Rows DEF MarkedAs, Phase
<1>3. MarkedAs(2002, "stmia_user", 0)
  BY Rows DEF MarkedAs, Phase
<1>4. MarkedAs(2003, "mrs_spsr", 0)
  BY Rows DEF MarkedAs, Phase
<1>5. MarkedAs(2004, "stmdb_sp", 0)
  BY Rows DEF MarkedAs, Phase
<1>6. MarkedAs(2005, "ldr_svc", 0)
  BY Rows DEF MarkedAs, Phase
<1>7. MarkedAs(2006, "bl", 2100)
  BY Rows DEF MarkedAs, Phase
<1>8. MarkedAs(2007, "ldmia_sp", 0)
  BY Rows DEF MarkedAs, Phase
<1>9. MarkedAs(2008, "msr_spsr", 0)
  BY Rows DEF MarkedAs, Phase
<1>10. MarkedAs(2009, "ldmia_user", 0)
  BY Rows DEF MarkedAs, Phase
<1>11. MarkedAs(2010, "add_sp", GprWords)
  BY Rows DEF MarkedAs, Phase
<1>12. MarkedAs(2011, "movs_pc", 0)
  BY Rows DEF MarkedAs, Phase
<1>13. QED
  BY <1>1, <1>2, <1>3, <1>4, <1>5, <1>6, <1>7, <1>8, <1>9, <1>10, <1>11, <1>12, SvcHandlerCode, SMTT(30) DEF Marked, I, N

LEMMA SvcFunctionMarks ==
  \A a \in 2100 .. 2102 : Marked(a)
<1>1. MarkedAs(2100, "push_lr", 0)
  BY Rows DEF MarkedAs, Phase
<1>2. MarkedAs(2101, "switch", 0)
  BY Rows DEF MarkedAs, Phase
<1>3. MarkedAs(2102, "pop_pc", 0)
  BY Rows DEF MarkedAs, Phase, ReturnFrom, Early
<1>4. QED
  BY <1>1, <1>2, <1>3, SvcFunctionCode, SMTT(30) DEF Marked, I, N

LEMMA IrqHandlerMarks ==
  \A a \in 3000 .. 3010 : Marked(a)
<1>1. MarkedAs(3000, "sub_lr", 1)
  BY Rows DEF MarkedAs, Phase
<1>2. MarkedAs(3001, "sub_sp", GprWords)
  BY Rows DEF MarkedAs, Phase
<1>3. MarkedAs(3002, "stmia_user", 0)
  BY Rows DEF MarkedAs, Phase
<1>4. MarkedAs(3003, "mrs_spsr", 0)
  BY Rows DEF MarkedAs, Phase
<1>5. MarkedAs(3004, "stmdb_sp", 0)
  BY Rows DEF MarkedAs, Phase
<1>6. MarkedAs(3005, "bl", 3100)
  BY Rows DEF MarkedAs, Phase
<1>7. MarkedAs(3006, "ldmia_sp", 0)
  BY Rows DEF MarkedAs, Phase
<1>8. MarkedAs(3007, "msr_spsr", 0)
  BY Rows DEF MarkedAs, Phase
<1>9. MarkedAs(3008, "ldmia_user", 0)
  BY Rows DEF MarkedAs, Phase
<1>10. MarkedAs(3009, "add_sp", GprWords)
  BY Rows DEF MarkedAs, Phase
<1>11. MarkedAs(3010, "movs_pc", 0)
  BY Rows DEF MarkedAs, Phase
<1>12. QED
  BY <1>1, <1>2, <1>3, <1>4, <1>5, <1>6, <1>7, <1>8, <1>9, <1>10, <1>11, IrqHandlerCode, SMTT(30) DEF Marked, I, N

LEMMA IrqFunctionMarks ==
  \A a \in 3100 .. 3105 : Marked(a)
<1>1. MarkedAs(3100, "push_lr", 0)
  BY Rows DEF MarkedAs, Phase
<1>2. MarkedAs(3101, "IAR", 0)
  BY Rows DEF MarkedAs, Phase
<1>3. MarkedAs(3102, "scheduler", 0)
  BY Rows DEF MarkedAs, Phase
<1>4. MarkedAs(3103, "IntClr", 0)
  BY Rows DEF MarkedAs, Phase
<1>5. MarkedAs(3104, "EOIR", 0)
  BY Rows DEF MarkedAs, Phase
<1>6. MarkedAs(3105, "pop_pc", 0)
  BY Rows DEF MarkedAs, Phase, ReturnFrom, Early
<1>7. QED
  BY <1>1, <1>2, <1>3, <1>4, <1>5, <1>6, IrqFunctionCode, SMTT(30) DEF Marked, I, N

LEMMA Marks == \A a \in Site : Marked(a)
BY IntInitMarks, RstHandlerMarks, RstFunctionMarks, EnableIrqMarks, SvcHandlerMarks, SvcFunctionMarks, IrqHandlerMarks, IrqFunctionMarks DEF Site

(***************************************************************************)
(* Instructions that do not serve the program.                             *)
(***************************************************************************)
LEMMA StillMasked ==
  ASSUME NEW a, Runs(a)
  PROVE  cpu.cpsr \notin UserStatuses /\ \A f \in 0 .. 3 : WithFlags(cpu.cpsr, f) \notin UserStatuses
<1>1. ModeAt(a) \in {18, 19}
  BY DEF ModeAt, SVC, IRQ
<1>2. PICK n \in {82, 192 + ModeAt(a)} : cpu.cpsr \in Statuses(n)
  BY DEF Runs, Undisturbed
<1>3. n \in {82, 210, 211}
  BY <1>1
<1>4. \A f \in 0 .. 3 : WithFlags(cpu.cpsr, f) \in Statuses(n)
  BY <1>2, <1>3, StatusBits
<1>5. QED
  BY <1>2, <1>3, <1>4 DEF UserStatuses, Statuses

LEMMA Handling ==
  ASSUME Traced, NEW op, Fetch(op), NEW a, a = cpu.pc
  PROVE  /\ Balanced /\ RegistersInPlace /\ Runs(a) /\ Keeps(a) /\ Numbered /\ executed \in Sessions
         /\ LocatedAs(a, op, Operand) /\ MarkedAs(a, op, Operand)
         /\ op # "stmdb_sp" => a # 2004
         /\ cpu.cpsr \notin UserStatuses /\ ~InProgram /\ Traces(a)
         /\ Mode = ModeAt(a) /\ ModeAt(a) \in Modes
<1>1. Balanced /\ RegistersInPlace /\ Runs(a) /\ Keeps(a) /\ LocatedAs(a, op, Operand)
  BY Fetched DEF Traced, InHandler
<1>2. MarkedAs(a, op, Operand)
  BY <1>1, Marks DEF Runs, Marked, Fetch, Operand
<1>3. op # "stmdb_sp" => a # 2004
  BY SvcHandlerCode DEF Fetch, I
<1>4. cpu.cpsr \notin UserStatuses
  BY <1>1, StillMasked
<1>5. ~InProgram
  BY <1>4 DEF InProgram
<1>6. Mode = ModeAt(a) /\ ModeAt(a) \in Modes
  BY <1>1 DEF Runs, ModeAt, Modes
<1>7. QED
  BY <1>1, <1>2, <1>3, <1>4, <1>5, <1>6 DEF Traced

\* If the registers of the program stay where they are, or move, so does the rest.
LEMMA Passes ==
  ASSUME Traced, ~InProgram, NEW a, a = cpu.pc, NEW b, cpu'.pc = b, cpu'.cpsr \notin UserStatuses, Balanced',
         Phase(a, b), UNCHANGED <<curr_prog, queue, curr_pid, seen, executed>>,
         Booting(a) \/ Mine(b)' = Mine(a),
         ~Served(b) => (Called(b) => cpu'.gpr[2] = cpu.gpr[2]),
         b = 2005 => cpu'.lr[SVC] = Mine(a).pc
  PROVE  Traced'
<1>1. Numbered' /\ executed' \in Sessions /\ ~InProgram' /\ Traces(a)
  BY DEF Traced, Numbered, InProgram
<1>2. CASE Booting(a)
  BY <1>1, <1>2 DEF Traced, Traces, Starting, Phase
<1>3. CASE ~Booting(a)
  <2>1. ~Booting(b) /\ Mine(b)' = Mine(a) /\ (Ahead(b) <=> Ahead(a)) /\ (Served(b) <=> Served(a))
    BY <1>3 DEF Phase
  <2>2. Resumed(b, Mine(b)') = Resumed(a, Mine(a))
    BY <2>1 DEF Resumed
  <2>3. Now(b)' = Now(a)
    BY <2>2 DEF Now
  <2>4. CASE Served(a)
    <3>1. Leaves(a)
      BY <1>1, <1>3, <2>4 DEF Traces
    <3>2. AllSound(seen.thread)' <=> AllSound(seen.thread)
      BY DEF AllSound, Sound
    <3>3. Serves(seen.running, seen.thread, curr_prog, Now(b))' <=>
            Serves(seen.running, seen.thread, curr_prog, Now(a))
      BY <2>3
    <3>4. Leaves(b)'
      BY <3>1, <3>2, <3>3 DEF Leaves
    <3>5. QED
      BY <1>1, <2>1, <2>4, <3>4 DEF Traced, Traces
  <2>5. CASE ~Served(a)
    <3>1. Finds(a)
      BY <1>1, <1>3, <2>5 DEF Traces
    <3>2. Seen(Now(b))'
      BY <2>3, <3>1 DEF Finds, Seen, AllSound, Sound
    <3>3. Finds(b)'
      BY <2>1, <2>5, <3>1, <3>2 DEF Finds, Phase
    <3>4. QED
      BY <1>1, <2>1, <2>5, <3>3 DEF Traced, Traces
  <2>6. QED
    BY <2>4, <2>5
<1>4. QED
  BY <1>2, <1>3

\* In a frame that is left alone.
LEMMA SameFrame ==
  ASSUME NEW a, NEW b, Level(a, b), InFrame(a), InFrame(b), UNCHANGED stk
  PROVE  Mine(b)' = Mine(a)
BY DEF Mine, InFrame, Level, Along, Framed, Words

LEMMA bl_Traced == Traced /\ bl => Traced'
<1> SUFFICES ASSUME Traced, bl, NEW a, a = cpu.pc, NEW n, n = Operand  PROVE Traced'
  OBVIOUS
<1>1. /\ Balanced /\ RegistersInPlace /\ LocatedAs(a, "bl", n) /\ MarkedAs(a, "bl", n) /\ a # 2004
      /\ cpu.cpsr \notin UserStatuses /\ ~InProgram
  BY Handling DEF bl
<1>2. /\ cpu'.pc = n /\ cpu'.cpsr = cpu.cpsr /\ cpu'.gpr = cpu.gpr
      /\ UNCHANGED <<stk, executed, curr_prog, queue, curr_pid, seen>>
  BY <1>1 DEF bl, Registers, memory, kernel, RegistersInPlace, IsMap, Fields
<1>3. Level(a, n) /\ Phase(a, n) /\ (Booting(a) \/ (InFrame(a) /\ InFrame(n)))
  BY <1>1 DEF LocatedAs, MarkedAs
<1>4. Booting(a) \/ Mine(n)' = Mine(a)
  BY <1>2, <1>3, SameFrame
<1>5. Balanced' /\ n # 2005
  BY <1>1, <1>3, bl_Balanced DEF Phase
<1>6. QED
  BY <1>1, <1>2, <1>3, <1>4, <1>5, Passes

LEMMA mov_pc_lr_Traced == Traced /\ mov_pc_lr => Traced'
<1> SUFFICES ASSUME Traced, mov_pc_lr, NEW a, a = cpu.pc  PROVE Traced'
  OBVIOUS
<1> DEFINE b == Link(a)
<1>1. /\ Balanced /\ RegistersInPlace /\ Keeps(a) /\ a # 2004 /\ LocatedAs(a, "mov_pc_lr", Operand)
      /\ MarkedAs(a, "mov_pc_lr", Operand) /\ cpu.cpsr \notin UserStatuses /\ ~InProgram /\ Mode = ModeAt(a)
  BY Handling DEF mov_pc_lr
<1>2. Level(a, b) /\ b # 0 /\ Phase(a, b) /\ (Booting(a) \/ (InFrame(a) /\ InFrame(b)))
  BY <1>1 DEF LocatedAs, MarkedAs
<1>3. /\ cpu'.pc = b /\ cpu'.cpsr = cpu.cpsr /\ cpu'.gpr = cpu.gpr
      /\ UNCHANGED <<stk, executed, curr_prog, queue, curr_pid, seen>>
  BY <1>1, <1>2 DEF mov_pc_lr, Registers, memory, kernel, RegistersInPlace, IsMap, Fields, Keeps
<1> HIDE DEF b
<1>4. Booting(a) \/ Mine(b)' = Mine(a)
  BY <1>2, <1>3, SameFrame
<1>5. Balanced' /\ b # 2005
  BY <1>1, <1>2, mov_pc_lr_Balanced DEF Phase
<1>6. QED
  BY <1>1, <1>2, <1>3, <1>4, <1>5, Passes

LEMMA configure_Traced == Traced /\ configure => Traced'
<1> SUFFICES ASSUME Traced, configure, NEW a, a = cpu.pc  PROVE Traced'
  OBVIOUS
<1>1. /\ Balanced /\ RegistersInPlace /\ LocatedAs(a, "configure", Operand) /\ MarkedAs(a, "configure", Operand)
      /\ a # 2004 /\ cpu.cpsr \notin UserStatuses /\ ~InProgram
  BY Handling DEF configure
<1>2. /\ cpu'.pc = a + 1 /\ cpu'.cpsr = cpu.cpsr /\ cpu'.gpr = cpu.gpr
      /\ UNCHANGED <<stk, executed, curr_prog, queue, curr_pid, seen>>
  BY <1>1 DEF configure, Then, memory, kernel, RegistersInPlace, IsMap, Fields
<1>3. Level(a, a + 1) /\ Phase(a, a + 1) /\ (Booting(a) \/ (InFrame(a) /\ InFrame(a + 1)))
  BY <1>1 DEF LocatedAs, MarkedAs
<1>4. Booting(a) \/ Mine(a + 1)' = Mine(a)
  BY <1>2, <1>3, SameFrame
<1>5. Balanced' /\ a + 1 # 2005
  BY <1>1, <1>3, configure_Balanced DEF Phase
<1>6. QED
  BY <1>1, <1>2, <1>3, <1>4, <1>5, Passes

LEMMA IAR_Traced == Traced /\ IAR => Traced'
<1> SUFFICES ASSUME Traced, IAR, NEW a, a = cpu.pc  PROVE Traced'
  OBVIOUS
<1>1. /\ Balanced /\ RegistersInPlace /\ LocatedAs(a, "IAR", Operand) /\ MarkedAs(a, "IAR", Operand)
      /\ a # 2004 /\ cpu.cpsr \notin UserStatuses /\ ~InProgram
  BY Handling DEF IAR
<1>2. /\ cpu'.pc = a + 1 /\ cpu'.cpsr = cpu.cpsr /\ cpu'.gpr = cpu.gpr
      /\ UNCHANGED <<stk, executed, curr_prog, queue, curr_pid, seen>>
  BY <1>1 DEF IAR, Then, memory, kernel, RegistersInPlace, IsMap, Fields
<1>3. Level(a, a + 1) /\ Phase(a, a + 1) /\ (Booting(a) \/ (InFrame(a) /\ InFrame(a + 1)))
  BY <1>1 DEF LocatedAs, MarkedAs
<1>4. Booting(a) \/ Mine(a + 1)' = Mine(a)
  BY <1>2, <1>3, SameFrame
<1>5. Balanced' /\ a + 1 # 2005
  BY <1>1, <1>3, IAR_Balanced DEF Phase
<1>6. QED
  BY <1>1, <1>2, <1>3, <1>4, <1>5, Passes

LEMMA IntClr_Traced == Traced /\ IntClr => Traced'
<1> SUFFICES ASSUME Traced, IntClr, NEW a, a = cpu.pc  PROVE Traced'
  OBVIOUS
<1>1. /\ Balanced /\ RegistersInPlace /\ LocatedAs(a, "IntClr", Operand) /\ MarkedAs(a, "IntClr", Operand)
      /\ a # 2004 /\ cpu.cpsr \notin UserStatuses /\ ~InProgram
  BY Handling DEF IntClr
<1>2. /\ cpu'.pc = a + 1 /\ cpu'.cpsr = cpu.cpsr /\ cpu'.gpr = cpu.gpr
      /\ UNCHANGED <<stk, executed, curr_prog, queue, curr_pid, seen>>
  BY <1>1 DEF IntClr, Then, memory, kernel, RegistersInPlace, IsMap, Fields
<1>3. Level(a, a + 1) /\ Phase(a, a + 1) /\ (Booting(a) \/ (InFrame(a) /\ InFrame(a + 1)))
  BY <1>1 DEF LocatedAs, MarkedAs
<1>4. Booting(a) \/ Mine(a + 1)' = Mine(a)
  BY <1>2, <1>3, SameFrame
<1>5. Balanced' /\ a + 1 # 2005
  BY <1>1, <1>3, IntClr_Balanced DEF Phase
<1>6. QED
  BY <1>1, <1>2, <1>3, <1>4, <1>5, Passes

LEMMA EOIR_Traced == Traced /\ EOIR => Traced'
<1> SUFFICES ASSUME Traced, EOIR, NEW a, a = cpu.pc  PROVE Traced'
  OBVIOUS
<1>1. /\ Balanced /\ RegistersInPlace /\ LocatedAs(a, "EOIR", Operand) /\ MarkedAs(a, "EOIR", Operand)
      /\ a # 2004 /\ cpu.cpsr \notin UserStatuses /\ ~InProgram
  BY Handling DEF EOIR
<1>2. /\ cpu'.pc = a + 1 /\ cpu'.cpsr = cpu.cpsr /\ cpu'.gpr = cpu.gpr
      /\ UNCHANGED <<stk, executed, curr_prog, queue, curr_pid, seen>>
  BY <1>1 DEF EOIR, Then, memory, kernel, RegistersInPlace, IsMap, Fields
<1>3. Level(a, a + 1) /\ Phase(a, a + 1) /\ (Booting(a) \/ (InFrame(a) /\ InFrame(a + 1)))
  BY <1>1 DEF LocatedAs, MarkedAs
<1>4. Booting(a) \/ Mine(a + 1)' = Mine(a)
  BY <1>2, <1>3, SameFrame
<1>5. Balanced' /\ a + 1 # 2005
  BY <1>1, <1>3, EOIR_Balanced DEF Phase
<1>6. QED
  BY <1>1, <1>2, <1>3, <1>4, <1>5, Passes

LEMMA enable_Traced == Traced /\ enable => Traced'
<1> SUFFICES ASSUME Traced, enable, NEW a, a = cpu.pc  PROVE Traced'
  OBVIOUS
<1>1. /\ Balanced /\ RegistersInPlace /\ Runs(a) /\ LocatedAs(a, "enable", Operand)
      /\ MarkedAs(a, "enable", Operand) /\ a # 2004 /\ ~InProgram
  BY Handling DEF enable
<1>2. /\ cpu'.pc = a + 1 /\ cpu'.cpsr = cpu.cpsr - (IF Masked(cpu.cpsr) THEN 128 ELSE 0)
      /\ cpu'.gpr = cpu.gpr /\ UNCHANGED <<stk, executed, curr_prog, queue, curr_pid, seen>>
  BY <1>1 DEF enable, Then, Registers, memory, kernel, RegistersInPlace, IsMap, Fields
<1>3. Level(a, a + 1) /\ Phase(a, a + 1) /\ (Booting(a) \/ (InFrame(a) /\ InFrame(a + 1)))
  BY <1>1 DEF LocatedAs, MarkedAs
<1>4. Booting(a) \/ Mine(a + 1)' = Mine(a)
  BY <1>2, <1>3, SameFrame
<1>5. Balanced' /\ a + 1 # 2005
  BY <1>1, <1>3, enable_Balanced DEF Phase
<1>6. cpu'.cpsr \notin UserStatuses
  <2>1. cpu.cpsr \in Statuses(82) \cup Statuses(210)
    BY <1>1 DEF LocatedAs, Runs, Undisturbed, IRQ
  <2>2. cpu'.cpsr \in Statuses(82)
    BY <1>2, <2>1 DEF Statuses, Masked
  <2>3. QED
    BY <2>2 DEF UserStatuses, Statuses
<1>7. QED
  BY <1>1, <1>2, <1>3, <1>4, <1>5, <1>6, Passes

\* Before the first process there is nothing to lose.
LEMMA copy_Traced == Traced /\ copy => Traced'
<1> SUFFICES ASSUME Traced, copy, NEW a, a = cpu.pc  PROVE Traced'
  OBVIOUS
<1>1. /\ Balanced /\ RegistersInPlace /\ MarkedAs(a, "copy", Operand) /\ a # 2004
      /\ cpu.cpsr \notin UserStatuses /\ ~InProgram /\ Runs(a)
  BY Handling DEF copy
<1>2. /\ cpu'.pc \in {a, a + 1} /\ cpu'.cpsr = cpu.cpsr /\ cpu'.gpr = cpu.gpr
      /\ UNCHANGED <<executed, curr_prog, queue, curr_pid, seen>>
  BY <1>1 DEF copy, Then, Memory, kernel, RegistersInPlace, IsMap, Fields
<1>3. PICK b \in {a, a + 1} : cpu'.pc = b
  BY <1>2
<1>4. Booting(a) /\ Phase(a, a + 1)
  BY <1>1 DEF MarkedAs
<1>5. Phase(a, b) /\ b # 2005
  BY <1>1, <1>4 DEF Phase, Booting
<1>6. Balanced'
  BY <1>1, copy_Balanced
<1>7. QED
  BY <1>1, <1>2, <1>3, <1>4, <1>5, <1>6, Passes

LEMMA msr_cpsr_Traced == Traced /\ msr_cpsr => Traced'
<1> SUFFICES ASSUME Traced, msr_cpsr, NEW a, a = cpu.pc  PROVE Traced'
  OBVIOUS
<1>1. /\ Balanced /\ RegistersInPlace /\ LocatedAs(a, "msr_cpsr", Operand)
      /\ MarkedAs(a, "msr_cpsr", Operand) /\ a # 2004 /\ ~InProgram
  BY Handling DEF msr_cpsr
<1>2. /\ cpu'.pc = a + 1 /\ cpu'.cpsr = Operand /\ cpu'.gpr = cpu.gpr
      /\ UNCHANGED <<executed, curr_prog, queue, curr_pid, seen>>
  BY <1>1 DEF msr_cpsr, Then, Registers, memory, kernel, RegistersInPlace, IsMap, Fields
<1>3. Booting(a) /\ Phase(a, a + 1) /\ a + 1 # 2005
  BY <1>1 DEF MarkedAs, Phase
<1>4. cpu'.cpsr \notin UserStatuses
  <2>1. Operand \in {210, 211}
    BY <1>1 DEF LocatedAs, SVC, IRQ
  <2>2. QED
    BY <1>2, <2>1 DEF UserStatuses, Statuses
<1>5. Balanced'
  BY <1>1, msr_cpsr_Balanced
<1>6. QED
  BY <1>1, <1>2, <1>3, <1>4, <1>5, Passes

LEMMA ldr_sp_Traced == Traced /\ ldr_sp => Traced'
<1> SUFFICES ASSUME Traced, ldr_sp, NEW a, a = cpu.pc  PROVE Traced'
  OBVIOUS
<1>1. /\ Balanced /\ RegistersInPlace /\ MarkedAs(a, "ldr_sp", Operand) /\ a # 2004
      /\ cpu.cpsr \notin UserStatuses /\ ~InProgram
  BY Handling DEF ldr_sp
<1>2. /\ cpu'.pc = a + 1 /\ cpu'.cpsr = cpu.cpsr /\ cpu'.gpr = cpu.gpr
      /\ UNCHANGED <<executed, curr_prog, queue, curr_pid, seen>>
  BY <1>1 DEF ldr_sp, SetStack, Then, Memory, kernel, RegistersInPlace, IsMap, Fields
<1>3. Booting(a) /\ Phase(a, a + 1) /\ a + 1 # 2005
  BY <1>1 DEF MarkedAs, Phase
<1>4. Balanced'
  BY <1>1, ldr_sp_Balanced
<1>5. QED
  BY <1>1, <1>2, <1>3, <1>4, Passes

LEMMA sub_sp_Traced == Traced /\ sub_sp => Traced'
<1> SUFFICES ASSUME Traced, sub_sp, NEW a, a = cpu.pc  PROVE Traced'
  OBVIOUS
<1>1. /\ Balanced /\ RegistersInPlace /\ LocatedAs(a, "sub_sp", Operand) /\ MarkedAs(a, "sub_sp", Operand)
      /\ a # 2004 /\ cpu.cpsr \notin UserStatuses /\ ~InProgram
  BY Handling DEF sub_sp
<1>2. /\ cpu'.pc = a + 1 /\ cpu'.cpsr = cpu.cpsr /\ UNCHANGED <<cpu.gpr, cpu.sp, cpu.lr, cpu.spsr>>
      /\ UNCHANGED <<executed, curr_prog, queue, curr_pid, seen>>
  BY <1>1 DEF sub_sp, SetStack, Then, Memory, kernel, RegistersInPlace, IsMap, Fields
<1>3. Along(a, a + 1) /\ Phase(a, a + 1) /\ (Booting(a) \/ (InRegisters(a) /\ InRegisters(a + 1)))
  BY <1>1 DEF LocatedAs, MarkedAs
<1>4. Booting(a) \/ Mine(a + 1)' = Mine(a)
  BY <1>2, <1>3 DEF Mine, Regs, Along
<1>5. Balanced' /\ a + 1 # 2005
  BY <1>1, <1>3, sub_sp_Balanced DEF Phase
<1>6. QED
  BY <1>1, <1>2, <1>3, <1>4, <1>5, Passes

LEMMA add_sp_Traced == Traced /\ add_sp => Traced'
<1> SUFFICES ASSUME Traced, add_sp, NEW a, a = cpu.pc  PROVE Traced'
  OBVIOUS
<1>1. /\ Balanced /\ RegistersInPlace /\ LocatedAs(a, "add_sp", Operand) /\ MarkedAs(a, "add_sp", Operand)
      /\ a # 2004 /\ cpu.cpsr \notin UserStatuses /\ ~InProgram
  BY Handling DEF add_sp
<1>2. /\ cpu'.pc = a + 1 /\ cpu'.cpsr = cpu.cpsr /\ UNCHANGED <<cpu.gpr, cpu.sp, cpu.lr, cpu.spsr>>
      /\ UNCHANGED <<executed, curr_prog, queue, curr_pid, seen>>
  BY <1>1 DEF add_sp, SetStack, Then, Memory, kernel, RegistersInPlace, IsMap, Fields
<1>3. Along(a, a + 1) /\ Phase(a, a + 1) /\ (Booting(a) \/ (InRegisters(a) /\ InRegisters(a + 1)))
  BY <1>1 DEF LocatedAs, MarkedAs
<1>4. Booting(a) \/ Mine(a + 1)' = Mine(a)
  BY <1>2, <1>3 DEF Mine, Regs, Along
<1>5. Balanced' /\ a + 1 # 2005
  BY <1>1, <1>3, add_sp_Balanced DEF Phase
<1>6. QED
  BY <1>1, <1>2, <1>3, <1>4, <1>5, Passes

LEMMA mrs_spsr_Traced == Traced /\ mrs_spsr => Traced'
<1> SUFFICES ASSUME Traced, mrs_spsr, NEW a, a = cpu.pc  PROVE Traced'
  OBVIOUS
<1>1. /\ Balanced /\ RegistersInPlace /\ LocatedAs(a, "mrs_spsr", Operand) /\ MarkedAs(a, "mrs_spsr", Operand)
      /\ a # 2004 /\ cpu.cpsr \notin UserStatuses /\ ~InProgram /\ Mode = ModeAt(a)
  BY Handling DEF mrs_spsr
<1>2. /\ cpu'.pc = a + 1 /\ cpu'.cpsr = cpu.cpsr /\ cpu'.lr = cpu.lr
      /\ cpu'.gpr[1] = cpu.spsr[ModeAt(a)]
      /\ UNCHANGED <<stk, executed, curr_prog, queue, curr_pid, seen>>
  BY <1>1 DEF mrs_spsr, Then, Registers, memory, kernel, RegistersInPlace, IsMap, Fields, Gprs
<1>3. Level(a, a + 1) /\ Phase(a, a + 1) /\ OnStack(a) /\ OnStack(a + 1) /\ ~Called(a + 1)
      /\ Place(a) = "spsr" /\ Place(a + 1) = "r0"
  BY <1>1 DEF LocatedAs, MarkedAs, Row
<1>4. Mine(a + 1)' = Mine(a)
  BY <1>2, <1>3 DEF Mine, OnStack, Stored, Status, Words, Level, Along
<1>5. Balanced' /\ a + 1 # 2005
  BY <1>1, <1>3, mrs_spsr_Balanced DEF Phase
<1>6. QED
  BY <1>1, <1>2, <1>3, <1>4, <1>5, Passes

LEMMA msr_spsr_Traced == Traced /\ msr_spsr => Traced'
<1> SUFFICES ASSUME Traced, msr_spsr, NEW a, a = cpu.pc  PROVE Traced'
  OBVIOUS
<1>1. /\ Balanced /\ RegistersInPlace /\ LocatedAs(a, "msr_spsr", Operand) /\ MarkedAs(a, "msr_spsr", Operand)
      /\ a # 2004 /\ cpu.cpsr \notin UserStatuses /\ ~InProgram /\ Mode = ModeAt(a) /\ ModeAt(a) \in Modes
  BY Handling DEF msr_spsr
<1>2. /\ cpu'.pc = a + 1 /\ cpu'.cpsr = cpu.cpsr /\ cpu'.lr = cpu.lr
      /\ cpu'.spsr[ModeAt(a)] = cpu.gpr[1]
      /\ UNCHANGED <<stk, executed, curr_prog, queue, curr_pid, seen>>
  BY <1>1 DEF msr_spsr, Then, Registers, memory, kernel, RegistersInPlace, IsMap, Fields
<1>3. Level(a, a + 1) /\ Phase(a, a + 1) /\ OnStack(a) /\ OnStack(a + 1) /\ ~Called(a + 1)
      /\ Place(a) = "r0" /\ Place(a + 1) = "spsr"
  BY <1>1 DEF LocatedAs, MarkedAs, Row
<1>4. Mine(a + 1)' = Mine(a)
  BY <1>2, <1>3 DEF Mine, OnStack, Stored, Status, Words, Level, Along
<1>5. Balanced' /\ a + 1 # 2005
  BY <1>1, <1>3, msr_spsr_Balanced DEF Phase
<1>6. QED
  BY <1>1, <1>2, <1>3, <1>4, <1>5, Passes

\* A frame depends on its words only.
LEMMA OneUp ==
  ASSUME NEW v, NEW w, \A i \in 1 .. CtxWords : v[i + 1] = w[i]
  PROVE  Framed(v, 1) = Framed(w, 0)
<1>1. CtxWords = 8 /\ Gprs = 4
  BY DEF CtxWords, GprWords, Gprs
<1>2. v[2] = w[1] /\ v[3] = w[2] /\ v[8] = w[7] /\ v[9] = w[8]
  <2>1. 1 \in 1 .. 8 /\ 2 \in 1 .. 8 /\ 7 \in 1 .. 8 /\ 8 \in 1 .. 8 /\ 1 + 1 = 2 /\ 2 + 1 = 3 /\ 7 + 1 = 8 /\ 8 + 1 = 9
    OBVIOUS
  <2>2. QED
    BY <1>1, <2>1
<1>3. \A i \in 1 .. 4 : v[3 + i] = w[2 + i]
  <2> SUFFICES ASSUME NEW i \in 1 .. 4  PROVE v[3 + i] = w[2 + i]
    OBVIOUS
  <2>1. 2 + i \in 1 .. 8 /\ (2 + i) + 1 = 3 + i
    OBVIOUS
  <2>2. QED
    BY <1>1, <2>1
<1>4. Words(v, 3) = Words(w, 2)
  BY <1>1, <1>3 DEF Words
<1>5. /\ 1 + 1 = 2 /\ 0 + 1 = 1 /\ 1 + 2 = 3 /\ 0 + 2 = 2 /\ 1 + Gprs + 3 = 8 /\ 1 + Gprs + 4 = 9
      /\ 0 + Gprs + 3 = 7 /\ 0 + Gprs + 4 = 8
  BY <1>1
<1>6. QED
  BY <1>2, <1>4, <1>5 DEF Framed

LEMMA BelowTwo ==
  ASSUME NEW n \in Nat, NEW s, NEW v, NEW w, IsMap(s, 1 .. n)
  PROVE  PushTwo(v, w, s)[2] = w /\ \A k \in 1 .. n : PushTwo(v, w, s)[2 + k] = s[k]
<1> DEFINE W == {v, w} \cup {s[k] : k \in 1 .. n}
           t == <<v, w>>
<1>1. t \in Seq(W) /\ Len(t) = 2 /\ t[2] = w
  OBVIOUS
<1>2. s \in Seq(W) /\ Len(s) = n
  BY DEF IsMap
<1> HIDE DEF W, t
<1>3. \A i \in 1 .. Len(t) + Len(s) : (t \o s)[i] = IF i <= Len(t) THEN t[i] ELSE s[i - Len(t)]
  BY <1>1, <1>2, ConcatProperties
<1>4. (t \o s)[2] = w
  <2>1. 2 \in 1 .. Len(t) + Len(s) /\ 2 <= Len(t)
    BY <1>1, <1>2
  <2>2. QED
    BY <1>1, <1>3, <2>1
<1>5. ASSUME NEW k \in 1 .. n  PROVE (t \o s)[2 + k] = s[k]
  <2>1. 2 + k \in 1 .. Len(t) + Len(s) /\ ~(2 + k <= Len(t)) /\ 2 + k - Len(t) = k
    BY <1>1, <1>2
  <2>2. QED
    BY <1>3, <2>1
<1>6. QED
  BY <1>4, <1>5 DEF t, PushTwo

LEMMA Joined ==
  ASSUME NEW m \in Nat, NEW n \in Nat, NEW s, NEW t, IsMap(s, 1 .. m), IsMap(t, 1 .. n)
  PROVE  /\ IsMap(Join(s, t), 1 .. m + n)
         /\ \A k \in 1 .. m : Join(s, t)[k] = s[k]
         /\ \A k \in 1 .. n : Join(s, t)[m + k] = t[k]
<1> DEFINE W == {s[i] : i \in 1 .. m} \cup {t[i] : i \in 1 .. n}
<1>1. s \in Seq(W) /\ Len(s) = m
  BY DEF IsMap
<1>2. t \in Seq(W) /\ Len(t) = n
  BY DEF IsMap
<1> HIDE DEF W
<1>3. \A i \in 1 .. Len(s) + Len(t) : (s \o t)[i] = IF i <= Len(s) THEN s[i] ELSE t[i - Len(s)]
  BY <1>1, <1>2, ConcatProperties
<1>4. ASSUME NEW k \in 1 .. n  PROVE (s \o t)[m + k] = t[k]
  <2>1. m + k \in 1 .. Len(s) + Len(t) /\ ~(m + k <= Len(s)) /\ m + k - Len(s) = k
    BY <1>1, <1>2
  <2>2. QED
    BY <1>3, <2>1
<1>5. IsMap(s \o t, 1 .. m + n)
  BY Concatenated
<1>6. \A k \in 1 .. m : Join(s, t)[k] = s[k]
  BY OnTop
<1>7. Join(s, t) = s \o t
  BY DEF Join
<1>8. QED
  BY <1>4, <1>5, <1>6, <1>7

LEMMA push_lr_Traced == Traced /\ push_lr => Traced'
<1> SUFFICES ASSUME Traced, push_lr, NEW a, a = cpu.pc, NEW m, m = ModeAt(a)  PROVE Traced'
  OBVIOUS
<1>1. /\ Balanced /\ RegistersInPlace /\ Runs(a) /\ Keeps(a) /\ a # 2004
      /\ LocatedAs(a, "push_lr", Operand) /\ MarkedAs(a, "push_lr", Operand)
      /\ cpu.cpsr \notin UserStatuses /\ ~InProgram
  BY Handling DEF push_lr
<1>2. /\ cpu'.pc = a + 1 /\ cpu'.cpsr = cpu.cpsr /\ cpu'.gpr = cpu.gpr
      /\ UNCHANGED <<executed, curr_prog, queue, curr_pid, seen>>
  BY <1>1 DEF push_lr, SetStack, Then, Memory, kernel, RegistersInPlace, IsMap, Fields
<1>3. /\ Along(a, a + 1) /\ Height(a) = CtxWords /\ Height(a + 1) = CtxWords + 1
      /\ Phase(a, a + 1) /\ (Booting(a) \/ (InFrame(a) /\ InFrame(a + 1)))
  BY <1>1 DEF LocatedAs, MarkedAs
<1>4. stk'[m] = Push(cpu.lr[Mode], stk[m])
  <2>1. SetStack(Push(cpu.lr[Mode], Stack))
    BY DEF push_lr, Push
  <2>2. QED
    BY <1>1, <2>1, StackSet
<1>5. \A k \in 1 .. CtxWords : stk'[m][k + 1] = stk[m][k]
  BY <1>1, <1>3, <1>4, Pushed, Widths DEF Keeps
<1>6. Framed(stk'[m], 1) = Framed(stk[m], 0)
  BY <1>5, OneUp
<1>7. Booting(a) \/ Mine(a + 1)' = Mine(a)
  BY <1>3, <1>6, Widths DEF Mine, InFrame, Along
<1>8. Balanced' /\ a + 1 # 2005
  BY <1>1, <1>3, push_lr_Balanced DEF Phase
<1>9. QED
  BY <1>1, <1>2, <1>3, <1>7, <1>8, Passes

LEMMA pop_pc_Traced == Traced /\ pop_pc => Traced'
<1> SUFFICES ASSUME Traced, pop_pc, NEW a, a = cpu.pc, NEW m, m = ModeAt(a)  PROVE Traced'
  OBVIOUS
<1> DEFINE b == ReturnFrom(a)
           n == CtxWords + 1
<1>1. /\ Balanced /\ RegistersInPlace /\ Runs(a) /\ Keeps(a) /\ a # 2004
      /\ LocatedAs(a, "pop_pc", Operand) /\ MarkedAs(a, "pop_pc", Operand)
      /\ cpu.cpsr \notin UserStatuses /\ ~InProgram
  BY Handling DEF pop_pc
<1>2. /\ Along(a, b) /\ Height(a) = n /\ Height(b) = CtxWords
      /\ Phase(a, b) /\ InFrame(a) /\ InFrame(b) /\ Served(a)
  BY <1>1 DEF LocatedAs, MarkedAs, Row
<1>3. SetStack(Drop(1)) /\ stk'[m] = Drop(1) /\ Stack = stk[m]
  <2>1. SetStack(Drop(1))
    BY DEF pop_pc
  <2>2. QED
    BY <1>1, <2>1, StackSet
<1>4. IsMap(Stack, 1 .. n) /\ Stack[1] = b
  BY <1>1, <1>2, <1>3 DEF Keeps
<1>5. n \in Nat /\ 1 \in 0 .. n /\ 1 \in 1 .. n /\ n - 1 = CtxWords
  BY Widths
<1>6. Word(1) = b
  BY <1>4, <1>5 DEF Word, IsMap
<1> HIDE DEF b, n
<1>7. /\ cpu'.pc = b /\ cpu'.cpsr = WithFlags(cpu.cpsr, JunkFlags) /\ UNCHANGED <<executed, curr_prog, queue, curr_pid, seen>>
  BY <1>1, <1>6 DEF pop_pc, SetStack, Memory, kernel, RegistersInPlace, IsMap, Fields
<1> cpu'.cpsr \notin UserStatuses
  BY <1>1, <1>7, StillMasked DEF JunkFlags
<1>8. LET d == SubSeq(Stack, 1 + 1, Len(Stack)) IN
      \A k \in 1 .. n - 1 : d[k] = Stack[1 + k]
  BY <1>4, <1>5, Dropped
<1>9. Drop(1) = SubSeq(Stack, 1 + 1, Len(Stack))
  BY DEF Drop
<1>10. \A k \in 1 .. CtxWords : stk[m][k + 1] = stk'[m][k]
  <2> SUFFICES ASSUME NEW k \in 1 .. CtxWords  PROVE stk[m][k + 1] = stk'[m][k]
    OBVIOUS
  <2>1. k + 1 = 1 + k /\ k \in 1 .. n - 1
    BY <1>5, Widths
  <2>2. Drop(1)[k] = Stack[1 + k]
    BY <1>8, <1>9, <2>1
  <2>3. QED
    BY <1>3, <2>1, <2>2
<1>11. Mine(b)' = Mine(a)
  BY <1>2, <1>10, OneUp, Widths DEF Mine, InFrame, Along, n
<1>12. Balanced' /\ b # 2005 /\ Served(b)
  BY <1>1, <1>2, pop_pc_Balanced DEF Phase
<1>13. QED
  BY <1>1, <1>2, <1>7, <1>11, <1>12, Passes

LEMMA stmdb_sp_Traced == Traced /\ stmdb_sp => Traced'
<1> SUFFICES ASSUME Traced, stmdb_sp, NEW a, a = cpu.pc, NEW m, m = ModeAt(a)  PROVE Traced'
  OBVIOUS
<1>1. /\ Balanced /\ RegistersInPlace /\ Runs(a) /\ Keeps(a)
      /\ LocatedAs(a, "stmdb_sp", Operand) /\ MarkedAs(a, "stmdb_sp", Operand)
      /\ cpu.cpsr \notin UserStatuses /\ ~InProgram /\ Mode = m
  BY Handling DEF stmdb_sp
<1>2. /\ cpu'.pc = a + 1 /\ cpu'.cpsr = cpu.cpsr /\ cpu'.lr = cpu.lr
      /\ UNCHANGED <<executed, curr_prog, queue, curr_pid, seen>>
  BY <1>1 DEF stmdb_sp, SetStack, Then, Memory, kernel, RegistersInPlace, IsMap, Fields
<1>3. /\ Along(a, a + 1) /\ Height(a) = GprWords /\ Height(a + 1) = CtxWords
      /\ Phase(a, a + 1) /\ OnStack(a) /\ InFrame(a + 1) /\ ~Called(a + 1) /\ Place(a) = "r0"
  BY <1>1 DEF LocatedAs, MarkedAs, Row
<1>4. stk'[m] = PushTwo(cpu.gpr[1], cpu.lr[m], stk[m])
  BY <1>1, StackSet DEF stmdb_sp, PushTwo
<1>5. stk'[m][1] = cpu.gpr[1] /\ stk'[m][2] = cpu.lr[m] /\ \A k \in 1 .. GprWords : stk'[m][2 + k] = stk[m][k]
  BY <1>1, <1>3, <1>4, PushedTwo, BelowTwo, Widths DEF Keeps
<1>6. Framed(stk'[m], 0) = Stored(a, stk[m])
  <2>1. GprWords = 6 /\ Gprs = 4
    BY DEF GprWords, Gprs
  <2>2. \A k \in 1 .. 4 : stk'[m][(0 + 2) + k] = stk[m][0 + k]
    BY <1>5, <2>1
  <2>3. stk'[m][7] = stk[m][5] /\ stk'[m][8] = stk[m][6]
    <3>1. 5 \in 1 .. 6 /\ 6 \in 1 .. 6 /\ 2 + 5 = 7 /\ 2 + 6 = 8
      OBVIOUS
    <3>2. QED
      BY <1>5, <2>1, <3>1
  <2>4. Words(stk'[m], 0 + 2) = Words(stk[m], 0)
    BY <2>1, <2>2 DEF Words
  <2>5. 0 + Gprs + 3 = 7 /\ 0 + Gprs + 4 = 8 /\ Gprs + 1 = 5 /\ Gprs + 2 = 6 /\ 0 + 2 = 2 /\ 0 + 1 = 1
    BY <2>1
  <2>6. Status(a) = stk'[m][1]
    BY <1>3, <1>5 DEF Status
  <2>7. QED
    BY <1>5, <2>3, <2>4, <2>5, <2>6 DEF Framed, Stored
<1>7. Mine(a + 1)' = Mine(a) /\ Mine(a).pc = cpu.lr[m]
  BY <1>3, <1>6, Widths DEF Mine, InFrame, OnStack, Along, Stored
<1>8. Balanced'
  BY <1>1, stmdb_sp_Balanced
<1>9. a + 1 = 2005 => cpu'.lr[SVC] = Mine(a).pc
  <2>1. ModeAt(2005) = SVC
    BY DEF ModeAt
  <2>2. QED
    BY <1>2, <1>3, <1>7, <2>1 DEF Along
<1>10. QED
  BY <1>1, <1>2, <1>3, <1>7, <1>8, <1>9, Passes

LEMMA ldmia_sp_Traced == Traced /\ ldmia_sp => Traced'
<1> SUFFICES ASSUME Traced, ldmia_sp, NEW a, a = cpu.pc, NEW m, m = ModeAt(a)  PROVE Traced'
  OBVIOUS
<1>1. /\ Balanced /\ RegistersInPlace /\ Runs(a) /\ Keeps(a) /\ a # 2004
      /\ LocatedAs(a, "ldmia_sp", Operand) /\ MarkedAs(a, "ldmia_sp", Operand)
      /\ cpu.cpsr \notin UserStatuses /\ ~InProgram /\ Mode = m /\ m \in Modes
  BY Handling DEF ldmia_sp
<1>2. /\ Along(a, a + 1) /\ Height(a) = CtxWords /\ Height(a + 1) = GprWords
      /\ Phase(a, a + 1) /\ InFrame(a) /\ OnStack(a + 1) /\ Served(a) /\ Place(a + 1) = "r0"
  BY <1>1 DEF LocatedAs, MarkedAs, Row
<1>3. stk'[m] = Drop(2) /\ Stack = stk[m]
  <2>1. SetStack(Drop(2))
    BY DEF ldmia_sp
  <2>2. QED
    BY <1>1, <2>1, StackSet
<1>4. CtxWords = 8 /\ GprWords = 6 /\ Gprs = 4
  BY DEF CtxWords, GprWords, Gprs
<1>5. IsMap(Stack, 1 .. 8)
  BY <1>1, <1>2, <1>3, <1>4 DEF Keeps
<1>6. Word(1) = stk[m][1] /\ Word(2) = stk[m][2]
  BY <1>3, <1>5 DEF Word, IsMap
<1>7. /\ cpu'.pc = a + 1 /\ cpu'.cpsr = cpu.cpsr /\ cpu'.lr[m] = stk[m][2] /\ cpu'.gpr[1] = stk[m][1]
      /\ UNCHANGED <<executed, curr_prog, queue, curr_pid, seen>>
  BY <1>1, <1>6 DEF ldmia_sp, SetStack, Then, Memory, kernel, RegistersInPlace, IsMap, Fields, Gprs
<1>8. \A k \in 1 .. 6 : stk'[m][k] = stk[m][2 + k]
  <2> DEFINE n == 8
             j == 2
  <2>1. n \in Nat /\ j \in 0 .. n /\ n - j = 6 /\ IsMap(Stack, 1 .. n) /\ stk'[m] = Drop(j)
    BY <1>3, <1>5
  <2>2. \A k \in 1 .. 6 : j + k = 2 + k
    OBVIOUS
  <2> HIDE DEF n, j
  <2>3. LET d == SubSeq(Stack, j + 1, Len(Stack)) IN
        \A k \in 1 .. n - j : d[k] = Stack[j + k]
    BY <2>1, Dropped
  <2>4. Drop(j) = SubSeq(Stack, j + 1, Len(Stack))
    BY DEF Drop
  <2> SUFFICES ASSUME NEW k \in 1 .. 6  PROVE stk'[m][k] = stk[m][2 + k]
    OBVIOUS
  <2>5. Drop(j)[k] = Stack[j + k]
    BY <2>1, <2>3, <2>4
  <2>6. QED
    BY <1>3, <2>1, <2>2, <2>5
<1>9. Stored(a + 1, stk[m])' = Framed(stk[m], 0)
  <2>1. stk'[m][5] = stk[m][7] /\ stk'[m][6] = stk[m][8]
    <3>1. 5 \in 1 .. 6 /\ 6 \in 1 .. 6 /\ 2 + 5 = 7 /\ 2 + 6 = 8
      OBVIOUS
    <3>2. QED
      BY <1>8, <3>1
  <2>2. \A k \in 1 .. 4 : stk'[m][0 + k] = stk[m][2 + k]
    <3>1. \A k \in 1 .. 4 : k \in 1 .. 6 /\ 0 + k = k
      OBVIOUS
    <3>2. QED
      BY <1>8, <3>1
  <2>3. Words(stk'[m], 0) = Words(stk[m], 2)
    BY <1>4, <2>2 DEF Words
  <2>4. 0 + Gprs + 3 = 7 /\ 0 + Gprs + 4 = 8 /\ Gprs + 1 = 5 /\ Gprs + 2 = 6 /\ 0 + 2 = 2 /\ 0 + 1 = 1
    BY <1>4
  <2>5. ModeAt(a + 1) = m
    BY <1>2 DEF Along
  <2>6. Status(a + 1)' = stk[m][1]
    BY <1>2, <1>7 DEF Status
  <2>7. QED
    BY <1>7, <2>1, <2>3, <2>4, <2>5, <2>6 DEF Framed, Stored
<1>10. Mine(a + 1)' = Mine(a)
  BY <1>2, <1>9, Widths DEF Mine, InFrame, OnStack, Along
<1>11. Balanced' /\ a + 1 # 2005 /\ Served(a + 1)
  BY <1>1, <1>2, ldmia_sp_Balanced DEF Phase
<1>12. QED
  BY <1>1, <1>2, <1>7, <1>10, <1>11, Passes

LEMMA ldmia_user_Traced == Traced /\ ldmia_user => Traced'
<1> SUFFICES ASSUME Traced, ldmia_user, NEW a, a = cpu.pc, NEW m, m = ModeAt(a)  PROVE Traced'
  OBVIOUS
<1>1. /\ Balanced /\ RegistersInPlace /\ Runs(a) /\ Keeps(a) /\ a # 2004
      /\ LocatedAs(a, "ldmia_user", Operand) /\ MarkedAs(a, "ldmia_user", Operand)
      /\ cpu.cpsr \notin UserStatuses /\ ~InProgram /\ Mode = m /\ m \in Modes
  BY Handling DEF ldmia_user
<1>2. /\ Along(a, a + 1) /\ Height(a) = GprWords
      /\ Phase(a, a + 1) /\ OnStack(a) /\ InRegisters(a + 1) /\ Served(a) /\ Place(a) = "spsr"
  BY <1>1 DEF LocatedAs, MarkedAs, Row, Level
<1>3. GprWords = 6 /\ Gprs = 4
  BY DEF GprWords, Gprs
<1>4. IsMap(stk[m], 1 .. 6) /\ Stack = stk[m]
  BY <1>1, <1>2, <1>3 DEF Keeps, Stack
<1>5. Word(5) = stk[m][5] /\ Word(6) = stk[m][6] /\ \A k \in 1 .. 4 : Word(k) = stk[m][0 + k]
  BY <1>4 DEF Word, IsMap
<1>6. [k \in 1 .. Gprs |-> Word(k)] = Words(stk[m], 0)
  BY <1>3, <1>5 DEF Words
<1>7. /\ cpu'.pc = a + 1 /\ cpu'.cpsr = cpu.cpsr /\ cpu'.gpr = Words(stk[m], 0)
      /\ cpu'.sp = stk[m][5] /\ cpu'.spsr = cpu.spsr /\ cpu'.lr = [cpu.lr EXCEPT ![USR] = stk[m][6]]
      /\ UNCHANGED <<executed, curr_prog, queue, curr_pid, seen>>
  BY <1>1, <1>3, <1>5, <1>6
     DEF ldmia_user, Then, Registers, memory, kernel, RegistersInPlace, IsMap, Fields
<1>8. cpu'.lr[USR] = stk[m][6] /\ cpu'.lr[m] = cpu.lr[m]
  BY <1>1, <1>7 DEF RegistersInPlace, IsMap, Modes, USR, SVC, IRQ
<1>9. Gprs + 1 = 5 /\ Gprs + 2 = 6 /\ ModeAt(a + 1) = m
  BY <1>2, <1>3 DEF Along
<1>10. Regs(a + 1)' = Stored(a, stk[m])
  BY <1>7, <1>8, <1>9, <1>2 DEF Regs, Stored, Status
<1>11. Mine(a + 1)' = Mine(a)
  BY <1>2, <1>10 DEF Mine, OnStack
<1>12. Balanced' /\ a + 1 # 2005 /\ Served(a + 1)
  BY <1>1, <1>2, ldmia_user_Balanced DEF Phase
<1>13. QED
  BY <1>1, <1>2, <1>7, <1>11, <1>12, Passes

LEMMA stmia_user_Traced == Traced /\ stmia_user => Traced'
<1> SUFFICES ASSUME Traced, stmia_user, NEW a, a = cpu.pc, NEW m, m = ModeAt(a)  PROVE Traced'
  OBVIOUS
<1> DEFINE two == <<cpu.sp, cpu.lr[USR]>>
           high == Drop(GprWords)
           low == Join(cpu.gpr, two)
           words == Join(low, high)
<1>1. /\ Balanced /\ RegistersInPlace /\ Runs(a) /\ Keeps(a) /\ a # 2004
      /\ LocatedAs(a, "stmia_user", Operand) /\ MarkedAs(a, "stmia_user", Operand)
      /\ cpu.cpsr \notin UserStatuses /\ ~InProgram /\ Mode = m /\ m \in Modes
  BY Handling DEF stmia_user
<1>2. /\ Along(a, a + 1) /\ Height(a) = GprWords
      /\ Phase(a, a + 1) /\ InRegisters(a) /\ OnStack(a + 1) /\ ~Called(a + 1) /\ Place(a + 1) = "spsr"
  BY <1>1 DEF LocatedAs, MarkedAs, Row, Level
<1>3. /\ cpu'.pc = a + 1 /\ cpu'.cpsr = cpu.cpsr /\ UNCHANGED <<cpu.gpr, cpu.sp, cpu.lr, cpu.spsr>>
      /\ UNCHANGED <<executed, curr_prog, queue, curr_pid, seen>>
  BY <1>1 DEF stmia_user, SetStack, Then, Memory, kernel, RegistersInPlace, IsMap, Fields
<1>4. stk'[m] = words /\ Stack = stk[m]
  <2>1. SetStack(words)
    BY DEF stmia_user, Join
  <2> HIDE DEF words
  <2>2. QED
    BY <1>1, <2>1, StackSet
<1>5. GprWords = 6 /\ Gprs = 4
  BY DEF GprWords, Gprs
<1>6. IsMap(cpu.gpr, 1 .. 4) /\ IsMap(two, 1 .. 2) /\ two[1] = cpu.sp /\ two[2] = cpu.lr[USR]
  BY <1>1, <1>5 DEF RegistersInPlace, IsMap
<1>7. IsMap(high, 1 .. 0)
  <2>1. IsMap(Stack, 1 .. 6) /\ 6 \in 0 .. 6
    BY <1>1, <1>2, <1>4, <1>5 DEF Keeps
  <2>2. IsMap(SubSeq(Stack, 6 + 1, Len(Stack)), 1 .. 6 - 6)
    BY <2>1, Dropped
  <2>3. high = SubSeq(Stack, 6 + 1, Len(Stack))
    BY <1>5 DEF Drop
  <2>4. QED
    BY <2>2, <2>3
<1> HIDE DEF two, high
<1>8. /\ IsMap(low, 1 .. 6) /\ low[5] = cpu.sp /\ low[6] = cpu.lr[USR]
      /\ \A k \in 1 .. 4 : low[k] = cpu.gpr[k]
  <2>1. 4 \in Nat /\ 2 \in Nat /\ 4 + 2 = 6 /\ 4 + 1 = 5 /\ 1 \in 1 .. 2 /\ 2 \in 1 .. 2
    OBVIOUS
  <2> DEFINE i == 4
             j == 2
  <2>2. i \in Nat /\ j \in Nat /\ IsMap(cpu.gpr, 1 .. i) /\ IsMap(two, 1 .. j) /\ i + j = 6
    BY <1>6, <2>1
  <2> HIDE DEF i, j
  <2>3. /\ IsMap(low, 1 .. i + j) /\ \A k \in 1 .. i : low[k] = cpu.gpr[k]
        /\ \A k \in 1 .. j : low[i + k] = two[k]
    BY <2>2, Joined
  <2>4. /\ IsMap(low, 1 .. 6) /\ \A k \in 1 .. 4 : low[k] = cpu.gpr[k]
        /\ \A k \in 1 .. 2 : low[4 + k] = two[k]
    BY <2>2, <2>3 DEF i, j
  <2> HIDE DEF low
  <2>5. low[5] = two[1] /\ low[6] = two[2]
    BY <2>1, <2>4
  <2>6. QED
    BY <1>6, <2>4, <2>5
<1> HIDE DEF low
<1>9. \A k \in 1 .. 6 : stk'[m][k] = low[k]
  <2>1. \A k \in 1 .. 6 : words[k] = low[k]
    <3> DEFINE i == 6
               j == 0
    <3>1. i \in Nat /\ j \in Nat /\ IsMap(low, 1 .. i) /\ IsMap(high, 1 .. j)
      BY <1>7, <1>8
    <3> HIDE DEF i, j
    <3>2. \A k \in 1 .. i : words[k] = low[k]
      BY <3>1, Joined
    <3>3. QED
      BY <3>2 DEF i
  <2>2. QED
    BY <1>4, <2>1
<1>10. Words(stk'[m], 0) = cpu.gpr
  <2>1. \A k \in 1 .. 4 : stk'[m][0 + k] = cpu.gpr[k]
    BY <1>8, <1>9
  <2>2. QED
    BY <1>5, <1>6, <2>1 DEF Words, IsMap
<1>11. Gprs + 1 = 5 /\ Gprs + 2 = 6 /\ ModeAt(a + 1) = m
  BY <1>2, <1>5 DEF Along
<1>12. stk'[m][5] = cpu.sp /\ stk'[m][6] = cpu.lr[USR]
  BY <1>8, <1>9
<1>13. Stored(a + 1, stk[m])' = Regs(a)
  BY <1>2, <1>3, <1>10, <1>11, <1>12 DEF Regs, Stored, Status
<1>14. Mine(a + 1)' = Mine(a)
  BY <1>2, <1>11, <1>13 DEF Mine, OnStack
<1>15. Balanced' /\ a + 1 # 2005
  BY <1>1, <1>2, stmia_user_Balanced DEF Phase
<1>16. QED
  BY <1>1, <1>2, <1>3, <1>14, <1>15, Passes

\* The return address becomes that of the instruction to go on with, or stays one
\* too far for ldr_svc.
LEMMA sub_lr_Traced == Traced /\ sub_lr => Traced'
<1> SUFFICES ASSUME Traced, sub_lr, NEW a, a = cpu.pc, NEW m, m = ModeAt(a)  PROVE Traced'
  OBVIOUS
<1> DEFINE b == a + 1
           x == cpu.lr[m]
           n == Operand
<1>1. /\ Balanced /\ RegistersInPlace /\ Numbered /\ executed \in Sessions
      /\ LocatedAs(a, "sub_lr", n) /\ MarkedAs(a, "sub_lr", n)
      /\ cpu.cpsr \notin UserStatuses /\ ~InProgram /\ Mode = m /\ m \in Modes /\ Traces(a)
  BY Handling DEF sub_lr
<1>2. Along(a, b)
  BY <1>1 DEF LocatedAs, Level
<1>3. /\ InRegisters(a) /\ InRegisters(b) /\ ~Booting(a) /\ ~Booting(b) /\ ~Served(a) /\ ~Served(b)
      /\ Ahead(a) /\ ~Called(b) /\ b # 2005 /\ (Calls(b) => Calls(a))
      /\ (n = 0 /\ Ahead(b)) \/ (n = 1 /\ ~Ahead(b))
  BY <1>1 DEF MarkedAs
<1>4. /\ cpu'.pc = b /\ cpu'.cpsr = cpu.cpsr /\ UNCHANGED <<cpu.gpr, cpu.sp, cpu.spsr>>
      /\ cpu'.lr[m] = x - n /\ cpu'.lr[USR] = cpu.lr[USR]
      /\ UNCHANGED <<executed, curr_prog, queue, curr_pid, seen>>
  BY <1>1 DEF sub_lr, Then, Registers, memory, kernel, RegistersInPlace, IsMap, Fields, Modes, USR, SVC, IRQ
<1> HIDE DEF b, n
<1>5. Finds(a)
  BY <1>1, <1>3 DEF Traces
<1>6. ModeAt(b) = m
  BY <1>2 DEF Along
<1>7. Mine(a) = Regs(a) /\ Mine(b)' = Regs(b)'
  BY <1>3 DEF Mine
<1>8. x \in Int /\ Mine(a).pc = x
  BY <1>3, <1>5, <1>7 DEF Finds, Regs
<1>9. Mine(b)' = [Mine(a) EXCEPT !.pc = x - n]
  BY <1>4, <1>6, <1>7 DEF Regs
<1>10. Resumed(b, Mine(b)') = Resumed(a, Mine(a))
  <2>1. CASE n = 0 /\ Ahead(b)
    <3>1. x - n = x
      BY <1>8, <2>1
    <3>2. Mine(b)' = Mine(a)
      BY <1>7, <1>8, <1>9, <3>1 DEF Regs
    <3>3. QED
      BY <1>3, <2>1, <3>2 DEF Resumed
  <2>2. CASE n = 1 /\ ~Ahead(b)
    BY <1>3, <1>8, <1>9, <2>2 DEF Resumed
  <2>3. QED
    BY <1>3, <2>1, <2>2
<1>11. Now(b)' = Now(a)
  BY <1>4, <1>10 DEF Now
<1>12. Seen(Now(b))'
  BY <1>4, <1>5, <1>11 DEF Finds, Seen, AllSound, Sound
<1>13. Ahead(b) => Mine(b)' = Mine(a)
  <2>1. Ahead(b) => x - n = x
    BY <1>3, <1>8
  <2>2. QED
    BY <1>7, <1>8, <1>9, <2>1 DEF Regs
<1>14. Calls(b) => Ahead(b)
  BY DEF Ahead
<1>15. Finds(b)'
  BY <1>3, <1>5, <1>12, <1>13, <1>14 DEF Finds
<1>16. Balanced' /\ Numbered' /\ executed' \in Sessions /\ ~InProgram'
  BY <1>1, <1>4, sub_lr_Balanced DEF Numbered, InProgram
<1>17. QED
  BY <1>3, <1>4, <1>15, <1>16 DEF Traced, Traces

\* The number of the call is that of the instruction the program waits at.
LEMMA ldr_svc_Traced == Traced /\ ldr_svc => Traced'
<1> SUFFICES ASSUME Traced, ldr_svc, NEW a, a = cpu.pc  PROVE Traced'
  OBVIOUS
<1>1. /\ Balanced /\ RegistersInPlace /\ Numbered /\ executed \in Sessions
      /\ LocatedAs(a, "ldr_svc", Operand) /\ MarkedAs(a, "ldr_svc", Operand)
      /\ cpu.cpsr \notin UserStatuses /\ ~InProgram /\ Mode = ModeAt(a) /\ Traces(a)
  BY Handling DEF ldr_svc
<1>2. /\ Level(a, a + 1) /\ a = 2005 /\ InFrame(a) /\ InFrame(a + 1) /\ Calls(a) /\ Calls(a + 1)
      /\ ~Booting(a) /\ ~Booting(a + 1) /\ ~Served(a) /\ ~Served(a + 1)
  BY <1>1 DEF LocatedAs, MarkedAs
<1>3. Finds(a) /\ Mode = SVC
  BY <1>1, <1>2 DEF Traces, ModeAt
<1>4. /\ cpu'.pc = a + 1 /\ cpu'.cpsr = cpu.cpsr /\ cpu'.gpr[2] = SvcAt[cpu.lr[SVC] - 1]
      /\ UNCHANGED <<stk, executed, curr_prog, queue, curr_pid, seen>>
  BY <1>1, <1>3 DEF ldr_svc, Then, Registers, memory, kernel, RegistersInPlace, IsMap, Fields, Gprs
<1>5. Mine(a + 1)' = Mine(a)
  BY <1>2, <1>4, SameFrame
<1>6. Ahead(a) /\ Ahead(a + 1)
  BY <1>2 DEF Ahead
<1>7. Now(a + 1)' = Now(a)
  BY <1>4, <1>5, <1>6 DEF Now, Resumed
<1>8. Seen(Now(a + 1))'
  BY <1>3, <1>4, <1>7 DEF Finds, Seen, AllSound, Sound
<1>9. Finds(a + 1)'
  BY <1>2, <1>3, <1>4, <1>5, <1>6, <1>8 DEF Finds
<1>10. Balanced' /\ Numbered' /\ executed' \in Sessions /\ ~InProgram'
  BY <1>1, <1>4, ldr_svc_Balanced DEF Numbered, InProgram
<1>11. QED
  BY <1>2, <1>4, <1>9, <1>10 DEF Traced, Traces

(***************************************************************************)
(* Exceptions and programs.                                                *)
(***************************************************************************)
LEMMA Executing ==
  ASSUME Traced, InProgram
  PROVE  /\ Balanced /\ RegistersInPlace /\ Numbered /\ executed \in Sessions /\ curr_prog # 0
         /\ Contexts = ThreadsOf(curr_prog, queue, Live)
         /\ seen = [running |-> curr_prog, thread |-> Contexts]
         /\ AllSound(Contexts) /\ curr_prog \in DOMAIN Contexts /\ Contexts[curr_prog] = Live
         /\ Sound(Live) /\ Live.sp = curr_prog - 1 /\ cpu.pc \in Int
<1>1. Contexts = ThreadsOf(curr_prog, queue, Live)
  BY DEF Contexts, ThreadsOf, PidsOf
<1>2. Seen(Contexts) /\ Numbered
  BY DEF Traced
<1>3. curr_prog \in DOMAIN Contexts /\ Contexts[curr_prog] = Live
  <2>1. IsMap(ThreadsOf(curr_prog, queue, Live), PidsOf(curr_prog, queue))
        /\ ThreadsOf(curr_prog, queue, Live)[curr_prog] = Live
    BY <1>2, Members DEF Numbered
  <2>2. curr_prog \in PidsOf(curr_prog, queue)
    BY DEF PidsOf
  <2>3. QED
    BY <1>1, <2>1, <2>2 DEF IsMap
<1>4. Sound(Live) /\ Live.sp = curr_prog - 1
  BY <1>2, <1>3 DEF Seen, AllSound
<1>5. cpu.pc \in Int
  BY <1>4 DEF Sound, Live
<1>6. QED
  BY <1>1, <1>2, <1>3, <1>4, <1>5 DEF Traced, Balanced, Seen

\* An exception keeps the registers, and the handler begins in time to save them.
LEMMA Interrupts ==
  ASSUME Traced, InProgram, NEW m \in Modes, Exception(m, cpu.pc + 1), Balanced',
         m = SVC => cpu.pc \in DOMAIN SvcAt,
         UNCHANGED <<executed, curr_prog, queue, curr_pid, seen>>
  PROVE  Traced'
<1> DEFINE b == Vector(m)
           x == cpu.pc
<1>1. /\ RegistersInPlace /\ Numbered /\ executed \in Sessions /\ curr_prog # 0 /\ x \in Int
      /\ Contexts = ThreadsOf(curr_prog, queue, Live)
      /\ seen = [running |-> curr_prog, thread |-> Contexts] /\ AllSound(Contexts)
  BY Executing
<1>2. b = IF m = SVC THEN 2000 ELSE 3000
  BY DEF Vector, lolevel_handler_svc, lolevel_handler_irq
<1>3. /\ cpu'.pc = b /\ cpu'.cpsr = Entered(m) /\ UNCHANGED <<cpu.gpr, cpu.sp>>
      /\ cpu'.spsr[m] = cpu.cpsr /\ cpu'.lr[m] = x + 1 /\ cpu'.lr[USR] = cpu.lr[USR]
  BY <1>1 DEF Exception, RegistersInPlace, IsMap, Fields, Modes, USR, SVC, IRQ
<1>4. /\ ModeAt(b) = m /\ InRegisters(b) /\ Ahead(b) /\ ~Booting(b) /\ ~Served(b) /\ ~Called(b)
      /\ b # 2005 /\ (Calls(b) => m = SVC)
  BY <1>2 DEF ModeAt, InRegisters, Height, Ahead, Booting, Served, Called, Calls, Modes, SVC, IRQ
<1>5. ~InProgram'
  <2>1. cpu.cpsr \in Statuses(80) /\ Mode = 16 /\ ~Masked(cpu.cpsr)
    BY InUserMode DEF Traced, InProgram, UserStatuses, USR
  <2>2. cpu'.cpsr \in Statuses(192 + m)
    BY <1>3, <2>1 DEF Entered, Modes, SVC, IRQ, Statuses
  <2>3. QED
    BY <2>2 DEF InProgram, UserStatuses, Statuses, Modes, SVC, IRQ
<1> HIDE DEF b, x
<1>6. Mine(b)' = [pc |-> x + 1, gpr |-> cpu.gpr, sp |-> cpu.sp, lr |-> cpu.lr[USR],
                  flags |-> FlagsOf(cpu.cpsr)]
  BY <1>3, <1>4 DEF Mine, Regs
<1>7. Resumed(b, Mine(b)') = Live
  <2> DEFINE c == [pc |-> x + 1, gpr |-> cpu.gpr, sp |-> cpu.sp, lr |-> cpu.lr[USR],
                  flags |-> FlagsOf(cpu.cpsr)]
  <2>1. c.pc = x + 1
    OBVIOUS
  <2>2. [c EXCEPT !.pc = x] = Live
    BY DEF Live, x
  <2>3. Mine(b)' = c
    BY <1>6
  <2> HIDE DEF c
  <2>4. c.pc - 1 = x
    BY <1>1, <2>1
  <2>5. [c EXCEPT !.pc = c.pc - 1] = Live
    BY <2>2, <2>4
  <2>6. QED
    BY <1>4, <2>3, <2>5 DEF Resumed
<1>8. Now(b)' = Contexts
  BY <1>1, <1>7 DEF Now
<1>9. Seen(Now(b))'
  BY <1>1, <1>8 DEF Seen, AllSound, Sound
<1>10. Mine(b)'.pc \in Int /\ Mine(b)'.pc - 1 = x
  BY <1>1, <1>6
<1>11. Finds(b)'
  BY <1>4, <1>9, <1>10 DEF Finds, x
<1>12. QED
  BY <1>1, <1>3, <1>4, <1>5, <1>11 DEF Traced, Traces, Numbered

LEMMA TakeIrq_Traced == Traced /\ TakeIrq => Traced'
<1> SUFFICES ASSUME Traced, TakeIrq  PROVE Traced'
  OBVIOUS
<1>1. Balanced /\ InProgram /\ Balanced'
  BY HandlersUninterrupted, TakeIrq_Balanced DEF TakeIrq, Traced
<1>2. IRQ \in Modes /\ IRQ # SVC
  BY DEF Modes, IRQ, SVC
<1>3. Exception(IRQ, cpu.pc + 1) /\ UNCHANGED <<executed, curr_prog, queue, curr_pid, seen>>
  BY DEF TakeIrq, memory, kernel
<1>4. QED
  BY <1>1, <1>2, <1>3, Interrupts

LEMMA TakeSvc_Traced == Traced /\ TakeSvc => Traced'
<1> SUFFICES ASSUME Traced, TakeSvc  PROVE Traced'
  OBVIOUS
<1>1. Balanced /\ InProgram /\ Balanced'
  BY InUserMode, TakeSvc_Balanced DEF TakeSvc, Traced
<1>2. SVC \in Modes
  BY DEF Modes
<1>3. /\ Exception(SVC, cpu.pc + 1) /\ cpu.pc \in DOMAIN SvcAt
      /\ UNCHANGED <<executed, curr_prog, queue, curr_pid, seen>>
  BY DEF TakeSvc, memory, kernel
<1>4. QED
  BY <1>1, <1>2, <1>3, Interrupts

LEMMA UserInstruction_Traced ==
  ASSUME Traced, UserInstruction
  PROVE  /\ Traced' /\ T!Next
         /\ seen.running \in DOMAIN seen.thread /\ Sound(seen.thread[seen.running])
         /\ seen'.thread = [seen.thread EXCEPT ![seen.running] = After(seen.thread[seen.running])]
<1> DEFINE c == After(Live)
           r == curr_prog
<1>1. InProgram
  BY InUserMode DEF UserInstruction, Traced
<1>2. /\ Balanced /\ RegistersInPlace /\ Numbered /\ executed \in Sessions /\ r # 0
      /\ Contexts = ThreadsOf(r, queue, Live)
      /\ seen = [running |-> r, thread |-> Contexts]
      /\ AllSound(Contexts) /\ r \in DOMAIN Contexts /\ Contexts[r] = Live
      /\ Sound(Live) /\ Live.sp = r - 1
  BY <1>1, Executing
<1>3. Sound(c) /\ c.sp = Live.sp
  BY <1>2, AfterSound
<1>4. /\ cpu' = [cpu EXCEPT !.pc = c.pc, !.gpr = c.gpr, !.sp = c.sp, !.lr[USR] = c.lr,
                            !.cpsr = WithFlags(@, c.flags)]
      /\ UNCHANGED <<stk, executed, curr_prog, queue, curr_pid>> /\ See
      /\ Live.pc \notin DOMAIN SvcAt
  BY DEF UserInstruction, memory, kernel, Live
<1> HIDE DEF c
<1>5. Live' = c /\ cpu'.cpsr \in UserStatuses
  <2>1. IsMap(c, {"pc", "gpr", "sp", "lr", "flags"}) /\ c.flags \in 0 .. 3
    BY <1>3 DEF Sound, IsContext
  <2>2. cpu'.cpsr = WithFlags(cpu.cpsr, c.flags)
    BY <1>2, <1>4 DEF RegistersInPlace, IsMap, Fields
  <2>3. cpu'.cpsr \in UserStatuses /\ FlagsOf(cpu'.cpsr) = c.flags
    BY <1>1, <2>1, <2>2, StatusBits DEF InProgram, UserStatuses
  <2>4. Live' = [pc |-> c.pc, gpr |-> c.gpr, sp |-> c.sp, lr |-> c.lr, flags |-> FlagsOf(cpu'.cpsr)]
    BY <1>2, <1>4 DEF Live, RegistersInPlace, IsMap, Fields, Modes, USR
  <2>5. QED
    BY <2>1, <2>3, <2>4 DEF IsMap
<1>6. InProgram'
  BY <1>1, <1>4, <1>5 DEF InProgram
<1>7. Contexts' = ThreadsOf(r, queue, c)
  <2>1. Contexts' = ThreadsOf(curr_prog', queue', Live')
    BY DEF Contexts, ThreadsOf, PidsOf
  <2>2. QED
    BY <1>4, <1>5, <2>1
<1>8. Contexts' = [Contexts EXCEPT ![r] = c]
  BY <1>2, <1>7, OneChanges
<1>9. AllSound([Contexts EXCEPT ![r] = c])
  BY <1>2, <1>3, OneSound
<1>10. seen' = [running |-> r, thread |-> Contexts']
  BY <1>4 DEF See
<1>11. Seen(Contexts)'
  BY <1>2, <1>4, <1>8, <1>9, <1>10 DEF Seen, AllSound, Sound
<1>12. Balanced'
  BY <1>2, UserInstruction_Balanced
<1>13. Traced'
  BY <1>2, <1>4, <1>6, <1>11, <1>12 DEF Traced, Numbered
<1>14. T!Next
  <2>1. T!Local
    BY <1>2, <1>4, <1>8, <1>10, SamePrograms DEF T!Local, T!Me, c
  <2>2. QED
    BY <1>4, <2>1 DEF T!Next
<1>15. /\ seen.running \in DOMAIN seen.thread /\ Sound(seen.thread[seen.running])
       /\ seen'.thread = [seen.thread EXCEPT ![seen.running] = After(seen.thread[seen.running])]
  BY <1>2, <1>8, <1>10 DEF c
<1>16. QED
  BY <1>13, <1>14, <1>15

\* The timer runs out, or nothing happens.
LEMMA NothingTraced ==
  ASSUME Traced, Balanced', UNCHANGED <<cpu, stk, executed, curr_prog, queue, curr_pid, seen>>
  PROVE  Traced'
<1>1. Numbered' /\ executed' \in Sessions /\ (InProgram' <=> InProgram)
  BY DEF Traced, Numbered, InProgram
<1>2. CASE InProgram
  <2>1. Contexts' = Contexts
    BY DEF Contexts, Live
  <2>2. Seen(Contexts)'
    BY <1>2, <2>1 DEF Traced, Seen, AllSound, Sound
  <2>3. QED
    BY <1>1, <1>2, <2>2 DEF Traced
<1>3. CASE ~InProgram
  <2> SUFFICES ASSUME NEW a, a = cpu.pc  PROVE Traced'
    OBVIOUS
  <2>1. Traces(a)
    BY <1>3 DEF Traced
  <2>2. Mine(a)' = Mine(a)
    BY DEF Mine, Regs, Stored, Framed, Status
  <2>3. Now(a)' = Now(a)
    BY <2>2 DEF Now
  <2>4. Finds(a) => Finds(a)'
    BY <2>2, <2>3 DEF Finds, Seen, AllSound, Sound
  <2>5. Leaves(a) => Leaves(a)'
    <3>1. AllSound(seen.thread)' <=> AllSound(seen.thread)
      BY DEF AllSound, Sound
    <3>2. Serves(seen.running, seen.thread, curr_prog, Now(a))' <=>
            Serves(seen.running, seen.thread, curr_prog, Now(a))
      BY <2>3
    <3>3. QED
      BY <3>1, <3>2 DEF Leaves
  <2>6. QED
    BY <1>1, <1>3, <2>1, <2>4, <2>5 DEF Traced, Traces, Starting
<1>4. QED
  BY <1>2, <1>3

(***************************************************************************)
(* The kernel serves the program.                                          *)
(***************************************************************************)
LEMMA FrameContext ==
  ASSUME NEW f, Frame(f)
  PROVE  ContextOf(f) = Framed(f, 0) /\ IsContext(ContextOf(f))
<1>1. CtxWords = 8 /\ Gprs = 4
  BY DEF CtxWords, GprWords, Gprs
<1> DEFINE W == {f[i] : i \in 1 .. 8}
           g == SubSeq(f, 3, 6)
<1>2. \A i \in 1 .. 8 : f[i] \in W
  OBVIOUS
<1> HIDE DEF W
<1>3. g \in Seq(W) /\ Len(g) = 4 /\ \A i \in 1 .. 4 : g[i] = f[3 + i - 1]
  <2> DEFINE lo == 3
             hi == 6
  <2>1. lo \in Int /\ hi \in Int /\ lo <= hi /\ hi - lo + 1 = 4
        /\ \A i \in lo .. hi : i \in 1 .. 8
    OBVIOUS
  <2> HIDE DEF lo, hi
  <2>2. /\ SubSeq(f, lo, hi) \in Seq(W) /\ Len(SubSeq(f, lo, hi)) = hi - lo + 1
        /\ \A i \in 1 .. hi - lo + 1 : SubSeq(f, lo, hi)[i] = f[lo + i - 1]
    <3>1. \A i \in lo .. hi : f[i] \in W
      BY <1>2, <2>1
    <3>2. QED
      BY <2>1, <3>1, SubSeqProperties
  <2>3. SubSeq(f, lo, hi) = g
    BY DEF lo, hi
  <2>4. g \in Seq(W) /\ Len(g) = 4 /\ \A i \in 1 .. 4 : g[i] = f[lo + i - 1]
    BY <2>1, <2>2, <2>3
  <2>5. QED
    BY <2>4 DEF lo
<1>4. IsMap(g, 1 .. 4)
  BY <1>3 DEF IsMap
<1>5. \A i \in 1 .. 4 : g[i] = f[2 + i]
  <2>1. \A i \in 1 .. 4 : 3 + i - 1 = 2 + i
    OBVIOUS
  <2>2. QED
    BY <1>3, <2>1
<1>6. SubSeq(f, 3, Gprs + 2) = g
  BY <1>1
<1> HIDE DEF g
<1>7. Words(f, 0 + 2) = g
  BY <1>1, <1>4, <1>5 DEF Words, IsMap
<1>8. 0 + Gprs + 3 = Gprs + 3 /\ 0 + Gprs + 4 = Gprs + 4 /\ 0 + 2 = 2 /\ 0 + 1 = 1
  BY <1>1
<1>9. ContextOf(f) = Framed(f, 0)
  BY <1>6, <1>7, <1>8 DEF ContextOf, Framed
<1>10. IsContext(ContextOf(f))
  <2>1. FlagsOf(f[1]) \in 0 .. 3
    BY StatusOf DEF Frame
  <2>2. QED
    BY <1>1, <1>4, <1>6, <2>1 DEF ContextOf, IsContext, IsMap
<1>11. QED
  BY <1>9, <1>10

\* *ctx is what is on the stack above the return address.
LEMMA ContextRead ==
  ASSUME NEW a, Runs(a), Keeps(a), Row(a, CtxWords + 1, "second")
  PROVE  Frame(ctx) /\ Framed(stk[ModeAt(a)], 1) = ContextOf(ctx)
<1> DEFINE c == CtxWords + 1
<1>1. Frame(ctx)
  BY ContextFound
<1>2. c \in Nat /\ 1 \in 0 .. c /\ c - 1 = CtxWords
  BY Widths
<1>3. IsMap(Stack, 1 .. c) /\ Stack = stk[ModeAt(a)]
  BY DEF Runs, Keeps, Row, Stack
<1>4. ctx = SubSeq(Stack, 1 + 1, CtxWords + 1) /\ CtxWords + 1 = c
  BY DEF ctx
<1> HIDE DEF c
<1>5. Len(Stack) = c
  BY <1>2, <1>3, WordsAreSequence
<1>6. LET d == SubSeq(Stack, 1 + 1, Len(Stack)) IN
      \A k \in 1 .. c - 1 : d[k] = Stack[1 + k]
  BY <1>2, <1>3, Dropped
<1>7. ASSUME NEW k \in 1 .. CtxWords  PROVE Stack[k + 1] = ctx[k]
  <2>1. k + 1 = 1 + k /\ k \in 1 .. c - 1
    BY <1>2, Widths
  <2>2. QED
    BY <1>4, <1>5, <1>6, <2>1
<1>8. Framed(Stack, 1) = Framed(ctx, 0)
  BY <1>7, OneUp
<1>9. QED
  BY <1>1, <1>3, <1>8, FrameContext

LEMMA ContextWritten ==
  ASSUME NEW a, RegistersInPlace, Runs(a), Keeps(a), Height(a) = CtxWords + 1,
         NEW frame, Frame(frame), SetCtx(frame)
  PROVE  Framed(stk'[ModeAt(a)], 1) = ContextOf(frame)
<1> DEFINE c == CtxWords + 1
           high == Drop(CtxWords + 1)
           low == Push(Stack[1], frame)
           words == Join(low, high)
           m == ModeAt(a)
<1>1. SetStack(words)
  BY DEF SetCtx, Push, Join
<1>2. c \in Nat /\ 0 \in Nat /\ c \in 0 .. c /\ c - c = 0
  BY Widths
<1> HIDE DEF words
<1>3. stk'[m] = words /\ Stack = stk[m]
  BY <1>1, StackSet
<1>4. IsMap(Stack, 1 .. c)
  BY <1>3 DEF Keeps
<1>5. high = SubSeq(Stack, c + 1, Len(Stack))
  BY DEF Drop
<1>6. /\ IsMap(low, 1 .. c) /\ \A k \in 1 .. CtxWords : low[k + 1] = frame[k]
  BY Pushed, Widths DEF Frame
<1> HIDE DEF c, high, low
<1>7. \E j \in Nat : IsMap(high, 1 .. j)
  <2>1. IsMap(high, 1 .. c - c)
    BY <1>2, <1>4, <1>5, Dropped
  <2>2. QED
    BY <1>2, <2>1
<1>8. \A k \in 1 .. c : words[k] = low[k]
  BY <1>2, <1>6, <1>7, Joined DEF words
<1>9. ASSUME NEW k \in 1 .. CtxWords  PROVE words[k + 1] = frame[k]
  <2>1. k + 1 \in 1 .. c
    BY Widths DEF c
  <2>2. QED
    BY <1>6, <1>8, <2>1
<1>10. Framed(words, 1) = Framed(frame, 0)
  BY <1>9, OneUp
<1>11. QED
  BY <1>3, <1>10, FrameContext

\* A C function that changes *ctx, the current process or the queue leaves what
\* will be seen next.
LEMMA Leaving ==
  ASSUME Traced, NEW op, op \in {"create", "switch", "scheduler"}, Fetch(op),
         NEW frame, Frame(frame), SetCtx(frame), Then(cpu), Balanced', UNCHANGED seen,
         NumberedIn(curr_prog', queue', curr_pid'), curr_prog' # 0,
         seen.running # 0 => seen.running \in DOMAIN seen.thread /\ AllSound(seen.thread),
         Serves(seen.running, seen.thread, curr_prog',
                ThreadsOf(curr_prog', queue', ContextOf(frame)))
  PROVE  Traced'
<1> SUFFICES ASSUME NEW a, a = cpu.pc, NEW b, b = a + 1  PROVE Traced'
  OBVIOUS
<1>1. /\ RegistersInPlace /\ Runs(a) /\ Keeps(a) /\ executed \in Sessions
      /\ LocatedAs(a, op, Operand) /\ MarkedAs(a, op, Operand) /\ cpu.cpsr \notin UserStatuses
  BY Handling
<1>2. /\ InFrame(b) /\ Served(b) /\ ~Booting(b) /\ ~Ahead(b)
  BY <1>1 DEF MarkedAs
<1>3. Level(a, b) /\ Height(a) = CtxWords + 1
  BY <1>1 DEF LocatedAs, Row
<1>4. Framed(stk'[ModeAt(a)], 1) = ContextOf(frame)
  BY <1>1, <1>3, ContextWritten
<1>5. Mine(b)' = ContextOf(frame)
  BY <1>2, <1>3, <1>4, Widths DEF Mine, InFrame, Level, Along
<1>6. Now(b)' = ThreadsOf(curr_prog', queue', ContextOf(frame))
  BY <1>2, <1>5 DEF Now, Resumed
<1>7. cpu'.pc = b /\ cpu'.cpsr = cpu.cpsr /\ UNCHANGED executed
  BY <1>1 DEF Then, SetCtx, SetStack, RegistersInPlace, IsMap, Fields
<1>8. Leaves(b)'
  <2>1. AllSound(seen.thread)' <=> AllSound(seen.thread)
    BY <1>7 DEF AllSound, Sound
  <2>2. Serves(seen.running, seen.thread, curr_prog, Now(b))'
    BY <1>6
  <2>3. QED
    BY <2>1, <2>2 DEF Leaves
<1>9. ~InProgram' /\ Numbered' /\ executed' \in Sessions
  BY <1>1, <1>7 DEF InProgram, Numbered
<1>10. QED
  BY <1>2, <1>7, <1>8, <1>9 DEF Traced, Traces

\* What it finds.
LEMMA Finding ==
  ASSUME Traced, NEW op, op \in {"switch", "scheduler"}, Fetch(op), NEW a, a = cpu.pc
  PROVE  LET c == ContextOf(ctx)
             r == curr_prog IN
         /\ Balanced /\ FramesWait /\ Frame(ctx) /\ IsContext(c)
         /\ seen = [running |-> r, thread |-> ThreadsOf(r, queue, Resumed(a, c))]
         /\ r # 0 /\ AllSound(seen.thread) /\ r \in DOMAIN seen.thread
         /\ seen.thread[r] = Resumed(a, c) /\ Sound(Resumed(a, c)) /\ Resumed(a, c).sp = r - 1
         /\ NumberedIn(r, queue, curr_pid) /\ DOMAIN seen.thread = PidsOf(r, queue)
         /\ op = "scheduler" => Resumed(a, c) = c
         /\ op = "switch" =>
              /\ c.pc \in Int /\ Resumed(a, c) = [c EXCEPT !.pc = c.pc - 1]
              /\ c.pc - 1 \in DOMAIN SvcAt /\ cpu.gpr[2] = SvcAt[c.pc - 1]
<1> DEFINE c == ContextOf(ctx)
           r == curr_prog
<1>1. /\ Balanced /\ Runs(a) /\ Keeps(a) /\ Numbered /\ FramesWait /\ Traces(a)
      /\ LocatedAs(a, op, Operand) /\ MarkedAs(a, op, Operand)
  BY Handling DEF Balanced
<1>2. /\ InFrame(a) /\ ~Served(a) /\ ~Booting(a)
      /\ (op = "switch" <=> Called(a)) /\ (op = "switch" <=> Ahead(a))
  BY <1>1 DEF MarkedAs
<1>3. Row(a, CtxWords + 1, "second")
  BY <1>1 DEF LocatedAs
<1>4. Frame(ctx) /\ IsContext(c) /\ Mine(a) = c
  BY <1>1, <1>2, <1>3, ContextRead, FrameContext, Widths DEF Mine, InFrame, Row
<1>5. Finds(a)
  BY <1>1, <1>2 DEF Traces
<1>6. Called(a) => Calls(a)
  BY DEF Called, Calls
<1> HIDE DEF c
<1>7. /\ seen = [running |-> r, thread |-> ThreadsOf(r, queue, Resumed(a, c))]
      /\ r # 0 /\ AllSound(ThreadsOf(r, queue, Resumed(a, c)))
  BY <1>4, <1>5 DEF Finds, Seen, Now
<1>8. /\ DOMAIN seen.thread = PidsOf(r, queue) /\ seen.thread[r] = Resumed(a, c)
  BY <1>1, <1>7, Members DEF Numbered, IsMap
<1>9. r \in PidsOf(r, queue)
  BY DEF PidsOf
<1>10. Sound(Resumed(a, c)) /\ Resumed(a, c).sp = r - 1
  BY <1>7, <1>8, <1>9 DEF AllSound
<1>11. op = "switch" =>
         /\ c.pc \in Int /\ Resumed(a, c) = [c EXCEPT !.pc = c.pc - 1]
         /\ c.pc - 1 \in DOMAIN SvcAt /\ cpu.gpr[2] = SvcAt[c.pc - 1]
  BY <1>2, <1>4, <1>5, <1>6 DEF Finds, Resumed
<1>12. op = "scheduler" => Resumed(a, c) = c
  BY <1>2 DEF Resumed
<1>13. QED
  BY <1>1, <1>4, <1>7, <1>8, <1>9, <1>10, <1>11, <1>12 DEF Numbered, c

LEMMA ProcessContext == ContextOf(create_process(1, main_console)) = FirstThread
<1> DEFINE zeros == [i \in 1 .. Gprs |-> 0]
           low   == PushTwo(80, main_console, zeros)
           high  == <<1 - 1, 0>>
           f     == create_process(1, main_console)
<1>1. CtxWords = 8 /\ GprWords = 6 /\ Gprs = 4
  BY DEF CtxWords, GprWords, Gprs
<1>2. IsMap(zeros, 1 .. Gprs) /\ IsMap(high, 1 .. 2) /\ high[1] = 0 /\ high[2] = 0
      /\ \A k \in 1 .. Gprs : zeros[k] = 0
  BY DEF IsMap
<1>3. f = Join(low, high) /\ ContextOf(f) = Framed(f, 0)
  BY ProcessFrame, FrameContext DEF create_process, PushTwo, Join
<1> HIDE DEF zeros, high, f
<1>4. IsMap(low, 1 .. Gprs + 2) /\ low[1] = 80 /\ low[2] = main_console /\ \A k \in 1 .. Gprs : low[2 + k] = 0
  <2>1. Gprs \in Nat
    BY Widths
  <2>2. IsMap(low, 1 .. Gprs + 2) /\ low[1] = 80
    BY <1>2, <2>1, PushedTwo
  <2>3. low[2] = main_console /\ \A k \in 1 .. Gprs : low[2 + k] = zeros[k]
    BY <1>2, <2>1, BelowTwo
  <2> HIDE DEF low
  <2>4. QED
    BY <1>2, <2>2, <2>3
<1> HIDE DEF low
<1>5. /\ \A k \in 1 .. 6 : f[k] = low[k]
      /\ \A k \in 1 .. 2 : f[6 + k] = high[k]
  <2> DEFINE m == 6
             n == 2
  <2>1. m \in Nat /\ n \in Nat /\ IsMap(low, 1 .. m) /\ IsMap(high, 1 .. n)
    BY <1>1, <1>2, <1>4
  <2> HIDE DEF m, n
  <2>2. /\ \A k \in 1 .. m : Join(low, high)[k] = low[k]
        /\ \A k \in 1 .. n : Join(low, high)[m + k] = high[k]
    BY <2>1, Joined
  <2>3. QED
    BY <1>3, <2>2 DEF m, n
<1>6. f[1] = 80 /\ f[2] = main_console /\ f[7] = 0 /\ f[8] = 0
  <2>1. 1 \in 1 .. 2 /\ 2 \in 1 .. 2 /\ 1 \in 1 .. 6 /\ 2 \in 1 .. 6 /\ 6 + 1 = 7 /\ 6 + 2 = 8
    OBVIOUS
  <2>2. QED
    BY <1>2, <1>4, <1>5, <2>1
<1>7. \A k \in 1 .. 4 : f[2 + k] = 0
  <2> SUFFICES ASSUME NEW k \in 1 .. 4  PROVE f[2 + k] = 0
    OBVIOUS
  <2>1. 2 + k \in 1 .. 6
    OBVIOUS
  <2>2. QED
    BY <1>1, <1>4, <1>5, <2>1
<1>8. Words(f, 0 + 2) = [i \in 1 .. Gprs |-> 0]
  BY <1>1, <1>7 DEF Words
<1>9. 0 + Gprs + 3 = 7 /\ 0 + Gprs + 4 = 8 /\ 0 + 2 = 2 /\ 0 + 1 = 1 /\ FlagsOf(80) = 0
  BY <1>1 DEF FlagsOf, Carry
<1>10. QED
  BY <1>3, <1>6, <1>8, <1>9 DEF Framed, FirstThread, f

LEMMA create_Traced == Traced /\ create => Traced'
<1> SUFFICES ASSUME Traced, create, NEW a, a = cpu.pc  PROVE Traced'
  OBVIOUS
<1> DEFINE frame == create_process(1, main_console)
<1>1. Balanced /\ MarkedAs(a, "create", Operand) /\ Traces(a)
  BY Handling DEF create
<1>2. seen.running = 0 /\ curr_pid = 1
  BY <1>1 DEF MarkedAs, Traces, Starting
<1>3. /\ Fetch("create") /\ SetCtx(frame) /\ Then(cpu) /\ UNCHANGED seen
      /\ queue' = <<>> /\ curr_prog' = 1 /\ curr_pid' = 2
  BY <1>2 DEF create
<1>4. Frame(frame) /\ ContextOf(frame) = FirstThread
  BY ProcessFrame, ProcessContext
<1> HIDE DEF frame
<1>5. ThreadsOf(1, <<>>, FirstThread) = [p \in {1} |-> FirstThread]
  <2>1. PidsOf(1, <<>>) = {1}
    BY DEF PidsOf
  <2>2. QED
    BY <2>1 DEF ThreadsOf
<1>6. Serves(seen.running, seen.thread, curr_prog', ThreadsOf(curr_prog', queue', ContextOf(frame)))
  BY <1>2, <1>3, <1>4, <1>5 DEF Serves, Boots
<1>7. NumberedIn(curr_prog', queue', curr_pid')
  BY <1>3 DEF NumberedIn
<1>8. Balanced'
  BY <1>1, create_Balanced
<1>9. QED
  BY <1>2, <1>3, <1>4, <1>6, <1>7, <1>8, Leaving

\* A frame with another word.
LEMMA WordChanged ==
  ASSUME NEW f, Frame(f), NEW v
  PROVE  LET c == ContextOf(f) IN
         /\ Frame([f EXCEPT ![2] = v]) /\ ContextOf([f EXCEPT ![2] = v]) = [c EXCEPT !.pc = v]
         /\ Frame([f EXCEPT ![3] = v]) /\ ContextOf([f EXCEPT ![3] = v]) = [c EXCEPT !.gpr[1] = v]
         /\ Frame([f EXCEPT ![Gprs + 3] = v])
         /\ ContextOf([f EXCEPT ![Gprs + 3] = v]) = [c EXCEPT !.sp = v]
         /\ c.pc = f[2] /\ c.gpr[1] = f[3] /\ c.gpr[3] = f[5] /\ c.sp = f[Gprs + 3]
<1> DEFINE c == ContextOf(f)
           Changed(g, i) == IsMap(g, 1 .. 8) /\ g[i] = v /\ \A j \in 1 .. 8 \ {i} : g[j] = f[j]
<1>1. CtxWords = 8 /\ Gprs = 4 /\ IsMap(f, 1 .. 8) /\ Gprs + 3 = 7
  BY DEF CtxWords, GprWords, Gprs, Frame
<1>2. ASSUME NEW i \in {2, 3, 7}
      PROVE  Frame([f EXCEPT ![i] = v]) /\ Changed([f EXCEPT ![i] = v], i)
  <2>1. Frame([f EXCEPT ![i] = v])
    BY FrameKept
  <2>2. QED
    BY <1>1, <2>1 DEF IsMap, Frame
<1>3. ASSUME NEW g, Frame(g)
      PROVE  /\ ContextOf(g) = [pc |-> g[2], gpr |-> Words(g, 2), sp |-> g[7], lr |-> g[8],
                                 flags |-> FlagsOf(g[1])]
             /\ Words(g, 2) = [k \in 1 .. 4 |-> g[2 + k]]
  <2>1. ContextOf(g) = Framed(g, 0)
    BY <1>3, FrameContext
  <2>2. 0 + Gprs + 3 = 7 /\ 0 + Gprs + 4 = 8 /\ 0 + 2 = 2 /\ 0 + 1 = 1
    BY <1>1
  <2>3. QED
    BY <1>1, <2>1, <2>2 DEF Framed, Words
<1>4. c.pc = f[2] /\ c.gpr[1] = f[3] /\ c.gpr[3] = f[5] /\ c.sp = f[7]
  <2>1. 1 \in 1 .. 4 /\ 3 \in 1 .. 4 /\ 2 + 1 = 3 /\ 2 + 3 = 5
    OBVIOUS
  <2>2. QED
    BY <1>3, <2>1
<1>5. ASSUME NEW g, Frame(g), Changed(g, 2)  PROVE ContextOf(g) = [c EXCEPT !.pc = v]
  <2>1. \A k \in 1 .. 4 : 2 + k \in 1 .. 8 \ {2}
    OBVIOUS
  <2>2. Words(g, 2) = Words(f, 2)
    BY <1>3, <1>5, <2>1
  <2>3. g[7] = f[7] /\ g[8] = f[8] /\ g[2] = v /\ g[1] = f[1]
    BY <1>5
  <2>4. QED
    BY <1>3, <1>5, <2>2, <2>3
<1>6. ASSUME NEW g, Frame(g), Changed(g, 7)  PROVE ContextOf(g) = [c EXCEPT !.sp = v]
  <2>1. \A k \in 1 .. 4 : 2 + k \in 1 .. 8 \ {7}
    OBVIOUS
  <2>2. Words(g, 2) = Words(f, 2)
    BY <1>3, <1>6, <2>1
  <2>3. g[7] = v /\ g[8] = f[8] /\ g[2] = f[2] /\ g[1] = f[1]
    BY <1>6
  <2>4. QED
    BY <1>3, <1>6, <2>2, <2>3
<1>7. ASSUME NEW g, Frame(g), Changed(g, 3)  PROVE ContextOf(g) = [c EXCEPT !.gpr[1] = v]
  <2>1. \A k \in 1 .. 4 : (k = 1 /\ 2 + k = 3) \/ (k # 1 /\ 2 + k \in 1 .. 8 \ {3})
    OBVIOUS
  <2>2. \A k \in 1 .. 4 : g[2 + k] = IF k = 1 THEN v ELSE f[2 + k]
    BY <1>7, <2>1
  <2>3. Words(g, 2) = [Words(f, 2) EXCEPT ![1] = v]
    BY <1>3, <1>7, <2>2
  <2>4. g[7] = f[7] /\ g[8] = f[8] /\ g[2] = f[2] /\ g[1] = f[1]
    BY <1>7
  <2>5. QED
    BY <1>3, <1>7, <2>3, <2>4
<1> HIDE DEF c, Changed
<1>8. QED
  BY <1>1, <1>2, <1>4, <1>5, <1>6, <1>7 DEF c

\* A call changes some registers of the current process and nothing else.
LEMMA Serving ==
  ASSUME Traced, NEW a, a = cpu.pc, Fetch("switch"), NEW frame, Frame(frame), SetCtx(frame), Then(cpu),
         Balanced', UNCHANGED <<seen, curr_prog, queue, curr_pid>>,
         NEW d, ContextOf(frame) = d,
         LET r == curr_prog
             t == seen.thread IN
         \/ Writes(r, t, r, [t EXCEPT ![r] = d]) \/ Execs(r, t, r, [t EXCEPT ![r] = d])
  PROVE  Traced'
<1> DEFINE r == curr_prog
           c == Resumed(a, ContextOf(ctx))
           t == seen.thread
<1>1. /\ seen = [running |-> r, thread |-> ThreadsOf(r, queue, c)]
      /\ r # 0 /\ AllSound(t) /\ r \in DOMAIN t /\ NumberedIn(r, queue, curr_pid)
  BY Finding
<1> HIDE DEF c
<1>2. ThreadsOf(r, queue, d) = [ThreadsOf(r, queue, c) EXCEPT ![r] = d]
  BY OneChanges
<1>3. ThreadsOf(curr_prog', queue', ContextOf(frame)) = [t EXCEPT ![r] = d]
  BY <1>1, <1>2
<1>4. Serves(seen.running, t, curr_prog', ThreadsOf(curr_prog', queue', ContextOf(frame)))
  BY <1>1, <1>3 DEF Serves
<1>5. NumberedIn(curr_prog', queue', curr_pid') /\ curr_prog' # 0
  BY <1>1
<1>6. seen.running # 0 => seen.running \in DOMAIN seen.thread /\ AllSound(seen.thread)
  BY <1>1
<1>7. QED
  BY <1>4, <1>5, <1>6, Leaving

LEMMA svc_write_Traced == Traced /\ svc_write => Traced'
<1> SUFFICES ASSUME Traced, svc_write, NEW a, a = cpu.pc  PROVE Traced'
  OBVIOUS
<1> DEFINE r == curr_prog
           c == ContextOf(ctx)
           b == [c EXCEPT !.pc = c.pc - 1]
           frame == [ctx EXCEPT ![3] = ctx[5]]
           d == [c EXCEPT !.gpr[1] = c.gpr[3]]
<1>1. /\ Fetch("switch") /\ SetCtx(frame) /\ Then(cpu) /\ cpu.gpr[2] = SYS_WRITE
      /\ UNCHANGED <<seen, curr_prog, queue, curr_pid>>
  BY DEF svc_write, Switch, kernel
<1>2. /\ Balanced /\ Frame(ctx) /\ IsContext(c) /\ c.pc \in Int /\ seen.thread[r] = b
      /\ c.pc - 1 \in DOMAIN SvcAt /\ cpu.gpr[2] = SvcAt[c.pc - 1]
  BY <1>1, Finding
<1>3. c.gpr[3] = ctx[5] /\ Frame(frame) /\ ContextOf(frame) = [c EXCEPT !.gpr[1] = ctx[5]]
  BY <1>2, WordChanged, ZenonT(40)
<1> HIDE DEF c, frame
<1>4. ContextOf(frame) = d
  BY <1>3
<1>5. b.pc = c.pc - 1 /\ b.gpr = c.gpr /\ b.pc + 1 = c.pc
  BY <1>2 DEF IsContext, IsMap
<1>6. Result(b, b.gpr[3]) = d
  BY <1>2, <1>5 DEF Result, Set, IsContext, IsMap
<1> HIDE DEF b, d
<1>7. Writes(r, seen.thread, r, [seen.thread EXCEPT ![r] = d])
  BY <1>1, <1>2, <1>5, <1>6 DEF Writes, Calling
<1>8. Balanced'
  BY <1>2, svc_write_Balanced
<1>9. QED
  BY <1>1, <1>3, <1>4, <1>7, <1>8, Serving

LEMMA svc_exec_Traced == Traced /\ svc_exec => Traced'
<1> SUFFICES ASSUME Traced, svc_exec, NEW a, a = cpu.pc  PROVE Traced'
  OBVIOUS
<1> DEFINE r == curr_prog
           c == ContextOf(ctx)
           b == [c EXCEPT !.pc = c.pc - 1]
           begun == [ctx EXCEPT ![2] = ctx[3]]
           frame == [begun EXCEPT ![Gprs + 3] = r - 1]
           d == [c EXCEPT !.pc = c.gpr[1]]
<1>1. /\ Fetch("switch") /\ SetCtx(frame) /\ Then(cpu) /\ cpu.gpr[2] = SYS_EXEC
      /\ UNCHANGED <<seen, curr_prog, queue, curr_pid>>
  BY DEF svc_exec, Switch, kernel
<1>2. /\ Balanced /\ Frame(ctx) /\ IsContext(c) /\ c.pc \in Int /\ seen.thread[r] = b
      /\ c.pc - 1 \in DOMAIN SvcAt /\ cpu.gpr[2] = SvcAt[c.pc - 1] /\ b.sp = r - 1
  BY <1>1, Finding
<1>3. c.gpr[1] = ctx[3] /\ Frame(begun) /\ ContextOf(begun) = [c EXCEPT !.pc = ctx[3]]
  BY <1>2, WordChanged, ZenonT(40)
<1> HIDE DEF begun
<1>4. Frame(frame) /\ ContextOf(frame) = [ContextOf(begun) EXCEPT !.sp = r - 1]
  BY <1>3, WordChanged, ZenonT(40)
<1> HIDE DEF c, frame
<1>5. b.pc = c.pc - 1 /\ b.gpr = c.gpr /\ c.sp = r - 1
  BY <1>2 DEF IsContext, IsMap
<1>6. ContextOf(frame) = d
  BY <1>2, <1>3, <1>4, <1>5 DEF IsContext, IsMap
<1>7. [b EXCEPT !.pc = b.gpr[1]] = d
  BY <1>2, <1>5 DEF IsContext, IsMap
<1> HIDE DEF b, d
<1>8. Execs(r, seen.thread, r, [seen.thread EXCEPT ![r] = d])
  BY <1>1, <1>2, <1>5, <1>7 DEF Execs, Calling
<1>9. Balanced'
  BY <1>2, svc_exec_Balanced
<1>10. QED
  BY <1>1, <1>4, <1>6, <1>8, <1>9, Serving

\* The parent gets the pid of the child, which has the same registers but for the
\* result and the stack.
LEMMA svc_fork_Traced == Traced /\ svc_fork => Traced'
<1> SUFFICES ASSUME Traced, svc_fork, NEW a, a = cpu.pc  PROVE Traced'
  OBVIOUS
<1> DEFINE r == curr_prog
           n == curr_pid
           t == seen.thread
           c == ContextOf(ctx)
           b == [c EXCEPT !.pc = c.pc - 1]
           frame == [ctx EXCEPT ![3] = n]
           zero == [ctx EXCEPT ![3] = 0]
           child == [zero EXCEPT ![Gprs + 3] = ctx[Gprs + 3] + n - r]
           waiter == [pid |-> n, frame |-> child]
           d == Result(b, n)
           e == [Result(b, 0) EXCEPT !.sp = @ + n - r]
<1>1. /\ Fetch("switch") /\ SetCtx(frame) /\ Then(cpu) /\ cpu.gpr[2] = SYS_FORK
      /\ UNCHANGED <<seen, curr_prog>> /\ curr_pid' = n + 1
      /\ queue' = Append(queue, waiter)
  BY DEF svc_fork, Switch
<1>2. /\ Balanced /\ FramesWait /\ Frame(ctx) /\ IsContext(c) /\ c.pc \in Int
      /\ seen = [running |-> r, thread |-> ThreadsOf(r, queue, b)]
      /\ r # 0 /\ AllSound(t) /\ r \in DOMAIN t /\ t[r] = b
      /\ NumberedIn(r, queue, n) /\ DOMAIN t = PidsOf(r, queue)
      /\ c.pc - 1 \in DOMAIN SvcAt /\ cpu.gpr[2] = SvcAt[c.pc - 1]
  BY <1>1, Finding
<1>3. Frame(frame) /\ ContextOf(frame) = [c EXCEPT !.gpr[1] = n]
  BY <1>2, WordChanged, ZenonT(40)
<1>4. Frame(zero) /\ ContextOf(zero) = [c EXCEPT !.gpr[1] = 0] /\ c.sp = ctx[Gprs + 3]
  BY <1>2, WordChanged, ZenonT(40)
<1> HIDE DEF zero
<1>5. ContextOf(child) = [ContextOf(zero) EXCEPT !.sp = ctx[Gprs + 3] + n - r]
  BY <1>4, WordChanged, ZenonT(40)
<1> HIDE DEF c, frame, child
<1>6. b.pc = c.pc - 1 /\ b.gpr = c.gpr /\ b.sp = c.sp /\ b.pc + 1 = c.pc
  BY <1>2 DEF IsContext, IsMap
<1>7. ContextOf(frame) = d /\ ContextOf(child) = e
  <2>1. \A v : [c EXCEPT !.gpr[1] = v] = Result(b, v)
    BY <1>2, <1>6, ZenonT(40) DEF Result, Set, IsContext, IsMap
  <2>2. Result(b, 0).sp = c.sp
    BY <1>2, <1>6 DEF Result, Set, IsContext, IsMap
  <2>3. QED
    BY <1>3, <1>4, <1>5, <2>1, <2>2, ZenonT(40)
<1> HIDE DEF b, d, e
<1>8. waiter.pid = n /\ ContextOf(waiter.frame) = e
  BY <1>7
<1> HIDE DEF waiter
<1>9. /\ n \in Nat /\ n # 0 /\ n + 1 \in Nat /\ n <= n + 1 /\ n \in 1 .. n + 1 - 1 /\ n \notin PidsOf(r, queue)
  BY <1>2 DEF NumberedIn, PidsOf
<1>10. IsSequence(queue)
  BY <1>2 DEF FramesWait, WaitIn
<1>11. /\ NumberedIn(r, queue', n + 1)
       /\ ThreadsOf(r, queue', d) = With(ThreadsOf(r, queue, d), n, e)
  BY <1>1, <1>2, <1>8, <1>9, <1>10, OneMore
<1>12. ThreadsOf(r, queue, d) = [t EXCEPT ![r] = d]
  BY <1>2, OneChanges
<1>13. With([t EXCEPT ![r] = d], n, e) =
         [p \in DOMAIN t \cup {n} |-> CASE p = n -> e [] p = r -> d [] OTHER -> t[p]]
  <2>1. n # r /\ DOMAIN [t EXCEPT ![r] = d] = DOMAIN t
    BY <1>2, <1>9
  <2>2. QED
    BY <1>2, <2>1 DEF With
<1>14. Forks(r, t, r, ThreadsOf(r, queue', d))
  <2>1. Calling(t[r], SYS_FORK)
    BY <1>1, <1>2, <1>6 DEF Calling
  <2>2. n \in (Nat \ {0}) \ DOMAIN t
    BY <1>2, <1>9
  <2>3. ThreadsOf(r, queue', d) =
          [p \in DOMAIN t \cup {n} |->
             CASE p = n -> [Result(t[r], 0) EXCEPT !.sp = @ + n - r]
               [] p = r -> Result(t[r], n)
               [] OTHER -> t[p]]
    BY <1>2, <1>11, <1>12, <1>13 DEF d, e
  <2>4. QED
    BY <2>1, <2>2, <2>3 DEF Forks
<1>15. Serves(seen.running, t, curr_prog', ThreadsOf(curr_prog', queue', ContextOf(frame)))
  BY <1>1, <1>2, <1>7, <1>14 DEF Serves
<1>16. Balanced'
  BY <1>2, svc_fork_Balanced
<1>17. NumberedIn(curr_prog', queue', curr_pid') /\ curr_prog' # 0
  BY <1>1, <1>2, <1>11
<1>18. seen.running # 0 => seen.running \in DOMAIN seen.thread /\ AllSound(seen.thread)
  BY <1>2
<1>19. QED
  BY <1>1, <1>3, <1>15, <1>16, <1>17, <1>18, Leaving

\* The first of the queue goes on, and all others wait as before.
LEMMA svc_exit_Traced == Traced /\ svc_exit => Traced'
<1> SUFFICES ASSUME Traced, svc_exit, NEW a, a = cpu.pc  PROVE Traced'
  OBVIOUS
<1> DEFINE r == curr_prog
           n == curr_pid
           t == seen.thread
           c == ContextOf(ctx)
           b == [c EXCEPT !.pc = c.pc - 1]
           first == queue[1]
<1>1. /\ Fetch("switch") /\ SetCtx(first.frame) /\ Then(cpu) /\ cpu.gpr[2] = SYS_EXIT
      /\ UNCHANGED <<seen, curr_pid>> /\ queue # <<>>
      /\ queue' = Tail(queue) /\ curr_prog' = first.pid
  BY DEF svc_exit, Switch, Dispatch
<1>2. /\ Balanced /\ FramesWait /\ IsContext(c) /\ c.pc \in Int
      /\ seen = [running |-> r, thread |-> ThreadsOf(r, queue, b)]
      /\ r # 0 /\ AllSound(t) /\ r \in DOMAIN t /\ t[r] = b
      /\ NumberedIn(r, queue, n)
      /\ c.pc - 1 \in DOMAIN SvcAt /\ cpu.gpr[2] = SvcAt[c.pc - 1]
  BY <1>1, Finding
<1>3. b.pc = c.pc - 1
  BY <1>2 DEF IsContext, IsMap
<1> HIDE DEF b, c
<1>4. IsSequence(queue) /\ Frame(first.frame)
  BY <1>1, <1>2, Dequeued DEF FramesWait, WaitIn
<1>5. /\ NumberedIn(first.pid, Tail(queue), n) /\ first.pid # 0 /\ first.pid \in DOMAIN t \ {r}
      /\ ThreadsOf(first.pid, Tail(queue), ContextOf(first.frame)) = Without(t, r)
  BY <1>1, <1>2, <1>4, FirstRuns
<1>6. Calling(t[r], SYS_EXIT)
  BY <1>1, <1>2, <1>3 DEF Calling
<1> HIDE DEF first
<1>7. Exits(r, t, first.pid, Without(t, r))
  BY <1>5, <1>6 DEF Exits, Without
<1>8. Serves(seen.running, t, curr_prog', ThreadsOf(curr_prog', queue', ContextOf(first.frame)))
  BY <1>1, <1>2, <1>5, <1>7 DEF Serves
<1>9. Balanced'
  BY <1>2, svc_exit_Balanced
<1>10. NumberedIn(curr_prog', queue', curr_pid') /\ curr_prog' # 0
  BY <1>1, <1>5
<1>11. seen.running # 0 => seen.running \in DOMAIN seen.thread /\ AllSound(seen.thread)
  BY <1>2
<1>12. QED
  BY <1>1, <1>4, <1>8, <1>9, <1>10, <1>11, Leaving

LEMMA scheduler_Traced == Traced /\ scheduler => Traced'
<1> SUFFICES ASSUME Traced, scheduler, NEW a, a = cpu.pc  PROVE Traced'
  OBVIOUS
<1> DEFINE r == curr_prog
           n == curr_pid
           t == seen.thread
           c == ContextOf(ctx)
           me == [pid |-> r, frame |-> ctx]
           first == Saved[1]
<1>1. /\ Fetch("scheduler") /\ SetCtx(first.frame) /\ Then(cpu)
      /\ UNCHANGED <<seen, curr_pid>> /\ Saved # <<>> /\ Saved = Append(queue, me)
      /\ queue' = Tail(Saved) /\ curr_prog' = first.pid
  BY DEF scheduler, Dispatch, Saved
<1>2. /\ Balanced /\ FramesWait /\ Frame(ctx)
      /\ seen = [running |-> r, thread |-> ThreadsOf(r, queue, c)]
      /\ r # 0 /\ AllSound(t) /\ r \in DOMAIN t /\ NumberedIn(r, queue, n)
  BY <1>1, Finding
<1>3. me.pid = r /\ ContextOf(me.frame) = c /\ Frame(me.frame)
  BY <1>2
<1> HIDE DEF c, me
<1>4. IsSequence(queue) /\ WaitIn(queue)
  BY <1>2 DEF FramesWait, WaitIn
<1>5. Frame(first.frame)
  BY <1>1, <1>3, <1>4, Enqueued, Dequeued
<1>6. /\ NumberedIn(first.pid, Tail(Saved), n) /\ first.pid # 0 /\ first.pid \in DOMAIN t
      /\ ThreadsOf(first.pid, Tail(Saved), ContextOf(first.frame)) = t
  BY <1>1, <1>2, <1>3, <1>4, Rotates
<1> HIDE DEF first
<1>7. Switches(r, t, first.pid, t)
  BY <1>6 DEF Switches
<1>8. Serves(seen.running, t, curr_prog', ThreadsOf(curr_prog', queue', ContextOf(first.frame)))
  BY <1>1, <1>2, <1>6, <1>7 DEF Serves
<1>9. Balanced'
  BY <1>2, scheduler_Balanced
<1>10. NumberedIn(curr_prog', queue', curr_pid') /\ curr_prog' # 0
  BY <1>1, <1>6
<1>11. seen.running # 0 => seen.running \in DOMAIN seen.thread /\ AllSound(seen.thread)
  BY <1>2
<1>12. QED
  BY <1>1, <1>5, <1>8, <1>9, <1>10, <1>11, Leaving

\* Back in the program, everyone sees what the kernel has done.
LEMMA movs_pc_Traced ==
  ASSUME Traced, movs_pc
  PROVE  /\ Traced' /\ T!Next
         /\ Serves(seen.running, seen.thread, seen'.running, seen'.thread)
         /\ seen.running # 0 => seen.running \in DOMAIN seen.thread /\ AllSound(seen.thread)
<1> SUFFICES ASSUME NEW a, a = cpu.pc, NEW m, m = ModeAt(a)
             PROVE  /\ Traced' /\ T!Next
                    /\ Serves(seen.running, seen.thread, seen'.running, seen'.thread)
                    /\ seen.running # 0 => seen.running \in DOMAIN seen.thread /\ AllSound(seen.thread)
  OBVIOUS
<1>1. /\ Balanced /\ RegistersInPlace /\ Runs(a) /\ Keeps(a) /\ Numbered /\ executed \in Sessions
      /\ LocatedAs(a, "movs_pc", Operand) /\ MarkedAs(a, "movs_pc", Operand) /\ Traces(a)
      /\ Mode = m /\ m \in Modes
  BY Handling DEF movs_pc
<1>2. Row(a, 0, "spsr") /\ InRegisters(a) /\ Served(a) /\ ~Booting(a) /\ ~Ahead(a)
  BY <1>1 DEF LocatedAs, MarkedAs
<1>3. cpu.spsr[m] \in UserStatuses /\ stk[m] = <<>>
  BY <1>1, <1>2, NoWords DEF Keeps, Row
<1>4. ModeOf(cpu.spsr[Mode]) = USR
  BY <1>1, <1>3, StatusOf
<1>5. /\ cpu'.pc = cpu.lr[m] /\ cpu'.cpsr = cpu.spsr[m] /\ cpu'.gpr = cpu.gpr /\ cpu'.sp = cpu.sp
      /\ cpu'.lr = cpu.lr /\ UNCHANGED <<stk, executed, curr_prog, queue, curr_pid>> /\ See
  BY <1>1, <1>3, <1>4 DEF movs_pc, memory, kernel, RegistersInPlace, IsMap, Fields
<1>6. InProgram'
  BY <1>1, <1>3, <1>5 DEF InProgram, Runs
<1>7. Live' = Mine(a) /\ Resumed(a, Mine(a)) = Mine(a)
  BY <1>2, <1>5 DEF Live, Mine, Regs, Resumed
<1>8. Contexts' = Now(a)
  <2>1. Contexts' = ThreadsOf(curr_prog', queue', Live')
    BY DEF Contexts, ThreadsOf, PidsOf
  <2>2. QED
    BY <1>5, <1>7, <2>1 DEF Now
<1>9. Leaves(a)
  BY <1>1, <1>2 DEF Traces
<1>10. seen' = [running |-> curr_prog, thread |-> Now(a)]
  BY <1>5, <1>8 DEF See
<1>11. AllSound(Now(a))
  BY <1>9, ServesSound DEF Leaves
<1>12. Seen(Contexts)'
  BY <1>5, <1>8, <1>9, <1>10, <1>11 DEF Seen, Leaves, AllSound, Sound
<1>13. Balanced'
  BY <1>1, movs_pc_Balanced
<1>14. Traced'
  BY <1>1, <1>5, <1>6, <1>12, <1>13 DEF Traced, Numbered
<1>15. Serves(seen.running, seen.thread, seen'.running, seen'.thread)
  BY <1>9, <1>10 DEF Leaves
<1>16. T!Next
  BY <1>5, <1>15, ServesStep
<1>17. QED
  BY <1>9, <1>14, <1>15, <1>16 DEF Leaves

(***************************************************************************)
(* The theorem.                                                            *)
(***************************************************************************)
LEMMA StartsTraced == Init => Traced /\ T!Init
<1> SUFFICES ASSUME Init  PROVE Traced /\ T!Init
  OBVIOUS
<1>1. Balanced
  BY StartsBalanced
<1>2. /\ cpu.pc = 1100 /\ cpu.cpsr = 211 /\ executed \in Sessions
      /\ curr_prog = 0 /\ queue = <<>> /\ curr_pid = 1
      /\ seen = [running |-> 0, thread |-> << >>]
  BY DEF Init, lolevel_handler_rst
<1>3. ~InProgram /\ Booting(1100) /\ Starting
  BY <1>2 DEF InProgram, UserStatuses, Statuses, Booting, Starting
<1>4. Numbered
  BY <1>2 DEF Numbered, NumberedIn
<1>5. Traced
  BY <1>1, <1>2, <1>3, <1>4 DEF Traced, Traces
<1>6. T!Init
  BY <1>2 DEF T!Init
<1>7. QED
  BY <1>5, <1>6

LEMMA StaysTraced == Traced /\ [Next]_vars => Traced'
<1> SUFFICES ASSUME Traced, [Next]_vars  PROVE Traced'
  OBVIOUS
<1>1. Balanced'
  BY StaysBalanced DEF Traced
<1>2. CASE UNCHANGED vars
  BY <1>1, <1>2, NothingTraced DEF vars, memory, kernel
<1>3. CASE TimerExpires
  BY <1>1, <1>3, NothingTraced DEF TimerExpires, memory, kernel
<1>4. CASE Instruction
  BY <1>4,
     bl_Traced, mov_pc_lr_Traced, copy_Traced, msr_cpsr_Traced, enable_Traced,
     ldr_sp_Traced, sub_sp_Traced, add_sp_Traced, sub_lr_Traced, stmia_user_Traced,
     ldmia_user_Traced, mrs_spsr_Traced, msr_spsr_Traced, stmdb_sp_Traced,
     ldmia_sp_Traced, ldr_svc_Traced, movs_pc_Traced, push_lr_Traced, pop_pc_Traced,
     create_Traced, configure_Traced, IAR_Traced, IntClr_Traced, EOIR_Traced,
     scheduler_Traced, svc_write_Traced, svc_fork_Traced, svc_exit_Traced,
     svc_exec_Traced, TakeIrq_Traced, TakeSvc_Traced, UserInstruction_Traced, Zenon
     DEF Instruction
<1>5. QED
  BY <1>2, <1>3, <1>4 DEF Next

\* Only the instructions of programs and returns to them are seen.
LEMMA Unseen == [Next]_vars => UNCHANGED <<seen, executed>> \/ movs_pc \/ UserInstruction
<1> SUFFICES ASSUME [Next]_vars, ~movs_pc, ~UserInstruction  PROVE UNCHANGED <<seen, executed>>
  OBVIOUS
<1> USE DEF Registers, Memory, memory, devices, kernel, SetStack, SetCtx
<1>1. CASE UNCHANGED vars
  BY <1>1 DEF vars
<1>2. CASE bl \/ mov_pc_lr \/ copy \/ msr_cpsr \/ enable \/ ldr_sp \/ sub_sp \/ add_sp \/ sub_lr
  BY <1>2 DEF bl, mov_pc_lr, copy, msr_cpsr, enable, ldr_sp, sub_sp, add_sp, sub_lr
<1>3. CASE stmia_user \/ ldmia_user \/ mrs_spsr \/ msr_spsr \/ stmdb_sp \/ ldmia_sp \/ ldr_svc
  BY <1>3 DEF stmia_user, ldmia_user, mrs_spsr, msr_spsr, stmdb_sp, ldmia_sp, ldr_svc
<1>4. CASE push_lr \/ pop_pc \/ create \/ configure \/ IAR \/ IntClr \/ EOIR
  BY <1>4 DEF push_lr, pop_pc, create, configure, IAR, IntClr, EOIR
<1>5. CASE scheduler \/ svc_write \/ svc_fork \/ svc_exit \/ svc_exec
  BY <1>5 DEF scheduler, Dispatch, svc_write, svc_fork, svc_exit, svc_exec
<1>6. CASE TakeIrq \/ TakeSvc \/ TimerExpires
  BY <1>6 DEF TakeIrq, TakeSvc, TimerExpires
<1>7. QED
  BY <1>1, <1>2, <1>3, <1>4, <1>5, <1>6, Zenon DEF Next, Instruction

LEMMA StepsOfThreads == Traced /\ [Next]_vars => [T!Next]_(T!tvars)
<1>1. ASSUME Traced, movs_pc  PROVE T!Next
  BY <1>1, movs_pc_Traced, Zenon
<1>2. ASSUME Traced, UserInstruction  PROVE T!Next
  BY <1>2, UserInstruction_Traced, Zenon
<1>3. QED
  BY <1>1, <1>2, Unseen DEF T!tvars

\* The low level handlers implement Threads: for any commands, and wherever the
\* timer interrupts, a program's registers are changed by its own instructions
\* and by the calls it makes, each served once, and by nothing else.
THEOREM LowLevelImplementsThreads == Spec => ImplementsThreads
<1>1. Init => Traced /\ T!Init
  BY StartsTraced
<1>2. Traced /\ [Next]_vars => Traced'
  BY StaysTraced
<1>3. Traced /\ [Next]_vars => [T!Next]_(T!tvars)
  BY StepsOfThreads
<1>4. QED
  BY <1>1, <1>2, <1>3, PTL DEF Spec, ImplementsThreads, T!Spec

(***************************************************************************)
(* What programs compute.  In the invariant, every thread that has been seen*)
(* is on its way: P3, P4 and P5 have the arguments and the return address of*)
(* a call where they left them, and the function has what the lemmas of    *)
(* LowLevelProofs ask for.                                                 *)
(***************************************************************************)
\* Addresses where nothing is being computed.
Idle(k) ==
  /\ k \in Int
  /\ k \notin main_P3 + 3 .. main_P3 + 10 /\ k \notin main_P4 + 3 .. main_P4 + 12
  /\ k \notin main_P5 + 4 .. main_P5 + 16

\* P3 goes through its range, weight through its stages.
Weighing(c) ==
  LET x == c.gpr[4]  at == c.pc - main_P3 IN
  /\ at \in 3 .. 10 => x \in Nat
  /\ at \in 3 .. 9 \/ (at = 10 /\ c.flags = Lower) => x < WeightHi
  /\ at \in 4 .. 8 => c.lr = main_P3 + 9 /\ c.gpr[1] = stages(x, at - 4)
  /\ at = 9 => c.gpr[1] = Cardinality(Bits(x))

\* gcd goes on with two numbers that have the same divisors.
Dividing(c) ==
  LET x == c.gpr[3]  y == c.gpr[4]  a == c.gpr[1]  b == c.gpr[2]  at == c.pc - main_P4 IN
  /\ at \in 3 .. 12 => x \in Nat \ {0}
  /\ at \in 4 .. 10 => y \in Nat \ {0}
  /\ at \in 5 .. 8 => /\ c.lr = main_P4 + 9 /\ a \in Nat \ {0} /\ b \in Nat \ {0}
                    /\ Alike(a, b, x, y)
  /\ at = 6 => c.flags = Compared(a, b)
  /\ at = 7 => a > b
  /\ at = 8 => a < b
  /\ at = 9 => IsGcd(a, x, y)

\* is_prime has tried all divisors below d, if x is odd and not 1.
Testing(c) ==
  LET x == c.gpr[3]  d == c.gpr[2]  at == c.pc - main_P5 IN
  /\ at \in 4 .. 16 => x \in Nat
  /\ at \in 5 .. 14 => c.lr = main_P5 + 15 /\ c.gpr[1] = x
  /\ at = 6 => c.flags = Compared(x % 2, 0)
  /\ at \in 7 .. 8 => x % 2 # 0
  /\ at \in {8, 10} => c.flags = Compared(x, 2)
  /\ at \in 9 .. 10 => x % 2 = 0 \/ x < 2
  /\ at \in 11 .. 14 => Tried(d, x)
  /\ at = 12 => c.flags = Compared(d * d, x)
  /\ at \in 13 .. 14 => d * d <= x
  /\ at = 14 => c.flags = Compared(x % d, 0)
  /\ at = 15 => (c.gpr[1] = 1 <=> IsPrime(x))

Computing(c) == Weighing(c) /\ Dividing(c) /\ Testing(c)

AllRight(t) == \A p \in DOMAIN t : Computing(t[p])

\* Nothing is to be shown there.
LEMMA IdleComputes == \A c : Idle(c.pc) => Computing(c)
BY DEF Idle, Computing, Weighing, Dividing, Testing, main_P3, main_P4, main_P5

\* At the return of a function, its result is right.
LEMMA ComputesRight == \A c : c.pc \in Int /\ Computing(c) => ResultRight(c)
BY DEF Computing, Weighing, Dividing, Testing, ResultRight, main_P3, main_P4, main_P5

\* The first five contexts of weight.
LEMMA StagesGoOn ==
  /\ \A x : stages(x, 0) = x
  /\ \A x : \A k \in 0 .. 3 : stages(x, k + 1) = weightStage(stages(x, k), k + 1)
BY DEF stages

\* Contexts in one of the three programs.
LEMMA InP3 == \A c : c.pc \in main_P3 .. main_P3 + 99 /\ Weighing(c) => Computing(c)
BY DEF Computing, Dividing, Testing, main_P3, main_P4, main_P5

LEMMA InP4 == \A c : c.pc \in main_P4 .. main_P4 + 99 /\ Dividing(c) => Computing(c)
BY DEF Computing, Weighing, Testing, main_P3, main_P4, main_P5

LEMMA InP5 == \A c : c.pc \in main_P5 .. main_P5 + 99 /\ Testing(c) => Computing(c)
BY DEF Computing, Weighing, Dividing, main_P3, main_P4, main_P5

\* A call, a return and what only goes on.
LEMMA CallTaken ==
  ASSUME NEW c, IsContext(c), NEW v, NEW k
  PROVE  LET d == Call(c, v, k) IN
         /\ IsContext(d) /\ d.pc = c.pc + 1 /\ d.lr = k /\ d.gpr[1] = v
         /\ d.gpr[2] = c.gpr[2] /\ d.gpr[3] = c.gpr[3] /\ d.gpr[4] = c.gpr[4]
<1>1. 1 \in 1 .. Gprs /\ {2, 3, 4} \subseteq 1 .. Gprs
  BY DEF Gprs
<1>2. /\ Call(c, v, k).pc = c.pc + 1 /\ Call(c, v, k).lr = k
      /\ Call(c, v, k).gpr = [c.gpr EXCEPT ![1] = v]
  BY DEF IsContext, IsMap, Call
<1>3. IsContext(Call(c, v, k))
  BY Steps
<1>4. c.gpr = [i \in 1 .. Gprs |-> c.gpr[i]]
  BY DEF IsContext, IsMap
<1> QED
  BY <1>1, <1>2, <1>3, <1>4

LEMMA ReturnTaken ==
  ASSUME NEW c, IsContext(c), NEW v
  PROVE  LET d == Return(c, v) IN
         d.pc = c.lr /\ d.gpr[1] = v /\ d.gpr[3] = c.gpr[3] /\ d.gpr[4] = c.gpr[4]
BY DEF IsContext, IsMap, Return, Gprs

LEMMA GoesTo ==
  ASSUME NEW c, IsContext(c)
  PROVE  WriteArgs(c).pc = c.pc + 1 /\ \A k : Goto(c, k).pc = k
BY DEF IsContext, IsMap, WriteArgs, Goto

\* What the flags say of the numbers compared.
LEMMA FlagsSay ==
  ASSUME NEW a \in Int, NEW b \in Int
  PROVE  /\ Compared(a, b) = Lower <=> a < b
         /\ Compared(a, b) = Equal <=> a = b
         /\ Compared(a, b) = Higher <=> a > b
BY DEF Compared, Lower, Higher, Equal

LEMMA SetCompared ==
  ASSUME NEW c, IsContext(c), NEW i \in 1 .. Gprs, NEW v, NEW w
  PROVE  LET d == SetCompare(c, i, v, w) IN
         /\ d.pc = c.pc + 1 /\ d.flags = Compared(v, w) /\ d.gpr[i] = v
         /\ \A j \in 1 .. Gprs \ {i} : d.gpr[j] = c.gpr[j]
<1> DEFINE e == Compare(c, v, w)
<1>1. IsContext(e) /\ e.pc = c.pc + 1 /\ e.gpr = c.gpr /\ e.flags = Compared(v, w)
  BY ComparedContext
<1> HIDE DEF e
<1>2. LET d == [e EXCEPT !.gpr[i] = v] IN
      /\ d.pc = c.pc + 1 /\ d.flags = Compared(v, w) /\ d.gpr[i] = v
      /\ \A j \in 1 .. Gprs \ {i} : d.gpr[j] = c.gpr[j]
  BY <1>1 DEF IsContext, IsMap
<1>3. QED
  BY <1>2 DEF SetCompare, e

\* A jump that sets a register.
Jump(c, k, i, v) == [Goto(c, k) EXCEPT !.gpr[i] = v]

LEMMA JumpSet ==
  ASSUME NEW c, IsContext(c), NEW i \in 1 .. Gprs, NEW v, NEW k
  PROVE  /\ Jump(c, k, i, v).pc = k /\ Jump(c, k, i, v).lr = c.lr /\ Jump(c, k, i, v).gpr[i] = v
         /\ \A j \in 1 .. Gprs \ {i} : Jump(c, k, i, v).gpr[j] = c.gpr[j]
BY DEF IsContext, IsMap, Goto, Jump

\* The instructions of the programs keep it so.
LEMMA P3Computes ==
  ASSUME NEW c, Sound(c), c.pc \div 100 = 3, Weighing(c)
  PROVE  Computing(P3(c))
<1> SUFFICES ASSUME NEW d, d = P3(c)  PROVE Computing(d)
  OBVIOUS
<1> DEFINE x == c.gpr[4]
           at == c.pc - main_P3
<1>1. IsContext(c) /\ at \in 0 .. 99 /\ c.pc = main_P3 + at
  <2>1. IsContext(c) /\ c.pc \in Int
    BY DEF Sound
  <2> QED
    BY <2>1 DEF main_P3
<1>2. WeightLo \in Nat /\ WeightHi \in Nat /\ WeightLo < WeightHi /\ WeightHi < 2 ^ 30
  BY ProgramsAssumption
<1>3. 1 \in 1 .. Gprs /\ 4 \in 1 .. Gprs /\ 4 \in 1 .. Gprs \ {1} /\ 4 \in 2 .. Gprs
  BY DEF Gprs
<1>4. CASE at = 0
  <2>1. d = WriteArgs(c)
    BY <1>4 DEF P3
  <2>2. d.pc = c.pc + 1
    BY <1>1, <1>3, <2>1, GoesTo
  <2> QED
    BY <1>1, <1>4, <2>2, IdleComputes DEF Idle, main_P3, main_P4, main_P5
<1>5. CASE at = 2
  <2>1. d = Set(c, 4, WeightLo)
    BY <1>5 DEF P3
  <2>2. d.pc = c.pc + 1 /\ d.gpr[4] = WeightLo
    BY <1>1, <1>3, <2>1, RegisterSet
  <2>3. Weighing(d)
    BY <1>1, <1>2, <1>5, <2>2 DEF Weighing, main_P3
  <2> QED
    BY <1>1, <1>5, <2>2, <2>3, InP3 DEF main_P3
<1>6. CASE at = 3
  <2>1. d = Call(c, x, main_P3 + 9)
    BY <1>6 DEF P3
  <2>2. d.pc = c.pc + 1 /\ d.lr = main_P3 + 9 /\ d.gpr[1] = x /\ d.gpr[4] = x
    BY <1>1, <1>3, <2>1, CallTaken
  <2>3. x \in Nat /\ x < WeightHi
    BY <1>6 DEF Weighing
  <2> HIDE DEF x
  <2>4. Weighing(d)
    BY <1>1, <1>6, <2>2, <2>3, StagesGoOn DEF Weighing, main_P3
  <2> QED
    BY <1>1, <1>6, <2>2, <2>4, InP3 DEF main_P3
<1>7. CASE at \in 4 .. 7
  <2>1. d = Set(c, 1, weightStage(c.gpr[1], at - 3))
    BY <1>7 DEF P3
  <2>2. /\ d.pc = c.pc + 1 /\ d.lr = c.lr /\ d.gpr[1] = weightStage(c.gpr[1], at - 3) /\ d.gpr[4] = x
    BY <1>1, <1>3, <2>1, RegisterSet
  <2>3. x \in Nat /\ x < WeightHi /\ c.lr = main_P3 + 9 /\ c.gpr[1] = stages(x, at - 4)
    BY <1>7 DEF Weighing
  <2>4. at - 4 \in 0 .. 3 /\ at - 4 + 1 = at - 3
    BY <1>7
  <2> HIDE DEF x
  <2>5. d.gpr[1] = stages(x, at - 3)
    BY <2>2, <2>3, <2>4, StagesGoOn
  <2>6. Weighing(d)
    BY <1>1, <1>7, <2>2, <2>3, <2>5 DEF Weighing, main_P3
  <2> QED
    BY <1>1, <1>7, <2>2, <2>6, InP3 DEF main_P3
<1>8. CASE at = 8
  <2>1. d = Return(c, weightStage(c.gpr[1], 5))
    BY <1>8 DEF P3
  <2>2. d.pc = c.lr /\ d.gpr[1] = weightStage(c.gpr[1], 5) /\ d.gpr[4] = x
    BY <1>1, <1>3, <2>1, ReturnTaken
  <2>3. x \in Nat /\ x < WeightHi /\ c.lr = main_P3 + 9 /\ c.gpr[1] = stages(x, 4)
    BY <1>8 DEF Weighing
  <2> HIDE DEF x
  <2>4. d.gpr[1] = Cardinality(Bits(x))
    <3>1. x < 2 ^ 30
      BY <1>2, <2>3
    <3> QED
      BY <2>2, <2>3, <3>1, WeightRight
  <2>5. Weighing(d)
    BY <1>2, <2>2, <2>3, <2>4 DEF Weighing, main_P3
  <2> QED
    BY <2>2, <2>3, <2>5, InP3 DEF main_P3
<1>9. CASE at = 9
  <2>1. d = SetCompare(c, 4, x + 1, WeightHi)
    BY <1>9 DEF P3
  <2>2. d.pc = c.pc + 1 /\ d.flags = Compared(x + 1, WeightHi) /\ d.gpr[4] = x + 1
    BY <1>1, <1>3, <2>1, SetCompared
  <2>3. x \in Nat
    BY <1>9 DEF Weighing
  <2> HIDE DEF x
  <2>4. x + 1 \in Nat /\ (d.flags = Lower => x + 1 < WeightHi)
    BY <1>2, <2>2, <2>3, FlagsSay
  <2>5. Weighing(d)
    BY <1>1, <1>9, <2>2, <2>4 DEF Weighing, main_P3
  <2> QED
    BY <1>1, <1>9, <2>2, <2>5, InP3 DEF main_P3
<1>10. CASE at = 10
  <2>1. d = Branch(c, Lower, main_P3 + 3)
    BY <1>10 DEF P3
  <2>2. /\ d.pc = (IF c.flags = Lower THEN main_P3 + 3 ELSE main_P3 + 11) /\ d.gpr = c.gpr
    BY <1>1, <1>10, <2>1, BranchedContext DEF main_P3
  <2>3. CASE c.flags = Lower
    <3>1. x \in Nat /\ x < WeightHi /\ d.gpr[4] = x
      BY <1>10, <2>2, <2>3 DEF Weighing
    <3> HIDE DEF x
    <3>2. Weighing(d)
      BY <2>2, <2>3, <3>1 DEF Weighing, main_P3
    <3> QED
      BY <2>2, <2>3, <3>2, InP3 DEF main_P3
  <2>4. CASE c.flags # Lower
    BY <2>2, <2>4, IdleComputes DEF Idle, main_P3, main_P4, main_P5
  <2> QED
    BY <2>3, <2>4
<1>11. CASE at = 1 \/ at \in 11 .. 99
  <2>1. d = Goto(c, main_P3)
    BY <1>11 DEF P3
  <2>2. d.pc = main_P3
    BY <1>1, <1>3, <2>1, GoesTo
  <2> QED
    BY <2>2, IdleComputes DEF Idle, main_P3, main_P4, main_P5
<1> HIDE DEF x
<1> QED
  BY <1>1, <1>4, <1>5, <1>6, <1>7, <1>8, <1>9, <1>10, <1>11

LEMMA P4Computes ==
  ASSUME NEW c, Sound(c), c.pc \div 100 = 4, Dividing(c)
  PROVE  Computing(P4(c))
<1> SUFFICES ASSUME NEW d, d = P4(c)  PROVE Computing(d)
  OBVIOUS
<1> DEFINE x == c.gpr[3]
           y == c.gpr[4]
           a == c.gpr[1]
           b == c.gpr[2]
           at == c.pc - main_P4
<1>1. IsContext(c) /\ at \in 0 .. 99 /\ c.pc = main_P4 + at
  <2>1. IsContext(c) /\ c.pc \in Int
    BY DEF Sound
  <2> QED
    BY <2>1 DEF main_P4
<1>2. GcdLo \in Nat \ {0}
  BY ProgramsAssumption
<1>3. /\ {1, 2, 3, 4} \subseteq 1 .. Gprs /\ {3, 4} \subseteq 1 .. Gprs \ {1, 2}
      /\ 2 \in 1 .. Gprs \ {1} /\ 1 \in 1 .. Gprs \ {2} /\ 3 \in 1 .. Gprs \ {4}
  BY DEF Gprs
<1>4. CASE at = 0
  <2>1. d = WriteArgs(c)
    BY <1>4 DEF P4
  <2>2. d.pc = c.pc + 1
    BY <1>1, <2>1, GoesTo
  <2> QED
    BY <1>1, <1>4, <2>2, IdleComputes DEF Idle, main_P3, main_P4, main_P5
<1>5. CASE at = 2
  <2>1. d = Set(c, 3, GcdLo)
    BY <1>5 DEF P4
  <2>2. d.pc = c.pc + 1 /\ d.gpr[3] = GcdLo
    BY <1>1, <1>3, <2>1, RegisterSet
  <2>3. Dividing(d)
    BY <1>1, <1>2, <1>5, <2>2 DEF Dividing, main_P4
  <2> QED
    BY <1>1, <1>5, <2>2, <2>3, InP4 DEF main_P4
<1>6. CASE at = 3
  <2>1. d = Set(c, 4, GcdLo)
    BY <1>6 DEF P4
  <2>2. d.pc = c.pc + 1 /\ d.gpr[4] = GcdLo /\ d.gpr[3] = x
    BY <1>1, <1>3, <2>1, RegisterSet
  <2>3. x \in Nat \ {0}
    BY <1>6 DEF Dividing
  <2> HIDE DEF x
  <2>4. Dividing(d)
    BY <1>1, <1>2, <1>6, <2>2, <2>3 DEF Dividing, main_P4
  <2> QED
    BY <1>1, <1>6, <2>2, <2>4, InP4 DEF main_P4
<1>7. CASE at = 4
  <2> DEFINE e == Call(c, x, main_P4 + 9)
  <2>1. d = [e EXCEPT !.gpr[2] = y]
    BY <1>7 DEF P4
  <2>2. /\ IsContext(e) /\ e.pc = c.pc + 1 /\ e.lr = main_P4 + 9 /\ e.gpr[1] = x
        /\ e.gpr[3] = x /\ e.gpr[4] = y
    BY <1>1, CallTaken
  <2>3. x \in Nat \ {0} /\ y \in Nat \ {0}
    BY <1>7 DEF Dividing
  <2> HIDE DEF e, x, y
  <2>4. /\ d.pc = c.pc + 1 /\ d.lr = main_P4 + 9 /\ d.gpr[1] = x /\ d.gpr[2] = y
        /\ d.gpr[3] = x /\ d.gpr[4] = y
    BY <1>3, <2>1, <2>2, ZenonT(40) DEF IsContext, IsMap
  <2>5. Alike(x, y, x, y)
    BY DEF Alike
  <2>6. Dividing(d)
    BY <1>1, <1>7, <2>3, <2>4, <2>5 DEF Dividing, main_P4
  <2> QED
    BY <1>1, <1>7, <2>4, <2>6, InP4 DEF main_P4
<1>8. CASE at \in 5 .. 8
  <2>1. /\ c.lr = main_P4 + 9 /\ a \in Nat \ {0} /\ b \in Nat \ {0} /\ Alike(a, b, x, y)
        /\ x \in Nat \ {0} /\ y \in Nat \ {0}
    BY <1>8 DEF Dividing
  <2>2. CASE at = 5
    <3>1. d = Compare(c, a, b)
      BY <2>2 DEF P4
    <3>2. d.pc = main_P4 + 6 /\ d.lr = c.lr /\ d.gpr = c.gpr /\ d.flags = Compared(a, b)
      BY <1>1, <2>2, <3>1, ComparedContext DEF main_P4
    <3>3. Dividing(d)
      BY <2>1, <3>2 DEF Dividing, main_P4
    <3> QED
      BY <3>2, <3>3, InP4 DEF main_P4
  <2>3. CASE at = 6 /\ c.flags = Equal
    <3>1. d = Return(c, a)
      BY <2>3 DEF P4
    <3>2. d.pc = c.lr /\ d.gpr[1] = a /\ d.gpr[3] = x /\ d.gpr[4] = y
      BY <1>1, <3>1, ReturnTaken
    <3>3. c.flags = Compared(a, b)
      BY <2>3 DEF Dividing
    <3> HIDE DEF a, b, x, y
    <3>4. a = b
      BY <2>1, <2>3, <3>3, FlagsSay
    <3>5. IsGcd(a, x, y)
      BY <2>1, <3>4, GcdRight
    <3>6. Dividing(d)
      BY <2>1, <3>2, <3>5 DEF Dividing, main_P4
    <3> QED
      BY <2>1, <3>2, <3>6, InP4 DEF main_P4
  <2>4. CASE at = 6 /\ c.flags # Equal
    <3>1. d = Branch(c, Lower, main_P4 + 8)
      BY <2>4 DEF P4
    <3>2. /\ d.pc = (IF c.flags = Lower THEN main_P4 + 8 ELSE main_P4 + 7)
          /\ d.lr = c.lr /\ d.gpr = c.gpr
      BY <1>1, <2>4, <3>1, BranchedContext DEF main_P4
    <3>3. c.flags = Compared(a, b)
      BY <2>4 DEF Dividing
    <3>4. d.gpr[1] = a /\ d.gpr[2] = b /\ d.gpr[3] = x /\ d.gpr[4] = y
      BY <3>2
    <3> HIDE DEF a, b, x, y
    <3>5. IF c.flags = Lower THEN a < b ELSE a > b
      BY <2>1, <2>4, <3>3, FlagsSay
    <3>6. Dividing(d)
      BY <2>1, <3>2, <3>4, <3>5 DEF Dividing, main_P4
    <3> QED
      BY <3>2, <3>6, InP4 DEF main_P4
  <2>5. CASE at = 7
    <3>1. d = Jump(c, main_P4 + 5, 1, a - b)
      BY <2>5 DEF P4, Jump
    <3>2. /\ d.pc = main_P4 + 5 /\ d.lr = c.lr /\ d.gpr[1] = a - b /\ d.gpr[2] = b
          /\ d.gpr[3] = x /\ d.gpr[4] = y
      BY <1>1, <1>3, <3>1, JumpSet
    <3>3. a > b
      BY <2>5 DEF Dividing
    <3> HIDE DEF a, b, x, y
    <3>4. a - b \in Nat \ {0} /\ Alike(a - b, b, x, y)
      BY <2>1, <3>3, GcdStep
    <3>5. Dividing(d)
      BY <2>1, <3>2, <3>4 DEF Dividing, main_P4
    <3> QED
      BY <3>2, <3>5, InP4 DEF main_P4
  <2>6. CASE at = 8
    <3>1. d = Jump(c, main_P4 + 5, 2, b - a)
      BY <2>6 DEF P4, Jump
    <3>2. /\ d.pc = main_P4 + 5 /\ d.lr = c.lr /\ d.gpr[1] = a /\ d.gpr[2] = b - a
          /\ d.gpr[3] = x /\ d.gpr[4] = y
      BY <1>1, <1>3, <3>1, JumpSet
    <3>3. a < b
      BY <2>6 DEF Dividing
    <3> HIDE DEF a, b, x, y
    <3>4. b - a \in Nat \ {0} /\ Alike(a, b - a, x, y)
      BY <2>1, <3>3, GcdStep
    <3>5. Dividing(d)
      BY <2>1, <3>2, <3>4 DEF Dividing, main_P4
    <3> QED
      BY <3>2, <3>5, InP4 DEF main_P4
  <2> HIDE DEF a, b, x, y
  <2> QED
    BY <1>8, <2>2, <2>3, <2>4, <2>5, <2>6
<1>9. CASE at = 9
  <2>1. d = SetCompare(c, 4, y + 1, GcdHi)
    BY <1>9 DEF P4
  <2>2. d.pc = main_P4 + 10 /\ d.gpr[4] = y + 1 /\ d.gpr[3] = x
    BY <1>1, <1>3, <1>9, <2>1, SetCompared DEF main_P4
  <2>3. x \in Nat \ {0} /\ y \in Nat \ {0}
    BY <1>9 DEF Dividing
  <2> HIDE DEF x, y
  <2>4. Dividing(d)
    BY <2>2, <2>3 DEF Dividing, main_P4
  <2> QED
    BY <2>2, <2>4, InP4 DEF main_P4
<1>10. CASE at = 11
  <2>1. d = SetCompare(c, 3, x + 1, GcdHi)
    BY <1>10 DEF P4
  <2>2. d.pc = main_P4 + 12 /\ d.gpr[3] = x + 1
    BY <1>1, <1>3, <1>10, <2>1, SetCompared DEF main_P4
  <2>3. x \in Nat \ {0}
    BY <1>10 DEF Dividing
  <2> HIDE DEF x, y
  <2>4. Dividing(d)
    BY <2>2, <2>3 DEF Dividing, main_P4
  <2> QED
    BY <2>2, <2>4, InP4 DEF main_P4
<1>11. CASE at \in {10, 12}
  <2>1. PICK k \in {main_P4 + 3, main_P4 + 4} :
          d = Branch(c, Lower, k) /\ (k = main_P4 + 4 => at = 10)
    BY <1>11 DEF P4, main_P4
  <2>2. d.pc \in {k, c.pc + 1} /\ d.gpr = c.gpr
    BY <1>1, <2>1, BranchedContext
  <2>3. x \in Nat \ {0} /\ (at = 10 => y \in Nat \ {0}) /\ d.gpr[3] = x /\ d.gpr[4] = y
    BY <1>11, <2>2 DEF Dividing
  <2> HIDE DEF x, y
  <2>4. Dividing(d)
    BY <1>1, <1>11, <2>1, <2>2, <2>3 DEF Dividing, main_P4
  <2> QED
    BY <1>1, <1>11, <2>1, <2>2, <2>4, InP4 DEF main_P4
<1>12. CASE at = 1 \/ at \in 13 .. 99
  <2>1. d = Goto(c, main_P4)
    BY <1>12 DEF P4
  <2>2. d.pc = main_P4
    BY <1>1, <2>1, GoesTo
  <2> QED
    BY <2>2, IdleComputes DEF Idle, main_P3, main_P4, main_P5
<1> HIDE DEF x, y
<1> QED
  BY <1>1, <1>4, <1>5, <1>6, <1>7, <1>8, <1>9, <1>10, <1>11, <1>12

LEMMA PrimeComputes ==
  ASSUME NEW c, IsContext(c), NEW at \in 5 .. 14, c.pc = main_P5 + at, Testing(c)
  PROVE  Computing(is_prime(c, at))
<1> SUFFICES ASSUME NEW e, e = is_prime(c, at)  PROVE Computing(e)
  OBVIOUS
<1> DEFINE x == c.gpr[3]
           d == c.gpr[2]
           Stays == e.lr = c.lr /\ e.gpr[1] = x /\ e.gpr[3] = x
<1>1. c.pc - main_P5 = at /\ {1, 3} \subseteq 1 .. Gprs \ {2} /\ 2 \in 1 .. Gprs
  BY DEF main_P5, Gprs
<1>2. x \in Nat /\ c.lr = main_P5 + 15 /\ c.gpr[1] = x
  BY <1>1 DEF Testing
<1>3. ASSUME NEW v, e = Return(c, v), v = 1 <=> IsPrime(x)  PROVE Computing(e)
  <2>1. e.pc = main_P5 + 15 /\ e.gpr[1] = v /\ e.gpr[3] = x
    BY <1>2, <1>3, ReturnTaken
  <2>2. Testing(e)
    BY <1>2, <1>3, <2>1 DEF Testing, main_P5
  <2> QED
    BY <2>1, <2>2, InP5 DEF main_P5
<1>4. ASSUME NEW v, NEW w, e = Compare(c, v, w)
      PROVE  e.pc = c.pc + 1 /\ e.flags = Compared(v, w) /\ e.gpr[2] = d /\ Stays
  BY <1>2, <1>4, ComparedContext
<1>5. ASSUME NEW k, e = Goto(c, k)  PROVE e.pc = k /\ e.gpr[2] = d /\ Stays
  BY <1>2, <1>5 DEF Goto, IsContext, IsMap
<1>6. ASSUME NEW k, NEW v, e = Jump(c, k, 2, v)
      PROVE  e.pc = k /\ e.gpr[2] = v /\ Stays
  BY <1>1, <1>2, <1>6, JumpSet
<1>7. CASE at \in {5, 7, 9}
  <2>1. PICK v \in {x % 2, x} : e = Compare(c, v, IF at = 5 THEN 0 ELSE 2) /\ v = (IF at = 5 THEN x % 2 ELSE x)
    BY <1>2, <1>7 DEF is_prime
  <2>2. /\ e.pc = c.pc + 1 /\ Stays
        /\ at = 5 => e.flags = Compared(x % 2, 0)
        /\ at # 5 => e.flags = Compared(x, 2)
    BY <1>4, <2>1
  <2>3. (at = 7 => x % 2 # 0) /\ (at = 9 => x % 2 = 0 \/ x < 2)
    BY <1>1 DEF Testing
  <2> HIDE DEF x
  <2>4. Testing(e)
    BY <1>2, <1>7, <2>2, <2>3 DEF Testing, main_P5
  <2> QED
    BY <1>7, <2>2, <2>4, InP5 DEF main_P5
<1>8. CASE at = 6
  <2>1. e = Goto(c, IF c.flags = Equal THEN main_P5 + 9 ELSE main_P5 + 7)
    BY <1>8 DEF is_prime, Branch, main_P5
  <2>2. e.pc = (IF c.flags = Equal THEN main_P5 + 9 ELSE main_P5 + 7) /\ Stays
    BY <1>5, <2>1
  <2>3. c.flags = Compared(x % 2, 0)
    BY <1>1, <1>8 DEF Testing
  <2> HIDE DEF x
  <2>4. c.flags = Equal <=> x % 2 = 0
    BY <1>2, <2>3, FlagsSay
  <2>5. Testing(e)
    BY <1>2, <2>2, <2>4 DEF Testing, main_P5
  <2> QED
    BY <2>2, <2>5, InP5 DEF main_P5
<1>9. CASE at = 8
  <2>1. c.flags = Compared(x, 2) /\ x % 2 # 0
    BY <1>1, <1>9 DEF Testing
  <2>2. c.flags = Lower <=> x < 2
    BY <1>2, <2>1, FlagsSay
  <2>3. CASE c.flags = Lower
    <3>1. e = Goto(c, main_P5 + 9)
      BY <1>9, <2>3 DEF is_prime
    <3>2. e.pc = main_P5 + 9 /\ Stays
      BY <1>5, <3>1
    <3> HIDE DEF x
    <3>3. Testing(e)
      BY <1>2, <2>2, <2>3, <3>2 DEF Testing, main_P5
    <3> QED
      BY <3>2, <3>3, InP5 DEF main_P5
  <2>4. CASE c.flags # Lower
    <3>1. e = Jump(c, main_P5 + 11, 2, 3)
      BY <1>9, <2>4 DEF is_prime, Jump
    <3>2. e.pc = main_P5 + 11 /\ e.gpr[2] = 3 /\ Stays
      BY <1>6, <3>1
    <3> HIDE DEF x
    <3>3. Tried(3, x)
      BY <1>2, <2>1, <2>2, <2>4, PrimeStarts
    <3>4. Testing(e)
      BY <1>2, <3>2, <3>3 DEF Testing, main_P5
    <3> QED
      BY <3>2, <3>4, InP5 DEF main_P5
  <2> QED
    BY <2>3, <2>4
<1>10. CASE at = 10
  <2>1. e = Return(c, IF c.flags = Equal THEN 1 ELSE 0)
    BY <1>10 DEF is_prime
  <2>2. x % 2 = 0 \/ x < 2
    BY <1>1, <1>10 DEF Testing
  <2>3. c.flags = Compared(x, 2)
    BY <1>1, <1>10 DEF Testing
  <2> HIDE DEF x
  <2>4. c.flags = Equal <=> x = 2
    BY <1>2, <2>3, FlagsSay
  <2>5. (IF c.flags = Equal THEN 1 ELSE 0) = 1 <=> (IF x = 2 THEN 1 ELSE 0) = 1
    BY <2>4
  <2>6. (IF c.flags = Equal THEN 1 ELSE 0) = 1 <=> IsPrime(x)
    BY <1>2, <2>2, <2>5, PrimeStarts
  <2> QED
    BY <1>3, <2>1, <2>6
<1>11. CASE at \in 11 .. 14
  <2>1. Tried(d, x)
    BY <1>1, <1>11 DEF Testing
  <2>2. d \in Nat /\ d * d \in Nat /\ x % d \in Nat
    BY <2>1 DEF Tried
  <2>3. /\ d * d > x => IsPrime(x)
        /\ d * d <= x /\ x % d = 0 => ~IsPrime(x)
        /\ x % d # 0 => Tried(d + 2, x)
    <3> HIDE DEF x, d
    <3> QED
      BY <2>1, PrimeStep
  <2>4. CASE at = 11
    <3>1. e = Compare(c, d * d, x)
      BY <1>2, <2>4 DEF is_prime
    <3>2. e.pc = main_P5 + 12 /\ e.flags = Compared(d * d, x) /\ e.gpr[2] = d /\ Stays
      BY <1>4, <2>4, <3>1 DEF main_P5
    <3> HIDE DEF x, d
    <3>3. Testing(e)
      BY <1>2, <2>1, <3>2 DEF Testing, main_P5
    <3> QED
      BY <3>2, <3>3, InP5 DEF main_P5
  <2>5. CASE at = 12
    <3>1. c.flags = Compared(d * d, x)
      BY <1>1, <2>5 DEF Testing
    <3>2. c.flags = Higher <=> d * d > x
      BY <1>2, <2>2, <3>1, FlagsSay
    <3>3. CASE c.flags = Higher
      <4>1. e = Return(c, 1)
        BY <2>5, <3>3 DEF is_prime
      <4> QED
        BY <1>3, <2>3, <3>2, <3>3, <4>1
    <3>4. CASE c.flags # Higher
      <4>1. e = Goto(c, main_P5 + 13)
        BY <2>5, <3>4 DEF is_prime
      <4>2. e.pc = main_P5 + 13 /\ e.gpr[2] = d /\ Stays
        BY <1>5, <4>1
      <4>3. d * d <= x
        BY <1>2, <2>2, <3>2, <3>4
      <4> HIDE DEF x, d
      <4>4. Testing(e)
        BY <1>2, <2>1, <4>2, <4>3 DEF Testing, main_P5
      <4> QED
        BY <4>2, <4>4, InP5 DEF main_P5
    <3> QED
      BY <3>3, <3>4
  <2>6. CASE at = 13
    <3>1. e = Compare(c, x % d, 0) /\ d * d <= x
      BY <1>1, <1>2, <2>6 DEF is_prime, Testing
    <3>2. e.pc = main_P5 + 14 /\ e.flags = Compared(x % d, 0) /\ e.gpr[2] = d /\ Stays
      BY <1>4, <2>6, <3>1 DEF main_P5
    <3> HIDE DEF x, d
    <3>3. Testing(e)
      BY <1>2, <2>1, <3>1, <3>2 DEF Testing, main_P5
    <3> QED
      BY <3>2, <3>3, InP5 DEF main_P5
  <2>7. CASE at = 14
    <3>1. c.flags = Compared(x % d, 0) /\ d * d <= x
      BY <1>1, <2>7 DEF Testing
    <3>2. c.flags = Equal <=> x % d = 0
      BY <2>2, <3>1, FlagsSay
    <3>3. CASE c.flags = Equal
      <4>1. e = Return(c, 0)
        BY <2>7, <3>3 DEF is_prime
      <4> QED
        BY <1>3, <2>3, <3>1, <3>2, <3>3, <4>1
    <3>4. CASE c.flags # Equal
      <4>1. e = Jump(c, main_P5 + 11, 2, d + 2)
        BY <2>7, <3>4 DEF is_prime, Jump
      <4>2. e.pc = main_P5 + 11 /\ e.gpr[2] = d + 2 /\ Stays
        BY <1>6, <4>1
      <4>3. Tried(d + 2, x)
        BY <2>3, <3>2, <3>4
      <4> HIDE DEF x, d
      <4>4. Testing(e)
        BY <1>2, <4>2, <4>3 DEF Testing, main_P5
      <4> QED
        BY <4>2, <4>4, InP5 DEF main_P5
    <3> QED
      BY <3>3, <3>4
  <2> HIDE DEF x, d
  <2> QED
    BY <1>11, <2>4, <2>5, <2>6, <2>7
<1> HIDE DEF x, d
<1> QED
  BY <1>7, <1>8, <1>9, <1>10, <1>11

LEMMA P5Computes ==
  ASSUME NEW c, Sound(c), c.pc \div 100 = 5, Testing(c)
  PROVE  Computing(P5(c))
<1> SUFFICES ASSUME NEW d, d = P5(c)  PROVE Computing(d)
  OBVIOUS
<1> DEFINE i == c.gpr[4]
           x == c.gpr[3]
           at == c.pc - main_P5
<1>1. IsContext(c) /\ at \in 0 .. 99 /\ c.pc = main_P5 + at
  <2>1. IsContext(c) /\ c.pc \in Int
    BY DEF Sound
  <2> QED
    BY <2>1 DEF main_P5
<1>2. PrimeLo \in Nat
  BY ProgramsAssumption
<1>3. {1, 2, 3, 4} \subseteq 1 .. Gprs /\ {1, 3} \subseteq 1 .. Gprs \ {2}
  BY DEF Gprs
<1>4. CASE at \in {0, 1, 17, 18}
  <2>1. \/ d = Set(c, 4, 0) /\ at = 0
        \/ d = WriteArgs(c) /\ at = 1
        \/ d = SetCompare(c, 4, i + 1, Rounds) /\ at = 17
        \/ (d = Goto(c, main_P5 + 1) \/ d = Set(c, 1, 0)) /\ at = 18
    BY <1>4 DEF P5
  <2>2. d.pc \in {c.pc + 1, main_P5 + 1}
    <3>1. CASE d = SetCompare(c, 4, i + 1, Rounds)
      BY <1>1, <1>3, <3>1, SetCompared
    <3>2. CASE d = WriteArgs(c) \/ d = Goto(c, main_P5 + 1)
      BY <1>1, <3>2, GoesTo
    <3>3. CASE d = Set(c, 4, 0) \/ d = Set(c, 1, 0)
      BY <1>1, <1>3, <3>3, RegisterSet
    <3> QED
      BY <2>1, <3>1, <3>2, <3>3
  <2> QED
    BY <1>1, <1>4, <2>2, IdleComputes DEF Idle, main_P3, main_P4, main_P5
<1>5. CASE at = 3
  <2>1. d = Set(c, 3, PrimeLo)
    BY <1>5 DEF P5
  <2>2. d.pc = c.pc + 1 /\ d.gpr[3] = PrimeLo
    BY <1>1, <1>3, <2>1, RegisterSet
  <2>3. Testing(d)
    BY <1>1, <1>2, <1>5, <2>2 DEF Testing, main_P5
  <2> QED
    BY <1>1, <1>5, <2>2, <2>3, InP5 DEF main_P5
<1>6. CASE at = 4
  <2>1. d = Call(c, x, main_P5 + 15)
    BY <1>6 DEF P5
  <2>2. d.pc = c.pc + 1 /\ d.lr = main_P5 + 15 /\ d.gpr[1] = x /\ d.gpr[3] = x
    BY <1>1, <2>1, CallTaken
  <2>3. x \in Nat
    BY <1>6 DEF Testing
  <2> HIDE DEF x
  <2>4. Testing(d)
    BY <1>1, <1>6, <2>2, <2>3 DEF Testing, main_P5
  <2> QED
    BY <1>1, <1>6, <2>2, <2>4, InP5 DEF main_P5
<1>7. CASE at \in 5 .. 14
  BY <1>1, <1>7, PrimeComputes DEF P5
<1>8. CASE at = 15
  <2>1. d = SetCompare(c, 3, x + 1, PrimeHi)
    BY <1>8 DEF P5
  <2>2. d.pc = main_P5 + 16 /\ d.gpr[3] = x + 1
    BY <1>1, <1>3, <1>8, <2>1, SetCompared DEF main_P5
  <2>3. x \in Nat
    BY <1>8 DEF Testing
  <2> HIDE DEF x
  <2>4. Testing(d)
    BY <2>2, <2>3 DEF Testing, main_P5
  <2> QED
    BY <2>2, <2>4, InP5 DEF main_P5
<1>9. CASE at = 16
  <2>1. d = Branch(c, Lower, main_P5 + 4)
    BY <1>9 DEF P5
  <2>2. d.pc \in {main_P5 + 4, main_P5 + 17} /\ d.gpr = c.gpr
    BY <1>1, <1>9, <2>1, BranchedContext DEF main_P5
  <2>3. x \in Nat /\ d.gpr[3] = x
    BY <1>9, <2>2 DEF Testing
  <2> HIDE DEF x
  <2>4. Testing(d)
    BY <2>2, <2>3 DEF Testing, main_P5
  <2> QED
    BY <2>2, <2>4, InP5 DEF main_P5
<1>10. CASE at = 2 \/ at \in 19 .. 99
  <2>1. d = c
    BY <1>10 DEF P5
  <2> QED
    BY <1>1, <2>1, InP5 DEF main_P5
<1> HIDE DEF x, i
<1> QED
  BY <1>1, <1>4, <1>5, <1>6, <1>7, <1>8, <1>9, <1>10

LEMMA Commanded ==
  ASSUME NEW c, Sound(c), c.pc \div 100 \notin 1 .. 5
  PROVE  Computing(Commands(c))
<1> SUFFICES ASSUME NEW d, d = Commands(c)  PROVE Computing(d)
  OBVIOUS
<1> DEFINE at == c.pc - main_console
<1>1. IsContext(c) /\ c.pc \in Int /\ 1 \in 1 .. Gprs /\ 4 \in 1 .. Gprs
  BY DEF Sound, Gprs
<1>2. \/ d = c
      \/ at \in {0, 7} /\ (d = Set(c, 4, 1) \/ d = Set(c, 1, executed[c.gpr[4]]))
      \/ at \in {2, 4} /\ (\E v, w : d = Compare(c, v, w))
      \/ at = 3 /\ d = Branch(c, Equal, main_console + 7)
      \/ d = Goto(c, main_console + 6)
      \/ d = Jump(c, main_console + 1, 4, c.gpr[4] + 1)
  BY DEF Commands, Jump
<1>3. d.pc \in {c.pc} \cup main_console + 1 .. main_console + 8
  <2>1. CASE at \in {0, 7} /\ (d = Set(c, 4, 1) \/ d = Set(c, 1, executed[c.gpr[4]]))
    <3>1. d.pc = c.pc + 1
      BY <1>1, <2>1, RegisterSet
    <3> QED
      BY <1>1, <2>1, <3>1 DEF main_console
  <2>2. CASE at \in {2, 4} /\ \E v, w : d = Compare(c, v, w)
    <3>1. d.pc = c.pc + 1
      BY <1>1, <2>2, ComparedContext
    <3> QED
      BY <1>1, <2>2, <3>1 DEF main_console
  <2>3. CASE at = 3 /\ d = Branch(c, Equal, main_console + 7)
    <3>1. d.pc \in {c.pc + 1, main_console + 7}
      BY <1>1, <2>3, BranchedContext
    <3> QED
      BY <1>1, <2>3, <3>1 DEF main_console
  <2>4. CASE d = Goto(c, main_console + 6)
    BY <1>1, <2>4, GoesTo DEF main_console
  <2>5. CASE d = Jump(c, main_console + 1, 4, c.gpr[4] + 1)
    BY <1>1, <2>5, JumpSet DEF main_console
  <2> QED
    BY <1>2, <2>1, <2>2, <2>3, <2>4, <2>5
<1>4. Idle(c.pc) /\ \A k \in 1 .. 8 : Idle(main_console + k)
  BY <1>1 DEF Idle, main_console, main_P3, main_P4, main_P5
<1>5. Idle(d.pc)
  BY <1>1, <1>3, <1>4 DEF main_console
<1> QED
  BY <1>5, IdleComputes

\* Every instruction of a program.
LEMMA AfterComputes ==
  ASSUME NEW c, Sound(c), Computing(c)
  PROVE  Computing(After(c))
<1> DEFINE n == c.pc \div 100
<1>1. n \in Int /\ c.pc \in Int /\ IsContext(c)
  BY DEF Sound
<1>2. CASE n \in {1, 2}
  <2>1. PICK m \in {main_P1, main_P2} : After(c) = P1orP2(c, m)
    BY <1>2 DEF After
  <2>2. After(c).pc \in {m, m + 1}
    <3>1. After(c) = Goto(c, m) \/ (c.pc = m /\ After(c) = WriteArgs(c))
      BY <2>1 DEF P1orP2
    <3> QED
      BY <1>1, <3>1, GoesTo
  <2>3. Idle(After(c).pc)
    BY <2>2 DEF Idle, main_P1, main_P2, main_P3, main_P4, main_P5
  <2> QED
    BY <2>3, IdleComputes
<1>3. CASE n = 3
  BY <1>3, P3Computes DEF After, Computing
<1>4. CASE n = 4
  BY <1>4, P4Computes DEF After, Computing
<1>5. CASE n = 5
  BY <1>5, P5Computes DEF After, Computing
<1>6. CASE n \notin 1 .. 5
  <2>1. After(c) = Commands(c)
    BY <1>1, <1>6 DEF After
  <2> QED
    BY <1>6, <2>1, Commanded
<1> QED
  BY <1>1, <1>2, <1>3, <1>4, <1>5, <1>6

\* Calls are not made in the middle of a computation.
LEMMA SvcsIdle ==
  \A a \in DOMAIN SvcAt : SvcAt[a] \in {SYS_WRITE, SYS_FORK} => Idle(a + 1)
<1> DEFINE Writing == {101, 201, 301, 401, 502}
<1>1. /\ DOMAIN SvcAt = Writing \cup {519, 601, 608}
      /\ SvcAt[519] = 4 /\ SvcAt[601] = 3 /\ SvcAt[608] = 5
  BY DEF SvcAt, main_P1, main_P2, main_P3, main_P4, main_P5, main_console, SYS_WRITE, SYS_FORK,
     SYS_EXIT, SYS_EXEC
<1> QED
  BY <1>1 DEF Idle, main_P3, main_P4, main_P5, SYS_WRITE, SYS_FORK

\* What a call returns to computes nothing.
LEMMA CallsIdle ==
  ASSUME NEW c, Sound(c)
  PROVE  /\ Calling(c, SYS_WRITE) \/ Calling(c, SYS_FORK) => \A v : Idle(Result(c, v).pc)
         /\ Calling(c, SYS_EXEC) => Idle([c EXCEPT !.pc = c.gpr[1]].pc)
<1>1. IsContext(c)
  BY DEF Sound
<1>2. ASSUME Calling(c, SYS_WRITE) \/ Calling(c, SYS_FORK), NEW v  PROVE Idle(Result(c, v).pc)
  <2>1. Idle(c.pc + 1)
    BY <1>2, SvcsIdle DEF Calling
  <2>2. Result(c, v).pc = c.pc + 1
    BY <1>1, ResultContext
  <2> QED
    BY <2>1, <2>2
<1>3. ASSUME Calling(c, SYS_EXEC)  PROVE Idle([c EXCEPT !.pc = c.gpr[1]].pc)
  <2>1. c.gpr[1] \in Starts
    BY <1>3, Svcs DEF Sound, Calling, main_console
  <2>2. [c EXCEPT !.pc = c.gpr[1]].pc = c.gpr[1]
    BY <1>1 DEF IsContext, IsMap
  <2> QED
    BY <2>1, <2>2 DEF Idle, Starts, main_P1, main_P2, main_P3, main_P4, main_P5
<1> QED
  BY <1>2, <1>3

\* What the kernel serves computes nothing, and leaves others alone.
LEMMA ServesRight ==
  ASSUME NEW r, NEW t, NEW r2, NEW t2, Serves(r, t, r2, t2),
         r # 0 => r \in DOMAIN t /\ AllSound(t), AllRight(t)
  PROVE  AllRight(t2)
<1> DEFINE c == t[r]
<1>1. CASE Boots(r, t, r2, t2)
  <2>1. FirstThread.pc = main_console
    BY DEF FirstThread
  <2>2. Computing(FirstThread)
    BY <2>1, IdleComputes DEF Idle, main_console, main_P3, main_P4, main_P5
  <2> QED
    BY <1>1, <2>2 DEF Boots, AllRight
<1>2. r # 0 => IsContext(c) /\ Sound(c) /\ r \in DOMAIN t
  BY DEF AllSound, Sound
<1>3. CASE r # 0 /\ (Writes(r, t, r2, t2) \/ Execs(r, t, r2, t2))
  <2>1. PICK d : Idle(d.pc) /\ t2 = [t EXCEPT ![r] = d]
    BY <1>2, <1>3, CallsIdle DEF Writes, Execs
  <2> QED
    BY <2>1, IdleComputes DEF AllRight
<1>4. CASE r # 0 /\ Forks(r, t, r2, t2)
  <2>1. PICK child \in (Nat \ {0}) \ DOMAIN t :
          t2 = [p \in DOMAIN t \cup {child} |->
                  CASE p = child -> [Result(c, 0) EXCEPT !.sp = @ + child - r]
                    [] p = r -> Result(c, child)
                    [] OTHER -> t[p]]
    BY <1>4 DEF Forks
  <2> DEFINE b == Result(c, 0)
             d == [b EXCEPT !.sp = b.sp + child - r]
             e == Result(c, child)
  <2>2. Idle(b.pc) /\ Idle(e.pc)
    BY <1>2, <1>4, CallsIdle DEF Forks
  <2>3. d.pc = b.pc
    BY <1>2, ResultContext DEF IsContext, IsMap
  <2>4. t2 = [p \in DOMAIN t \cup {child} |-> CASE p = child -> d [] p = r -> e [] OTHER -> t[p]]
    BY <2>1
  <2> HIDE DEF b, d, e
  <2>5. Computing(d) /\ Computing(e)
    BY <2>2, <2>3, IdleComputes
  <2>6. ASSUME NEW p \in DOMAIN t2  PROVE t2[p] = d \/ t2[p] = e \/ (p \in DOMAIN t /\ t2[p] = t[p])
    BY <2>4
  <2> QED
    BY <2>5, <2>6 DEF AllRight
<1>5. CASE r # 0 /\ (Exits(r, t, r2, t2) \/ Switches(r, t, r2, t2))
  BY <1>5 DEF Exits, Switches, AllRight
<1> QED
  BY <1>1, <1>3, <1>4, <1>5 DEF Serves
(***************************************************************************)
(* The invariant.                                                          *)
(***************************************************************************)
RightlyTraced == Traced /\ AllRight(seen.thread)

\* What has been seen goes on as its programs do.
LEMMA StaysRight == RightlyTraced /\ [Next]_vars => RightlyTraced'
<1> SUFFICES ASSUME RightlyTraced, [Next]_vars  PROVE RightlyTraced'
  OBVIOUS
<1> DEFINE r == seen.running
           t == seen.thread
<1>1. Traced /\ AllRight(t) /\ Traced'
  BY StaysTraced DEF RightlyTraced
<1>2. AllRight(seen'.thread)
  <2>1. CASE UNCHANGED <<seen, executed>>
    BY <1>1, <2>1
  <2>2. CASE movs_pc
    <3>1. Serves(r, t, seen'.running, seen'.thread) /\ (r # 0 => r \in DOMAIN t /\ AllSound(t))
      BY <1>1, <2>2, movs_pc_Traced, Zenon
    <3> QED
      BY <1>1, <3>1, ServesRight
  <2>3. CASE UserInstruction
    <3>1. r \in DOMAIN t /\ Sound(t[r]) /\ seen'.thread = [t EXCEPT ![r] = After(t[r])]
      BY <1>1, <2>3, UserInstruction_Traced, Zenon
    <3>2. Computing(After(t[r]))
      BY <1>1, <3>1, AfterComputes DEF AllRight
    <3> QED
      BY <1>1, <3>1, <3>2 DEF AllRight
  <2> QED
    BY <2>1, <2>2, <2>3, Unseen, Zenon
<1>3. AllRight(seen.thread)'
  BY <1>2 DEF AllRight, Computing, Weighing, Dividing, Testing
<1> QED
  BY <1>1, <1>3 DEF RightlyTraced

\* Whoever executes or waits is a thread that computes rightly.
LEMMA RightlyTracedResults == RightlyTraced => ResultsRight
<1> SUFFICES ASSUME RightlyTraced, NEW a, a = cpu.pc  PROVE ResultsRight
  OBVIOUS
<1>1. Balanced /\ Numbered /\ Traced /\ AllRight(seen.thread)
  BY DEF RightlyTraced, Traced
<1>2. ASSUME NEW c, NEW t, t = ThreadsOf(curr_prog, queue, c), AllRight(t), AllSound(t)
      PROVE  \A i \in DOMAIN queue : ResultRight(ContextOf(queue[i].frame))
  <2>1. DOMAIN t = PidsOf(curr_prog, queue) /\ \A i \in DOMAIN queue : t[queue[i].pid] = ContextOf(queue[i].frame)
    BY <1>1, <1>2, Members DEF Numbered, IsMap
  <2>2. \A i \in DOMAIN queue : queue[i].pid \in DOMAIN t
    BY <2>1 DEF PidsOf
  <2> QED
    BY <1>2, <2>1, <2>2, ComputesRight DEF AllRight, AllSound, Sound
<1>3. CASE InProgram
  <2>1. /\ Contexts = ThreadsOf(curr_prog, queue, Live) /\ seen.thread = Contexts /\ AllSound(Contexts)
        /\ curr_prog \in DOMAIN Contexts /\ Contexts[curr_prog] = Live
    BY <1>1, <1>3, Executing
  <2>2. ResultRight(Live)
    BY <1>1, <2>1, ComputesRight DEF AllRight, AllSound, Sound
  <2> QED
    BY <1>1, <1>2, <2>1, <2>2 DEF ResultsRight
<1>4. CASE ~InProgram
  <2>1. ~User /\ Traces(a)
    BY <1>1, <1>4, InUserMode DEF Traced
  <2>2. CASE Booting(a)
    <3>1. curr_pid = 1
      BY <2>1, <2>2 DEF Traces, Starting
    <3>2. \A i \in DOMAIN queue : FALSE
      BY <1>1, <3>1 DEF Numbered, NumberedIn
    <3> QED
      BY <2>1, <3>2 DEF ResultsRight
  <2>3. CASE ~Booting(a) /\ Served(a)
    <3>1. Leaves(a)
      BY <2>1, <2>3 DEF Traces
    <3>2. AllRight(Now(a)) /\ AllSound(Now(a))
      BY <1>1, <3>1, ServesRight, ServesSound DEF Leaves
    <3> QED
      BY <1>2, <2>1, <3>2 DEF ResultsRight, Now
  <2>4. CASE ~Booting(a) /\ ~Served(a)
    <3>1. seen.thread = Now(a) /\ AllSound(Now(a))
      BY <2>1, <2>4 DEF Traces, Finds, Seen
    <3> QED
      BY <1>1, <1>2, <2>1, <3>1 DEF ResultsRight, Now
  <2> QED
    BY <2>2, <2>3, <2>4
<1> QED
  BY <1>3, <1>4

\* For any ranges and commands, and wherever the timer interrupts: each return of
\* weight, gcd and is_prime has the Hamming weight, the greatest common divisor or
\* the primality of the arguments the loop around the call still has.
THEOREM ResultsAreRight == Spec => []ResultsRight
<1>1. Init => RightlyTraced
  <2>1. ASSUME Init  PROVE AllRight(seen.thread)
    BY <2>1 DEF Init, AllRight
  <2> QED
    BY <2>1, StartsTraced DEF RightlyTraced
<1>2. RightlyTraced /\ [Next]_vars => RightlyTraced'
  BY StaysRight
<1>3. RightlyTraced => ResultsRight
  BY RightlyTracedResults
<1> QED
  BY <1>1, <1>2, <1>3, PTL DEF Spec
=============================================================================
