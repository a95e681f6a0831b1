--------------------------- MODULE LowLevelProofs ---------------------------
(***************************************************************************)
(* Proofs about LowLevel: the stacks of the processor's modes are          *)
(* balanced, for every program that runs in user mode as After says, every *)
(* ending of a process and every instruction the timer interrupts.         *)
(*                                                                         *)
(* The inductive invariant is a table over the instructions of the         *)
(* handlers: how high the stack of the mode is before each, where the      *)
(* status of the user who is to be returned to lies at that time (spsr, r0 *)
(* or the stack), and where the return address of the C function does.     *)
(* The end has lemmas about what the functions of the programs compute.    *)
(***************************************************************************)
EXTENDS LowLevel, SequenceTheorems, FiniteSetTheorems, NaturalsInduction, WellFoundedInduction,
        TLAPS

(***************************************************************************)
(* The table.                                                              *)
(***************************************************************************)
\* The instructions of the handlers.
Site ==
  1000 .. 1001 \cup 1100 .. 1111 \cup 1200 .. 1204 \cup 1300 .. 1301
    \cup 2000 .. 2011 \cup 2100 .. 2102 \cup 3000 .. 3010 \cup 3100 .. 3105

\* The mode they are executed in, and whether only a reset reaches them.
ModeAt(a) == IF a \in 1000 .. 1103 \/ a \in 2000 .. 2102 THEN SVC ELSE IRQ
Early(a)  == a < 2000

\* How many words the stack has: none, the registers of the user, all of the frame,
\* or the frame with the return address of a C function below it.
Height(a) ==
  IF a \in 1108 .. 1110 \cup 2002 .. 2004 \cup 2008 .. 2010 \cup 3002 .. 3004 \cup 3007 .. 3009
  THEN GprWords
  ELSE IF a \in 1106 .. 1107 \cup 2005 .. 2007 \cup 3005 .. 3006 \cup {1200, 2100, 3100}
  THEN CtxWords
  ELSE IF a \in 1201 .. 1301 \cup 2101 .. 2102 \cup 3101 .. 3105
  THEN CtxWords + 1
  ELSE 0

\* Where the user's status is: in spsr, in r0, on top of the stack or second.
Place(a) ==
  IF a \in 1109 .. 1111 \cup 2000 .. 2003 \cup 2009 .. 2011 \cup 3000 .. 3003 \cup 3008 .. 3010
  THEN "spsr"
  ELSE IF a \in {1108, 2004, 2008, 3004, 3007} THEN "r0"
  ELSE IF a \in 2005 .. 2007 \cup 3005 .. 3006 \cup {1107, 2100, 3100} THEN "top"
  ELSE IF a \in 1202 .. 1301 \cup 2101 .. 2102 \cup 3101 .. 3105 THEN "second"
  ELSE "nowhere"

\* Where a C function returns to.
ReturnFrom(a) == IF Early(a) THEN 1107 ELSE IF a < 3000 THEN 2007 ELSE 3006

\* What lr holds where that matters, or 0.
Link(a) ==
  IF a \in 1000 .. 1001 THEN 1101
  ELSE IF a \in 1300 .. 1301 THEN 1204
  ELSE IF a \in {1200, 2100, 3100} THEN ReturnFrom(a)
  ELSE 0

(***************************************************************************)
(* The invariant.                                                          *)
(***************************************************************************)
IsMap(f, S) == f = [x \in S |-> f[x]]

Fields == {"pc", "cpsr", "gpr", "sp", "lr", "spsr"}

\* The processor has its registers and every mode its stack.
RegistersInPlace ==
  /\ IsMap(cpu, Fields)
  /\ IsMap(cpu.gpr, 1 .. Gprs)
  /\ IsMap(cpu.lr, Modes \cup {USR}) /\ IsMap(cpu.spsr, Modes)
  /\ IsMap(stk, Modes)

\* A status with any flags.
Statuses(n) == {n, n + 536870912, n + 1073741824, n + 1610612736}

\* What create_process gives a program: user mode with interrupts enabled.
UserStatuses == Statuses(80)

\* Whoever waits goes on in user mode.
Frame(f) == IsMap(f, 1 .. CtxWords) /\ f[1] \in UserStatuses

IsSequence(q) == q \in Seq({q[i] : i \in DOMAIN q})

WaitIn(q) == IsSequence(q) /\ \A i \in DOMAIN q : Frame(q[i].frame)

FramesWait == WaitIn(queue)

\* A handler runs with interrupts masked, or, after a reset, before the first.
Undisturbed(a) ==
  IF Early(a) THEN ~tick /\ ~ran /\ cpu.cpsr \in Statuses(82) \cup Statuses(192 + ModeAt(a))
  ELSE cpu.cpsr \in Statuses(192 + ModeAt(a))

\* Instruction a is executed in its mode, and the other has nothing on its stack.
Runs(a) ==
  /\ a \in Site
  /\ Mode = ModeAt(a)
  /\ Undisturbed(a)
  /\ \A m \in Modes \ {ModeAt(a)} : stk[m] = <<>>

\* The stack, the user's status and the return address are as the table says.
Keeps(a) ==
  LET m == ModeAt(a)  words == stk[m] IN
  /\ IsMap(words, 1 .. Height(a))
  /\ Place(a) = "spsr" => cpu.spsr[m] \in UserStatuses
  /\ Place(a) = "r0" => cpu.gpr[1] \in UserStatuses
  /\ Place(a) = "top" => words[1] \in UserStatuses
  /\ Place(a) = "second" => words[2] \in UserStatuses
  /\ Link(a) # 0 => cpu.lr[m] = Link(a)
  /\ Height(a) = CtxWords + 1 => words[1] = ReturnFrom(a)

InHandler(a) == Runs(a) /\ Keeps(a)

InProgram == cpu.cpsr \in UserStatuses /\ \A m \in Modes : stk[m] = <<>>

Balanced ==
  /\ RegistersInPlace
  /\ FramesWait
  /\ InProgram \/ InHandler(cpu.pc)

(***************************************************************************)
(* Words on a stack.                                                       *)
(***************************************************************************)
LEMMA WordsAreSequence ==
  ASSUME NEW n \in Nat, NEW s, IsMap(s, 1 .. n)
  PROVE  s \in Seq({s[k] : k \in 1 .. n}) /\ Len(s) = n /\ DOMAIN s = 1 .. n
BY DEF IsMap

LEMMA NoWords == \A s : IsMap(s, 1 .. 0) <=> s = <<>>
BY DEF IsMap

LEMMA Concatenated ==
  ASSUME NEW m \in Nat, NEW n \in Nat, NEW s, NEW t, IsMap(s, 1 .. m), IsMap(t, 1 .. n)
  PROVE  IsMap(s \o t, 1 .. m + n)
<1> DEFINE W == {s[k] : k \in 1 .. m} \cup {t[k] : k \in 1 .. n}
<1>1. s \in Seq(W) /\ Len(s) = m
  BY DEF IsMap
<1>2. t \in Seq(W) /\ Len(t) = n
  BY DEF IsMap
<1> HIDE DEF W
<1>3. QED
  BY <1>1, <1>2, ConcatProperties DEF IsMap

Join(s, t) == s \o t

LEMMA OnTop ==
  ASSUME NEW m \in Nat, NEW n \in Nat, NEW s, NEW t, IsMap(s, 1 .. m), IsMap(t, 1 .. n),
         NEW k \in 1 .. m
  PROVE  Join(s, t)[k] = s[k]
<1> DEFINE W == {s[i] : i \in 1 .. m} \cup {t[i] : i \in 1 .. n}
<1>1. s \in Seq(W) /\ Len(s) = m
  BY DEF IsMap
<1>2. t \in Seq(W) /\ Len(t) = n
  BY DEF IsMap
<1> HIDE DEF W
<1>3. QED
  BY <1>1, <1>2, ConcatProperties DEF Join

LEMMA Dropped ==
  ASSUME NEW n \in Nat, NEW k \in 0 .. n, NEW s, IsMap(s, 1 .. n)
  PROVE  LET d == SubSeq(s, k + 1, Len(s)) IN
         IsMap(d, 1 .. n - k) /\ \A i \in 1 .. n - k : d[i] = s[k + i]
<1> DEFINE W == {s[i] : i \in 1 .. n}
<1>1. s \in Seq(W) /\ Len(s) = n
  BY WordsAreSequence
<1> HIDE DEF W
<1>2. QED
  BY <1>1, SubSeqProperties DEF IsMap

Push(w, s) == <<w>> \o s
PushTwo(v, w, s) == <<v, w>> \o s

LEMMA Pushed ==
  ASSUME NEW n \in Nat, NEW s, NEW w, IsMap(s, 1 .. n)
  PROVE  /\ IsMap(Push(w, s), 1 .. n + 1)
         /\ Push(w, s)[1] = w
         /\ \A k \in 1 .. n : Push(w, s)[k + 1] = s[k]
<1> DEFINE W == {w} \cup {s[k] : k \in 1 .. n}
           t == <<w>>
<1>1. t \in Seq(W) /\ Len(t) = 1 /\ t[1] = w
  OBVIOUS
<1>2. s \in Seq(W) /\ Len(s) = n
  BY DEF IsMap
<1> HIDE DEF W, t
<1>3. /\ t \o s \in Seq(W) /\ Len(t \o s) = Len(t) + Len(s)
      /\ \A i \in 1 .. Len(t) + Len(s) : (t \o s)[i] = IF i <= Len(t) THEN t[i] ELSE s[i - Len(t)]
  BY <1>1, <1>2, ConcatProperties
<1>4. /\ t \o s \in Seq(W) /\ Len(t \o s) = n + 1
      /\ (t \o s)[1] = w
      /\ \A k \in 1 .. n : (t \o s)[k + 1] = s[k]
  BY <1>1, <1>2, <1>3
<1>5. IsMap(t \o s, 1 .. n + 1)
  BY <1>4 DEF IsMap
<1>6. QED
  BY <1>4, <1>5 DEF t, Push

LEMMA PushedTwo ==
  ASSUME NEW n \in Nat, NEW s, NEW v, NEW w, IsMap(s, 1 .. n)
  PROVE  IsMap(PushTwo(v, w, s), 1 .. n + 2) /\ PushTwo(v, w, s)[1] = v
<1> DEFINE W == {v, w} \cup {s[k] : k \in 1 .. n}
           t == <<v, w>>
<1>1. t \in Seq(W) /\ Len(t) = 2 /\ t[1] = v
  OBVIOUS
<1>2. s \in Seq(W) /\ Len(s) = n
  BY DEF IsMap
<1> HIDE DEF W, t
<1>3. /\ t \o s \in Seq(W) /\ Len(t \o s) = Len(t) + Len(s)
      /\ \A i \in 1 .. Len(t) + Len(s) : (t \o s)[i] = IF i <= Len(t) THEN t[i] ELSE s[i - Len(t)]
  BY <1>1, <1>2, ConcatProperties
<1>4. t \o s \in Seq(W) /\ Len(t \o s) = n + 2 /\ (t \o s)[1] = v
  BY <1>1, <1>2, <1>3
<1>5. IsMap(t \o s, 1 .. n + 2)
  BY <1>4 DEF IsMap
<1>6. QED
  BY <1>4, <1>5 DEF t, PushTwo

(***************************************************************************)
(* The instructions at each address.                                       *)
(***************************************************************************)
LEMMA Lengths ==
  /\ Len(IntInit) = 2 /\ Len(EnableIrq) = 2
  /\ Len(RstHandler) = 12 /\ Len(RstFunction) = 5
  /\ Len(SvcHandler) = 12 /\ Len(SvcFunction) = 3
  /\ Len(IrqHandler) = 11 /\ Len(IrqFunction) = 6
BY DEF IntInit, RstHandler, RstFunction, EnableIrq, SvcHandler, SvcFunction, IrqHandler, IrqFunction,
   Preserve, Restore

LEMMA SpansAreDisjoint ==
  ASSUME NEW l \in Listings, NEW k \in Listings, NEW a \in Span(l) \cap Span(k)
  PROVE  l = k
<1> DEFINE x == l[1]
           y == k[1]
           m == Len(l[2])
           n == Len(k[2])
<1>1. x \in Nat /\ y \in Nat /\ m \in 0 .. 100 /\ n \in 0 .. 100
  BY Lengths DEF Listings, int_init, int_enable_irq, lolevel_handler_rst, hilevel_handler_rst,
     lolevel_handler_svc, hilevel_handler_svc, lolevel_handler_irq, hilevel_handler_irq
<1>2. l = k \/ x + 100 <= y \/ y + 100 <= x
  BY DEF Listings, int_init, int_enable_irq, lolevel_handler_rst, hilevel_handler_rst,
     lolevel_handler_svc, hilevel_handler_svc, lolevel_handler_irq, hilevel_handler_irq
<1>3. a \in x .. x + m - 1 /\ a \in y .. y + n - 1
  BY DEF Span
<1> HIDE DEF x, y, m, n
<1>4. QED
  BY <1>1, <1>2, <1>3

LEMMA CodeIsListed ==
  ASSUME NEW start, NEW code, <<start, code>> \in Listings
  PROVE  \A i \in 1 .. Len(code) : start + i - 1 \in DOMAIN Code /\ Code[start + i - 1] = code[i]
<1> SUFFICES ASSUME NEW i \in 1 .. Len(code)
             PROVE  start + i - 1 \in DOMAIN Code /\ Code[start + i - 1] = code[i]
  OBVIOUS
<1>1. start \in Nat /\ Len(code) \in Nat
  BY Lengths DEF Listings, int_init, int_enable_irq, lolevel_handler_rst, hilevel_handler_rst,
     lolevel_handler_svc, hilevel_handler_svc, lolevel_handler_irq, hilevel_handler_irq
<1> DEFINE l == <<start, code>>
           a == start + i - 1
<1>2. a \in Span(l)
  BY <1>1 DEF Span
<1>3. a - start + 1 = i /\ l[1] = start /\ l[2] = code
  BY <1>1
<1> HIDE DEF l, a
<1>4. (CHOOSE k \in Listings : a \in Span(k)) = l
  BY <1>2, SpansAreDisjoint DEF l
<1>5. a \in DOMAIN Code /\ Code[a] = l[2][a - l[1] + 1]
  BY <1>2, <1>4, Zenon DEF Code, l
<1>6. QED
  BY <1>3, <1>5 DEF a

LEMMA IntInitCode ==
  /\ Code[1000] = I("copy") /\ Code[1001] = I("mov_pc_lr")
<1>1. <<1000, IntInit>> \in Listings
  BY DEF Listings, int_init
<1>2. \A i \in 1 .. Len(IntInit) : Code[1000 + i - 1] = IntInit[i]
  BY <1>1, CodeIsListed
<1>3. \A i \in 1 .. 2 : Code[999 + i] = IntInit[i]
  BY <1>2, Lengths
<1>4. QED
  BY <1>3 DEF IntInit

LEMMA EnableIrqCode ==
  /\ Code[1300] = I("enable") /\ Code[1301] = I("mov_pc_lr")
<1>1. <<1300, EnableIrq>> \in Listings
  BY DEF Listings, int_enable_irq
<1>2. \A i \in 1 .. Len(EnableIrq) : Code[1300 + i - 1] = EnableIrq[i]
  BY <1>1, CodeIsListed
<1>3. \A i \in 1 .. 2 : Code[1299 + i] = EnableIrq[i]
  BY <1>2, Lengths
<1>4. QED
  BY <1>3 DEF EnableIrq

LEMMA RstHandlerCode ==
  /\ Code[1100] = N("bl", 1000) /\ Code[1101] = N("msr_cpsr", 211)
  /\ Code[1102] = I("ldr_sp") /\ Code[1103] = N("msr_cpsr", 210) /\ Code[1104] = I("ldr_sp")
  /\ Code[1105] = N("sub_sp", CtxWords) /\ Code[1106] = N("bl", 1200)
  /\ Code[1107] = I("ldmia_sp") /\ Code[1108] = I("msr_spsr")
  /\ Code[1109] = I("ldmia_user") /\ Code[1110] = N("add_sp", GprWords)
  /\ Code[1111] = I("movs_pc")
<1>1. <<1100, RstHandler>> \in Listings
  BY DEF Listings, lolevel_handler_rst
<1>2. \A i \in 1 .. Len(RstHandler) : Code[1100 + i - 1] = RstHandler[i]
  BY <1>1, CodeIsListed
<1>3. \A i \in 1 .. 12 : Code[1099 + i] = RstHandler[i]
  BY <1>2, Lengths
<1>4. QED
  BY <1>3 DEF RstHandler, Restore, int_init, hilevel_handler_rst

LEMMA RstFunctionCode ==
  /\ Code[1200] = I("push_lr") /\ Code[1201] = I("create") /\ Code[1202] = I("configure")
  /\ Code[1203] = N("bl", 1300) /\ Code[1204] = I("pop_pc")
<1>1. <<1200, RstFunction>> \in Listings
  BY DEF Listings, hilevel_handler_rst
<1>2. \A i \in 1 .. Len(RstFunction) : Code[1200 + i - 1] = RstFunction[i]
  BY <1>1, CodeIsListed
<1>3. \A i \in 1 .. 5 : Code[1199 + i] = RstFunction[i]
  BY <1>2, Lengths
<1>4. QED
  BY <1>3 DEF RstFunction, int_enable_irq

LEMMA SvcHandlerCode ==
  /\ Code[2000] = N("sub_lr", 0) /\ Code[2001] = N("sub_sp", GprWords)
  /\ Code[2002] = I("stmia_user") /\ Code[2003] = I("mrs_spsr")
  /\ Code[2004] = I("stmdb_sp") /\ Code[2005] = I("ldr_svc") /\ Code[2006] = N("bl", 2100)
  /\ Code[2007] = I("ldmia_sp") /\ Code[2008] = I("msr_spsr")
  /\ Code[2009] = I("ldmia_user") /\ Code[2010] = N("add_sp", GprWords)
  /\ Code[2011] = I("movs_pc")
<1>1. <<2000, SvcHandler>> \in Listings
  BY DEF Listings, lolevel_handler_svc
<1>2. \A i \in 1 .. Len(SvcHandler) : Code[2000 + i - 1] = SvcHandler[i]
  BY <1>1, CodeIsListed
<1>3. \A i \in 1 .. 12 : Code[1999 + i] = SvcHandler[i]
  BY <1>2, Lengths
<1>4. QED
  BY <1>3 DEF SvcHandler, Preserve, Restore, hilevel_handler_svc

LEMMA SvcFunctionCode ==
  /\ Code[2100] = I("push_lr") /\ Code[2101] = I("switch") /\ Code[2102] = I("pop_pc")
<1>1. <<2100, SvcFunction>> \in Listings
  BY DEF Listings, hilevel_handler_svc
<1>2. \A i \in 1 .. Len(SvcFunction) : Code[2100 + i - 1] = SvcFunction[i]
  BY <1>1, CodeIsListed
<1>3. \A i \in 1 .. 3 : Code[2099 + i] = SvcFunction[i]
  BY <1>2, Lengths
<1>4. QED
  BY <1>3 DEF SvcFunction

LEMMA IrqHandlerCode ==
  /\ Code[3000] = N("sub_lr", 1) /\ Code[3001] = N("sub_sp", GprWords)
  /\ Code[3002] = I("stmia_user") /\ Code[3003] = I("mrs_spsr")
  /\ Code[3004] = I("stmdb_sp") /\ Code[3005] = N("bl", 3100) /\ Code[3006] = I("ldmia_sp")
  /\ Code[3007] = I("msr_spsr") /\ Code[3008] = I("ldmia_user")
  /\ Code[3009] = N("add_sp", GprWords) /\ Code[3010] = I("movs_pc")
<1>1. <<3000, IrqHandler>> \in Listings
  BY DEF Listings, lolevel_handler_irq
<1>2. \A i \in 1 .. Len(IrqHandler) : Code[3000 + i - 1] = IrqHandler[i]
  BY <1>1, CodeIsListed
<1>3. \A i \in 1 .. 11 : Code[2999 + i] = IrqHandler[i]
  BY <1>2, Lengths
<1>4. QED
  BY <1>3 DEF IrqHandler, Preserve, Restore, hilevel_handler_irq

LEMMA IrqFunctionCode ==
  /\ Code[3100] = I("push_lr") /\ Code[3101] = I("IAR") /\ Code[3102] = I("scheduler")
  /\ Code[3103] = I("IntClr") /\ Code[3104] = I("EOIR") /\ Code[3105] = I("pop_pc")
<1>1. <<3100, IrqFunction>> \in Listings
  BY DEF Listings, hilevel_handler_irq
<1>2. \A i \in 1 .. Len(IrqFunction) : Code[3100 + i - 1] = IrqFunction[i]
  BY <1>1, CodeIsListed
<1>3. \A i \in 1 .. 6 : Code[3099 + i] = IrqFunction[i]
  BY <1>2, Lengths
<1>4. QED
  BY <1>3 DEF IrqFunction

\* Instruction b is in the same handler as a, and the stack is as high there.
Along(a, b) ==
  b \in Site /\ ModeAt(b) = ModeAt(a) /\ (Early(b) <=> Early(a)) /\ ReturnFrom(b) = ReturnFrom(a)

Level(a, b) == Along(a, b) /\ Height(b) = Height(a)

Row(a, h, p) == Height(a) = h /\ Place(a) = p

\* What an instruction is tells where it is, and so what the table says there and
\* for the next.
LocatedAs(a, op, n) ==
  LET b == a + 1 IN
  /\ op = "bl" => Level(a, n) /\ Place(n) = Place(a) /\ Link(n) = b
  /\ op = "mov_pc_lr" =>
       Link(a) # 0 /\ Level(a, Link(a)) /\ Place(Link(a)) = Place(a) /\ Link(Link(a)) = 0
  /\ op = "copy" => Level(a, b) /\ Row(a, 0, "nowhere") /\ Row(b, 0, "nowhere") /\ Link(b) = Link(a)
  /\ op = "msr_cpsr" =>
       /\ <<a, n>> \in {<<1101, 192 + SVC>>, <<1103, 192 + IRQ>>}
       /\ Row(a, 0, "nowhere") /\ Row(b, 0, "nowhere") /\ Link(b) = 0
  /\ op = "enable" =>
       /\ Early(a) /\ ModeAt(a) = IRQ /\ Level(a, b) /\ Place(a) = Place(b) /\ Link(b) = Link(a)
       /\ Height(a) = CtxWords + 1
  /\ op = "ldr_sp" => Level(a, b) /\ Row(a, 0, "nowhere") /\ Row(b, 0, "nowhere") /\ Link(b) = 0
  /\ op = "sub_sp" =>
       /\ Along(a, b) /\ Height(a) = 0 /\ Height(b) = n /\ n \in Nat /\ n < CtxWords + 1 /\ Link(b) = 0
       /\ Place(a) = Place(b) /\ Place(a) \in {"spsr", "nowhere"}
  /\ op = "add_sp" =>
       Along(a, b) /\ n = GprWords /\ Row(a, n, "spsr") /\ Row(b, 0, "spsr") /\ Link(b) = 0
  /\ op = "sub_lr" => Level(a, b) /\ Row(a, 0, "spsr") /\ Row(b, 0, "spsr") /\ Link(b) = 0
  /\ op = "stmia_user" => Level(a, b) /\ Row(a, GprWords, "spsr") /\ Row(b, GprWords, "spsr") /\ Link(b) = 0
  /\ op = "ldmia_user" => Level(a, b) /\ Row(a, GprWords, "spsr") /\ Row(b, GprWords, "spsr") /\ Link(b) = 0
  /\ op = "mrs_spsr" => Level(a, b) /\ Row(a, GprWords, "spsr") /\ Row(b, GprWords, "r0") /\ Link(b) = 0
  /\ op = "msr_spsr" => Level(a, b) /\ Row(a, GprWords, "r0") /\ Row(b, GprWords, "spsr") /\ Link(b) = 0
  /\ op = "stmdb_sp" => Along(a, b) /\ Row(a, GprWords, "r0") /\ Row(b, CtxWords, "top") /\ Link(b) = 0
  /\ op = "ldmia_sp" => Along(a, b) /\ Row(a, CtxWords, "top") /\ Row(b, GprWords, "r0") /\ Link(b) = 0
  /\ op = "ldr_svc" => Level(a, b) /\ Row(a, CtxWords, "top") /\ Row(b, CtxWords, "top") /\ Link(b) = 0
  /\ op = "movs_pc" => Row(a, 0, "spsr")
  /\ op = "push_lr" =>
       /\ Along(a, b) /\ Link(a) = ReturnFrom(b) /\ Link(a) # 0 /\ Link(b) = 0
       /\ Height(a) = CtxWords /\ Height(b) = CtxWords + 1
       /\ <<Place(a), Place(b)>> \in {<<"top", "second">>, <<"nowhere", "nowhere">>}
  /\ op = "create" =>
       /\ Level(a, b) /\ Row(a, CtxWords + 1, "nowhere") /\ Row(b, CtxWords + 1, "second") /\ Link(b) = 0
       /\ Early(a)
  /\ op \in {"configure", "switch", "IAR", "scheduler", "IntClr", "EOIR"} =>
       /\ Level(a, b) /\ Row(a, CtxWords + 1, "second") /\ Row(b, CtxWords + 1, "second") /\ Link(b) = 0
       /\ op # "configure" => ~Early(a)
  /\ op = "pop_pc" =>
       /\ Along(a, ReturnFrom(a)) /\ Row(a, CtxWords + 1, "second")
       /\ Row(ReturnFrom(a), CtxWords, "top") /\ Link(ReturnFrom(a)) = 0

Located(a) == LocatedAs(a, Code[a].op, Code[a].n)

At(a, m, h, p, l, r) ==
  /\ a \in Site /\ ModeAt(a) = m /\ Row(a, h, p) /\ Link(a) = l
  /\ ReturnFrom(a) = r /\ (Early(a) <=> r = 1107)

LEMMA IntInitRows ==
  /\ At(1000, SVC, 0, "nowhere", 1101, 1107)
  /\ At(1001, SVC, 0, "nowhere", 1101, 1107)
BY DEF At, Row, Site, ModeAt, Early, Height, Place, ReturnFrom, Link, SVC, IRQ

LEMMA RstHandlerRows ==
  /\ At(1100, SVC, 0, "nowhere", 0, 1107)
  /\ At(1101, SVC, 0, "nowhere", 0, 1107)
  /\ At(1102, SVC, 0, "nowhere", 0, 1107)
  /\ At(1103, SVC, 0, "nowhere", 0, 1107)
  /\ At(1104, IRQ, 0, "nowhere", 0, 1107)
  /\ At(1105, IRQ, 0, "nowhere", 0, 1107)
  /\ At(1106, IRQ, CtxWords, "nowhere", 0, 1107)
  /\ At(1107, IRQ, CtxWords, "top", 0, 1107)
  /\ At(1108, IRQ, GprWords, "r0", 0, 1107)
  /\ At(1109, IRQ, GprWords, "spsr", 0, 1107)
  /\ At(1110, IRQ, GprWords, "spsr", 0, 1107)
  /\ At(1111, IRQ, 0, "spsr", 0, 1107)
BY DEF At, Row, Site, ModeAt, Early, Height, Place, ReturnFrom, Link, SVC, IRQ

LEMMA RstFunctionRows ==
  /\ At(1200, IRQ, CtxWords, "nowhere", 1107, 1107)
  /\ At(1201, IRQ, CtxWords + 1, "nowhere", 0, 1107)
  /\ At(1202, IRQ, CtxWords + 1, "second", 0, 1107)
  /\ At(1203, IRQ, CtxWords + 1, "second", 0, 1107)
  /\ At(1204, IRQ, CtxWords + 1, "second", 0, 1107)
BY DEF At, Row, Site, ModeAt, Early, Height, Place, ReturnFrom, Link, SVC, IRQ

LEMMA EnableIrqRows ==
  /\ At(1300, IRQ, CtxWords + 1, "second", 1204, 1107)
  /\ At(1301, IRQ, CtxWords + 1, "second", 1204, 1107)
BY DEF At, Row, Site, ModeAt, Early, Height, Place, ReturnFrom, Link, SVC, IRQ

LEMMA SvcHandlerRows ==
  /\ At(2000, SVC, 0, "spsr", 0, 2007)
  /\ At(2001, SVC, 0, "spsr", 0, 2007)
  /\ At(2002, SVC, GprWords, "spsr", 0, 2007)
  /\ At(2003, SVC, GprWords, "spsr", 0, 2007)
  /\ At(2004, SVC, GprWords, "r0", 0, 2007)
  /\ At(2005, SVC, CtxWords, "top", 0, 2007)
  /\ At(2006, SVC, CtxWords, "top", 0, 2007)
  /\ At(2007, SVC, CtxWords, "top", 0, 2007)
  /\ At(2008, SVC, GprWords, "r0", 0, 2007)
  /\ At(2009, SVC, GprWords, "spsr", 0, 2007)
  /\ At(2010, SVC, GprWords, "spsr", 0, 2007)
  /\ At(2011, SVC, 0, "spsr", 0, 2007)
BY DEF At, Row, Site, ModeAt, Early, Height, Place, ReturnFrom, Link, SVC, IRQ

LEMMA SvcFunctionRows ==
  /\ At(2100, SVC, CtxWords, "top", 2007, 2007)
  /\ At(2101, SVC, CtxWords + 1, "second", 0, 2007)
  /\ At(2102, SVC, CtxWords + 1, "second", 0, 2007)
BY DEF At, Row, Site, ModeAt, Early, Height, Place, ReturnFrom, Link, SVC, IRQ

LEMMA IrqHandlerRows ==
  /\ At(3000, IRQ, 0, "spsr", 0, 3006)
  /\ At(3001, IRQ, 0, "spsr", 0, 3006)
  /\ At(3002, IRQ, GprWords, "spsr", 0, 3006)
  /\ At(3003, IRQ, GprWords, "spsr", 0, 3006)
  /\ At(3004, IRQ, GprWords, "r0", 0, 3006)
  /\ At(3005, IRQ, CtxWords, "top", 0, 3006)
  /\ At(3006, IRQ, CtxWords, "top", 0, 3006)
  /\ At(3007, IRQ, GprWords, "r0", 0, 3006)
  /\ At(3008, IRQ, GprWords, "spsr", 0, 3006)
  /\ At(3009, IRQ, GprWords, "spsr", 0, 3006)
  /\ At(3010, IRQ, 0, "spsr", 0, 3006)
BY DEF At, Row, Site, ModeAt, Early, Height, Place, ReturnFrom, Link, SVC, IRQ

LEMMA IrqFunctionRows ==
  /\ At(3100, IRQ, CtxWords, "top", 3006, 3006)
  /\ At(3101, IRQ, CtxWords + 1, "second", 0, 3006)
  /\ At(3102, IRQ, CtxWords + 1, "second", 0, 3006)
  /\ At(3103, IRQ, CtxWords + 1, "second", 0, 3006)
  /\ At(3104, IRQ, CtxWords + 1, "second", 0, 3006)
  /\ At(3105, IRQ, CtxWords + 1, "second", 0, 3006)
BY DEF At, Row, Site, ModeAt, Early, Height, Place, ReturnFrom, Link, SVC, IRQ

LEMMA IntInitSites ==
  \A a \in 1000 .. 1001 : Located(a)
<1> USE IntInitRows, RstHandlerRows DEF LocatedAs, At, Row, Level, Along, GprWords, CtxWords, Gprs, SVC, IRQ
<1>1. LocatedAs(1000, "copy", 0)
  OBVIOUS
<1>2. LocatedAs(1001, "mov_pc_lr", 0)
  OBVIOUS
<1> HIDE DEF LocatedAs, At, Row, Level, Along, GprWords, CtxWords
<1>3. QED
  BY <1>1, <1>2, IntInitCode DEF Located, I, N

LEMMA RstHandlerSites ==
  \A a \in 1100 .. 1111 : Located(a)
<1> USE RstHandlerRows, IntInitRows, RstFunctionRows DEF LocatedAs, At, Row, Level, Along, GprWords, CtxWords, Gprs, SVC, IRQ
<1>1. LocatedAs(1100, "bl", 1000)
  OBVIOUS
<1>2. LocatedAs(1101, "msr_cpsr", 211)
  OBVIOUS
<1>3. LocatedAs(1102, "ldr_sp", 0)
  OBVIOUS
<1>4. LocatedAs(1103, "msr_cpsr", 210)
  OBVIOUS
<1>5. LocatedAs(1104, "ldr_sp", 0)
  OBVIOUS
<1>6. LocatedAs(1105, "sub_sp", CtxWords)
  OBVIOUS
<1>7. LocatedAs(1106, "bl", 1200)
  OBVIOUS
<1>8. LocatedAs(1107, "ldmia_sp", 0)
  OBVIOUS
<1>9. LocatedAs(1108, "msr_spsr", 0)
  OBVIOUS
<1>10. LocatedAs(1109, "ldmia_user", 0)
  OBVIOUS
<1>11. LocatedAs(1110, "add_sp", GprWords)
  OBVIOUS
<1>12. LocatedAs(1111, "movs_pc", 0)
  OBVIOUS
<1> HIDE DEF LocatedAs, At, Row, Level, Along, GprWords, CtxWords
<1>13. QED
  BY <1>1, <1>2, <1>3, <1>4, <1>5, <1>6, <1>7, <1>8, <1>9, <1>10, <1>11, <1>12, RstHandlerCode DEF Located, I, N

LEMMA RstFunctionSites ==
  \A a \in 1200 .. 1204 : Located(a)
<1> USE RstFunctionRows, RstHandlerRows, EnableIrqRows DEF LocatedAs, At, Row, Level, Along, GprWords, CtxWords, Gprs, SVC, IRQ
<1>1. LocatedAs(1200, "push_lr", 0)
  OBVIOUS
<1>2. LocatedAs(1201, "create", 0)
  OBVIOUS
<1>3. LocatedAs(1202, "configure", 0)
  OBVIOUS
<1>4. LocatedAs(1203, "bl", 1300)
  OBVIOUS
<1>5. LocatedAs(1204, "pop_pc", 0)
  OBVIOUS
<1> HIDE DEF LocatedAs, At, Row, Level, Along, GprWords, CtxWords
<1>6. QED
  BY <1>1, <1>2, <1>3, <1>4, <1>5, RstFunctionCode DEF Located, I, N

LEMMA EnableIrqSites ==
  \A a \in 1300 .. 1301 : Located(a)
<1> USE EnableIrqRows, RstFunctionRows DEF LocatedAs, At, Row, Level, Along, GprWords, CtxWords, Gprs, SVC, IRQ
<1>1. LocatedAs(1300, "enable", 0)
  OBVIOUS
<1>2. LocatedAs(1301, "mov_pc_lr", 0)
  OBVIOUS
<1> HIDE DEF LocatedAs, At, Row, Level, Along, GprWords, CtxWords
<1>3. QED
  BY <1>1, <1>2, EnableIrqCode DEF Located, I, N

LEMMA SvcHandlerSites ==
  \A a \in 2000 .. 2011 : Located(a)
<1> USE SvcHandlerRows, SvcFunctionRows DEF LocatedAs, At, Row, Level, Along, GprWords, CtxWords, Gprs, SVC, IRQ
<1>1. LocatedAs(2000, "sub_lr", 0)
  OBVIOUS
<1>2. LocatedAs(2001, "sub_sp", GprWords)
  OBVIOUS
<1>3. LocatedAs(2002, "stmia_user", 0)
  OBVIOUS
<1>4. LocatedAs(2003, "mrs_spsr", 0)
  OBVIOUS
<1>5. LocatedAs(2004, "stmdb_sp", 0)
  OBVIOUS
<1>6. LocatedAs(2005, "ldr_svc", 0)
  OBVIOUS
<1>7. LocatedAs(2006, "bl", 2100)
  OBVIOUS
<1>8. LocatedAs(2007, "ldmia_sp", 0)
  OBVIOUS
<1>9. LocatedAs(2008, "msr_spsr", 0)
  OBVIOUS
<1>10. LocatedAs(2009, "ldmia_user", 0)
  OBVIOUS
<1>11. LocatedAs(2010, "add_sp", GprWords)
  OBVIOUS
<1>12. LocatedAs(2011, "movs_pc", 0)
  OBVIOUS
<1> HIDE DEF LocatedAs, At, Row, Level, Along, GprWords, CtxWords
<1>13. QED
  BY <1>1, <1>2, <1>3, <1>4, <1>5, <1>6, <1>7, <1>8, <1>9, <1>10, <1>11, <1>12, SvcHandlerCode DEF Located, I, N

LEMMA SvcFunctionSites ==
  \A a \in 2100 .. 2102 : Located(a)
<1> USE SvcFunctionRows, SvcHandlerRows DEF LocatedAs, At, Row, Level, Along, GprWords, CtxWords, Gprs, SVC, IRQ
<1>1. LocatedAs(2100, "push_lr", 0)
  OBVIOUS
<1>2. LocatedAs(2101, "switch", 0)
  OBVIOUS
<1>3. LocatedAs(2102, "pop_pc", 0)
  OBVIOUS
<1> HIDE DEF LocatedAs, At, Row, Level, Along, GprWords, CtxWords
<1>4. QED
  BY <1>1, <1>2, <1>3, SvcFunctionCode DEF Located, I, N

LEMMA IrqHandlerSites ==
  \A a \in 3000 .. 3010 : Located(a)
<1> USE IrqHandlerRows, IrqFunctionRows DEF LocatedAs, At, Row, Level, Along, GprWords, CtxWords, Gprs, SVC, IRQ
<1>1. LocatedAs(3000, "sub_lr", 1)
  OBVIOUS
<1>2. LocatedAs(3001, "sub_sp", GprWords)
  OBVIOUS
<1>3. LocatedAs(3002, "stmia_user", 0)
  OBVIOUS
<1>4. LocatedAs(3003, "mrs_spsr", 0)
  OBVIOUS
<1>5. LocatedAs(3004, "stmdb_sp", 0)
  OBVIOUS
<1>6. LocatedAs(3005, "bl", 3100)
  OBVIOUS
<1>7. LocatedAs(3006, "ldmia_sp", 0)
  OBVIOUS
<1>8. LocatedAs(3007, "msr_spsr", 0)
  OBVIOUS
<1>9. LocatedAs(3008, "ldmia_user", 0)
  OBVIOUS
<1>10. LocatedAs(3009, "add_sp", GprWords)
  OBVIOUS
<1>11. LocatedAs(3010, "movs_pc", 0)
  OBVIOUS
<1> HIDE DEF LocatedAs, At, Row, Level, Along, GprWords, CtxWords
<1>12. QED
  BY <1>1, <1>2, <1>3, <1>4, <1>5, <1>6, <1>7, <1>8, <1>9, <1>10, <1>11, IrqHandlerCode DEF Located, I, N

LEMMA IrqFunctionSites ==
  \A a \in 3100 .. 3105 : Located(a)
<1> USE IrqFunctionRows, IrqHandlerRows DEF LocatedAs, At, Row, Level, Along, GprWords, CtxWords, Gprs, SVC, IRQ
<1>1. LocatedAs(3100, "push_lr", 0)
  OBVIOUS
<1>2. LocatedAs(3101, "IAR", 0)
  OBVIOUS
<1>3. LocatedAs(3102, "scheduler", 0)
  OBVIOUS
<1>4. LocatedAs(3103, "IntClr", 0)
  OBVIOUS
<1>5. LocatedAs(3104, "EOIR", 0)
  OBVIOUS
<1>6. LocatedAs(3105, "pop_pc", 0)
  OBVIOUS
<1> HIDE DEF LocatedAs, At, Row, Level, Along, GprWords, CtxWords
<1>7. QED
  BY <1>1, <1>2, <1>3, <1>4, <1>5, <1>6, IrqFunctionCode DEF Located, I, N

LEMMA Sites == \A a \in Site : Located(a)
BY IntInitSites, RstHandlerSites, RstFunctionSites, EnableIrqSites, SvcHandlerSites, SvcFunctionSites, IrqHandlerSites, IrqFunctionSites DEF Site

(***************************************************************************)
(* The instructions of the programs work on registers, and leave as many.  *)
(***************************************************************************)
IsContext(c) ==
  IsMap(c, {"pc", "gpr", "sp", "lr", "flags"}) /\ IsMap(c.gpr, 1 .. Gprs) /\ c.flags \in 0 .. 3

LEMMA Steps ==
  ASSUME NEW c, IsContext(c), NEW i, NEW v, NEW k
  PROVE  /\ IsContext(Goto(c, k)) /\ IsContext(Set(c, i, v)) /\ IsContext(Call(c, v, k))
         /\ IsContext(Return(c, v)) /\ IsContext(WriteArgs(c))
         /\ IsContext([c EXCEPT !.gpr[i] = v]) /\ IsContext([c EXCEPT !.pc = k, !.gpr[i] = v])
BY DEF IsContext, IsMap, Goto, Set, Call, Return, WriteArgs, Gprs

LEMMA Comparisons ==
  ASSUME NEW c, IsContext(c), NEW i, NEW v, NEW w, NEW k
  PROVE  /\ IsContext(Compare(c, v, w)) /\ IsContext(SetCompare(c, i, v, w))
         /\ IsContext(Branch(c, i, k))
<1>1. Compared(v, w) \in 0 .. 3
  BY DEF Compared, Lower, Higher, Equal
<1>2. IsContext(Compare(c, v, w))
  BY <1>1 DEF IsContext, IsMap, Compare
<1>3. QED
  BY <1>2, Steps DEF SetCompare, Branch

LEMMA AfterP3 ==
  ASSUME NEW c, IsContext(c)  PROVE IsContext(P3(c))
BY Steps, Comparisons, Zenon DEF P3

LEMMA AfterP4 ==
  ASSUME NEW c, IsContext(c)  PROVE IsContext(P4(c))
BY Steps, Comparisons, Zenon DEF P4

LEMMA AfterPrime ==
  ASSUME NEW c, IsContext(c), NEW at  PROVE IsContext(is_prime(c, at))
BY Steps, Comparisons, Zenon DEF is_prime

LEMMA AfterP5 ==
  ASSUME NEW c, IsContext(c)  PROVE IsContext(P5(c))
BY Steps, Comparisons, AfterPrime, Zenon DEF P5

LEMMA AfterKeepsRegisters ==
  ASSUME NEW c, IsContext(c)  PROVE IsContext(After(c))
BY Steps, Comparisons, AfterP3, AfterP4, AfterP5, Zenon DEF After, P1orP2, Commands

(***************************************************************************)
(* The handlers, one lemma for each instruction.                           *)
(***************************************************************************)
\* The flags are apart from the mode and from I.
LEMMA StatusBits ==
  ASSUME NEW n \in {80, 82, 210, 211}, NEW s \in Statuses(n)
  PROVE  /\ ModeOf(s) = ModeOf(n) /\ (Masked(s) <=> Masked(n))
         /\ FlagsOf(s) \in 0 .. 3
         /\ \A f \in 0 .. 3 : WithFlags(s, f) \in Statuses(n) /\ FlagsOf(WithFlags(s, f)) = f
BY DEF Statuses, ModeOf, Masked, FlagsOf, WithFlags, Carry

LEMMA StatusOf ==
  ASSUME NEW s \in UserStatuses
  PROVE  ModeOf(s) = USR /\ ~Masked(s) /\ FlagsOf(s) \in 0 .. 3
BY StatusBits DEF UserStatuses, ModeOf, Masked, USR

LEMMA Fetched ==
  ASSUME Balanced, NEW op, Fetch(op)
  PROVE  RegistersInPlace /\ FramesWait /\ InHandler(cpu.pc) /\ LocatedAs(cpu.pc, op, Operand)
<1>1. ~InProgram
  BY StatusOf DEF Fetch, InProgram, User, Mode
<1>2. QED
  BY <1>1, Sites DEF Balanced, Fetch, InHandler, Runs, Located, Operand

\* The queue of the ready is left alone.
LEMMA NobodyElse ==
  ASSUME Balanced, UNCHANGED queue
  PROVE  FramesWait'
BY DEF Balanced, FramesWait, WaitIn, IsSequence, Frame, IsMap

\* The next instruction is b, in the same handler.
LEMMA RunsOn ==
  ASSUME NEW a, NEW b, Runs(a), Along(a, b),
         cpu'.cpsr = cpu.cpsr, Early(a) => UNCHANGED <<tick, ran>>,
         \A m \in Modes \ {ModeAt(a)} : stk'[m] = stk[m]
  PROVE  Runs(b)'
BY DEF Runs, Along, Undisturbed, Mode

\* The same for a C function that changes flags.
LEMMA FlagsRunOn ==
  ASSUME NEW a, NEW b, Runs(a), Along(a, b), NEW f \in 0 .. 3,
         cpu'.cpsr = WithFlags(cpu.cpsr, f), Early(a) => UNCHANGED <<tick, ran>>,
         \A m \in Modes \ {ModeAt(a)} : stk'[m] = stk[m]
  PROVE  Runs(b)'
<1>1. ModeAt(a) \in {18, 19} /\ ModeAt(b) = ModeAt(a)
  BY DEF ModeAt, SVC, IRQ, Along
<1>2. PICK n \in {82, 192 + ModeAt(a)} : cpu.cpsr \in Statuses(n) /\ (~Early(a) => n = 192 + ModeAt(a))
  BY DEF Runs, Undisturbed
<1>3. n \in {82, 210, 211}
  BY <1>1
<1>4. cpu'.cpsr \in Statuses(n) /\ ModeOf(cpu'.cpsr) = ModeOf(cpu.cpsr)
  BY <1>2, <1>3, StatusBits
<1>5. QED
  BY <1>1, <1>2, <1>4 DEF Runs, Along, Undisturbed, Mode

LEMMA Arrives ==
  ASSUME NEW b, cpu'.pc = b, RegistersInPlace', FramesWait', Runs(b)', Keeps(b)'
  PROVE  Balanced'
BY DEF Balanced, InHandler

LEMMA sub_lr_Balanced == Balanced /\ sub_lr => Balanced'
<1> SUFFICES ASSUME Balanced, sub_lr, NEW a, a = cpu.pc  PROVE Balanced'
  OBVIOUS
<1>1. /\ RegistersInPlace /\ Runs(a) /\ Keeps(a)
      /\ Level(a, a + 1) /\ Row(a, 0, "spsr") /\ Row(a + 1, 0, "spsr") /\ Link(a + 1) = 0
  BY Fetched DEF sub_lr, LocatedAs, InHandler
<1>2. RegistersInPlace'
  BY <1>1 DEF sub_lr, Then, Registers, memory, RegistersInPlace, IsMap, Fields
<1>3. /\ cpu'.pc = a + 1 /\ cpu'.cpsr = cpu.cpsr /\ cpu'.spsr = cpu.spsr
      /\ UNCHANGED <<stk, tick, ran, queue>>
  BY <1>1 DEF sub_lr, Then, Registers, memory, devices, kernel, RegistersInPlace, IsMap, Fields
<1>4. Runs(a + 1)'
  BY <1>1, <1>3, RunsOn DEF Level
<1>5. Keeps(a + 1)'
  BY <1>1, <1>3 DEF Keeps, Level, Along, Row, CtxWords, GprWords, Gprs
<1>6. QED
  BY <1>2, <1>3, <1>4, <1>5, NobodyElse, Arrives

LEMMA bl_Balanced == Balanced /\ bl => Balanced'
<1> SUFFICES ASSUME Balanced, bl, NEW a, a = cpu.pc, NEW n, n = Operand  PROVE Balanced'
  OBVIOUS
<1>1. /\ RegistersInPlace /\ Runs(a) /\ Keeps(a)
      /\ Level(a, n) /\ Place(n) = Place(a) /\ Link(n) = a + 1
  BY Fetched DEF bl, LocatedAs, InHandler
<1>2. Mode = ModeAt(a) /\ ModeAt(a) \in Modes
  BY <1>1 DEF Runs, ModeAt, Modes
<1>3. RegistersInPlace'
  BY <1>1 DEF bl, Then, Registers, memory, RegistersInPlace, IsMap, Fields
<1>4. /\ cpu'.pc = n /\ cpu'.cpsr = cpu.cpsr /\ cpu'.lr[ModeAt(a)] = a + 1 /\ UNCHANGED <<cpu.gpr, cpu.spsr>>
      /\ UNCHANGED <<stk, tick, ran, queue>>
  BY <1>1, <1>2 DEF bl, Then, Registers, memory, devices, kernel, RegistersInPlace, IsMap, Fields, Modes, USR, SVC, IRQ
<1>5. Runs(n)'
  BY <1>1, <1>4, RunsOn DEF Level
<1>6. Keeps(n)'
  BY <1>1, <1>4 DEF Keeps, Level, Along, Row, CtxWords, GprWords, Gprs
<1>7. QED
  BY <1>3, <1>4, <1>5, <1>6, NobodyElse, Arrives

LEMMA mov_pc_lr_Balanced == Balanced /\ mov_pc_lr => Balanced'
<1> SUFFICES ASSUME Balanced, mov_pc_lr, NEW a, a = cpu.pc  PROVE Balanced'
  OBVIOUS
<1>1. /\ RegistersInPlace /\ Runs(a) /\ Keeps(a)
      /\ Link(a) # 0 /\ Level(a, Link(a)) /\ Place(Link(a)) = Place(a) /\ Link(Link(a)) = 0
  BY Fetched DEF mov_pc_lr, LocatedAs, InHandler
<1>2. Mode = ModeAt(a) /\ ModeAt(a) \in Modes
  BY <1>1 DEF Runs, ModeAt, Modes
<1>3. RegistersInPlace'
  BY <1>1 DEF mov_pc_lr, Then, Registers, memory, RegistersInPlace, IsMap, Fields
<1>4. /\ cpu'.pc = Link(a) /\ cpu'.cpsr = cpu.cpsr /\ UNCHANGED <<cpu.gpr, cpu.spsr>>
      /\ UNCHANGED <<stk, tick, ran, queue>>
  BY <1>1, <1>2 DEF mov_pc_lr, Then, Registers, memory, devices, kernel, RegistersInPlace, IsMap, Fields, Keeps
<1>5. Runs(Link(a))'
  BY <1>1, <1>4, RunsOn DEF Level
<1>6. Keeps(Link(a))'
  BY <1>1, <1>4 DEF Keeps, Level, Along, Row, CtxWords, GprWords, Gprs
<1>7. QED
  BY <1>3, <1>4, <1>5, <1>6, NobodyElse, Arrives

LEMMA ldmia_user_Balanced == Balanced /\ ldmia_user => Balanced'
<1> SUFFICES ASSUME Balanced, ldmia_user, NEW a, a = cpu.pc  PROVE Balanced'
  OBVIOUS
<1>1. /\ RegistersInPlace /\ Runs(a) /\ Keeps(a)
      /\ Level(a, a + 1) /\ Row(a, GprWords, "spsr") /\ Row(a + 1, GprWords, "spsr") /\ Link(a + 1) = 0
  BY Fetched DEF ldmia_user, LocatedAs, InHandler
<1>2. Mode = ModeAt(a) /\ ModeAt(a) \in Modes
  BY <1>1 DEF Runs, ModeAt, Modes
<1>3. RegistersInPlace'
  BY <1>1 DEF ldmia_user, Then, Registers, memory, RegistersInPlace, IsMap, Fields
<1>4. /\ cpu'.pc = a + 1 /\ cpu'.cpsr = cpu.cpsr /\ UNCHANGED cpu.spsr
      /\ UNCHANGED <<stk, tick, ran, queue>>
  BY <1>1, <1>2 DEF ldmia_user, Then, Registers, memory, devices, kernel, RegistersInPlace, IsMap, Fields
<1>5. Runs(a + 1)'
  BY <1>1, <1>4, RunsOn DEF Level
<1>6. Keeps(a + 1)'
  BY <1>1, <1>4 DEF Keeps, Level, Along, Row, CtxWords, GprWords, Gprs
<1>7. QED
  BY <1>3, <1>4, <1>5, <1>6, NobodyElse, Arrives

LEMMA mrs_spsr_Balanced == Balanced /\ mrs_spsr => Balanced'
<1> SUFFICES ASSUME Balanced, mrs_spsr, NEW a, a = cpu.pc  PROVE Balanced'
  OBVIOUS
<1>1. /\ RegistersInPlace /\ Runs(a) /\ Keeps(a)
      /\ Level(a, a + 1) /\ Row(a, GprWords, "spsr") /\ Row(a + 1, GprWords, "r0") /\ Link(a + 1) = 0
  BY Fetched DEF mrs_spsr, LocatedAs, InHandler
<1>2. Mode = ModeAt(a) /\ ModeAt(a) \in Modes
  BY <1>1 DEF Runs, ModeAt, Modes
<1>3. RegistersInPlace'
  BY <1>1 DEF mrs_spsr, Then, Registers, memory, RegistersInPlace, IsMap, Fields
<1>4. /\ cpu'.pc = a + 1 /\ cpu'.cpsr = cpu.cpsr /\ cpu'.gpr[1] = cpu.spsr[ModeAt(a)]
      /\ UNCHANGED <<stk, tick, ran, queue>>
  BY <1>1, <1>2 DEF mrs_spsr, Then, Registers, memory, devices, kernel, RegistersInPlace, IsMap, Fields, Gprs
<1>5. Runs(a + 1)'
  BY <1>1, <1>4, RunsOn DEF Level
<1>6. Keeps(a + 1)'
  BY <1>1, <1>4 DEF Keeps, Level, Along, Row, CtxWords, GprWords, Gprs
<1>7. QED
  BY <1>3, <1>4, <1>5, <1>6, NobodyElse, Arrives

LEMMA msr_spsr_Balanced == Balanced /\ msr_spsr => Balanced'
<1> SUFFICES ASSUME Balanced, msr_spsr, NEW a, a = cpu.pc  PROVE Balanced'
  OBVIOUS
<1>1. /\ RegistersInPlace /\ Runs(a) /\ Keeps(a)
      /\ Level(a, a + 1) /\ Row(a, GprWords, "r0") /\ Row(a + 1, GprWords, "spsr") /\ Link(a + 1) = 0
  BY Fetched DEF msr_spsr, LocatedAs, InHandler
<1>2. Mode = ModeAt(a) /\ ModeAt(a) \in Modes
  BY <1>1 DEF Runs, ModeAt, Modes
<1>3. RegistersInPlace'
  BY <1>1 DEF msr_spsr, Then, Registers, memory, RegistersInPlace, IsMap, Fields
<1>4. /\ cpu'.pc = a + 1 /\ cpu'.cpsr = cpu.cpsr /\ cpu'.spsr[ModeAt(a)] = cpu.gpr[1]
      /\ UNCHANGED <<stk, tick, ran, queue>>
  BY <1>1, <1>2 DEF msr_spsr, Then, Registers, memory, devices, kernel, RegistersInPlace, IsMap, Fields
<1>5. Runs(a + 1)'
  BY <1>1, <1>4, RunsOn DEF Level
<1>6. Keeps(a + 1)'
  BY <1>1, <1>4 DEF Keeps, Level, Along, Row, CtxWords, GprWords, Gprs
<1>7. QED
  BY <1>3, <1>4, <1>5, <1>6, NobodyElse, Arrives

LEMMA ldr_svc_Balanced == Balanced /\ ldr_svc => Balanced'
<1> SUFFICES ASSUME Balanced, ldr_svc, NEW a, a = cpu.pc  PROVE Balanced'
  OBVIOUS
<1>1. /\ RegistersInPlace /\ Runs(a) /\ Keeps(a)
      /\ Level(a, a + 1) /\ Row(a, CtxWords, "top") /\ Row(a + 1, CtxWords, "top") /\ Link(a + 1) = 0
  BY Fetched DEF ldr_svc, LocatedAs, InHandler
<1>2. Mode = ModeAt(a) /\ ModeAt(a) \in Modes
  BY <1>1 DEF Runs, ModeAt, Modes
<1>3. RegistersInPlace'
  BY <1>1 DEF ldr_svc, Then, Registers, memory, RegistersInPlace, IsMap, Fields
<1>4. /\ cpu'.pc = a + 1 /\ cpu'.cpsr = cpu.cpsr
      /\ UNCHANGED <<stk, tick, ran, queue>>
  BY <1>1, <1>2 DEF ldr_svc, Then, Registers, memory, devices, kernel, RegistersInPlace, IsMap, Fields
<1>5. Runs(a + 1)'
  BY <1>1, <1>4, RunsOn DEF Level
<1>6. Keeps(a + 1)'
  BY <1>1, <1>4 DEF Keeps, Level, Along, Row, CtxWords, GprWords, Gprs
<1>7. QED
  BY <1>3, <1>4, <1>5, <1>6, NobodyElse, Arrives

LEMMA configure_Balanced == Balanced /\ configure => Balanced'
<1> SUFFICES ASSUME Balanced, configure, NEW a, a = cpu.pc  PROVE Balanced'
  OBVIOUS
<1>1. /\ RegistersInPlace /\ Runs(a) /\ Keeps(a)
      /\ Level(a, a + 1) /\ Row(a, CtxWords + 1, "second") /\ Row(a + 1, CtxWords + 1, "second")
      /\ Link(a + 1) = 0
  BY Fetched DEF configure, LocatedAs, InHandler
<1>2. RegistersInPlace'
  BY <1>1 DEF configure, Then, memory, RegistersInPlace, IsMap, Fields
<1>3. /\ cpu'.pc = a + 1 /\ cpu'.cpsr = cpu.cpsr
      /\ UNCHANGED <<stk, tick, ran, queue>>
  BY <1>1 DEF configure, Then, memory, kernel, RegistersInPlace, IsMap, Fields
<1>4. Runs(a + 1)'
  BY <1>1, <1>3, RunsOn DEF Level
<1>5. Keeps(a + 1)'
  BY <1>1, <1>3 DEF Keeps, Level, Along, Row, CtxWords, GprWords, Gprs
<1>6. QED
  BY <1>2, <1>3, <1>4, <1>5, NobodyElse, Arrives

LEMMA IAR_Balanced == Balanced /\ IAR => Balanced'
<1> SUFFICES ASSUME Balanced, IAR, NEW a, a = cpu.pc  PROVE Balanced'
  OBVIOUS
<1>1. /\ RegistersInPlace /\ Runs(a) /\ Keeps(a)
      /\ Level(a, a + 1) /\ Row(a, CtxWords + 1, "second") /\ Row(a + 1, CtxWords + 1, "second")
      /\ Link(a + 1) = 0
  BY Fetched DEF IAR, LocatedAs, InHandler
<1>2. RegistersInPlace'
  BY <1>1 DEF IAR, Then, memory, RegistersInPlace, IsMap, Fields
<1>3. /\ cpu'.pc = a + 1 /\ cpu'.cpsr = cpu.cpsr
      /\ UNCHANGED <<stk, tick, ran, queue>>
  BY <1>1 DEF IAR, Then, memory, kernel, RegistersInPlace, IsMap, Fields
<1>4. Runs(a + 1)'
  BY <1>1, <1>3, RunsOn DEF Level
<1>5. Keeps(a + 1)'
  BY <1>1, <1>3 DEF Keeps, Level, Along, Row, CtxWords, GprWords, Gprs
<1>6. QED
  BY <1>2, <1>3, <1>4, <1>5, NobodyElse, Arrives

LEMMA EOIR_Balanced == Balanced /\ EOIR => Balanced'
<1> SUFFICES ASSUME Balanced, EOIR, NEW a, a = cpu.pc  PROVE Balanced'
  OBVIOUS
<1>1. /\ RegistersInPlace /\ Runs(a) /\ Keeps(a)
      /\ Level(a, a + 1) /\ Row(a, CtxWords + 1, "second") /\ Row(a + 1, CtxWords + 1, "second")
      /\ Link(a + 1) = 0
  BY Fetched DEF EOIR, LocatedAs, InHandler
<1>2. RegistersInPlace'
  BY <1>1 DEF EOIR, Then, memory, RegistersInPlace, IsMap, Fields
<1>3. /\ cpu'.pc = a + 1 /\ cpu'.cpsr = cpu.cpsr
      /\ UNCHANGED <<stk, tick, ran, queue>>
  BY <1>1 DEF EOIR, Then, memory, kernel, RegistersInPlace, IsMap, Fields
<1>4. Runs(a + 1)'
  BY <1>1, <1>3, RunsOn DEF Level
<1>5. Keeps(a + 1)'
  BY <1>1, <1>3 DEF Keeps, Level, Along, Row, CtxWords, GprWords, Gprs
<1>6. QED
  BY <1>2, <1>3, <1>4, <1>5, NobodyElse, Arrives

LEMMA IntClr_Balanced == Balanced /\ IntClr => Balanced'
<1> SUFFICES ASSUME Balanced, IntClr, NEW a, a = cpu.pc  PROVE Balanced'
  OBVIOUS
<1>1. /\ RegistersInPlace /\ Runs(a) /\ Keeps(a)
      /\ Level(a, a + 1) /\ Row(a, CtxWords + 1, "second") /\ Row(a + 1, CtxWords + 1, "second")
      /\ Link(a + 1) = 0 /\ ~Early(a)
  BY Fetched DEF IntClr, LocatedAs, InHandler
<1>2. RegistersInPlace'
  BY <1>1 DEF IntClr, Then, memory, RegistersInPlace, IsMap, Fields
<1>3. /\ cpu'.pc = a + 1 /\ cpu'.cpsr = cpu.cpsr
      /\ UNCHANGED <<stk, ran, queue>>
  BY <1>1 DEF IntClr, Then, memory, kernel, RegistersInPlace, IsMap, Fields
<1>4. Runs(a + 1)'
  BY <1>1, <1>3, RunsOn DEF Level
<1>5. Keeps(a + 1)'
  BY <1>1, <1>3 DEF Keeps, Level, Along, Row, CtxWords, GprWords, Gprs
<1>6. QED
  BY <1>2, <1>3, <1>4, <1>5, NobodyElse, Arrives

LEMMA copy_Balanced == Balanced /\ copy => Balanced'
<1> SUFFICES ASSUME Balanced, copy, NEW a, a = cpu.pc  PROVE Balanced'
  OBVIOUS
<1>1. /\ RegistersInPlace /\ Runs(a) /\ Keeps(a)
      /\ Level(a, a + 1) /\ Row(a, 0, "nowhere") /\ Row(a + 1, 0, "nowhere") /\ Link(a + 1) = Link(a)
  BY Fetched DEF copy, LocatedAs, InHandler
<1>2. RegistersInPlace'
  BY <1>1 DEF copy, Then, Memory, RegistersInPlace, IsMap, Fields
<1>3. /\ cpu'.pc \in {a, a + 1} /\ cpu'.cpsr = cpu.cpsr /\ UNCHANGED cpu.lr
      /\ UNCHANGED <<stk, tick, ran, queue>>
  BY <1>1 DEF copy, Then, Memory, devices, kernel, RegistersInPlace, IsMap, Fields
<1>4. PICK b \in {a, a + 1} : cpu'.pc = b
  BY <1>3
<1>5. Level(a, b) /\ Row(b, 0, "nowhere") /\ Link(b) = Link(a)
  BY <1>1 DEF Level, Along, Runs
<1>6. Runs(b)'
  BY <1>1, <1>3, <1>5, RunsOn DEF Level
<1>7. Keeps(b)'
  BY <1>1, <1>3, <1>5 DEF Keeps, Level, Along, Row, CtxWords, GprWords, Gprs
<1>8. QED
  BY <1>2, <1>3, <1>4, <1>6, <1>7, NobodyElse, Arrives

\* The modes change while the stacks are still empty.
LEMMA msr_cpsr_Balanced == Balanced /\ msr_cpsr => Balanced'
<1> SUFFICES ASSUME Balanced, msr_cpsr, NEW a, a = cpu.pc, NEW n, n = Operand  PROVE Balanced'
  OBVIOUS
<1>1. /\ RegistersInPlace /\ Runs(a) /\ Keeps(a)
      /\ <<a, n>> \in {<<1101, 192 + SVC>>, <<1103, 192 + IRQ>>}
      /\ Row(a, 0, "nowhere") /\ Row(a + 1, 0, "nowhere") /\ Link(a + 1) = 0
  BY Fetched DEF msr_cpsr, LocatedAs, InHandler
<1>2. RegistersInPlace'
  <2>1. RegistersInPlace
    BY <1>1
  <2>2. QED
    BY <2>1 DEF msr_cpsr, Then, Registers, memory, RegistersInPlace, IsMap, Fields
<1>3. cpu'.pc = a + 1 /\ cpu'.cpsr = n /\ UNCHANGED <<stk, tick, ran, queue>>
  BY <1>1 DEF msr_cpsr, Then, Registers, memory, devices, kernel, RegistersInPlace, IsMap, Fields
<1>4. \A m \in Modes : stk[m] = <<>>
  BY <1>1, NoWords DEF Runs, Keeps, Row
<1>5. Mode' = ModeAt(a + 1) /\ a + 1 \in Site /\ Early(a) /\ Early(a + 1) /\ n = 192 + ModeAt(a + 1)
  BY <1>1, <1>3 DEF Mode, ModeOf, ModeAt, Site, Early, SVC, IRQ
<1>6. Runs(a + 1)'
  BY <1>1, <1>3, <1>4, <1>5 DEF Runs, Undisturbed, Statuses
<1>7. ModeAt(a + 1) \in Modes
  BY DEF ModeAt, Modes
<1>8. Keeps(a + 1)'
  BY <1>1, <1>3, <1>4, <1>7, NoWords DEF Keeps, Row, CtxWords, GprWords, Gprs
<1>9. QED
  BY <1>2, <1>3, <1>6, <1>8, NobodyElse, Arrives

\* Nothing interrupts yet when the reset handler enables interrupts.
LEMMA enable_Balanced == Balanced /\ enable => Balanced'
<1> SUFFICES ASSUME Balanced, enable, NEW a, a = cpu.pc  PROVE Balanced'
  OBVIOUS
<1>1. /\ RegistersInPlace /\ Runs(a) /\ Keeps(a)
      /\ Early(a) /\ ModeAt(a) = IRQ /\ Level(a, a + 1) /\ Place(a) = Place(a + 1)
      /\ Link(a + 1) = Link(a) /\ Height(a) = CtxWords + 1
  BY Fetched DEF enable, LocatedAs, InHandler
<1>2. RegistersInPlace'
  BY <1>1 DEF enable, Then, Registers, memory, RegistersInPlace, IsMap, Fields
<1>3. /\ cpu'.pc = a + 1 /\ cpu'.cpsr = cpu.cpsr - (IF Masked(cpu.cpsr) THEN 128 ELSE 0)
      /\ UNCHANGED <<cpu.gpr, cpu.spsr, cpu.lr, stk, tick, ran, queue>>
  BY <1>1 DEF enable, Then, Registers, memory, devices, kernel, RegistersInPlace, IsMap, Fields
<1>4. cpu'.cpsr \in Statuses(82)
  <2>1. cpu.cpsr \in Statuses(82) \cup Statuses(210)
    BY <1>1 DEF Runs, Undisturbed, IRQ
  <2>2. QED
    BY <1>3, <2>1 DEF Statuses, Masked
<1>5. Mode' = IRQ
  BY <1>4, StatusBits DEF Mode, ModeOf, IRQ
<1>6. Runs(a + 1)'
  BY <1>1, <1>3, <1>4, <1>5 DEF Runs, Undisturbed, Level, Along
<1>7. Keeps(a + 1)'
  BY <1>1, <1>3 DEF Keeps, Level, Along, CtxWords, GprWords, Gprs
<1>8. QED
  BY <1>2, <1>3, <1>6, <1>7, NobodyElse, Arrives

\* Back to a program: the stack of the mode is empty again.
LEMMA movs_pc_Balanced == Balanced /\ movs_pc => Balanced'
<1> SUFFICES ASSUME Balanced, movs_pc, NEW a, a = cpu.pc  PROVE Balanced'
  OBVIOUS
<1>1. /\ RegistersInPlace /\ Runs(a) /\ Keeps(a) /\ Row(a, 0, "spsr")
  BY Fetched DEF movs_pc, LocatedAs, InHandler
<1>2. RegistersInPlace'
  BY <1>1 DEF movs_pc, memory, RegistersInPlace, IsMap, Fields
<1>3. cpu'.cpsr = cpu.spsr[ModeAt(a)] /\ UNCHANGED <<stk, queue>>
  BY <1>1 DEF movs_pc, memory, kernel, Runs, RegistersInPlace, IsMap, Fields
<1>4. InProgram'
  BY <1>1, <1>3, NoWords DEF InProgram, Runs, Keeps, Row
<1>5. QED
  BY <1>2, <1>3, <1>4, NobodyElse DEF Balanced

LEMMA Widths ==
  /\ Gprs \in Nat /\ GprWords \in Nat /\ CtxWords \in Nat
  /\ GprWords = Gprs + 2 /\ CtxWords = GprWords + 2 /\ 2 \in 0 .. CtxWords /\ 1 \in 1 .. CtxWords
  /\ GprWords # CtxWords + 1 /\ CtxWords # CtxWords + 1 /\ 0 # CtxWords + 1
BY DEF CtxWords, GprWords, Gprs

\* Instructions that move or fill the stack of the mode.
LEMMA StackSet ==
  ASSUME NEW a, RegistersInPlace, Runs(a), NEW words, SetStack(words)
  PROVE  /\ IsMap(stk', Modes) /\ stk'[ModeAt(a)] = words
         /\ \A m \in Modes \ {ModeAt(a)} : stk'[m] = stk[m]
         /\ ModeAt(a) \in Modes /\ Stack = stk[ModeAt(a)]
<1>1. Mode = ModeAt(a) /\ ModeAt(a) \in Modes
  BY DEF Runs, ModeAt, Modes
<1>2. stk' = [stk EXCEPT ![ModeAt(a)] = words] /\ IsMap(stk, Modes)
  BY <1>1 DEF SetStack, RegistersInPlace
<1>3. QED
  BY <1>1, <1>2 DEF IsMap, Stack

LEMMA ldr_sp_Balanced == Balanced /\ ldr_sp => Balanced'
<1> SUFFICES ASSUME Balanced, ldr_sp, NEW a, a = cpu.pc  PROVE Balanced'
  OBVIOUS
<1>1. /\ RegistersInPlace /\ Runs(a) /\ Keeps(a)
      /\ Level(a, a + 1) /\ Row(a, 0, "nowhere") /\ Row(a + 1, 0, "nowhere") /\ Link(a + 1) = 0
  BY Fetched DEF ldr_sp, LocatedAs, InHandler
<1> DEFINE words == <<>>
           m == ModeAt(a)
<1>2. SetStack(words)
  BY DEF ldr_sp
<1> HIDE DEF words
<1>3. /\ IsMap(stk', Modes) /\ stk'[m] = words
      /\ \A k \in Modes \ {m} : stk'[k] = stk[k]
      /\ m \in Modes /\ Stack = stk[m]
  BY <1>1, <1>2, StackSet
<1>4. IsMap(stk[m], 1 .. Height(a))
  BY <1>1 DEF Keeps
<1>5. IsMap(words, 1 .. 0)
  BY NoWords DEF words
<1>6. /\ cpu'.pc = a + 1 /\ cpu'.cpsr = cpu.cpsr
      /\ UNCHANGED <<tick, ran, queue>>
  BY <1>1, <1>3, <1>4 DEF ldr_sp, Then, Memory, devices, kernel, RegistersInPlace, IsMap, Fields
<1>7. RegistersInPlace'
  BY <1>1, <1>3 DEF ldr_sp, Then, RegistersInPlace, IsMap, Fields
<1>8. Runs(a + 1)'
  BY <1>1, <1>3, <1>6, RunsOn DEF Level
<1>9. Keeps(a + 1)'
  BY <1>1, <1>3, <1>5, <1>6, Widths DEF Keeps, Level, Along, Row
<1>10. QED
  BY <1>6, <1>7, <1>8, <1>9, NobodyElse, Arrives

LEMMA sub_sp_Balanced == Balanced /\ sub_sp => Balanced'
<1> SUFFICES ASSUME Balanced, sub_sp, NEW a, a = cpu.pc, NEW n, n = Operand  PROVE Balanced'
  OBVIOUS
<1>1. /\ RegistersInPlace /\ Runs(a) /\ Keeps(a)
      /\ Along(a, a + 1) /\ Height(a) = 0 /\ Height(a + 1) = n /\ n \in Nat /\ n < CtxWords + 1
      /\ Link(a + 1) = 0 /\ Place(a) = Place(a + 1) /\ Place(a) \in {"spsr", "nowhere"}
  BY Fetched DEF sub_sp, LocatedAs, InHandler
<1> DEFINE words == [i \in 1 .. n |-> Junk] \o Stack
           m == ModeAt(a)
<1>2. SetStack(words)
  BY DEF sub_sp
<1> HIDE DEF words
<1>3. /\ IsMap(stk', Modes) /\ stk'[m] = words
      /\ \A k \in Modes \ {m} : stk'[k] = stk[k]
      /\ m \in Modes /\ Stack = stk[m]
  BY <1>1, <1>2, StackSet
<1>4. IsMap(stk[m], 1 .. Height(a))
  BY <1>1 DEF Keeps
<1>5. IsMap(words, 1 .. n)
  <2>1. IsMap([i \in 1 .. n |-> Junk], 1 .. n) /\ IsMap(Stack, 1 .. 0)
    BY <1>1, <1>3, <1>4 DEF IsMap
  <2>2. IsMap(words, 1 .. n + 0)
    BY <1>1, <2>1, Concatenated DEF words
  <2>3. QED
    BY <1>1, <2>2
<1>6. /\ cpu'.pc = a + 1 /\ cpu'.cpsr = cpu.cpsr /\ UNCHANGED cpu.spsr
      /\ UNCHANGED <<tick, ran, queue>>
  BY <1>1, <1>3, <1>4 DEF sub_sp, Then, Memory, devices, kernel, RegistersInPlace, IsMap, Fields
<1>7. RegistersInPlace'
  BY <1>1, <1>3 DEF sub_sp, Then, RegistersInPlace, IsMap, Fields
<1>8. Runs(a + 1)'
  BY <1>1, <1>3, <1>6, RunsOn DEF Level
<1>9. Keeps(a + 1)'
  BY <1>1, <1>3, <1>5, <1>6, Widths DEF Keeps, Level, Along, Row
<1>10. QED
  BY <1>6, <1>7, <1>8, <1>9, NobodyElse, Arrives

LEMMA add_sp_Balanced == Balanced /\ add_sp => Balanced'
<1> SUFFICES ASSUME Balanced, add_sp, NEW a, a = cpu.pc  PROVE Balanced'
  OBVIOUS
<1>1. /\ RegistersInPlace /\ Runs(a) /\ Keeps(a)
      /\ Along(a, a + 1) /\ Row(a, GprWords, "spsr") /\ Row(a + 1, 0, "spsr") /\ Link(a + 1) = 0 /\ Operand = GprWords
  BY Fetched DEF add_sp, LocatedAs, InHandler
<1> DEFINE words == Drop(GprWords)
           m == ModeAt(a)
<1>2. SetStack(words)
  BY <1>1 DEF add_sp
<1> HIDE DEF words
<1>3. /\ IsMap(stk', Modes) /\ stk'[m] = words
      /\ \A k \in Modes \ {m} : stk'[k] = stk[k]
      /\ m \in Modes /\ Stack = stk[m]
  BY <1>1, <1>2, StackSet
<1>4. IsMap(stk[m], 1 .. Height(a))
  BY <1>1 DEF Keeps
<1>5. IsMap(words, 1 .. 0)
  <2>1. GprWords \in Nat /\ GprWords \in 0 .. GprWords /\ IsMap(Stack, 1 .. GprWords)
    BY <1>1, <1>3, <1>4 DEF Row, GprWords, Gprs
  <2>2. IsMap(words, 1 .. GprWords - GprWords)
    BY <2>1, Dropped DEF words, Drop
  <2>3. QED
    BY <2>1, <2>2
<1>6. /\ cpu'.pc = a + 1 /\ cpu'.cpsr = cpu.cpsr /\ UNCHANGED cpu.spsr
      /\ UNCHANGED <<tick, ran, queue>>
  BY <1>1, <1>3, <1>4 DEF add_sp, Then, Memory, devices, kernel, RegistersInPlace, IsMap, Fields
<1>7. RegistersInPlace'
  BY <1>1, <1>3 DEF add_sp, Then, RegistersInPlace, IsMap, Fields
<1>8. Runs(a + 1)'
  BY <1>1, <1>3, <1>6, RunsOn DEF Level
<1>9. Keeps(a + 1)'
  BY <1>1, <1>3, <1>5, <1>6, Widths DEF Keeps, Level, Along, Row
<1>10. QED
  BY <1>6, <1>7, <1>8, <1>9, NobodyElse, Arrives

LEMMA stmia_user_Balanced == Balanced /\ stmia_user => Balanced'
<1> SUFFICES ASSUME Balanced, stmia_user, NEW a, a = cpu.pc  PROVE Balanced'
  OBVIOUS
<1>1. /\ RegistersInPlace /\ Runs(a) /\ Keeps(a)
      /\ Level(a, a + 1) /\ Row(a, GprWords, "spsr") /\ Row(a + 1, GprWords, "spsr") /\ Link(a + 1) = 0
  BY Fetched DEF stmia_user, LocatedAs, InHandler
<1> DEFINE words == cpu.gpr \o <<cpu.sp, cpu.lr[USR]>> \o Drop(GprWords)
           m == ModeAt(a)
<1>2. SetStack(words)
  BY DEF stmia_user
<1> HIDE DEF words
<1>3. /\ IsMap(stk', Modes) /\ stk'[m] = words
      /\ \A k \in Modes \ {m} : stk'[k] = stk[k]
      /\ m \in Modes /\ Stack = stk[m]
  BY <1>1, <1>2, StackSet
<1>4. IsMap(stk[m], 1 .. Height(a))
  BY <1>1 DEF Keeps
<1>5. IsMap(words, 1 .. GprWords)
  <2> DEFINE two == <<cpu.sp, cpu.lr[USR]>>
  <2>1. IsMap(two, 1 .. 2) /\ IsMap(cpu.gpr, 1 .. Gprs)
    BY <1>1 DEF IsMap, RegistersInPlace
  <2>2. GprWords \in Nat /\ GprWords \in 0 .. GprWords /\ Gprs \in Nat /\ Gprs + 2 = GprWords
    BY DEF GprWords, Gprs
  <2> HIDE DEF two
  <2>3. IsMap(Stack, 1 .. GprWords)
    BY <1>1, <1>3, <1>4 DEF Row
  <2>4. IsMap(Drop(GprWords), 1 .. 0)
    <3>1. IsMap(Drop(GprWords), 1 .. GprWords - GprWords)
      BY <2>2, <2>3, Dropped DEF Drop
    <3>2. QED
      BY <2>2, <3>1
  <2>5. IsMap(cpu.gpr \o two, 1 .. GprWords)
    <3>1. IsMap(cpu.gpr \o two, 1 .. Gprs + 2)
      BY <2>1, <2>2, Concatenated
    <3>2. QED
      BY <2>2, <3>1
  <2>6. IsMap((cpu.gpr \o two) \o Drop(GprWords), 1 .. GprWords + 0)
    BY <2>2, <2>4, <2>5, Concatenated
  <2>7. QED
    BY <2>2, <2>6 DEF words, two
<1>6. /\ cpu'.pc = a + 1 /\ cpu'.cpsr = cpu.cpsr /\ UNCHANGED cpu.spsr
      /\ UNCHANGED <<tick, ran, queue>>
  BY <1>1, <1>3, <1>4 DEF stmia_user, Then, Memory, devices, kernel, RegistersInPlace, IsMap, Fields
<1>7. RegistersInPlace'
  BY <1>1, <1>3 DEF stmia_user, Then, RegistersInPlace, IsMap, Fields
<1>8. Runs(a + 1)'
  BY <1>1, <1>3, <1>6, RunsOn DEF Level
<1>9. Keeps(a + 1)'
  BY <1>1, <1>3, <1>5, <1>6, Widths DEF Keeps, Level, Along, Row
<1>10. QED
  BY <1>6, <1>7, <1>8, <1>9, NobodyElse, Arrives

LEMMA stmdb_sp_Balanced == Balanced /\ stmdb_sp => Balanced'
<1> SUFFICES ASSUME Balanced, stmdb_sp, NEW a, a = cpu.pc  PROVE Balanced'
  OBVIOUS
<1>1. /\ RegistersInPlace /\ Runs(a) /\ Keeps(a)
      /\ Along(a, a + 1) /\ Row(a, GprWords, "r0") /\ Row(a + 1, CtxWords, "top") /\ Link(a + 1) = 0
  BY Fetched DEF stmdb_sp, LocatedAs, InHandler
<1> DEFINE words == <<cpu.gpr[1], cpu.lr[Mode]>> \o Stack
           m == ModeAt(a)
<1>2. SetStack(words)
  BY DEF stmdb_sp
<1> HIDE DEF words
<1>3. /\ IsMap(stk', Modes) /\ stk'[m] = words
      /\ \A k \in Modes \ {m} : stk'[k] = stk[k]
      /\ m \in Modes /\ Stack = stk[m]
  BY <1>1, <1>2, StackSet
<1>4. IsMap(stk[m], 1 .. Height(a))
  BY <1>1 DEF Keeps
<1>5. IsMap(words, 1 .. CtxWords) /\ words[1] = cpu.gpr[1]
  <2>1. GprWords \in Nat /\ GprWords + 2 = CtxWords
    BY Widths
  <2>2. IsMap(Stack, 1 .. GprWords)
    BY <1>1, <1>3, <1>4 DEF Row
  <2>3. words = PushTwo(cpu.gpr[1], cpu.lr[Mode], Stack)
    BY DEF words, PushTwo
  <2>4. IsMap(words, 1 .. GprWords + 2) /\ words[1] = cpu.gpr[1]
    BY <2>1, <2>2, <2>3, PushedTwo
  <2>5. QED
    BY <2>1, <2>4
<1>6. /\ cpu'.pc = a + 1 /\ cpu'.cpsr = cpu.cpsr
      /\ UNCHANGED <<tick, ran, queue>>
  BY <1>1, <1>3, <1>4 DEF stmdb_sp, Then, Memory, devices, kernel, RegistersInPlace, IsMap, Fields
<1>7. RegistersInPlace'
  BY <1>1, <1>3 DEF stmdb_sp, Then, RegistersInPlace, IsMap, Fields
<1>8. Runs(a + 1)'
  BY <1>1, <1>3, <1>6, RunsOn DEF Level
<1>9. Keeps(a + 1)'
  BY <1>1, <1>3, <1>5, <1>6, Widths DEF Keeps, Level, Along, Row
<1>10. QED
  BY <1>6, <1>7, <1>8, <1>9, NobodyElse, Arrives

LEMMA ldmia_sp_Balanced == Balanced /\ ldmia_sp => Balanced'
<1> SUFFICES ASSUME Balanced, ldmia_sp, NEW a, a = cpu.pc  PROVE Balanced'
  OBVIOUS
<1>1. /\ RegistersInPlace /\ Runs(a) /\ Keeps(a)
      /\ Along(a, a + 1) /\ Row(a, CtxWords, "top") /\ Row(a + 1, GprWords, "r0") /\ Link(a + 1) = 0
  BY Fetched DEF ldmia_sp, LocatedAs, InHandler
<1> DEFINE words == Drop(2)
           m == ModeAt(a)
<1>2. SetStack(words)
  BY DEF ldmia_sp
<1> HIDE DEF words
<1>3. /\ IsMap(stk', Modes) /\ stk'[m] = words
      /\ \A k \in Modes \ {m} : stk'[k] = stk[k]
      /\ m \in Modes /\ Stack = stk[m]
  BY <1>1, <1>2, StackSet
<1>4. IsMap(stk[m], 1 .. Height(a))
  BY <1>1 DEF Keeps
<1>5. IsMap(words, 1 .. GprWords)
  <2>1. CtxWords \in Nat /\ 2 \in 0 .. CtxWords /\ CtxWords - 2 = GprWords
    BY DEF CtxWords, GprWords, Gprs
  <2>2. IsMap(Stack, 1 .. CtxWords)
    BY <1>1, <1>3, <1>4 DEF Row
  <2>3. IsMap(words, 1 .. CtxWords - 2)
    BY <2>1, <2>2, Dropped DEF words, Drop
  <2>4. QED
    BY <2>1, <2>3
<1>6. /\ cpu'.pc = a + 1 /\ cpu'.cpsr = cpu.cpsr /\ cpu'.gpr[1] = stk[m][1]
      /\ UNCHANGED <<tick, ran, queue>>
  BY <1>1, <1>3, <1>4 DEF ldmia_sp, Then, Memory, devices, kernel, RegistersInPlace, IsMap, Fields, Word, Row, CtxWords, GprWords, Gprs
<1>7. RegistersInPlace'
  BY <1>1, <1>3 DEF ldmia_sp, Then, RegistersInPlace, IsMap, Fields
<1>8. Runs(a + 1)'
  BY <1>1, <1>3, <1>6, RunsOn DEF Level
<1>9. Keeps(a + 1)'
  BY <1>1, <1>3, <1>5, <1>6, Widths DEF Keeps, Level, Along, Row
<1>10. QED
  BY <1>6, <1>7, <1>8, <1>9, NobodyElse, Arrives

LEMMA push_lr_Balanced == Balanced /\ push_lr => Balanced'
<1> SUFFICES ASSUME Balanced, push_lr, NEW a, a = cpu.pc  PROVE Balanced'
  OBVIOUS
<1>1. /\ RegistersInPlace /\ Runs(a) /\ Keeps(a)
      /\ Along(a, a + 1) /\ Link(a) = ReturnFrom(a + 1) /\ Link(a) # 0 /\ Link(a + 1) = 0
      /\ Height(a) = CtxWords /\ Height(a + 1) = CtxWords + 1
      /\ <<Place(a), Place(a + 1)>> \in {<<"top", "second">>, <<"nowhere", "nowhere">>}
  BY Fetched DEF push_lr, LocatedAs, InHandler
<1> DEFINE words == <<cpu.lr[Mode]>> \o Stack
           m == ModeAt(a)
<1>2. SetStack(words)
  BY DEF push_lr
<1> HIDE DEF words
<1>3. /\ IsMap(stk', Modes) /\ stk'[m] = words
      /\ \A k \in Modes \ {m} : stk'[k] = stk[k]
      /\ m \in Modes /\ Stack = stk[m]
  BY <1>1, <1>2, StackSet
<1>4. IsMap(stk[m], 1 .. Height(a))
  BY <1>1 DEF Keeps
<1>5. IsMap(words, 1 .. CtxWords + 1) /\ words[1] = cpu.lr[m] /\ words[2] = stk[m][1]
  <2>1. CtxWords \in Nat /\ 1 \in 1 .. CtxWords /\ 1 + 1 = 2
    BY DEF CtxWords, GprWords, Gprs
  <2>2. IsMap(Stack, 1 .. CtxWords) /\ Mode = m
    BY <1>1, <1>3, <1>4 DEF Runs
  <2>3. /\ IsMap(words, 1 .. CtxWords + 1) /\ words[1] = cpu.lr[Mode]
        /\ \A k \in 1 .. CtxWords : words[k + 1] = Stack[k]
    <3>1. words = Push(cpu.lr[Mode], Stack)
      BY DEF words, Push
    <3>2. QED
      BY <2>1, <2>2, <3>1, Pushed
  <2>4. QED
    BY <1>3, <2>1, <2>2, <2>3
<1>6. /\ cpu'.pc = a + 1 /\ cpu'.cpsr = cpu.cpsr
      /\ UNCHANGED <<tick, ran, queue>>
  BY <1>1, <1>3, <1>4 DEF push_lr, Then, Memory, devices, kernel, RegistersInPlace, IsMap, Fields
<1>7. RegistersInPlace'
  BY <1>1, <1>3 DEF push_lr, Then, RegistersInPlace, IsMap, Fields
<1>8. Runs(a + 1)'
  BY <1>1, <1>3, <1>6, RunsOn DEF Level
<1>9. Keeps(a + 1)'
  BY <1>1, <1>3, <1>5, <1>6, Widths DEF Keeps, Level, Along, Row
<1>10. QED
  BY <1>6, <1>7, <1>8, <1>9, NobodyElse, Arrives

LEMMA pop_pc_Balanced == Balanced /\ pop_pc => Balanced'
<1> SUFFICES ASSUME Balanced, pop_pc, NEW a, a = cpu.pc  PROVE Balanced'
  OBVIOUS
<1>1. /\ RegistersInPlace /\ Runs(a) /\ Keeps(a)
      /\ Along(a, ReturnFrom(a)) /\ Row(a, CtxWords + 1, "second")
      /\ Row(ReturnFrom(a), CtxWords, "top") /\ Link(ReturnFrom(a)) = 0
  BY Fetched DEF pop_pc, LocatedAs, InHandler
<1> DEFINE words == Drop(1)
           m == ModeAt(a)
<1>2. SetStack(words)
  BY DEF pop_pc
<1> HIDE DEF words
<1>3. /\ IsMap(stk', Modes) /\ stk'[m] = words
      /\ \A k \in Modes \ {m} : stk'[k] = stk[k]
      /\ m \in Modes /\ Stack = stk[m]
  BY <1>1, <1>2, StackSet
<1>4. IsMap(stk[m], 1 .. Height(a))
  BY <1>1 DEF Keeps
<1>5. IsMap(words, 1 .. CtxWords) /\ words[1] = stk[m][2]
  <2> DEFINE c == CtxWords + 1
  <2>1. c \in Nat /\ 1 \in 0 .. c /\ c - 1 = CtxWords /\ 1 \in 1 .. CtxWords /\ 1 + 1 = 2
    BY DEF CtxWords, GprWords, Gprs
  <2>2. IsMap(Stack, 1 .. c)
    BY <1>1, <1>3, <1>4 DEF Row
  <2> HIDE DEF c
  <2>3. /\ IsMap(words, 1 .. c - 1)
        /\ \A k \in 1 .. c - 1 : words[k] = Stack[1 + k]
    BY <2>1, <2>2, Dropped DEF words, Drop
  <2>4. QED
    BY <1>3, <2>1, <2>3
<1>6. /\ cpu'.pc = ReturnFrom(a) /\ cpu'.cpsr = WithFlags(cpu.cpsr, JunkFlags) /\ JunkFlags \in 0 .. 3
      /\ UNCHANGED <<tick, ran, queue>>
  BY <1>1, <1>3, <1>4 DEF pop_pc, Then, Memory, devices, kernel, RegistersInPlace, IsMap, Fields, Word, Row, Keeps, CtxWords, GprWords, Gprs, JunkFlags
<1>7. RegistersInPlace'
  BY <1>1, <1>3 DEF pop_pc, Then, RegistersInPlace, IsMap, Fields
<1>8. Runs(ReturnFrom(a))'
  BY <1>1, <1>3, <1>6, FlagsRunOn
<1>9. Keeps(ReturnFrom(a))'
  BY <1>1, <1>3, <1>5, <1>6, Widths DEF Keeps, Level, Along, Row
<1>10. QED
  BY <1>6, <1>7, <1>8, <1>9, NobodyElse, Arrives

(***************************************************************************)
(* The C functions, which fill the frame, and the ready queue.             *)
(***************************************************************************)
LEMMA SequenceOfItsOwn ==
  ASSUME NEW S, NEW s \in Seq(S)
  PROVE  IsSequence(s)
BY DEF IsSequence

LEMMA Enqueued ==
  ASSUME NEW q, WaitIn(q), NEW r, Frame(r.frame)
  PROVE  WaitIn(Append(q, r))
<1> DEFINE S == {q[i] : i \in DOMAIN q} \cup {r}
<1>1. q \in Seq(S) /\ r \in S
  BY DEF WaitIn, IsSequence
<1> HIDE DEF S
<1>2. /\ Append(q, r) \in Seq(S) /\ Len(Append(q, r)) = Len(q) + 1
      /\ \A i \in 1 .. Len(q) : Append(q, r)[i] = q[i]
      /\ Append(q, r)[Len(q) + 1] = r
  BY <1>1, AppendProperties
<1>3. DOMAIN Append(q, r) = 1 .. Len(q) + 1 /\ DOMAIN q = 1 .. Len(q) /\ Len(q) \in Nat
  BY <1>1, <1>2
<1>4. \A i \in DOMAIN Append(q, r) : Frame(Append(q, r)[i].frame)
  BY <1>2, <1>3 DEF WaitIn
<1>5. IsSequence(Append(q, r))
  BY <1>2, SequenceOfItsOwn
<1>6. QED
  BY <1>4, <1>5 DEF WaitIn

LEMMA Dequeued ==
  ASSUME NEW q, WaitIn(q), q # <<>>
  PROVE  Frame(q[1].frame) /\ WaitIn(Tail(q))
<1> DEFINE S == {q[i] : i \in DOMAIN q}
<1>1. q \in Seq(S)
  BY DEF WaitIn, IsSequence
<1> HIDE DEF S
<1>2. DOMAIN q = 1 .. Len(q) /\ Len(q) \in Nat /\ Len(q) # 0
  BY <1>1
<1>3. /\ Tail(q) \in Seq(S) /\ Len(Tail(q)) = Len(q) - 1
      /\ \A i \in 1 .. Len(q) - 1 : Tail(q)[i] = q[i + 1]
  BY <1>1, <1>2
<1>4. DOMAIN Tail(q) = 1 .. Len(q) - 1
  BY <1>2, <1>3
<1>5. \A i \in DOMAIN Tail(q) : Frame(Tail(q)[i].frame)
  BY <1>2, <1>3, <1>4 DEF WaitIn
<1>6. IsSequence(Tail(q))
  BY <1>3, SequenceOfItsOwn
<1>7. QED
  BY <1>2, <1>5, <1>6 DEF WaitIn

LEMMA ProcessFrame == \A id, main_fn : Frame(create_process(id, main_fn))
<1> SUFFICES ASSUME NEW id, NEW main_fn  PROVE Frame(create_process(id, main_fn))
  OBVIOUS
<1> DEFINE zeros == [i \in 1 .. Gprs |-> 0]
           low   == PushTwo(80, main_fn, zeros)
           high  == <<id - 1, 0>>
<1>1. IsMap(zeros, 1 .. Gprs) /\ IsMap(high, 1 .. 2)
  BY DEF IsMap
<1>2. create_process(id, main_fn) = low \o high
  BY DEF create_process, PushTwo
<1> HIDE DEF zeros, high
<1>3. IsMap(low, 1 .. GprWords) /\ low[1] = 80
  <2>1. IsMap(low, 1 .. Gprs + 2) /\ low[1] = 80
    BY <1>1, Widths, PushedTwo
  <2>2. QED
    BY <2>1, Widths
<1> HIDE DEF low
<1>4. 1 \in 1 .. GprWords
  BY DEF GprWords, Gprs
<1>5. GprWords \in Nat /\ GprWords + 2 = CtxWords
  BY Widths
<1>6. IsMap(low \o high, 1 .. GprWords + 2)
  BY <1>1, <1>3, <1>5, Concatenated, ZenonT(30)
<1>7. Join(low, high)[1] = low[1]
  <2>1. PICK n \in Nat : IsMap(high, 1 .. n)
    BY <1>1
  <2>2. QED
    BY <1>3, <1>4, <1>5, <2>1, OnTop
<1>8. QED
  BY <1>2, <1>3, <1>5, <1>6, <1>7 DEF Frame, UserStatuses, Statuses, Join

\* The frame that a C function finds is that of a user.
LEMMA ContextFound ==
  ASSUME NEW a, Runs(a), Keeps(a), Row(a, CtxWords + 1, "second")
  PROVE  Frame(ctx)
<1> DEFINE c == CtxWords + 1
<1>1. c \in Nat /\ 1 \in 0 .. c /\ c - 1 = CtxWords /\ 1 + 1 = 2
  BY Widths
<1>2. IsMap(Stack, 1 .. c) /\ Stack[2] \in UserStatuses
  BY DEF Runs, Keeps, Row, Stack
<1> HIDE DEF c
<1>3. Len(Stack) = c
  BY <1>1, <1>2, WordsAreSequence
<1>4. LET d == SubSeq(Stack, 1 + 1, Len(Stack)) IN
      IsMap(d, 1 .. c - 1) /\ \A i \in 1 .. c - 1 : d[i] = Stack[1 + i]
  BY <1>1, <1>2, Dropped
<1>5. SubSeq(Stack, 1 + 1, Len(Stack)) = ctx
  BY <1>1, <1>3 DEF ctx, c
<1>6. QED
  BY <1>1, <1>2, <1>4, <1>5, Widths DEF Frame

\* Calls change registers in it, never cpsr.
LEMMA FrameKept ==
  ASSUME NEW f, Frame(f), NEW i, i # 1, NEW v
  PROVE  Frame([f EXCEPT ![i] = v])
<1> DEFINE g == [f EXCEPT ![i] = v]
<1>1. DOMAIN f = 1 .. CtxWords /\ f[1] \in UserStatuses /\ 1 \in 1 .. CtxWords
  BY Widths DEF Frame, IsMap
<1>2. DOMAIN g = 1 .. CtxWords /\ g[1] \in UserStatuses
  BY <1>1
<1>3. g = [x \in 1 .. CtxWords |-> g[x]]
  BY <1>1
<1> HIDE DEF g
<1>4. Frame(g)
  BY <1>2, <1>3 DEF Frame, IsMap
<1>5. QED
  BY <1>4 DEF g

\* Setting it to a user's context keeps the balance.
LEMMA ContextSet ==
  ASSUME NEW a, a = cpu.pc, RegistersInPlace, Runs(a), Keeps(a), Height(a) = CtxWords + 1,
         Level(a, a + 1), Row(a + 1, CtxWords + 1, "second"), Link(a + 1) = 0,
         NEW frame, Frame(frame), SetCtx(frame), Then(cpu), UNCHANGED <<tick, ran>>, FramesWait'
  PROVE  Balanced'
<1> DEFINE c == CtxWords + 1
           high == Drop(CtxWords + 1)
           low == Push(Stack[1], frame)
           words == low \o high
           m == ModeAt(a)
<1>1. SetStack(words)
  BY DEF SetCtx, Push
<1>2. c \in Nat /\ c \in 0 .. c /\ c - c = 0 /\ c + 0 = c /\ 1 \in 1 .. c /\ 2 \in 1 .. c
      /\ 1 \in 1 .. CtxWords /\ 1 + 1 = 2
  BY Widths
<1> HIDE DEF words
<1>3. /\ IsMap(stk', Modes) /\ stk'[m] = words
      /\ \A k \in Modes \ {m} : stk'[k] = stk[k]
      /\ m \in Modes /\ Stack = stk[m]
  BY <1>1, StackSet
<1>4. IsMap(Stack, 1 .. c)
  BY <1>3 DEF Keeps
<1>5. high = SubSeq(Stack, c + 1, Len(Stack))
  BY DEF Drop
<1> HIDE DEF c, high
<1>6. IsMap(high, 1 .. 0)
  <2>1. IsMap(high, 1 .. c - c)
    BY <1>2, <1>4, <1>5, Dropped
  <2>2. QED
    BY <1>2, <2>1
<1>7. IsMap(low, 1 .. c) /\ low[1] = Stack[1] /\ low[2] \in UserStatuses
  <2>1. /\ IsMap(low, 1 .. CtxWords + 1) /\ low[1] = Stack[1]
        /\ \A k \in 1 .. CtxWords : low[k + 1] = frame[k]
    BY Pushed, Widths DEF Frame
  <2>2. low[2] = frame[1]
    BY <1>2, <2>1
  <2>3. QED
    BY <2>1, <2>2 DEF Frame, c
<1> HIDE DEF low
<1>8. IsMap(words, 1 .. c) /\ words[1] = Stack[1] /\ words[2] \in UserStatuses
  <2>1. IsMap(words, 1 .. c + 0)
    BY <1>2, <1>6, <1>7, Concatenated DEF words
  <2>2. words = Join(low, high)
    BY DEF words, Join
  <2>3. Join(low, high)[1] = low[1] /\ Join(low, high)[2] = low[2]
    BY <1>2, <1>6, <1>7, OnTop
  <2>4. QED
    BY <1>2, <1>7, <2>1, <2>2, <2>3
<1>9. cpu'.pc = a + 1 /\ cpu'.cpsr = cpu.cpsr
  BY DEF Then, RegistersInPlace, IsMap, Fields
<1>10. RegistersInPlace'
  BY <1>3 DEF Then, RegistersInPlace, IsMap, Fields
<1>11. Runs(a + 1)'
  BY <1>3, <1>9, RunsOn DEF Level
<1>12. Stack[1] = ReturnFrom(a)
  BY <1>3 DEF Keeps
<1>13. Keeps(a + 1)'
  BY <1>3, <1>8, <1>12 DEF Keeps, Level, Along, Row, c
<1>14. QED
  BY <1>9, <1>10, <1>11, <1>13, Arrives

LEMMA svc_write_Balanced == Balanced /\ svc_write => Balanced'
<1> SUFFICES ASSUME Balanced, svc_write, NEW a, a = cpu.pc  PROVE Balanced'
  OBVIOUS
<1>1. /\ RegistersInPlace /\ FramesWait /\ Runs(a) /\ Keeps(a)
      /\ Level(a, a + 1) /\ Row(a, CtxWords + 1, "second") /\ Row(a + 1, CtxWords + 1, "second")
      /\ Link(a + 1) = 0
  BY Fetched DEF svc_write, Switch, LocatedAs, InHandler
<1>2. Frame(ctx)
  BY <1>1, ContextFound
<1> DEFINE frame == [ctx EXCEPT ![3] = ctx[5]]
<1>3. Frame(frame)
  BY <1>2, FrameKept
<1>4. SetCtx(frame) /\ Then(cpu) /\ UNCHANGED <<tick, ran>>
  BY DEF svc_write, devices
<1>5. FramesWait'
  BY NobodyElse DEF svc_write, kernel
<1> HIDE DEF frame
<1>6. QED
  BY <1>1, <1>3, <1>4, <1>5, ContextSet DEF Row

LEMMA svc_exec_Balanced == Balanced /\ svc_exec => Balanced'
<1> SUFFICES ASSUME Balanced, svc_exec, NEW a, a = cpu.pc  PROVE Balanced'
  OBVIOUS
<1>1. /\ RegistersInPlace /\ FramesWait /\ Runs(a) /\ Keeps(a)
      /\ Level(a, a + 1) /\ Row(a, CtxWords + 1, "second") /\ Row(a + 1, CtxWords + 1, "second")
      /\ Link(a + 1) = 0
  BY Fetched DEF svc_exec, Switch, LocatedAs, InHandler
<1>2. Frame(ctx)
  BY <1>1, ContextFound
<1> DEFINE frame == [ctx EXCEPT ![2] = ctx[3], ![Gprs + 3] = curr_prog - 1]
<1>3. Frame(frame)
  <2>1. Frame([ctx EXCEPT ![2] = ctx[3]]) /\ Gprs + 3 # 1
    BY <1>2, FrameKept DEF Gprs
  <2>2. frame = [[ctx EXCEPT ![2] = ctx[3]] EXCEPT ![Gprs + 3] = curr_prog - 1]
    OBVIOUS
  <2> HIDE DEF frame
  <2>3. QED
    BY <2>1, <2>2, FrameKept
<1>4. SetCtx(frame) /\ Then(cpu) /\ UNCHANGED <<tick, ran>>
  BY DEF svc_exec, devices
<1>5. FramesWait'
  BY NobodyElse DEF svc_exec, kernel
<1> HIDE DEF frame
<1>6. QED
  BY <1>1, <1>3, <1>4, <1>5, ContextSet DEF Row

LEMMA svc_fork_Balanced == Balanced /\ svc_fork => Balanced'
<1> SUFFICES ASSUME Balanced, svc_fork, NEW a, a = cpu.pc  PROVE Balanced'
  OBVIOUS
<1>1. /\ RegistersInPlace /\ FramesWait /\ Runs(a) /\ Keeps(a)
      /\ Level(a, a + 1) /\ Row(a, CtxWords + 1, "second") /\ Row(a + 1, CtxWords + 1, "second")
      /\ Link(a + 1) = 0
  BY Fetched DEF svc_fork, Switch, LocatedAs, InHandler
<1>2. Frame(ctx)
  BY <1>1, ContextFound
<1> DEFINE frame == [ctx EXCEPT ![3] = curr_pid]
<1> DEFINE child == [ctx EXCEPT ![3] = 0, ![Gprs + 3] = @ + curr_pid - curr_prog]
           r == [pid |-> curr_pid, frame |-> child]
<1>3. Frame(frame) /\ Frame(child)
  <2> DEFINE zero == [ctx EXCEPT ![3] = 0]
  <2>1. Frame(frame)
    BY <1>2, FrameKept
  <2>2. Frame(zero)
    BY <1>2, FrameKept
  <2>3. child = [zero EXCEPT ![Gprs + 3] = ctx[Gprs + 3] + curr_pid - curr_prog]
    OBVIOUS
  <2>4. Gprs + 3 # 1
    BY DEF Gprs
  <2> HIDE DEF zero, child, frame
  <2>5. Frame(child)
    BY <2>2, <2>3, <2>4, FrameKept
  <2>6. QED
    BY <2>1, <2>5
<1>4. SetCtx(frame) /\ Then(cpu) /\ UNCHANGED <<tick, ran>>
  BY DEF svc_fork, devices
<1>5. FramesWait'
  <2>1. r.frame = child /\ queue' = Append(queue, r)
    BY DEF svc_fork
  <2> HIDE DEF r, child
  <2>2. Frame(r.frame)
    BY <1>3, <2>1
  <2>3. QED
    BY <1>1, <2>1, <2>2, Enqueued DEF FramesWait
<1> HIDE DEF frame
<1>6. QED
  BY <1>1, <1>3, <1>4, <1>5, ContextSet DEF Row

LEMMA svc_exit_Balanced == Balanced /\ svc_exit => Balanced'
<1> SUFFICES ASSUME Balanced, svc_exit, NEW a, a = cpu.pc  PROVE Balanced'
  OBVIOUS
<1>1. /\ RegistersInPlace /\ FramesWait /\ Runs(a) /\ Keeps(a)
      /\ Level(a, a + 1) /\ Row(a, CtxWords + 1, "second") /\ Row(a + 1, CtxWords + 1, "second")
      /\ Link(a + 1) = 0
  BY Fetched DEF svc_exit, Switch, LocatedAs, InHandler
<1>2. Frame(ctx)
  BY <1>1, ContextFound
<1> DEFINE frame == queue[1].frame
<1>3. Frame(frame) /\ WaitIn(Tail(queue))
  BY <1>1, Dequeued DEF svc_exit, Dispatch, FramesWait
<1>4. SetCtx(frame) /\ Then(cpu) /\ UNCHANGED <<tick, ran>>
  BY DEF svc_exit, devices, Dispatch
<1>5. FramesWait'
  BY <1>3 DEF svc_exit, Dispatch, FramesWait
<1> HIDE DEF frame
<1>6. QED
  BY <1>1, <1>3, <1>4, <1>5, ContextSet DEF Row

LEMMA scheduler_Balanced == Balanced /\ scheduler => Balanced'
<1> SUFFICES ASSUME Balanced, scheduler, NEW a, a = cpu.pc  PROVE Balanced'
  OBVIOUS
<1>1. /\ RegistersInPlace /\ FramesWait /\ Runs(a) /\ Keeps(a)
      /\ Level(a, a + 1) /\ Row(a, CtxWords + 1, "second") /\ Row(a + 1, CtxWords + 1, "second")
      /\ Link(a + 1) = 0
  BY Fetched DEF scheduler, LocatedAs, InHandler
<1>2. Frame(ctx)
  BY <1>1, ContextFound
<1> DEFINE frame == Saved[1].frame
<1>3. Frame(frame) /\ WaitIn(Tail(Saved))
  <2> DEFINE r == [pid |-> curr_prog, frame |-> ctx]
  <2>1. Frame(r.frame) /\ Saved = Append(queue, r)
    BY <1>2 DEF Saved
  <2> HIDE DEF r
  <2>2. WaitIn(Saved)
    BY <1>1, <2>1, Enqueued DEF FramesWait
  <2>3. QED
    BY <2>2, Dequeued DEF scheduler, Dispatch
<1>4. SetCtx(frame) /\ Then(cpu) /\ UNCHANGED <<tick, ran>>
  BY DEF scheduler, devices, Dispatch
<1>5. FramesWait'
  BY <1>3 DEF scheduler, Dispatch, FramesWait
<1> HIDE DEF frame
<1>6. QED
  BY <1>1, <1>3, <1>4, <1>5, ContextSet DEF Row

LEMMA create_Balanced == Balanced /\ create => Balanced'
<1> SUFFICES ASSUME Balanced, create, NEW a, a = cpu.pc  PROVE Balanced'
  OBVIOUS
<1>1. /\ RegistersInPlace /\ Runs(a) /\ Keeps(a)
      /\ Level(a, a + 1) /\ Row(a, CtxWords + 1, "nowhere") /\ Row(a + 1, CtxWords + 1, "second")
      /\ Link(a + 1) = 0
  BY Fetched DEF create, LocatedAs, InHandler
<1> DEFINE frame == create_process(curr_pid, main_console)
<1>2. Frame(frame)
  BY ProcessFrame
<1>3. SetCtx(frame) /\ Then(cpu) /\ UNCHANGED <<tick, ran>>
  BY DEF create, devices
<1>4. FramesWait'
  BY DEF create, FramesWait, WaitIn, IsSequence
<1> HIDE DEF frame
<1>5. QED
  BY <1>1, <1>2, <1>3, <1>4, ContextSet DEF Row

(***************************************************************************)
(* Exceptions and programs.                                                *)
(***************************************************************************)
LEMMA InUserMode ==
  ASSUME Balanced
  PROVE  /\ InProgram => User /\ Mode = USR /\ ~Masked(cpu.cpsr)
         /\ ~InProgram => Runs(cpu.pc) /\ Keeps(cpu.pc) /\ ~User
<1>1. InProgram => User /\ Mode = USR /\ ~Masked(cpu.cpsr)
  BY StatusOf DEF InProgram, User, Mode
<1>2. ~InProgram => Runs(cpu.pc) /\ Keeps(cpu.pc) /\ ~User
  BY DEF Balanced, InHandler, Runs, User, ModeAt, USR, SVC, IRQ
<1>3. QED
  BY <1>1, <1>2

\* Nothing interrupts a handler.
LEMMA HandlersUninterrupted ==
  ASSUME Balanced, Interrupted
  PROVE  InProgram
<1> SUFFICES ASSUME ~InProgram  PROVE FALSE
  OBVIOUS
<1>1. tick /\ ~Masked(cpu.cpsr) /\ Runs(cpu.pc)
  BY InUserMode DEF Interrupted
<1>2. cpu.cpsr \in Statuses(211) \/ cpu.cpsr \in Statuses(210)
  BY <1>1 DEF Runs, Undisturbed, ModeAt, SVC, IRQ
<1>3. Masked(211) /\ Masked(210)
  BY DEF Masked
<1>4. QED
  BY <1>1, <1>2, <1>3, StatusBits

\* A program enters a handler of mode m with the stacks empty.
LEMMA Enters ==
  ASSUME Balanced, InProgram, NEW m \in Modes, NEW return, Exception(m, return),
         UNCHANGED <<stk, queue>>
  PROVE  Balanced'
<1> DEFINE b == Vector(m)
<1>1. RegistersInPlace'
  BY DEF Balanced, RegistersInPlace, Exception, IsMap, Fields
<1>2. /\ cpu'.pc = b /\ cpu'.cpsr = Entered(m) /\ cpu'.spsr[m] = cpu.cpsr
  BY DEF Balanced, RegistersInPlace, Exception, IsMap, Fields
<1>3. cpu.cpsr \in Statuses(80) /\ Mode = 16 /\ ~Masked(cpu.cpsr)
  BY InUserMode DEF InProgram, UserStatuses, USR
<1>4. cpu'.cpsr \in Statuses(192 + m) /\ m \in {18, 19}
  BY <1>2, <1>3 DEF Entered, Modes, SVC, IRQ, Statuses
<1>5. At(b, m, 0, "spsr", 0, IF m = SVC THEN 2007 ELSE 3006)
  BY SvcHandlerRows, IrqHandlerRows DEF Vector, Modes, SVC, IRQ, lolevel_handler_svc, lolevel_handler_irq
<1>6. ~Early(b)
  BY <1>5 DEF At
<1>7. Mode' = m
  BY <1>4, StatusBits DEF Mode, ModeOf
<1> HIDE DEF b
<1>8. Runs(b)'
  BY <1>2, <1>4, <1>5, <1>6, <1>7 DEF Runs, Undisturbed, At, InProgram
<1>9. Keeps(b)'
  BY <1>2, <1>3, <1>5, NoWords, Widths DEF Keeps, At, Row, InProgram, UserStatuses
<1>10. FramesWait'
  BY NobodyElse
<1>11. QED
  BY <1>1, <1>2, <1>8, <1>9, <1>10, Arrives

LEMMA TakeIrq_Balanced == Balanced /\ TakeIrq => Balanced'
BY HandlersUninterrupted, Enters DEF TakeIrq, memory, kernel, Modes

LEMMA TakeSvc_Balanced == Balanced /\ TakeSvc => Balanced'
BY InUserMode, Enters DEF TakeSvc, memory, kernel, Modes

LEMMA UserInstruction_Balanced == Balanced /\ UserInstruction => Balanced'
<1> SUFFICES ASSUME Balanced, UserInstruction  PROVE Balanced'
  OBVIOUS
<1>1. InProgram /\ RegistersInPlace
  BY InUserMode DEF UserInstruction, Balanced
<1>2. IsContext(Live)
  <2>1. FlagsOf(cpu.cpsr) \in 0 .. 3
    BY <1>1, StatusOf DEF InProgram
  <2>2. QED
    BY <1>1, <2>1 DEF IsContext, IsMap, Live, RegistersInPlace
<1> DEFINE c == After(Live)
<1>3. IsContext(c)
  BY <1>2, AfterKeepsRegisters
<1>4. /\ cpu' = [cpu EXCEPT !.pc = c.pc, !.gpr = c.gpr, !.sp = c.sp, !.lr[USR] = c.lr,
                            !.cpsr = WithFlags(@, c.flags)]
      /\ UNCHANGED <<stk, queue>>
  BY DEF UserInstruction, memory, kernel
<1> HIDE DEF c
<1>5. RegistersInPlace'
  BY <1>1, <1>3, <1>4 DEF IsContext, RegistersInPlace, IsMap, Fields
<1>6. InProgram'
  <2>1. c.flags \in 0 .. 3 /\ cpu'.cpsr = WithFlags(cpu.cpsr, c.flags)
    BY <1>1, <1>3, <1>4 DEF IsContext, RegistersInPlace, IsMap, Fields
  <2>2. QED
    BY <1>1, <1>4, <2>1, StatusBits DEF InProgram, UserStatuses
<1>7. QED
  BY <1>4, <1>5, <1>6, NobodyElse DEF Balanced

\* The timer does not run out before the first program executes.
LEMMA TimerExpires_Balanced == Balanced /\ TimerExpires => Balanced'
<1> SUFFICES ASSUME Balanced, TimerExpires  PROVE Balanced'
  OBVIOUS
<1>1. UNCHANGED <<cpu, stk, queue>> /\ ran
  BY DEF TimerExpires, memory, kernel
<1>2. RegistersInPlace' /\ FramesWait'
  BY <1>1, NobodyElse DEF Balanced, RegistersInPlace
<1>3. CASE InProgram
  BY <1>1, <1>2, <1>3 DEF Balanced, InProgram
<1>4. CASE ~InProgram
  <2> SUFFICES ASSUME NEW a, a = cpu.pc  PROVE Balanced'
    OBVIOUS
  <2>1. Runs(a) /\ Keeps(a)
    BY <1>4, InUserMode
  <2>2. Runs(a)'
    BY <1>1, <2>1 DEF Runs, Undisturbed, Mode
  <2>3. Keeps(a)'
    BY <1>1, <2>1 DEF Keeps
  <2>4. QED
    BY <1>1, <1>2, <2>2, <2>3, Arrives
<1>5. QED
  BY <1>3, <1>4

(***************************************************************************)
(* The theorem.                                                            *)
(***************************************************************************)
LEMMA StartsBalanced == Init => Balanced
<1> SUFFICES ASSUME Init  PROVE Balanced
  OBVIOUS
<1>1. At(1100, SVC, 0, "nowhere", 0, 1107)
  BY RstHandlerRows
<1>2. RegistersInPlace
  BY DEF Init, RegistersInPlace, IsMap, Fields
<1>3. WaitIn(queue)
  BY DEF Init, WaitIn, IsSequence
<1>4. cpu.cpsr = 192 + SVC /\ cpu.pc = 1100 /\ ~tick /\ ~ran
  BY DEF Init, SVC, lolevel_handler_rst
<1>5. Mode = SVC
  BY <1>4 DEF Mode, ModeOf, SVC
<1>6. \A m \in Modes : stk[m] = <<>>
  BY DEF Init
<1>7. Runs(1100)
  BY <1>1, <1>4, <1>5, <1>6 DEF Runs, Undisturbed, At, Statuses
<1>8. SVC \in Modes
  BY DEF Modes
<1>9. Keeps(1100)
  BY <1>1, <1>6, <1>8, NoWords, Widths DEF Keeps, At, Row
<1>10. QED
  BY <1>2, <1>3, <1>4, <1>7, <1>9 DEF Balanced, FramesWait, InHandler

LEMMA StaysBalanced == Balanced /\ [Next]_vars => Balanced'
<1> SUFFICES ASSUME Balanced, [Next]_vars  PROVE Balanced'
  OBVIOUS
<1>1. CASE UNCHANGED vars
  <2>1. UNCHANGED <<cpu, stk, tick, ran, queue>>
    BY <1>1 DEF vars, memory, devices, kernel
  <2>2. RegistersInPlace' /\ FramesWait'
    BY <2>1, NobodyElse DEF Balanced, RegistersInPlace
  <2>3. CASE InProgram
    BY <2>1, <2>2, <2>3 DEF Balanced, InProgram
  <2>4. CASE ~InProgram
    <3> SUFFICES ASSUME NEW a, a = cpu.pc  PROVE Balanced'
      OBVIOUS
    <3>1. Runs(a) /\ Keeps(a)
      BY <2>4, InUserMode
    <3>2. Runs(a)'
      BY <2>1, <3>1 DEF Runs, Undisturbed, Mode
    <3>3. Keeps(a)'
      BY <2>1, <3>1 DEF Keeps
    <3>4. QED
      BY <2>1, <2>2, <3>2, <3>3, Arrives
  <2>5. QED
    BY <2>3, <2>4
<1>2. CASE Next
  BY <1>2,
     bl_Balanced, mov_pc_lr_Balanced, copy_Balanced, msr_cpsr_Balanced, enable_Balanced,
     ldr_sp_Balanced, sub_sp_Balanced, add_sp_Balanced, sub_lr_Balanced, stmia_user_Balanced,
     ldmia_user_Balanced, mrs_spsr_Balanced, msr_spsr_Balanced, stmdb_sp_Balanced,
     ldmia_sp_Balanced, ldr_svc_Balanced, movs_pc_Balanced, push_lr_Balanced, pop_pc_Balanced,
     create_Balanced, configure_Balanced, IAR_Balanced, IntClr_Balanced, EOIR_Balanced,
     scheduler_Balanced, svc_write_Balanced, svc_fork_Balanced, svc_exit_Balanced,
     svc_exec_Balanced, TakeIrq_Balanced, TakeSvc_Balanced, UserInstruction_Balanced,
     TimerExpires_Balanced, Zenon
     DEF Next, Instruction
<1>3. QED
  BY <1>1, <1>2

\* Between two instructions of a program nothing is left on the stacks of the
\* modes: the handlers pop what they push, on every path, for any programs.
THEOREM StacksAreEmpty == Spec => []StacksEmpty
<1>1. Balanced => StacksEmpty
  BY InUserMode DEF StacksEmpty, InProgram
<1>2. QED
  BY <1>1, StartsBalanced, StaysBalanced, PTL DEF Spec

(***************************************************************************)
(* The rest is about the functions of Programs alone: what weight, gcd and *)
(* is_prime work towards.  weight adds up neighbouring fields of bits with *)
(* the & of a mask, which gives a natural number bit by bit; so the proof  *)
(* takes & apart, shows that each stage works on the two halves of a number*)
(* separately, and counts the bits of twice as many at each stage.         *)
(***************************************************************************)

(***************************************************************************)
(* x & y, which And computes bit by bit.                                   *)
(***************************************************************************)
\* A set of numbers has a least one.
LEMMA LeastOf ==
  ASSUME NEW U, U \subseteq Nat, U # {}
  PROVE  \E n \in U : \A m \in U : n <= m
<1> DEFINE R == OpToRel(<, Nat)
<1>1. IsWellFoundedOn(R, Nat)
  BY NatLessThanWellFounded
<1>2. PICK n \in U : \A m \in U : ~(<<m, n>> \in R)
  BY <1>1, WFMin
<1>3. \A m \in U : ~(m < n)
  BY <1>2 DEF OpToRel
<1> QED
  BY <1>3

\* x & y, if f is the same for half of x and y.
Anded(f, p) ==
  IF 0 \in {p[1], p[2]} THEN 0
  ELSE (p[1] % 2) * (p[2] % 2) + 2 * f[<<p[1] \div 2, p[2] \div 2>>]

\* Pairs whose first number is below n, and & for them.
Below(n) == {p \in Nat \X Nat : p[1] < n}

IsAnd(f, n) == f = [p \in Below(n) |-> Anded(f, p)]

\* Half of the numbers is a smaller pair.
LEMMA HalfBelow ==
  ASSUME NEW n \in Nat, NEW p \in Below(n + 1), ~ 0 \in {p[1], p[2]}
  PROVE  <<p[1] \div 2, p[2] \div 2>> \in Below(n)
<1>1. p[1] \in Nat /\ p[2] \in Nat /\ p[1] # 0 /\ p[1] < n + 1
  BY DEF Below
<1>2. p[1] \div 2 \in Nat /\ p[2] \div 2 \in Nat /\ p[1] \div 2 < n
  BY <1>1
<1> QED
  BY <1>2 DEF Below

\* Two such functions agree where both are defined.
LEMMA AndUnique ==
  ASSUME NEW n \in Nat, NEW m \in Nat, NEW f, IsAnd(f, n), NEW g, IsAnd(g, m), n <= m
  PROVE  \A p \in Below(n) : f[p] = g[p]
<1> DEFINE U == {k \in Nat : \E p \in Below(n) : p[1] = k /\ f[p] # g[p]}
<1> SUFFICES ASSUME U # {} PROVE FALSE
  BY DEF Below
<1>1. PICK k \in U : \A l \in U : k <= l
  <2>1. U \subseteq Nat
    OBVIOUS
  <2> HIDE DEF U
  <2> QED
    BY <2>1, LeastOf
<1>2. PICK p \in Below(n) : p[1] = k /\ f[p] # g[p]
  BY <1>1
<1>3. f[p] = Anded(f, p)
  BY DEF IsAnd
<1>4. p \in Below(m)
  BY DEF Below
<1>5. g[p] = Anded(g, p)
  BY <1>4 DEF IsAnd
<1>6. ~ 0 \in {p[1], p[2]}
  BY <1>2, <1>3, <1>5 DEF Anded
<1> DEFINE q == <<p[1] \div 2, p[2] \div 2>>
<1>7. f[q] # g[q]
  BY <1>2, <1>3, <1>5 DEF Anded
<1>8. q[1] = p[1] \div 2 /\ p[1] \in Nat /\ p[1] # 0 /\ p \in Below(k + 1) /\ k < n
  BY <1>2, <1>6 DEF Below
<1>9. q \in Below(k)
  BY <1>6, <1>8, HalfBelow
<1> HIDE DEF q
<1>10. q \in Below(n) /\ q[1] \in Nat /\ q[1] < k
  BY <1>8, <1>9 DEF Below
<1>11. q[1] \in U
  BY <1>7, <1>10
<1> QED
  BY <1>1, <1>10, <1>11

\* & can be computed for all pairs below any number.
LEMMA AndRuns == \A n \in Nat : \E f : IsAnd(f, n)
<1> DEFINE U == {n \in Nat : ~ \E f : IsAnd(f, n)}
<1> SUFFICES ASSUME U # {} PROVE FALSE
  OBVIOUS
<1>1. PICK n \in U : \A m \in U : n <= m
  <2>1. U \subseteq Nat
    OBVIOUS
  <2> HIDE DEF U
  <2> QED
    BY <2>1, LeastOf
<1>2. n # 0
  <2> SUFFICES ASSUME n = 0 PROVE FALSE
    OBVIOUS
  <2>1. Below(n) = {}
    BY DEF Below
  <2> DEFINE f == [p \in {} |-> 0]
  <2>2. f = [p \in Below(n) |-> Anded(f, p)]
    BY <2>1
  <2> QED
    BY <1>1, <2>2 DEF IsAnd
<1>3. n - 1 \in Nat /\ n - 1 + 1 = n
  BY <1>2
<1>4. PICK f : IsAnd(f, n - 1)
  <2>1. ~(n <= n - 1)
    BY <1>3
  <2> QED
    BY <1>1, <1>3, <2>1
<1> DEFINE g == [p \in Below(n) |-> Anded(f, p)]
<1>5. \A p \in Below(n - 1) : f[p] = Anded(f, p) /\ p \in Below(n)
  <2>1. \A p \in Below(n - 1) : p \in Below(n)
    BY <1>3 DEF Below
  <2> QED
    BY <1>4, <2>1 DEF IsAnd
<1>6. \A p \in Below(n) : Anded(g, p) = Anded(f, p)
  <2> SUFFICES ASSUME NEW p \in Below(n), ~ 0 \in {p[1], p[2]}
               PROVE  g[<<p[1] \div 2, p[2] \div 2>>] = f[<<p[1] \div 2, p[2] \div 2>>]
    <3> HIDE DEF g
    <3> QED
      BY DEF Anded
  <2>1. <<p[1] \div 2, p[2] \div 2>> \in Below(n - 1)
    BY <1>3, HalfBelow
  <2> QED
    BY <1>5, <2>1
<1>7. IsAnd(g, n)
  <2>1. g = [p \in Below(n) |-> Anded(f, p)]
    OBVIOUS
  <2> HIDE DEF g
  <2> QED
    BY <1>6, <2>1 DEF IsAnd
<1> QED
  BY <1>1, <1>7

\* What & computes is defined for all numbers, and never negative.
LEMMA AndIs ==
  \E f : /\ f = [p \in Nat \X Nat |-> Anded(f, p)]
         /\ \A x, y \in Nat : And(x, y) = f[<<x, y>>]
<1> DEFINE some(p) == CHOOSE f : IsAnd(f, p[1] + 1)
           f == [p \in Nat \X Nat |-> some(p)[p]]
<1>1. \A p \in Nat \X Nat : IsAnd(some(p), p[1] + 1) /\ p \in Below(p[1] + 1) /\ p[1] + 1 \in Nat
  BY AndRuns DEF Below
<1> HIDE DEF some
<1>2. \A p \in Nat \X Nat : f[p] = Anded(f, p)
  <2> SUFFICES ASSUME NEW p \in Nat \X Nat PROVE f[p] = Anded(f, p)
    OBVIOUS
  <2>1. f[p] = Anded(some(p), p)
    BY <1>1 DEF IsAnd
  <2>2. CASE 0 \in {p[1], p[2]}
    BY <2>1, <2>2 DEF Anded
  <2>3. CASE ~ 0 \in {p[1], p[2]}
    <3> DEFINE q == <<p[1] \div 2, p[2] \div 2>>
    <3>1. q \in Below(p[1]) /\ q \in Nat \X Nat /\ p[1] \in Nat /\ q[1] \in Nat /\ q[1] < p[1]
      BY <1>1, <2>3, HalfBelow DEF Below
    <3>2. f[q] = some(q)[q] /\ q \in Below(q[1] + 1) /\ IsAnd(some(q), q[1] + 1)
      BY <1>1, <3>1
    <3>3. IsAnd(some(p), p[1] + 1) /\ q[1] + 1 <= p[1] + 1 /\ q[1] + 1 \in Nat /\ p[1] + 1 \in Nat
      BY <1>1, <3>1
    <3> HIDE DEF q, f
    <3>4. some(q)[q] = some(p)[q]
      BY <3>2, <3>3, AndUnique
    <3> QED
      BY <2>1, <2>3, <3>2, <3>4 DEF Anded, q
  <2> QED
    BY <2>2, <2>3
<1>3. f = [p \in Nat \X Nat |-> f[p]]
  OBVIOUS
<1> HIDE DEF f
<1>4. f = [p \in Nat \X Nat |-> Anded(f, p)]
  BY <1>2, <1>3
<1> DEFINE and == CHOOSE g : g = [p \in Nat \X Nat |-> Anded(g, p)]
<1>5. and = [p \in Nat \X Nat |-> Anded(and, p)]
  BY <1>4
<1>6. \A x, y \in Nat : And(x, y) = and[<<x, y>>]
  BY DEF And, Anded
<1> HIDE DEF and
<1> QED
  BY <1>5, <1>6

LEMMA AndType == \A x, y \in Nat : And(x, y) \in Nat
<1>1. PICK f : /\ f = [p \in Nat \X Nat |-> Anded(f, p)]
               /\ \A x, y \in Nat : And(x, y) = f[<<x, y>>]
  BY AndIs
<1> DEFINE U == {k \in Nat : \E y \in Nat : f[<<k, y>>] \notin Nat}
<1> SUFFICES ASSUME U # {} PROVE FALSE
  <2>1. U = {} => \A k, y \in Nat : f[<<k, y>>] \in Nat
    OBVIOUS
  <2> HIDE DEF U
  <2> QED
    BY <1>1, <2>1
<1>2. PICK k \in U : \A l \in U : k <= l
  <2>1. U \subseteq Nat
    OBVIOUS
  <2> HIDE DEF U
  <2> QED
    BY <2>1, LeastOf
<1>3. PICK y \in Nat : f[<<k, y>>] \notin Nat
  BY <1>2
<1>4. f[<<k, y>>] = Anded(f, <<k, y>>)
  BY <1>1, <1>3
<1>5. CASE k = 0 \/ y = 0
  BY <1>3, <1>4, <1>5 DEF Anded
<1>6. CASE k # 0 /\ y # 0
  <2>1. k \div 2 \in Nat /\ y \div 2 \in Nat /\ k \div 2 < k
    BY <1>6
  <2>2. f[<<k \div 2, y \div 2>>] \in Nat
    BY <1>2, <2>1
  <2>3. (k % 2) * (y % 2) \in Nat
    <3>1. k % 2 \in {0, 1} /\ y % 2 \in {0, 1}
      OBVIOUS
    <3> QED
      BY <3>1
  <2>4. f[<<k, y>>] = (k % 2) * (y % 2) + 2 * f[<<k \div 2, y \div 2>>]
    BY <1>4, <1>6 DEF Anded
  <2> QED
    BY <1>3, <2>2, <2>3, <2>4
<1> QED
  BY <1>5, <1>6

LEMMA AndWithNone == \A x \in Nat : And(0, x) = 0 /\ And(x, 0) = 0
<1>1. PICK f : /\ f = [p \in Nat \X Nat |-> Anded(f, p)]
               /\ \A x, y \in Nat : And(x, y) = f[<<x, y>>]
  BY AndIs
<1>2. \A x, y \in Nat : f[<<x, y>>] = Anded(f, <<x, y>>)
  BY <1>1
<1>3. \A x \in Nat : Anded(f, <<0, x>>) = 0 /\ Anded(f, <<x, 0>>) = 0
  BY DEF Anded
<1> SUFFICES ASSUME NEW x \in Nat, NEW zero \in Nat, zero = 0
             PROVE  And(zero, x) = 0 /\ And(x, zero) = 0
  OBVIOUS
<1>4. And(zero, x) = f[<<zero, x>>] /\ And(x, zero) = f[<<x, zero>>]
  BY <1>1
<1> QED
  BY <1>2, <1>3, <1>4

\* Bit by bit: b and c are the lowest ones.
LEMMA AndOfBits ==
  ASSUME NEW x \in Nat, NEW y \in Nat, NEW b \in {0, 1}, NEW c \in {0, 1}
  PROVE  And(b + 2 * x, c + 2 * y) = b * c + 2 * And(x, y)
<1>1. PICK f : /\ f = [p \in Nat \X Nat |-> Anded(f, p)]
               /\ \A u, v \in Nat : And(u, v) = f[<<u, v>>]
  BY AndIs
<1> DEFINE u == b + 2 * x
           v == c + 2 * y
<1>2. u \in Nat /\ v \in Nat /\ u % 2 = b /\ u \div 2 = x /\ v % 2 = c /\ v \div 2 = y
      /\ (u = 0 => b = 0 /\ x = 0) /\ (v = 0 => c = 0 /\ y = 0)
  OBVIOUS
<1> HIDE DEF u, v
<1>3. f[<<u, v>>] = Anded(f, <<u, v>>)
  BY <1>1, <1>2
<1>4. CASE u = 0 \/ v = 0
  <2>1. And(u, v) = 0
    BY <1>1, <1>2, <1>3, <1>4 DEF Anded
  <2>2. And(x, y) = 0 /\ b * c = 0
    BY <1>2, <1>4, AndWithNone
  <2> QED
    BY <2>1, <2>2 DEF u, v
<1>5. CASE u # 0 /\ v # 0
  <2>1. f[<<u, v>>] = (u % 2) * (v % 2) + 2 * f[<<u \div 2, v \div 2>>]
    BY <1>3, <1>5 DEF Anded
  <2>2. And(u, v) = b * c + 2 * And(x, y)
    BY <1>1, <1>2, <2>1
  <2> QED
    BY <2>2 DEF u, v
<1> QED
  BY <1>4, <1>5

(***************************************************************************)
(* Fields of bits.                                                         *)
(***************************************************************************)
\* With p = 2^w, & with a mask keeps the w lowest bits where the mask has ones, and
\* none where it has zeroes.
Splits(p) ==
  \A l \in 0 .. p - 1 : \A h, k \in Nat :
    /\ And(l + p * h, (p - 1) + p * k) = l + p * And(h, k)
    /\ And(l + p * h, p * k) = p * And(h, k)

LEMMA BitSplits == Splits(2)
<1> SUFFICES ASSUME NEW l \in 0 .. 2 - 1, NEW h \in Nat, NEW k \in Nat
             PROVE  /\ And(l + 2 * h, (2 - 1) + 2 * k) = l + 2 * And(h, k)
                    /\ And(l + 2 * h, 2 * k) = 2 * And(h, k)
  BY DEF Splits
<1>1. l \in {0, 1} /\ 2 - 1 = 1 /\ 0 + 2 * k = 2 * k /\ And(h, k) \in Nat
  BY AndType
<1>2. And(l + 2 * h, 1 + 2 * k) = l * 1 + 2 * And(h, k)
  BY <1>1, AndOfBits
<1>3. And(l + 2 * h, 0 + 2 * k) = l * 0 + 2 * And(h, k)
  BY <1>1, AndOfBits
<1> QED
  BY <1>1, <1>2, <1>3

\* A number below n * p is a number below p and n times one below p.
LEMMA InParts ==
  ASSUME NEW p \in Nat \ {0}, NEW n \in Nat, NEW l \in Nat, l < p * n
  PROVE  \E a \in 0 .. p - 1 : \E b \in 0 .. n - 1 : l = a + p * b
<1> DEFINE a == l % p
           b == l \div p
<1>1. a \in 0 .. p - 1 /\ b \in Nat /\ l = a + p * b
  OBVIOUS
<1> HIDE DEF a, b
<1>2. b < n
  <2> SUFFICES ASSUME b >= n PROVE FALSE
    BY <1>1
  <2>1. p * b >= p * n
    BY <1>1
  <2> QED
    BY <1>1, <2>1
<1> QED
  BY <1>1, <1>2

\* So it is for twice as many bits.
LEMMA SplitsTwice ==
  ASSUME NEW p \in Nat \ {0}, Splits(p)
  PROVE  Splits(p * p)
<1> SUFFICES ASSUME NEW l \in 0 .. p * p - 1, NEW h \in Nat, NEW k \in Nat
             PROVE  /\ And(l + p * p * h, (p * p - 1) + p * p * k) = l + p * p * And(h, k)
                    /\ And(l + p * p * h, p * p * k) = p * p * And(h, k)
  BY DEF Splits
<1>1. PICK a \in 0 .. p - 1, b \in 0 .. p - 1 : l = a + p * b
  <2>1. p * p \in Nat /\ l \in Nat /\ l < p * p
    OBVIOUS
  <2> QED
    BY <2>1, InParts
<1> DEFINE x == b + p * h
           y == (p - 1) + p * k
           z == p * k
<1>2. x \in Nat /\ y \in Nat /\ z \in Nat
  OBVIOUS
<1>3. l + p * p * h = a + p * x /\ (p * p - 1) + p * p * k = (p - 1) + p * y /\ p * p * k = p * z
  BY <1>1
<1>4. And(x, y) = b + p * And(h, k) /\ And(x, z) = p * And(h, k)
  BY DEF Splits
<1> HIDE DEF x, y, z
<1>5. And(a + p * x, (p - 1) + p * y) = a + p * And(x, y) /\ And(a + p * x, p * z) = p * And(x, z)
  BY <1>2 DEF Splits
<1>6. And(h, k) \in Nat
  BY AndType
<1>7. a + p * (b + p * And(h, k)) = l + p * p * And(h, k) /\ p * (p * And(h, k)) = p * p * And(h, k)
  BY <1>1, <1>6
<1> QED
  BY <1>3, <1>4, <1>5, <1>7

\* Neighbouring fields of bits, where the mask has one of two, are added; with p = 2^w
\* for fields of w bits.
Added(p, x, m) == And(x, m) + And(x \div p, m)

\* The two lowest fields are added, and so are those above them.
LEMMA AddedFields ==
  ASSUME NEW p \in Nat \ {0}, Splits(p), NEW a \in 0 .. p - 1, NEW b \in 0 .. p - 1,
         NEW h \in Nat, NEW m \in Nat
  PROVE  Added(p, a + p * b + p * p * h, (p - 1) + p * p * m) = a + b + p * p * Added(p, h, m)
<1> DEFINE x == a + p * b + p * p * h
           y == b + p * h
           z == p * m
           mask == (p - 1) + p * p * m
           c == h % p
           d == h \div p
<1>1. c \in 0 .. p - 1 /\ d \in Nat /\ h = c + p * d
  OBVIOUS
<1> HIDE DEF c, d
<1>2. y \in Nat /\ z \in Nat
  OBVIOUS
<1>3. x = a + p * y /\ mask = (p - 1) + p * z
  OBVIOUS
<1>4. x \div p = y
  <2> HIDE DEF y
  <2>1. a + p * y \in Nat /\ (a + p * y) \div p = y
    BY <1>2
  <2> QED
    BY <1>3, <2>1
<1>5. And(y, z) = p * And(h, m)
  BY DEF Splits
<1>6. And(y, (p - 1) + p * z) = b + p * And(h, z)
  BY <1>2 DEF Splits
<1>7. And(h, z) = p * And(d, m)
  <2>1. And(c + p * d, p * m) = p * And(d, m)
    BY <1>1, ZenonT(30) DEF Splits
  <2> QED
    BY <1>1, <2>1
<1> HIDE DEF x, y, z, mask
<1>8. And(x, mask) = a + p * And(y, z)
  BY <1>2, <1>3 DEF Splits
<1>9. And(x \div p, mask) = b + p * And(h, z)
  BY <1>3, <1>4, <1>6
<1>10. And(h, m) \in Nat /\ And(d, m) \in Nat
  BY <1>1, AndType
<1>11. a + p * (p * And(h, m)) + (b + p * (p * And(d, m))) = a + b + p * p * (And(h, m) + And(d, m))
  BY <1>10
<1> QED
  BY <1>5, <1>7, <1>8, <1>9, <1>11 DEF Added, x, mask, d

\* Numbers below n and what is above them are worked on separately.
Apart(p, n, m) ==
  \A l \in 0 .. n - 1 : \A h, k \in Nat :
    /\ Added(p, l, m) \in 0 .. n - 1
    /\ Added(p, l + n * h, m + n * k) = Added(p, l, m) + n * Added(p, h, k)

LEMMA AddedType == \A p \in Nat \ {0} : \A x, m \in Nat : Added(p, x, m) \in Nat
<1> SUFFICES ASSUME NEW p \in Nat \ {0}, NEW x \in Nat, NEW m \in Nat
             PROVE  Added(p, x, m) \in Nat
  OBVIOUS
<1>1. x \div p \in Nat
  OBVIOUS
<1>2. And(x, m) \in Nat /\ And(x \div p, m) \in Nat
  BY <1>1, AndType
<1> QED
  BY <1>2 DEF Added

\* Two fields, a and b, with nothing above them.
LEMMA PairAdded ==
  ASSUME NEW p \in Nat \ {0}, Splits(p), NEW a \in 0 .. p - 1, NEW b \in 0 .. p - 1
  PROVE  Added(p, a + p * b, p - 1) = a + b
<1> DEFINE zero == 0
<1>1. zero \in Nat /\ a + p * b + p * p * zero = a + p * b /\ (p - 1) + p * p * zero = p - 1
  OBVIOUS
<1>2. Added(p, zero, zero) = 0
  <2>1. 0 \div p = 0
    OBVIOUS
  <2> QED
    BY <2>1, AndWithNone DEF Added
<1>3. Added(p, a + p * b + p * p * zero, (p - 1) + p * p * zero) = a + b + p * p * Added(p, zero, zero)
  <2> HIDE DEF zero
  <2> QED
    BY <1>1, AddedFields
<1>4. a + b + p * p * 0 = a + b
  OBVIOUS
<1> HIDE DEF zero
<1> QED
  BY <1>1, <1>2, <1>3, <1>4

\* A mask for one pair of fields,
LEMMA PairApart ==
  ASSUME NEW p \in Nat \ {0}, Splits(p), p >= 2
  PROVE  Apart(p, p * p, p - 1)
<1> SUFFICES ASSUME NEW l \in 0 .. p * p - 1, NEW h \in Nat, NEW k \in Nat
             PROVE  /\ Added(p, l, p - 1) \in 0 .. p * p - 1
                    /\ Added(p, l + p * p * h, (p - 1) + p * p * k) = Added(p, l, p - 1) + p * p * Added(p, h, k)
  BY DEF Apart
<1>1. PICK a \in 0 .. p - 1, b \in 0 .. p - 1 : l = a + p * b
  <2>1. p * p \in Nat /\ l \in Nat /\ l < p * p
    OBVIOUS
  <2> QED
    BY <2>1, InParts
<1>2. Added(p, l, p - 1) = a + b
  BY <1>1, PairAdded
<1>3. Added(p, a + p * b + p * p * h, (p - 1) + p * p * k) = a + b + p * p * Added(p, h, k)
  BY AddedFields, ZenonT(30)
<1>4. a + b \in 0 .. p * p - 1
  <2>1. p * p >= 2 * p
    OBVIOUS
  <2> QED
    BY <2>1
<1> QED
  BY <1>1, <1>2, <1>3, <1>4

\* and for twice as many.
LEMMA ApartTwice ==
  ASSUME NEW p \in Nat \ {0}, NEW n \in Nat \ {0}, NEW m \in Nat, Apart(p, n, m)
  PROVE  Apart(p, n * n, m + n * m)
<1> SUFFICES ASSUME NEW l \in 0 .. n * n - 1, NEW h \in Nat, NEW k \in Nat
             PROVE  /\ Added(p, l, m + n * m) \in 0 .. n * n - 1
                    /\ Added(p, l + n * n * h, (m + n * m) + n * n * k)
                         = Added(p, l, m + n * m) + n * n * Added(p, h, k)
  BY DEF Apart
<1>1. PICK a \in 0 .. n - 1, b \in 0 .. n - 1 : l = a + n * b
  <2>1. n * n \in Nat /\ l \in Nat /\ l < n * n
    OBVIOUS
  <2> QED
    BY <2>1, InParts
<1> DEFINE A == Added(p, a, m)
           B == Added(p, b, m)
           H == Added(p, h, k)
           x == b + n * h
           y == m + n * k
<1>2. A \in 0 .. n - 1 /\ B \in 0 .. n - 1 /\ H \in Nat
  BY AddedType DEF Apart
<1>3. Added(p, a + n * b, m + n * m) = A + n * B
  BY DEF Apart
<1>4. Added(p, x, y) = B + n * H
  BY DEF Apart
<1>5. x \in Nat /\ y \in Nat
  OBVIOUS
<1> HIDE DEF x, y, A, B, H
<1>6. Added(p, a + n * x, m + n * y) = A + n * Added(p, x, y)
  BY <1>5 DEF Apart, A
<1>7. l + n * n * h = a + n * x /\ (m + n * m) + n * n * k = m + n * y
  BY <1>1 DEF x, y
<1>8. A + n * (B + n * H) = A + n * B + n * n * H
  BY <1>2
<1>9. A + n * B \in 0 .. n * n - 1
  <2>1. n * B \in Nat
    BY <1>2
  <2>2. n * B <= n * (n - 1)
    BY <1>2
  <2>3. n * (n - 1) = n * n - n
    OBVIOUS
  <2> QED
    BY <1>2, <2>1, <2>2, <2>3
<1>10. Added(p, l, m + n * m) = A + n * B
  BY <1>1, <1>3
<1>11. Added(p, l + n * n * h, (m + n * m) + n * n * k) = A + n * (B + n * H)
  BY <1>4, <1>6, <1>7
<1> QED
  BY <1>8, <1>9, <1>10, <1>11 DEF H

(***************************************************************************)
(* Counting bits, one by one.                                              *)
(***************************************************************************)
\* Powers of two.
LEMMA Doubles ==
  /\ 2 ^ 0 = 1
  /\ \A i \in 0 .. 31 : 2 ^ i \in Nat \ {0} /\ 2 ^ (i + 1) = 2 * 2 ^ i
<1> DEFINE Q(i, j) == 2 ^ i \in Nat \ {0} /\ 2 ^ j = 2 * 2 ^ i
<1>1. /\ Q(0, 1) /\ Q(1, 2) /\ Q(2, 3) /\ Q(3, 4) /\ Q(4, 5) /\ Q(5, 6) /\ Q(6, 7) /\ Q(7, 8)
      /\ Q(8, 9) /\ Q(9, 10) /\ Q(10, 11) /\ Q(11, 12) /\ Q(12, 13) /\ Q(13, 14) /\ Q(14, 15)
      /\ Q(15, 16) /\ Q(16, 17) /\ Q(17, 18) /\ Q(18, 19) /\ Q(19, 20) /\ Q(20, 21) /\ Q(21, 22)
      /\ Q(22, 23) /\ Q(23, 24) /\ Q(24, 25) /\ Q(25, 26) /\ Q(26, 27) /\ Q(27, 28) /\ Q(28, 29)
      /\ Q(29, 30) /\ Q(30, 31) /\ Q(31, 32)
  OBVIOUS
<1>2. 2 ^ 0 = 1
  OBVIOUS
<1> HIDE DEF Q
<1>3. \A i \in 0 .. 31 : Q(i, i + 1)
  BY <1>1
<1> QED
  BY <1>2, <1>3 DEF Q

LEMMA DividesOnce ==
  ASSUME NEW d \in Nat \ {0}, NEW q \in Nat, NEW r \in 0 .. d - 1
  PROVE  (r + d * q) \div d = q
OBVIOUS

\* How many of the n lowest bits of x are set.
SetBits(n, x) == {i \in 0 .. n - 1 : (x \div 2 ^ i) % 2 = 1}

Ones(n, x) == Cardinality(SetBits(n, x))

LEMMA OnesType ==
  \A n, x \in Nat : IsFiniteSet(SetBits(n, x)) /\ Ones(n, x) \in Nat /\ Ones(0, x) = 0
<1> SUFFICES ASSUME NEW n \in Nat, NEW x \in Nat
             PROVE  IsFiniteSet(SetBits(n, x)) /\ Ones(n, x) \in Nat /\ Ones(0, x) = 0
  OBVIOUS
<1>1. IsFiniteSet(0 .. n - 1)
  BY FS_Interval
<1>2. SetBits(n, x) \in SUBSET (0 .. n - 1)
  BY DEF SetBits
<1>3. IsFiniteSet(SetBits(n, x))
  BY <1>1, <1>2, FS_Subset
<1>4. SetBits(0, x) = {}
  BY DEF SetBits
<1> QED
  BY <1>3, <1>4, FS_CardinalityType, FS_EmptySet DEF Ones

\* A bit more: b is the lowest one.
LEMMA OnesMore ==
  ASSUME NEW n \in 0 .. 31, NEW x \in Nat, NEW b \in {0, 1}
  PROVE  Ones(n + 1, b + 2 * x) = b + Ones(n, x)
<1> DEFINE y == b + 2 * x
           S == SetBits(n, x)
           U == {i \in 1 .. n : (y \div 2 ^ i) % 2 = 1}
           f == [i \in S |-> i + 1]
<1>1. \A i \in 0 .. n - 1 : y \div 2 ^ (i + 1) = x \div 2 ^ i
  <2> SUFFICES ASSUME NEW i \in 0 .. n - 1 PROVE y \div 2 ^ (i + 1) = x \div 2 ^ i
    OBVIOUS
  <2>1. i \in 0 .. 31
    OBVIOUS
  <2> DEFINE d == 2 ^ i
             q == x \div d
             r == x % d
  <2>2. d \in Nat \ {0} /\ 2 ^ (i + 1) = 2 * d
    BY <2>1, Doubles
  <2> HIDE DEF d
  <2>3. q \in Nat /\ r \in 0 .. d - 1 /\ x = d * q + r
    BY <2>2
  <2> HIDE DEF q, r
  <2> DEFINE c == 2 * d
             s == b + 2 * r
  <2>4. y = s + c * q /\ s \in 0 .. c - 1 /\ c \in Nat \ {0}
    BY <2>2, <2>3
  <2> HIDE DEF y, s, c
  <2>5. y \div c = q
    BY <2>3, <2>4, DividesOnce
  <2>6. y \div (2 * d) = q
    BY <2>5 DEF c
  <2> QED
    BY <2>2, <2>6 DEF q, d
<1>2. f \in Bijection(S, U)
  <2>1. \A i \in S : i + 1 \in U
    <3> SUFFICES ASSUME NEW i \in S PROVE i + 1 \in U
      OBVIOUS
    <3>1. i \in 0 .. n - 1 /\ i + 1 \in 1 .. n /\ (x \div 2 ^ i) % 2 = 1
      BY DEF SetBits
    <3>2. y \div 2 ^ (i + 1) = x \div 2 ^ i
      BY <1>1, <3>1
    <3> HIDE DEF y
    <3> QED
      BY <3>1, <3>2
  <2>2. \A j \in U : j - 1 \in S /\ j - 1 + 1 = j
    <3> SUFFICES ASSUME NEW j \in U PROVE j - 1 \in S
      OBVIOUS
    <3>1. j - 1 \in 0 .. n - 1 /\ j - 1 + 1 = j /\ (y \div 2 ^ j) % 2 = 1
      OBVIOUS
    <3>2. y \div 2 ^ j = x \div 2 ^ (j - 1)
      BY <1>1, <3>1
    <3> QED
      BY <3>1, <3>2 DEF SetBits
  <2>3. \A i, j \in S : i + 1 = j + 1 => i = j
    BY DEF SetBits
  <2> HIDE DEF S, U
  <2> QED
    BY <2>1, <2>2, <2>3 DEF Bijection, Injection, Surjection, IsInjective
<1>3. IsFiniteSet(S)
  BY OnesType
<1>4. IsFiniteSet(U) /\ Cardinality(U) = Cardinality(S)
  <2> HIDE DEF S, U, f
  <2>1. ExistsBijection(S, U)
    BY <1>2 DEF ExistsBijection
  <2> QED
    BY <1>3, <2>1, FS_Bijection
<1>5. (y \div 2 ^ 0) % 2 = b
  BY Doubles
<1>6. SetBits(n + 1, y) = IF b = 1 THEN U \cup {0} ELSE U
  <2>1. 0 .. n + 1 - 1 = 1 .. n \cup {0}
    OBVIOUS
  <2>2. SetBits(n + 1, y) = {i \in 1 .. n \cup {0} : (y \div 2 ^ i) % 2 = 1}
    BY <2>1 DEF SetBits
  <2> DEFINE Odd(i) == (y \div 2 ^ i) % 2 = 1
  <2>3. Odd(0) <=> b = 1
    BY <1>5
  <2>4. SetBits(n + 1, y) = {i \in 1 .. n \cup {0} : Odd(i)} /\ U = {i \in 1 .. n : Odd(i)}
    BY <2>2
  <2> HIDE DEF y, U, Odd
  <2> QED
    BY <2>3, <2>4
<1>7. 0 \notin U /\ Cardinality(U) \in Nat
  BY <1>4, FS_CardinalityType
<1> HIDE DEF U, S
<1>8. Cardinality(SetBits(n + 1, y)) = b + Cardinality(S)
  BY <1>4, <1>6, <1>7, FS_AddElement
<1> QED
  BY <1>8 DEF Ones, S

\* Of the bits of two numbers next to each other, each has its own.
LEMMA OnesApart ==
  ASSUME NEW n \in Nat, NEW m \in Nat, n + m <= 32,
         NEW l \in 0 .. 2 ^ n - 1, NEW h \in Nat
  PROVE  Ones(n + m, l + 2 ^ n * h) = Ones(n, l) + Ones(m, h)
<1> DEFINE Holds(k) == \A a \in 0 .. 2 ^ k - 1 : Ones(k + m, a + 2 ^ k * h) = Ones(k, a) + Ones(m, h)
           U == {k \in 0 .. n : ~ Holds(k)}
<1> SUFFICES ASSUME U # {} PROVE FALSE
  OBVIOUS
<1>1. PICK k \in U : \A i \in U : k <= i
  <2>1. U \subseteq Nat
    OBVIOUS
  <2> HIDE DEF U
  <2> QED
    BY <2>1, LeastOf
<1>2. k # 0
  <2>1. Holds(0)
    <3> SUFFICES ASSUME NEW z, z = 0, NEW a \in 0 .. 2 ^ z - 1
                 PROVE  Ones(z + m, a + 2 ^ z * h) = Ones(z, a) + Ones(m, h)
      OBVIOUS
    <3>1. 2 ^ z = 1
      BY Doubles
    <3>2. a = 0 /\ a \in Nat /\ z + m = m /\ a + 2 ^ z * h = h
      BY <3>1
    <3>3. Ones(z, a) = 0 /\ Ones(m, h) \in Nat
      BY <3>2, OnesType
    <3> QED
      BY <3>2, <3>3
  <2> HIDE DEF Holds
  <2> QED
    BY <1>1, <2>1
<1> DEFINE j == k - 1
           p == 2 ^ j
<1>3. j \in 0 .. 31 /\ j + 1 = k /\ j + m \in 0 .. 31 /\ j + m + 1 = k + m /\ j \in 0 .. n /\ ~(k <= j)
  BY <1>1, <1>2
<1>4. Holds(j)
  <2> HIDE DEF Holds, j
  <2> QED
    BY <1>1, <1>3
<1>5. p \in Nat \ {0} /\ 2 ^ k = 2 * p
  <2> HIDE DEF j
  <2>1. 2 ^ (j + 1) = 2 * 2 ^ j /\ 2 ^ j \in Nat \ {0}
    BY <1>3, Doubles
  <2> QED
    BY <1>3, <2>1
<1>6. Holds(k)
  <2> SUFFICES ASSUME NEW a \in 0 .. 2 ^ k - 1
               PROVE  Ones(k + m, a + 2 ^ k * h) = Ones(k, a) + Ones(m, h)
    OBVIOUS
  <2> DEFINE b == a % 2
             c == a \div 2
  <2>1. a \in Nat /\ a <= 2 * p - 1
    BY <1>5
  <2>2. b \in {0, 1} /\ c \in 0 .. p - 1 /\ a = b + 2 * c
    BY <1>5, <2>1
  <2> HIDE DEF b, c
  <2>3. Ones(j + m, c + p * h) = Ones(j, c) + Ones(m, h)
    BY <1>4, <2>2
  <2> HIDE DEF p, j
  <2>4. c + p * h \in Nat /\ c \in Nat /\ a + 2 * p * h = b + 2 * (c + p * h)
    BY <1>5, <2>2
  <2>5. Ones(k + m, b + 2 * (c + p * h)) = b + Ones(j + m, c + p * h)
    BY <1>3, <2>2, <2>4, OnesMore
  <2>6. Ones(k, b + 2 * c) = b + Ones(j, c)
    BY <1>3, <2>2, <2>4, OnesMore
  <2>7. Ones(j, c) \in Nat /\ Ones(m, h) \in Nat
    <3>1. j \in Nat /\ c \in Nat
      BY <1>3, <2>4
    <3> HIDE DEF Holds, U
    <3> QED
      BY <3>1, OnesType
  <2>8. 2 ^ k * h = 2 * p * h
    BY <1>5
  <2>9. Ones(k + m, a + 2 ^ k * h) = b + Ones(j + m, c + p * h)
    BY <2>4, <2>5, <2>8
  <2>10. b + (Ones(j, c) + Ones(m, h)) = b + Ones(j, c) + Ones(m, h)
    BY <2>2, <2>7
  <2> HIDE DEF Holds, U
  <2> QED
    BY <2>2, <2>3, <2>6, <2>9, <2>10
<1> HIDE DEF Holds, j, p
<1> QED
  BY <1>1, <1>6

(***************************************************************************)
(* weight.                                                                 *)
(***************************************************************************)
\* The fields of weight.
LEMMA FieldsSplit == Splits(2) /\ Splits(4) /\ Splits(16) /\ Splits(256) /\ Splits(65536)
<1>1. Splits(2)
  BY BitSplits
<1>2. Splits(2 * 2)
  BY <1>1, SplitsTwice
<1>3. 2 * 2 = 4
  OBVIOUS
<1>4. Splits(4 * 4)
  BY <1>2, <1>3, SplitsTwice
<1>5. 4 * 4 = 16
  OBVIOUS
<1>6. Splits(16 * 16)
  BY <1>4, <1>5, SplitsTwice
<1>7. 16 * 16 = 256
  OBVIOUS
<1>8. Splits(256 * 256)
  BY <1>6, <1>7, SplitsTwice
<1>9. 256 * 256 = 65536
  OBVIOUS
<1> QED
  BY <1>1, <1>2, <1>3, <1>4, <1>5, <1>6, <1>7, <1>8, <1>9

\* The masks of the stages, for 2, 4, 8 and 16 bits.
LEMMA StagesApart ==
  /\ Apart(2, 4, 1) /\ Apart(2, 16, 5) /\ Apart(2, 256, 85) /\ Apart(2, 65536, 21845)
  /\ Apart(4, 16, 3) /\ Apart(4, 256, 51) /\ Apart(4, 65536, 13107)
  /\ Apart(16, 256, 15) /\ Apart(16, 65536, 3855)
  /\ Apart(256, 65536, 255)
<1>1. /\ Apart(2, 2 * 2, 2 - 1) /\ Apart(4, 4 * 4, 4 - 1) /\ Apart(16, 16 * 16, 16 - 1)
      /\ Apart(256, 256 * 256, 256 - 1)
  BY FieldsSplit, PairApart
<1>2. Apart(2, 4, 1) /\ Apart(4, 16, 3) /\ Apart(16, 256, 15) /\ Apart(256, 65536, 255)
  <2>1. /\ 2 * 2 = 4 /\ 2 - 1 = 1 /\ 4 * 4 = 16 /\ 4 - 1 = 3 /\ 16 * 16 = 256 /\ 16 - 1 = 15
        /\ 256 * 256 = 65536 /\ 256 - 1 = 255
    OBVIOUS
  <2> QED
    BY <1>1, <2>1
<1>3. Apart(2, 16, 5) /\ Apart(4, 256, 51) /\ Apart(16, 65536, 3855)
  <2>1. /\ Apart(2, 4 * 4, 1 + 4 * 1) /\ Apart(4, 16 * 16, 3 + 16 * 3)
        /\ Apart(16, 256 * 256, 15 + 256 * 15)
    BY <1>2, ApartTwice
  <2>2. /\ 4 * 4 = 16 /\ 1 + 4 * 1 = 5 /\ 16 * 16 = 256 /\ 3 + 16 * 3 = 51
        /\ 256 * 256 = 65536 /\ 15 + 256 * 15 = 3855
    OBVIOUS
  <2> QED
    BY <2>1, <2>2
<1>4. Apart(2, 256, 85) /\ Apart(4, 65536, 13107)
  <2>1. Apart(2, 16 * 16, 5 + 16 * 5) /\ Apart(4, 256 * 256, 51 + 256 * 51)
    BY <1>3, ApartTwice
  <2>2. 16 * 16 = 256 /\ 5 + 16 * 5 = 85 /\ 256 * 256 = 65536 /\ 51 + 256 * 51 = 13107
    OBVIOUS
  <2> QED
    BY <2>1, <2>2
<1>5. Apart(2, 65536, 21845)
  <2>1. Apart(2, 256 * 256, 85 + 256 * 85)
    BY <1>4, ApartTwice
  <2>2. 256 * 256 = 65536 /\ 85 + 256 * 85 = 21845
    OBVIOUS
  <2> QED
    BY <2>1, <2>2
<1> QED
  BY <1>2, <1>3, <1>4, <1>5

\* With p = 2^n: a number of 2n bits is two of n, which have its bits.
Halving(n, p) ==
  /\ p \in Nat \ {0}
  /\ \A x \in Nat : x < p * p =>
       \E l, h \in 0 .. p - 1 : x = l + p * h /\ Ones(n + n, x) = Ones(n, l) + Ones(n, h)

LEMMA Halved ==
  ASSUME NEW n \in 1 .. 16, NEW p, p = 2 ^ n
  PROVE  Halving(n, p)
<1>1. n \in 0 .. 31
  OBVIOUS
<1>2. p \in Nat \ {0}
  <2>1. 2 ^ n \in Nat \ {0}
    BY <1>1, Doubles
  <2> QED
    BY <2>1, Zenon
<1> SUFFICES ASSUME NEW x \in Nat, x < p * p
             PROVE  \E l, h \in 0 .. p - 1 : x = l + p * h /\ Ones(n + n, x) = Ones(n, l) + Ones(n, h)
  BY <1>2, Zenon DEF Halving
<1>3. PICK l \in 0 .. p - 1, h \in 0 .. p - 1 : x = l + p * h
  BY <1>2, InParts
<1>4. n \in Nat /\ n + n <= 32 /\ h \in Nat
  BY <1>2
<1>5. Ones(n + n, l + p * h) = Ones(n, l) + Ones(n, h)
  BY <1>4, OnesApart, Zenon
<1> QED
  BY <1>3, <1>5, Zenon

LEMMA OneBit == \A x \in 0 .. 1 : Ones(1, x) = x
<1> SUFFICES ASSUME NEW x \in {0, 1} PROVE Ones(1, x) = x
  OBVIOUS
<1> SUFFICES ASSUME NEW zero, zero = 0 PROVE Ones(zero + 1, x + 2 * zero) = x + Ones(zero, zero)
  <2> DEFINE z == 0
  <2>1. z + 1 = 1 /\ x + 2 * z = x /\ x + 0 = x /\ z \in Nat
    OBVIOUS
  <2>2. Ones(z, z) = 0
    BY OnesType
  <2>3. Ones(z + 1, x + 2 * z) = x + Ones(z, z)
    <3> HIDE DEF z
    <3> QED
      BY DEF z
  <2> HIDE DEF z
  <2> QED
    BY <2>1, <2>2, <2>3
<1>1. zero \in 0 .. 31 /\ zero \in Nat
  OBVIOUS
<1> QED
  BY <1>1, OnesMore, Zenon

\* With p = 2^n: F does for numbers of n bits what G does for two of them at once.
Separates(F, G, p) ==
  \A l, h \in 0 .. p - 1 : F[l] \in 0 .. p - 1 /\ G[l + p * h] = F[l] + p * F[h]

\* F counts the bits of numbers of n bits, those below p.
Counts(F, p, n) == \A x \in Nat : x < p => F[x] = Ones(n, x)

\* A stage more than F.
Staged(F, p, m) == [x \in Nat |-> Added(p, F[x], m)]

Unstaged == [x \in Nat |-> x]

LEMMA UnstagedSeparates ==
  ASSUME NEW p \in Nat \ {0}
  PROVE  Separates(Unstaged, Unstaged, p)
<1> SUFFICES ASSUME NEW l \in 0 .. p - 1, NEW h \in 0 .. p - 1
             PROVE  Unstaged[l] \in 0 .. p - 1 /\ Unstaged[l + p * h] = Unstaged[l] + p * Unstaged[h]
  BY DEF Separates
<1>1. l \in Nat /\ h \in Nat /\ l + p * h \in Nat
  OBVIOUS
<1>2. \A x \in Nat : Unstaged[x] = x
  BY DEF Unstaged
<1> QED
  BY <1>1, <1>2

\* A stage whose mask is the same for both halves keeps them separate.
LEMMA StageSeparates ==
  ASSUME NEW F, NEW G, NEW p \in Nat \ {0}, Separates(F, G, p),
         NEW q, NEW m \in Nat, Apart(q, p, m), NEW k, k = m + p * m
  PROVE  Separates(Staged(F, q, m), Staged(G, q, k), p)
<1> DEFINE S == Staged(F, q, m)
           U == Staged(G, q, k)
<1> SUFFICES ASSUME NEW l \in 0 .. p - 1, NEW h \in 0 .. p - 1
             PROVE  S[l] \in 0 .. p - 1 /\ U[l + p * h] = S[l] + p * S[h]
  BY DEF Separates
<1>1. l \in Nat /\ h \in Nat /\ l + p * h \in Nat
  OBVIOUS
<1>2. \A x \in Nat : S[x] = Added(q, F[x], m) /\ U[x] = Added(q, G[x], k)
  BY DEF Staged
<1>3. F[l] \in 0 .. p - 1 /\ F[h] \in 0 .. p - 1 /\ G[l + p * h] = F[l] + p * F[h]
  BY DEF Separates
<1> HIDE DEF S, U
<1>4. F[h] \in Nat
  BY <1>3
<1>5. /\ Added(q, F[l], m) \in 0 .. p - 1
      /\ Added(q, F[l] + p * F[h], m + p * m) = Added(q, F[l], m) + p * Added(q, F[h], m)
  BY <1>3, <1>4 DEF Apart
<1> QED
  BY <1>1, <1>2, <1>3, <1>5

\* A stage adds what the stages before have counted in both halves.
LEMMA StageCounts ==
  ASSUME NEW n, NEW p, Halving(n, p), Splits(p), NEW F, NEW G, Separates(F, G, p), Counts(F, p, n),
         NEW q, q = p * p, NEW m, m = p - 1, NEW d, d = n + n
  PROVE  Counts(Staged(G, p, m), q, d)
<1>1. p \in Nat \ {0}
  BY DEF Halving
<1> SUFFICES ASSUME NEW x \in Nat, x < q
             PROVE  Staged(G, p, m)[x] = Ones(d, x)
  BY DEF Counts
<1>2. x \in Nat /\ x < p * p
  BY <1>1
<1>3. PICK l \in 0 .. p - 1, h \in 0 .. p - 1 :
        x = l + p * h /\ Ones(n + n, x) = Ones(n, l) + Ones(n, h)
  BY <1>2, Zenon DEF Halving
<1>4. F[l] \in 0 .. p - 1 /\ F[h] \in 0 .. p - 1 /\ G[x] = F[l] + p * F[h]
  BY <1>3 DEF Separates
<1>5. F[l] = Ones(n, l) /\ F[h] = Ones(n, h)
  BY <1>1 DEF Counts
<1>6. Added(p, F[l] + p * F[h], p - 1) = F[l] + F[h]
  BY <1>1, <1>4, PairAdded, Zenon
<1>7. Staged(G, p, m)[x] = Added(p, G[x], m)
  BY <1>2 DEF Staged
<1> QED
  BY <1>3, <1>4, <1>5, <1>6, <1>7, Zenon

\* weight, stage by stage, for numbers of 2, 4, 8, 16 and 32 bits.
LEMMA CountsBits ==
  Counts(Staged(Staged(Staged(Staged(Staged(Unstaged, 2, 1431655765), 4, 858993459),
           16, 252645135), 256, 16711935), 65536, 65535), 4294967296, 32)
<1>1. /\ 4 = 2 * 2 /\ 16 = 4 * 4 /\ 256 = 16 * 16 /\ 65536 = 256 * 256 /\ 4294967296 = 65536 * 65536
      /\ 1 = 2 - 1 /\ 3 = 4 - 1 /\ 15 = 16 - 1 /\ 255 = 256 - 1 /\ 65535 = 65536 - 1
      /\ 2 = 1 + 1 /\ 4 = 2 + 2 /\ 8 = 4 + 4 /\ 16 = 8 + 8 /\ 32 = 16 + 16
  BY SMT
<1>2. Halving(1, 2) /\ Halving(2, 4) /\ Halving(4, 16) /\ Halving(8, 256) /\ Halving(16, 65536)
  BY Halved, SMT
<1>3. \A p \in {2, 4, 16, 256, 65536} : Separates(Unstaged, Unstaged, p)
  BY UnstagedSeparates, SMT
<1> DEFINE F1 == Staged(Unstaged, 2, 1)
           F2 == Staged(Unstaged, 2, 5)
           F3 == Staged(Unstaged, 2, 85)
           F4 == Staged(Unstaged, 2, 21845)
           F5 == Staged(Unstaged, 2, 1431655765)
           G2 == Staged(F2, 4, 3)
           G3 == Staged(F3, 4, 51)
           G4 == Staged(F4, 4, 13107)
           G5 == Staged(F5, 4, 858993459)
           H3 == Staged(G3, 16, 15)
           H4 == Staged(G4, 16, 3855)
           H5 == Staged(G5, 16, 252645135)
           I4 == Staged(H4, 256, 255)
           I5 == Staged(H5, 256, 16711935)
           J5 == Staged(I5, 65536, 65535)
<1>4. /\ Separates(F1, F2, 4) /\ Separates(F2, F3, 16) /\ Separates(F3, F4, 256)
      /\ Separates(F4, F5, 65536)
  <2>1. /\ 5 = 1 + 4 * 1 /\ 85 = 5 + 16 * 5 /\ 21845 = 85 + 256 * 85
        /\ 1431655765 = 21845 + 65536 * 21845
    BY SMT
  <2> HIDE DEF F1, F2, F3, F4, F5
  <2> QED
    BY <1>3, <2>1, StagesApart, StageSeparates, SMT DEF F1, F2, F3, F4, F5
<1> HIDE DEF F1, F2, F3, F4, F5
<1>5. Separates(G2, G3, 16) /\ Separates(G3, G4, 256) /\ Separates(G4, G5, 65536)
  <2>1. 51 = 3 + 16 * 3 /\ 13107 = 51 + 256 * 51 /\ 858993459 = 13107 + 65536 * 13107
    BY SMT
  <2> QED
    BY <1>4, <2>1, StagesApart, StageSeparates, SMT
<1> HIDE DEF G2, G3, G4, G5
<1>6. Separates(H3, H4, 256) /\ Separates(H4, H5, 65536)
  <2>1. 3855 = 15 + 256 * 15 /\ 252645135 = 3855 + 65536 * 3855
    BY SMT
  <2> QED
    BY <1>5, <2>1, StagesApart, StageSeparates, SMT
<1> HIDE DEF H3, H4, H5
<1>7. Separates(I4, I5, 65536)
  <2>1. 16711935 = 255 + 65536 * 255
    BY SMT
  <2> QED
    BY <1>6, <2>1, StagesApart, StageSeparates, SMT
<1> HIDE DEF I4, I5
<1>8. Counts(Unstaged, 2, 1)
  BY OneBit, SMT DEF Counts, Unstaged
<1>9. Counts(F1, 4, 2)
  BY <1>1, <1>3, <1>8, <1>2, FieldsSplit, StageCounts, SMT DEF F1
<1>10. Counts(G2, 16, 4)
  BY <1>1, <1>4, <1>9, <1>2, FieldsSplit, StageCounts, SMT DEF G2
<1>11. Counts(H3, 256, 8)
  BY <1>1, <1>5, <1>10, <1>2, FieldsSplit, StageCounts, SMT DEF H3
<1>12. Counts(I4, 65536, 16)
  BY <1>1, <1>6, <1>11, <1>2, FieldsSplit, StageCounts, SMT DEF I4
<1>13. Counts(J5, 4294967296, 32)
  BY <1>1, <1>7, <1>12, <1>2, FieldsSplit, StageCounts, SMT
<1> QED
  BY <1>13, SMT DEF F5, G5, H5, I5

\* x after the first n stages of weight.
stages(x, n) ==
  LET a == weightStage(x, 1)  b == weightStage(a, 2)
      c == weightStage(b, 3)  d == weightStage(c, 4) IN
  CASE n = 0 -> x [] n = 1 -> a [] n = 2 -> b [] n = 3 -> c [] n = 4 -> d

\* The stages have fields of 1, 2, 4, 8 and 16 bits.
LEMMA StageIs ==
  ASSUME NEW x
  PROVE  /\ weightStage(x, 1) = Added(2, x, 1431655765)
         /\ weightStage(x, 2) = Added(4, x, 858993459)
         /\ weightStage(x, 3) = Added(16, x, 252645135)
         /\ weightStage(x, 4) = Added(256, x, 16711935)
         /\ weightStage(x, 5) = Added(65536, x, 65535)
<1>1. /\ 2 ^ (2 ^ (1 - 1)) = 2 /\ 2 ^ (2 ^ (2 - 1)) = 4 /\ 2 ^ (2 ^ (3 - 1)) = 16
      /\ 2 ^ (2 ^ (4 - 1)) = 256 /\ 2 ^ (2 ^ (5 - 1)) = 65536
  BY SMT
<1>2. /\ Masks[1] = 1431655765 /\ Masks[2] = 858993459 /\ Masks[3] = 252645135
      /\ Masks[4] = 16711935 /\ Masks[5] = 65535
  BY SMT DEF Masks
<1> QED
  BY <1>1, <1>2, SMT DEF weightStage, Added

\* The next bit of a number of n bits is zero.
LEMMA HighBit ==
  ASSUME NEW n \in 0 .. 31, NEW x \in Nat, x < 2 ^ n
  PROVE  Ones(n + 1, x) = Ones(n, x)
<1> DEFINE zero == 0
           one == 1
<1>1. Ones(one, zero) = 0 /\ Ones(n, x) \in Nat
  <2>1. Ones(1, 0) = 0
    BY OneBit
  <2>2. n \in Nat
    OBVIOUS
  <2>3. Ones(n, x) \in Nat
    BY <2>2, OnesType
  <2> QED
    BY <2>1, <2>3
<1>2. 2 ^ n \in Nat
  BY Doubles
<1>3. x \in 0 .. 2 ^ n - 1
  BY <1>2
<1>4. n \in Nat /\ one \in Nat /\ zero \in Nat /\ n + one <= 32 /\ x + 2 ^ n * zero = x
  BY <1>2
<1> HIDE DEF zero
<1>5. Ones(n + one, x + 2 ^ n * zero) = Ones(n, x) + Ones(one, zero)
  <2> HIDE DEF one
  <2> QED
    BY <1>3, <1>4, OnesApart, Zenon
<1> QED
  BY <1>1, <1>4, <1>5

\* weight returns how many bits are set, for every number a program gives it.
LEMMA WeightRight ==
  ASSUME NEW x \in Nat, x < 2 ^ 30
  PROVE  weightStage(stages(x, 4), 5) = Cardinality(Bits(x))
<1>1. 2 ^ 30 = 1073741824 /\ 2 ^ 31 = 2147483648
  BY SMT
<1>2. x < 4294967296 /\ x < 2147483648
  BY <1>1, SMT
<1>3. weightStage(stages(x, 4), 5) = Ones(32, x)
  <2> DEFINE A == Staged(Unstaged, 2, 1431655765)
             B == Staged(A, 4, 858993459)
             C == Staged(B, 16, 252645135)
             D == Staged(C, 256, 16711935)
             E == Staged(D, 65536, 65535)
  <2>1. E[x] = Ones(32, x)
    <3>1. Counts(E, 4294967296, 32)
      BY CountsBits, SMT
    <3> HIDE DEF E
    <3> QED
      BY <1>2, <3>1, SMT DEF Counts
  <2>2. Unstaged[x] = x
    BY SMT DEF Unstaged
  <2>3. /\ A[x] = Added(2, Unstaged[x], 1431655765) /\ B[x] = Added(4, A[x], 858993459)
        /\ C[x] = Added(16, B[x], 252645135) /\ D[x] = Added(256, C[x], 16711935)
        /\ E[x] = Added(65536, D[x], 65535)
    BY SMT DEF Staged
  <2> HIDE DEF A, B, C, D, E
  <2>4. /\ A[x] = weightStage(x, 1) /\ B[x] = weightStage(A[x], 2) /\ C[x] = weightStage(B[x], 3)
        /\ D[x] = weightStage(C[x], 4) /\ E[x] = weightStage(D[x], 5)
    BY <2>2, <2>3, StageIs, SMT
  <2>5. stages(x, 4) = D[x]
    BY <2>4, SMT DEF stages
  <2> QED
    BY <2>1, <2>4, <2>5, Zenon
<1>4. Ones(32, x) = Ones(31, x)
  <2>1. Ones(31 + 1, x) = Ones(31, x)
    BY <1>2, <1>1, HighBit, SMT
  <2> QED
    BY <2>1, SMT
<1>5. SetBits(31, x) = Bits(x)
  <2>1. 31 - 1 = 30
    BY SMT
  <2> QED
    BY <2>1, Zenon DEF SetBits, Bits
<1> QED
  BY <1>3, <1>4, <1>5, Zenon DEF Ones

(***************************************************************************)
(* gcd.                                                                    *)
(***************************************************************************)
LEMMA Multiple ==
  ASSUME NEW a \in Nat, NEW d \in Nat \ {0}
  PROVE  a % d = 0 <=> \E q \in Nat : a = d * q
<1>1. ASSUME a % d = 0 PROVE \E q \in Nat : a = d * q
  <2>1. a \div d \in Nat /\ a = d * (a \div d)
    BY <1>1
  <2> QED
    BY <2>1
<1>2. ASSUME NEW q \in Nat, a = d * q PROVE a % d = 0
  <2>1. a = d * q + 0
    BY <1>2
  <2> QED
    BY <2>1
<1> QED
  BY <1>1, <1>2

\* a and b have the same common divisors as x and y.
Alike(a, b, x, y) ==
  \A d \in Nat \ {0} : (a % d = 0 /\ b % d = 0) <=> (x % d = 0 /\ y % d = 0)

\* Subtracting b changes no divisibility by a divisor of b.
LEMMA Subtracted ==
  ASSUME NEW a \in Nat, NEW b \in Nat, b <= a, NEW d \in Nat \ {0}, b % d = 0
  PROVE  a % d = 0 <=> (a - b) % d = 0
<1>1. a - b \in Nat
  OBVIOUS
<1>2. PICK q \in Nat : b = d * q
  BY Multiple
<1>3. ASSUME a % d = 0 PROVE (a - b) % d = 0
  <2>1. PICK p \in Nat : a = d * p
    BY <1>3, Multiple
  <2>2. a - b = d * (p - q)
    BY <1>2, <2>1
  <2>3. p - q \in Nat
    <3> SUFFICES ASSUME p < q PROVE FALSE
      OBVIOUS
    <3>1. d * p < d * q
      OBVIOUS
    <3> QED
      BY <1>2, <2>1, <3>1
  <2> QED
    BY <1>1, <2>2, <2>3, Multiple
<1>4. ASSUME (a - b) % d = 0 PROVE a % d = 0
  <2>1. PICK p \in Nat : a - b = d * p
    BY <1>1, <1>4, Multiple
  <2>2. a = d * (p + q) /\ p + q \in Nat
    BY <1>2, <2>1
  <2> QED
    BY <2>2, Multiple
<1> QED
  BY <1>3, <1>4

\* A call of gcd inside gcd keeps the common divisors.
LEMMA GcdStep ==
  ASSUME NEW a \in Nat \ {0}, NEW b \in Nat \ {0}, NEW x, NEW y, Alike(a, b, x, y)
  PROVE  /\ a > b => a - b \in Nat \ {0} /\ Alike(a - b, b, x, y)
         /\ a < b => b - a \in Nat \ {0} /\ Alike(a, b - a, x, y)
<1>1. ASSUME a > b PROVE a - b \in Nat \ {0} /\ Alike(a - b, b, x, y)
  <2>1. \A d \in Nat \ {0} : b % d = 0 => (a % d = 0 <=> (a - b) % d = 0)
    <3> SUFFICES ASSUME NEW d \in Nat \ {0}, b % d = 0 PROVE a % d = 0 <=> (a - b) % d = 0
      OBVIOUS
    <3>1. a \in Nat /\ b \in Nat /\ b <= a
      BY <1>1
    <3> QED
      BY <3>1, Subtracted
  <2>2. a - b \in Nat \ {0}
    BY <1>1
  <2> QED
    BY <2>1, <2>2 DEF Alike
<1>2. ASSUME a < b PROVE b - a \in Nat \ {0} /\ Alike(a, b - a, x, y)
  <2>1. \A d \in Nat \ {0} : a % d = 0 => (b % d = 0 <=> (b - a) % d = 0)
    <3> SUFFICES ASSUME NEW d \in Nat \ {0}, a % d = 0 PROVE b % d = 0 <=> (b - a) % d = 0
      OBVIOUS
    <3>1. a \in Nat /\ b \in Nat /\ a <= b
      BY <1>2
    <3> QED
      BY <3>1, Subtracted
  <2>2. b - a \in Nat \ {0}
    BY <1>2
  <2> QED
    BY <2>1, <2>2 DEF Alike
<1> QED
  BY <1>1, <1>2

\* When the numbers are equal, they are the greatest of them.
LEMMA GcdRight ==
  ASSUME NEW a \in Nat \ {0}, NEW x \in Nat, NEW y \in Nat, Alike(a, a, x, y)
  PROVE  IsGcd(a, x, y)
<1>1. a % a = 0
  OBVIOUS
<1>2. x % a = 0 /\ y % a = 0
  BY <1>1 DEF Alike
<1>3. ASSUME NEW d \in a + 1 .. x, x % d = 0, y % d = 0 PROVE FALSE
  <2>1. d \in Nat \ {0} /\ a < d
    OBVIOUS
  <2>2. a % d = 0
    BY <1>3, <2>1 DEF Alike
  <2>3. a % d = a
    BY <2>1
  <2> QED
    BY <2>2, <2>3
<1> QED
  BY <1>2, <1>3 DEF IsGcd

(***************************************************************************)
(* is_prime.                                                               *)
(***************************************************************************)
\* No odd number below d divides a.
Tried(d, a) ==
  /\ a \in Nat /\ a >= 3 /\ a % 2 = 1
  /\ d \in Nat /\ d >= 3 /\ d % 2 = 1
  /\ \A e \in 2 .. d - 1 : a % e # 0

\* is_prime begins with 3, or knows the answer at once.
LEMMA PrimeStarts ==
  ASSUME NEW a \in Nat
  PROVE  /\ ~(a % 2 = 0 \/ a < 2) => Tried(3, a)
         /\ a % 2 = 0 \/ a < 2 => ((IF a = 2 THEN 1 ELSE 0) = 1 <=> IsPrime(a))
<1>1. ASSUME ~(a % 2 = 0 \/ a < 2) PROVE Tried(3, a)
  <2>1. a >= 3 /\ a % 2 = 1
    BY <1>1
  <2>2. \A e \in 2 .. 3 - 1 : e = 2
    OBVIOUS
  <2> QED
    BY <2>1, <2>2 DEF Tried
<1>2. CASE a < 2
  BY <1>2 DEF IsPrime
<1>3. CASE a = 2
  BY <1>3 DEF IsPrime
<1>4. CASE a > 2 /\ a % 2 = 0
  <2>1. 2 \in 2 .. a - 1
    BY <1>4
  <2> QED
    BY <1>4, <2>1 DEF IsPrime
<1> QED
  BY <1>1, <1>2, <1>3, <1>4

\* It answers rightly when d is too large or divides a, and else goes on.
LEMMA PrimeStep ==
  ASSUME NEW a, NEW d, Tried(d, a)
  PROVE  /\ d * d > a => IsPrime(a)
         /\ d * d <= a /\ a % d = 0 => ~IsPrime(a)
         /\ a % d # 0 => Tried(d + 2, a)
<1>1. a \in Nat /\ d \in Nat /\ a >= 3 /\ d >= 3 /\ a % 2 = 1 /\ d % 2 = 1
  BY DEF Tried
<1>2. ASSUME d * d > a PROVE IsPrime(a)
  <2>0. a > 1
    BY <1>1
  <2> SUFFICES ASSUME NEW e \in 2 .. a - 1, a % e = 0 PROVE FALSE
    BY <2>0, Zenon DEF IsPrime
  <2>1. e \in Nat /\ e >= 2 /\ e < a
    BY <1>1
  <2>2. PICK q \in Nat : a = e * q
    <3>1. e \in Nat \ {0}
      BY <2>1
    <3> QED
      BY <1>1, <3>1, Multiple
  <2>3. q >= 2
    <3>1. q # 0 /\ q # 1
      BY <1>1, <2>1, <2>2
    <3> QED
      BY <3>1
  <2>4. q \in Nat \ {0} /\ a = q * e
    BY <2>1, <2>2, <2>3
  <2>5. a % q = 0
    BY <1>1, <2>1, <2>4, Multiple
  <2>6. e >= d
    BY <1>1, <2>1 DEF Tried
  <2>7. q >= d
    <3> SUFFICES ASSUME q < d PROVE FALSE
      BY <1>1
    <3>1. q \in 2 .. d - 1
      BY <1>1, <2>3
    <3> QED
      BY <2>5, <3>1, Zenon DEF Tried
  <2>8. e * q >= d * q /\ d * q >= d * d
    BY <1>1, <2>1, <2>6, <2>7
  <2> QED
    BY <1>1, <1>2, <2>1, <2>2, <2>8
<1>3. ASSUME d * d <= a, a % d = 0 PROVE ~IsPrime(a)
  <2>1. d * d >= 3 * d
    BY <1>1
  <2>2. d \in 2 .. a - 1
    BY <1>1, <1>3, <2>1
  <2> QED
    BY <1>3, <2>2 DEF IsPrime
<1>4. ASSUME a % d # 0 PROVE Tried(d + 2, a)
  <2>1. a % (d + 1) # 0
    <3> SUFFICES ASSUME a % (d + 1) = 0 PROVE FALSE
      OBVIOUS
    <3> DEFINE e == d + 1
               f == (d + 1) \div 2
    <3>1. e \in Nat \ {0} /\ f \in Nat /\ e = 2 * f
      BY <1>1
    <3> HIDE DEF f
    <3>2. PICK q \in Nat : a = e * q
      BY <1>1, <3>1, Multiple
    <3>3. a = 2 * (f * q) /\ f * q \in Nat
      BY <3>1, <3>2
    <3> QED
      BY <1>1, <3>3
  <2>2. \A e \in 2 .. d + 2 - 1 : e \in 2 .. d - 1 \/ e = d \/ e = d + 1
    BY <1>1
  <2>3. d + 2 \in Nat /\ d + 2 >= 3 /\ (d + 2) % 2 = 1
    BY <1>1
  <2> QED
    BY <1>1, <1>4, <2>1, <2>2, <2>3 DEF Tried
<1> QED
  BY <1>2, <1>3, <1>4
=============================================================================
