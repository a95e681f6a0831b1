------------------------------ MODULE LowLevel ------------------------------
(***************************************************************************)
(* The machine under the kernel, instruction by instruction: the vectors   *)
(* that kernel/int.s copies, the handlers of kernel/lolevel.s, the stacks  *)
(* and banked registers of the processor's modes, the timer and interrupt  *)
(* controller as hilevel_handler_rst and hilevel_handler_irq drive them,   *)
(* and, with the scheduler and write, fork, exec and exit of               *)
(* kernel/hilevel.c, the user programs of Programs.                        *)
(*                                                                         *)
(* A register or a word of memory holds an integer; an address is the      *)
(* number of an instruction, so "4 bytes" is 1.  cpsr is the number the    *)
(* code writes: its mode in the five low bits, I in bit 7, the flags C and *)
(* Z in bits 29 and 30.                                                    *)
(***************************************************************************)
EXTENDS Programs

VARIABLES
  cpu,        \* pc, gpr (r0, r1, ...) and cpsr, of all modes; sp of user mode,
              \* lr of every mode, spsr of those with one of their own
  stk,        \* stk[m]: the words on the stack of mode m, from sp upward
  copied,     \* the words of the vector table in place
  on,         \* the timer and its interrupt are enabled
  tick,       \* the timer's interrupt status
  active,     \* IAR has been read and EOIR not yet written
  ran,        \* user instructions have been executed since the last tick
  curr_prog,  \* the pid of the current process
  queue,      \* the ready queue: pids with frames
  curr_pid,   \* the pid the next process gets
  seen        \* who executed last in user mode, and all threads then (history)

memory  == <<stk, copied, executed>>
devices == <<on, tick, active, ran>>
kernel  == <<curr_prog, queue, curr_pid>>
vars    == <<cpu, memory, devices, kernel, seen>>

(***************************************************************************)
(* The processor's status and modes.                                       *)
(***************************************************************************)
USR == 16
IRQ == 18
SVC == 19
Modes == {IRQ, SVC}  \* those with a stack and a link register of their own

Carry == 536870912  \* the weight of C

ModeOf(cpsr) == cpsr % 32
FlagsOf(cpsr) == cpsr \div Carry
WithFlags(cpsr, flags) == (cpsr % Carry) + Carry * flags
Masked(cpsr) == (cpsr \div 128) % 2 = 1

Mode == ModeOf(cpu.cpsr)
User == Mode = USR

\* The status an exception to mode m leaves: IRQs masked, the rest as it was.
Entered(m) == cpu.cpsr - Mode + m + (IF Masked(cpu.cpsr) THEN 0 ELSE 128)

Junk == -1  \* what a register or word holds that nobody has written
JunkFlags == 2  \* Z without C, which no comparison leaves

(***************************************************************************)
(* The code.  A listing gives the instructions from an address on; some    *)
(* have an operand n.  mov r0, sp and the argument it passes are part of   *)
(* the call after it: a C function finds the frame on top of the stack.    *)
(***************************************************************************)
int_init            == 1000
lolevel_handler_rst == 1100
hilevel_handler_rst == 1200
int_enable_irq      == 1300
lolevel_handler_svc == 2000
hilevel_handler_svc == 2100
lolevel_handler_irq == 3000
hilevel_handler_irq == 3100

I(op) == [op |-> op, n |-> 0]
N(op, n) == [op |-> op, n |-> n]

GprWords == Gprs + 2      \* the words stmia stores: r0-r12, sp, lr
CtxWords == GprWords + 2  \* those of a ctx_t

\* Mutant of Restore: the stack pointer is not moved back over the registers.
Restore_KeepsFrame ==
  <<I("ldmia_sp"), I("msr_spsr"), I("ldmia_user"), N("add_sp", 0), I("movs_pc")>>

\* The end of all three handlers.
Restore ==
  <<I("ldmia_sp"), I("msr_spsr"), I("ldmia_user"), N("add_sp", GprWords), I("movs_pc")>>

\* The beginning of two, where the return address is n instructions too far.
Preserve(n) ==
  <<N("sub_lr", n), N("sub_sp", GprWords), I("stmia_user"), I("mrs_spsr"), I("stmdb_sp")>>

IrqHandler == Preserve(1) \o <<N("bl", hilevel_handler_irq)>> \o Restore

SvcHandler == Preserve(0) \o <<I("ldr_svc"), N("bl", hilevel_handler_svc)>> \o Restore

RstHandler ==
  <<N("bl", int_init), N("msr_cpsr", 211), I("ldr_sp"), N("msr_cpsr", 210), I("ldr_sp"),
    N("sub_sp", CtxWords), N("bl", hilevel_handler_rst)>> \o Restore

\* Mutant of IrqFunction: the end of the interrupt is not signalled.
IrqFunction_NoEoir == <<I("push_lr"), I("IAR"), I("scheduler"), I("IntClr"), I("pop_pc")>>

IrqFunction ==
  <<I("push_lr"), I("IAR"), I("scheduler"), I("IntClr"), I("EOIR"), I("pop_pc")>>

SvcFunction == <<I("push_lr"), I("switch"), I("pop_pc")>>

RstFunction ==
  <<I("push_lr"), I("create"), I("configure"), N("bl", int_enable_irq), I("pop_pc")>>

\* The functions of int.s.  int_init copies TableWords words: eight vectors and
\* three addresses.
TableWords == 11
IntInit   == <<I("copy"), I("mov_pc_lr")>>
EnableIrq == <<I("enable"), I("mov_pc_lr")>>

\* Where each piece of code begins.
Listings ==
  {<<int_init, IntInit>>, <<int_enable_irq, EnableIrq>>,
   <<lolevel_handler_rst, RstHandler>>, <<hilevel_handler_rst, RstFunction>>,
   <<lolevel_handler_svc, SvcHandler>>, <<hilevel_handler_svc, SvcFunction>>,
   <<lolevel_handler_irq, IrqHandler>>, <<hilevel_handler_irq, IrqFunction>>}

Span(l) == l[1] .. l[1] + Len(l[2]) - 1

Code ==
  [a \in UNION {Span(l) : l \in Listings} |->
     LET l == CHOOSE l \in Listings : a \in Span(l) IN l[2][a - l[1] + 1]]

\* The vector of mode m, which int_init's table makes a load of an address.
Vector(m) == IF m = SVC THEN lolevel_handler_svc ELSE lolevel_handler_irq

(***************************************************************************)
(* Contexts: a frame is a ctx_t, cpsr, pc, r0, ..., sp, lr, word by word.  *)
(***************************************************************************)
ContextOf(f) ==
  [pc |-> f[2], gpr |-> SubSeq(f, 3, Gprs + 2), sp |-> f[Gprs + 3], lr |-> f[Gprs + 4],
   flags |-> FlagsOf(f[1])]

\* The registers of user mode.
Live ==
  [pc |-> cpu.pc, gpr |-> cpu.gpr, sp |-> cpu.sp, lr |-> cpu.lr[USR], flags |-> FlagsOf(cpu.cpsr)]

\* The registers of every process, while one executes.
Contexts ==
  [p \in {curr_prog} \cup {queue[i].pid : i \in DOMAIN queue} |->
     IF p = curr_prog THEN Live
     ELSE ContextOf(queue[CHOOSE i \in DOMAIN queue : queue[i].pid = p].frame)]

See == seen' = [running |-> curr_prog, thread |-> Contexts]'

\* create_process: programs start in user mode with interrupts on, cpsr 0x50.
\* Nothing is killed here, so process p gets stack p - 1, called by that number.
create_process(id, main_fn) ==
  <<80, main_fn>> \o [i \in 1 .. Gprs |-> 0] \o <<id - 1, 0>>

Init ==
  /\ cpu = [pc |-> lolevel_handler_rst, cpsr |-> 211, gpr |-> [i \in 1 .. Gprs |-> Junk],
             sp |-> Junk, lr |-> [m \in Modes \cup {USR} |-> Junk],
             spsr |-> [m \in Modes |-> Junk]]
  /\ stk = [m \in Modes |-> <<>>]
  /\ copied = 0
  /\ executed \in Sessions
  /\ on = FALSE /\ tick = FALSE /\ active = FALSE /\ ran = FALSE
  /\ curr_prog = 0 /\ queue = <<>> /\ curr_pid = 1
  /\ seen = [running |-> 0, thread |-> << >>]

(***************************************************************************)
(* Exceptions.  The distributor forwards the timer's interrupt while it is *)
(* enabled and not active; the processor takes it before an instruction    *)
(* unless cpsr masks it, with the address of that instruction plus 4.      *)
(***************************************************************************)
Interrupted == on /\ tick /\ ~active /\ ~Masked(cpu.cpsr)

Exception(m, return) ==
  /\ copied = TableWords
  /\ cpu' = [cpu EXCEPT !.pc = Vector(m), !.cpsr = Entered(m),
                        !.lr[m] = return, !.spsr[m] = cpu.cpsr]

TakeIrq ==
  /\ Interrupted
  /\ Exception(IRQ, cpu.pc + 1)
  /\ UNCHANGED <<memory, devices, kernel, seen>>

\* svc, the last instruction of a stub of libc.c but for copying the result.
TakeSvc ==
  /\ User /\ ~Interrupted /\ cpu.pc \in DOMAIN SvcAt
  /\ Exception(SVC, cpu.pc + 1)
  /\ ran' = TRUE
  /\ UNCHANGED <<memory, on, tick, active, kernel, seen>>

\* Any other instruction of a program.
UserInstruction ==
  /\ User /\ ~Interrupted /\ cpu.pc \notin DOMAIN SvcAt
  /\ LET c == After(Live) IN
       cpu' = [cpu EXCEPT !.pc = c.pc, !.gpr = c.gpr, !.sp = c.sp, !.lr[USR] = c.lr,
                          !.cpsr = WithFlags(@, c.flags)]
  /\ ran' = TRUE
  /\ UNCHANGED <<memory, on, tick, active, kernel>>
  /\ See

\* The timer runs out.  Its period, 2^20 ticks of a microsecond, is much longer
\* than any handler, the reset handler included, so that programs execute in each.
TimerExpires ==
  /\ on /\ ~tick /\ ran
  /\ tick' = TRUE /\ ran' = FALSE
  /\ UNCHANGED <<cpu, memory, on, active, kernel, seen>>

(***************************************************************************)
(* The instructions of the handlers.                                       *)
(***************************************************************************)
Fetch(op) ==
  /\ ~User /\ ~Interrupted
  /\ cpu.pc \in DOMAIN Code
  /\ Code[cpu.pc].op = op

Operand == Code[cpu.pc].n

\* The next instruction follows, with these registers.
Then(regs) == cpu' = [regs EXCEPT !.pc = cpu.pc + 1]

Stack == stk[Mode]

\* The word k places up, of which nothing is known above the stack.
Word(k) == IF k \in DOMAIN Stack THEN Stack[k] ELSE Junk

Drop(n) == SubSeq(Stack, n + 1, Len(Stack))

SetStack(words) == stk' = [stk EXCEPT ![Mode] = words] /\ UNCHANGED <<copied, executed>>

\* Only registers change; only registers and memory do.
Registers == UNCHANGED <<memory, devices, kernel, seen>>
Memory    == UNCHANGED <<devices, kernel, seen>>

bl ==
  /\ Fetch("bl")
  /\ cpu' = [cpu EXCEPT !.pc = Operand, !.lr[Mode] = cpu.pc + 1]
  /\ Registers

mov_pc_lr ==
  /\ Fetch("mov_pc_lr")
  /\ cpu' = [cpu EXCEPT !.pc = cpu.lr[Mode]]
  /\ Registers

\* One turn of int_init's loop.
copy ==
  /\ Fetch("copy")
  /\ copied' = copied + 1
  /\ IF copied' = TableWords THEN Then(cpu) ELSE UNCHANGED cpu
  /\ UNCHANGED <<stk, executed>> /\ Memory

msr_cpsr ==
  /\ Fetch("msr_cpsr")
  /\ Then([cpu EXCEPT !.cpsr = Operand])
  /\ Registers

\* int_enable_irq clears bit 7 and nothing else.
enable ==
  /\ Fetch("enable")
  /\ Then([cpu EXCEPT !.cpsr = @ - (IF Masked(@) THEN 128 ELSE 0)])
  /\ Registers

ldr_sp ==
  /\ Fetch("ldr_sp")
  /\ SetStack(<<>>) /\ Then(cpu)
  /\ Memory

sub_sp ==
  /\ Fetch("sub_sp")
  /\ SetStack([i \in 1 .. Operand |-> Junk] \o Stack) /\ Then(cpu)
  /\ Memory

add_sp ==
  /\ Fetch("add_sp")
  /\ SetStack(Drop(Operand)) /\ Then(cpu)
  /\ Memory

sub_lr ==
  /\ Fetch("sub_lr")
  /\ Then([cpu EXCEPT !.lr[Mode] = @ - Operand])
  /\ Registers

\* The registers of user mode, without moving the stack pointer.
stmia_user ==
  /\ Fetch("stmia_user")
  /\ SetStack(cpu.gpr \o <<cpu.sp, cpu.lr[USR]>> \o Drop(GprWords)) /\ Then(cpu)
  /\ Memory

ldmia_user ==
  /\ Fetch("ldmia_user")
  /\ Then([cpu EXCEPT !.gpr = [i \in 1 .. Gprs |-> Word(i)], !.sp = Word(Gprs + 1),
                      !.lr[USR] = Word(Gprs + 2)])
  /\ Registers

mrs_spsr ==
  /\ Fetch("mrs_spsr")
  /\ Then([cpu EXCEPT !.gpr[1] = cpu.spsr[Mode]])
  /\ Registers

msr_spsr ==
  /\ Fetch("msr_spsr")
  /\ Then([cpu EXCEPT !.spsr[Mode] = cpu.gpr[1]])
  /\ Registers

stmdb_sp ==
  /\ Fetch("stmdb_sp")
  /\ SetStack(<<cpu.gpr[1], cpu.lr[Mode]>> \o Stack) /\ Then(cpu)
  /\ Memory

ldmia_sp ==
  /\ Fetch("ldmia_sp")
  /\ Then([cpu EXCEPT !.gpr[1] = Word(1), !.lr[Mode] = Word(2)])
  /\ SetStack(Drop(2))
  /\ Memory

\* The number of the call is read from the svc instruction, before lr.
ldr_svc ==
  /\ Fetch("ldr_svc")
  /\ Then([cpu EXCEPT !.gpr[2] = SvcAt[cpu.lr[Mode] - 1]])
  /\ Registers

movs_pc ==
  /\ Fetch("movs_pc")
  /\ cpu' = [cpu EXCEPT !.pc = cpu.lr[Mode], !.cpsr = cpu.spsr[Mode]]
  /\ UNCHANGED <<memory, devices, kernel>>
  /\ IF ModeOf(cpu.spsr[Mode]) = USR THEN See ELSE UNCHANGED seen

(***************************************************************************)
(* The C functions.  They keep their return address on the stack, above    *)
(* the frame *ctx, and use the registers and flags as they like.           *)
(***************************************************************************)
push_lr ==
  /\ Fetch("push_lr")
  /\ SetStack(<<cpu.lr[Mode]>> \o Stack) /\ Then(cpu)
  /\ Memory

pop_pc ==
  /\ Fetch("pop_pc")
  /\ cpu' = [cpu EXCEPT !.pc = Word(1), !.gpr = [i \in 1 .. Gprs |-> Junk],
                        !.cpsr = WithFlags(@, JunkFlags)]
  /\ SetStack(Drop(1))
  /\ Memory

ctx == SubSeq(Stack, 2, CtxWords + 1)

SetCtx(frame) == SetStack(<<Stack[1]>> \o frame \o Drop(CtxWords + 1))

\* hilevel_handler_rst makes the first process and puts its registers in the
\* frame.
create ==
  /\ Fetch("create")
  /\ queue' = <<>> /\ curr_prog' = curr_pid /\ curr_pid' = curr_pid + 1
  /\ SetCtx(create_process(curr_pid, main_console)) /\ Then(cpu)
  /\ UNCHANGED <<devices, seen>>

\* It starts the timer and enables its interrupt.
configure ==
  /\ Fetch("configure")
  /\ on' = TRUE /\ Then(cpu)
  /\ UNCHANGED <<memory, tick, active, ran, kernel, seen>>

\* hilevel_handler_irq: the only source enabled is the timer.
IAR ==
  /\ Fetch("IAR")
  /\ active' = TRUE /\ Then(cpu)
  /\ UNCHANGED <<memory, on, tick, ran, kernel, seen>>

IntClr ==
  /\ Fetch("IntClr")
  /\ tick' = FALSE /\ Then(cpu)
  /\ UNCHANGED <<memory, on, active, ran, kernel, seen>>

EOIR ==
  /\ Fetch("EOIR")
  /\ active' = FALSE /\ Then(cpu)
  /\ UNCHANGED <<memory, on, tick, ran, kernel, seen>>

\* Mutant of Dispatch: the status in *ctx stays, since every program runs with 0x50.
Dispatch_SameStatus(q) ==
  /\ q # <<>>
  /\ queue' = Tail(q) /\ curr_prog' = q[1].pid
  /\ SetCtx([q[1].frame EXCEPT ![1] = ctx[1]]) /\ Then(cpu)
  /\ UNCHANGED <<curr_pid, devices, seen>>

\* scheduler( ctx ) with the current process pushed already, or not if it has
\* ended: the first of the queue becomes current.  Nothing in it is TERMINATED.
Dispatch(q) ==
  /\ q # <<>>
  /\ queue' = Tail(q) /\ curr_prog' = q[1].pid
  /\ SetCtx(q[1].frame) /\ Then(cpu)
  /\ UNCHANGED <<curr_pid, devices, seen>>

Saved == Append(queue, [pid |-> curr_prog, frame |-> ctx])

scheduler == Fetch("scheduler") /\ Dispatch(Saved)

(***************************************************************************)
(* hilevel_handler_svc( ctx, id ), with id in r1.                          *)
(***************************************************************************)
Switch(id) == Fetch("switch") /\ cpu.gpr[2] = id

svc_write ==
  /\ Switch(SYS_WRITE)
  /\ SetCtx([ctx EXCEPT ![3] = ctx[5]]) /\ Then(cpu)
  /\ UNCHANGED <<devices, kernel, seen>>

svc_fork ==
  /\ Switch(SYS_FORK)
  /\ LET child == [ctx EXCEPT ![3] = 0, ![Gprs + 3] = @ + curr_pid - curr_prog] IN
       queue' = Append(queue, [pid |-> curr_pid, frame |-> child])
  /\ SetCtx([ctx EXCEPT ![3] = curr_pid]) /\ Then(cpu)
  /\ curr_pid' = curr_pid + 1
  /\ UNCHANGED <<curr_prog, devices, seen>>

svc_exit == Switch(SYS_EXIT) /\ Dispatch(queue)

svc_exec ==
  /\ Switch(SYS_EXEC)
  /\ SetCtx([ctx EXCEPT ![2] = ctx[3], ![Gprs + 3] = curr_prog - 1]) /\ Then(cpu)
  /\ UNCHANGED <<devices, kernel, seen>>

Instruction ==
  \/ bl \/ mov_pc_lr \/ copy \/ msr_cpsr \/ enable \/ ldr_sp \/ sub_sp \/ add_sp \/ sub_lr
  \/ stmia_user \/ ldmia_user \/ mrs_spsr \/ msr_spsr \/ stmdb_sp \/ ldmia_sp \/ ldr_svc
  \/ movs_pc \/ push_lr \/ pop_pc \/ create \/ configure \/ IAR \/ IntClr \/ EOIR
  \/ scheduler \/ svc_write \/ svc_fork \/ svc_exit \/ svc_exec
  \/ TakeIrq \/ TakeSvc \/ UserInstruction

Next == Instruction \/ TimerExpires

Spec == Init /\ [][Next]_vars

\* The processor goes on, and the timer is periodic.
FairSpec == Spec /\ WF_vars(Instruction) /\ WF_vars(TimerExpires)

(***************************************************************************)
(* What should hold.                                                       *)
(***************************************************************************)
\* Between instructions of a program the mode stacks are empty, whatever handlers
\* have run and whoever they came from: every word lolevel.s pushes is popped, or
\* the stacks would grow into the user's with each interrupt.
StacksEmpty == User => \A m \in Modes : stk[m] = <<>>

\* The functions of P3, P4 and P5 return the Hamming weight, the greatest common
\* divisor and the primality of what they were given, however often the timer
\* interrupts them and others use the registers meanwhile.
ResultsRight ==
  /\ User => ResultRight(Live)
  /\ \A i \in DOMAIN queue : ResultRight(ContextOf(queue[i].frame))

\* Every process that waits executes again.  That rests on the devices too: the
\* handler must clear the timer and end the interrupt, or no other ever comes.
EveryoneRuns ==
  \A p \in 1 .. 1 + Max({Len(s) : s \in Sessions}) :
    (\E i \in DOMAIN queue : queue[i].pid = p) ~> (User /\ curr_prog = p)

T == INSTANCE Threads WITH running <- seen.running, thread <- seen.thread

\* The handlers implement Threads: an interrupt at any instruction and a call
\* return to the right place with the right registers.
ImplementsThreads == T!Spec
=============================================================================
