----------------------------- MODULE Processes -----------------------------
(***************************************************************************)
(* The process half of the kernel: kernel/hilevel.c's PCBs, the round      *)
(* robin ready queue, the table of stacks, the timer interrupt and the     *)
(* system calls fork, exec, exit, kill, getpid (and the calls the switch   *)
(* does not know: yield, nice), with the low level entry and exit code of  *)
(* kernel/lolevel.s.                                                       *)
(*                                                                         *)
(* A user program is reduced to what the kernel can tell apart: which      *)
(* program image it runs, its stack pointer, the contents of its stack,    *)
(* r0, and whether the last call it returned from was fork.  Addresses are *)
(* counted downwards from tos_P, so stack id covers the addresses          *)
(* StackSize * id + d for d in 0 .. StackSize - 1.                         *)
(***************************************************************************)
EXTENDS Integers, Sequences

CONSTANTS
  Stacks,     \* number of stacks, STACKS in the code (18)
  StackSize,  \* addresses per stack, 0x1000 bytes in the code
  MaxPid,     \* bound of the model: no process is created with a larger pid
  Programs,   \* the program images linked into the kernel
  Console,    \* the image the kernel boots, main_console
  Loads,      \* Loads[p]: the images a child forked by image p may exec
  Uses,       \* Uses[p]: the system calls the code of image p makes
  Data        \* what a program may leave on its stack; 0 is cleared memory

ASSUME ConstantsAssumption ==
  /\ Stacks \in Nat \ {0} /\ StackSize \in Nat \ {0} /\ MaxPid \in Nat \ {0}
  /\ Console \in Programs /\ Programs \cap Int = {}
  /\ Loads \in [Programs -> SUBSET Programs]
  /\ Uses \in [Programs -> SUBSET {"fork", "exit", "kill", "getpid", "yield", "nice"}]
  /\ 0 \in Data

VARIABLES
  curr_pid,   \* the pid the next process gets
  curr_prog,  \* the PCB of the current process
  queue,      \* the ready queue, a sequence of PCBs (copied by value)
  fullStacks, \* fullStacks[i]: stack i is taken
  ctx,        \* the user registers: live in user mode, the frame in a handler
  stack,      \* stack[i]: what the memory of stack i holds
  mode        \* "usr", the system call being handled, or "hung"

vars == <<curr_pid, curr_prog, queue, fullStacks, ctx, stack, mode>>

StackIds == 0 .. Stacks - 1
Pids     == Nat \ {0}
Status   == {"READY", "EXECUTING", "TERMINATED"}
Calls    == {"fork", "exec", "exit", "kill", "getpid", "yield", "nice"}

Ctx == [prog : Programs, at : {"run", "fork"}, r0 : Int \cup Programs, sp : Nat]
PCB == [pid : Pids, priority : Int, status : Status, ctx : Ctx, stack_id : StackIds]

(***************************************************************************)
(* Helpers of hilevel.c.                                                   *)
(***************************************************************************)
getStackAddress(id) == StackSize * id

\* Address a lies in the memory of stack id.
InStack(a, id) == a - getStackAddress(id) \in 0 .. StackSize - 1

memStackAvailable == \E i \in StackIds : ~fullStacks[i]

\* getFreeStack returns the first stack that is not taken.
IsFreeStack(i) == ~fullStacks[i] /\ \A j \in 0 .. i - 1 : fullStacks[j]

\* The PCB create_process builds: it is READY and its registers are those of
\* main_fn about to start on an empty stack.
create_process(id, main_fn, s) ==
  [pid |-> id, priority |-> 0, status |-> "READY", stack_id |-> s,
   ctx |-> [prog |-> main_fn, at |-> "run", r0 |-> 0, sp |-> getStackAddress(s)]]

Init ==
  /\ curr_prog = [create_process(1, Console, 0) EXCEPT !.status = "EXECUTING"]
  /\ ctx = curr_prog.ctx
  /\ curr_pid = 2
  /\ queue = <<>>
  /\ fullStacks = [i \in StackIds |-> i = 0]
  /\ stack = [i \in StackIds |-> 0]
  /\ mode = "usr"

(***************************************************************************)
(* scheduler( ctx ).  The current process is saved and, unless it has      *)
(* terminated, queued; then the queue is popped until a READY process      *)
(* comes out.  A TERMINATED one that is popped is forgotten and its stack  *)
(* given back, any other is pushed back.  With nothing READY the loop      *)
(* never ends, and interrupts are masked: the machine hangs, having        *)
(* forgotten whatever was TERMINATED.                                      *)
(***************************************************************************)
\* Mutant of Saved: the registers are not saved.
Saved_Stale == curr_prog

Saved == [curr_prog EXCEPT !.ctx = ctx]

\* Mutants of Requeued: the current process goes to the head of the queue; it
\* keeps its status; it is not pushed at all.
Requeued_AtHead(pcb) ==
  IF pcb.status = "TERMINATED"
  THEN queue
  ELSE <<[pcb EXCEPT !.status = "READY"]>> \o queue
Requeued_SameStatus(pcb) ==
  IF pcb.status = "TERMINATED" THEN queue ELSE Append(queue, pcb)
Requeued_Lost(pcb) == queue

Requeued(pcb) ==
  IF pcb.status = "TERMINATED"
  THEN queue
  ELSE Append(queue, [pcb EXCEPT !.status = "READY"])

\* Mutant of FirstReady: the loop's status test is gone, the head runs.
FirstReady_HeadRuns(q, k) == k = 1

\* The position of the process the loop stops at.
FirstReady(q, k) ==
  /\ q[k].status = "READY"
  /\ \A j \in 1 .. k - 1 : q[j].status # "READY"

\* What the loop pushes back of the PCBs it pops, in order.
PushedBack(popped) ==
  IF \A j \in DOMAIN popped : popped[j].status = "TERMINATED"
  THEN <<>>
  ELSE SelectSeq(popped, LAMBDA pcb : pcb.status # "TERMINATED")

\* Mutant of StacksAfter: no stack is given back.
StacksAfter_Kept(popped) == fullStacks

\* fullStacks once the stacks of the TERMINATED PCBs among these are free.
StacksAfter(popped) ==
  [i \in StackIds |->
     /\ fullStacks[i]
     /\ \A j \in DOMAIN popped :
          ~(popped[j].status = "TERMINATED" /\ popped[j].stack_id = i)]

Dispatch(q, k) ==
  LET popped == SubSeq(q, 1, k - 1) IN
  /\ fullStacks' = StacksAfter(popped)
  /\ queue' = SubSeq(q, k + 1, Len(q)) \o PushedBack(popped)
  /\ curr_prog' = [q[k] EXCEPT !.status = "EXECUTING"]
  /\ ctx' = q[k].ctx
  /\ mode' = "usr"

Spin(pcb, q) ==
  LET popped == IF q = <<>> THEN <<pcb>> ELSE q IN
  /\ fullStacks' = StacksAfter(popped)
  /\ queue' = PushedBack(q)
  /\ curr_prog' = popped[Len(popped)]
  /\ mode' = "hung"
  /\ UNCHANGED ctx

scheduler(pcb) ==
  LET q == Requeued(pcb) IN
  \/ \E k \in DOMAIN q : FirstReady(q, k) /\ Dispatch(q, k)
  \/ (\A k \in DOMAIN q : q[k].status # "READY") /\ Spin(pcb, q)

(***************************************************************************)
(* User mode.  The child of a fork, recognised by r0 = 0 on return from    *)
(* the call, goes on to exec (console.c:109-113, waiter.c:23-28).          *)
(***************************************************************************)
IsChild == ctx.at = "fork" /\ ctx.r0 = 0

\* Some instructions of the current program: it uses its stack.
Compute ==
  /\ mode = "usr"
  /\ \E id \in StackIds, d \in 0 .. StackSize - 1, v \in Data :
       /\ InStack(ctx.sp, id)
       /\ ctx' = [ctx EXCEPT !.sp = getStackAddress(id) + d]
       /\ stack' = [stack EXCEPT ![id] = v]
  /\ UNCHANGED <<curr_pid, curr_prog, queue, fullStacks, mode>>

\* The svc instruction, with its argument in r0: lolevel_handler_svc saves the
\* registers in a frame and enters the handler with interrupts masked.
Svc(id, arg) ==
  /\ mode = "usr"
  /\ mode' = id
  /\ ctx' = [ctx EXCEPT !.r0 = arg, !.at = IF id = "fork" THEN "fork" ELSE "run"]
  /\ UNCHANGED <<curr_pid, curr_prog, queue, fullStacks, stack>>

May(id) == id \in Uses[ctx.prog] /\ ~IsChild

fork == May("fork") /\ curr_pid <= MaxPid /\ Svc("fork", ctx.r0)

exec == IsChild /\ \E image \in Loads[ctx.prog] : Svc("exec", image)

exit == May("exit") /\ Svc("exit", 0)

kill == May("kill") /\ \E pid \in 1 .. curr_pid : Svc("kill", pid)

getpid == May("getpid") /\ Svc("getpid", ctx.r0)

yield == May("yield") /\ Svc("yield", ctx.r0)

nice == May("nice") /\ \E pid \in 1 .. curr_pid : Svc("nice", pid)

(***************************************************************************)
(* Kernel mode: hilevel_handler_irq for the timer, and one action for each *)
(* case of the switch in hilevel_handler_svc.                              *)
(***************************************************************************)
hilevel_handler_irq ==
  /\ mode = "usr"
  /\ scheduler(Saved)
  /\ UNCHANGED <<curr_pid, stack>>

\* Mutants of Child: it keeps the stack pointer of its parent; the whole PCB is
\* copied, with the pid; the result is set before the registers are copied.
Child_SameSp(s) ==
  [create_process(curr_pid, Console, s) EXCEPT !.ctx = [ctx EXCEPT !.r0 = 0]]
Child_SamePid(s) ==
  [create_process(curr_prog.pid, Console, s) EXCEPT !.ctx =
    [ctx EXCEPT !.r0 = 0, !.sp = @ + StackSize * (s - curr_prog.stack_id)]]

Child_ParentsResult(s) ==
  [create_process(curr_pid, Console, s) EXCEPT !.ctx =
    [ctx EXCEPT !.r0 = curr_pid, !.sp = @ + StackSize * (s - curr_prog.stack_id)]]

\* The child that fork makes on stack s: the registers of the caller, with sp
\* moved to the same place of its own stack and 0 for the result.
Child(s) ==
  [create_process(curr_pid, Console, s) EXCEPT !.ctx =
    [ctx EXCEPT !.r0 = 0, !.sp = @ + StackSize * (s - curr_prog.stack_id)]]

\* fork with a stack to give, which becomes a copy of the caller's.
svc_fork ==
  /\ mode = "fork"
  /\ memStackAvailable
  /\ \E s \in StackIds :
       /\ IsFreeStack(s)
       /\ fullStacks' = [fullStacks EXCEPT ![s] = TRUE]
       /\ stack' = [stack EXCEPT ![s] = stack[curr_prog.stack_id]]
       /\ queue' = Append(queue, Child(s))
  /\ ctx' = [ctx EXCEPT !.r0 = curr_pid]
  /\ curr_pid' = curr_pid + 1
  /\ mode' = "usr"
  /\ UNCHANGED curr_prog

\* fork with every stack taken.
svc_fork_fails ==
  /\ mode = "fork"
  /\ ~memStackAvailable
  /\ ctx' = [ctx EXCEPT !.r0 = -1]
  /\ mode' = "usr"
  /\ UNCHANGED <<curr_pid, curr_prog, queue, fullStacks, stack>>

\* exit marks the current process and schedules; its stack is not given back.
svc_exit ==
  /\ mode = "exit"
  /\ scheduler([Saved EXCEPT !.status = "TERMINATED"])
  /\ UNCHANGED <<curr_pid, stack>>

svc_exec ==
  /\ mode = "exec"
  /\ ctx' = [ctx EXCEPT !.prog = ctx.r0, !.sp = getStackAddress(curr_prog.stack_id)]
  /\ stack' = [stack EXCEPT ![curr_prog.stack_id] = 0]
  /\ curr_prog' = [curr_prog EXCEPT !.ctx = ctx']
  /\ mode' = "usr"
  /\ UNCHANGED <<curr_pid, queue, fullStacks>>

\* terminateProgram: the first PCB of the queue with this pid.  The current
\* process is not in the queue, so it cannot be its own victim.
IsVictim(i, pid) ==
  /\ queue[i].pid = pid
  /\ \A j \in 1 .. i - 1 : queue[j].pid # pid

\* Mutant of svc_kill: the stack is given back at once, and again on reaping.
svc_kill_FreesStack ==
  /\ mode = "kill"
  /\ \/ \E i \in DOMAIN queue :
            /\ IsVictim(i, ctx.r0)
            /\ queue' = [queue EXCEPT ![i].status = "TERMINATED"]
            /\ fullStacks' = [fullStacks EXCEPT ![queue[i].stack_id] = FALSE]
            /\ ctx' = [ctx EXCEPT !.r0 = 1]
     \/ /\ \A i \in DOMAIN queue : queue[i].pid # ctx.r0
        /\ ctx' = [ctx EXCEPT !.r0 = 0]
        /\ UNCHANGED <<queue, fullStacks>>
  /\ mode' = "usr"
  /\ UNCHANGED <<curr_pid, curr_prog, stack>>

svc_kill ==
  /\ mode = "kill"
  /\ \/ \E i \in DOMAIN queue :
            /\ IsVictim(i, ctx.r0)
            /\ queue' = [queue EXCEPT ![i].status = "TERMINATED"]
            /\ ctx' = [ctx EXCEPT !.r0 = 1]
     \/ /\ \A i \in DOMAIN queue : queue[i].pid # ctx.r0
        /\ ctx' = [ctx EXCEPT !.r0 = 0]
        /\ UNCHANGED queue
  /\ mode' = "usr"
  /\ UNCHANGED <<curr_pid, curr_prog, fullStacks, stack>>

svc_getpid ==
  /\ mode = "getpid"
  /\ ctx' = [ctx EXCEPT !.r0 = curr_prog.pid]
  /\ mode' = "usr"
  /\ UNCHANGED <<curr_pid, curr_prog, queue, fullStacks, stack>>

\* yield and nice have no case of their own and fall to the default.
svc_default ==
  /\ mode \in {"yield", "nice"}
  /\ mode' = "usr"
  /\ UNCHANGED <<curr_pid, curr_prog, queue, fullStacks, ctx, stack>>

User == Compute \/ fork \/ exec \/ exit \/ kill \/ getpid \/ yield \/ nice

hilevel_handler_svc ==
  \/ svc_fork \/ svc_fork_fails \/ svc_exit \/ svc_exec \/ svc_kill
  \/ svc_getpid \/ svc_default

Next == User \/ hilevel_handler_irq \/ hilevel_handler_svc

Spec == Init /\ [][Next]_vars

\* The timer is periodic and its interrupt stays pending while a handler runs
\* with interrupts masked, so it is taken whenever user mode keeps coming back;
\* a handler, once entered, runs to its end.
Fairness == SF_vars(hilevel_handler_irq) /\ WF_vars(hilevel_handler_svc)

FairSpec == Spec /\ Fairness
=============================================================================
