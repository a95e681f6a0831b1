------------------------ MODULE ProcessesProperties ------------------------
(***************************************************************************)
(* What the process half of the kernel should satisfy.                     *)
(***************************************************************************)
EXTENDS Processes

\* Every variable keeps its type: in particular a PCB in the queue is READY or
\* TERMINATED and never EXECUTING, or scheduler()'s loop would rotate the queue
\* for ever, and the current one is EXECUTING until the machine hangs.
TypeOK ==
  /\ curr_pid \in Pids
  /\ curr_prog \in PCB
  /\ queue \in Seq(PCB)
  /\ \A i \in DOMAIN queue : queue[i].status # "EXECUTING"
  /\ mode # "hung" => curr_prog.status = "EXECUTING"
  /\ fullStacks \in [StackIds -> BOOLEAN]
  /\ ctx \in Ctx
  /\ stack \in [StackIds -> Data]
  /\ mode \in Calls \cup {"usr", "hung"}

\* The processes the kernel has not forgotten: the current one and the queue.
Known == <<curr_prog>> \o queue

\* A pid names one process at a time and none that fork has still to create
\* (kill finds its victim by pid, pipes their owner).
PidsUnique ==
  /\ \A i, j \in DOMAIN queue : queue[i].pid = queue[j].pid => i = j
  /\ \A i \in DOMAIN queue : queue[i].pid # curr_prog.pid /\ queue[i].pid < curr_pid
  /\ curr_prog.pid < curr_pid

\* No two processes share a stack, and the stack of a process is marked taken
\* until the scheduler has forgotten the process: not when kill has only
\* marked it, or the next fork would hand out memory that is freed again later.
StacksExclusive ==
  mode # "hung" =>
    /\ \A i, j \in DOMAIN queue : queue[i].stack_id = queue[j].stack_id => i = j
    /\ \A i \in DOMAIN queue :
         queue[i].stack_id # curr_prog.stack_id /\ fullStacks[queue[i].stack_id]
    /\ fullStacks[curr_prog.stack_id]

\* The stack pointer of every process, saved or live, points into its own
\* stack: fork's address arithmetic relocates it, exec resets it.
SpInOwnStack ==
  /\ mode # "hung" => InStack(ctx.sp, curr_prog.stack_id)
  /\ \A i \in DOMAIN queue : InStack(queue[i].ctx.sp, queue[i].stack_id)

\* The live processes: what may still execute.
LivePids ==
  (IF mode = "hung" THEN {} ELSE {curr_prog.pid})
    \cup {queue[i].pid : i \in {j \in DOMAIN queue : queue[j].status = "READY"}}

\* A process that has exited or been killed never comes back, although a killed
\* one keeps its place, registers and stack in the queue until it is popped.
DeadStayDead ==
  [][\A p \in 1 .. curr_pid - 1 : p \notin LivePids => p \notin LivePids']_vars

\* p waits in the queue in front of q.
Before(p, q) ==
  \E i, j \in DOMAIN queue : i < j /\ queue[i].pid = p /\ queue[j].pid = q

Queued == {queue[i].pid : i \in DOMAIN queue}

\* Round robin: nobody overtakes.  The queue keeps its order, newcomers and the
\* preempted process go behind everybody, the process that gets the processor
\* leaves nobody live that was waiting in front of it, and the timer passes the
\* processor on whenever somebody live waits.
RoundRobin ==
  [][/\ hilevel_handler_irq /\ LivePids # {curr_prog.pid} => curr_prog'.pid # curr_prog.pid
     /\ \A p, q \in Queued \cup Queued' :
       /\ p \in Queued /\ q \in Queued' /\ p \in Queued' /\ ~Before(q, p) /\ p # q
            => Before(p, q)'
       /\ Before(p, q) /\ p \in LivePids /\ q \in LivePids
            => curr_prog'.pid # q \/ curr_prog.pid = q]_vars

\* A process waiting for the processor gets it, unless it is killed first.
EventuallyRuns ==
  \A p \in 1 .. MaxPid :
    (p \in LivePids /\ p \in Queued) ~> (curr_prog.pid = p \/ p \notin LivePids)

\* scheduler() never runs out of processes: the console (which the shipped
\* programs cannot terminate) is always there to be scheduled.
NeverHung == mode # "hung"

(***************************************************************************)
(* Every process runs as if on a processor of its own: the kernel          *)
(* implements VirtualCPUs.  The registers of the current process are the   *)
(* live ones, those of the others the ones saved in the queue.             *)
(***************************************************************************)
ViewOf(c, id) ==
  [prog |-> c.prog, at |-> c.at, r0 |-> c.r0,
   depth |-> c.sp - getStackAddress(id), mem |-> stack[id]]

View ==
  [p \in LivePids |->
     IF p = curr_prog.pid
     THEN ViewOf(ctx, curr_prog.stack_id)
     ELSE LET pcb == queue[CHOOSE i \in DOMAIN queue : queue[i].pid = p]
          IN ViewOf(pcb.ctx, pcb.stack_id)]

VCPU == INSTANCE VirtualCPUs WITH
  Boot    <- [prog |-> Console, at |-> "run", r0 |-> 0, depth |-> 0, mem |-> 0],
  procs   <- LivePids,
  used    <- 1 .. curr_pid - 1,
  running <- IF mode = "hung" THEN 0 ELSE curr_prog.pid,
  view    <- View

\* Time sharing is transparent: saving and restoring contexts, copying stacks
\* and reusing them never lets one process see or change another.
ImplementsVirtualCPUs == VCPU!Spec

(***************************************************************************)
(* What comments of the repository say, and the code does not do.          *)
(***************************************************************************)
\* console.c:113: fork returns -1 because there is "No stack memory": every stack
\* is held by a process that has not exited.
ForkFailsOnlyWhenFull ==
  [][mode = "fork" /\ mode' = "usr" /\ ctx'.r0 = -1
       => \A s \in StackIds : \E i \in DOMAIN Known : Known[i].stack_id = s]_vars
=============================================================================
