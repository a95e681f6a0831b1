--------------------------- MODULE ProcessesProofs ---------------------------
(***************************************************************************)
(* Proofs about Processes, for any number and size of stacks, any programs *)
(* and any calls they make: types, pids, stacks, turns, and that every     *)
(* process runs as if on a processor of its own.                           *)
(***************************************************************************)
EXTENDS ProcessesProperties, SequenceTheorems, TLAPS

-----------------------------------------------------------------------------
(* Addresses.                                                              *)

LEMMA StackAddressType ==
  ASSUME NEW id \in Nat
  PROVE  getStackAddress(id) \in Nat
BY ConstantsAssumption DEF getStackAddress

\* fork's relocation: the same depth, in the stack of the child.
LEMMA Relocated ==
  ASSUME NEW sp \in Int, NEW from \in Nat, NEW to \in Nat, InStack(sp, from)
  PROVE  InStack(sp + StackSize * (to - from), to)
<1>1. StackSize * (to - from) = StackSize * to - StackSize * from
  BY ConstantsAssumption
<1>2. StackSize * to \in Nat /\ StackSize * from \in Nat
  BY ConstantsAssumption
<1> QED
  BY <1>1, <1>2 DEF InStack, getStackAddress

\* Addresses in a stack are natural numbers.
LEMMA InStackNat ==
  ASSUME NEW a \in Int, NEW id \in Nat, InStack(a, id)
  PROVE  a \in Nat
BY StackAddressType, ConstantsAssumption DEF InStack

\* Stacks do not overlap.
LEMMA OneStack ==
  ASSUME NEW a \in Int, NEW i \in Nat, NEW j \in Nat, InStack(a, i), InStack(a, j)
  PROVE  i = j
<1>1. ASSUME NEW m \in Nat, NEW n \in Nat, InStack(a, m), InStack(a, n), m < n
      PROVE  FALSE
  <2>1. StackSize * n = StackSize * m + StackSize * (n - m)
    BY ConstantsAssumption
  <2>2. StackSize * (n - m) >= StackSize
    BY <1>1, ConstantsAssumption
  <2>3. StackSize * m \in Nat /\ StackSize * n \in Nat /\ StackSize * (n - m) \in Nat
    BY <1>1, ConstantsAssumption
  <2> QED
    BY <1>1, <2>1, <2>2, <2>3, ConstantsAssumption DEF InStack, getStackAddress
<1> QED
  BY <1>1

LEMMA TopInStack ==
  ASSUME NEW id \in Nat
  PROVE  InStack(getStackAddress(id), id)
BY StackAddressType, ConstantsAssumption DEF InStack

-----------------------------------------------------------------------------
(* What a call of scheduler() does, given that the queue is well formed.   *)

\* The queue the scheduler pops from: the old one, then the current process.
LEMMA RequeuedProperties ==
  ASSUME TypeOK, NEW pcb \in PCB
  PROVE  /\ Requeued(pcb) \in Seq(PCB)
         /\ Len(Requeued(pcb)) >= Len(queue)
         /\ \A k \in 1 .. Len(Requeued(pcb)) :
              \/ k \in 1 .. Len(queue) /\ Requeued(pcb)[k] = queue[k]
              \/ /\ k = Len(queue) + 1
                 /\ pcb.status # "TERMINATED"
                 /\ Requeued(pcb)[k] = [pcb EXCEPT !.status = "READY"]
         /\ \A k \in 1 .. Len(Requeued(pcb)) :
              Requeued(pcb)[k].status \in {"READY", "TERMINATED"}
<1> DEFINE ready == [pcb EXCEPT !.status = "READY"]
<1>1. ready \in PCB /\ ready.status = "READY"
  BY DEF PCB, Status
<1>2. queue \in Seq(PCB) /\ Len(queue) \in Nat /\ DOMAIN queue = 1 .. Len(queue)
  BY LenProperties DEF TypeOK
<1>3. \A k \in 1 .. Len(queue) : queue[k].status \in {"READY", "TERMINATED"}
  <2> SUFFICES ASSUME NEW k \in 1 .. Len(queue)
               PROVE  queue[k].status \in {"READY", "TERMINATED"}
    OBVIOUS
  <2>1. queue[k] \in PCB
    BY <1>2, ElementOfSeq
  <2>2. queue[k].status # "EXECUTING"
    BY <1>2 DEF TypeOK
  <2> QED
    BY <2>1, <2>2 DEF PCB, Status
<1>4. CASE pcb.status = "TERMINATED"
  BY <1>2, <1>3, <1>4 DEF Requeued
<1>5. CASE pcb.status # "TERMINATED"
  <2>1. Requeued(pcb) = Append(queue, ready)
    BY <1>5 DEF Requeued
  <2>2. /\ Append(queue, ready) \in Seq(PCB)
        /\ Len(Append(queue, ready)) = Len(queue) + 1
        /\ \A i \in 1 .. Len(queue) : Append(queue, ready)[i] = queue[i]
        /\ Append(queue, ready)[Len(queue) + 1] = ready
    BY <1>1, <1>2, AppendProperties
  <2> QED
    BY <1>1, <1>2, <1>3, <1>5, <2>1, <2>2
<1> QED
  BY <1>4, <1>5

\* Popping up to a READY process: what was in front of it is gone, with its
\* stacks, and what was behind it is the new queue.
LEMMA DispatchStep ==
  ASSUME NEW q \in Seq(PCB), NEW k \in 1 .. Len(q), FirstReady(q, k), Dispatch(q, k),
         \A j \in 1 .. Len(q) : q[j].status \in {"READY", "TERMINATED"}
  PROVE  /\ q[k].status = "READY"
         /\ queue' \in Seq(PCB)
         /\ Len(queue') = Len(q) - k
         /\ \A i \in 1 .. Len(queue') : queue'[i] = q[k + i]
         /\ fullStacks' = [i \in StackIds |->
              fullStacks[i] /\ \A j \in 1 .. k - 1 : q[j].stack_id # i]
<1> DEFINE popped == SubSeq(q, 1, k - 1)
           rest   == SubSeq(q, k + 1, Len(q))
<1>1. Len(q) \in Nat
  BY LenProperties
<1>2. /\ popped \in Seq(PCB)
      /\ Len(popped) = k - 1
      /\ \A i \in 1 .. k - 1 : popped[i] = q[i]
  <2>1. \A i \in 1 .. k - 1 : q[i] \in PCB
    BY <1>1, ElementOfSeq
  <2> QED
    BY <1>1, <2>1, SubSeqProperties
<1>3. /\ rest \in Seq(PCB)
      /\ Len(rest) = Len(q) - k
      /\ \A i \in 1 .. Len(q) - k : rest[i] = q[k + i]
  <2>1. \A i \in k + 1 .. Len(q) : q[i] \in PCB
    BY <1>1, ElementOfSeq
  <2>2. /\ rest \in Seq(PCB)
        /\ Len(rest) = IF k + 1 <= Len(q) THEN Len(q) - (k + 1) + 1 ELSE 0
        /\ \A i \in 1 .. Len(q) - (k + 1) + 1 : rest[i] = q[(k + 1) + i - 1]
    BY <1>1, <2>1, SubSeqProperties
  <2>3. \A i \in 1 .. Len(q) - k : i \in 1 .. Len(q) - (k + 1) + 1 /\ (k + 1) + i - 1 = k + i
    BY <1>1
  <2>4. Len(rest) = Len(q) - k
    BY <1>1, <2>2
  <2> QED
    BY <2>2, <2>3, <2>4
<1>4. DOMAIN popped = 1 .. k - 1 /\ \A j \in 1 .. k - 1 : popped[j].status = "TERMINATED"
  <2>1. DOMAIN popped = 1 .. k - 1
    BY <1>2, LenProperties
  <2>2. \A j \in 1 .. k - 1 : q[j].status = "TERMINATED"
    BY <1>1 DEF FirstReady
  <2> QED
    BY <1>2, <2>1, <2>2
<1>5. PushedBack(popped) = <<>>
  BY <1>4 DEF PushedBack
<1>6. queue' = rest
  <2>1. queue' = rest \o <<>>
    BY <1>5 DEF Dispatch
  <2> QED
    BY <1>3, <2>1, ConcatEmptySeq
<1>7. fullStacks' = [i \in StackIds |->
        fullStacks[i] /\ \A j \in 1 .. k - 1 : q[j].stack_id # i]
  BY <1>2, <1>4 DEF Dispatch, StacksAfter
<1>8. q[k].status = "READY"
  BY DEF FirstReady
<1> QED
  BY <1>1, <1>3, <1>6, <1>7, <1>8

\* Popping until the queue is empty leaves nothing.
LEMMA SpinStep ==
  ASSUME NEW pcb \in PCB, NEW q \in Seq(PCB), Spin(pcb, q),
         \A j \in 1 .. Len(q) : q[j].status = "TERMINATED"
  PROVE  /\ queue' = <<>>
         /\ \/ curr_prog' = pcb
            \/ \E j \in 1 .. Len(q) : curr_prog' = q[j]
         /\ fullStacks' \in [StackIds -> BOOLEAN]
<1>1. DOMAIN q = 1 .. Len(q) /\ Len(q) \in Nat
  BY LenProperties
<1>2. PushedBack(q) = <<>>
  BY <1>1 DEF PushedBack
<1>3. CASE q = <<>>
  <2>1. curr_prog' = <<pcb>>[Len(<<pcb>>)]
    BY <1>3 DEF Spin
  <2> QED
    BY <1>2, <2>1 DEF Spin, StacksAfter
<1>4. CASE q # <<>>
  <2>1. curr_prog' = q[Len(q)]
    BY <1>4 DEF Spin
  <2>2. Len(q) \in 1 .. Len(q)
    BY <1>1, <1>4, EmptySeq
  <2> QED
    BY <1>2, <2>1, <2>2 DEF Spin, StacksAfter
<1> QED
  BY <1>3, <1>4

-----------------------------------------------------------------------------
(* Types.  TypeOK alone is not inductive: the registers a program starts   *)
(* from are a type error unless exec is called with a program, and the     *)
(* stack pointer fork computes is one unless the caller's was in place.    *)

ExecLoads == mode = "exec" => ctx.r0 \in Programs

Typed == TypeOK /\ SpInOwnStack /\ ExecLoads

LEMMA NewProcessType ==
  ASSUME NEW id \in Pids, NEW main_fn \in Programs, NEW s \in StackIds
  PROVE  /\ create_process(id, main_fn, s) \in PCB
         /\ create_process(id, main_fn, s).ctx \in Ctx
<1>1. getStackAddress(s) \in Nat
  BY StackAddressType DEF StackIds
<1>2. [prog |-> main_fn, at |-> "run", r0 |-> 0, sp |-> getStackAddress(s)] \in Ctx
  BY <1>1 DEF Ctx
<1> QED
  BY <1>2 DEF create_process, PCB, Status

LEMMA InitTyped == Init => Typed
<1> SUFFICES ASSUME Init PROVE Typed
  OBVIOUS
<1>1. 0 \in StackIds /\ 1 \in Pids /\ 2 \in Pids /\ Console \in Programs
  BY ConstantsAssumption DEF StackIds, Pids
<1>2. create_process(1, Console, 0) \in PCB /\ create_process(1, Console, 0).ctx \in Ctx
  BY <1>1, NewProcessType
<1>3. curr_prog \in PCB /\ ctx \in Ctx /\ curr_prog.status = "EXECUTING"
  BY <1>2 DEF Init, PCB, Status
<1>4. queue \in Seq(PCB) /\ DOMAIN queue = {}
  BY DEF Init
<1>5. stack \in [StackIds -> Data] /\ fullStacks \in [StackIds -> BOOLEAN]
  BY ConstantsAssumption DEF Init
<1>6. curr_prog.stack_id = 0 /\ ctx.sp = getStackAddress(0)
  BY DEF Init, create_process
<1>7. SpInOwnStack
  BY <1>4, <1>6, TopInStack DEF SpInOwnStack
<1> QED
  BY <1>1, <1>3, <1>4, <1>5, <1>7 DEF Typed, TypeOK, ExecLoads, Init

\* The scheduler, called for the timer or by exit.
LEMMA SchedulerTyped ==
  ASSUME Typed, mode # "hung",
         NEW status \in {"EXECUTING", "TERMINATED"},
         scheduler([Saved EXCEPT !.status = status]),
         UNCHANGED <<curr_pid, stack>>
  PROVE  Typed'
<1> DEFINE pcb == [Saved EXCEPT !.status = status]
           q   == Requeued(pcb)
<1>1. pcb \in PCB /\ pcb.ctx = ctx /\ pcb.stack_id = curr_prog.stack_id
  BY DEF Typed, TypeOK, Saved, PCB, Status
<1>2. /\ q \in Seq(PCB) /\ Len(q) \in Nat /\ DOMAIN q = 1 .. Len(q)
      /\ \A k \in 1 .. Len(q) : q[k] \in PCB
      /\ \A k \in 1 .. Len(q) : q[k].status \in {"READY", "TERMINATED"}
  BY <1>1, RequeuedProperties, LenProperties, ElementOfSeq DEF Typed
<1>3. DOMAIN queue = 1 .. Len(queue)
  BY LenProperties DEF Typed, TypeOK
<1>4. \A k \in 1 .. Len(q) : InStack(q[k].ctx.sp, q[k].stack_id)
  <2> SUFFICES ASSUME NEW k \in 1 .. Len(q)
               PROVE  InStack(q[k].ctx.sp, q[k].stack_id)
    OBVIOUS
  <2>1. CASE k \in 1 .. Len(queue) /\ q[k] = queue[k]
    BY <1>3, <2>1 DEF Typed, SpInOwnStack
  <2>2. CASE q[k] = [pcb EXCEPT !.status = "READY"]
    <3>1. q[k].ctx = ctx /\ q[k].stack_id = curr_prog.stack_id
      BY <1>1, <2>2 DEF PCB
    <3> QED
      BY <3>1 DEF Typed, SpInOwnStack
  <2> QED
    BY <1>1, <2>1, <2>2, RequeuedProperties DEF Typed
<1>5. curr_pid' \in Pids /\ stack' \in [StackIds -> Data]
  BY DEF Typed, TypeOK
<1>6. \/ \E k \in DOMAIN q : FirstReady(q, k) /\ Dispatch(q, k)
      \/ (\A k \in DOMAIN q : q[k].status # "READY") /\ Spin(pcb, q)
  BY DEF scheduler
<1> HIDE DEF q, pcb
<1>7. ASSUME NEW k \in 1 .. Len(q), FirstReady(q, k), Dispatch(q, k)
      PROVE  Typed'
  <2>1. /\ queue' \in Seq(PCB) /\ Len(queue') = Len(q) - k
        /\ \A i \in 1 .. Len(queue') : queue'[i] = q[k + i]
        /\ fullStacks' = [i \in StackIds |->
             fullStacks[i] /\ \A j \in 1 .. k - 1 : q[j].stack_id # i]
    BY <1>2, <1>7, DispatchStep
  <2>2. DOMAIN queue' = 1 .. Len(queue')
    BY <2>1, LenProperties
  <2>3. \A i \in DOMAIN queue' : k + i \in 1 .. Len(q) /\ queue'[i] = q[k + i]
    BY <1>2, <2>1, <2>2
  <2>4. q[k] \in PCB
    BY <1>2
  <2>5. /\ curr_prog' = [q[k] EXCEPT !.status = "EXECUTING"]
        /\ ctx' = q[k].ctx /\ mode' = "usr"
    BY <1>7 DEF Dispatch
  <2>6. /\ curr_prog' \in PCB /\ curr_prog'.status = "EXECUTING"
        /\ curr_prog'.stack_id = q[k].stack_id /\ ctx' \in Ctx
    BY <2>4, <2>5 DEF PCB, Status
  <2>7. TypeOK'
    <3>1. \A i \in DOMAIN queue' : queue'[i].status # "EXECUTING"
      BY <1>2, <2>3
    <3>2. fullStacks' \in [StackIds -> BOOLEAN]
      BY <2>1
    <3> QED
      BY <1>5, <2>1, <2>5, <2>6, <3>1, <3>2 DEF TypeOK
  <2>8. SpInOwnStack'
    BY <1>4, <2>3, <2>5, <2>6 DEF SpInOwnStack
  <2> QED
    BY <2>5, <2>7, <2>8 DEF Typed, ExecLoads
<1>8. ASSUME \A k \in DOMAIN q : q[k].status # "READY", Spin(pcb, q)
      PROVE  Typed'
  <2>1. \A j \in 1 .. Len(q) : q[j].status = "TERMINATED"
    BY <1>2, <1>8
  <2>2. /\ queue' = <<>> /\ curr_prog' \in PCB
        /\ fullStacks' \in [StackIds -> BOOLEAN]
    BY <1>1, <1>2, <1>8, <2>1, SpinStep
  <2>3. ctx' = ctx /\ mode' = "hung"
    BY <1>8 DEF Spin
  <2>4. DOMAIN queue' = {} /\ queue' \in Seq(PCB)
    BY <2>2
  <2>5. TypeOK'
    BY <1>5, <2>2, <2>3, <2>4 DEF Typed, TypeOK
  <2> QED
    BY <2>3, <2>4, <2>5 DEF Typed, SpInOwnStack, ExecLoads
<1> QED
  BY <1>2, <1>6, <1>7, <1>8

LEMMA CtxWith ==
  ASSUME NEW c \in Ctx, NEW r \in Int \cup Programs, NEW a \in Nat
  PROVE  /\ [c EXCEPT !.r0 = r, !.sp = a] \in Ctx
         /\ [c EXCEPT !.r0 = r, !.sp = a].sp = a
         /\ [c EXCEPT !.r0 = r, !.sp = a].r0 = r
BY DEF Ctx

\* A program's own instructions, and the ones that enter the kernel.
LEMMA ComputeTyped ==
  ASSUME Typed, Compute
  PROVE  Typed'
<1> PICK id \in StackIds, d \in 0 .. StackSize - 1, v \in Data :
      /\ InStack(ctx.sp, id)
      /\ ctx' = [ctx EXCEPT !.sp = getStackAddress(id) + d]
      /\ stack' = [stack EXCEPT ![id] = v]
  BY DEF Compute
<1>1. UNCHANGED <<curr_pid, curr_prog, queue, fullStacks, mode>> /\ mode = "usr"
  BY DEF Compute
<1>2. getStackAddress(id) \in Nat /\ getStackAddress(curr_prog.stack_id) \in Nat
  BY StackAddressType DEF StackIds, Typed, TypeOK, PCB
<1>3. ctx' \in Ctx /\ ctx'.sp = getStackAddress(id) + d
  <2>1. getStackAddress(id) + d \in Nat
    BY <1>2, ConstantsAssumption
  <2>2. ctx \in Ctx /\ [ctx EXCEPT !.sp = getStackAddress(id) + d]
                        = [ctx EXCEPT !.r0 = ctx.r0, !.sp = getStackAddress(id) + d]
    BY DEF Typed, TypeOK, Ctx
  <2> QED
    BY <2>1, <2>2, CtxWith DEF Ctx
<1>4. id = curr_prog.stack_id
  <2>1. InStack(ctx.sp, curr_prog.stack_id) /\ curr_prog.stack_id \in Nat /\ id \in Nat
    BY <1>1 DEF Typed, SpInOwnStack, TypeOK, PCB, StackIds
  <2> QED
    BY <2>1, OneStack DEF Typed, TypeOK, Ctx
<1>5. InStack(ctx'.sp, curr_prog'.stack_id)
  BY <1>1, <1>2, <1>3, <1>4, ConstantsAssumption DEF InStack
<1>6. TypeOK'
  BY <1>1, <1>3 DEF Typed, TypeOK
<1> QED
  BY <1>1, <1>5, <1>6 DEF Typed, SpInOwnStack, ExecLoads

LEMMA SvcTyped ==
  ASSUME Typed, NEW id \in Calls, NEW arg \in Int \cup Programs, Svc(id, arg),
         id = "exec" => arg \in Programs
  PROVE  Typed'
<1>1. UNCHANGED <<curr_pid, curr_prog, queue, fullStacks, stack>>
      /\ mode = "usr" /\ mode' = id
  BY DEF Svc
<1>2. ctx' \in Ctx /\ ctx'.r0 = arg /\ ctx'.sp = ctx.sp
  BY DEF Svc, Typed, TypeOK, Ctx
<1>3. TypeOK'
  BY <1>1, <1>2 DEF Typed, TypeOK, Calls
<1> QED
  BY <1>1, <1>2, <1>3 DEF Typed, SpInOwnStack, ExecLoads, Calls

LEMMA CallsTyped ==
  ASSUME Typed, fork \/ exec \/ exit \/ kill \/ getpid \/ yield \/ nice
  PROVE  Typed'
<1>1. ctx.r0 \in Int \cup Programs /\ curr_pid \in Nat /\ ctx.prog \in Programs
  BY DEF Typed, TypeOK, Ctx, Pids
<1>2. CASE fork
  BY <1>1, <1>2, SvcTyped DEF fork, Calls
<1>3. CASE exec
  <2> PICK image \in Loads[ctx.prog] : Svc("exec", image)
    BY <1>3 DEF exec
  <2>1. image \in Programs
    BY <1>1, ConstantsAssumption
  <2> QED
    BY <2>1, SvcTyped DEF Calls
<1>4. CASE exit
  BY <1>4, SvcTyped DEF exit, Calls
<1>5. CASE kill
  BY <1>1, <1>5, SvcTyped DEF kill, Calls
<1>6. CASE getpid
  BY <1>1, <1>6, SvcTyped DEF getpid, Calls
<1>7. CASE yield
  BY <1>1, <1>7, SvcTyped DEF yield, Calls
<1>8. CASE nice
  BY <1>1, <1>8, SvcTyped DEF nice, Calls
<1> QED
  BY <1>2, <1>3, <1>4, <1>5, <1>6, <1>7, <1>8

\* The system calls of the kernel that are not a call of the scheduler.
LEMMA ChildType ==
  ASSUME Typed, mode = "fork", NEW s \in StackIds
  PROVE  /\ Child(s) \in PCB /\ Child(s).status = "READY"
         /\ Child(s).pid = curr_pid /\ Child(s).stack_id = s
         /\ InStack(Child(s).ctx.sp, s)
         /\ Child(s).ctx.prog = ctx.prog /\ Child(s).ctx.at = ctx.at /\ Child(s).ctx.r0 = 0
<1> DEFINE c == [ctx EXCEPT !.r0 = 0, !.sp = @ + StackSize * (s - curr_prog.stack_id)]
<1>1. ctx \in Ctx /\ InStack(ctx.sp, curr_prog.stack_id) /\ curr_prog.stack_id \in Nat
      /\ s \in Nat /\ curr_pid \in Pids
  BY DEF Typed, SpInOwnStack, TypeOK, PCB, StackIds
<1>2. c.sp = ctx.sp + StackSize * (s - curr_prog.stack_id) /\ c.r0 = 0
      /\ c.prog = ctx.prog /\ c.at = ctx.at
  BY <1>1 DEF Ctx
<1>3. InStack(c.sp, s)
  BY <1>1, <1>2, Relocated DEF Ctx
<1>4. StackSize * (s - curr_prog.stack_id) \in Int
  BY <1>1, ConstantsAssumption
<1>5. c.sp \in Nat
  BY <1>1, <1>2, <1>3, <1>4, InStackNat DEF Ctx
<1>6. c \in Ctx
  <2> HIDE DEF c
  <2>1. 0 \in Int \cup Programs
    OBVIOUS
  <2> QED
    BY <1>1, <1>2, <1>5, <2>1, CtxWith DEF c
<1>7. create_process(curr_pid, Console, s) \in PCB
  BY <1>1, ConstantsAssumption, NewProcessType
<1>8. Child(s) = [create_process(curr_pid, Console, s) EXCEPT !.ctx = c]
  BY DEF Child
<1>9. Child(s) \in PCB /\ Child(s).ctx = c
  BY <1>6, <1>7, <1>8 DEF PCB
<1>10. Child(s).status = "READY" /\ Child(s).pid = curr_pid /\ Child(s).stack_id = s
  BY <1>7, <1>8 DEF PCB, create_process
<1> QED
  BY <1>2, <1>3, <1>9, <1>10

LEMMA SvcForkTyped ==
  ASSUME Typed, svc_fork
  PROVE  Typed'
<1> PICK s \in StackIds :
      /\ fullStacks' = [fullStacks EXCEPT ![s] = TRUE]
      /\ stack' = [stack EXCEPT ![s] = stack[curr_prog.stack_id]]
      /\ queue' = Append(queue, Child(s))
  BY DEF svc_fork
<1>1. /\ mode = "fork" /\ mode' = "usr" /\ UNCHANGED curr_prog
      /\ ctx' = [ctx EXCEPT !.r0 = curr_pid] /\ curr_pid' = curr_pid + 1
  BY DEF svc_fork
<1>2. Child(s) \in PCB /\ Child(s).status = "READY" /\ InStack(Child(s).ctx.sp, s)
      /\ Child(s).stack_id = s
  BY <1>1, ChildType
<1>3. curr_pid \in Int \cup Programs /\ curr_pid' \in Pids
  BY <1>1 DEF Typed, TypeOK, Pids
<1>4. ctx' \in Ctx /\ ctx'.sp = ctx.sp
  BY <1>1, <1>3 DEF Typed, TypeOK, Ctx
<1>5. queue \in Seq(PCB) /\ Len(queue) \in Nat /\ DOMAIN queue = 1 .. Len(queue)
  BY LenProperties DEF Typed, TypeOK
<1>6. /\ queue' \in Seq(PCB) /\ DOMAIN queue' = 1 .. Len(queue) + 1
      /\ \A i \in 1 .. Len(queue) : queue'[i] = queue[i]
      /\ queue'[Len(queue) + 1] = Child(s)
  BY <1>2, <1>5, AppendProperties, LenProperties
<1>7. \A i \in DOMAIN queue' :
        queue'[i].status # "EXECUTING" /\ InStack(queue'[i].ctx.sp, queue'[i].stack_id)
  BY <1>2, <1>5, <1>6 DEF Typed, TypeOK, SpInOwnStack
<1>8. stack' \in [StackIds -> Data] /\ fullStacks' \in [StackIds -> BOOLEAN]
  BY DEF Typed, TypeOK, PCB
<1>9. TypeOK'
  BY <1>1, <1>3, <1>4, <1>6, <1>7, <1>8 DEF Typed, TypeOK
<1> QED
  BY <1>1, <1>4, <1>7, <1>9 DEF Typed, SpInOwnStack, ExecLoads

LEMMA SvcExecTyped ==
  ASSUME Typed, svc_exec
  PROVE  Typed'
<1>1. /\ mode = "exec" /\ mode' = "usr" /\ UNCHANGED <<curr_pid, queue, fullStacks>>
      /\ ctx' = [ctx EXCEPT !.prog = ctx.r0, !.sp = getStackAddress(curr_prog.stack_id)]
      /\ stack' = [stack EXCEPT ![curr_prog.stack_id] = 0]
      /\ curr_prog' = [curr_prog EXCEPT !.ctx = ctx']
  BY DEF svc_exec
<1>2. ctx.r0 \in Programs /\ curr_prog.stack_id \in Nat
  BY <1>1 DEF Typed, ExecLoads, TypeOK, PCB, StackIds
<1>3. getStackAddress(curr_prog.stack_id) \in Nat
  BY <1>2, StackAddressType
<1>4. ctx' \in Ctx /\ ctx'.sp = getStackAddress(curr_prog.stack_id)
  BY <1>1, <1>2, <1>3 DEF Typed, TypeOK, Ctx
<1>5. curr_prog' \in PCB /\ curr_prog'.stack_id = curr_prog.stack_id
      /\ curr_prog'.status = curr_prog.status
  BY <1>1, <1>4 DEF Typed, TypeOK, PCB
<1>6. stack' \in [StackIds -> Data]
  BY <1>1, ConstantsAssumption DEF Typed, TypeOK
<1>7. TypeOK'
  BY <1>1, <1>4, <1>5, <1>6 DEF Typed, TypeOK
<1>8. InStack(ctx'.sp, curr_prog'.stack_id)
  BY <1>2, <1>4, <1>5, TopInStack
<1> QED
  BY <1>1, <1>7, <1>8 DEF Typed, SpInOwnStack, ExecLoads

\* kill changes the status of at most one PCB of the queue, and r0.
LEMMA SvcKillStep ==
  ASSUME TypeOK, svc_kill
  PROVE  /\ queue' \in Seq(PCB) /\ DOMAIN queue' = DOMAIN queue
         /\ \A i \in DOMAIN queue :
              queue'[i] = queue[i] \/ queue'[i] = [queue[i] EXCEPT !.status = "TERMINATED"]
         /\ ctx' \in Ctx /\ ctx'.sp = ctx.sp /\ mode' = "usr" /\ mode = "kill"
         /\ UNCHANGED <<curr_pid, curr_prog, fullStacks, stack>>
<1>1. mode' = "usr" /\ mode = "kill" /\ UNCHANGED <<curr_pid, curr_prog, fullStacks, stack>>
  BY DEF svc_kill
<1>2. queue \in Seq(PCB) /\ DOMAIN queue = 1 .. Len(queue)
  BY LenProperties DEF TypeOK
<1>3. ctx' \in Ctx /\ ctx'.sp = ctx.sp
  <2>1. ctx \in Ctx
    BY DEF TypeOK
  <2>2. ctx' = [ctx EXCEPT !.r0 = 1] \/ ctx' = [ctx EXCEPT !.r0 = 0]
    BY DEF svc_kill
  <2> QED
    BY <2>1, <2>2 DEF Ctx
<1>4. CASE \E i \in DOMAIN queue :
             /\ queue' = [queue EXCEPT ![i].status = "TERMINATED"]
             /\ ctx' = [ctx EXCEPT !.r0 = 1]
  <2> PICK i \in DOMAIN queue :
        /\ queue' = [queue EXCEPT ![i].status = "TERMINATED"]
        /\ ctx' = [ctx EXCEPT !.r0 = 1]
    BY <1>4
  <2> DEFINE dead == [queue[i] EXCEPT !.status = "TERMINATED"]
  <2>1. queue[i] \in PCB
    BY <1>2, ElementOfSeq
  <2>2. dead \in PCB
    BY <2>1 DEF PCB, Status
  <2>3. queue' = [queue EXCEPT ![i] = dead]
    OBVIOUS
  <2> HIDE DEF dead
  <2>4. /\ queue' \in Seq(PCB) /\ Len(queue') = Len(queue)
        /\ \A j \in 1 .. Len(queue) : queue'[j] = IF j = i THEN dead ELSE queue[j]
    BY <1>2, <2>2, <2>3, ExceptSeq
  <2>5. DOMAIN queue' = DOMAIN queue
    BY <1>2, <2>4, LenProperties
  <2> QED
    BY <1>1, <1>2, <1>3, <2>4, <2>5 DEF dead
<1>5. CASE UNCHANGED queue /\ ctx' = [ctx EXCEPT !.r0 = 0]
  BY <1>1, <1>2, <1>5, <1>3
<1> QED
  BY <1>4, <1>5 DEF svc_kill

LEMMA SvcKillTyped ==
  ASSUME Typed, svc_kill
  PROVE  Typed'
<1>1. TypeOK
  BY DEF Typed
<1>2. \A i \in DOMAIN queue :
        /\ queue'[i].status # "EXECUTING"
        /\ queue'[i].ctx = queue[i].ctx /\ queue'[i].stack_id = queue[i].stack_id
  <2> SUFFICES ASSUME NEW i \in DOMAIN queue
               PROVE  /\ queue'[i].status # "EXECUTING"
                      /\ queue'[i].ctx = queue[i].ctx
                      /\ queue'[i].stack_id = queue[i].stack_id
    OBVIOUS
  <2>1. queue[i] \in PCB /\ queue[i].status # "EXECUTING"
    BY <1>1, LenProperties, ElementOfSeq DEF TypeOK
  <2>2. queue'[i] = queue[i] \/ queue'[i] = [queue[i] EXCEPT !.status = "TERMINATED"]
    BY <1>1, SvcKillStep
  <2> QED
    BY <2>1, <2>2 DEF PCB
<1>3. TypeOK'
  BY <1>1, <1>2, SvcKillStep DEF TypeOK
<1>4. SpInOwnStack'
  BY <1>1, <1>2, SvcKillStep DEF Typed, SpInOwnStack
<1> QED
  BY <1>1, <1>3, <1>4, SvcKillStep DEF Typed, ExecLoads

\* The calls that change at most r0.
LEMMA SvcOthersTyped ==
  ASSUME Typed, svc_fork_fails \/ svc_getpid \/ svc_default
  PROVE  Typed'
<1>1. UNCHANGED <<curr_pid, curr_prog, queue, fullStacks, stack>> /\ mode' = "usr"
      /\ mode # "hung"
  BY DEF svc_fork_fails, svc_getpid, svc_default
<1>2. ctx' \in Ctx /\ ctx'.sp = ctx.sp
  BY DEF svc_fork_fails, svc_getpid, svc_default, Typed, TypeOK, Ctx, PCB, Pids
<1>3. TypeOK'
  BY <1>1, <1>2 DEF Typed, TypeOK
<1> QED
  BY <1>1, <1>2, <1>3 DEF Typed, SpInOwnStack, ExecLoads

\* The two calls of the scheduler.
LEMMA SchedulerCalls ==
  ASSUME Typed, hilevel_handler_irq \/ svc_exit
  PROVE  /\ mode # "hung" /\ UNCHANGED <<curr_pid, stack>>
         /\ \E status \in {"EXECUTING", "TERMINATED"} :
              scheduler([Saved EXCEPT !.status = status])
<1>1. CASE hilevel_handler_irq
  <2>1. mode = "usr" /\ UNCHANGED <<curr_pid, stack>> /\ scheduler(Saved)
    BY <1>1 DEF hilevel_handler_irq
  <2>2. Saved = [Saved EXCEPT !.status = "EXECUTING"]
    BY <2>1 DEF Typed, TypeOK, Saved, PCB
  <2> QED
    BY <2>1, <2>2
<1>2. CASE svc_exit
  BY <1>2 DEF svc_exit
<1> QED
  BY <1>1, <1>2

LEMMA StepTyped ==
  ASSUME Typed, [Next]_vars
  PROVE  Typed'
<1>1. CASE Compute
  BY <1>1, ComputeTyped
<1>2. CASE fork \/ exec \/ exit \/ kill \/ getpid \/ yield \/ nice
  BY <1>2, CallsTyped
<1>3. CASE hilevel_handler_irq \/ svc_exit
  BY <1>3, SchedulerCalls, SchedulerTyped
<1>4. CASE svc_fork
  BY <1>4, SvcForkTyped
<1>5. CASE svc_exec
  BY <1>5, SvcExecTyped
<1>6. CASE svc_kill
  BY <1>6, SvcKillTyped
<1>7. CASE svc_fork_fails \/ svc_getpid \/ svc_default
  BY <1>7, SvcOthersTyped
<1>8. CASE UNCHANGED vars
  BY <1>8 DEF vars, Typed, TypeOK, SpInOwnStack, ExecLoads
<1> QED
  BY <1>1, <1>2, <1>3, <1>4, <1>5, <1>6, <1>7, <1>8
  DEF Next, User, hilevel_handler_svc

\* Type correctness: the kernel's variables keep their types, the queue holds no
\* EXECUTING process, and the stack pointers of all processes stay in place.
THEOREM Typing == Spec => []Typed
<1>1. Init => Typed
  BY InitTyped
<1>2. Typed /\ [Next]_vars => Typed'
  BY StepTyped
<1> QED
  BY <1>1, <1>2, PTL DEF Spec

THEOREM TypeCorrect == Spec => []TypeOK
<1>1. Typed => TypeOK
  BY DEF Typed
<1> QED
  BY <1>1, Typing, PTL

\* Whatever programs do within their stacks, fork, exec and switching never put
\* a process on the stack of another.
THEOREM StackPointersInPlace == Spec => []SpInOwnStack
<1>1. Typed => SpInOwnStack
  BY DEF Typed
<1> QED
  BY <1>1, Typing, PTL

-----------------------------------------------------------------------------
(* Identity: who owns which pid and which stack.                           *)

\* What a call of the scheduler does to identities.  It chooses from q, the queue
\* with the current process behind it; either the k-th of q runs and those in front
\* of it are forgotten, their stacks given back, or nobody is left to run.
Candidates(q) ==
  /\ Len(q) >= Len(queue)
  /\ \A k \in 1 .. Len(q) :
       \/ k \in 1 .. Len(queue) /\ q[k] = queue[k]
       \/ /\ k = Len(queue) + 1
          /\ q[k].pid = curr_prog.pid /\ q[k].stack_id = curr_prog.stack_id
          /\ q[k].ctx = ctx /\ q[k].status = "READY"

Runs(q, k) ==
  /\ q[k].status = "READY" /\ \A j \in 1 .. k - 1 : q[j].status # "READY"
  /\ curr_prog'.pid = q[k].pid /\ curr_prog'.stack_id = q[k].stack_id
  /\ ctx' = q[k].ctx /\ mode' = "usr"
  /\ Len(queue') = Len(q) - k
  /\ \A i \in 1 .. Len(queue') : queue'[i] = q[k + i]
  /\ fullStacks' = [i \in StackIds |->
       fullStacks[i] /\ \A j \in 1 .. k - 1 : q[j].stack_id # i]

Stops(q) ==
  /\ \A j \in 1 .. Len(q) : q[j].status # "READY"
  /\ mode' = "hung" /\ queue' = <<>>
  /\ \/ curr_prog'.pid = curr_prog.pid
     \/ \E j \in 1 .. Len(q) : curr_prog'.pid = q[j].pid

LEMMA SchedulerStep ==
  ASSUME Typed, mode # "hung",
         NEW status \in {"EXECUTING", "TERMINATED"},
         scheduler([Saved EXCEPT !.status = status])
  PROVE  \E q \in Seq(PCB) :
           /\ status = "EXECUTING" => Len(q) > Len(queue)
           /\ Candidates(q) /\ ((\E k \in 1 .. Len(q) : Runs(q, k)) \/ Stops(q))
<1> DEFINE pcb == [Saved EXCEPT !.status = status]
           q   == Requeued(pcb)
<1>1. /\ pcb \in PCB /\ pcb.pid = curr_prog.pid /\ pcb.ctx = ctx
      /\ pcb.stack_id = curr_prog.stack_id /\ pcb.status = status
  BY DEF Typed, TypeOK, Saved, PCB, Status
<1>2. TypeOK
  BY DEF Typed
<1>3. \/ \E k \in DOMAIN q : FirstReady(q, k) /\ Dispatch(q, k)
      \/ (\A k \in DOMAIN q : q[k].status # "READY") /\ Spin(pcb, q)
  BY DEF scheduler
<1> HIDE DEF pcb
<1>4. /\ q \in Seq(PCB) /\ Len(q) >= Len(queue)
      /\ \A k \in 1 .. Len(q) :
           \/ k \in 1 .. Len(queue) /\ q[k] = queue[k]
           \/ k = Len(queue) + 1 /\ q[k] = [pcb EXCEPT !.status = "READY"]
      /\ \A k \in 1 .. Len(q) : q[k].status \in {"READY", "TERMINATED"}
  BY <1>1, <1>2, RequeuedProperties
<1>5. status = "EXECUTING" => Len(q) > Len(queue)
  <2> DEFINE ready == [pcb EXCEPT !.status = "READY"]
  <2>1. queue \in Seq(PCB) /\ Len(queue) \in Nat /\ ready \in PCB
    BY <1>1, <1>2, LenProperties DEF TypeOK, PCB, Status
  <2>2. Len(Append(queue, ready)) = Len(queue) + 1
    BY <2>1, AppendProperties
  <2> QED
    BY <1>1, <2>1, <2>2 DEF Requeued
<1> HIDE DEF q
<1>6. Candidates(q)
  BY <1>1, <1>4 DEF PCB, Candidates
<1>7. DOMAIN q = 1 .. Len(q) /\ \A k \in 1 .. Len(q) : q[k] \in PCB
  BY <1>4, LenProperties, ElementOfSeq
<1>8. ASSUME NEW k \in 1 .. Len(q), FirstReady(q, k), Dispatch(q, k)
      PROVE  Runs(q, k)
  <2>1. curr_prog' = [q[k] EXCEPT !.status = "EXECUTING"]
    BY <1>8 DEF Dispatch
  <2>2. curr_prog'.pid = q[k].pid /\ curr_prog'.stack_id = q[k].stack_id
    BY <1>7, <2>1 DEF PCB
  <2>3. /\ Len(queue') = Len(q) - k
        /\ \A i \in 1 .. Len(queue') : queue'[i] = q[k + i]
        /\ fullStacks' = [i \in StackIds |->
             fullStacks[i] /\ \A j \in 1 .. k - 1 : q[j].stack_id # i]
    BY <1>4, <1>8, DispatchStep
  <2>4. q[k].status = "READY" /\ \A j \in 1 .. k - 1 : q[j].status # "READY"
    BY <1>8 DEF FirstReady
  <2>5. ctx' = q[k].ctx /\ mode' = "usr"
    BY <1>8 DEF Dispatch
  <2> QED
    BY <2>2, <2>3, <2>4, <2>5, Zenon DEF Runs
<1>9. ASSUME \A k \in DOMAIN q : q[k].status # "READY", Spin(pcb, q)
      PROVE  Stops(q)
  <2>1. \A j \in 1 .. Len(q) : q[j].status = "TERMINATED"
    BY <1>4, <1>7, <1>9
  <2>2. queue' = <<>> /\ (curr_prog' = pcb \/ \E j \in 1 .. Len(q) : curr_prog' = q[j])
    BY <1>1, <1>4, <1>9, <2>1, SpinStep
  <2> QED
    BY <1>1, <1>7, <1>9, <2>2 DEF Spin, Stops
<1>10. (\E k \in 1 .. Len(q) : Runs(q, k)) \/ Stops(q)
  BY <1>3, <1>7, <1>8, <1>9
<1> QED
  BY <1>4, <1>6, <1>10, <1>5

LEMMA SchedulerKeepsPids ==
  ASSUME Typed, PidsUnique, hilevel_handler_irq \/ svc_exit
  PROVE  PidsUnique'
<1>1. mode # "hung" /\ UNCHANGED <<curr_pid, stack>>
  BY SchedulerCalls
<1> PICK status \in {"EXECUTING", "TERMINATED"} :
      scheduler([Saved EXCEPT !.status = status])
  BY SchedulerCalls
<1> PICK q \in Seq(PCB) :
      Candidates(q) /\ ((\E k \in 1 .. Len(q) : Runs(q, k)) \/ Stops(q))
  BY <1>1, SchedulerStep
<1>2. Len(q) \in Nat /\ Len(queue) \in Nat /\ DOMAIN queue = 1 .. Len(queue)
  BY LenProperties DEF Typed, TypeOK
<1>3. /\ \A i, j \in 1 .. Len(q) : q[i].pid = q[j].pid => i = j
      /\ \A i \in 1 .. Len(q) : q[i].pid < curr_pid
  BY <1>2 DEF PidsUnique, Candidates
<1>4. DOMAIN queue' = 1 .. Len(queue') /\ curr_pid' = curr_pid
  <2>1. Typed'
    BY <1>1, SchedulerTyped
  <2> QED
    BY <1>1, <2>1, LenProperties DEF Typed, TypeOK
<1>5. ASSUME NEW k \in 1 .. Len(q), Runs(q, k)
      PROVE  PidsUnique'
  <2>1. \A i \in DOMAIN queue' :
          k + i \in 1 .. Len(q) /\ k + i # k /\ queue'[i].pid = q[k + i].pid
    BY <1>2, <1>4, <1>5 DEF Runs
  <2>2. \A i, j \in DOMAIN queue' : queue'[i].pid = queue'[j].pid => i = j
    <3> SUFFICES ASSUME NEW i \in DOMAIN queue', NEW j \in DOMAIN queue',
                        queue'[i].pid = queue'[j].pid
                 PROVE  i = j
      OBVIOUS
    <3>1. k + i = k + j
      BY <1>3, <2>1
    <3> QED
      BY <1>2, <1>4, <3>1
  <2>3. \A i \in DOMAIN queue' : queue'[i].pid # curr_prog'.pid /\ queue'[i].pid < curr_pid
    BY <1>3, <1>5, <2>1 DEF Runs
  <2> QED
    BY <1>3, <1>4, <1>5, <2>2, <2>3 DEF PidsUnique, Runs
<1>6. CASE Stops(q)
  BY <1>3, <1>4, <1>6 DEF PidsUnique, Stops
<1> QED
  BY <1>5, <1>6

LEMMA StepKeepsPids ==
  ASSUME Typed, PidsUnique, [Next]_vars
  PROVE  PidsUnique'
<1>1. CASE hilevel_handler_irq \/ svc_exit
  BY <1>1, SchedulerKeepsPids
<1>2. CASE svc_fork
  <2> PICK s \in StackIds : queue' = Append(queue, Child(s))
    BY <1>2 DEF svc_fork
  <2>1. mode = "fork" /\ curr_prog' = curr_prog /\ curr_pid' = curr_pid + 1 /\ curr_pid \in Nat
    BY <1>2 DEF svc_fork, Typed, TypeOK, Pids
  <2>2. Child(s) \in PCB /\ Child(s).pid = curr_pid
    BY <2>1, ChildType
  <2>3. /\ queue \in Seq(PCB) /\ Len(queue) \in Nat /\ DOMAIN queue = 1 .. Len(queue)
        /\ \A i \in 1 .. Len(queue) : queue[i].pid \in Nat
        /\ curr_prog.pid \in Nat
    <3>1. queue \in Seq(PCB) /\ curr_prog \in PCB
      BY DEF Typed, TypeOK
    <3>2. \A i \in 1 .. Len(queue) : queue[i] \in PCB
      BY <3>1, ElementOfSeq
    <3> QED
      BY <3>1, <3>2, LenProperties DEF PCB, Pids
  <2>4. /\ DOMAIN queue' = 1 .. Len(queue) + 1
        /\ \A i \in 1 .. Len(queue) : queue'[i] = queue[i]
        /\ queue'[Len(queue) + 1] = Child(s)
    BY <2>2, <2>3, AppendProperties, LenProperties
  <2>5. \A i \in 1 .. Len(queue) + 1 :
          \/ i \in 1 .. Len(queue) /\ queue'[i].pid = queue[i].pid
          \/ i = Len(queue) + 1 /\ queue'[i].pid = curr_pid
    BY <2>2, <2>3, <2>4
  <2> QED
    BY <2>1, <2>3, <2>4, <2>5 DEF PidsUnique
<1>3. CASE svc_kill
  <2>1. \A i \in DOMAIN queue : queue[i] \in PCB
    BY LenProperties, ElementOfSeq DEF Typed, TypeOK
  <2>2. DOMAIN queue' = DOMAIN queue /\ \A i \in DOMAIN queue : queue'[i].pid = queue[i].pid
    BY <1>3, <2>1, SvcKillStep DEF Typed, PCB
  <2>3. UNCHANGED <<curr_pid, curr_prog>>
    BY <1>3 DEF svc_kill
  <2> QED
    BY <2>2, <2>3 DEF PidsUnique
<1>4. CASE svc_exec
  <2>1. UNCHANGED <<curr_pid, queue>> /\ curr_prog'.pid = curr_prog.pid
    BY <1>4 DEF svc_exec, Typed, TypeOK, PCB
  <2> QED
    BY <2>1 DEF PidsUnique
<1>5. CASE User \/ svc_fork_fails \/ svc_getpid \/ svc_default \/ UNCHANGED vars
  <2>1. UNCHANGED <<curr_pid, curr_prog, queue>>
    BY <1>5 DEF User, Compute, fork, exec, exit, kill, getpid, yield, nice, Svc,
                svc_fork_fails, svc_getpid, svc_default, vars
  <2> QED
    BY <2>1 DEF PidsUnique
<1> QED
  BY <1>1, <1>2, <1>3, <1>4, <1>5 DEF Next, hilevel_handler_svc

\* Whatever programs do, a pid never names two processes.
THEOREM PidsAreUnique == Spec => []PidsUnique
<1>1. Init => Typed /\ PidsUnique
  BY InitTyped DEF Init, PidsUnique, create_process
<1>2. Typed /\ PidsUnique /\ [Next]_vars => Typed' /\ PidsUnique'
  BY StepTyped, StepKeepsPids
<1> QED
  BY <1>1, <1>2, PTL DEF Spec

LEMMA SchedulerKeepsStacks ==
  ASSUME Typed, StacksExclusive, hilevel_handler_irq \/ svc_exit
  PROVE  StacksExclusive'
<1>1. mode # "hung" /\ UNCHANGED <<curr_pid, stack>>
  BY SchedulerCalls
<1> PICK status \in {"EXECUTING", "TERMINATED"} :
      scheduler([Saved EXCEPT !.status = status])
  BY SchedulerCalls
<1> PICK q \in Seq(PCB) :
      Candidates(q) /\ ((\E k \in 1 .. Len(q) : Runs(q, k)) \/ Stops(q))
  BY <1>1, SchedulerStep
<1>2. /\ Len(q) \in Nat /\ Len(queue) \in Nat /\ DOMAIN queue = 1 .. Len(queue)
      /\ \A i \in 1 .. Len(q) : q[i].stack_id \in StackIds
  <2>1. \A i \in 1 .. Len(q) : q[i] \in PCB
    BY ElementOfSeq
  <2> QED
    BY <2>1, LenProperties DEF Typed, TypeOK, PCB
<1>3. /\ \A i, j \in 1 .. Len(q) : q[i].stack_id = q[j].stack_id => i = j
      /\ \A i \in 1 .. Len(q) : fullStacks[q[i].stack_id]
  BY <1>1, <1>2 DEF StacksExclusive, Candidates
<1>4. DOMAIN queue' = 1 .. Len(queue')
  <2>1. Typed'
    BY <1>1, SchedulerTyped
  <2> QED
    BY <2>1, LenProperties DEF Typed, TypeOK
<1>5. ASSUME NEW k \in 1 .. Len(q), Runs(q, k)
      PROVE  StacksExclusive'
  <2>1. \A i \in DOMAIN queue' :
          k + i \in 1 .. Len(q) /\ k + i > k /\ queue'[i].stack_id = q[k + i].stack_id
    BY <1>2, <1>4, <1>5 DEF Runs
  <2>2. curr_prog'.stack_id = q[k].stack_id
    BY <1>5 DEF Runs
  <2>3. \A j \in k .. Len(q) : fullStacks'[q[j].stack_id]
    <3> SUFFICES ASSUME NEW j \in k .. Len(q)
                 PROVE  fullStacks'[q[j].stack_id]
      OBVIOUS
    <3>1. j \in 1 .. Len(q) /\ \A i \in 1 .. k - 1 : i \in 1 .. Len(q) /\ i # j
      BY <1>2
    <3>2. fullStacks[q[j].stack_id] /\ \A i \in 1 .. k - 1 : q[i].stack_id # q[j].stack_id
      BY <1>3, <3>1
    <3>3. fullStacks' = [i \in StackIds |->
            fullStacks[i] /\ \A m \in 1 .. k - 1 : q[m].stack_id # i]
      BY <1>5 DEF Runs
    <3> QED
      BY <1>2, <3>1, <3>2, <3>3
  <2>4. \A i, j \in DOMAIN queue' : queue'[i].stack_id = queue'[j].stack_id => i = j
    <3> SUFFICES ASSUME NEW i \in DOMAIN queue', NEW j \in DOMAIN queue',
                        queue'[i].stack_id = queue'[j].stack_id
                 PROVE  i = j
      OBVIOUS
    <3>1. k + i = k + j
      BY <1>3, <2>1
    <3> QED
      BY <1>2, <1>4, <3>1
  <2>5. \A i \in DOMAIN queue' :
          queue'[i].stack_id # curr_prog'.stack_id /\ fullStacks'[queue'[i].stack_id]
    <3> SUFFICES ASSUME NEW i \in DOMAIN queue'
                 PROVE  /\ queue'[i].stack_id # curr_prog'.stack_id
                        /\ fullStacks'[queue'[i].stack_id]
      OBVIOUS
    <3>1. k + i \in k .. Len(q) /\ k + i # k
      BY <1>2, <1>4, <2>1
    <3> QED
      BY <1>3, <2>1, <2>2, <2>3, <3>1
  <2>6. fullStacks'[curr_prog'.stack_id]
    BY <1>2, <2>2, <2>3
  <2> QED
    BY <2>4, <2>5, <2>6 DEF StacksExclusive
<1>6. CASE Stops(q)
  BY <1>6 DEF StacksExclusive, Stops
<1> QED
  BY <1>5, <1>6

LEMMA ForkKeepsStacks ==
  ASSUME Typed, StacksExclusive, svc_fork
  PROVE  StacksExclusive'
<1> PICK s \in StackIds :
      /\ IsFreeStack(s)
      /\ fullStacks' = [fullStacks EXCEPT ![s] = TRUE]
      /\ queue' = Append(queue, Child(s))
  BY DEF svc_fork
<1>1. mode = "fork" /\ curr_prog' = curr_prog /\ mode' = "usr"
  BY DEF svc_fork
<1>2. Child(s) \in PCB /\ Child(s).stack_id = s
  BY <1>1, ChildType
<1>3. queue \in Seq(PCB) /\ Len(queue) \in Nat /\ DOMAIN queue = 1 .. Len(queue)
      /\ fullStacks \in [StackIds -> BOOLEAN] /\ curr_prog \in PCB
  BY LenProperties DEF Typed, TypeOK
<1>4. \A i \in 1 .. Len(queue) : queue[i].stack_id \in StackIds
  <2>1. \A i \in 1 .. Len(queue) : queue[i] \in PCB
    BY <1>3, ElementOfSeq
  <2> QED
    BY <2>1 DEF PCB
<1>5. /\ DOMAIN queue' = 1 .. Len(queue) + 1
      /\ \A i \in 1 .. Len(queue) : queue'[i] = queue[i]
      /\ queue'[Len(queue) + 1] = Child(s)
  BY <1>2, <1>3, AppendProperties, LenProperties
<1>6. ~fullStacks[s] /\ fullStacks'[s]
      /\ \A i \in StackIds : fullStacks[i] => fullStacks'[i]
  BY <1>3 DEF IsFreeStack
<1>7. /\ \A i, j \in 1 .. Len(queue) : queue[i].stack_id = queue[j].stack_id => i = j
      /\ \A i \in 1 .. Len(queue) : /\ queue[i].stack_id # curr_prog.stack_id
                                   /\ fullStacks[queue[i].stack_id]
                                   /\ queue[i].stack_id # s
      /\ fullStacks[curr_prog.stack_id] /\ curr_prog.stack_id # s
      /\ curr_prog.stack_id \in StackIds
  BY <1>1, <1>3, <1>6 DEF StacksExclusive, PCB
<1>8. \A i \in 1 .. Len(queue) + 1 :
        \/ i \in 1 .. Len(queue) /\ queue'[i].stack_id = queue[i].stack_id
        \/ i = Len(queue) + 1 /\ queue'[i].stack_id = s
  BY <1>2, <1>3, <1>5
<1>9. \A i, j \in DOMAIN queue' : queue'[i].stack_id = queue'[j].stack_id => i = j
  BY <1>5, <1>7, <1>8
<1>10. \A i \in DOMAIN queue' :
         queue'[i].stack_id # curr_prog.stack_id /\ fullStacks'[queue'[i].stack_id]
  BY <1>4, <1>5, <1>6, <1>7, <1>8
<1> QED
  BY <1>1, <1>6, <1>7, <1>9, <1>10 DEF StacksExclusive

LEMMA StepKeepsStacks ==
  ASSUME Typed, StacksExclusive, [Next]_vars
  PROVE  StacksExclusive'
<1>1. CASE hilevel_handler_irq \/ svc_exit
  BY <1>1, SchedulerKeepsStacks
<1>2. CASE svc_fork
  BY <1>2, ForkKeepsStacks
<1>3. CASE svc_kill
  <2>1. \A i \in DOMAIN queue : queue[i] \in PCB
    BY LenProperties, ElementOfSeq DEF Typed, TypeOK
  <2>2. /\ DOMAIN queue' = DOMAIN queue
        /\ \A i \in DOMAIN queue : queue'[i].stack_id = queue[i].stack_id
    BY <1>3, <2>1, SvcKillStep DEF Typed, PCB
  <2>3. UNCHANGED <<fullStacks, curr_prog>> /\ mode # "hung"
    BY <1>3 DEF svc_kill
  <2> QED
    BY <2>2, <2>3 DEF StacksExclusive
<1>4. CASE svc_exec
  <2>1. /\ UNCHANGED <<queue, fullStacks>> /\ curr_prog'.stack_id = curr_prog.stack_id
        /\ mode # "hung"
    BY <1>4 DEF svc_exec, Typed, TypeOK, PCB
  <2> QED
    BY <2>1 DEF StacksExclusive
<1>5. CASE User \/ svc_fork_fails \/ svc_getpid \/ svc_default
  <2>1. UNCHANGED <<curr_prog, queue, fullStacks>> /\ mode # "hung"
    BY <1>5 DEF User, Compute, fork, exec, exit, kill, getpid, yield, nice, Svc,
                svc_fork_fails, svc_getpid, svc_default
  <2> QED
    BY <2>1 DEF StacksExclusive
<1>6. CASE UNCHANGED vars
  BY <1>6 DEF vars, StacksExclusive
<1> QED
  BY <1>1, <1>2, <1>3, <1>4, <1>5, <1>6 DEF Next, hilevel_handler_svc

\* The memory of a process is nobody else's, from the fork that made it to the
\* moment the scheduler has forgotten it, although kill and exit leave it behind.
THEOREM StacksAreExclusive == Spec => []StacksExclusive
<1>1. Init => Typed /\ StacksExclusive
  <2> SUFFICES ASSUME Init PROVE Typed /\ StacksExclusive
    OBVIOUS
  <2>1. curr_prog.stack_id = 0
    BY DEF Init, create_process
  <2>2. 0 \in StackIds
    BY ConstantsAssumption DEF StackIds
  <2>3. fullStacks[0]
    BY <2>2 DEF Init
  <2>4. DOMAIN queue = {}
    BY DEF Init
  <2> QED
    BY <2>1, <2>3, <2>4, InitTyped DEF StacksExclusive
<1>2. Typed /\ StacksExclusive /\ [Next]_vars => Typed' /\ StacksExclusive'
  BY StepTyped, StepKeepsStacks
<1> QED
  BY <1>1, <1>2, PTL DEF Spec
-----------------------------------------------------------------------------
(* Death: nothing brings back a process that has exited or been killed.    *)

LEMMA SchedulerRevivesNobody ==
  ASSUME Typed, hilevel_handler_irq \/ svc_exit
  PROVE  LivePids' \subseteq LivePids
<1>1. mode # "hung" /\ UNCHANGED <<curr_pid, stack>>
  BY SchedulerCalls
<1> PICK status \in {"EXECUTING", "TERMINATED"} :
      scheduler([Saved EXCEPT !.status = status])
  BY SchedulerCalls
<1> PICK q \in Seq(PCB) :
      Candidates(q) /\ ((\E k \in 1 .. Len(q) : Runs(q, k)) \/ Stops(q))
  BY <1>1, SchedulerStep
<1>2. Len(q) \in Nat /\ DOMAIN queue = 1 .. Len(queue)
  BY LenProperties DEF Typed, TypeOK
<1>3. \A k \in 1 .. Len(q) : q[k].status = "READY" => q[k].pid \in LivePids
  BY <1>1, <1>2 DEF Candidates, LivePids
<1>4. Typed' /\ DOMAIN queue' = 1 .. Len(queue')
  <2>1. Typed'
    BY <1>1, SchedulerTyped
  <2> QED
    BY <2>1, LenProperties DEF Typed, TypeOK
<1>5. ASSUME NEW k \in 1 .. Len(q), Runs(q, k)
      PROVE  LivePids' \subseteq LivePids
  <2>1. curr_prog'.pid \in LivePids
    BY <1>3, <1>5 DEF Runs
  <2>2. \A i \in DOMAIN queue' : queue'[i].status = "READY" => queue'[i].pid \in LivePids
    <3>1. \A i \in DOMAIN queue' : k + i \in 1 .. Len(q) /\ queue'[i] = q[k + i]
      BY <1>2, <1>4, <1>5 DEF Runs
    <3> QED
      BY <1>3, <3>1
  <2> QED
    BY <2>1, <2>2 DEF LivePids
<1>6. CASE Stops(q)
  BY <1>4, <1>6 DEF LivePids, Stops
<1> QED
  BY <1>5, <1>6

LEMMA StepRevivesNobody ==
  ASSUME Typed, [Next]_vars
  PROVE  LivePids' \subseteq LivePids \cup {curr_pid}
<1>1. CASE hilevel_handler_irq \/ svc_exit
  BY <1>1, SchedulerRevivesNobody
<1>2. CASE svc_fork
  <2> PICK s \in StackIds : queue' = Append(queue, Child(s))
    BY <1>2 DEF svc_fork
  <2>1. mode = "fork" /\ mode' = "usr" /\ curr_prog' = curr_prog
    BY <1>2 DEF svc_fork
  <2>2. Child(s) \in PCB /\ Child(s).pid = curr_pid
    BY <2>1, ChildType
  <2>3. /\ DOMAIN queue = 1 .. Len(queue) /\ DOMAIN queue' = 1 .. Len(queue) + 1
        /\ \A i \in 1 .. Len(queue) : queue'[i] = queue[i]
        /\ queue'[Len(queue) + 1] = Child(s) /\ Len(queue) \in Nat
    BY <2>2, AppendProperties, LenProperties DEF Typed, TypeOK
  <2>4. \A i \in DOMAIN queue' :
          \/ i \in DOMAIN queue /\ queue'[i] = queue[i]
          \/ queue'[i].pid = curr_pid
    BY <2>2, <2>3
  <2> QED
    BY <2>1, <2>4 DEF LivePids
<1>3. CASE svc_kill
  <2>1. mode = "kill" /\ mode' = "usr" /\ curr_prog' = curr_prog
    BY <1>3 DEF svc_kill
  <2>2. \A i \in DOMAIN queue : queue[i] \in PCB
    BY LenProperties, ElementOfSeq DEF Typed, TypeOK
  <2>3. /\ DOMAIN queue' = DOMAIN queue
        /\ \A i \in DOMAIN queue :
             \/ queue'[i] = queue[i]
             \/ queue'[i].status = "TERMINATED"
    BY <1>3, <2>2, SvcKillStep DEF Typed, PCB
  <2>4. \A i \in DOMAIN queue' :
          queue'[i].status = "READY" => i \in DOMAIN queue /\ queue'[i] = queue[i]
    BY <2>3
  <2> QED
    BY <2>1, <2>4 DEF LivePids
<1>4. CASE svc_exec
  <2>1. UNCHANGED queue /\ curr_prog'.pid = curr_prog.pid /\ mode # "hung"
    BY <1>4 DEF svc_exec, Typed, TypeOK, PCB
  <2> QED
    BY <2>1 DEF LivePids
<1>5. CASE User \/ svc_fork_fails \/ svc_getpid \/ svc_default
  <2>1. UNCHANGED <<curr_prog, queue>> /\ mode # "hung"
    BY <1>5 DEF User, Compute, fork, exec, exit, kill, getpid, yield, nice, Svc,
                svc_fork_fails, svc_getpid, svc_default
  <2> QED
    BY <2>1 DEF LivePids
<1>6. CASE UNCHANGED vars
  BY <1>6 DEF vars, LivePids
<1> QED
  BY <1>1, <1>2, <1>3, <1>4, <1>5, <1>6 DEF Next, hilevel_handler_svc

\* A process that has exited or been killed executes nothing any more, although
\* kill leaves its PCB in the queue with its registers, for the scheduler to find.
THEOREM TheDeadStayDead == Spec => DeadStayDead
<1>1. Typed /\ [Next]_vars =>
        [\A p \in 1 .. curr_pid - 1 : p \notin LivePids => p \notin LivePids']_vars
  <2> SUFFICES ASSUME Typed, [Next]_vars, NEW p \in 1 .. curr_pid - 1, p \in LivePids'
               PROVE  p \in LivePids
    OBVIOUS
  <2>1. p # curr_pid
    BY DEF Typed, TypeOK, Pids
  <2> QED
    BY <2>1, StepRevivesNobody
<1> QED
  BY <1>1, Typing, PTL DEF Spec, DeadStayDead
-----------------------------------------------------------------------------
(* Turns: nobody overtakes in the queue.                                   *)

\* What every step does to the queue: it loses its first d places, and gains at
\* most one behind all others, for somebody who was not queued.
Shifted(d) ==
  \A i \in DOMAIN queue' :
    \/ d + i \in DOMAIN queue /\ queue'[i].pid = queue[d + i].pid
    \/ d + i = Len(queue) + 1 /\ queue'[i].pid \notin Queued

\* The two halves of what RoundRobin says of the queue.
KeepsOrder ==
  \A p, q \in Queued \cup Queued' :
    p \in Queued /\ q \in Queued' /\ p \in Queued' /\ ~Before(q, p) /\ p # q => Before(p, q)'

LeavesNobody ==
  \A p, q \in Queued \cup Queued' :
    Before(p, q) /\ p \in LivePids /\ q \in LivePids
      => curr_prog'.pid # q \/ curr_prog.pid = q

PassesOn ==
  hilevel_handler_irq /\ LivePids # {curr_prog.pid} => curr_prog'.pid # curr_prog.pid

LEMMA QueueDomain ==
  ASSUME Typed
  PROVE  DOMAIN queue = 1 .. Len(queue) /\ Len(queue) \in Nat
BY LenProperties DEF Typed, TypeOK

LEMMA ShiftedKeepsOrder ==
  ASSUME Typed, Typed', PidsUnique, NEW d \in Nat, Shifted(d)
  PROVE  KeepsOrder
<1> SUFFICES ASSUME NEW p \in Queued \cup Queued', NEW q \in Queued \cup Queued',
                    p \in Queued, q \in Queued', p \in Queued', ~Before(q, p), p # q
             PROVE  Before(p, q)'
  BY DEF KeepsOrder
<1>0. PICK i \in DOMAIN queue' : queue'[i].pid = p
  BY DEF Queued
<1>1. PICK j \in DOMAIN queue' : queue'[j].pid = q
  BY DEF Queued
<1>2. /\ DOMAIN queue = 1 .. Len(queue) /\ Len(queue) \in Nat
      /\ DOMAIN queue' = 1 .. Len(queue') /\ Len(queue') \in Nat
  <2>1. DOMAIN queue' = 1 .. Len(queue') /\ Len(queue') \in Nat
    BY LenProperties DEF Typed, TypeOK
  <2> QED
    BY <2>1, QueueDomain
<1>3. d + i \in DOMAIN queue /\ queue[d + i].pid = p
  BY <1>0 DEF Shifted
<1>4. CASE d + j \in DOMAIN queue /\ queue'[j].pid = queue[d + j].pid
  <2>1. ~(d + j < d + i)
    BY <1>1, <1>3, <1>4 DEF Before
  <2>2. i # j
    BY <1>0, <1>1
  <2>3. i < j
    BY <1>2, <2>1, <2>2
  <2> QED
    BY <1>0, <1>1, <2>3 DEF Before
<1>5. CASE d + j = Len(queue) + 1
  <2>1. i < j
    BY <1>2, <1>3, <1>5
  <2> QED
    BY <1>0, <1>1, <2>1 DEF Before
<1> QED
  BY <1>4, <1>5 DEF Shifted

\* The READY ones of the queue are the live ones.
LEMMA LiveInQueue ==
  ASSUME Typed, PidsUnique, NEW i \in DOMAIN queue
  PROVE  queue[i].pid \in LivePids <=> queue[i].status = "READY"
<1>1. queue[i].pid # curr_prog.pid
  BY DEF PidsUnique
<1>2. \A j \in DOMAIN queue : queue[j].pid = queue[i].pid => j = i
  BY DEF PidsUnique
<1> QED
  BY <1>1, <1>2 DEF LivePids

\* The scheduler chooses the first READY one of the queue and, if it is the timer
\* that calls it, the current process only after all of the queue.
LEMMA SchedulerInTurn ==
  ASSUME Typed, PidsUnique, hilevel_handler_irq \/ svc_exit
  PROVE  KeepsOrder /\ LeavesNobody /\ PassesOn
<1>1. mode # "hung" /\ UNCHANGED <<curr_pid, stack>>
  BY SchedulerCalls
<1>0. PICK status \in {"EXECUTING", "TERMINATED"} :
        scheduler([Saved EXCEPT !.status = status])
  BY SchedulerCalls
<1>2. PICK q \in Seq(PCB) :
        Candidates(q) /\ ((\E k \in 1 .. Len(q) : Runs(q, k)) \/ Stops(q))
  BY <1>0, <1>1, SchedulerStep
<1>3. Len(q) \in Nat /\ DOMAIN queue = 1 .. Len(queue) /\ Len(queue) \in Nat
  BY QueueDomain, LenProperties
<1>4. Typed'
  BY <1>0, <1>1, SchedulerTyped
<1>5. DOMAIN queue' = 1 .. Len(queue') /\ Len(queue') \in Nat
  BY <1>4, LenProperties DEF Typed, TypeOK
<1>6. \A k \in 1 .. Len(q) :
        \/ k \in DOMAIN queue /\ q[k] = queue[k]
        \/ k = Len(queue) + 1 /\ q[k].pid = curr_prog.pid
  BY <1>2, <1>3 DEF Candidates
<1>7. \A i \in DOMAIN queue : i \in 1 .. Len(q) /\ q[i] = queue[i]
  BY <1>2, <1>3, <1>6 DEF Candidates
<1>8. curr_prog.pid \notin Queued
  BY DEF PidsUnique, Queued
<1>9. hilevel_handler_irq /\ LivePids # {curr_prog.pid}
        => \E i \in DOMAIN queue : queue[i].status = "READY"
  BY <1>1 DEF LivePids
<1>10. ASSUME NEW k \in 1 .. Len(q), Runs(q, k)
       PROVE  KeepsOrder /\ LeavesNobody /\ PassesOn
  <2>1. Len(queue') = Len(q) - k /\ \A i \in 1 .. Len(queue') : queue'[i] = q[k + i]
    BY <1>10 DEF Runs
  <2>2. \A i \in DOMAIN queue' : k + i \in 1 .. Len(q) /\ queue'[i] = q[k + i]
    BY <1>3, <1>5, <2>1
  <2>3. Shifted(k)
    BY <1>6, <1>8, <2>2 DEF Shifted
  <2>4. KeepsOrder
    BY <1>3, <1>4, <2>3, ShiftedKeepsOrder
  <2>5. curr_prog'.pid = q[k].pid /\ \A j \in 1 .. k - 1 : q[j].status # "READY"
    BY <1>10 DEF Runs
  <2>6. LeavesNobody
    <3> SUFFICES ASSUME NEW i \in DOMAIN queue, NEW j \in DOMAIN queue, i < j,
                        queue[i].pid \in LivePids, queue[j].pid = q[k].pid
                 PROVE  FALSE
      BY <2>5 DEF LeavesNobody, Before
    <3>1. k \in DOMAIN queue /\ queue[k].pid = queue[j].pid
      BY <1>6, <1>8 DEF Queued
    <3>2. k = j
      BY <3>1 DEF PidsUnique
    <3>3. i \in 1 .. k - 1
      BY <1>3, <3>2
    <3>4. queue[i].status = "READY"
      BY LiveInQueue
    <3> QED
      BY <1>7, <2>5, <3>3, <3>4
  <2>7. PassesOn
    <3> SUFFICES ASSUME NEW i \in DOMAIN queue, queue[i].status = "READY"
                 PROVE  q[k].pid # curr_prog.pid
      BY <1>9, <2>5 DEF PassesOn
    <3>1. ~(i \in 1 .. k - 1)
      BY <1>7, <2>5
    <3>2. k \in DOMAIN queue
      BY <1>3, <3>1
    <3> QED
      BY <1>7, <3>2 DEF PidsUnique
  <2> QED
    BY <2>4, <2>6, <2>7
<1>11. CASE Stops(q)
  <2>1. \A j \in 1 .. Len(q) : q[j].status # "READY"
    BY <1>11 DEF Stops
  <2>2. \A i \in DOMAIN queue : queue[i].status # "READY"
    BY <1>7, <2>1
  <2>3. Queued' = {}
    BY <1>11 DEF Stops, Queued
  <2>4. KeepsOrder
    BY <2>3 DEF KeepsOrder
  <2>5. LeavesNobody
    BY <2>2, LiveInQueue DEF LeavesNobody, Before
  <2>6. PassesOn
    BY <1>9, <2>2 DEF PassesOn
  <2> QED
    BY <2>4, <2>5, <2>6
<1> QED
  BY <1>2, <1>10, <1>11

\* No other step changes the order, or who executes.
LEMMA OthersInTurn ==
  ASSUME Typed, Typed', PidsUnique, [Next]_vars, ~hilevel_handler_irq, ~svc_exit
  PROVE  KeepsOrder /\ LeavesNobody /\ PassesOn
<1>1. \A i \in DOMAIN queue : queue[i] \in PCB
  BY LenProperties, ElementOfSeq DEF Typed, TypeOK
<1>2. DOMAIN queue = 1 .. Len(queue) /\ Len(queue) \in Nat /\ curr_prog.pid \notin Queued
  BY QueueDomain DEF PidsUnique, Queued
<1>3. curr_prog'.pid = curr_prog.pid /\ Shifted(0)
  <2>1. CASE svc_fork
    <3>0. PICK s \in StackIds : queue' = Append(queue, Child(s))
      BY <2>1 DEF svc_fork
    <3>1. mode = "fork" /\ curr_prog' = curr_prog
      BY <2>1 DEF svc_fork
    <3>2. Child(s) \in PCB /\ Child(s).pid = curr_pid
      BY <3>1, ChildType
    <3>3. /\ DOMAIN queue' = 1 .. Len(queue) + 1
          /\ \A i \in 1 .. Len(queue) : queue'[i] = queue[i]
          /\ queue'[Len(queue) + 1] = Child(s)
      BY <3>0, <3>2, AppendProperties, LenProperties DEF Typed, TypeOK
    <3>4. curr_pid \notin Queued
      <4>1. \A i \in DOMAIN queue : queue[i].pid \in Nat /\ queue[i].pid < curr_pid
        BY <1>1 DEF PidsUnique, PCB, Pids
      <4> QED
        BY <4>1 DEF Queued, Typed, TypeOK, Pids
    <3>5. \A i \in DOMAIN queue' :
            \/ i \in DOMAIN queue /\ queue'[i].pid = queue[i].pid
            \/ i = Len(queue) + 1 /\ queue'[i].pid \notin Queued
      BY <1>2, <3>2, <3>3, <3>4
    <3>6. \A i \in DOMAIN queue' : 0 + i = i
      BY <1>2, <3>3
    <3> QED
      BY <3>1, <3>5, <3>6 DEF Shifted
  <2>2. CASE svc_kill
    <3>1. DOMAIN queue' = DOMAIN queue /\ \A i \in DOMAIN queue : queue'[i].pid = queue[i].pid
      BY <1>1, <2>2, SvcKillStep DEF Typed, PCB
    <3>2. UNCHANGED curr_prog
      BY <2>2 DEF svc_kill
    <3>3. \A i \in DOMAIN queue' : 0 + i = i
      BY <1>2, <3>1
    <3> QED
      BY <3>1, <3>2, <3>3 DEF Shifted
  <2>3. CASE ~svc_fork /\ ~svc_kill
    <3>1. UNCHANGED queue /\ curr_prog'.pid = curr_prog.pid
      <4>1. CASE svc_exec
        BY <4>1 DEF svc_exec, Typed, TypeOK, PCB
      <4>2. CASE User \/ svc_fork_fails \/ svc_getpid \/ svc_default \/ UNCHANGED vars
        BY <4>2 DEF User, Compute, fork, exec, exit, kill, getpid, yield, nice, Svc,
                    svc_fork_fails, svc_getpid, svc_default, vars
      <4> QED
        BY <2>3, <4>1, <4>2 DEF Next, hilevel_handler_svc
    <3>2. \A i \in DOMAIN queue' : 0 + i = i
      BY <1>2, <3>1
    <3> QED
      BY <3>1, <3>2 DEF Shifted
  <2> QED
    BY <2>1, <2>2, <2>3
<1>4. KeepsOrder
  BY <1>3, ShiftedKeepsOrder
<1>5. LeavesNobody
  BY <1>3 DEF LeavesNobody
<1>6. PassesOn
  BY DEF PassesOn
<1> QED
  BY <1>4, <1>5, <1>6

\* Round robin, whatever programs fork, kill and exit: nobody overtakes, no live
\* process is passed over, and the timer passes the processor on.
THEOREM NobodyOvertakes == Spec => RoundRobin
<1>1. Typed /\ PidsUnique /\ Typed' /\ [Next]_vars => KeepsOrder /\ LeavesNobody /\ PassesOn
  BY SchedulerInTurn, OthersInTurn
<1>2. Typed /\ PidsUnique /\ Typed' /\ [Next]_vars =>
        [/\ hilevel_handler_irq /\ LivePids # {curr_prog.pid} => curr_prog'.pid # curr_prog.pid
         /\ \A p, q \in Queued \cup Queued' :
           /\ p \in Queued /\ q \in Queued' /\ p \in Queued' /\ ~Before(q, p) /\ p # q
                => Before(p, q)'
           /\ Before(p, q) /\ p \in LivePids /\ q \in LivePids
                => curr_prog'.pid # q \/ curr_prog.pid = q]_vars
  BY <1>1 DEF KeepsOrder, LeavesNobody, PassesOn
<1> QED
  BY <1>2, Typing, PidsAreUnique, PTL DEF Spec, RoundRobin
-----------------------------------------------------------------------------
(* Every process runs as if on a processor of its own: the kernel          *)
(* implements VirtualCPUs.                                                 *)
(*                                                                         *)
(* Views.  They are what the refinement mapping says because pids are      *)
(* unique; a step changes one of them because stacks are exclusive.        *)

\* What the mapping needs of a state, and what it then is: the current process is
\* seen in the live registers, each READY one in its PCB.
Sound == Typed /\ PidsUnique /\ StacksExclusive

ViewIn(st, c, id) ==
  [prog |-> c.prog, at |-> c.at, r0 |-> c.r0,
   depth |-> c.sp - getStackAddress(id), mem |-> st[id]]

Running == IF mode = "hung" THEN 0 ELSE curr_prog.pid

Ready(q) == {i \in 1 .. Len(q) : q[i].status = "READY"}

ViewsInPlace ==
  /\ View = [p \in LivePids |-> View[p]]
  /\ mode # "hung" =>
       /\ curr_prog.pid \in LivePids
       /\ View[curr_prog.pid] = ViewIn(stack, ctx, curr_prog.stack_id)
  /\ \A i \in Ready(queue) :
       /\ queue[i].pid \in LivePids
       /\ View[queue[i].pid] = ViewIn(stack, queue[i].ctx, queue[i].stack_id)
  /\ \A p \in LivePids :
       \/ mode # "hung" /\ p = curr_prog.pid
       \/ \E i \in Ready(queue) : p = queue[i].pid

LEMMA SoundViews == Sound => ViewsInPlace
<1> SUFFICES ASSUME Sound PROVE ViewsInPlace
  OBVIOUS
<1>1. DOMAIN queue = 1 .. Len(queue)
  BY LenProperties DEF Sound, Typed, TypeOK
<1>2. View = [p \in LivePids |-> View[p]]
  BY DEF View
<1>3. mode # "hung" =>
        /\ curr_prog.pid \in LivePids
        /\ View[curr_prog.pid] = ViewIn(stack, ctx, curr_prog.stack_id)
  BY DEF View, ViewOf, ViewIn, LivePids
<1>4. ASSUME NEW i \in Ready(queue)
      PROVE  /\ queue[i].pid \in LivePids
             /\ View[queue[i].pid] = ViewIn(stack, queue[i].ctx, queue[i].stack_id)
  <2>1. i \in DOMAIN queue /\ queue[i].pid \in LivePids
    BY <1>1 DEF Ready, LivePids
  <2>2. queue[i].pid # curr_prog.pid
    BY <2>1 DEF Sound, PidsUnique
  <2>3. (CHOOSE j \in DOMAIN queue : queue[j].pid = queue[i].pid) = i
    BY <2>1 DEF Sound, PidsUnique
  <2> QED
    BY <2>1, <2>2, <2>3 DEF View, ViewOf, ViewIn
<1>5. \A p \in LivePids :
        \/ mode # "hung" /\ p = curr_prog.pid
        \/ \E i \in Ready(queue) : p = queue[i].pid
  BY <1>1 DEF LivePids, Ready
<1> QED
  BY <1>2, <1>3, <1>4, <1>5 DEF ViewsInPlace

LEMMA StepSound ==
  ASSUME Sound, [Next]_vars
  PROVE  Sound' /\ ViewsInPlace /\ ViewsInPlace'
<1>1. Sound'
  BY StepTyped, StepKeepsPids, StepKeepsStacks DEF Sound
<1>2. ViewsInPlace
  BY SoundViews
<1>3. (Sound => ViewsInPlace)'
  BY SoundViews, PTL
<1> QED
  BY <1>1, <1>2, <1>3

\* A waiting process whose PCB stays as it is, when no other taken stack than
\* the current one is written: its view does not change.
LEMMA WaitingUndisturbed ==
  ASSUME Sound, Sound', ViewsInPlace, ViewsInPlace', mode # "hung",
         \A id \in StackIds : fullStacks[id] /\ id # curr_prog.stack_id => stack'[id] = stack[id],
         NEW i \in Ready(queue), i \in Ready(queue'), queue'[i] = queue[i]
  PROVE  /\ queue[i].pid \in LivePids /\ queue[i].pid \in LivePids'
         /\ View'[queue[i].pid] = View[queue[i].pid]
<1>1. i \in DOMAIN queue
  BY LenProperties DEF Ready, Sound, Typed, TypeOK
<1>2. queue[i] \in PCB
  BY ElementOfSeq DEF Ready, Sound, Typed, TypeOK
<1>3. queue[i].stack_id \in StackIds /\ queue[i].stack_id # curr_prog.stack_id
      /\ fullStacks[queue[i].stack_id]
  BY <1>1, <1>2 DEF PCB, Sound, StacksExclusive
<1>4. stack'[queue[i].stack_id] = stack[queue[i].stack_id]
  BY <1>3
<1>5. /\ queue[i].pid \in LivePids
      /\ View[queue[i].pid] = ViewIn(stack, queue[i].ctx, queue[i].stack_id)
  BY DEF ViewsInPlace
<1>6. /\ queue[i].pid \in LivePids'
      /\ View'[queue[i].pid] = ViewIn(stack', queue[i].ctx, queue[i].stack_id)
  BY DEF ViewsInPlace
<1>7. ViewIn(stack', queue[i].ctx, queue[i].stack_id)
        = ViewIn(stack, queue[i].ctx, queue[i].stack_id)
  BY <1>4 DEF ViewIn
<1> QED
  BY <1>5, <1>6, <1>7

-----------------------------------------------------------------------------
(* Steps that change the current process and nobody else.                  *)

\* No step of user mode and no call but fork, kill and exit changes who lives.
LEMMA OwnStep ==
  ASSUME Sound, Sound', ViewsInPlace, ViewsInPlace',
         mode # "hung", mode' # "hung", curr_pid' = curr_pid,
         curr_prog'.pid = curr_prog.pid,
         Ready(queue') = Ready(queue), \A i \in Ready(queue) : queue'[i] = queue[i],
         \A id \in StackIds : fullStacks[id] /\ id # curr_prog.stack_id => stack'[id] = stack[id]
  PROVE  /\ Running \in LivePids /\ Running' = Running /\ LivePids' = LivePids
         /\ View' = [View EXCEPT ![Running] = View'[Running]]
<1>1. Running = curr_prog.pid /\ Running' = Running /\ Running \in LivePids
  BY DEF Running, ViewsInPlace
<1>2. \A i \in Ready(queue) : View'[queue[i].pid] = View[queue[i].pid]
  BY WaitingUndisturbed
<1>3. LivePids' = LivePids
  <2>1. \A p \in LivePids : p = Running \/ \E i \in Ready(queue) : p = queue[i].pid
    BY <1>1 DEF ViewsInPlace
  <2>2. \A p \in LivePids' : p = Running \/ \E i \in Ready(queue) : p = queue[i].pid
    BY <1>1 DEF ViewsInPlace
  <2>3. Running \in LivePids' /\ \A i \in Ready(queue) : queue[i].pid \in LivePids'
    BY <1>1 DEF ViewsInPlace
  <2>4. \A i \in Ready(queue) : queue[i].pid \in LivePids
    BY DEF ViewsInPlace
  <2> QED
    BY <1>1, <2>1, <2>2, <2>3, <2>4
<1>4. \A p \in LivePids : p # Running => View'[p] = View[p]
  BY <1>1, <1>2 DEF ViewsInPlace
<1>5. View = [p \in LivePids |-> View[p]] /\ View' = [p \in LivePids |-> View'[p]]
  BY <1>3 DEF ViewsInPlace
<1>6. View' = [View EXCEPT ![Running] = View'[Running]]
  <2> DEFINE v == View
             w == View'
  <2>1. v = [p \in LivePids |-> v[p]] /\ w = [p \in LivePids |-> w[p]]
    BY <1>5
  <2>2. \A p \in LivePids : p # Running => w[p] = v[p]
    BY <1>4
  <2> HIDE DEF v, w
  <2>3. w = [v EXCEPT ![Running] = w[Running]]
    BY <2>1, <2>2, <1>1
  <2> QED
    BY <2>3 DEF v, w
<1> QED
  BY <1>1, <1>3, <1>6

\* Computing, entering the kernel, and the calls that answer in r0 or not at all.
LEMMA LocalStep ==
  ASSUME Sound, Sound', ViewsInPlace, ViewsInPlace',
         mode # "hung", mode' # "hung", UNCHANGED <<curr_pid, curr_prog>>,
         Ready(queue') = Ready(queue), \A i \in Ready(queue) : queue'[i] = queue[i],
         \A id \in StackIds : fullStacks[id] /\ id # curr_prog.stack_id => stack'[id] = stack[id],
         ctx'.prog = ctx.prog
  PROVE  VCPU!Local
<1>1. /\ Running \in LivePids /\ Running' = Running /\ LivePids' = LivePids
      /\ View' = [View EXCEPT ![Running] = View'[Running]]
  BY OwnStep
<1>2. Running = curr_prog.pid
  BY DEF Running
<1>3. View'[Running].prog = View[Running].prog
  <2>1. View[Running] = ViewIn(stack, ctx, curr_prog.stack_id)
    BY <1>2 DEF ViewsInPlace
  <2>2. View'[Running] = ViewIn(stack', ctx', curr_prog.stack_id)
    BY <1>2 DEF ViewsInPlace
  <2> QED
    BY <2>1, <2>2 DEF ViewIn
<1> QED
  BY <1>1, <1>3 DEF VCPU!Local, Running

LEMMA ComputeIsLocal ==
  ASSUME Sound, Sound', ViewsInPlace, ViewsInPlace', Compute
  PROVE  VCPU!Local
<1> PICK id \in StackIds, d \in 0 .. StackSize - 1, v \in Data :
      /\ InStack(ctx.sp, id)
      /\ ctx' = [ctx EXCEPT !.sp = getStackAddress(id) + d]
      /\ stack' = [stack EXCEPT ![id] = v]
  BY DEF Compute
<1>1. mode = "usr" /\ UNCHANGED <<curr_pid, curr_prog, queue, fullStacks, mode>>
  BY DEF Compute
<1>2. ctx \in Ctx /\ ctx'.prog = ctx.prog
  BY DEF Sound, Typed, TypeOK, Ctx
<1>3. id = curr_prog.stack_id
  <2>1. InStack(ctx.sp, curr_prog.stack_id) /\ curr_prog.stack_id \in Nat /\ id \in Nat
    BY <1>1 DEF Sound, Typed, SpInOwnStack, TypeOK, PCB, StackIds
  <2> QED
    BY <1>2, <2>1, OneStack DEF Ctx
<1>4. \A i \in StackIds : i # curr_prog.stack_id => stack'[i] = stack[i]
  BY <1>3 DEF Sound, Typed, TypeOK
<1> QED
  BY <1>1, <1>2, <1>4, LocalStep

LEMMA CallIsLocal ==
  ASSUME Sound, Sound', ViewsInPlace, ViewsInPlace',
         \/ fork \/ exec \/ exit \/ kill \/ getpid \/ yield \/ nice
         \/ svc_fork_fails \/ svc_getpid \/ svc_default
  PROVE  VCPU!Local
<1>1. ctx \in Ctx
  BY DEF Sound, Typed, TypeOK
<1>2. ASSUME NEW id \in Calls, NEW arg, Svc(id, arg)
      PROVE  VCPU!Local
  <2>1. UNCHANGED <<curr_pid, curr_prog, queue, stack>> /\ mode # "hung" /\ mode' # "hung"
    BY <1>2 DEF Svc, Calls
  <2>2. ctx'.prog = ctx.prog
    BY <1>1, <1>2 DEF Svc, Ctx
  <2> QED
    BY <2>1, <2>2, LocalStep
<1>3. CASE fork \/ exec \/ exit \/ kill \/ getpid \/ yield \/ nice
  BY <1>2, <1>3 DEF fork, exec, exit, kill, getpid, yield, nice, Calls
<1>4. CASE svc_fork_fails \/ svc_getpid \/ svc_default
  <2>1. UNCHANGED <<curr_pid, curr_prog, queue, stack>> /\ mode # "hung" /\ mode' # "hung"
    BY <1>4 DEF svc_fork_fails, svc_getpid, svc_default
  <2>2. ctx'.prog = ctx.prog
    BY <1>1, <1>4 DEF svc_fork_fails, svc_getpid, svc_default, Ctx
  <2> QED
    BY <2>1, <2>2, LocalStep
<1> QED
  BY <1>3, <1>4

LEMMA ExecIsExec ==
  ASSUME Sound, Sound', ViewsInPlace, ViewsInPlace', svc_exec
  PROVE  VCPU!Exec
<1> DEFINE id == curr_prog.stack_id
<1>1. /\ mode = "exec" /\ mode' = "usr" /\ UNCHANGED <<curr_pid, queue, fullStacks>>
      /\ ctx' = [ctx EXCEPT !.prog = ctx.r0, !.sp = getStackAddress(id)]
      /\ stack' = [stack EXCEPT ![id] = 0]
      /\ curr_prog' = [curr_prog EXCEPT !.ctx = ctx']
  BY DEF svc_exec
<1>2. ctx \in Ctx /\ curr_prog \in PCB /\ stack \in [StackIds -> Data]
  BY DEF Sound, Typed, TypeOK
<1>3. /\ curr_prog'.pid = curr_prog.pid /\ curr_prog'.stack_id = id /\ id \in StackIds
      /\ ctx'.sp = getStackAddress(id)
  BY <1>1, <1>2 DEF PCB, Ctx
<1>4. stack'[id] = 0 /\ \A i \in StackIds : i # id => stack'[i] = stack[i]
  BY <1>1, <1>2, <1>3
<1>5. /\ Running \in LivePids /\ Running' = Running /\ LivePids' = LivePids
      /\ View' = [View EXCEPT ![Running] = View'[Running]]
  BY <1>1, <1>3, <1>4, OwnStep
<1>6. Running = curr_prog.pid
  BY <1>1 DEF Running
<1>7. View'[Running].depth = 0 /\ View'[Running].mem = 0
  <2>1. View'[Running] = ViewIn(stack', ctx', id)
    BY <1>1, <1>3, <1>6 DEF ViewsInPlace
  <2>2. getStackAddress(id) \in Nat
    BY <1>3, StackAddressType DEF StackIds
  <2> QED
    BY <1>3, <1>4, <2>1, <2>2 DEF ViewIn
<1> QED
  BY <1>1, <1>5, <1>7 DEF VCPU!Exec, Running

-----------------------------------------------------------------------------
(* Steps that change who lives.                                            *)

\* fork: the child has the view of its parent, except for r0.
LEMMA ForkIsFork ==
  ASSUME Sound, Sound', ViewsInPlace, ViewsInPlace', svc_fork
  PROVE  VCPU!Fork
<1> DEFINE id == curr_prog.stack_id
<1>0. PICK s \in StackIds :
      /\ IsFreeStack(s)
      /\ stack' = [stack EXCEPT ![s] = stack[id]]
      /\ queue' = Append(queue, Child(s))
  BY DEF svc_fork
<1>1. /\ mode = "fork" /\ mode' = "usr" /\ UNCHANGED curr_prog
      /\ ctx' = [ctx EXCEPT !.r0 = curr_pid] /\ curr_pid' = curr_pid + 1
  BY DEF svc_fork
<1>2. /\ ctx \in Ctx /\ curr_prog \in PCB /\ stack \in [StackIds -> Data]
      /\ fullStacks \in [StackIds -> BOOLEAN] /\ curr_pid \in Nat
      /\ queue \in Seq(PCB) /\ Len(queue) \in Nat
  BY LenProperties DEF Sound, Typed, TypeOK, Pids
<1>3. id \in StackIds /\ id # s /\ ~fullStacks[s]
  BY <1>0, <1>1, <1>2 DEF Sound, StacksExclusive, IsFreeStack, PCB
<1>4. stack'[s] = stack[id] /\ \A i \in StackIds : i # s => stack'[i] = stack[i]
  BY <1>0, <1>2, <1>3
<1>5. /\ Child(s) \in PCB /\ Child(s).status = "READY"
      /\ Child(s).pid = curr_pid /\ Child(s).stack_id = s
  BY <1>1, ChildType DEF Sound
<1>6. /\ Len(queue') = Len(queue) + 1
      /\ \A i \in 1 .. Len(queue) : queue'[i] = queue[i]
      /\ queue'[Len(queue) + 1] = Child(s)
  BY <1>0, <1>2, <1>5, AppendProperties
<1>7. Ready(queue') = Ready(queue) \cup {Len(queue) + 1}
  BY <1>2, <1>5, <1>6 DEF Ready
<1>8. Running = curr_prog.pid /\ Running' = Running /\ Running \in LivePids
  BY <1>1 DEF Running, ViewsInPlace
<1>9. \A p \in LivePids : p < curr_pid
  BY <1>8, LenProperties DEF LivePids, Sound, PidsUnique
<1>10. LivePids' = LivePids \cup {curr_pid}
  <2>1. \A p \in LivePids' : p = Running \/ p = curr_pid \/ \E i \in Ready(queue) : p = queue[i].pid
    <3>1. \A p \in LivePids' : p = Running \/ \E i \in Ready(queue') : p = queue'[i].pid
      BY <1>1, <1>8 DEF ViewsInPlace
    <3>2. \A i \in Ready(queue') :
            queue'[i].pid = curr_pid \/ (i \in Ready(queue) /\ queue'[i].pid = queue[i].pid)
      BY <1>5, <1>6, <1>7 DEF Ready
    <3> QED
      BY <3>1, <3>2
  <2>2. \A i \in Ready(queue) : queue[i].pid \in LivePids
    BY DEF ViewsInPlace
  <2>3. \A p \in LivePids : p = Running \/ \E i \in Ready(queue) : p = queue[i].pid
    BY <1>8 DEF ViewsInPlace
  <2>4. Running \in LivePids' /\ curr_pid \in LivePids'
    BY <1>1, <1>5, <1>6, <1>7, <1>8 DEF ViewsInPlace
  <2>5. \A i \in Ready(queue) : queue[i].pid \in LivePids'
    BY <1>6, <1>7 DEF ViewsInPlace, Ready
  <2> QED
    BY <1>8, <2>1, <2>2, <2>3, <2>4, <2>5
<1>11. View'[curr_pid] = [View[Running] EXCEPT !.r0 = 0]
  <2>1. View'[curr_pid] = ViewIn(stack', Child(s).ctx, s)
    <3>1. Len(queue) + 1 \in Ready(queue')
      BY <1>7
    <3>2. View'[queue'[Len(queue) + 1].pid]
            = ViewIn(stack', queue'[Len(queue) + 1].ctx, queue'[Len(queue) + 1].stack_id)
      BY <3>1 DEF ViewsInPlace
    <3> QED
      BY <1>5, <1>6, <3>2
  <2>2. View[Running] = ViewIn(stack, ctx, id)
    BY <1>1, <1>8 DEF ViewsInPlace
  <2>3. Child(s).ctx = [ctx EXCEPT !.r0 = 0, !.sp = @ + StackSize * (s - id)]
    BY <1>2, ConstantsAssumption, NewProcessType DEF Child, create_process
  <2>4. /\ Child(s).ctx.prog = ctx.prog /\ Child(s).ctx.at = ctx.at /\ Child(s).ctx.r0 = 0
        /\ Child(s).ctx.sp = ctx.sp + StackSize * (s - id)
    BY <1>2, <2>3 DEF Ctx
  <2>5. Child(s).ctx.sp - getStackAddress(s) = ctx.sp - getStackAddress(id)
    <3>1. StackSize * (s - id) = StackSize * s - StackSize * id
      BY <1>3, ConstantsAssumption DEF StackIds
    <3>2. StackSize * s \in Nat /\ StackSize * id \in Nat
      BY <1>3, ConstantsAssumption DEF StackIds
    <3> QED
      BY <1>2, <2>4, <3>1, <3>2 DEF getStackAddress, Ctx
  <2> QED
    BY <1>4, <2>1, <2>2, <2>4, <2>5 DEF ViewIn
<1>12. View'[Running] = [View[Running] EXCEPT !.r0 = curr_pid]
  <2>1. View'[Running] = ViewIn(stack', ctx', id) /\ View[Running] = ViewIn(stack, ctx, id)
    BY <1>1, <1>8 DEF ViewsInPlace
  <2>2. ctx'.prog = ctx.prog /\ ctx'.at = ctx.at /\ ctx'.r0 = curr_pid /\ ctx'.sp = ctx.sp
    BY <1>1, <1>2 DEF Ctx
  <2>3. stack'[id] = stack[id]
    BY <1>3, <1>4
  <2> QED
    BY <2>1, <2>2, <2>3 DEF ViewIn
<1>13. \A i \in Ready(queue) : View'[queue[i].pid] = View[queue[i].pid]
  <2> SUFFICES ASSUME NEW i \in Ready(queue)
               PROVE  View'[queue[i].pid] = View[queue[i].pid]
    OBVIOUS
  <2>1. i \in Ready(queue') /\ queue'[i] = queue[i]
    BY <1>6, <1>7 DEF Ready
  <2>2. \A j \in StackIds : fullStacks[j] /\ j # id => stack'[j] = stack[j]
    BY <1>3, <1>4
  <2> QED
    BY <1>1, <2>1, <2>2, WaitingUndisturbed
<1>14. \A p \in LivePids : p # Running => View'[p] = View[p]
  <2>1. \A p \in LivePids : p = Running \/ \E i \in Ready(queue) : p = queue[i].pid
    BY <1>8 DEF ViewsInPlace
  <2> QED
    BY <1>13, <2>1
<1>15. View' = [p \in LivePids' |->
         IF p = curr_pid THEN [View[Running] EXCEPT !.r0 = 0]
         ELSE IF p = Running THEN [View[Running] EXCEPT !.r0 = curr_pid]
         ELSE View[p]]
  <2>1. View' = [p \in LivePids' |-> View'[p]]
    BY DEF ViewsInPlace
  <2>2. \A p \in LivePids' : p = curr_pid \/ (p \in LivePids /\ p # curr_pid)
    BY <1>2, <1>9, <1>10
  <2> QED
    BY <1>11, <1>12, <1>14, <2>1, <2>2
<1>16. /\ (1 .. curr_pid - 1)' = (1 .. curr_pid - 1) \cup {curr_pid}
       /\ curr_pid \in (1 .. curr_pid - 1)' \ (1 .. curr_pid - 1)
  BY <1>1, <1>2 DEF Sound, Typed, TypeOK, Pids
<1> QED
  BY <1>8, <1>10, <1>15, <1>16 DEF VCPU!Fork, Running

\* kill: the victim's view disappears; a victim already dead changes nothing.
LEMMA KillIsKill ==
  ASSUME Sound, Sound', ViewsInPlace, ViewsInPlace', svc_kill
  PROVE  VCPU!Kill \/ VCPU!Local
<1>1. /\ mode = "kill" /\ mode' = "usr"
      /\ UNCHANGED <<curr_pid, curr_prog, fullStacks, stack>>
  BY DEF svc_kill
<1>2. /\ ctx \in Ctx /\ queue \in Seq(PCB) /\ Len(queue) \in Nat
      /\ DOMAIN queue = 1 .. Len(queue)
      /\ \A i \in 1 .. Len(queue) : queue[i] \in PCB
  BY LenProperties, ElementOfSeq DEF Sound, Typed, TypeOK
<1>3. Running = curr_prog.pid /\ Running' = Running /\ Running \in LivePids
  BY <1>1 DEF Running, ViewsInPlace
<1>4. CASE UNCHANGED queue /\ ctx' = [ctx EXCEPT !.r0 = 0]
  <2>1. ctx'.prog = ctx.prog
    BY <1>2, <1>4 DEF Ctx
  <2> QED
    BY <1>1, <1>4, <2>1, LocalStep
<1>5. ASSUME NEW v \in 1 .. Len(queue),
             queue' = [queue EXCEPT ![v].status = "TERMINATED"],
             ctx' = [ctx EXCEPT !.r0 = 1]
      PROVE  VCPU!Kill \/ VCPU!Local
  <2> DEFINE dead == [queue[v] EXCEPT !.status = "TERMINATED"]
  <2>1. dead \in PCB /\ dead.status = "TERMINATED"
    BY <1>2 DEF PCB, Status
  <2>2. queue' = [queue EXCEPT ![v] = dead]
    BY <1>5
  <2>3. /\ Len(queue') = Len(queue)
        /\ \A i \in 1 .. Len(queue) : queue'[i] = IF i = v THEN dead ELSE queue[i]
    <3> HIDE DEF dead
    <3> QED
      BY <1>2, <2>1, <2>2, ExceptSeq
  <2> HIDE DEF dead
  <2>4. Ready(queue') = Ready(queue) \ {v}
    BY <2>1, <2>3 DEF Ready
  <2>5. \A i \in Ready(queue) : i # v => queue'[i] = queue[i]
    BY <2>3 DEF Ready
  <2>6. ctx'.prog = ctx.prog /\ ctx'.at = ctx.at /\ ctx'.sp = ctx.sp /\ ctx'.r0 = 1
    BY <1>2, <1>5 DEF Ctx
  <2>7. CASE v \notin Ready(queue)
    <3>1. Ready(queue') = Ready(queue) /\ \A i \in Ready(queue) : queue'[i] = queue[i]
      BY <2>4, <2>5, <2>7
    <3> QED
      BY <1>1, <2>6, <3>1, LocalStep
  <2>8. CASE v \in Ready(queue)
    <3> DEFINE victim == queue[v].pid
    <3>1. victim \in LivePids /\ victim # Running
      BY <1>2, <1>3, <2>8 DEF ViewsInPlace, Sound, PidsUnique
    <3>2. \A i \in Ready(queue) : queue[i].pid = victim => i = v
      BY <1>2 DEF Ready, Sound, PidsUnique
    <3>3. \A p \in LivePids : p = Running \/ \E i \in Ready(queue) : p = queue[i].pid
      BY <1>3 DEF ViewsInPlace
    <3>4. \A p \in LivePids' : p = Running \/ \E i \in Ready(queue') : p = queue'[i].pid
      BY <1>1, <1>3 DEF ViewsInPlace
    <3>5. ASSUME NEW i \in Ready(queue) \ {v}
          PROVE  /\ queue[i].pid \in LivePids /\ queue[i].pid \in LivePids'
                 /\ View'[queue[i].pid] = View[queue[i].pid]
      <4>1. i \in Ready(queue') /\ queue'[i] = queue[i]
        BY <2>4, <2>5
      <4> QED
        BY <1>1, <4>1, WaitingUndisturbed
    <3>6. LivePids' = LivePids \ {victim}
      <4>1. Running \in LivePids'
        BY <1>1, <1>3 DEF ViewsInPlace
      <4>2. \A p \in LivePids' : p = Running \/ \E i \in Ready(queue) \ {v} : p = queue[i].pid
        BY <2>4, <2>5, <3>4
      <4> QED
        BY <1>3, <3>1, <3>2, <3>3, <3>5, <4>1, <4>2
    <3>7. View'[Running] = [View[Running] EXCEPT !.r0 = 1]
      <4>1. /\ View'[Running] = ViewIn(stack, ctx', curr_prog.stack_id)
            /\ View[Running] = ViewIn(stack, ctx, curr_prog.stack_id)
        BY <1>1, <1>3 DEF ViewsInPlace
      <4> QED
        BY <2>6, <4>1 DEF ViewIn
    <3>8. \A p \in LivePids' : p # Running => View'[p] = View[p]
      BY <3>3, <3>5, <3>6
    <3>9. View' = [p \in LivePids' |->
            IF p = Running THEN [View[p] EXCEPT !.r0 = 1] ELSE View[p]]
      <4>1. View' = [p \in LivePids' |-> View'[p]]
        BY DEF ViewsInPlace
      <4> QED
        BY <3>7, <3>8, <4>1
    <3> QED
      BY <1>1, <1>3, <3>1, <3>6, <3>9 DEF VCPU!Kill, Running
  <2> QED
    BY <2>7, <2>8
<1>6. \/ \E v \in DOMAIN queue : /\ queue' = [queue EXCEPT ![v].status = "TERMINATED"]
                               /\ ctx' = [ctx EXCEPT !.r0 = 1]
      \/ UNCHANGED queue /\ ctx' = [ctx EXCEPT !.r0 = 0]
  BY DEF svc_kill
<1> QED
  BY <1>2, <1>4, <1>5, <1>6

-----------------------------------------------------------------------------
(* The scheduler.                                                          *)

\* After a switch the live processes are the READY ones of the queue it popped
\* from, each with the view that its PCB gave it there.
LEMMA SwitchedViews ==
  ASSUME Sound', ViewsInPlace', NEW q \in Seq(PCB), NEW k \in 1 .. Len(q),
         FirstReady(q, k), Dispatch(q, k), UNCHANGED stack,
         \A j \in 1 .. Len(q) : q[j].status \in {"READY", "TERMINATED"}
  PROVE  /\ LivePids' = {q[j].pid : j \in Ready(q)}
         /\ \A j \in Ready(q) : View'[q[j].pid] = ViewIn(stack, q[j].ctx, q[j].stack_id)
         /\ Running' \in LivePids'
<1>1. /\ Len(queue') = Len(q) - k
      /\ \A i \in 1 .. Len(queue') : queue'[i] = q[k + i]
  BY DispatchStep
<1>2. /\ curr_prog' = [q[k] EXCEPT !.status = "EXECUTING"]
      /\ ctx' = q[k].ctx /\ mode' = "usr"
  BY DEF Dispatch
<1>3. Len(q) \in Nat /\ q[k] \in PCB
  BY LenProperties, ElementOfSeq
<1>4. curr_prog'.pid = q[k].pid /\ curr_prog'.stack_id = q[k].stack_id
  BY <1>2, <1>3 DEF PCB
<1>5. k \in Ready(q) /\ \A j \in Ready(q) : k <= j
  BY <1>3 DEF FirstReady, Ready
<1>6. \A j \in Ready(q) : j = k \/ (j - k \in Ready(queue') /\ queue'[j - k] = q[j])
  <2> SUFFICES ASSUME NEW j \in Ready(q), j # k
               PROVE  j - k \in Ready(queue') /\ queue'[j - k] = q[j]
    OBVIOUS
  <2>1. j \in 1 .. Len(q) /\ k <= j
    BY <1>5 DEF Ready
  <2>2. j - k \in 1 .. Len(queue') /\ k + (j - k) = j
    BY <1>1, <1>3, <2>1
  <2> QED
    BY <1>1, <2>2 DEF Ready
<1>7. \A i \in Ready(queue') : k + i \in Ready(q) /\ queue'[i] = q[k + i]
  BY <1>1, <1>3 DEF Ready
<1>8. /\ curr_prog'.pid \in LivePids'
      /\ View'[curr_prog'.pid] = ViewIn(stack, q[k].ctx, q[k].stack_id)
  BY <1>2, <1>4 DEF ViewsInPlace
<1>9. \A i \in Ready(queue') :
        /\ queue'[i].pid \in LivePids'
        /\ View'[queue'[i].pid] = ViewIn(stack, queue'[i].ctx, queue'[i].stack_id)
  BY DEF ViewsInPlace
<1>10. \A p \in LivePids' : p = curr_prog'.pid \/ \E i \in Ready(queue') : p = queue'[i].pid
  BY DEF ViewsInPlace
<1>11. LivePids' = {q[j].pid : j \in Ready(q)}
  <2>1. \A p \in LivePids' : \E j \in Ready(q) : p = q[j].pid
    BY <1>4, <1>5, <1>7, <1>10
  <2>2. \A j \in Ready(q) : q[j].pid \in LivePids'
    BY <1>4, <1>6, <1>8, <1>9
  <2> QED
    BY <2>1, <2>2
<1>12. \A j \in Ready(q) : View'[q[j].pid] = ViewIn(stack, q[j].ctx, q[j].stack_id)
  BY <1>4, <1>6, <1>8, <1>9
<1>13. Running' \in LivePids'
  BY <1>2, <1>8 DEF Running
<1> QED
  BY <1>11, <1>12, <1>13

\* The timer: the READY processes of the queue and the current one behind them are
\* the live ones, with their views; so the switch changes no view.
LEMMA TimerIsSwitch ==
  ASSUME Sound, Sound', ViewsInPlace, ViewsInPlace', hilevel_handler_irq
  PROVE  VCPU!Switch
<1> DEFINE q == Requeued(Saved)
           me == [Saved EXCEPT !.status = "READY"]
<1>1. mode = "usr" /\ UNCHANGED <<curr_pid, stack>> /\ scheduler(Saved)
  BY DEF hilevel_handler_irq
<1>2. curr_prog \in PCB /\ ctx \in Ctx /\ curr_prog.status = "EXECUTING"
      /\ queue \in Seq(PCB) /\ Len(queue) \in Nat
  BY <1>1, LenProperties DEF Sound, Typed, TypeOK
<1>3. /\ Saved \in PCB /\ Saved.status = "EXECUTING"
      /\ me \in PCB /\ me.status = "READY" /\ me.pid = curr_prog.pid
      /\ me.ctx = ctx /\ me.stack_id = curr_prog.stack_id
  BY <1>2 DEF Saved, PCB, Status
<1>4. q = Append(queue, me)
  BY <1>3 DEF Requeued
<1> HIDE DEF me
<1>5. /\ q \in Seq(PCB) /\ Len(q) = Len(queue) + 1
      /\ \A i \in 1 .. Len(queue) : q[i] = queue[i]
      /\ q[Len(queue) + 1] = me
  BY <1>2, <1>3, <1>4, AppendProperties
<1>6. \A j \in 1 .. Len(q) : q[j].status \in {"READY", "TERMINATED"}
  BY <1>3, RequeuedProperties DEF Sound, Typed
<1>7. \/ \E k \in DOMAIN q : FirstReady(q, k) /\ Dispatch(q, k)
      \/ \A k \in DOMAIN q : q[k].status # "READY"
  BY <1>1 DEF scheduler
<1> HIDE DEF q
<1>8. DOMAIN q = 1 .. Len(q)
  BY <1>5, LenProperties
<1>9. Ready(q) = Ready(queue) \cup {Len(queue) + 1}
  BY <1>2, <1>3, <1>5 DEF Ready
<1>10. Len(queue) + 1 \in DOMAIN q /\ q[Len(queue) + 1].status = "READY"
  BY <1>2, <1>3, <1>5, <1>8
<1>11. PICK k \in 1 .. Len(q) : FirstReady(q, k) /\ Dispatch(q, k)
  BY <1>7, <1>8, <1>10
<1>12. /\ LivePids' = {q[j].pid : j \in Ready(q)}
       /\ \A j \in Ready(q) : View'[q[j].pid] = ViewIn(stack, q[j].ctx, q[j].stack_id)
       /\ Running' \in LivePids'
  BY <1>1, <1>5, <1>6, <1>11, SwitchedViews
<1>13. \A j \in Ready(q) :
         \/ j \in Ready(queue) /\ q[j] = queue[j]
         \/ /\ q[j].pid = curr_prog.pid /\ q[j].ctx = ctx
            /\ q[j].stack_id = curr_prog.stack_id
  BY <1>3, <1>5, <1>9 DEF Ready
<1>14. /\ curr_prog.pid \in LivePids
       /\ View[curr_prog.pid] = ViewIn(stack, ctx, curr_prog.stack_id)
  BY <1>1 DEF ViewsInPlace
<1>15. \A i \in Ready(queue) :
         /\ queue[i].pid \in LivePids
         /\ View[queue[i].pid] = ViewIn(stack, queue[i].ctx, queue[i].stack_id)
  BY DEF ViewsInPlace
<1>16. \A p \in LivePids : p = curr_prog.pid \/ \E i \in Ready(queue) : p = queue[i].pid
  BY DEF ViewsInPlace
<1>17. \A j \in Ready(q) :
         q[j].pid \in LivePids /\ View[q[j].pid] = ViewIn(stack, q[j].ctx, q[j].stack_id)
  BY <1>13, <1>14, <1>15
<1>18. LivePids' = LivePids
  <2>1. \A p \in LivePids : \E j \in Ready(q) : p = q[j].pid
    <3>1. Len(queue) + 1 \in Ready(q) /\ q[Len(queue) + 1].pid = curr_prog.pid
      BY <1>3, <1>5, <1>9
    <3>2. \A i \in Ready(queue) : i \in Ready(q) /\ q[i] = queue[i]
      BY <1>5, <1>9 DEF Ready
    <3> QED
      BY <1>16, <3>1, <3>2
  <2> QED
    BY <1>12, <1>17, <2>1
<1>19. View' = View
  <2>1. \A p \in LivePids : View'[p] = View[p]
    BY <1>12, <1>17, <1>18
  <2>2. View = [p \in LivePids |-> View[p]] /\ View' = [p \in LivePids |-> View'[p]]
    BY <1>18 DEF ViewsInPlace
  <2> QED
    BY <2>1, <2>2
<1> QED
  BY <1>1, <1>12, <1>18, <1>19 DEF VCPU!Switch, Running

\* exit: the live processes but the current one, with their views, or nobody.
LEMMA ExitIsExit ==
  ASSUME Sound, Sound', ViewsInPlace, ViewsInPlace', svc_exit
  PROVE  VCPU!Exit
<1> DEFINE me == [Saved EXCEPT !.status = "TERMINATED"]
           others == LivePids \ {Running}
<1>1. mode = "exit" /\ UNCHANGED <<curr_pid, stack>> /\ scheduler(me)
  BY DEF svc_exit
<1>2. curr_prog \in PCB /\ ctx \in Ctx /\ queue \in Seq(PCB)
      /\ DOMAIN queue = 1 .. Len(queue)
  BY <1>1, LenProperties DEF Sound, Typed, TypeOK
<1>3. me \in PCB /\ me.status = "TERMINATED"
  BY <1>2 DEF Saved, PCB, Status
<1>4. Requeued(me) = queue
  BY <1>3 DEF Requeued
<1>5. \A j \in 1 .. Len(queue) : queue[j].status \in {"READY", "TERMINATED"}
  <2>1. \A j \in 1 .. Len(queue) : queue[j] \in PCB
    BY <1>2, ElementOfSeq
  <2> QED
    BY <1>2, <2>1 DEF Sound, Typed, TypeOK, PCB, Status
<1>6. \/ \E k \in 1 .. Len(queue) : FirstReady(queue, k) /\ Dispatch(queue, k)
      \/ (\A k \in 1 .. Len(queue) : queue[k].status # "READY") /\ Spin(me, queue)
  BY <1>1, <1>2, <1>4 DEF scheduler
<1> HIDE DEF me
<1>7. Running = curr_prog.pid /\ Running \in LivePids
  BY <1>1 DEF Running, ViewsInPlace
<1>8. others = {queue[i].pid : i \in Ready(queue)}
  <2>1. \A p \in LivePids : p = Running \/ \E i \in Ready(queue) : p = queue[i].pid
    BY <1>7 DEF ViewsInPlace
  <2>2. \A i \in Ready(queue) : queue[i].pid \in LivePids
    BY DEF ViewsInPlace
  <2>3. \A i \in Ready(queue) : queue[i].pid # Running
    BY <1>2, <1>7 DEF Sound, PidsUnique, Ready
  <2> QED
    BY <2>1, <2>2, <2>3
<1>9. ASSUME NEW k \in 1 .. Len(queue), FirstReady(queue, k), Dispatch(queue, k)
      PROVE  VCPU!Exit
  <2>1. /\ LivePids' = {queue[j].pid : j \in Ready(queue)}
        /\ \A j \in Ready(queue) :
             View'[queue[j].pid] = ViewIn(stack, queue[j].ctx, queue[j].stack_id)
        /\ Running' \in LivePids'
    BY <1>1, <1>2, <1>5, <1>9, SwitchedViews
  <2>2. LivePids' = others
    BY <1>8, <2>1
  <2>3. \A i \in Ready(queue) :
          View[queue[i].pid] = ViewIn(stack, queue[i].ctx, queue[i].stack_id)
    BY DEF ViewsInPlace
  <2>4. \A p \in LivePids' : View'[p] = View[p]
    BY <2>1, <2>3
  <2>5. View' = [p \in LivePids' |-> View[p]]
    <3>1. View' = [p \in LivePids' |-> View'[p]]
      BY DEF ViewsInPlace
    <3> QED
      BY <2>4, <3>1
  <2>6. LivePids' # {}
    BY <2>1
  <2> QED
    BY <1>1, <1>7, <2>1, <2>2, <2>5, <2>6 DEF VCPU!Exit, Running
<1>10. ASSUME \A k \in 1 .. Len(queue) : queue[k].status # "READY", Spin(me, queue)
       PROVE  VCPU!Exit
  <2>1. queue' = <<>> /\ mode' = "hung"
    <3>1. \A k \in 1 .. Len(queue) : queue[k].status = "TERMINATED"
      BY <1>5, <1>10
    <3> QED
      BY <1>2, <1>3, <1>10, <3>1, SpinStep DEF Spin
  <2>2. LivePids' = {}
    BY <2>1 DEF LivePids
  <2>3. others = {}
    BY <1>8, <1>10 DEF Ready
  <2>4. View' = [p \in LivePids' |-> View[p]]
    <3>1. View' = [p \in LivePids' |-> View'[p]]
      BY DEF ViewsInPlace
    <3> QED
      BY <2>2, <3>1
  <2>5. Running' = 0
    BY <2>1 DEF Running
  <2> QED
    BY <1>1, <1>7, <2>2, <2>3, <2>4, <2>5 DEF VCPU!Exit, Running
<1> QED
  BY <1>6, <1>9, <1>10

-----------------------------------------------------------------------------
LEMMA InitVirtual == Init => VCPU!Init
<1> SUFFICES ASSUME Init PROVE VCPU!Init
  OBVIOUS
<1>1. /\ curr_prog.pid = 1 /\ curr_prog.stack_id = 0 /\ curr_prog.ctx = ctx
      /\ ctx = [prog |-> Console, at |-> "run", r0 |-> 0, sp |-> getStackAddress(0)]
      /\ mode = "usr" /\ curr_pid = 2 /\ DOMAIN queue = {}
  BY DEF Init, create_process
<1>2. 0 \in StackIds /\ stack[0] = 0
  BY ConstantsAssumption DEF StackIds, Init
<1>3. LivePids = {1}
  BY <1>1 DEF LivePids
<1>4. getStackAddress(0) - getStackAddress(0) = 0
  BY StackAddressType
<1>5. ViewOf(ctx, 0) = [prog |-> Console, at |-> "run", r0 |-> 0, depth |-> 0, mem |-> 0]
  BY <1>1, <1>2, <1>4 DEF ViewOf
<1>6. View = [p \in {1} |-> ViewOf(ctx, 0)]
  BY <1>1, <1>3 DEF View
<1>7. 1 .. curr_pid - 1 = {1}
  BY <1>1
<1> QED
  BY <1>1, <1>3, <1>5, <1>6, <1>7 DEF VCPU!Init

LEMMA StepVirtual ==
  ASSUME Sound, [Next]_vars
  PROVE  [VCPU!Next]_VCPU!vvars
<1>1. Sound' /\ ViewsInPlace /\ ViewsInPlace'
  BY StepSound
<1>2. CASE Compute
  BY <1>1, <1>2, ComputeIsLocal DEF VCPU!Next
<1>3. CASE fork \/ exec \/ exit \/ kill \/ getpid \/ yield \/ nice
  BY <1>1, <1>3, CallIsLocal DEF VCPU!Next
<1>4. CASE svc_fork_fails \/ svc_getpid \/ svc_default
  BY <1>1, <1>4, CallIsLocal DEF VCPU!Next
<1>5. CASE hilevel_handler_irq
  BY <1>1, <1>5, TimerIsSwitch DEF VCPU!Next
<1>6. CASE svc_fork
  BY <1>1, <1>6, ForkIsFork DEF VCPU!Next
<1>7. CASE svc_exit
  BY <1>1, <1>7, ExitIsExit DEF VCPU!Next
<1>8. CASE svc_exec
  BY <1>1, <1>8, ExecIsExec DEF VCPU!Next
<1>9. CASE svc_kill
  BY <1>1, <1>9, KillIsKill DEF VCPU!Next
<1>10. CASE UNCHANGED vars
  <2>1. View' = View /\ LivePids' = LivePids
    BY <1>10 DEF vars, View, LivePids, ViewOf
  <2> QED
    BY <1>10, <2>1 DEF vars, VCPU!vvars
<1> QED
  BY <1>2, <1>3, <1>4, <1>5, <1>6, <1>7, <1>8, <1>9, <1>10
  DEF Next, User, hilevel_handler_svc

\* Time sharing is transparent for any programs: what a process sees of its own
\* registers and stack changes only by its own instructions and calls, whatever
\* is switched, forked, killed, reaped and reused around it.
THEOREM KernelImplementsVirtualCPUs == Spec => ImplementsVirtualCPUs
<1>1. Spec => []Sound
  BY Typing, PidsAreUnique, StacksAreExclusive, PTL DEF Sound
<1>2. Spec => VCPU!Init
  BY InitVirtual DEF Spec
<1>3. Sound /\ [Next]_vars => [VCPU!Next]_VCPU!vvars
  BY StepVirtual
<1> QED
  BY <1>1, <1>2, <1>3, PTL DEF Spec, ImplementsVirtualCPUs, VCPU!Spec
=============================================================================
