# A verification model of the UOB operating system kernel

The repository is a small operating system kernel in C and ARM assembly for
an emulated RealView board: time sharing between processes, fork, exec, exit
and kill, named pipes with permissions, a console that starts and terminates
programs, and a table of dining philosophers that talk through pipes. Next to
the kernel it holds a driver for an emulated disk, with the disk's server.

This directory models that system in TLA+, from the instructions of the low level
handlers up to the shell, checks the model with TLC on small instances, and proves
with TLAPS, for every value of the constants, the invariants and the refinements of the
processes, the pipes, the linked lists under both and the disk, the safety of the
philosophers' table, that the commands of the shell do what their lines say, and that
the low level handlers leave every program its registers, instruction by instruction.
`PROJECT.json` lists the runs with the properties they check, the source lines behind
every definition, the mutated definitions that break each property, the hazards and the
findings.

## 1. Inventory of the system

| component | source | state | operations |
|---|---|---|---|
| processes and scheduling | `kernel/hilevel.c`, `lolevel.s` | `curr_prog`, `queue`, `curr_pid`, `fullStacks`; user registers and stacks | timer interrupt, `fork`, `exec`, `exit`, `kill`, `getpid`; `yield` and `nice`, which do nothing |
| pipes | `kernel/hilevel.c` | `pipes`, `pipesLength`, `currFd` | `mkfifo`, `open`, `unlink`, `write`, `read` |
| queue | `kernel/queue.c` | linked lists in the heap | `newQueue`, `push`, `peek`, `pop`, `isEmpty`, `freeQueue` |
| dining philosophers | `user/waiter.c`, `user/philosopher.c` | the waiter's arrays and last request, each philosopher's state | the loops of the two programs |
| console | `user/console.c` | its line, strtok's position | `execute`, `terminate` |
| C library | `user/libc.c` | none | one stub a system call; `atoii`, `itoa` |
| P1 to P5 | `user/P*.c` | their registers | print, Hamming weight, gcd, primes; P5 exits |
| disk | `device/disk.c`, `device/disk.py` | the image, a serial line | get size, write and read a block, with retries |
| UART | `device/PL011.c` | device registers | characters, hexadecimal |
| vectors and low level code | `kernel/int.s`, `lolevel.s` | vector table, mode stacks, banked registers | copy the table, save and restore registers |
| timer, interrupt controller | `device/SP804.*`, `device/GIC.*` | device registers | run out, clear; acknowledge, end |
| keyboard, LCD, MMU | `device/*` | device registers | never used |

**Interaction.** User programs share no memory by design and reach the kernel
by `svc`; a handler runs with interrupts masked, so a system call is atomic and
only the timer separates two instructions of a program. The handlers change the
kernel's state and return a result in `r0`. Programs talk to each other through
pipes only, named after pids. The kernel, and every program, allocate from one
heap. strtok has one position for the
console, its children and the kernel. The disk's server is a process on the host at
the end of a serial line.

**What is hard.** Contexts are copied by value between the frame on the stack,
`curr_prog` and the queue, and a killed process stays in the queue until it is
popped (stale state); stacks are handed out, marked and given back at different
moments; scheduler() loops until somebody is READY (deadlock, starvation); fork
relocates a stack pointer by arithmetic on ids. The timer may strike at any
instruction, and the next one depends on two devices being told that it was
served. The shell and its child are the same code after fork, and take a line
apart together. `unlink` moves one pipe into the
place of another. A philosopher's request is two writes and two reads with a
timer in between; many requests, answers and returned forks are on their way at
once. Failures are rarely looked at: fork without a stack, mkfifo of a name in
use. The disk driver repeats requests, waits without a timeout, and stays in
step with the server only by counting characters.

**What makes each part correct.** Processes: each runs as on a processor of its
own, on a stack of its own, under a pid of its own; the dead stay dead; everybody
gets the processor, in turn. Low level handlers: a program's registers change by
its own instructions and calls and by nothing else. Console: a command does what it
names, and the prompt comes back. Pipes: every descriptor is one channel for its whole
life, in order, under its rights. Queues: sequences. The table: neighbours never
eat together, the waiter's view of the forks is right, somebody keeps eating.
Disk: a block device, whose line is silent between calls.

## 2. Modules

| module | models | extends / uses |
|---|---|---|
| `Processes` | scheduling and process system calls | |
| `ProcessesProperties` | what they should satisfy | `Processes`, instance of `VirtualCPUs` |
| `VirtualCPUs` | abstract: every process has a processor and a stack | |
| `Console` | the shell as one of the processes, strtok, what it starts | `ProcessesProperties`, `LibC` |
| `LibC` | `atoii`, `itoa` | |
| `MCConsole` | programs and lines for TLC | `Console` |
| `ConsoleProofs` | theorems: the console lives, the kernel never hangs, commands do what their lines say; death and turns with the shell; `atoii` undoes `itoa` | `Console`, `ProcessesProofs` |
| `LowLevel` | vectors, handlers, mode stacks, timer, by instruction | `Programs`, instance of `Threads` |
| `Threads` | abstract: a program's registers are its own | `Programs` |
| `Programs` | P1 to P5, and the console's executing loop, as instructions | |
| `MCLowLevel` | what is executed, for TLC | `LowLevel` |
| `LowLevelProofs` | theorem: the mode stacks are balanced; lemmas about weight, gcd and is_prime | `LowLevel`, TLAPS |
| `ThreadsProofs` | theorems: `Threads` is implemented, what the programs compute is right | `LowLevelProofs` |
| `ProcessesProofs` | theorems: invariants, the dead stay dead, round robin, `VirtualCPUs` is implemented | `ProcessesProperties`, TLAPS |
| `MCProcesses` | program images for TLC | `ProcessesProperties` |
| `PipeTable` | the array of pipes, each call's effect and result | |
| `Pipes` | any process makes any pipe call | `PipeTable`, instance of `NamedPipes` |
| `NamedPipes` | abstract: channels, no array | |
| `MCPipes` | names, modes and buffers for TLC | `Pipes` |
| `PipesProofs` | theorems: types, distinct pipes, `NamedPipes` is implemented | `Pipes`, TLAPS |
| `Dining` | waiter and philosophers over the kernel's pipes | instance of `PipeTable` |
| `DiningProofs` | theorems: forks held, neighbours exclusive, nobody twice in a row, types | `Dining`, TLAPS |
| `Queue` | the linked lists in a heap | instance of `Fifos` |
| `Fifos` | abstract: sequences | |
| `QueueProofs` | theorems: chains, types, disjoint lists, only nodes leak, `Fifos` is implemented | `Queue`, TLAPS |
| `Disk` | driver, serial line and server | instance of `BlockDevice` |
| `BlockDevice` | abstract: blocks | |
| `DiskProofs` | theorems: in step, causes of failure, `BlockDevice` is implemented | `Disk`, TLAPS |

### Processes

`mode` says who executes: `"usr"`, or the name of the call whose handler runs
with interrupts masked, or `"hung"`. The user's step (`fork`, `kill`, ...) is the
stub in `libc.c` up to the `svc` instruction: it loads `r0` and enters the
handler (`Svc`). The handler's step (`svc_fork`, `svc_kill`, ...) is one case of
the switch in `hilevel_handler_svc`. No step of another process can come between
the two, as no interrupt can: `mode` guards every other action.
`hilevel_handler_irq` is the timer, enabled in user mode.

`scheduler` is split as the code is: `Saved` copies the frame to `curr_prog`,
`Requeued` pushes it unless it is TERMINATED, `FirstReady` is the process the
loop stops at, `PushedBack` and `StacksAfter` say what the loop does with those
it pops on the way, `Dispatch` loads the new registers. With nobody READY the
loop never ends: `Spin` forgets the TERMINATED ones, stops at the last PCB popped
and goes to `"hung"`, where nothing is enabled, as in the machine.

A program is an image and what the kernel can tell apart of it: its stack
pointer, what its stack holds, `r0`, and whether it has just returned from fork
(`at`), since the child of a fork goes on to exec in both programs that fork.
`Uses` and `Loads` give the calls an image makes and the images its children
exec, so that a run may take the shipped programs or programs that do anything.
Addresses are counted downwards from `tos_P`: stack `id` holds the addresses
`StackSize * id + d`, the stack grows with `d`, and fork's
`sp - 0x1000 * (id' - id)` becomes an addition. An image, `cpsr`, `pc`, `lr`
and the other registers travel together in `prog`.

### Console and LibC

`Console` refines the user's side of `Processes` for one of its processes. `place`
is where `main_console` stands in its loop; each action runs from there to the next
call that another process could observe: a line is read (`gets`), split (`split`),
and becomes a fork (`execute`) or, token by token, a kill (`terminate_pid`,
`terminate_sig`, `terminate`). `execute_child` is the child's part, from the second
`strtok` to `exec`; it and `gets` interleave with everything else. A line is a verb
and its arguments, and `position` is strtok's: argument `k` of a line with that
verb, or NULL. If the line has changed under it, or `mkfifo` has taken a pipe's
name apart since, the token is text from the middle of something, which names no
program. `load` of that, or of an unknown name, is address 0. What happens then
(`ResetInUserMode`) is followed through the code: the reset vector, the reset
handler in user mode, a new queue and console, and the halt at the first privileged
instruction that user mode lacks. The other processes do what `Processes` lets
them, except that a waiter makes pipes, so that the kernel uses strtok.

`terminate` without a number makes `atoii` of NULL, which reads what lies at address 0,
the vector table. What the kernel's image has there is no numeral, but
no property rests on it: `AtZero` is that text, and the proofs hold for any.

With `Patient = TRUE` the user types when the last command is done: its child has
become a program, and a waiter has made its pipes. That is what a person at the
prompt does, a second or so being enough; with `Patient = FALSE` the same shell
executes the wrong program.

`LibC` has the two conversions as functions on character codes, with `Width` bits
to an integer: the loop of each is a recursive function, over the characters that
`atoii` reads (`r`) and over what is left of the number that `itoa` writes (`Numeral`).
That `atoii` undoes `itoa` on every integer, and that all but the least give numerals,
is proved for every `Width`; TLC evaluates it for that of the runs of `Console`.

### LowLevel and Programs

`LowLevel` is the machine: `Code` holds the handlers of `lolevel.s` and `int.s` in
the order of their instructions, and each kind of instruction is one action on
`cpu` and the stacks. The C functions between are instructions too: save lr, the
statements that matter in their order (`IAR`, `scheduler`, `IntClr`, `EOIR`), return. A frame
on a stack is a `ctx_t`, word for word; `scheduler` and the system calls read and
write it where it lies. An exception banks the status and the return address as
the processor does, so an address that is 4 off, a register that is not restored
or a frame left on the stack has its consequences. `tick`, `on` and `active` are
what the kernel sees of timer and interrupt controller.

`Programs` gives what is executed in user mode: `After(c)` is the context after one
instruction, where the functions of P3, P4 and P5 work on registers that any other
program uses too. A comparison sets the condition flags, and the branch that looks at
them is the next instruction, so that the timer may come between: the flags are part
of a context, and travel with the status word of a frame (`FlagsOf`, `WithFlags`). Of
the four flags the model has C and Z, which tell lower, higher and equal; P5 compares
its signed `i` with 50, for which lower means the same, as `i` is never negative.
Handlers leave other flags behind than they found (`JunkFlags`). P1 to P5 write in full; the console is reduced to forking and
executing the programs of a list, since `Console` has the rest. `Threads` is the
promise: threads with registers of their own, which change by `After` and by the
calls they make. The history variable `seen` holds the threads as the last
instruction in user mode left them, and is the refinement mapping.

`LowLevel` has its own short `svc_fork` and `Dispatch`, without stacks running out or
anybody killed; `Processes` has those in full.

### Pipes

`PipeTable` has for each call an operator with its effect on the array
(`svc_mkfifo`, ...) and one with its result (`mkfifoResult`, ...), because two
modules use them: `Pipes`, where anybody calls anything, and `Dining`, where two
programs do. The search by name and by descriptor is the code's: the first match.
A name is a value, with the number it begins with (`GroupOf`); a mode is the set
of bits of each category. `NamedPipes` promises of read what `libc.h` does: so many
bytes are taken from the channel, and their number is the result. The code breaks the promise
for the descriptors 0 to 2, which belong to no channel (section 5); `NamedPipes`
has these reads in an action of their own, `ReadStandard`, that promises only that
nothing else changes, so that `Pipes_calls` says what holds of all the others.

### Dining

One action is one system call of a program and the private computation up to the
next. `step` is the place of the waiter, `pc[p]` that of philosopher `p`. The
arithmetic on pids (`Seat`, `Forks`) is the waiter's. A message keeps its bytes:
the pid is written as four bytes and read as four bytes, which shows when reader
and writer fall out of step. With `Preempt = FALSE` no other process runs
between the two writes of a request.

### Queue

One heap of blocks for all queues; a block holds a queue structure, a node or an
item. `malloc` returns the lowest free block, so that blocks are used again as
soon as they can be; it is taken to succeed. `newQueue`'s two lost nodes and
`freeQueue`'s lost nodes stay allocated in the model too. `Walk` goes along a queue as
the loop of `freeQueue` does, from the head to NULL, and `Nodes` are the nodes it meets;
it has as many places as the heap can hold nodes with an item each.

### Disk

The driver's side has a place (`pc`), a loop counter and the call it works on;
requests are the fields the server finds in a line, answers are characters,
because the driver counts them. The server's exceptions (`Dies`) end it. `SignBit`
is the weight of the sign in an address, 2^31 in the code.

## 3. Runs

| run | instance | states | shows |
|---|---|---|---|
| `Console_shell` | the shell, P5, DP and its philosophers, a name that does not exist; 3 stacks, pids to 4, a patient user, timer fair | 67 000 | never hangs; commands do what they name; the prompt comes back; a child execs; nobody overtakes or starves; the dead stay dead and their stacks return |
| `Processes_memory` | programs that make any call, 2 stacks of 2 addresses, 2 values, pids to 3 | 468 000 | types, unique pids, exclusive stacks, stack pointers stay home, the dead stay dead, `VirtualCPUs` is implemented |
| `LowLevel_programs` | P3 beside P5, P4 beside the console, P1 beside P2; loops of a few turns | 115 000 | balanced stacks, right results, `Threads` is implemented, everybody runs |
| `Pipes_calls` | 2 callers, 2 names, 2 modes, descriptors to 5 | 6 200 | types, distinct names and descriptors, `NamedPipes` is implemented |
| `Dining_table` | 4 philosophers | 492 000 | neighbours exclusive, forks held, nobody eats twice in a row |
| `Dining_live` | 4 seats of which 3 are taken, as the last fork failed; fair | 25 000 | types and short pipes; somebody eats again and again |
| `Queue_lists` | 2 queues, 2 items, 10 blocks | 21 000 | disjoint lists, no unexpected leak, `Fifos` is implemented |
| `Disk_calls` | 2 blocks of 2 bytes, 4 addresses, 3 lengths, 3 faults a call | 61 000 | in step, fails only for cause, returns, `BlockDevice` is implemented |
| `Console_hurried` | the shell, user does not wait | violation | a child executes what a later line names |
| `Console_unknown` | the shell, an unknown name | violation | the child resets the kernel in user mode |
| `Processes_leak` | shipped programs, 2 stacks | violation | exit keeps its stack |
| `Dining_preempted` | 3 philosophers, requests split | violation | the waiter reads other bytes as a pid |

**Bounds, and why they are enough.** Three stacks give a running process and
two in the queue, so an order to get wrong; two suffice for sharing and
relocation, each with two addresses to tell the top from the rest. `MaxPid` stops
fork only; with 4 pids and 3 stacks stacks are used again by processes that
never met. Console: pid 3 can be terminated while it is running, waiting or gone,
pid 1 is the console itself; the names are those of a program, of the waiter and
of nothing; `Width = 8` holds every pid. LowLevel: P3 takes the
largest number of its range, all of whose bits must be counted; P4 has pairs
that are equal, that divide one another and that are coprime, with either the larger;
P5 meets an even number and the square 25; the timer may strike at any instruction once a
program has executed one since the last time. Pipes: two names and three descriptors allow a pipe to be unlinked
from the front, moved, and made again; all three categories of user appear because
one name has caller 2 for its group. A pipe holds up to two bytes and
reads ask for one or two, so that a read may find too few bytes, enough, or more. Dining: four seats are
the smallest table with philosophers that are not neighbours; three the smallest
the code's arithmetic makes sense for. Queue: ten blocks hold two queues with two
items between them or one with three, and freed blocks come back. Disk: three
faults a call are as many as there are tries; `SignBit = 8` puts address 9 beyond
the sign.

Deadlock is checked except where the system stops: programs that all exit
(`Processes_memory`), a child that resets the kernel (the runs of `Console`), a heap full of leaked nodes
(`Queue_lists`), a driver waiting for a dead server (`Disk_calls`).

**Fairness, and why the code justifies it.** The timer interrupt is strongly fair:
it is periodic, and stays pending while a handler has interrupts masked, so a
program that keeps returning to user mode is interrupted. Handlers are weakly
fair: nothing interrupts them. In `LowLevel` the processor goes on and the timer is
periodic (weak fairness of both), and from that `EveryoneRuns` says that each
waiting process executes instructions again; this is what `Console` assumes when the
console and its children are strongly fair. Its user may stop typing: `gets` is not
fair. `ChildrenExec` is about the time between fork and exec, in which the child is a second
console: a child that took the parent's branch, because fork gave it the parent's
result, would stay one. In `Dining` each process is strongly fair: that
the kernel gives each the processor again and again is `EventuallyRuns`, checked
of `Console` over `Processes`, and a process is held up in the model only while another is
between its two writes. In `Disk` the driver and the server run on.

## 4. Proofs

A theorem holds for every value of the constants that satisfies the assumption of
its module, which TLC evaluates in the runs.

| theorem | states | assumes |
|---|---|---|
| `TypeCorrect` | `Spec => []TypeOK` of `Processes` | `ConstantsAssumption` |
| `StackPointersInPlace` | `Spec => []SpInOwnStack` | |
| `PidsAreUnique` | `Spec => []PidsUnique` | |
| `StacksAreExclusive` | `Spec => []StacksExclusive` | |
| `TheDeadStayDead` | `Spec => DeadStayDead`, an action property | |
| `NobodyOvertakes` | `Spec => RoundRobin`, an action property | |
| `KernelImplementsVirtualCPUs` | `Spec => ImplementsVirtualCPUs` | |
| `ConsoleLives` | `ShellSpec => []ShellInv` of `Console` | `ConsoleAssumption`, `WidthAssumption` |
| `KernelNeverHangs` | `ShellSpec => []NeverHung` | |
| `ShellDeadStayDead` | `ShellSpec => DeadStayDead`, an action property | |
| `ShellRoundRobin` | `ShellSpec => RoundRobin`, an action property | |
| `CommandsRunTheirProgram` | `ShellSpec => RunsNamedProgram`, an action property | `Patient` |
| `CommandsTerminateTheirVictim` | `ShellSpec => TerminatesNumbered`, an action property | `Patient` |
| `ConversionsRight` | `RoundTrip /\ WritesNumerals` of `LibC` | `WidthAssumption` |
| `PipesTyping` | `Spec => []TypeOK` of `Pipes` | `NamesAssumption`, `CallsAssumption` |
| `PipesAreDistinct` | `Spec => []PipesDistinct` | |
| `PipesImplementNamedPipes` | `Spec => ImplementsNamedPipes` | |
| `LineInStep` | `Spec => []InStep` of `Disk` | `DiskAssumption`, `WholeBlocks` |
| `FailuresHaveCause` | `Spec => FailsForCause`, an action property | |
| `DiskImplementsBlockDevice` | `Spec => ImplementsBlockDevice` | |
| `StacksAreEmpty` | `Spec => []StacksEmpty` of `LowLevel` | |
| `LowLevelImplementsThreads` | `Spec => ImplementsThreads` | `ProgramsAssumption` |
| `ResultsAreRight` | `Spec => []ResultsRight` | |
| `TableTyping` | `Spec => []TypeOK` of `Dining` | `DiningAssumption`, `FirstAndWhole` |
| `ForksAreHeld` | `Spec => []ForksHeld` | |
| `NeighboursTakeTurns` | `Spec => []NeighboursExclusive` | |
| `NobodyEatsTwice` | `Spec => NotTwice`, an action property | |
| `PidsAreRead`, `RequestersAreAnswered` | `Spec => []ReadsPid`, `Spec => []AnswersRequester` | |
| `QueuesAreChains` | `Spec => []QueueInv` of `Queue` | `QueueAssumption` |
| `QueueTyping` | `Spec => []TypeOK` | |
| `QueuesAreDisjoint` | `Spec => []ListsDisjoint` | |
| `OnlyNodesLeak` | `Spec => LeaksOnlyNodes`, an action property | |
| `QueuesImplementFifos` | `Spec => ImplementsFifos` | |

### Processes

The invariant behind them is `Typed`, theorem `Typing`: `TypeOK`, `SpInOwnStack`
and `ExecLoads`. None of the three is inductive alone. `exec` moves `r0` to
`prog`, so the type of `ctx` needs `ExecLoads`: while exec is handled `r0` is a
program. The type of `ctx.sp` after fork is a natural number only because the
caller's sp lies in its own stack, so types need `SpInOwnStack`, which needs the
types in turn. The lemmas about addresses show the relocation: a point of stack
`s` moved by `StackSize * (t - s)` is the same point of stack `t`, and the stacks
do not overlap.

The scheduler's step is taken apart once (`RequeuedProperties`, `DispatchStep`,
`SpinStep`, `SchedulerStep`): every PCB in the new queue, and the new current
one, is one of those before, and different places come from different places.
Uniqueness of pids and exclusiveness of stacks both follow from that. For stacks
the point is that a stack is given back only with the PCB of the TERMINATED
process that held it, which is forgotten in the same step.

`TheDeadStayDead` needs no more than `Typed`: every PCB that is READY after a step,
and every one that is made current, was READY or current before, or is fork's child
(`SchedulerRevivesNobody`, `StepRevivesNobody`).

`NobodyOvertakes` says of every step what it does to the queue as a whole
(`Shifted`): it loses its first `d` places and gains at most one behind all others,
for somebody who was not queued. The order of two processes that stay is then kept
because pids are unique, and the one who gets the processor was behind nobody live
because the scheduler stops at the first READY process.

`KernelImplementsVirtualCPUs` has the initial condition and one lemma an action. What it
needs of a state is `Sound`: `Typed`, unique pids and exclusive stacks. By unique
pids the view of a process is found in one place, the live registers if it is current
or its only PCB (`ViewsInPlace`); by exclusive stacks a write of one process changes the
view of no other. A switch then leaves every view as it was, and is a stutter.

### Console

The shell is proved about as it is checked: as one of the processes of `Processes`, of
whose lemmas its proof makes use (`ShellSteps` sorts its steps into those of the kernel,
those that leave the processes alone, and the end of the machine, after which there is
nothing: `EndOfMachine`).

`ShellInv` says who is who. `Roles`: process 1 executes the console's image; whoever else
does is a child of it that has not used its registers since fork, and calls nothing but
exec; only the console is ever at a kill. `Alive`: the console is live. It stays so because
kill takes its victim from the queue, in which its caller is not (`KillTakes`), and
because the console makes no call to exit. With somebody live the scheduler finds
somebody (`SwitchStep`), hence `KernelNeverHangs`. That is what
`ConsoleAssumption` says of the shipped programs: no other kills, none starts a
console or a waiter by itself. Without it `NeverHung` is false: in `Processes`, where
any program may be killed by any other, the machine hangs.

`CommandInv` is about the one position of strtok. A command is `Busy` from the line to its
end, which for execute is the exec of the child it made: `Children` are those
that have not got there. While one is under way there is one child at most (`Command`), the position is
where `split` put it until somebody needs it, and the argument that the child or the
number will be made of is the line's (`TokenIsArg`). Nobody else moves the position
meanwhile, because no waiter has pipes left to make (`AllCalm`): a patient user saw to
that before the line, and no step but the end of the command makes a new waiter.
`KernelChildren` says that the kernel makes a child of the console when the console forks,
and at no other time. Then there is one lemma a step of the console and one for
everybody else's. `Patient` is a hypothesis of the two theorems about commands, and
`Console_hurried` shows that it is needed.

`ConversionsRight` is where the number killed becomes the number typed. What
a recursive function does is not for the provers, but each recursion is over numbers, of which
there would be a least with a counterexample (`LeastOf`): `LoopRuns` and
`NumeralRuns` show that the values of the two loops exist, `ValueOfAppend` what one more
character does to `atoii`, and `NumeralStep` that a number is written right if the number
without its last digit is. An int that overflows wraps (`Wraps`); the only
one that does is the absolute value of the least, twice.

### Pipes

`ArrayInvTyped` is inductive: types, descriptors from 3 up to the next one, and no two
pipes with one name or one descriptor. The bound on descriptors is what makes a new
one new. `Added`, `Removed` and `Requeued` say what `Append`, and the last pipe's move
into the hole, do to any array with that property; writes and reads change a queue
only. For the refinement the first match of a search is the only one, so that the
array is a function from descriptors to channels (`Channels`), whatever its order.
What read returns for a descriptor that is none is no part of the refinement.

### Disk

`LineInv` says what the line carries while the driver waits: the request, or the
whole answer to it, of a form that the first two characters announce, or nothing
if the server is dead; with it, how often the image has failed by then. `InStep` is
about the time between calls only and says nothing of a call under way, so it is
not inductive. The theorems assume `WholeBlocks`: reads ask for `BlockLen` bytes, as
`disk.h` asks of the caller. Otherwise the rest of an answer stays on the line.

### LowLevel

`StacksEmpty` is about user mode only, and needs the whole of what a handler does
between. `Balanced` is a table over the instructions of the handlers: the mode each is
executed in, the number of words on its stack (`Height`), where the status of the
interrupted program lies meanwhile (`Place`: spsr, r0 or the stack), and where the C
function returns to (`ReturnFrom`, `Link`). `Sites` reads the same addresses off the code; one
lemma an action shows that it leads from a row of the table to the next. The
status matters because the last instruction restores it: only if it is that of user mode is
the handler's end the user's next instruction. A status is known up to its condition flags
(`Statuses`), which handlers and programs change all the time. No assumption on the programs is
needed but that they are those of `Programs`: `After` changes registers.

`LowLevelImplementsThreads` compares with what was last seen in user mode, several
handler instructions ago. Its invariant `Traced`, on top of `Balanced`, says for each
instruction of the handlers where the interrupted program's registers are just now:
in the processor (`Regs`), stored on the mode's stack without the rest of the frame
(`Stored`), or in a frame (`Framed`); `Mine` is the one of the three that the instruction's
address calls for. The registers include the flags, which travel with the status. Before the kernel has served the program, these registers, with
those of the other processes in their frames, are exactly what was seen (`Finds`, which also
follows the number of a system call from the instruction that made it to r1); from then on
they are one step of `Threads` away from it (`Leaves`), and the step is due at the return to
user mode; before the first process there is nothing (`Starting`). `Marked` reads off the
code how each instruction moves the registers and whether it serves; one lemma an action
(`..._Traced`) shows that it leads from one row to the next. Two facts about the rest
complete it. Programs stay in their code and keep their stack pointer (`Sound`), so
the saved pc is one of which `Threads` knows what follows; `ProgramsAssumption` is
needed here, since the console loads the entry point of a command for every child.
And pids are unique and below the next one (`Numbered`), so that a child is a new
thread and the frames of the queue are those of all threads but the running.
`Threads` has its own copy of `Programs`, whose operators are shown the same (`SamePrograms`).

`ResultsAreRight` rests on that. A right result at the return of a function says
nothing of the loop inside, so the invariant (`AllRight`, on top of `Traced`) says of
every thread how far its function is: `weight` has the argument after so many stages
(`Weighing`), `gcd` two numbers with the same common divisors as its arguments
(`Dividing`), `is_prime` no divisor below the next candidate (`Testing`); in each the
arguments are still in the registers of the loop that called. Between a comparison and its
branch the flags say what was compared, and the invariant what they mean: that is where a
flag lost to the timer would be noticed. It is an invariant of
`Threads`, so to speak: what is seen changes by instructions of programs
(`AfterComputes`) and by calls, none of which is made in the middle of a function
(`ServesRight`). Registers on a mode's stack or in a frame come into it only through
`Traced`, which says whose they are.

That the functions are right is arithmetic, at the end of `LowLevelProofs`. `And` is a
recursive function on pairs of numbers; it exists and is unique because there is a
least counterexample otherwise (`AndRuns`, `AndUnique`), and takes its arguments apart bit by bit
(`AndOfBits`) and so field by field (`Splits`). A stage of `weight` therefore works on
the two halves of a number separately (`Apart`, `Separates`), and if the stages
before have counted the bits of numbers of n bits, one more counts those of 2n
(`StageCounts`): five make 32 (`WeightRight`). `Subtracted` is the step of gcd. For
primality (`PrimeStep`), an even candidate needs no trial because the argument is odd, and
with `d * d > a` one of any two factors would have been tried.

### Dining

The theorems assume `FirstAndWhole`: the first philosopher has pid 3, because the
waiter finds forks and pipes by pid - 3, and the two writes of a request are not
separated by the timer. Section 5 says what happens otherwise; `PidsAreRead` and
`RequestersAreAnswered` say that nothing else goes wrong. The size of the table and the
number of children that fork could make are arbitrary, as long as a pid is an int
(`DiningAssumption`).

`ForksHeld` is about philosophers that eat or have a yes to read, and says nothing
of the requests under way, on which the next decision depends. `TableInv` says that
there is a sequence `ms` of messages (a pid and what it wants) whose bytes are those
in the waiter's pipe, less the four of a pid it has just read, and plus the four of
one whose second write is to come (`Carries`). Of these messages `Protocol` says that each
philosopher has at most two: first one that puts forks down, which are still its in the
waiter's table, then one that asks for them, whose sender waits; that a philosopher with a
request on its way has no answer to read; and that a yes, on its way or read, goes
with the forks. So what the waiter takes from one philosopher is never another's:
forks are granted that nobody has, and come back from the one who holds them.

The rest of the invariant is what makes this apply: every pipe was made by the waiter
with its rights, names and descriptors are unique (`PipesMade`), the waiter has opened
what its loops have passed (`SetUp`), a philosopher has opened what its place needs
(`PlaceOf`). Four lemmas say that the bytes written are the message read (`PidWritten`,
`SigWritten`, `PidRead`, `SigRead`), four what a call does to one queue (`MkfifoMakes`,
`OpenFinds`, `WriteAdds`, `ReadTakes`); then there is one lemma an action. `TableTyping`
counts: messages have different slots, two for each philosopher, one of which is free
while it writes.

### Queue

`QueueInv` says that every queue is a chain along its nodes: the head leads to the
first, `previous` from each to the next, the last one's is NULL and the tail leads to
it (`Linkage`), no block serves twice in it (`Apart`), and the blocks of two queues are
disjoint. `TypeOK` and `ListsDisjoint` follow from it (`Shape`) and are not inductive
without it: neither says that the tail is where the links end, on which push depends.

What a walk along links finds is by induction over the list. The induction is made
once: `Walked` says that if some sequence is a chain in a heap, the walk finds that
sequence, since otherwise there is a least place (`Least`) where the two differ. `Counted`
bounds the chain, whose nodes and items are different blocks, by half the heap, so
that the walk reaches its end; `NodesFound` puts the two together. The steps then
never speak of walks, only of chains: `Pushed` and `Popped` name the new one, the old one
with a node at the end or without its first, and show that it is linked; `Untouched` says
that a heap that agrees on a queue's blocks leaves it a chain. `FreshBlocks` shows that
successive calls of `malloc` give different free blocks. `PushStep` to `FreeStep` then
show of each call that the invariant, the leaks and the step of `Fifos` come out right.

### Only model-checked

Liveness (`EventuallyRuns`, `KilledStackFreed`, `ConsoleComesBack`,
`ChildrenExec`, `EveryoneRuns`, `SomebodyEats`, `EveryCallReturns`) is out of the proof
system's reach. Every invariant and every safety property of the steps that a run
checks is also proved.

## 5. What does not hold

Those that name no run fail in every behaviour that comes to the call, so that there is
nothing to search for.

- **exit leaks its stack** (`Processes_leak`): `scheduler` gives back the stacks
  of TERMINATED processes it pops, and one that exits is never pushed. After 17
  exits fork fails with an empty queue.
- **A request may be torn** (`Dining_preempted`) by the timer between its two
  writes; the waiter is out of step from then on.
- **execute of an unknown name ends the machine** (`Console_unknown`): the child
  executes address 0, the reset vector, and takes the kernel with it.
- **execute may execute what a later line names** (`Console_hurried`): strtok's
  position is in the console's line, and the child looks there after the console
  may have read the next.
- **The table works only as the shell's first command**: forks and answers are
  found by pid - 3. `AnswersRequester` of `Dining` states what is expected; with any
  other `FirstPid` it fails at the first request, so no run searches for it.
- **The table cannot be started again**: nothing unlinks `-1/waiterpipe`, and its
  owner is the pid of the dead waiter. The new waiter's `mkfifo` and `open` fail,
  unchecked, at its first calls.
- **yield and nice do nothing**: the switch has no case for them, while
  `libc.h` has yield invoke the scheduler. A process that yields is, to `VirtualCPUs`, one
  that goes on; that is why the refinement does not notice. `marksheet.txt` claims a
  priority-based scheduler; no priority is read.
- **read on a standard descriptor returns the descriptor**, 1 or 2 for no byte read, where
  `libc.h` says that it returns the bytes read. No shipped program reads from one.
- **An address with the sign bit kills the disk's server**, and leaves the
  driver waiting, where `disk.py` says that the request fails. `EveryCallReturns`
  excepts exactly this and an empty write.

## 6. What is not modelled

- The heap's size: allocations succeed. That `malloc` is interrupted half way and
  entered again by a handler is listed as a hazard.
- Text: what programs print, the characters of a line beyond verb and arguments, a
  line of 1024 characters without an end, the memory that names of pipes lie in.
- The full ranges of P3 to P5's loops, which are constants of `Programs`.
- The three functions of `int.s` that nobody calls; an interrupt between
  `int_enable_irq` and the end of the reset handler, a matter of a few instructions in
  a first period of 2^20 ticks: in IRQ mode it would overwrite the return address.
- Device registers other than the lines above; keyboard, LCD and MMU, which the
  kernel does not use.
- `philosopherold.c`, which no program loads.

## 7. Plan

1. `Kernel`: `Processes` and `PipeTable` in one state machine, so that pipes are
   owned by pids that die.
