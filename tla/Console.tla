------------------------------ MODULE Console ------------------------------
(***************************************************************************)
(* The shell, user/console.c, as one of the processes of Processes: lines  *)
(* that a user types, strtok, fork and exec of the program named, kill of  *)
(* the process numbered; beside it the programs it starts, of which the    *)
(* waiter forks and makes pipes.                                           *)
(*                                                                         *)
(* There is one strtok for everybody.  Its position, a static variable, is *)
(* set by the console, used by the children of the console, and used again *)
(* by the kernel: mkfifo splits the name of a pipe with it.  The position  *)
(* points into the console's line x, of which the children of the console  *)
(* have copies that strtok does not know.                                  *)
(***************************************************************************)
EXTENDS ProcessesProperties, LibC

CONSTANTS
  Lines,    \* what the user may type: a verb and arguments, which are strings
  Patient,  \* the user waits for the prompt and for the command to be done
  Linked,   \* Linked[name]: the program image that load finds under a name
  NoImage,  \* what is at address 0, taken for a program
  AtZero,   \* what is at address 0, taken for a string: the vector table
  Waiter,   \* the image of the program DP
  Mkfifos   \* the calls of mkfifo a waiter makes (17)

\* Of the shipped programs only the console kills, and only it starts a waiter; the
\* waiter execs philosophers.
ASSUME ConsoleAssumption ==
  /\ NoImage \in Programs /\ NoImage # Console
  /\ Waiter \in Programs \ {Console, NoImage}
  /\ \A name \in DOMAIN Linked : Linked[name] \in Programs \ {Console, NoImage}
  /\ \A p \in {Console, NoImage} : Uses[p] = {} /\ Loads[p] = {}
  /\ \A p \in Programs : "kill" \notin Uses[p] /\ {Console, Waiter} \cap Loads[p] = {}
  /\ Lines \subseteq [verb : STRING, args : Seq(Seq(Int) \ {<<>>})]
  /\ AtZero \in Seq(Int) /\ {<<>>, AtZero} \cap DOMAIN Linked = {}
  /\ Patient \in BOOLEAN /\ Mkfifos \in Nat

VARIABLES
  place,    \* what the console does next
  x,        \* its line
  position, \* strtok's: where the next token begins
  num,      \* the pid to terminate
  asked,    \* asked[p]: the name execute was given for process p, until p has used
            \* its own (history)
  mkfifos   \* mkfifos[p]: the calls of mkfifo process p has still to make

shell == <<place, x, num, asked>>
cvars == <<vars, shell, position, mkfifos>>

ShellInit ==
  /\ Init
  /\ place = "gets" /\ x = [verb |-> "", args |-> <<>>] /\ num = 0
  /\ position = [verb |-> "", k |-> 0]
  /\ asked = [p \in 1 .. MaxPid |-> <<>>]
  /\ mkfifos = [p \in 1 .. MaxPid |-> Mkfifos]

(***************************************************************************)
(* strtok.  A position is that of argument k in a line that begins with    *)
(* this verb, and k = 0 is NULL.  If the line has changed since, or the    *)
(* kernel has used strtok, the position is in the middle of something.     *)
(* A token is never the empty string, which stands for NULL here; whoever  *)
(* takes NULL for a string reads the text at address 0.                    *)
(***************************************************************************)
Nowhere == [verb |-> "", k |-> 0]
NULL    == <<>>
Middle  == <<63>>

Text(p) == IF p = NULL THEN AtZero ELSE p

\* Mutant of First: a token is passed over.
First_SkipsToken(line) ==
  IF Len(line.args) < 2 THEN Nowhere ELSE [verb |-> line.verb, k |-> 2]

First(line) == IF line.args = <<>> THEN Nowhere ELSE [verb |-> line.verb, k |-> 1]

Token ==
  CASE position = Nowhere -> NULL
    [] position # Nowhere /\ position.verb # x.verb -> Middle
    [] position # Nowhere /\ position.verb = x.verb ->
         IF position.k \in DOMAIN x.args THEN x.args[position.k] ELSE NULL

\* Where the call that returns Token leaves the position.
PastToken ==
  IF position.verb = x.verb /\ position.k + 1 \in DOMAIN x.args
  THEN [position EXCEPT !.k = @ + 1]
  ELSE Nowhere

load(name) == IF name \in DOMAIN Linked THEN Linked[name] ELSE NoImage

(***************************************************************************)
(* main_console.                                                           *)
(***************************************************************************)
InConsole(at) == mode = "usr" /\ ctx.prog = Console /\ ~IsChild /\ place = at

\* A child of the console, in the queue, that has not yet read which program it is to be.
Pending(p) == p.ctx.prog = Console /\ p.ctx.at = "fork" /\ p.ctx.r0 = 0

\* Nothing of the last command is left to do: its child has become a program, and
\* a waiter has made its pipes.
Done ==
  /\ \A i \in DOMAIN queue : ~Pending(queue[i])
  /\ \A i \in DOMAIN queue : queue[i].ctx.prog = Waiter => mkfifos[queue[i].pid] = 0

\* gets returns a line; execute stops when the model runs out of pids.
gets ==
  /\ InConsole("gets")
  /\ Patient => Done
  /\ x' \in {line \in Lines : line.verb = "execute" => curr_pid <= MaxPid}
  /\ place' = "split"
  /\ UNCHANGED <<vars, position, num, asked, mkfifos>>

split ==
  /\ InConsole("split")
  /\ position' = First(x)
  /\ place' = CASE x.verb = "execute" -> "fork" [] x.verb = "terminate" -> "pid" [] OTHER -> "gets"
  /\ UNCHANGED <<vars, x, num, asked, mkfifos>>

\* Mutant of execute: the parent stays where it is.
execute_Stays ==
  /\ InConsole("fork")
  /\ Svc("fork", ctx.r0)
  /\ asked' = [asked EXCEPT ![curr_pid] = IF x.args = <<>> THEN NULL ELSE x.args[1]]
  /\ UNCHANGED <<place, x, position, num, mkfifos>>

\* execute: the parent goes on with its loop, whether fork succeeds or not.
execute ==
  /\ InConsole("fork")
  /\ Svc("fork", ctx.r0)
  /\ asked' = [asked EXCEPT ![curr_pid] = IF x.args = <<>> THEN NULL ELSE x.args[1]]
  /\ place' = "gets"
  /\ UNCHANGED <<x, position, num, mkfifos>>

\* The child: from strtok to svc in one step.
execute_child ==
  /\ IsChild /\ ctx.prog = Console
  /\ Svc("exec", load(Text(Token)))
  /\ position' = PastToken
  /\ asked' = [asked EXCEPT ![curr_prog.pid] = NULL]
  /\ UNCHANGED <<place, x, num, mkfifos>>

terminate_pid ==
  /\ InConsole("pid")
  /\ num' = atoii(Text(Token)) /\ position' = PastToken
  /\ place' = "sig"
  /\ UNCHANGED <<vars, x, asked, mkfifos>>

\* Mutant of terminate_sig: what it converts replaces the pid.
terminate_sig_IntoPid ==
  /\ InConsole("sig")
  /\ num' = atoii(Text(Token)) /\ position' = PastToken
  /\ place' = "kill"
  /\ UNCHANGED <<vars, x, asked, mkfifos>>

\* The signal is converted too, and the kernel does not look at it.
terminate_sig ==
  /\ InConsole("sig")
  /\ position' = PastToken
  /\ place' = "kill"
  /\ UNCHANGED <<vars, x, num, asked, mkfifos>>

terminate ==
  /\ InConsole("kill")
  /\ Svc("kill", num)
  /\ num' = 0
  /\ place' = "gets"
  /\ UNCHANGED <<x, position, asked, mkfifos>>

(***************************************************************************)
(* The other programs.                                                     *)
(***************************************************************************)
\* What Processes says of them; the last pid is kept for the console.
Program ==
  /\ User
  /\ mode' = "fork" => curr_pid < MaxPid
  /\ UNCHANGED <<shell, position, mkfifos>>

\* The waiter makes a pipe, unless one of that name exists, and the kernel takes
\* the name apart (call and handler in one step, which nothing can separate).
mkfifo ==
  /\ mode = "usr" /\ ctx.prog = Waiter /\ ~IsChild
  /\ mkfifos[curr_prog.pid] > 0
  /\ mkfifos' = [mkfifos EXCEPT ![curr_prog.pid] = @ - 1]
  /\ \/ ctx' = [ctx EXCEPT !.at = "run", !.r0 = 0]
        /\ position' = [verb |-> "mkfifo", k |-> 1]
     \/ ctx' = [ctx EXCEPT !.at = "run", !.r0 = -1] /\ UNCHANGED position
  /\ UNCHANGED <<curr_pid, curr_prog, queue, fullStacks, stack, mode, shell>>

\* A child that executes address 0 runs the reset vector, in user mode: the kernel
\* starts again, with a new queue and a new console, up to the first instruction
\* that user mode does not have (msr spsr), whose vector is a loop that ends it all.
ResetInUserMode ==
  /\ mode = "usr" /\ ctx.prog = NoImage
  /\ queue' = <<>>
  /\ \E s \in StackIds \cup {-1} :
       /\ IF memStackAvailable THEN s \in StackIds /\ IsFreeStack(s) ELSE s = -1
       /\ fullStacks' = [i \in StackIds |-> fullStacks[i] \/ i = s]
       /\ curr_prog' = [create_process(curr_pid, Console, s) EXCEPT !.status = "EXECUTING"]
  /\ curr_pid' = curr_pid + 1
  /\ mode' = "und"
  /\ UNCHANGED <<ctx, stack, shell, position, mkfifos>>

Kernel == (hilevel_handler_irq \/ hilevel_handler_svc) /\ UNCHANGED <<shell, position, mkfifos>>

ConsoleStep == split \/ execute \/ terminate_pid \/ terminate_sig \/ terminate

ShellNext ==
  \/ gets \/ ConsoleStep \/ execute_child \/ Program \/ mkfifo \/ ResetInUserMode \/ Kernel

ShellSpec == ShellInit /\ [][ShellNext]_cvars

\* As in Processes; and whoever gets the processor executes instructions before
\* the timer takes it away again (EveryoneRuns of LowLevel).  The user may stop
\* typing.
ShellFairSpec ==
  /\ ShellSpec
  /\ SF_cvars(hilevel_handler_irq /\ UNCHANGED <<shell, position, mkfifos>>)
  /\ WF_cvars(hilevel_handler_svc /\ UNCHANGED <<shell, position, mkfifos>>)
  /\ SF_cvars(ConsoleStep) /\ SF_cvars(execute_child)

-----------------------------------------------------------------------------
\* execute runs the program it names, console.c:79-85: whatever the timer does
\* between the line, the fork and the child's use of strtok, the child of the
\* command becomes the program that the line named.
RunsNamedProgram ==
  [][\A name \in DOMAIN Linked :
       mode = "usr" /\ mode' = "exec" /\ ctx.prog = Console /\ asked[curr_prog.pid] = name
         => ctx'.r0 = Linked[name]]_cvars

\* terminate stops the process whose pid it is given, if that is in the queue, and
\* no other, console.c:87-96; the answer says so.  The console itself cannot be.
TerminatesNumbered ==
  [][\A victim \in Ints \cap Nat :
       mode = "kill" /\ mode' = "usr" /\ x.args # <<>> /\ x.args[1] = itoa(victim) =>
         /\ LivePids' = LivePids \ ({victim} \ {curr_prog.pid})
         /\ ctx'.r0 = 1 <=> victim \in Queued]_cvars

\* The console comes back to its prompt after every line.
ConsoleComesBack == place # "gets" ~> (place = "gets" \/ mode = "und")

\* Some live process but the first runs the console's code.
Copy ==
  \/ curr_prog.pid # 1 /\ ctx.prog = Console
  \/ \E i \in DOMAIN queue :
       queue[i].pid # 1 /\ queue[i].status = "READY" /\ queue[i].ctx.prog = Console

\* The child of a command becomes a program, console.c:78-81: no process but the
\* first goes on as a console, unless it is killed before.
ChildrenExec == Copy ~> ~Copy

\* The stack of a killed process comes back to fork (0 is the console's).
KilledStackFreed ==
  \A s \in StackIds \ {0} :
    (\E i \in DOMAIN queue : queue[i].status = "TERMINATED" /\ queue[i].stack_id = s)
      ~> (~fullStacks[s] \/ mode = "und")

(***************************************************************************)
(* What comments of the repository say, and the code does not do.          *)
(***************************************************************************)
\* console.c:78-81: "the parent (i.e., the console) will continue as normal",
\* whatever name execute is given.
ConsoleContinues == mode # "und"
=============================================================================
