------------------------------- MODULE Dining -------------------------------
(***************************************************************************)
(* The dining philosophers of user/waiter.c and user/philosopher.c: the    *)
(* waiter and its children, processes that share no memory and talk over   *)
(* the kernel's pipes.  Every philosopher has a pipe of its own for        *)
(* answers, named after its pid; all of them write to the pipe of the      *)
(* waiter.  A request is the 4 bytes of a pid, then one more byte: 1 to    *)
(* pick up two forks, 0 to put them down.                                  *)
(*                                                                         *)
(* One action is one system call with the private computation after it.    *)
(* A philosopher's two writes of a request may be separated by the timer   *)
(* interrupt if Preempt holds; otherwise the model keeps them together.    *)
(***************************************************************************)
EXTENDS Integers, Sequences

CONSTANTS
  PHILOSOPHERS,  \* their number (16)
  Forked,        \* how many calls of fork find a free stack
  FirstPid,      \* the pid of the first one: 3 if DP is the shell's first command
  Preempt        \* a philosopher may be preempted between the writes of a request

ASSUME DiningAssumption ==
  /\ PHILOSOPHERS \in Nat /\ PHILOSOPHERS >= 3
  /\ Forked \in 0 .. PHILOSOPHERS
  /\ FirstPid \in Nat /\ FirstPid >= 3
  /\ (FirstPid + PHILOSOPHERS) \div 256 ^ 3 < 128  \* pids are ints
  /\ Preempt \in BOOLEAN

VARIABLES
  pipes, currFd,                   \* the kernel's pipes
  step,                            \* where the waiter is: a call and a counter
  philosophers, philosopherFds,    \* the waiter's arrays: pids, descriptors
  whoHasFork, lastEater,
  waiterReadFd, requestingPid, sig,
  pc, readFd, writeFd, state       \* of every philosopher

waiterVars == <<step, philosophers, philosopherFds, whoHasFork, lastEater,
                waiterReadFd, requestingPid, sig>>
philosopherVars == <<pc, readFd, writeFd, state>>
pipeVars == <<pipes, currFd>>
vars == <<pipeVars, waiterVars, philosopherVars>>

Waiter  == FirstPid - 1
Seats   == 0 .. PHILOSOPHERS - 1
Hungry  == FirstPid .. FirstPid + Forked - 1   \* the pids of the children

\* A name is the number it starts with and the rest: "3/pipe" is <<3, "pipe">>.
PipeOf(pid) == <<pid, "pipe">>
WaiterPipe  == <<-1, "waiterpipe">>
PipeNames   == {PipeOf(pid) : pid \in Hungry \cup {-1}} \cup {WaiterPipe}
Byte == 0 .. 255

INSTANCE PipeTable WITH
  Names <- PipeNames, GroupOf <- [name \in PipeNames |-> name[1]], Bytes <- Byte

\* The modes the waiter gives: 0240 and 0402.
AnswerMode  == [user \in 0 .. 2 |-> CASE user = 2 -> {2} [] user = 1 -> {4} [] OTHER -> {}]
RequestMode == [user \in 0 .. 2 |-> CASE user = 2 -> {4} [] user = 1 -> {} [] OTHER -> {2}]

\* An int in memory, least significant byte first, and the int that bytes read
\* into cleared memory make (32 bits; no pid here sets the sign).
IntBytes(n) == [k \in 1 .. 4 |-> (n \div 256 ^ (k - 1)) % 256]
IntOf(b) ==
  LET byte(k) == IF k <= Len(b) THEN b[k] ELSE 0
  IN byte(1) + 256 * (byte(2) + 256 * (byte(3) + 256 * byte(4)))

Init ==
  /\ PipesInit
  /\ step = <<"fork", 0>>
  /\ philosophers = [i \in Seats |-> 0] /\ philosopherFds = [i \in Seats |-> 0]
  /\ whoHasFork = [i \in Seats |-> -1] /\ lastEater = -1
  /\ waiterReadFd = 0 /\ requestingPid = 0 /\ sig = 0
  /\ pc = [p \in Hungry |-> "unborn"]
  /\ readFd = [p \in Hungry |-> -1] /\ writeFd = [p \in Hungry |-> -1]
  /\ state = [p \in Hungry |-> 0]

(***************************************************************************)
(* philosopher().                                                          *)
(***************************************************************************)
\* open the pipe of its answers, again and again until it succeeds
open_read(p) ==
  /\ pc[p] = "open_read"
  /\ readFd' = [readFd EXCEPT ![p] = openResult(p, PipeOf(p), O_RDONLY)]
  /\ pc' = [pc EXCEPT ![p] = IF readFd'[p] = -1 THEN @ ELSE "open_write"]
  /\ UNCHANGED <<pipeVars, waiterVars, writeFd, state>>

\* open the pipe of the waiter, in the same way
open_write(p) ==
  /\ pc[p] = "open_write"
  /\ writeFd' = [writeFd EXCEPT ![p] = openResult(p, WaiterPipe, O_WRONLY)]
  /\ pc' = [pc EXCEPT ![p] = IF writeFd'[p] = -1 THEN @ ELSE "read"]
  /\ UNCHANGED <<pipeVars, waiterVars, readFd, state>>

\* any replies?  The state is the last answer: 0 to think, 1 to eat; it is 2
\* while there is none.
read_reply(p) ==
  /\ pc[p] = "read"
  /\ svc_read(p, readFd[p], 1)
  /\ state' = [state EXCEPT ![p] =
       IF readResult(p, readFd[p], 1) > 0 THEN readBytes(p, readFd[p], 1)[1] ELSE @]
  /\ pc' = [pc EXCEPT ![p] = IF state'[p] \in {0, 1} THEN "write_pid" ELSE @]
  /\ UNCHANGED <<waiterVars, readFd, writeFd>>

write_pid(p) ==
  /\ pc[p] = "write_pid"
  /\ svc_write(p, writeFd[p], IntBytes(p))
  /\ pc' = [pc EXCEPT ![p] = "write_sig"]
  /\ UNCHANGED <<waiterVars, readFd, writeFd, state>>

\* Mutant of write_sig: having asked, it does not wait for the answer.
write_sig_NoWait(p) ==
  /\ pc[p] = "write_sig"
  /\ svc_write(p, writeFd[p], <<1 - state[p]>>)
  /\ state' = [state EXCEPT ![p] = 0]
  /\ pc' = [pc EXCEPT ![p] = "read"]
  /\ UNCHANGED <<waiterVars, readFd, writeFd>>

\* thinking: ask for the forks, and wait; eating: put them down
write_sig(p) ==
  /\ pc[p] = "write_sig"
  /\ svc_write(p, writeFd[p], <<1 - state[p]>>)
  /\ state' = [state EXCEPT ![p] = IF @ = 0 THEN 2 ELSE 0]
  /\ pc' = [pc EXCEPT ![p] = "read"]
  /\ UNCHANGED <<waiterVars, readFd, writeFd>>

Between(p) == pc[p] = "write_sig"

philosopher(p) ==
  /\ Preempt \/ \A q \in Hungry \ {p} : ~Between(q)
  /\ open_read(p) \/ open_write(p) \/ read_reply(p) \/ write_pid(p) \/ write_sig(p)

(***************************************************************************)
(* waiter().                                                               *)
(***************************************************************************)
\* What follows call `at` for seat i of a loop over the seats.
NextSeat(at, i, then) == IF i + 1 < PHILOSOPHERS THEN <<at, i + 1>> ELSE <<then, 0>>

\* fork: the child goes on as a philosopher; a failure is only reported
waiter_fork ==
  /\ step[1] = "fork"
  /\ LET i == step[2]
         pid == IF i < Forked THEN FirstPid + i ELSE -1 IN
     /\ philosophers' = [philosophers EXCEPT ![i] = pid]
     /\ pc' = IF pid = -1 THEN pc ELSE [pc EXCEPT ![pid] = "open_read"]
     /\ step' = NextSeat("fork", i, "mkfifo")
  /\ UNCHANGED <<pipeVars, philosopherFds, whoHasFork, lastEater, waiterReadFd,
                 requestingPid, sig, readFd, writeFd, state>>

waiter_mkfifo ==
  /\ step[1] = "mkfifo"
  /\ svc_mkfifo(Waiter, PipeOf(philosophers[step[2]]), AnswerMode)
  /\ step' = <<"open", step[2]>>
  /\ UNCHANGED <<philosophers, philosopherFds, whoHasFork, lastEater, waiterReadFd,
                 requestingPid, sig, philosopherVars>>

waiter_open ==
  /\ step[1] = "open"
  /\ LET i == step[2] IN
     /\ philosopherFds' = [philosopherFds EXCEPT ![i] =
                             openResult(Waiter, PipeOf(philosophers[i]), O_WRONLY)]
     /\ step' = NextSeat("mkfifo", i, "mkfifo_public")
  /\ UNCHANGED <<pipeVars, philosophers, whoHasFork, lastEater, waiterReadFd,
                 requestingPid, sig, philosopherVars>>

waiter_mkfifo_public ==
  /\ step[1] = "mkfifo_public"
  /\ svc_mkfifo(Waiter, WaiterPipe, RequestMode)
  /\ step' = <<"open_public", 0>>
  /\ UNCHANGED <<philosophers, philosopherFds, whoHasFork, lastEater, waiterReadFd,
                 requestingPid, sig, philosopherVars>>

waiter_open_public ==
  /\ step[1] = "open_public"
  /\ waiterReadFd' = openResult(Waiter, WaiterPipe, O_RDONLY)
  /\ step' = <<"read_pid", 0>>
  /\ UNCHANGED <<pipeVars, philosophers, philosopherFds, whoHasFork, lastEater,
                 requestingPid, sig, philosopherVars>>

waiter_read_pid ==
  /\ step[1] = "read_pid"
  /\ svc_read(Waiter, waiterReadFd, 4)
  /\ requestingPid' = IntOf(readBytes(Waiter, waiterReadFd, 4))
  /\ step' = IF readResult(Waiter, waiterReadFd, 4) > 0 THEN <<"read_sig", 0>> ELSE step
  /\ UNCHANGED <<philosophers, philosopherFds, whoHasFork, lastEater, waiterReadFd, sig,
                 philosopherVars>>

\* The seat of a pid, from which its forks and its answers' pipe are found.
Seat(pid)  == (pid - 3 + PHILOSOPHERS) % PHILOSOPHERS
Forks(pid) == {Seat(pid), (pid - 2 + PHILOSOPHERS) % PHILOSOPHERS}

\* Mutants of Grants: one fork is enough; whoever ate last may eat again.
Grants_OneFork(pid) == whoHasFork[Seat(pid)] = -1 /\ lastEater # pid
Grants_Again(pid) == \A f \in Forks(pid) : whoHasFork[f] = -1

Grants(pid) == (\A f \in Forks(pid) : whoHasFork[f] = -1) /\ lastEater # pid

\* Mutants of PutDown: only one of the forks comes back; the next two do.
PutDown_OneFork(pid) == whoHasFork' = [whoHasFork EXCEPT ![Seat(pid)] = -1]
PutDown_OffByOne(pid) ==
  whoHasFork' = [f \in Seats |-> IF f \in Forks(pid + 1) THEN -1 ELSE whoHasFork[f]]

PutDown(pid) ==
  whoHasFork' = [f \in Seats |-> IF f \in Forks(pid) THEN -1 ELSE whoHasFork[f]]

\* Read what the process wants, and decide.
waiter_read_sig ==
  /\ step[1] = "read_sig"
  /\ svc_read(Waiter, waiterReadFd, 1)
  /\ LET got == IntOf(readBytes(Waiter, waiterReadFd, 1)) IN
     \/ /\ readResult(Waiter, waiterReadFd, 1) > 0 /\ got = 1
        /\ sig' = IF Grants(requestingPid) THEN 1 ELSE 0
        /\ whoHasFork' = [f \in Seats |-> IF sig' = 1 /\ f \in Forks(requestingPid)
                                           THEN requestingPid ELSE whoHasFork[f]]
        /\ step' = <<"reply", 0>>
        /\ UNCHANGED lastEater
     \/ /\ readResult(Waiter, waiterReadFd, 1) > 0 /\ got = 0
        /\ sig' = got /\ PutDown(requestingPid) /\ lastEater' = requestingPid
        /\ step' = <<"read_pid", 0>>
     \/ /\ readResult(Waiter, waiterReadFd, 1) <= 0 \/ got \notin {0, 1}
        /\ sig' = got /\ step' = <<"read_pid", 0>>
        /\ UNCHANGED <<whoHasFork, lastEater>>
  /\ UNCHANGED <<philosophers, philosopherFds, waiterReadFd, requestingPid,
                 philosopherVars>>

waiter_reply ==
  /\ step[1] = "reply"
  /\ svc_write(Waiter, philosopherFds[Seat(requestingPid)], <<sig>>)
  /\ step' = <<"read_pid", 0>>
  /\ UNCHANGED <<philosophers, philosopherFds, whoHasFork, lastEater, waiterReadFd,
                 requestingPid, sig, philosopherVars>>

waiter ==
  /\ Preempt \/ \A q \in Hungry : ~Between(q)
  /\ \/ waiter_fork \/ waiter_mkfifo \/ waiter_open
     \/ waiter_mkfifo_public \/ waiter_open_public
     \/ waiter_read_pid \/ waiter_read_sig \/ waiter_reply

Next == waiter \/ \E p \in Hungry : philosopher(p)

Spec == Init /\ [][Next]_vars

\* The kernel gives the processor to every process again and again
\* (EventuallyRuns of ProcessesProperties), each time for long enough to make a
\* call: strong fairness, for a process is held up here only while another is
\* between two writes.
Fairness == SF_vars(waiter) /\ \A p \in Hungry : SF_vars(philosopher(p))

FairSpec == Spec /\ Fairness

-----------------------------------------------------------------------------
\* Every variable keeps its type.  The requests in flight stay few: a philosopher
\* with a request unanswered makes no other.
TypeOK ==
  /\ pipes \in Seq(Pipe) /\ currFd \in Nat
  /\ step \in {"fork", "mkfifo", "open", "mkfifo_public", "open_public", "read_pid",
              "read_sig", "reply"} \X Seats
  /\ philosophers \in [Seats -> Hungry \cup {-1, 0}]
  /\ philosopherFds \in [Seats -> Int]
  /\ whoHasFork \in [Seats -> Int] /\ lastEater \in Int
  /\ waiterReadFd \in Int /\ requestingPid \in Int /\ sig \in Byte
  /\ pc \in [Hungry -> {"unborn", "open_read", "open_write", "read", "write_pid",
                       "write_sig"}]
  /\ readFd \in [Hungry -> Int] /\ writeFd \in [Hungry -> Int]
  /\ state \in [Hungry -> {0, 1, 2}]
  /\ \A i \in DOMAIN pipes : Len(pipes[i].queue) <= 10 * PHILOSOPHERS

Eating(p) == state[p] = 1

\* Philosophers next to each other share a fork and never eat together: from
\* reading the waiter's yes until the forks' return is on its way.
NeighboursExclusive ==
  \A p, q \in Hungry : Eating(p) /\ Eating(q) /\ p # q => Forks(p) \cap Forks(q) = {}

\* The waiter's table agrees with what its philosophers do, whatever messages
\* are on their way: the forks of one that eats, or that has a yes to read, are its.
ForksHeld ==
  \A p \in Hungry :
    Eating(p) \/ (\E i \in DOMAIN pipes : pipes[i].name = PipeOf(p) /\ pipes[i].queue = <<1>>)
      => \A f \in Forks(p) : whoHasFork[f] = p

\* Nobody eats twice in a row: who starts to eat is not who ate last.
NotTwice ==
  [][\A p \in Hungry : Eating(p)' /\ ~Eating(p) => lastEater' # p]_vars

\* Somebody eats, again and again: neither the forks nor the requests and
\* answers nor the rule against eating twice ever stop the whole table.
SomebodyEats == []<>(\E p \in Hungry : Eating(p))

(***************************************************************************)
(* What comments of the repository say, and the code does not do.          *)
(***************************************************************************)
\* waiter.c:55 "READ PID": the 4 bytes that begin a request are a pid.
ReadsPid == step[1] = "read_sig" => requestingPid \in Hungry

\* waiter.c:58 "REQUESTING PID WANTS TO PICK UP FORKS": it is the process whose
\* pipe the answer goes to.
AnswersRequester ==
  step[1] = "reply" => philosophers[Seat(requestingPid)] = requestingPid
=============================================================================
