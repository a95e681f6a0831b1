----------------------------- MODULE PipeTable -----------------------------
(***************************************************************************)
(* The named pipes of kernel/hilevel.c: the array pipes, what each system  *)
(* call does to it, and what the call returns.  A call runs with           *)
(* interrupts masked, so it is one step.  The array is a sequence, index 1 *)
(* for the code's 0, and "no such pipe" is 0 for the code's -1.            *)
(*                                                                         *)
(* A name is an opaque value; GroupOf gives the number it starts with      *)
(* ("3/pipe" has 3).  A mode is the set of permission bits of each         *)
(* category of user, a set of flags the bits of O_RDONLY, O_WRONLY, O_RDWR.*)
(***************************************************************************)
EXTENDS Integers, Sequences

CONSTANTS
  Names,    \* the names of pipes
  GroupOf,  \* GroupOf[name] = atoi(strtok(name, "/"))
  Bytes     \* the bytes that travel

VARIABLES
  pipes,    \* the array of pipes, pipesLength = Len(pipes)
  currFd    \* the file descriptor the next pipe gets

ASSUME NamesAssumption == GroupOf \in [Names -> Int]

O_RDONLY == {4}
O_WRONLY == {2}
O_RDWR   == {2, 4}

Flags == SUBSET {2, 4}
Pipe  == [name : Names, fd : Nat, owner : Int, group : Int,
          mode : [0 .. 2 -> Flags], queue : Seq(Bytes)]

PipesInit == pipes = <<>> /\ currFd = 3

userCategory(pid, pipe) ==
  IF pid = pipe.owner THEN 2 ELSE IF pid = pipe.group THEN 1 ELSE 0

\* Mutant of checkPermissions: the bits of the other users are looked at.
checkPermissions_Other(pid, pipe, flags) == pipe.mode[0] \cap flags # {}

checkPermissions(pid, pipe, flags) ==
  pipe.mode[userCategory(pid, pipe)] \cap flags # {}

getPipeFromName(name) ==
  IF \E i \in DOMAIN pipes : pipes[i].name = name
  THEN CHOOSE i \in DOMAIN pipes :
         pipes[i].name = name /\ \A j \in 1 .. i - 1 : pipes[j].name # name
  ELSE 0

getPipeFromFd(fd) ==
  IF \E i \in DOMAIN pipes : pipes[i].fd = fd
  THEN CHOOSE i \in DOMAIN pipes :
         pipes[i].fd = fd /\ \A j \in 1 .. i - 1 : pipes[j].fd # fd
  ELSE 0

\* Mutant of checkValidPipeName: only the newest pipe is compared.
checkValidPipeName_Newest(name) ==
  pipes = <<>> \/ pipes[Len(pipes)].name # name

checkValidPipeName(name) == \A i \in DOMAIN pipes : pipes[i].name # name

(***************************************************************************)
(* mkfifo( name, mode ): allocateNewPipe, or nothing for a name in use.    *)
(***************************************************************************)
allocateNewPipe(pid, name, mode) ==
  /\ pipes' = Append(pipes, [name |-> name, fd |-> currFd, owner |-> pid,
                             group |-> GroupOf[name], mode |-> mode, queue |-> <<>>])
  /\ currFd' = currFd + 1

svc_mkfifo(pid, name, mode) ==
  IF checkValidPipeName(name)
  THEN allocateNewPipe(pid, name, mode)
  ELSE UNCHANGED <<pipes, currFd>>

mkfifoResult(name) == IF checkValidPipeName(name) THEN 0 ELSE -1

(***************************************************************************)
(* unlink( name ): deallocatePipe.  The last pipe of the array moves into  *)
(* the hole, and the array shrinks.                                        *)
(***************************************************************************)
\* Mutants of deallocatePipe: the pipe that moves is the one before the last; the
\* last descriptor is given again.
deallocatePipe_WrongMove(i) ==
  LET last == Len(pipes) IN
  /\ pipes' = SubSeq([pipes EXCEPT ![i] = pipes[IF i = last THEN i ELSE last - 1]],
                     1, last - 1)
  /\ UNCHANGED currFd
deallocatePipe_FdAgain(i) ==
  LET last == Len(pipes) IN
  /\ pipes' = SubSeq([pipes EXCEPT ![i] = pipes[last]], 1, last - 1)
  /\ currFd' = currFd - 1

deallocatePipe(i) ==
  LET last == Len(pipes) IN
  /\ pipes' = SubSeq([pipes EXCEPT ![i] = pipes[last]], 1, last - 1)
  /\ UNCHANGED currFd

svc_unlink(name) ==
  IF getPipeFromName(name) = 0
  THEN UNCHANGED <<pipes, currFd>>
  ELSE deallocatePipe(getPipeFromName(name))

unlinkResult(name) == IF getPipeFromName(name) = 0 THEN -1 ELSE 0

(***************************************************************************)
(* open( name, flags ): openPipe.  One of the flags is enough.             *)
(***************************************************************************)
openResult(pid, name, flags) ==
  LET i == getPipeFromName(name) IN
  IF i # 0 /\ checkPermissions(pid, pipes[i], flags) THEN pipes[i].fd ELSE -1

(***************************************************************************)
(* write( fd, x, n ): a pipe has no limit.  File descriptor 1 is the UART. *)
(***************************************************************************)
MayUse(pid, fd, flags) ==
  /\ getPipeFromFd(fd) # 0
  /\ checkPermissions(pid, pipes[getPipeFromFd(fd)], flags)

svc_write(pid, fd, x) ==
  /\ IF fd # 1 /\ MayUse(pid, fd, O_WRONLY)
     THEN pipes' = [pipes EXCEPT ![getPipeFromFd(fd)].queue = @ \o x]
     ELSE UNCHANGED pipes
  /\ UNCHANGED currFd

writeResult(pid, fd, x) ==
  IF fd = 1 \/ MayUse(pid, fd, O_WRONLY) THEN Len(x) ELSE -1

(***************************************************************************)
(* read( fd, x, n ): up to n bytes, as many as there are.  For the three   *)
(* standard descriptors r0, which holds fd, is left as it is.              *)
(***************************************************************************)
readBytes(pid, fd, n) ==
  IF fd > 2 /\ MayUse(pid, fd, O_RDONLY)
  THEN LET q == pipes[getPipeFromFd(fd)].queue
       IN SubSeq(q, 1, IF n < Len(q) THEN n ELSE Len(q))
  ELSE <<>>

readResult(pid, fd, n) ==
  IF fd <= 2 THEN fd
  ELSE IF MayUse(pid, fd, O_RDONLY) THEN Len(readBytes(pid, fd, n)) ELSE -1

\* Mutant of svc_read: the bytes stay in the queue (peek, not pop).
svc_read_Peek(pid, fd, n) == UNCHANGED <<pipes, currFd>>

svc_read(pid, fd, n) ==
  LET got == Len(readBytes(pid, fd, n)) IN
  /\ pipes' = IF got = 0 THEN pipes
              ELSE [pipes EXCEPT ![getPipeFromFd(fd)].queue =
                                   SubSeq(@, got + 1, Len(@))]
  /\ UNCHANGED currFd
=============================================================================
