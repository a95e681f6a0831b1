------------------------------- MODULE Pipes -------------------------------
(***************************************************************************)
(* The pipe calls as a state machine: any process makes any call of libc,  *)
(* one at a time, and sees its result.                                     *)
(***************************************************************************)
EXTENDS PipeTable

CONSTANTS
  Callers,   \* the pids of the processes that make calls
  Modes,     \* the modes they give mkfifo
  Buffers,   \* the byte sequences they write
  Sizes,     \* the numbers of bytes they ask for
  MaxFd,     \* bound of the model: the largest descriptor of a pipe
  MaxQueued  \* bound of the model: the bytes in one pipe

\* The arguments of libc's functions: a pid is a pid_t, a size a size_t.
ASSUME CallsAssumption ==
  /\ Callers \subseteq Int /\ Modes \subseteq [0 .. 2 -> Flags]
  /\ Buffers \subseteq Seq(Bytes) /\ Sizes \subseteq Nat
  /\ MaxFd \in Nat

VARIABLES
  r0,        \* the result of the last call
  data       \* the bytes the last call put in the caller's buffer

vars == <<pipes, currFd, r0, data>>

\* The descriptors tried: 0, like 2, is neither the UART's nor a pipe's.
Fds == 1 .. MaxFd + 1

Standard == 0 .. 2  \* STDIN_FILENO, STDOUT_FILENO, STDERR_FILENO

Init == PipesInit /\ r0 = 0 /\ data = <<>>

mkfifo(pid, name, mode) ==
  /\ currFd <= MaxFd
  /\ data' = <<>> /\ r0' = mkfifoResult(name)
  /\ svc_mkfifo(pid, name, mode)

open(pid, name, flags) ==
  /\ data' = <<>> /\ r0' = openResult(pid, name, flags)
  /\ UNCHANGED <<pipes, currFd>>

unlink(name) ==
  /\ data' = <<>> /\ r0' = unlinkResult(name)
  /\ svc_unlink(name)

write(pid, fd, x) ==
  /\ data' = <<>> /\ r0' = writeResult(pid, fd, x)
  /\ \A i \in DOMAIN pipes : Len(pipes[i].queue) + Len(x) <= MaxQueued
  /\ svc_write(pid, fd, x)

read(pid, fd, n) ==
  /\ data' = readBytes(pid, fd, n) /\ r0' = readResult(pid, fd, n)
  /\ svc_read(pid, fd, n)

Next ==
  \E pid \in Callers :
    \/ \E name \in Names, mode \in Modes : mkfifo(pid, name, mode)
    \/ \E name \in Names, flags \in {O_RDONLY, O_WRONLY, O_RDWR} : open(pid, name, flags)
    \/ \E name \in Names : unlink(name)
    \/ \E fd \in Fds, x \in Buffers : write(pid, fd, x)
    \/ \E fd \in Fds, n \in Sizes : read(pid, fd, n)

Spec == Init /\ [][Next]_vars

-----------------------------------------------------------------------------
\* Every variable keeps its type; a descriptor is never one of the standard
\* three, nor one that a pipe has still to be given.
TypeOK ==
  /\ pipes \in Seq(Pipe)
  /\ \A i \in DOMAIN pipes : pipes[i].fd \in 3 .. currFd - 1
  /\ currFd \in Nat
  /\ r0 \in Int /\ data \in Seq(Bytes)

\* Names and descriptors each identify one pipe, so that the first match of a
\* search is the only one.
PipesDistinct ==
  \A i, j \in DOMAIN pipes :
    pipes[i].name = pipes[j].name \/ pipes[i].fd = pipes[j].fd => i = j

(***************************************************************************)
(* The array of pipes, searched by name and by descriptor and compacted by *)
(* unlink, implements the channels of NamedPipes with the same results.    *)
(***************************************************************************)
Channels ==
  [fd \in {pipes[i].fd : i \in DOMAIN pipes} |->
     LET p == pipes[CHOOSE i \in DOMAIN pipes : pipes[i].fd = fd]
     IN [name |-> p.name, owner |-> p.owner, group |-> p.group,
         mode |-> p.mode, queue |-> p.queue]]

NP == INSTANCE NamedPipes WITH chan <- Channels, given <- 3 .. currFd - 1

\* Every call is the call of the same name, with the same arguments.  What read
\* returns for a standard descriptor is left open: the code returns the descriptor.
CallsAgree ==
  /\ \A name \in Names : unlink(name) => NP!Unlink(name)
  /\ \A pid \in Callers :
       /\ \A name \in Names, mode \in Modes : mkfifo(pid, name, mode) => NP!Mkfifo(pid, name, mode)
       /\ \A name \in Names, flags \in {O_RDONLY, O_WRONLY, O_RDWR} :
            open(pid, name, flags) => NP!Open(pid, name, flags)
       /\ \A fd \in Fds, x \in Buffers : write(pid, fd, x) => NP!Write(pid, fd, x)
       /\ \A fd \in Fds, n \in Sizes :
            read(pid, fd, n) => IF fd \in Standard THEN NP!ReadStandard ELSE NP!Read(pid, fd, n)

\* Unlinking one pipe disturbs no other: a descriptor never comes to mean
\* another pipe, no byte is lost, repeated, reordered or moved to another pipe,
\* and only a user with the right moves bytes.
ImplementsNamedPipes == NP!Init /\ [][CallsAgree]_vars
=============================================================================
