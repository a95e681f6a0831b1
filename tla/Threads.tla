------------------------------- MODULE Threads -------------------------------
(***************************************************************************)
(* What the low level handlers promise a program: whatever interrupts it,  *)
(* its registers and condition flags are changed by its own instructions   *)
(* and by the calls it makes, each executed once, and by nothing else.     *)
(***************************************************************************)
EXTENDS Programs

VARIABLES
  running,  \* the thread that executes, 0 before the first
  thread    \* thread[p]: the registers of thread p

tvars == <<running, thread, executed>>

Init == running = 0 /\ thread = << >> /\ executed \in Sessions

\* The first thread starts.
Boot ==
  /\ running = 0
  /\ running' = 1
  /\ thread' = [p \in {1} |->
       [pc |-> main_console, gpr |-> [i \in 1 .. Gprs |-> 0], sp |-> 0, lr |-> 0, flags |-> 0]]

Me == thread[running]

\* The running thread executes an instruction.
Local ==
  /\ running # 0 /\ Me.pc \notin DOMAIN SvcAt
  /\ thread' = [thread EXCEPT ![running] = After(Me)]
  /\ UNCHANGED running

\* It makes the call its svc instruction names.
Calls(id) == running # 0 /\ Me.pc \in DOMAIN SvcAt /\ SvcAt[Me.pc] = id

\* The call returns r to me.
Returned(r) == [Me EXCEPT !.pc = @ + 1, !.gpr[1] = r]

Write ==
  /\ Calls(SYS_WRITE)
  /\ thread' = [thread EXCEPT ![running] = Returned(Me.gpr[3])]
  /\ UNCHANGED running

\* The child starts at the same place of its own stack.
Fork ==
  /\ Calls(SYS_FORK)
  /\ \E child \in DOMAIN thread' \ DOMAIN thread :
       thread' = [p \in DOMAIN thread \cup {child} |->
                    CASE p = child -> [Returned(0) EXCEPT !.sp = @ + child - running]
                      [] p = running -> Returned(child)
                      [] OTHER -> thread[p]]
  /\ UNCHANGED running

\* The program begins, whatever the registers hold.
Exec ==
  /\ Calls(SYS_EXEC)
  /\ thread' = [thread EXCEPT ![running] = [Me EXCEPT !.pc = Me.gpr[1]]]
  /\ UNCHANGED running

Exit ==
  /\ Calls(SYS_EXIT)
  /\ thread' = [p \in DOMAIN thread \ {running} |-> thread[p]]
  /\ running' \in DOMAIN thread'

Switch == running # 0 /\ running' \in DOMAIN thread /\ UNCHANGED thread

Next ==
  /\ Boot \/ Local \/ Write \/ Fork \/ Exec \/ Exit \/ Switch
  /\ UNCHANGED executed

Spec == Init /\ [][Next]_tvars
=============================================================================
