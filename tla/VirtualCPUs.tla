---------------------------- MODULE VirtualCPUs ----------------------------
(***************************************************************************)
(* What multi-tasking promises a user program: every process has a         *)
(* processor and a stack of its own.  A process is a view - its image, its *)
(* registers, its stack - that only its own instructions and calls change; *)
(* fork duplicates a view, kill and exit remove one, and switching between *)
(* processes changes none.                                                 *)
(***************************************************************************)
EXTENDS Naturals

CONSTANT Boot  \* the view of the first process

VARIABLES
  procs,    \* the pids of the live processes
  used,     \* the pids ever given to a process
  running,  \* the process that executes, 0 if the machine has stopped
  view      \* view[p]: the registers and the stack of process p

vvars == <<procs, used, running, view>>

Init ==
  /\ procs = {1} /\ used = {1} /\ running = 1
  /\ view = [p \in {1} |-> Boot]

\* The running process computes or makes a call about nobody else.
Local ==
  /\ running \in procs
  /\ UNCHANGED <<procs, used, running>>
  /\ view' = [view EXCEPT ![running] = view'[running]]
  /\ view'[running].prog = view[running].prog

\* Its image is replaced: it starts with a cleared stack.
Exec ==
  /\ running \in procs
  /\ UNCHANGED <<procs, used, running>>
  /\ view' = [view EXCEPT ![running] = view'[running]]
  /\ view'[running].depth = 0 /\ view'[running].mem = 0

\* It is duplicated under a pid that nobody ever had.
Fork ==
  /\ running \in procs
  /\ UNCHANGED running
  /\ \E child \in used' \ used :
       /\ used' = used \cup {child}
       /\ procs' = procs \cup {child}
       /\ view' = [p \in procs' |->
            IF p = child THEN [view[running] EXCEPT !.r0 = 0]
            ELSE IF p = running THEN [view[running] EXCEPT !.r0 = child]
            ELSE view[p]]

\* It makes another process disappear.
Kill ==
  /\ running \in procs
  /\ UNCHANGED <<used, running>>
  /\ \E victim \in procs \ {running} :
       /\ procs' = procs \ {victim}
       /\ view' = [p \in procs' |->
            IF p = running THEN [view[p] EXCEPT !.r0 = 1] ELSE view[p]]

\* Another process, or the same one, executes.
Switch ==
  /\ running' \in procs
  /\ UNCHANGED <<procs, used, view>>

\* It disappears; the machine stops when nobody is left.
Exit ==
  /\ running \in procs
  /\ procs' = procs \ {running}
  /\ view' = [p \in procs' |-> view[p]]
  /\ running' \in (IF procs' = {} THEN {0} ELSE procs')
  /\ UNCHANGED used

Next == Local \/ Exec \/ Fork \/ Kill \/ Switch \/ Exit

Spec == Init /\ [][Next]_vvars
=============================================================================
