------------------------------ MODULE MCPipes ------------------------------
(* Values for the constants of Pipes.                                      *)
EXTENDS Pipes

CONSTANTS a, b

MCNames == {a, b}

\* Pipe a has caller 2 for its group, as "2/pipe" would; the others nobody.
MCGroupOf == [name \in MCNames |-> IF name = a THEN 2 ELSE -1]

\* The modes of waiter.c: 0240, its owner writes and its group reads; and 0402,
\* its owner reads and everybody else writes.
MCModes ==
  {[u \in 0 .. 2 |-> CASE u = 2 -> {2} [] u = 1 -> {4} [] OTHER -> {}],
   [u \in 0 .. 2 |-> CASE u = 2 -> {4} [] u = 1 -> {} [] OTHER -> {2}]}

MCBuffers == {<<0>>, <<1, 0>>}
=============================================================================
