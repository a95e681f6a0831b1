---------------------------- MODULE MCProcesses ----------------------------
(* Values for the constants of Processes that a cfg cannot write.          *)
EXTENDS ProcessesProperties

CONSTANTS console, worker, DP, philosopher

MCPrograms == {console, worker, DP, philosopher}

\* The shipped programs: the console runs commands, DP forks philosophers,
\* worker stands for P1..P5, of which P5 exits.
MCLoads ==
  [p \in MCPrograms |->
     CASE p = console -> {worker, DP} [] p = DP -> {philosopher} [] OTHER -> {}]

ShippedUses ==
  [p \in MCPrograms |->
     CASE p = console -> {"fork", "kill"}
       [] p = DP -> {"fork"}
       [] p = philosopher -> {"getpid"}
       [] OTHER -> {"exit"}]

\* Two images that may make any call of libc at any time.
AnyPrograms == {console, worker}
AnyLoads == [p \in AnyPrograms |-> {worker}]
AnyUses ==
  [p \in AnyPrograms |-> {"fork", "exit", "kill", "getpid", "yield", "nice"}]
=============================================================================
