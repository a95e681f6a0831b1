----------------------------- MODULE MCConsole -----------------------------
(* Values for the constants of Console that a cfg cannot write.            *)
EXTENDS Console, TLC

CONSTANTS console, P5, waiter, philosopher, none

MCPrograms == {console, P5, waiter, philosopher, none}

MCLoads == [p \in MCPrograms |-> IF p = waiter THEN {philosopher} ELSE {}]

MCUses ==
  [p \in MCPrograms |->
     CASE p = P5 -> {"exit"} [] p = waiter -> {"fork"} [] OTHER -> {}]

\* "P5", "DP", and "P6", which names nothing.
MCLinked == (<<80, 53>> :> P5) @@ (<<68, 80>> :> waiter)

Execute(name) == [verb |-> "execute", args |-> <<name>>]

\* The first two vectors of int.s: a load of the program counter, a loop.
MCAtZero == <<24, 240, 159, 229, 254, 255, 255, 234>>

\* A process is terminated with a signal, and the console as its comment says.
MCLines ==
  {Execute(<<80, 53>>), Execute(<<68, 80>>), Execute(<<80, 54>>),
   [verb |-> "terminate", args |-> <<itoa(3), itoa(15)>>],
   [verb |-> "terminate", args |-> <<itoa(1)>>],
   [verb |-> "terminate", args |-> <<>>],
   [verb |-> "no such command", args |-> <<>>]}

\* The conversions, for every integer of this width.
ASSUME ConversionsChecked == RoundTrip /\ WritesNumerals
=============================================================================
