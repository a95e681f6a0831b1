------------------------------- MODULE Fifos -------------------------------
(***************************************************************************)
(* What kernel/queue.c promises: queues of items, each first in first out, *)
(* none of them disturbed by what happens to another.  No nodes, no heap.  *)
(***************************************************************************)
EXTENDS Sequences

CONSTANTS Queues, Items

VARIABLES
  contents,  \* contents[q]: what queue q holds, oldest first
  ok,        \* what the last call returned
  p          \* the caller's buffer

Init ==
  /\ contents = [q \in {} |-> <<>>]
  /\ ok = TRUE /\ p \in Items

Made == DOMAIN contents

New(q) ==
  /\ q \notin Made
  /\ contents' = [r \in Made \cup {q} |-> IF r = q THEN <<>> ELSE contents[r]]
  /\ UNCHANGED <<ok, p>>

Free(q) ==
  /\ q \in Made
  /\ contents' = [r \in Made \ {q} |-> contents[r]]
  /\ UNCHANGED <<ok, p>>

Push(q, item) ==
  /\ q \in Made
  /\ contents' = [contents EXCEPT ![q] = Append(@, item)]
  /\ p' = item /\ UNCHANGED ok

\* An empty queue leaves the buffer as it is.
Pop(q) ==
  /\ q \in Made
  /\ \/ contents[q] # <<>> /\ ok' /\ contents[q] = <<p'>> \o contents'[q]
     \/ contents[q] = <<>> /\ ~ok' /\ p' = p /\ contents'[q] = <<>>
  /\ contents' = [contents EXCEPT ![q] = contents'[q]]

Peek(q) ==
  /\ q \in Made
  /\ p' = IF contents[q] = <<>> THEN p ELSE Head(contents[q])
  /\ UNCHANGED <<contents, ok>>

IsEmpty(q) ==
  /\ q \in Made /\ (ok' <=> contents[q] = <<>>)
  /\ UNCHANGED <<contents, p>>

Next ==
  \E q \in Queues :
    \/ New(q) \/ Free(q) \/ Pop(q) \/ Peek(q) \/ IsEmpty(q)
    \/ \E item \in Items : Push(q, item)

Spec == Init /\ [][Next]_<<contents, ok, p>>
=============================================================================
