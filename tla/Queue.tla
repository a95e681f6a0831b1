------------------------------- MODULE Queue -------------------------------
(***************************************************************************)
(* kernel/queue.c: the linked lists behind the ready queue and behind      *)
(* every pipe.  All of them live in one heap, where a block is a queue     *)
(* (tail, head), a node (previous, item) or an item; a block is freed and  *)
(* used again.  The calls run with interrupts masked, one at a time.       *)
(***************************************************************************)
EXTENDS Integers, Sequences, FiniteSets, SequencesExt

CONSTANTS
  Queues,   \* the owners of queues: the scheduler, the pipes
  Blocks,   \* the number of blocks of the heap, at the addresses 1 .. Blocks
  Items     \* what is queued: PCBs in the one queue, bytes in the others

VARIABLES
  heap,     \* heap[a]: the contents of allocated block a
  queue,    \* queue[q]: the pointer that the owner q holds
  ok,       \* the last result of pop and isEmpty
  p         \* the caller's buffer: what is pushed from it or copied to it

vars == <<heap, queue, ok, p>>

ASSUME QueueAssumption == Blocks \in Nat

NULL      == 0
Addresses == 1 .. Blocks
Allocated == DOMAIN heap
Made      == DOMAIN queue

\* The blocks that successive calls of malloc return: the free ones, lowest first
\* (a bound of the model: blocks are reused as soon as can be).  An allocation is
\* taken to succeed: a call that would find no block is not made.
Free     == Addresses \ Allocated
Fresh(k) == CHOOSE a \in Free : Cardinality({b \in Free : b < a}) = k - 1

NoNode == [previous |-> NULL, item |-> NULL]

\* The heap after malloc of block a, given contents, and after free of blocks.
With(h, a, contents) == [b \in DOMAIN h \cup {a} |-> IF b = a THEN contents ELSE h[b]]
Without(h, blocks)   == [b \in DOMAIN h \ blocks |-> h[b]]

Init ==
  /\ heap = [a \in {} |-> NULL] /\ queue = [q \in {} |-> NULL]
  /\ ok = TRUE /\ p \in Items

(***************************************************************************)
(* newQueue( b ): two nodes are allocated for head and tail, and forgotten *)
(* when the whole structure is overwritten.                                *)
(***************************************************************************)
newQueue(q) ==
  /\ q \notin Made
  /\ Cardinality(Free) >= 3
  /\ heap' = With(With(With(heap, Fresh(1), [tail |-> NULL, head |-> NULL]),
                       Fresh(2), NoNode), Fresh(3), NoNode)
  /\ queue' = [r \in Made \cup {q} |-> IF r = q THEN Fresh(1) ELSE queue[r]]
  /\ UNCHANGED <<ok, p>>

(***************************************************************************)
(* push( queue, p ).                                                       *)
(***************************************************************************)
\* Mutants of Linked: the queue's tail stays where it was; the new node goes in
\* front of the head.
Linked_OldTail(h, a, new) ==
  IF h[a].head = NULL
  THEN [h EXCEPT ![a] = [tail |-> new, head |-> new]]
  ELSE [h EXCEPT ![h[a].tail].previous = new]
Linked_AtHead(h, a, new) ==
  IF h[a].head = NULL
  THEN [h EXCEPT ![a] = [tail |-> new, head |-> new]]
  ELSE [h EXCEPT ![new].previous = h[a].head, ![a].head = new]

\* Heap h once node new is linked behind the tail of the queue at a.
Linked(h, a, new) ==
  IF h[a].head = NULL
  THEN [h EXCEPT ![a] = [tail |-> new, head |-> new]]
  ELSE [h EXCEPT ![h[a].tail].previous = new, ![a].tail = new]

push(q, x) ==
  /\ q \in Made
  /\ Cardinality(Free) >= 2
  /\ LET new == Fresh(1)  item == Fresh(2)
     IN heap' = Linked(With(With(heap, item, x), new, [previous |-> NULL, item |-> item]),
                       queue[q], new)
  /\ p' = x
  /\ UNCHANGED <<queue, ok>>

(***************************************************************************)
(* peek( queue, p ), isEmpty( queue ).                                     *)
(***************************************************************************)
peek(q) ==
  /\ q \in Made
  /\ p' = LET head == heap[queue[q]].head
          IN IF head = NULL THEN p ELSE heap[heap[head].item]
  /\ UNCHANGED <<heap, queue, ok>>

isEmpty(q) ==
  /\ q \in Made
  /\ ok' = (heap[queue[q]].head = NULL)
  /\ UNCHANGED <<heap, queue, p>>

(***************************************************************************)
(* pop( queue, p ).                                                        *)
(***************************************************************************)
\* Mutants of Unlinked: the old head is not freed; it stays the head.
Unlinked_KeepsNode(a) ==
  LET head == heap[a].head
      next == heap[head].previous
      left == Without(heap, {heap[head].item})
  IN [left EXCEPT ![a] = [tail |-> IF next = NULL THEN NULL ELSE @.tail, head |-> next]]
Unlinked_HeadStays(a) ==
  LET head == heap[a].head IN Without(heap, {head, heap[head].item})

\* The heap without the head of the queue at a.
Unlinked(a) ==
  LET head == heap[a].head
      next == heap[head].previous
      left == Without(heap, {head, heap[head].item})
  IN [left EXCEPT ![a] = [tail |-> IF next = NULL THEN NULL ELSE @.tail, head |-> next]]

pop(q) ==
  /\ q \in Made
  /\ LET a == queue[q] IN
     \/ /\ heap[a].head # NULL
        /\ p' = heap[heap[heap[a].head].item]
        /\ heap' = Unlinked(a)
        /\ ok' = TRUE
     \/ /\ heap[a].head = NULL
        /\ ok' = FALSE
        /\ UNCHANGED <<heap, p>>
  /\ UNCHANGED queue

(***************************************************************************)
(* freeQueue( queue ), which frees the items and not the nodes.            *)
(***************************************************************************)
Node == [previous : 0 .. Blocks, item : 0 .. Blocks]

IsNode(h, n) == n \in DOMAIN h /\ h[n] \in Node

\* In heap h, the queue at a from its head on along previous, and NULL from there on.
Walk(h, a) ==
  LET at[k \in 1 .. Blocks \div 2] ==
        IF k = 1 THEN h[a].head
        ELSE IF IsNode(h, at[k - 1]) THEN h[at[k - 1]].previous ELSE NULL
  IN at

\* The nodes of the queue at a in heap h, and now.
NodesIn(h, a) ==
  LET at == Walk(h, a)
  IN SubSeq(at, 1, Cardinality({k \in DOMAIN at : at[k] # NULL}))

Nodes(a) == NodesIn(heap, a)

ItemsOf(a) == {heap[n].item : n \in ToSet(Nodes(a))}

freeQueue(q) ==
  /\ q \in Made
  /\ heap' = Without(heap, {queue[q]} \cup ItemsOf(queue[q]))
  /\ queue' = [r \in Made \ {q} |-> queue[r]]
  /\ UNCHANGED <<ok, p>>

Next ==
  \E q \in Queues :
    \/ newQueue(q) \/ peek(q) \/ isEmpty(q) \/ pop(q) \/ freeQueue(q)
    \/ \E x \in Items : push(q, x)

Spec == Init /\ [][Next]_vars
-----------------------------------------------------------------------------
(***************************************************************************)
(* The properties.                                                         *)
(***************************************************************************)
\* The blocks a queue is made of: the structure, its nodes, their items.
Parts(q) == {queue[q]} \cup ToSet(Nodes(queue[q])) \cup ItemsOf(queue[q])

\* Every variable keeps its type, and every block of a queue holds what the code
\* takes it to hold: no pointer leads to a block freed or used for another purpose.
TypeOK ==
  /\ Allocated \subseteq Addresses /\ Made \subseteq Queues
  /\ ok \in BOOLEAN /\ p \in Items
  /\ \A q \in Made :
       /\ queue[q] \in Allocated /\ DOMAIN heap[queue[q]] = {"tail", "head"}
       /\ \A n \in ToSet(Nodes(queue[q])) :
            IsNode(heap, n) /\ heap[n].item \in Allocated /\ heap[heap[n].item] \in Items

\* Two queues share no block, and within one no block serves twice: a push on
\* one pipe cannot show up in another, and pop frees no block twice.
ListsDisjoint ==
  /\ \A q \in Made : LET nodes == Nodes(queue[q]) IN
       /\ IsInjective(nodes)
       /\ Cardinality(Parts(q)) = 1 + 2 * Len(nodes)
       /\ nodes # <<>> => Last(nodes) = heap[queue[q]].tail
  /\ \A q, r \in Made : q # r => Parts(q) \cap Parts(r) = {}

\* Allocated blocks that no queue is made of.
Leaked == Allocated \ UNION {Parts(q) : q \in Made}

\* Memory is lost only where a queue is made, two nodes, or freed, its nodes:
\* any number of pushes and pops in between loses none.
LeaksOnlyNodes ==
  [][/\ Made' = Made => Leaked' = Leaked
     /\ \A q \in Made' \ Made : Cardinality(Leaked' \ Leaked) = 2
     /\ \A q \in Made \ Made' : Leaked' \ Leaked = ToSet(Nodes(queue[q]))]_vars

(***************************************************************************)
(* The lists implement the queues of Fifos, sequences: what Processes says *)
(* of the ready queue and PipeTable of the bytes in a pipe.                *)
(***************************************************************************)
Contents ==
  [q \in Made |-> LET nodes == Nodes(queue[q])
                  IN [i \in DOMAIN nodes |-> heap[heap[nodes[i]].item]]]

F == INSTANCE Fifos WITH contents <- Contents

\* Items come out in the order they went in, each once, from the queue they were
\* put in; pop and peek on an empty queue leave the buffer alone.
ImplementsFifos == F!Spec
=============================================================================
