---------------------------- MODULE QueueProofs ----------------------------
(***************************************************************************)
(* The linked lists of kernel/queue.c, for any number of queues and any    *)
(* heap: no pointer leads astray, no two queues share a block, only nodes  *)
(* are lost, and each list is the sequence that Fifos promises.            *)
(***************************************************************************)
EXTENDS Queue, FiniteSetTheorems, SequenceTheorems, TLAPS

(***************************************************************************)
(* The queue at a in heap h is the sequence s of nodes.                    *)
(***************************************************************************)
Next1(s, k) == IF k = Len(s) THEN NULL ELSE s[k + 1]

Ends(s) == [tail |-> IF s = <<>> THEN NULL ELSE s[Len(s)], head |-> IF s = <<>> THEN NULL ELSE s[1]]

Linkage(h, a, s) ==
  /\ s \in Seq(Addresses)
  /\ DOMAIN h \subseteq Addresses
  /\ a \in DOMAIN h /\ h[a] = Ends(s)
  /\ \A k \in 1 .. Len(s) :
       /\ IsNode(h, s[k]) /\ h[s[k]].previous = Next1(s, k)
       /\ h[s[k]].item \in DOMAIN h /\ h[h[s[k]].item] \in Items

\* No block of the queue serves twice.
Apart(h, a, s) ==
  /\ \A k, l \in 1 .. Len(s) : s[k] = s[l] \/ h[s[k]].item = h[s[l]].item => k = l
  /\ \A k, l \in 1 .. Len(s) : s[k] # h[s[l]].item
  /\ \A k \in 1 .. Len(s) : s[k] # a /\ h[s[k]].item # a

Chained(h, a, s) == Linkage(h, a, s) /\ Apart(h, a, s)

ItemBlocks(h, s) == {h[n].item : n \in ToSet(s)}
PartsIn(h, a, s) == {a} \cup ToSet(s) \cup ItemBlocks(h, s)

(***************************************************************************)
(* Induction, by the least natural number of a set.                        *)
(***************************************************************************)
LEMMA Least ==
  ASSUME NEW T, T \subseteq Nat, T # {}
  PROVE  \E x \in T : \A y \in T : x <= y
<1> DEFINE R == OpToRel(<, Nat)
<1>1. IsWellFoundedOn(R, Nat)
  BY NatLessThanWellFounded
<1>2. \A x, y \in Nat : y < x => <<y, x>> \in R
  BY DEF OpToRel
<1> HIDE DEF R
<1>3. PICK x \in T : \A y \in T : ~ (<<y, x>> \in R)
  BY <1>1, WFMin
<1>4. ASSUME NEW y \in T  PROVE x <= y
  <2>1. x \in Nat /\ y \in Nat
    OBVIOUS
  <2>2. ~(y < x)
    BY <1>2, <1>3, <2>1
  <2>3. QED
    BY <2>1, <2>2
<1>5. QED
  BY <1>4

(***************************************************************************)
(* The walk along previous finds the nodes.                                *)
(***************************************************************************)
\* As many values as there are keys.
LEMMA Numerous ==
  ASSUME NEW n \in Nat, NEW T, NEW s \in [1 .. n -> T],
         \A k, l \in 1 .. n : s[k] = s[l] => k = l,
         \A x \in T : \E k \in 1 .. n : s[k] = x
  PROVE  IsFiniteSet(T) /\ Cardinality(T) = n
<1>1. s \in Bijection(1 .. n, T)
  BY DEF Bijection, Injection, Surjection, IsInjective
<1>2. ExistsBijection(1 .. n, T)
  BY <1>1 DEF ExistsBijection
<1>3. IsFiniteSet(1 .. n) /\ Cardinality(1 .. n) = n
  BY FS_Interval
<1>4. QED
  BY <1>2, <1>3, FS_Bijection

LEMMA Walked ==
  ASSUME NEW h, NEW a, NEW s, Linkage(h, a, s), Len(s) <= Blocks \div 2
  PROVE  Walk(h, a) = [k \in 1 .. Blocks \div 2 |-> IF k <= Len(s) THEN s[k] ELSE NULL]
<1> DEFINE B == Blocks \div 2
           Step(f, k) == IF k = 1 THEN h[a].head
                         ELSE IF IsNode(h, f[k - 1]) THEN h[f[k - 1]].previous ELSE NULL
           w == [k \in 1 .. B |-> IF k <= Len(s) THEN s[k] ELSE NULL]
           g == CHOOSE f : f = [k \in 1 .. B |-> Step(f, k)]
<1>1. B \in Nat /\ Len(s) \in Nat /\ \A k \in 1 .. Len(s) : s[k] \in Addresses
  BY QueueAssumption DEF Linkage
<1>2. \A k \in 1 .. B : w[k] = Step(w, k)
  <2> SUFFICES ASSUME NEW k \in 1 .. B  PROVE w[k] = Step(w, k)
    OBVIOUS
  <2>1. CASE k = 1
    BY <2>1, <1>1 DEF Linkage, Ends
  <2>2. CASE k # 1 /\ k <= Len(s)
    <3>1. k - 1 \in 1 .. B /\ k - 1 \in 1 .. Len(s) /\ k - 1 # Len(s) /\ (k - 1) + 1 = k
      BY <2>2, <1>1
    <3>2. w[k - 1] = s[k - 1] /\ w[k] = s[k]
      BY <3>1, <2>2
    <3>3. IsNode(h, s[k - 1]) /\ h[s[k - 1]].previous = s[k]
      BY <3>1 DEF Linkage, Next1
    <3>4. QED
      BY <2>2, <3>2, <3>3
  <2>3. CASE k # 1 /\ k = Len(s) + 1
    <3>1. k - 1 \in 1 .. B /\ k - 1 \in 1 .. Len(s) /\ k - 1 = Len(s) /\ ~(k <= Len(s))
      BY <2>3, <1>1
    <3>2. w[k - 1] = s[k - 1] /\ w[k] = NULL
      BY <3>1
    <3>3. IsNode(h, s[k - 1]) /\ h[s[k - 1]].previous = NULL
      BY <3>1 DEF Linkage, Next1
    <3>4. QED
      BY <2>3, <3>2, <3>3
  <2>4. CASE k # 1 /\ k > Len(s) + 1
    <3>1. k - 1 \in 1 .. B /\ ~(k - 1 <= Len(s)) /\ ~(k <= Len(s))
      BY <2>4, <1>1
    <3>2. w[k - 1] = NULL /\ w[k] = NULL
      BY <3>1
    <3>3. ~IsNode(h, NULL)
      BY DEF IsNode, Linkage, NULL, Addresses
    <3>4. QED
      BY <2>4, <3>2, <3>3
  <2>5. QED
    BY <1>1, <2>1, <2>2, <2>3, <2>4
<1>3. w = [k \in 1 .. B |-> Step(w, k)]
  BY <1>2
<1>4. g = [k \in 1 .. B |-> Step(g, k)]
  <2> HIDE DEF w, Step
  <2>1. QED
    BY <1>3
<1>5. Walk(h, a) = g
  BY DEF Walk
<1> HIDE DEF w, g, B
<1>6. \A k \in 1 .. B : g[k] = w[k]
  <2> DEFINE D == {k \in 1 .. B : g[k] # w[k]}
  <2> SUFFICES ASSUME D # {}  PROVE FALSE
    OBVIOUS
  <2>1. PICK k \in D : \A l \in D : k <= l
    <3>1. D \subseteq Nat
      BY <1>1
    <3> HIDE DEF D
    <3>2. QED
      BY <3>1, Least
  <2>2. k \in 1 .. B /\ g[k] = Step(g, k) /\ w[k] = Step(w, k) /\ g[k] # w[k]
    <3> HIDE DEF Step
    <3>1. QED
      BY <1>2, <1>4
  <2>3. k = 1 \/ (k - 1 \in 1 .. B /\ k - 1 \notin D)
    BY <2>1, <2>2, <1>1
  <2>4. k = 1 \/ g[k - 1] = w[k - 1]
    BY <2>3
  <2>5. QED
    BY <2>2, <2>4
<1>7. QED
  <2>1. g = [k \in 1 .. B |-> g[k]] /\ w = [k \in 1 .. B |-> w[k]]
    BY <1>4, <1>3
  <2>2. g = w
    BY <1>6, <2>1
  <2>3. QED
    BY <2>2, <1>5 DEF w, B

\* The parts of a queue of n items are 2 n + 1 different blocks of the heap.
LEMMA Counted ==
  ASSUME NEW h, NEW a, NEW s, Chained(h, a, s)
  PROVE  /\ IsFiniteSet(PartsIn(h, a, s)) /\ PartsIn(h, a, s) \subseteq DOMAIN h
         /\ Cardinality(PartsIn(h, a, s)) = 1 + 2 * Len(s)
         /\ IsFiniteSet(ToSet(s)) /\ Cardinality(ToSet(s)) = Len(s)
         /\ Len(s) <= Blocks \div 2
<1> DEFINE n == Len(s)
           items == [k \in 1 .. n |-> h[s[k]].item]
           S == ToSet(s)
           T == ItemBlocks(h, s)
<1>1. n \in Nat /\ s \in [1 .. n -> Addresses] /\ DOMAIN s = 1 .. n
  BY DEF Chained, Linkage
<1>2. S = {s[k] : k \in 1 .. n}
  BY <1>1 DEF ToSet
<1>3. T = {items[k] : k \in 1 .. n}
  BY <1>2 DEF ItemBlocks
<1>4. items \in [1 .. n -> DOMAIN h] /\ \A k \in 1 .. n : s[k] \in DOMAIN h
  BY DEF Chained, Linkage, IsNode
<1>5. IsFiniteSet(S) /\ Cardinality(S) = n
  <2>1. \A k, l \in 1 .. n : s[k] = s[l] => k = l
    BY DEF Chained, Apart
  <2>2. s \in [1 .. n -> S] /\ \A x \in S : \E k \in 1 .. n : s[k] = x
    BY <1>1, <1>2
  <2> HIDE DEF n, S
  <2>3. QED
    BY <1>1, <2>1, <2>2, Numerous
<1>6. IsFiniteSet(T) /\ Cardinality(T) = n
  <2>1. \A k, l \in 1 .. n : items[k] = items[l] => k = l
    BY DEF Chained, Apart
  <2>2. items \in [1 .. n -> T] /\ \A x \in T : \E k \in 1 .. n : items[k] = x
    BY <1>3
  <2> HIDE DEF n, items, T
  <2>3. QED
    BY <1>1, <2>1, <2>2, Numerous
<1>7. S \cap T = {} /\ a \notin S \cup T
  BY <1>2, <1>3 DEF Chained, Apart
<1>8. S \subseteq DOMAIN h /\ T \subseteq DOMAIN h /\ a \in DOMAIN h /\ DOMAIN h \subseteq 1 .. Blocks
  BY <1>2, <1>3, <1>4 DEF Chained, Linkage, Addresses
<1> HIDE DEF n, items, S, T
<1>9. IsFiniteSet(S \cup T) /\ Cardinality(S \cup T) = n + n
  <2>1. Cardinality(S \cap T) = 0
    BY <1>7, FS_EmptySet
  <2>2. Cardinality(S \cup T) = n + n - 0 /\ IsFiniteSet(S \cup T)
    BY <1>5, <1>6, <2>1, FS_Union
  <2>3. QED
    BY <1>1, <2>2
<1> DEFINE U == S \cup T \cup {a}
<1>10. IsFiniteSet(U) /\ Cardinality(U) = n + n + 1
  <2> DEFINE V == S \cup T
  <2>1. IsFiniteSet(V) /\ Cardinality(V) = n + n /\ a \notin V
    BY <1>7, <1>9
  <2> HIDE DEF V
  <2>2. IsFiniteSet(V \cup {a}) /\ Cardinality(V \cup {a}) = n + n + 1
    BY <2>1, FS_AddElement
  <2>3. QED
    BY <2>2 DEF V
<1>11. PartsIn(h, a, s) = U
  BY DEF PartsIn, S, T
<1>12. n + n + 1 <= Blocks
  <2>1. IsFiniteSet(1 .. Blocks) /\ Cardinality(1 .. Blocks) = Blocks
    BY QueueAssumption, FS_Interval
  <2>2. U \in SUBSET (1 .. Blocks)
    BY <1>8
  <2> HIDE DEF U
  <2>3. Cardinality(U) <= Cardinality(1 .. Blocks)
    BY <2>1, <2>2, FS_Subset
  <2>4. QED
    BY <1>10, <2>1, <2>3
<1>13. U \subseteq DOMAIN h
  BY <1>8
<1> HIDE DEF U
<1>14. n + n + 1 = 1 + 2 * n /\ n <= Blocks \div 2
  BY <1>1, <1>12, QueueAssumption
<1>15. QED
  BY <1>5, <1>10, <1>11, <1>13, <1>14 DEF n, S

\* The nodes that the walk finds are those of the chain.
LEMMA NodesFound ==
  ASSUME NEW h, NEW a, NEW s, Chained(h, a, s)
  PROVE  NodesIn(h, a) = s
<1> DEFINE B == Blocks \div 2
           n == Len(s)
           w == [k \in 1 .. B |-> IF k <= n THEN s[k] ELSE NULL]
<1>1. n \in Nat /\ B \in Nat /\ n <= B /\ s \in Seq(Addresses)
  BY QueueAssumption, Counted DEF Chained, Linkage
<1>2. Walk(h, a) = w
  BY <1>1, Walked DEF Chained
<1>3. {k \in DOMAIN w : w[k] # NULL} = 1 .. n
  <2>1. \A k \in 1 .. n : s[k] # NULL
    BY <1>1, QueueAssumption DEF Addresses, NULL
  <2>2. QED
    BY <1>1, <2>1
<1>4. Cardinality(1 .. n) = n
  <2> HIDE DEF n
  <2>1. QED
    BY <1>1, FS_Interval
<1>5. \A k \in 1 .. n : w[k] = s[k] /\ s[k] \in Addresses
  BY <1>1
<1> HIDE DEF w
<1>6. NodesIn(h, a) = SubSeq(w, 1, n)
  BY <1>2, <1>3, <1>4 DEF NodesIn
<1>7. /\ SubSeq(w, 1, n) \in Seq(Addresses) /\ Len(SubSeq(w, 1, n)) = IF 1 <= n THEN n - 1 + 1 ELSE 0
      /\ \A k \in 1 .. n - 1 + 1 : SubSeq(w, 1, n)[k] = w[1 + k - 1]
  <2> HIDE DEF n
  <2>1. \A k \in 1 .. n : w[k] \in Addresses
    BY <1>5
  <2>2. 1 \in Int /\ n \in Int
    BY <1>1
  <2> DEFINE one == 1
  <2> HIDE DEF one
  <2>3. one \in Int /\ \A k \in one .. n : w[k] \in Addresses
    BY <2>1, <2>2 DEF one
  <2>4. /\ SubSeq(w, one, n) \in Seq(Addresses) /\ Len(SubSeq(w, one, n)) = IF one <= n THEN n - one + 1 ELSE 0
        /\ \A k \in 1 .. n - one + 1 : SubSeq(w, one, n)[k] = w[one + k - 1]
    BY <2>2, <2>3, SubSeqProperties
  <2>5. QED
    BY <2>4 DEF one
<1>8. Len(SubSeq(w, 1, n)) = n /\ \A k \in 1 .. n : SubSeq(w, 1, n)[k] = s[k]
  BY <1>1, <1>5, <1>7
<1>9. SubSeq(w, 1, n) = s
  <2> DEFINE v == SubSeq(w, 1, n)
  <2>1. v \in Seq(Addresses) /\ Len(v) = Len(s) /\ \A k \in 1 .. Len(v) : v[k] = s[k]
    BY <1>7, <1>8
  <2> HIDE DEF v
  <2>2. v = s
    BY <1>1, <2>1, SeqEqual
  <2>3. QED
    BY <2>2 DEF v
<1>10. QED
  BY <1>6, <1>9

(***************************************************************************)
(* malloc: the blocks that one call allocates are free and different.      *)
(***************************************************************************)
\* T is the free blocks below some address.
Lowest(T) == T \subseteq Free /\ \A t \in T, b \in Free : b < t => b \in T

Below(a) == {b \in Free : b < a}

LEMMA NextLowest ==
  ASSUME NEW T, Lowest(T), Free # T
  PROVE  \E a \in Free \ T : Below(a) = T /\ Lowest(T \cup {a})
<1>1. Free \subseteq Nat
  BY QueueAssumption DEF Free, Addresses
<1>2. PICK a \in Free \ T : \A b \in Free \ T : a <= b
  <2> DEFINE S == Free \ T
  <2>1. S \subseteq Nat /\ S # {}
    BY <1>1 DEF Lowest
  <2> HIDE DEF S
  <2>2. \E a \in S : \A b \in S : a <= b
    BY <2>1, Least
  <2>3. QED
    BY <2>2 DEF S
<1>3. \A b \in Free : b < a => b \in T
  BY <1>1, <1>2
<1>4. \A t \in T : t \in Free /\ t < a
  <2> SUFFICES ASSUME NEW t \in T  PROVE t \in Free /\ t < a
    OBVIOUS
  <2>1. t \in Free /\ t # a
    BY DEF Lowest
  <2>2. ~(a < t)
    BY DEF Lowest
  <2>3. QED
    BY <1>1, <2>1, <2>2
<1>5. Below(a) = T
  BY <1>3, <1>4 DEF Below
<1>6. Lowest(T \cup {a})
  BY <1>3 DEF Lowest
<1>7. QED
  BY <1>5, <1>6

\* Fresh(k) is free, and k - 1 free blocks are below it.
IsFresh(k) == Fresh(k) \in Free /\ Cardinality(Below(Fresh(k))) = k - 1

LEMMA FreshIs ==
  ASSUME NEW k \in Nat, NEW a \in Free, Cardinality(Below(a)) = k - 1
  PROVE  IsFresh(k)
BY DEF IsFresh, Fresh, Below

LEMMA FreshBlocks ==
  /\ Cardinality(Free) >= 2 => IsFresh(1) /\ IsFresh(2) /\ Fresh(1) # Fresh(2)
  /\ Cardinality(Free) >= 3 =>
       /\ IsFresh(1) /\ IsFresh(2) /\ IsFresh(3)
       /\ Fresh(1) # Fresh(2) /\ Fresh(1) # Fresh(3) /\ Fresh(2) # Fresh(3)
<1>1. IsFiniteSet(Free)
  <2>1. IsFiniteSet(1 .. Blocks)
    BY QueueAssumption, FS_Interval
  <2>2. Free \in SUBSET (1 .. Blocks)
    BY DEF Free, Addresses
  <2>3. QED
    BY <2>1, <2>2, FS_Subset
<1>2. Cardinality({}) = 0 /\ \A x : IsFiniteSet({x}) /\ Cardinality({x}) = 1
  BY FS_EmptySet, FS_Singleton
<1>3. ASSUME NEW j \in Nat, NEW k \in Nat, IsFresh(j), IsFresh(k), j # k
      PROVE  Fresh(j) # Fresh(k)
  BY <1>3 DEF IsFresh
<1>4. ASSUME Cardinality(Free) >= 2
      PROVE  \E a \in Free : \E b \in Free \ {a} : Below(a) = {} /\ Below(b) = {a} /\ Lowest({a, b})
  <2>1. Free # {} /\ \A x : Free # {x}
    <3>1. ~(0 >= 2) /\ ~(1 >= 2)
      OBVIOUS
    <3>2. QED
      BY <1>2, <1>4, <3>1, Zenon
  <2>2. Lowest({})
    BY DEF Lowest
  <2>3. PICK a \in Free : Below(a) = {} /\ Lowest({} \cup {a})
    BY <2>1, <2>2, NextLowest
  <2>4. Lowest({a})
    <3>1. {} \cup {a} = {a}
      OBVIOUS
    <3>2. QED
      BY <2>3, <3>1
  <2>5. PICK b \in Free \ {a} : Below(b) = {a} /\ Lowest({a} \cup {b})
    BY <2>1, <2>4, NextLowest
  <2>6. {a} \cup {b} = {a, b}
    OBVIOUS
  <2>7. QED
    BY <2>3, <2>5, <2>6
<1>5. ASSUME Cardinality(Free) >= 2
      PROVE  IsFresh(1) /\ IsFresh(2) /\ Fresh(1) # Fresh(2)
  <2>1. PICK a \in Free, b \in Free : Below(a) = {} /\ Below(b) = {a}
    BY <1>4, <1>5
  <2>2. IsFresh(1)
    <3>1. Cardinality(Below(a)) = 1 - 1
      BY <1>2, <2>1
    <3>2. QED
      BY <3>1, FreshIs
  <2>3. IsFresh(2)
    <3>1. Cardinality(Below(b)) = 2 - 1
      BY <1>2, <2>1
    <3>2. QED
      BY <3>1, FreshIs
  <2>4. QED
    BY <1>3, <2>2, <2>3
<1>6. ASSUME Cardinality(Free) >= 3
      PROVE  IsFresh(3)
  <2>1. Cardinality(Free) >= 2
    <3>1. Cardinality(Free) \in Nat
      BY <1>1, FS_CardinalityType
    <3>2. QED
      BY <1>6, <3>1
  <2>2. PICK a \in Free : \E b \in Free \ {a} : Lowest({a, b})
    BY <1>4, <2>1
  <2>3. PICK b \in Free \ {a} : Lowest({a, b})
    BY <2>2
  <2>4. Cardinality({a, b}) = 2
    <3>1. {a, b} = {a} \cup {b}
      OBVIOUS
    <3>2. Cardinality({a} \cup {b}) = Cardinality({a}) + 1
      BY <1>2, FS_AddElement
    <3>3. QED
      BY <1>2, <3>1, <3>2
  <2>5. Free # {a, b}
    BY <1>6, <2>4
  <2>6. PICK c \in Free : Below(c) = {a, b}
    BY <2>3, <2>5, NextLowest
  <2>7. Cardinality(Below(c)) = 3 - 1
    BY <2>4, <2>6
  <2>8. QED
    BY <2>7, FreshIs
<1>7. Cardinality(Free) >= 3 => Cardinality(Free) >= 2
  BY <1>1, FS_CardinalityType
<1>8. ASSUME Cardinality(Free) >= 3
      PROVE  Fresh(1) # Fresh(3) /\ Fresh(2) # Fresh(3)
  BY <1>3, <1>5, <1>6, <1>7, <1>8
<1>9. QED
  BY <1>5, <1>6, <1>7, <1>8

(***************************************************************************)
(* What each call does to the chain it works on, and to the others.        *)
(***************************************************************************)
\* The items of chain s in heap h, oldest first.
Values(h, s) == [k \in DOMAIN s |-> h[h[s[k]].item]]

LEMMA PartsAre ==
  ASSUME NEW h, NEW a, NEW s, Linkage(h, a, s)
  PROVE  /\ Len(s) \in Nat /\ s \in Seq(Addresses) /\ DOMAIN s = 1 .. Len(s)
         /\ ToSet(s) = {s[k] : k \in 1 .. Len(s)}
         /\ ItemBlocks(h, s) = {h[s[k]].item : k \in 1 .. Len(s)}
         /\ a \in PartsIn(h, a, s)
         /\ \A k \in 1 .. Len(s) : s[k] \in PartsIn(h, a, s) /\ h[s[k]].item \in PartsIn(h, a, s)
         /\ \A b \in PartsIn(h, a, s) :
              b = a \/ \E k \in 1 .. Len(s) : b = s[k] \/ b = h[s[k]].item
<1>1. Len(s) \in Nat /\ s \in Seq(Addresses) /\ DOMAIN s = 1 .. Len(s)
  BY DEF Linkage
<1>2. ToSet(s) = {s[k] : k \in 1 .. Len(s)}
  BY <1>1 DEF ToSet
<1>3. ItemBlocks(h, s) = {h[s[k]].item : k \in 1 .. Len(s)}
  BY <1>2 DEF ItemBlocks
<1>4. QED
  BY <1>1, <1>2, <1>3 DEF PartsIn

LEMMA Untouched ==
  ASSUME NEW h, NEW g, NEW a, NEW s, Chained(h, a, s), DOMAIN g \subseteq Addresses,
         \A b \in PartsIn(h, a, s) : b \in DOMAIN g /\ g[b] = h[b]
  PROVE  /\ Chained(g, a, s)
         /\ PartsIn(g, a, s) = PartsIn(h, a, s)
         /\ Values(g, s) = Values(h, s)
<1>1. Linkage(h, a, s)
  BY DEF Chained
<1>2. /\ Len(s) \in Nat /\ s \in Seq(Addresses) /\ DOMAIN s = 1 .. Len(s)
      /\ ToSet(s) = {s[k] : k \in 1 .. Len(s)}
      /\ a \in DOMAIN g /\ g[a] = h[a]
      /\ \A k \in 1 .. Len(s) : /\ s[k] \in DOMAIN g /\ g[s[k]] = h[s[k]]
                                /\ h[s[k]].item \in DOMAIN g
                                /\ g[h[s[k]].item] = h[h[s[k]].item]
  BY <1>1, PartsAre
<1>3. Linkage(g, a, s)
  BY <1>1, <1>2 DEF Linkage, IsNode
<1>4. Apart(g, a, s)
  BY <1>2 DEF Chained, Apart
<1>5. ItemBlocks(g, s) = ItemBlocks(h, s)
  BY <1>2 DEF ItemBlocks
<1>6. Values(g, s) = Values(h, s)
  BY <1>2 DEF Values
<1>7. QED
  BY <1>3, <1>4, <1>5, <1>6 DEF Chained, PartsIn

\* The heap after push of x on the queue at a, in these two blocks.
PushedHeap(h, a, new, item, x) ==
  Linked(With(With(h, item, x), new, [previous |-> NULL, item |-> item]), a, new)

\* Heap g with chain t is heap h with chain s and one item more.
Extends(h, a, s, new, item, x, g, t) ==
  /\ Chained(g, a, t)
  /\ DOMAIN g = DOMAIN h \cup {new, item}
  /\ \A b \in DOMAIN h \ PartsIn(h, a, s) : g[b] = h[b]
  /\ PartsIn(g, a, t) = PartsIn(h, a, s) \cup {new, item}
  /\ Values(g, t) = Append(Values(h, s), x)

\* push: the new node is the last, and the rest of the heap is as it was.
LEMMA Pushed ==
  ASSUME NEW h, NEW a, NEW s, Chained(h, a, s),
         NEW new \in Addresses, new \notin DOMAIN h, NEW item \in Addresses, item \notin DOMAIN h,
         new # item, NEW x \in Items
  PROVE  Extends(h, a, s, new, item, x, PushedHeap(h, a, new, item, x), Append(s, new))
<1> DEFINE h1 == With(With(h, item, x), new, [previous |-> NULL, item |-> item])
           g == PushedHeap(h, a, new, item, x)
           t == Append(s, new)
           n == Len(s)
<1>1. Linkage(h, a, s) /\ Apart(h, a, s)
  BY DEF Chained
<1>2. /\ n \in Nat /\ s \in Seq(Addresses) /\ DOMAIN s = 1 .. n
      /\ ToSet(s) = {s[k] : k \in 1 .. n}
      /\ ItemBlocks(h, s) = {h[s[k]].item : k \in 1 .. n}
      /\ \A k \in 1 .. n : s[k] \in PartsIn(h, a, s) /\ h[s[k]].item \in PartsIn(h, a, s)
      /\ a \in PartsIn(h, a, s)
  BY <1>1, PartsAre
<1>3. /\ t \in Seq(Addresses) /\ Len(t) = n + 1 /\ t[n + 1] = new /\ t # <<>>
      /\ \A k \in 1 .. n : t[k] = s[k] /\ s[k] \in Addresses
  BY <1>2
<1>4. /\ DOMAIN h1 = DOMAIN h \cup {new, item}
      /\ h1[new] = [previous |-> NULL, item |-> item] /\ h1[item] = x
      /\ \A b \in DOMAIN h : h1[b] = h[b]
  BY DEF With
<1>5. /\ a \in DOMAIN h /\ h[a] = Ends(s) /\ DOMAIN h \subseteq Addresses
      /\ \A k \in 1 .. n : /\ s[k] \in DOMAIN h /\ h[s[k]] \in Node /\ h[s[k]].previous = Next1(s, k)
                           /\ h[s[k]].item \in DOMAIN h /\ h[h[s[k]].item] \in Items
  BY <1>1 DEF Linkage, IsNode
<1>6. g = Linked(h1, a, new)
  BY DEF PushedHeap
<1> HIDE DEF h1, g
<1>7. s = <<>> <=> n = 0
  BY <1>2
<1>8. s # <<>> => s[1] # NULL /\ n \in 1 .. n /\ n - 1 + 1 = n
  <2>1. s # <<>> => 1 \in 1 .. n /\ n \in 1 .. n
    BY <1>2, <1>7
  <2>2. QED
    BY <2>1, <1>2, <1>3, QueueAssumption DEF Addresses, NULL
<1>9. Ends(t) = [tail |-> new, head |-> IF s = <<>> THEN new ELSE s[1]]
  <2>1. s = <<>> => t[1] = new
    BY <1>3, <1>7
  <2>2. s # <<>> => t[1] = s[1]
    BY <1>3, <1>2, <1>7
  <2>3. QED
    BY <1>3, <2>1, <2>2 DEF Ends
<1>10. \A k \in 1 .. n : s[k] # a /\ \A l \in 1 .. n : s[k] = s[l] => k = l
  BY <1>1 DEF Apart
<1>11. DOMAIN g = DOMAIN h \cup {new, item}
  BY <1>4, <1>6 DEF Linked
<1>12. g[a] = Ends(t)
  <2>1. CASE s = <<>>
    <3>1. h1[a].head = NULL
      BY <2>1, <1>4, <1>5 DEF Ends
    <3>2. g[a] = [tail |-> new, head |-> new]
      BY <3>1, <1>4, <1>5, <1>6 DEF Linked
    <3>3. QED
      BY <2>1, <3>2, <1>9
  <2>2. CASE s # <<>>
    <3>1. h1[a].head # NULL /\ h1[a].tail = s[n] /\ h1[a] = [tail |-> s[n], head |-> s[1]]
      BY <2>2, <1>4, <1>5, <1>8 DEF Ends
    <3>2. g[a] = [h1[a] EXCEPT !.tail = new]
      BY <3>1, <2>2, <1>4, <1>5, <1>8, <1>10, <1>6 DEF Linked
    <3>3. QED
      BY <2>2, <3>1, <3>2, <1>9
  <2>3. QED
    BY <2>1, <2>2
<1>13. g[new] = [previous |-> NULL, item |-> item] /\ g[item] = x
  <2>1. new # a /\ item # a /\ \A k \in 1 .. n : s[k] # new /\ s[k] # item
    BY <1>5
  <2>2. CASE s = <<>>
    <3>1. h1[a].head = NULL
      BY <2>2, <1>4, <1>5 DEF Ends
    <3>2. QED
      BY <2>1, <3>1, <1>4, <1>6 DEF Linked
  <2>3. CASE s # <<>>
    <3>1. h1[a].head # NULL /\ h1[a].tail = s[n]
      BY <2>3, <1>4, <1>5, <1>8 DEF Ends
    <3>2. QED
      BY <2>1, <2>3, <3>1, <1>4, <1>8, <1>6 DEF Linked
  <2>4. QED
    BY <2>2, <2>3
<1>14. \A b \in DOMAIN h : b # a /\ (\A k \in 1 .. n : s[k] # b) => g[b] = h[b]
  <2> SUFFICES ASSUME NEW b \in DOMAIN h, b # a, \A k \in 1 .. n : s[k] # b
               PROVE  g[b] = h[b]
    OBVIOUS
  <2>1. CASE s = <<>>
    <3>1. h1[a].head = NULL
      BY <2>1, <1>4, <1>5 DEF Ends
    <3>2. QED
      BY <3>1, <1>4, <1>6 DEF Linked
  <2>2. CASE s # <<>>
    <3>1. h1[a].head # NULL /\ h1[a].tail = s[n]
      BY <2>2, <1>4, <1>5, <1>8 DEF Ends
    <3>2. QED
      BY <2>2, <3>1, <1>4, <1>8, <1>6 DEF Linked
  <2>3. QED
    BY <2>1, <2>2
<1>15. \A k \in 1 .. n : /\ g[s[k]] \in Node /\ g[s[k]].item = h[s[k]].item
                         /\ g[s[k]].previous = Next1(t, k)
  <2> SUFFICES ASSUME NEW k \in 1 .. n
               PROVE  /\ g[s[k]] \in Node /\ g[s[k]].item = h[s[k]].item
                      /\ g[s[k]].previous = Next1(t, k)
    OBVIOUS
  <2>1. s # <<>>
    BY <1>7, <1>2
  <2>2. h1[a].head # NULL /\ h1[a].tail = s[n]
    BY <2>1, <1>4, <1>5, <1>8 DEF Ends
  <2>3. g = [h1 EXCEPT ![s[n]].previous = new, ![a].tail = new]
    BY <2>2, <1>6 DEF Linked
  <2>4. s[k] \in DOMAIN h1 /\ h1[s[k]] = h[s[k]] /\ s[k] # a /\ s[n] \in DOMAIN h1 /\ s[n] # a
    BY <2>1, <1>4, <1>5, <1>8, <1>10
  <2>5. CASE k = n
    <3>1. g[s[k]] = [h[s[k]] EXCEPT !.previous = new]
      BY <2>3, <2>4, <2>5
    <3>2. Next1(t, k) = new
      BY <2>5, <1>2, <1>3 DEF Next1
    <3>3. h[s[k]] \in Node /\ new \in 0 .. Blocks
      BY <1>5, QueueAssumption DEF Addresses
    <3>4. QED
      BY <3>1, <3>2, <3>3 DEF Node
  <2>6. CASE k # n
    <3>1. s[k] # s[n]
      BY <2>1, <2>6, <1>8, <1>10
    <3>2. g[s[k]] = h[s[k]]
      BY <2>3, <2>4, <3>1
    <3>3. k + 1 \in 1 .. n /\ k # n + 1
      <4>1. n \in Nat /\ k \in 1 .. n
        BY <1>2
      <4> HIDE DEF n
      <4>2. QED
        BY <2>6, <4>1
    <3>4. Next1(t, k) = Next1(s, k)
      BY <2>6, <3>3, <1>3 DEF Next1
    <3>5. QED
      BY <3>2, <3>4, <1>5
  <2>7. QED
    BY <2>5, <2>6
<1>16. \A k \in 1 .. n : g[h[s[k]].item] = h[h[s[k]].item]
  BY <1>1, <1>5, <1>14 DEF Apart
<1>17. \A k \in 1 .. n + 1 : t[k] = IF k = n + 1 THEN new ELSE s[k]
  BY <1>2, <1>3
<1>18. \A k \in 1 .. n + 1 : k # n + 1 => k \in 1 .. n
  BY <1>2
<1>19. g[new] \in Node /\ Next1(t, n + 1) = NULL
  BY <1>3, <1>13, QueueAssumption DEF Node, Addresses, NULL, Next1
<1>20. Linkage(g, a, t)
  <2>1. DOMAIN g \subseteq Addresses /\ a \in DOMAIN g /\ g[a] = Ends(t)
    BY <1>5, <1>11, <1>12
  <2>2. ASSUME NEW k \in 1 .. Len(t)
        PROVE  /\ IsNode(g, t[k]) /\ g[t[k]].previous = Next1(t, k)
               /\ g[t[k]].item \in DOMAIN g /\ g[g[t[k]].item] \in Items
    <3>1. CASE k = n + 1
      BY <3>1, <1>3, <1>11, <1>13, <1>19 DEF IsNode
    <3>2. CASE k # n + 1
      <4>1. k \in 1 .. n /\ t[k] = s[k]
        BY <3>2, <1>3, <1>17, <1>18
      <4>2. QED
        BY <4>1, <1>5, <1>11, <1>15, <1>16 DEF IsNode
    <3>3. QED
      BY <3>1, <3>2
  <2>3. QED
    BY <1>3, <2>1, <2>2 DEF Linkage
<1>21. \A k \in 1 .. n + 1 : g[t[k]].item = IF k = n + 1 THEN item ELSE h[s[k]].item
  BY <1>13, <1>15, <1>17, <1>18
<1>22. Apart(g, a, t)
  <2>1. /\ \A k \in 1 .. n : /\ new # s[k] /\ item # s[k] /\ new # h[s[k]].item /\ item # h[s[k]].item
        /\ a # new /\ a # item
    BY <1>5
  <2>2. \A k, l \in 1 .. n + 1 : t[k] = t[l] \/ g[t[k]].item = g[t[l]].item => k = l
    BY <1>1, <1>17, <1>18, <1>21, <2>1 DEF Apart
  <2>3. \A k, l \in 1 .. n + 1 : t[k] # g[t[l]].item
    BY <1>1, <1>17, <1>18, <1>21, <2>1 DEF Apart
  <2>4. \A k \in 1 .. n + 1 : t[k] # a /\ g[t[k]].item # a
    BY <1>1, <1>17, <1>18, <1>21, <2>1 DEF Apart
  <2>5. QED
    BY <1>3, <2>2, <2>3, <2>4 DEF Apart
<1>23. PartsIn(g, a, t) = PartsIn(h, a, s) \cup {new, item}
  <2>1. ToSet(t) = ToSet(s) \cup {new}
    <3>1. ToSet(t) = {t[k] : k \in 1 .. n + 1}
      <4>1. Len(t) = n + 1
        BY <1>3
      <4> HIDE DEF t, n
      <4>2. ToSet(t) = {t[k] : k \in 1 .. Len(t)}
        BY <1>20, PartsAre
      <4>3. QED
        BY <4>1, <4>2
    <3>2. \A k \in 1 .. n : k \in 1 .. n + 1 /\ k # n + 1
      BY <1>2
    <3>3. n + 1 \in 1 .. n + 1
      BY <1>2
    <3>4. QED
      BY <1>2, <1>17, <1>18, <3>1, <3>2, <3>3
  <2>2. ItemBlocks(g, t) = ItemBlocks(h, s) \cup {item}
    <3>1. ItemBlocks(g, t) = {g[t[k]].item : k \in 1 .. n + 1}
      <4>1. Len(t) = n + 1
        BY <1>3
      <4> HIDE DEF t, n
      <4>2. ItemBlocks(g, t) = {g[t[k]].item : k \in 1 .. Len(t)}
        BY <1>20, PartsAre
      <4>3. QED
        BY <4>1, <4>2
    <3>2. \A k \in 1 .. n : k \in 1 .. n + 1 /\ k # n + 1
      BY <1>2
    <3>3. n + 1 \in 1 .. n + 1
      BY <1>2
    <3>4. QED
      BY <1>2, <1>18, <1>21, <3>1, <3>2, <3>3
  <2>3. QED
    BY <2>1, <2>2 DEF PartsIn
<1>24. Values(g, t) = Append(Values(h, s), x)
  <2> DEFINE v == Values(h, s)
             w == Values(g, t)
  <2>1. v \in Seq(Items) /\ Len(v) = n /\ \A k \in 1 .. n : v[k] = h[h[s[k]].item]
    BY <1>2, <1>5 DEF Values
  <2>2. DOMAIN w = 1 .. n + 1 /\ \A k \in 1 .. n + 1 : w[k] = g[g[t[k]].item]
    BY <1>2, <1>3 DEF Values
  <2>3. \A k \in 1 .. n + 1 : w[k] = IF k = n + 1 THEN x ELSE v[k]
    BY <1>13, <1>16, <1>18, <1>21, <2>1, <2>2
  <2>4. w = [k \in 1 .. n + 1 |-> w[k]]
    BY <2>2 DEF Values
  <2> HIDE DEF v, w
  <2>5. /\ Append(v, x) \in Seq(Items) /\ Len(Append(v, x)) = n + 1
        /\ \A k \in 1 .. n : Append(v, x)[k] = v[k]
        /\ Append(v, x)[n + 1] = x
    BY <2>1, AppendProperties
  <2>6. w = Append(v, x)
    <3>1. w \in Seq(Items) /\ Len(w) = n + 1
      <4>1. n + 1 \in Nat /\ \A k \in 1 .. n + 1 : w[k] \in Items
        BY <1>2, <1>18, <2>1, <2>3
      <4>2. QED
        BY <2>2, <2>4, <4>1
    <3>2. \A k \in 1 .. n + 1 : w[k] = Append(v, x)[k]
      BY <1>18, <2>3, <2>5
    <3>3. QED
      BY <2>5, <3>1, <3>2, SeqEqual
  <2>7. QED
    BY <2>6 DEF v, w
<1>25. \A b \in DOMAIN h \ PartsIn(h, a, s) : g[b] = h[b]
  BY <1>2, <1>14
<1>26. QED
  BY <1>11, <1>20, <1>22, <1>23, <1>24, <1>25 DEF Chained, Extends, g

\* Heap g with chain t is the heap with chain s without the first item.
Shortens(a, s, gone, g, t) ==
  /\ gone \subseteq PartsIn(heap, a, s)
  /\ Chained(g, a, t)
  /\ DOMAIN g = DOMAIN heap \ gone
  /\ \A b \in DOMAIN heap \ PartsIn(heap, a, s) : g[b] = heap[b]
  /\ PartsIn(g, a, t) = PartsIn(heap, a, s) \ gone
  /\ Values(heap, s) = <<heap[heap[s[1]].item]>> \o Values(g, t)

\* pop: the first node and its item are given back, and the rest stays.
LEMMA Popped ==
  ASSUME NEW a, NEW s, Chained(heap, a, s), s # <<>>
  PROVE  Shortens(a, s, {s[1], heap[s[1]].item}, Unlinked(a), Tail(s))
<1> DEFINE h == heap
           g == Unlinked(a)
           t == Tail(s)
           n == Len(s)
           gone == {s[1], h[s[1]].item}
<1>1. Linkage(h, a, s) /\ Apart(h, a, s)
  BY DEF Chained
<1>2. /\ n \in Nat /\ s \in Seq(Addresses) /\ DOMAIN s = 1 .. n
      /\ ToSet(s) = {s[k] : k \in 1 .. n}
      /\ ItemBlocks(h, s) = {h[s[k]].item : k \in 1 .. n}
      /\ \A k \in 1 .. n : s[k] \in PartsIn(h, a, s) /\ h[s[k]].item \in PartsIn(h, a, s)
      /\ a \in PartsIn(h, a, s)
  BY <1>1, PartsAre
<1>3. n # 0 /\ n - 1 \in Nat /\ 1 \in 1 .. n /\ n \in 1 .. n
  BY <1>2
<1>4. t \in Seq(Addresses) /\ Len(t) = n - 1 /\ \A k \in 1 .. n - 1 : t[k] = s[k + 1]
  BY <1>2, HeadTailProperties
<1>5. \A k \in 1 .. n - 1 : k + 1 \in 1 .. n /\ k + 1 # 1
  <2> HIDE DEF n
  <2>1. QED
    BY <1>2
<1>6. \A k \in 1 .. n : k = 1 \/ (k - 1 \in 1 .. n - 1 /\ (k - 1) + 1 = k)
  <2> HIDE DEF n
  <2>1. QED
    BY <1>2
<1>7. /\ a \in DOMAIN h /\ h[a] = Ends(s) /\ DOMAIN h \subseteq Addresses
      /\ \A k \in 1 .. n : /\ s[k] \in DOMAIN h /\ h[s[k]] \in Node /\ h[s[k]].previous = Next1(s, k)
                           /\ h[s[k]].item \in DOMAIN h /\ h[h[s[k]].item] \in Items
  BY <1>1 DEF Linkage, IsNode
<1>8. /\ \A k, l \in 1 .. n : s[k] = s[l] \/ h[s[k]].item = h[s[l]].item => k = l
      /\ \A k, l \in 1 .. n : s[k] # h[s[l]].item
      /\ \A k \in 1 .. n : s[k] # a /\ h[s[k]].item # a
  BY <1>1 DEF Apart
<1>9. h[a] = [tail |-> s[n], head |-> s[1]]
  BY <1>7 DEF Ends
<1>10. \A k \in 1 .. n : s[k] # NULL
  BY <1>2, QueueAssumption DEF Addresses, NULL
<1>11. DOMAIN g = DOMAIN h \ gone
  BY <1>9 DEF Unlinked, Without
<1>12. \A b \in DOMAIN h \ gone : b # a => g[b] = h[b]
  BY <1>9 DEF Unlinked, Without
<1>13. g[a] = [tail |-> IF Next1(s, 1) = NULL THEN NULL ELSE s[n], head |-> Next1(s, 1)]
  <2>1. a \in DOMAIN h \ gone /\ h[s[1]].previous = Next1(s, 1)
    BY <1>3, <1>7, <1>8
  <2>2. QED
    BY <1>9, <2>1 DEF Unlinked, Without
<1> HIDE DEF g, t, n
<1>14. g[a] = Ends(t)
  <2>1. CASE n = 1
    <3>1. t = <<>> /\ Next1(s, 1) = NULL
      BY <2>1, <1>4 DEF Next1, n
    <3>2. QED
      BY <3>1, <1>13 DEF Ends
  <2>2. CASE n # 1
    <3>1. n - 1 \in 1 .. n - 1 /\ 1 \in 1 .. n - 1 /\ n - 1 + 1 = n /\ 1 + 1 \in 1 .. n
      BY <2>2, <1>2, <1>3
    <3>2. t # <<>> /\ t[Len(t)] = s[n] /\ t[1] = s[1 + 1]
      BY <3>1, <1>4
    <3>3. Next1(s, 1) = s[1 + 1]
      BY <2>2 DEF Next1, n
    <3>4. s[1 + 1] # NULL
      BY <3>1, <1>10
    <3>5. QED
      BY <3>2, <3>3, <3>4, <1>13 DEF Ends
  <2>3. QED
    BY <2>1, <2>2
<1>15. \A k \in 1 .. n - 1 :
         /\ t[k] = s[k + 1] /\ k + 1 \in 1 .. n
         /\ t[k] \in DOMAIN g /\ g[t[k]] = h[t[k]]
         /\ h[t[k]].item \in DOMAIN g /\ g[h[t[k]].item] = h[h[t[k]].item]
  <2> SUFFICES ASSUME NEW k \in 1 .. n - 1
               PROVE  /\ t[k] = s[k + 1] /\ k + 1 \in 1 .. n
                      /\ t[k] \in DOMAIN g /\ g[t[k]] = h[t[k]]
                      /\ h[t[k]].item \in DOMAIN g /\ g[h[t[k]].item] = h[h[t[k]].item]
    OBVIOUS
  <2> DEFINE j == k + 1
  <2>1. j \in 1 .. n /\ j # 1 /\ t[k] = s[j]
    BY <1>4, <1>5
  <2> HIDE DEF j
  <2>2. s[j] \in DOMAIN h \ gone /\ s[j] # a
    BY <2>1, <1>3, <1>7, <1>8
  <2>3. h[s[j]].item \in DOMAIN h \ gone /\ h[s[j]].item # a
    BY <2>1, <1>3, <1>7, <1>8
  <2>4. QED
    BY <2>1, <2>2, <2>3, <1>11, <1>12 DEF j
<1>16. \A k \in 1 .. n - 1 : Next1(s, k + 1) = Next1(t, k)
  <2> SUFFICES ASSUME NEW k \in 1 .. n - 1  PROVE Next1(s, k + 1) = Next1(t, k)
    OBVIOUS
  <2>1. CASE k = n - 1
    <3>1. k + 1 = n /\ k = Len(t)
      BY <2>1, <1>2, <1>4
    <3>2. QED
      BY <3>1 DEF Next1, n
  <2>2. CASE k # n - 1
    <3>1. k + 1 \in 1 .. n - 1 /\ k + 1 # n /\ k # Len(t)
      BY <2>2, <1>2, <1>4
    <3>2. QED
      BY <3>1, <1>4 DEF Next1, n
  <2>3. QED
    BY <2>1, <2>2
<1>17. Linkage(g, a, t)
  <2>1. DOMAIN g \subseteq Addresses /\ a \in DOMAIN g
    BY <1>3, <1>7, <1>8, <1>11
  <2>2. ASSUME NEW k \in 1 .. n - 1
        PROVE  /\ IsNode(g, t[k]) /\ g[t[k]].previous = Next1(t, k)
               /\ g[t[k]].item \in DOMAIN g /\ g[g[t[k]].item] \in Items
    BY <1>7, <1>15, <1>16 DEF IsNode
  <2>3. QED
    BY <1>4, <1>14, <2>1, <2>2 DEF Linkage
<1>18. Apart(g, a, t)
  <2>1. \A k, l \in 1 .. n - 1 : k + 1 = l + 1 => k = l
    BY <1>2
  <2>2. \A k, l \in 1 .. n - 1 : t[k] = t[l] \/ g[t[k]].item = g[t[l]].item => k = l
    BY <1>8, <1>15, <2>1
  <2>3. \A k, l \in 1 .. n - 1 : t[k] # g[t[l]].item
    BY <1>8, <1>15
  <2>4. \A k \in 1 .. n - 1 : t[k] # a /\ g[t[k]].item # a
    BY <1>8, <1>15
  <2>5. QED
    BY <1>4, <2>2, <2>3, <2>4 DEF Apart
<1>19. PartsIn(g, a, t) = PartsIn(h, a, s) \ gone
  <2>1. ToSet(t) = {t[k] : k \in 1 .. n - 1}
    <3>1. ToSet(t) = {t[k] : k \in 1 .. Len(t)}
      BY <1>17, PartsAre
    <3>2. QED
      BY <3>1, <1>4
  <2>2. ItemBlocks(g, t) = {g[t[k]].item : k \in 1 .. n - 1}
    <3>1. ItemBlocks(g, t) = {g[t[k]].item : k \in 1 .. Len(t)}
      BY <1>17, PartsAre
    <3>2. QED
      BY <3>1, <1>4
  <2> DEFINE j(k) == k - 1
  <2>3. \A k \in 1 .. n : k = 1 \/ (j(k) \in 1 .. n - 1 /\ t[j(k)] = s[k] /\ g[t[j(k)]].item = h[s[k]].item)
    BY <1>6, <1>15
  <2>4. \A k \in 1 .. n - 1 : \E l \in 1 .. n : t[k] = s[l] /\ g[t[k]].item = h[s[l]].item
    BY <1>15
  <2> HIDE DEF j
  <2>5. ToSet(s) = ToSet(t) \cup {s[1]}
    BY <2>1, <2>3, <2>4, <1>2, <1>3
  <2>6. ItemBlocks(h, s) = ItemBlocks(g, t) \cup {h[s[1]].item}
    <3>1. \A k \in 1 .. n : h[s[k]].item \in ItemBlocks(g, t) \cup {h[s[1]].item}
      BY <2>2, <2>3
    <3>2. \A k \in 1 .. n - 1 : g[t[k]].item \in ItemBlocks(h, s)
      BY <2>4, <1>2
    <3>3. h[s[1]].item \in ItemBlocks(h, s)
      BY <1>2, <1>3
    <3>4. ItemBlocks(h, s) \subseteq ItemBlocks(g, t) \cup {h[s[1]].item}
      BY <3>1, <1>2
    <3>5. ItemBlocks(g, t) \subseteq ItemBlocks(h, s)
      BY <3>2, <2>2
    <3>6. QED
      BY <3>3, <3>4, <3>5
  <2>7. ToSet(t) \cap gone = {}
    BY <2>1, <1>3, <1>5, <1>8, <1>15
  <2>8. ItemBlocks(g, t) \cap gone = {}
    BY <2>2, <1>3, <1>5, <1>8, <1>15
  <2>9. a \notin gone
    BY <1>3, <1>8
  <2>10. QED
    BY <2>5, <2>6, <2>7, <2>8, <2>9 DEF PartsIn
<1>20. Values(h, s) = <<h[h[s[1]].item]>> \o Values(g, t)
  <2> DEFINE v == Values(h, s)
             w == Values(g, t)
             x == h[h[s[1]].item]
  <2>1. v = [k \in 1 .. n |-> h[h[s[k]].item]]
    BY <1>2 DEF Values
  <2>2. w = [k \in 1 .. n - 1 |-> g[g[t[k]].item]]
    BY <1>4 DEF Values
  <2>3. v \in Seq(Items) /\ Len(v) = n
    BY <2>1, <1>2, <1>7
  <2>4. w \in Seq(Items) /\ Len(w) = n - 1
    <3>1. \A k \in 1 .. n - 1 : g[g[t[k]].item] \in Items
      BY <1>7, <1>15
    <3>2. QED
      BY <2>2, <3>1, <1>3
  <2>5. \A k \in 1 .. n - 1 : w[k] = v[k + 1]
    BY <2>1, <2>2, <1>15
  <2>6. x \in Items /\ v[1] = x
    BY <2>1, <1>3, <1>7
  <2> HIDE DEF v, w, x
  <2>7. /\ <<x>> \o w \in Seq(Items) /\ Len(<<x>> \o w) = 1 + (n - 1)
        /\ \A k \in 1 .. n : (<<x>> \o w)[k] = IF k = 1 THEN x ELSE w[k - 1]
    <3> DEFINE u == <<x>>
    <3>1. u \in Seq(Items) /\ Len(u) = 1 /\ u[1] = x
      BY <2>6
    <3> HIDE DEF u
    <3>2. /\ u \o w \in Seq(Items) /\ Len(u \o w) = Len(u) + Len(w)
          /\ \A k \in 1 .. Len(u) + Len(w) : (u \o w)[k] = IF k <= Len(u) THEN u[k] ELSE w[k - Len(u)]
      BY <2>4, <3>1, ConcatProperties
    <3>3. \A k \in 1 .. n : k \in 1 .. 1 + (n - 1) /\ (k <= 1 <=> k = 1)
      BY <1>2, <1>3
    <3>4. QED
      BY <2>4, <3>1, <3>2, <3>3 DEF u
  <2>8. \A k \in 1 .. n : (<<x>> \o w)[k] = v[k]
    BY <2>5, <2>6, <2>7, <1>6
  <2>9. 1 + (n - 1) = n
    BY <1>2
  <2>10. v = <<x>> \o w
    BY <2>3, <2>7, <2>8, <2>9, SeqEqual
  <2>11. QED
    BY <2>10 DEF v, w, x
<1>21. \A b \in DOMAIN h \ PartsIn(h, a, s) : g[b] = h[b]
  BY <1>2, <1>3, <1>12
<1>22. gone \subseteq PartsIn(h, a, s)
  BY <1>2, <1>3
<1>23. QED
  BY <1>11, <1>17, <1>18, <1>19, <1>20, <1>21, <1>22 DEF Chained, Shortens, g, t

(***************************************************************************)
(* The invariant: every queue is the chain that the walk finds, and no two *)
(* queues share a block.                                                   *)
(***************************************************************************)
QueueInv ==
  /\ Allocated \subseteq Addresses /\ Made \subseteq Queues
  /\ ok \in BOOLEAN /\ p \in Items
  /\ \A q \in Made : Chained(heap, queue[q], Nodes(queue[q]))
  /\ \A q, r \in Made : q # r => Parts(q) \cap Parts(r) = {}

LEMMA PartsNow ==
  ASSUME NEW q
  PROVE  /\ Parts(q) = PartsIn(heap, queue[q], Nodes(queue[q]))
         /\ Parts(q)' = PartsIn(heap', queue'[q], NodesIn(heap', queue'[q]))
BY DEF Parts, PartsIn, ItemsOf, ItemBlocks, Nodes

LEMMA ContentsNow ==
  ASSUME NEW q
  PROVE  /\ q \in Made => Contents[q] = Values(heap, Nodes(queue[q]))
         /\ q \in Made' => Contents'[q] = Values(heap', NodesIn(heap', queue'[q]))
BY DEF Contents, Values, Nodes

\* What the runs check of the shape follows from the invariant.
LEMMA Shape == QueueInv => TypeOK /\ ListsDisjoint
<1> SUFFICES ASSUME QueueInv  PROVE TypeOK /\ ListsDisjoint
  OBVIOUS
<1>1. ASSUME NEW q \in Made
      PROVE  LET s == Nodes(queue[q]) IN
             /\ queue[q] \in Allocated /\ DOMAIN heap[queue[q]] = {"tail", "head"}
             /\ \A n \in ToSet(s) :
                  IsNode(heap, n) /\ heap[n].item \in Allocated /\ heap[heap[n].item] \in Items
             /\ IsInjective(s)
             /\ Cardinality(Parts(q)) = 1 + 2 * Len(s)
             /\ s # <<>> => Last(s) = heap[queue[q]].tail
  <2> DEFINE s == Nodes(queue[q])
             a == queue[q]
  <2>1. Chained(heap, a, s)
    BY DEF QueueInv
  <2> HIDE DEF s, a
  <2>2. Linkage(heap, a, s) /\ Apart(heap, a, s)
    BY <2>1 DEF Chained
  <2>3. DOMAIN s = 1 .. Len(s) /\ ToSet(s) = {s[k] : k \in 1 .. Len(s)}
    BY <2>2, PartsAre
  <2>4. Cardinality(PartsIn(heap, a, s)) = 1 + 2 * Len(s)
    BY <2>1, Counted
  <2>5. a \in Allocated /\ heap[a] = Ends(s)
    BY <2>2 DEF Linkage, Allocated
  <2>6. DOMAIN heap[a] = {"tail", "head"} /\ (s # <<>> => Last(s) = heap[a].tail)
    BY <2>5 DEF Ends, Last
  <2>7. \A n \in ToSet(s) :
          IsNode(heap, n) /\ heap[n].item \in Allocated /\ heap[heap[n].item] \in Items
    BY <2>2, <2>3 DEF Linkage, Allocated
  <2>8. IsInjective(s)
    BY <2>2, <2>3 DEF Apart, IsInjective
  <2>9. QED
    BY <2>4, <2>5, <2>6, <2>7, <2>8, PartsNow DEF s, a
<1>2. TypeOK
  BY <1>1 DEF QueueInv, TypeOK
<1>3. ListsDisjoint
  BY <1>1 DEF QueueInv, ListsDisjoint
<1>4. QED
  BY <1>2, <1>3

\* The chain t that a queue has become.
LEMMA Becomes ==
  ASSUME NEW q, q \in Made', NEW t, Chained(heap', queue'[q], t)
  PROVE  /\ Nodes(queue[q])' = t
         /\ Parts(q)' = PartsIn(heap', queue'[q], t)
         /\ Contents'[q] = Values(heap', t)
<1>1. NodesIn(heap', queue'[q]) = t
  BY NodesFound
<1>2. QED
  BY <1>1, PartsNow, ContentsNow DEF Nodes

\* A queue none of whose blocks has changed.
LEMMA Stays ==
  ASSUME QueueInv, NEW r \in Made, r \in Made', queue'[r] = queue[r],
         DOMAIN heap' \subseteq Addresses,
         \A b \in Parts(r) : b \in DOMAIN heap' /\ heap'[b] = heap[b]
  PROVE  /\ Nodes(queue[r])' = Nodes(queue[r])
         /\ Chained(heap', queue'[r], Nodes(queue[r])')
         /\ Parts(r)' = Parts(r)
         /\ Contents'[r] = Contents[r]
<1> DEFINE s == Nodes(queue[r])
           a == queue[r]
           P == Parts(r)
<1>1. Chained(heap, a, s) /\ P = PartsIn(heap, a, s) /\ Contents[r] = Values(heap, s) /\ queue'[r] = a
  BY PartsNow, ContentsNow DEF QueueInv
<1> HIDE DEF s, a, P
<1>2. \A b \in PartsIn(heap, a, s) : b \in DOMAIN heap' /\ heap'[b] = heap[b]
  BY <1>1 DEF P
<1>3. /\ Chained(heap', a, s) /\ PartsIn(heap', a, s) = PartsIn(heap, a, s)
      /\ Values(heap', s) = Values(heap, s)
  BY <1>1, <1>2, Untouched
<1>4. Nodes(queue[r])' = s /\ Parts(r)' = PartsIn(heap', a, s) /\ Contents'[r] = Values(heap', s)
  BY <1>1, <1>3, Becomes
<1>5. QED
  BY <1>1, <1>3, <1>4 DEF s, a, P

LEMMA PartsAllocated ==
  ASSUME QueueInv, NEW q \in Made
  PROVE  Parts(q) \subseteq Allocated
<1>1. Chained(heap, queue[q], Nodes(queue[q]))
  BY DEF QueueInv
<1>2. PartsIn(heap, queue[q], Nodes(queue[q])) \subseteq DOMAIN heap
  BY <1>1, Counted
<1>3. QED
  BY <1>2, PartsNow DEF Allocated

\* One queue changes: it gets blocks that were free, or gives some of its own back.
LEMMA OneChanges ==
  ASSUME QueueInv, NEW q \in Made, NEW t, NEW New, NEW Gone,
         UNCHANGED queue, ok' \in BOOLEAN, p' \in Items,
         New \subseteq Addresses \ Allocated, Gone \subseteq Parts(q),
         Allocated' = (Allocated \cup New) \ Gone,
         Chained(heap', queue[q], t),
         PartsIn(heap', queue[q], t) = (Parts(q) \cup New) \ Gone,
         \A b \in Allocated \ Parts(q) : heap'[b] = heap[b]
  PROVE  /\ QueueInv'
         /\ Leaked' = Leaked
         /\ Contents' = [Contents EXCEPT ![q] = Values(heap', t)]
<1>1. Made' = Made /\ queue' = queue
  BY DEF Made
<1>2. \A r \in Made : Parts(r) \subseteq Allocated
  BY PartsAllocated
<1>3. \A r \in Made : r # q => Parts(r) \cap Parts(q) = {}
  BY DEF QueueInv
<1>4. Allocated \subseteq Addresses /\ Allocated' \subseteq Addresses
  BY DEF QueueInv
<1>5. /\ Nodes(queue[q])' = t /\ Chained(heap', queue'[q], Nodes(queue[q])')
      /\ Parts(q)' = (Parts(q) \cup New) \ Gone
      /\ Contents'[q] = Values(heap', t)
  <2>1. q \in Made' /\ Chained(heap', queue'[q], t)
    BY <1>1
  <2>2. QED
    BY <1>1, <2>1, Becomes
<1>6. ASSUME NEW r \in Made, r # q
      PROVE  /\ Chained(heap', queue'[r], Nodes(queue[r])')
             /\ Parts(r)' = Parts(r)
             /\ Contents'[r] = Contents[r]
  <2>1. r \in Made' /\ queue'[r] = queue[r] /\ DOMAIN heap' \subseteq Addresses
    BY <1>1, <1>4 DEF Allocated
  <2>2. \A b \in Parts(r) : b \in DOMAIN heap' /\ heap'[b] = heap[b]
    BY <1>2, <1>3, <1>6 DEF Allocated
  <2>3. QED
    BY <2>1, <2>2, Stays
<1>7. \A r \in Made' : Chained(heap', queue'[r], Nodes(queue[r])')
  BY <1>1, <1>5, <1>6
<1>8. \A r, s \in Made' : r # s => Parts(r)' \cap Parts(s)' = {}
  <2> SUFFICES ASSUME NEW r \in Made, NEW s \in Made, r # s
               PROVE  Parts(r)' \cap Parts(s)' = {}
    BY <1>1
  <2>1. CASE r # q /\ s # q
    BY <1>6, <2>1 DEF QueueInv
  <2>2. CASE r = q
    BY <1>2, <1>3, <1>5, <1>6, <2>2
  <2>3. CASE s = q
    BY <1>2, <1>3, <1>5, <1>6, <2>3
  <2>4. QED
    BY <2>1, <2>2, <2>3
<1>9. QueueInv'
  <2>1. Made' \subseteq Queues
    BY <1>1 DEF QueueInv
  <2>2. QED
    BY <1>4, <1>7, <1>8, <2>1 DEF QueueInv
<1>10. Leaked' = Leaked
  <2>1. Leaked = {b \in Allocated : \A r \in Made : b \notin Parts(r)}
    BY DEF Leaked
  <2>2. Leaked' = {b \in Allocated' : \A r \in Made' : b \notin Parts(r)'}
    BY DEF Leaked
  <2>3. \A b \in Leaked : b \in Leaked'
    BY <2>1, <2>2, <1>1, <1>4, <1>5, <1>6
  <2>4. \A b \in Leaked' : b \in Leaked
    BY <2>1, <2>2, <1>1, <1>4, <1>5, <1>6
  <2>5. QED
    BY <2>3, <2>4
<1>11. Contents' = [Contents EXCEPT ![q] = Values(heap', t)]
  <2>1. DOMAIN Contents = Made /\ DOMAIN Contents' = Made'
    BY DEF Contents
  <2>2. Contents = [r \in Made |-> Contents[r]] /\ Contents' = [r \in Made' |-> Contents'[r]]
    BY DEF Contents
  <2>3. QED
    BY <2>1, <2>2, <1>1, <1>5, <1>6
<1>12. QED
  BY <1>9, <1>10, <1>11

(***************************************************************************)
(* One lemma a call.                                                       *)
(***************************************************************************)
\* What a step loses, of LeaksOnlyNodes.
Loses ==
  /\ Made' = Made => Leaked' = Leaked
  /\ \A q \in Made' \ Made : Cardinality(Leaked' \ Leaked) = 2
  /\ \A q \in Made \ Made' : Leaked' \ Leaked = ToSet(Nodes(queue[q]))

\* The head in the heap is the oldest item of the contents.
LEMMA HeadIs ==
  ASSUME QueueInv, NEW q \in Made
  PROVE  LET s == Nodes(queue[q])
             head == heap[queue[q]].head IN
         /\ head = NULL <=> s = <<>>
         /\ Contents[q] = <<>> <=> s = <<>>
         /\ s # <<>> => head = s[1] /\ Head(Contents[q]) = heap[heap[s[1]].item]
<1> DEFINE s == Nodes(queue[q])
           a == queue[q]
<1>1. Chained(heap, a, s) /\ Contents[q] = Values(heap, s)
  BY ContentsNow DEF QueueInv
<1> HIDE DEF s, a
<1>2. s \in Seq(Addresses) /\ heap[a] = Ends(s) /\ DOMAIN s = 1 .. Len(s)
  BY <1>1 DEF Chained, Linkage
<1>3. s # <<>> => s[1] # NULL /\ 1 \in DOMAIN s
  <2>1. s # <<>> => 1 \in 1 .. Len(s)
    BY <1>2
  <2>2. QED
    BY <1>2, <2>1, QueueAssumption DEF Addresses, NULL
<1>4. heap[a].head = IF s = <<>> THEN NULL ELSE s[1]
  BY <1>2 DEF Ends
<1>5. Values(heap, s) = <<>> <=> s = <<>>
  <2>1. DOMAIN Values(heap, s) = DOMAIN s
    BY DEF Values
  <2>2. s = <<>> => Values(heap, s) = <<>>
    BY DEF Values
  <2>3. Values(heap, s) = <<>> => DOMAIN s = {}
    BY <2>1
  <2>4. QED
    BY <2>2, <2>3, <1>3
<1>6. s # <<>> => Head(Values(heap, s)) = heap[heap[s[1]].item]
  <2>1. s # <<>> => Values(heap, s)[1] = heap[heap[s[1]].item]
    BY <1>3 DEF Values
  <2>2. QED
    BY <2>1
<1>7. QED
  BY <1>1, <1>3, <1>4, <1>5, <1>6 DEF s, a

LEMMA PushStep ==
  ASSUME QueueInv, NEW q \in Queues, NEW x \in Items, push(q, x)
  PROVE  QueueInv' /\ Loses /\ F!Push(q, x)
<1> DEFINE s == Nodes(queue[q])
           a == queue[q]
           new == Fresh(1)
           item == Fresh(2)
           t == Append(s, new)
           g == PushedHeap(heap, a, new, item, x)
<1>1. q \in Made /\ heap' = g /\ p' = x /\ UNCHANGED <<queue, ok>>
  BY DEF push, PushedHeap
<1>2. new \in Free /\ item \in Free /\ new # item
  BY FreshBlocks DEF push, IsFresh
<1>3. Chained(heap, a, s) /\ Parts(q) = PartsIn(heap, a, s) /\ Contents[q] = Values(heap, s)
  BY <1>1, PartsNow, ContentsNow DEF QueueInv
<1>4. new \in Addresses /\ new \notin DOMAIN heap /\ item \in Addresses /\ item \notin DOMAIN heap
  BY <1>2 DEF Free, Allocated
<1> HIDE DEF s, a, new, item
<1>5. Extends(heap, a, s, new, item, x, g, t)
  BY <1>2, <1>3, <1>4, Pushed
<1> HIDE DEF g, t
<1>6. /\ Chained(g, a, t) /\ DOMAIN g = DOMAIN heap \cup {new, item}
      /\ \A b \in DOMAIN heap \ PartsIn(heap, a, s) : g[b] = heap[b]
      /\ PartsIn(g, a, t) = PartsIn(heap, a, s) \cup {new, item}
      /\ Values(g, t) = Append(Values(heap, s), x)
  BY <1>5 DEF Extends
<1>7. /\ QueueInv' /\ Leaked' = Leaked
      /\ Contents' = [Contents EXCEPT ![q] = Values(heap', t)]
  <2> DEFINE New == {new, item}
             Gone == {}
  <2>1. /\ New \subseteq Addresses \ Allocated /\ Gone \subseteq Parts(q)
        /\ Allocated' = (Allocated \cup New) \ Gone
        /\ PartsIn(heap', a, t) = (Parts(q) \cup New) \ Gone
        /\ \A b \in Allocated \ Parts(q) : heap'[b] = heap[b]
    BY <1>1, <1>3, <1>4, <1>6 DEF Allocated
  <2>2. ok' \in BOOLEAN /\ p' \in Items /\ Chained(heap', queue[q], t)
    BY <1>1, <1>6 DEF QueueInv, a
  <2>3. PartsIn(heap', queue[q], t) = (Parts(q) \cup New) \ Gone
    BY <2>1 DEF a
  <2> HIDE DEF New, Gone
  <2>4. UNCHANGED queue
    BY <1>1
  <2>5. QED
    BY <1>1, <2>1, <2>2, <2>3, <2>4, OneChanges
<1>8. Made' = Made
  BY <1>1 DEF Made
<1>9. F!Push(q, x)
  <2>1. Contents' = [Contents EXCEPT ![q] = Append(Contents[q], x)]
    BY <1>1, <1>3, <1>6, <1>7
  <2>2. DOMAIN Contents = Made
    BY DEF Contents
  <2>3. QED
    BY <1>1, <2>1, <2>2 DEF F!Push, F!Made
<1>10. QED
  BY <1>7, <1>8, <1>9 DEF Loses

LEMMA LookStep ==
  ASSUME QueueInv, NEW q \in Queues, peek(q) \/ isEmpty(q)
  PROVE  QueueInv' /\ Loses /\ (F!Peek(q) \/ F!IsEmpty(q))
<1>1. q \in Made /\ UNCHANGED <<heap, queue>>
  BY DEF peek, isEmpty
<1>2. /\ \A r : Nodes(queue[r])' = Nodes(queue[r]) /\ Parts(r)' = Parts(r)
      /\ Contents' = Contents /\ Made' = Made /\ Allocated' = Allocated /\ Leaked' = Leaked
  BY <1>1 DEF Nodes, Parts, ItemsOf, Contents, Made, Allocated, Leaked
<1>3. DOMAIN Contents = Made
  BY DEF Contents
<1> DEFINE s == Nodes(queue[q])
           head == heap[queue[q]].head
<1>4. /\ head = NULL <=> s = <<>>
      /\ Contents[q] = <<>> <=> s = <<>>
      /\ s # <<>> => head = s[1] /\ Head(Contents[q]) = heap[heap[s[1]].item]
  BY <1>1, HeadIs
<1>5. head = NULL \/ heap[heap[head].item] \in Items
  <2>1. Chained(heap, queue[q], s)
    BY <1>1 DEF QueueInv
  <2> HIDE DEF s
  <2>2. s # <<>> => 1 \in 1 .. Len(s)
    BY <2>1 DEF Chained, Linkage
  <2>3. QED
    BY <1>4, <2>1, <2>2 DEF Chained, Linkage
<1> HIDE DEF s
<1>6. CASE peek(q)
  <2>1. p' = (IF head = NULL THEN p ELSE heap[heap[head].item]) /\ UNCHANGED ok
    BY <1>6 DEF peek
  <2>2. p' \in Items /\ ok' \in BOOLEAN
    BY <1>5, <2>1 DEF QueueInv
  <2>3. QueueInv'
    BY <1>1, <1>2, <2>2 DEF QueueInv
  <2>4. F!Peek(q)
    BY <1>1, <1>2, <1>3, <1>4, <2>1 DEF F!Peek, F!Made
  <2>5. QED
    BY <1>2, <2>3, <2>4 DEF Loses
<1>7. CASE isEmpty(q)
  <2>1. ok' = (head = NULL) /\ UNCHANGED p
    BY <1>7 DEF isEmpty
  <2>2. QueueInv'
    BY <1>1, <1>2, <2>1 DEF QueueInv
  <2>3. F!IsEmpty(q)
    BY <1>1, <1>2, <1>3, <1>4, <2>1 DEF F!IsEmpty, F!Made
  <2>4. QED
    BY <1>2, <2>2, <2>3 DEF Loses
<1>8. QED
  BY <1>6, <1>7

LEMMA PopStep ==
  ASSUME QueueInv, NEW q \in Queues, pop(q)
  PROVE  QueueInv' /\ Loses /\ F!Pop(q)
<1> DEFINE s == Nodes(queue[q])
           a == queue[q]
           head == heap[a].head
<1>1. q \in Made /\ UNCHANGED queue
  BY DEF pop
<1>2. Chained(heap, a, s) /\ Parts(q) = PartsIn(heap, a, s) /\ Contents[q] = Values(heap, s)
  BY <1>1, PartsNow, ContentsNow DEF QueueInv
<1>3. /\ head = NULL <=> s = <<>>
      /\ Contents[q] = <<>> <=> s = <<>>
      /\ s # <<>> => head = s[1]
  BY <1>1, HeadIs
<1>4. Made' = Made /\ DOMAIN Contents = Made
  BY <1>1 DEF Made, Contents
<1> HIDE DEF s
<1>5. CASE head = NULL
  <2>1. ok' = FALSE /\ UNCHANGED <<heap, p>>
    BY <1>5 DEF pop
  <2>2. /\ \A r : Nodes(queue[r])' = Nodes(queue[r]) /\ Parts(r)' = Parts(r)
        /\ Contents' = Contents /\ Allocated' = Allocated /\ Leaked' = Leaked
    BY <1>1, <2>1 DEF Nodes, Parts, ItemsOf, Contents, Made, Allocated, Leaked
  <2>3. QueueInv'
    BY <1>1, <1>4, <2>1, <2>2 DEF QueueInv
  <2>4. F!Pop(q)
    <3>1. Contents' = [Contents EXCEPT ![q] = Contents'[q]]
      BY <1>1, <1>4, <2>2 DEF Contents
    <3>2. Contents[q] = <<>> /\ Contents'[q] = <<>>
      BY <1>3, <1>5, <2>2
    <3>3. QED
      BY <1>1, <1>4, <2>1, <3>1, <3>2 DEF F!Pop, F!Made
  <2>5. QED
    BY <1>4, <2>2, <2>3, <2>4 DEF Loses
<1>6. CASE head # NULL
  <2> DEFINE t == Tail(s)
             g == Unlinked(a)
             gone == {s[1], heap[s[1]].item}
             New == {}
  <2>1. p' = heap[heap[head].item] /\ heap' = g /\ ok' = TRUE
    BY <1>6 DEF pop
  <2>2. s # <<>> /\ head = s[1]
    BY <1>3, <1>6
  <2> HIDE DEF a
  <2>3. Shortens(a, s, gone, g, t)
    BY <1>2, <2>2, Popped
  <2>4. heap[heap[s[1]].item] \in Items
    <3>1. 1 \in 1 .. Len(s)
      BY <1>2, <2>2 DEF Chained, Linkage
    <3>2. QED
      BY <1>2, <3>1 DEF Chained, Linkage
  <2> HIDE DEF t, g, gone, head
  <2>5. /\ gone \subseteq PartsIn(heap, a, s) /\ Chained(g, a, t)
        /\ DOMAIN g = DOMAIN heap \ gone
        /\ \A b \in DOMAIN heap \ PartsIn(heap, a, s) : g[b] = heap[b]
        /\ PartsIn(g, a, t) = PartsIn(heap, a, s) \ gone
        /\ Values(heap, s) = <<heap[heap[s[1]].item]>> \o Values(g, t)
    BY <2>3 DEF Shortens
  <2>6. /\ QueueInv' /\ Leaked' = Leaked
        /\ Contents' = [Contents EXCEPT ![q] = Values(heap', t)]
    <3>1. /\ New \subseteq Addresses \ Allocated /\ gone \subseteq Parts(q)
          /\ Allocated' = (Allocated \cup New) \ gone
          /\ PartsIn(heap', a, t) = (Parts(q) \cup New) \ gone
          /\ \A b \in Allocated \ Parts(q) : heap'[b] = heap[b]
      BY <1>2, <2>1, <2>5 DEF Allocated
    <3>2. ok' \in BOOLEAN /\ p' \in Items /\ Chained(heap', queue[q], t)
      BY <2>1, <2>2, <2>4, <2>5 DEF a
    <3>3. PartsIn(heap', queue[q], t) = (Parts(q) \cup New) \ gone
      BY <3>1 DEF a
    <3> HIDE DEF New
    <3>4. QED
      BY <1>1, <3>1, <3>2, <3>3, OneChanges
  <2>7. F!Pop(q)
    <3>1. Contents'[q] = Values(g, t)
      BY <1>1, <1>4, <2>1, <2>6
    <3>2. Contents[q] = <<p'>> \o Contents'[q]
      BY <1>2, <2>1, <2>2, <2>5, <3>1
    <3>3. Contents' = [Contents EXCEPT ![q] = Contents'[q]]
      BY <2>1, <2>6, <3>1
    <3>4. Contents[q] # <<>>
      BY <1>3, <2>2
    <3>5. QED
      BY <1>1, <1>4, <2>1, <3>2, <3>3, <3>4 DEF F!Pop, F!Made
  <2>8. QED
    BY <1>4, <2>6, <2>7 DEF Loses
<1>7. QED
  BY <1>5, <1>6

LEMMA NewStep ==
  ASSUME QueueInv, NEW q \in Queues, newQueue(q)
  PROVE  QueueInv' /\ Loses /\ F!New(q)
<1> DEFINE a == Fresh(1)
           b == Fresh(2)
           c == Fresh(3)
           E == [tail |-> NULL, head |-> NULL]
<1>1. /\ q \notin Made /\ UNCHANGED <<ok, p>>
      /\ heap' = With(With(With(heap, a, E), b, NoNode), c, NoNode)
      /\ queue' = [r \in Made \cup {q} |-> IF r = q THEN a ELSE queue[r]]
  BY DEF newQueue
<1>2. /\ a \in Addresses \ Allocated /\ b \in Addresses \ Allocated /\ c \in Addresses \ Allocated
      /\ a # b /\ a # c /\ b # c
  <2>1. Cardinality(Free) >= 3
    BY DEF newQueue
  <2>2. QED
    BY <2>1, FreshBlocks DEF IsFresh, Free
<1> HIDE DEF a, b, c
<1>3. /\ Allocated' = Allocated \cup {a, b, c}
      /\ heap'[a] = E /\ \A d \in Allocated : heap'[d] = heap[d]
  BY <1>1, <1>2 DEF With, Allocated
<1>4. Allocated \subseteq Addresses /\ Allocated' \subseteq Addresses
  BY <1>2, <1>3 DEF QueueInv
<1>5. Made' = Made \cup {q} /\ queue'[q] = a /\ \A r \in Made : queue'[r] = queue[r]
  BY <1>1 DEF Made
<1>6. Chained(heap', a, <<>>) /\ PartsIn(heap', a, <<>>) = {a} /\ Values(heap', <<>>) = <<>>
  <2>1. Len(<<>>) = 0 /\ <<>> \in Seq(Addresses) /\ 1 .. 0 = {} /\ DOMAIN <<>> = {}
    OBVIOUS
  <2>2. a \in DOMAIN heap' /\ DOMAIN heap' \subseteq Addresses /\ heap'[a] = Ends(<<>>)
    BY <1>3, <1>4 DEF Allocated, Ends
  <2>3. Linkage(heap', a, <<>>) /\ Apart(heap', a, <<>>)
    BY <2>1, <2>2 DEF Linkage, Apart
  <2>4. ToSet(<<>>) = {}
    BY <2>1 DEF ToSet
  <2>5. QED
    BY <2>1, <2>3, <2>4 DEF Chained, PartsIn, ItemBlocks, Values
<1>7. /\ Chained(heap', queue'[q], Nodes(queue[q])') /\ Parts(q)' = {a} /\ Contents'[q] = <<>>
  <2>1. q \in Made' /\ Chained(heap', queue'[q], <<>>)
    BY <1>5, <1>6
  <2>2. Nodes(queue[q])' = <<>> /\ Parts(q)' = PartsIn(heap', queue'[q], <<>>) /\ Contents'[q] = Values(heap', <<>>)
    BY <2>1, Becomes
  <2>3. QED
    BY <1>5, <1>6, <2>1, <2>2
<1>8. ASSUME NEW r \in Made
      PROVE  /\ r # q /\ Parts(r) \subseteq Allocated
             /\ Chained(heap', queue'[r], Nodes(queue[r])')
             /\ Parts(r)' = Parts(r)
             /\ Contents'[r] = Contents[r]
  <2>1. Parts(r) \subseteq Allocated
    BY PartsAllocated
  <2>2. r \in Made' /\ queue'[r] = queue[r] /\ DOMAIN heap' \subseteq Addresses
    BY <1>4, <1>5 DEF Allocated
  <2>3. \A d \in Parts(r) : d \in DOMAIN heap' /\ heap'[d] = heap[d]
    BY <1>3, <2>1 DEF Allocated
  <2>4. QED
    BY <1>1, <2>1, <2>2, <2>3, Stays
<1>9. QueueInv'
  <2>1. \A r \in Made' : Chained(heap', queue'[r], Nodes(queue[r])')
    BY <1>5, <1>7, <1>8
  <2>2. \A r, s \in Made' : r # s => Parts(r)' \cap Parts(s)' = {}
    <3> SUFFICES ASSUME NEW r \in Made', NEW s \in Made', r # s
                 PROVE  Parts(r)' \cap Parts(s)' = {}
      OBVIOUS
    <3>1. CASE r \in Made /\ s \in Made
      BY <1>8, <3>1 DEF QueueInv
    <3>2. CASE r = q /\ s \in Made
      BY <1>2, <1>7, <1>8, <3>2
    <3>3. CASE r \in Made /\ s = q
      BY <1>2, <1>7, <1>8, <3>3
    <3>4. QED
      BY <1>5, <3>1, <3>2, <3>3
  <2>3. Made' \subseteq Queues
    BY <1>5 DEF QueueInv
  <2>4. ok' \in BOOLEAN /\ p' \in Items
    BY <1>1 DEF QueueInv
  <2>5. QED
    BY <1>4, <2>1, <2>2, <2>3, <2>4 DEF QueueInv
<1>10. Loses
  <2>1. Leaked = {d \in Allocated : \A r \in Made : d \notin Parts(r)}
    BY DEF Leaked
  <2>2. Leaked' = {d \in Allocated' : \A r \in Made' : d \notin Parts(r)'}
    BY DEF Leaked
  <2>3. \A d \in Leaked' \ Leaked : d \in {b, c}
    BY <2>1, <2>2, <1>3, <1>5, <1>7, <1>8
  <2>4. \A d \in {b, c} : d \in Leaked' \ Leaked
    BY <2>1, <2>2, <1>2, <1>3, <1>5, <1>7, <1>8
  <2>5. Leaked' \ Leaked = {b, c}
    BY <2>3, <2>4
  <2>6. Cardinality({b, c}) = 2
    <3>1. IsFiniteSet({b}) /\ Cardinality({b}) = 1
      BY FS_Singleton
    <3>2. Cardinality({b} \cup {c}) = 1 + 1
      BY <1>2, <3>1, FS_AddElement
    <3>3. {b} \cup {c} = {b, c}
      OBVIOUS
    <3>4. QED
      BY <3>2, <3>3
  <2>7. Made' # Made /\ Made \ Made' = {}
    BY <1>1, <1>5
  <2>8. QED
    BY <2>5, <2>6, <2>7 DEF Loses
<1>11. F!New(q)
  <2>1. DOMAIN Contents = Made /\ DOMAIN Contents' = Made'
    BY DEF Contents
  <2>2. Contents' = [r \in Made' |-> Contents'[r]]
    BY DEF Contents
  <2>3. Contents' = [r \in Made \cup {q} |-> IF r = q THEN <<>> ELSE Contents[r]]
    BY <2>2, <1>5, <1>7, <1>8
  <2>4. QED
    BY <1>1, <2>1, <2>3 DEF F!New, F!Made
<1>12. QED
  BY <1>9, <1>10, <1>11

LEMMA FreeStep ==
  ASSUME QueueInv, NEW q \in Queues, freeQueue(q)
  PROVE  QueueInv' /\ Loses /\ F!Free(q)
<1> DEFINE s == Nodes(queue[q])
           a == queue[q]
           N == ToSet(s)
           I == ItemBlocks(heap, s)
<1>1. /\ q \in Made /\ UNCHANGED <<ok, p>>
      /\ heap' = Without(heap, {a} \cup I)
      /\ queue' = [r \in Made \ {q} |-> queue[r]]
  BY DEF freeQueue, ItemsOf, ItemBlocks
<1>2. Chained(heap, a, s) /\ Parts(q) = {a} \cup N \cup I
  BY <1>1, PartsNow DEF QueueInv, PartsIn
<1> HIDE DEF s, a
<1>3. a \notin N /\ N \cap I = {}
  <2>1. N = {s[k] : k \in 1 .. Len(s)} /\ I = {heap[s[k]].item : k \in 1 .. Len(s)}
    BY <1>2, PartsAre DEF Chained
  <2>2. QED
    BY <1>2, <2>1 DEF Chained, Apart
<1> HIDE DEF N, I
<1>4. /\ Allocated' = Allocated \ ({a} \cup I)
      /\ \A d \in Allocated' : heap'[d] = heap[d]
  BY <1>1 DEF Without, Allocated
<1>5. Allocated \subseteq Addresses /\ Allocated' \subseteq Addresses
  BY <1>4 DEF QueueInv
<1>6. Made' = Made \ {q} /\ \A r \in Made' : queue'[r] = queue[r]
  BY <1>1 DEF Made
<1>7. ASSUME NEW r \in Made'
      PROVE  /\ r \in Made /\ Parts(r) \cap Parts(q) = {}
             /\ Chained(heap', queue'[r], Nodes(queue[r])')
             /\ Parts(r)' = Parts(r)
             /\ Contents'[r] = Contents[r]
  <2>1. r \in Made /\ r # q
    BY <1>6
  <2>2. Parts(r) \subseteq Allocated /\ Parts(r) \cap Parts(q) = {}
    BY <1>1, <2>1, PartsAllocated DEF QueueInv
  <2>3. queue'[r] = queue[r] /\ DOMAIN heap' \subseteq Addresses
    BY <1>5, <1>6 DEF Allocated
  <2>4. \A d \in Parts(r) : d \in DOMAIN heap' /\ heap'[d] = heap[d]
    BY <1>2, <1>4, <2>2 DEF Allocated
  <2>5. QED
    BY <2>1, <2>2, <2>3, <2>4, Stays
<1>8. QueueInv'
  <2>1. \A r, t \in Made' : r # t => Parts(r)' \cap Parts(t)' = {}
    BY <1>7 DEF QueueInv
  <2>2. Made' \subseteq Queues
    BY <1>6 DEF QueueInv
  <2>3. ok' \in BOOLEAN /\ p' \in Items
    BY <1>1 DEF QueueInv
  <2>4. QED
    BY <1>5, <1>7, <2>1, <2>2, <2>3 DEF QueueInv
<1>9. Loses
  <2>1. Leaked = {d \in Allocated : \A r \in Made : d \notin Parts(r)}
    BY DEF Leaked
  <2>2. Leaked' = {d \in Allocated' : \A r \in Made' : d \notin Parts(r)'}
    BY DEF Leaked
  <2>3. Parts(q) \subseteq Allocated
    BY <1>1, PartsAllocated
  <2>4. \A d \in Leaked' \ Leaked : d \in N
    <3> SUFFICES ASSUME NEW d \in Leaked' \ Leaked  PROVE d \in N
      OBVIOUS
    <3>1. d \in Allocated /\ d \notin {a} \cup I
      BY <1>4, <2>2
    <3>2. PICK r \in Made : d \in Parts(r)
      BY <2>1, <3>1
    <3>3. r = q
      BY <1>6, <1>7, <2>2, <3>2
    <3>4. QED
      BY <1>2, <3>1, <3>2, <3>3
  <2>5. \A d \in N : d \in Leaked' \ Leaked
    <3> SUFFICES ASSUME NEW d \in N  PROVE d \in Leaked' \ Leaked
      OBVIOUS
    <3>1. d \in Parts(q) /\ d \in Allocated'
      BY <1>2, <1>3, <1>4, <2>3
    <3>2. \A r \in Made' : d \notin Parts(r)'
      BY <1>7, <3>1
    <3>3. QED
      BY <1>1, <2>1, <2>2, <3>1, <3>2
  <2>6. Leaked' \ Leaked = ToSet(Nodes(queue[q]))
    BY <2>4, <2>5 DEF N, s
  <2>7. Made' # Made /\ Made' \ Made = {} /\ \A r \in Made \ Made' : r = q
    BY <1>1, <1>6
  <2>8. QED
    BY <2>6, <2>7 DEF Loses
<1>10. F!Free(q)
  <2>1. DOMAIN Contents = Made /\ DOMAIN Contents' = Made'
    BY DEF Contents
  <2>2. Contents' = [r \in Made' |-> Contents'[r]]
    BY DEF Contents
  <2>3. Contents' = [r \in Made \ {q} |-> Contents[r]]
    BY <2>2, <1>6, <1>7
  <2>4. QED
    BY <1>1, <2>1, <2>3 DEF F!Free, F!Made
<1>11. QED
  BY <1>8, <1>9, <1>10

(***************************************************************************)
(* The theorems.                                                           *)
(***************************************************************************)
LEMMA StartsEmpty == Init => QueueInv /\ F!Init
<1> SUFFICES ASSUME Init  PROVE QueueInv /\ F!Init
  OBVIOUS
<1>1. Allocated = {} /\ Made = {} /\ ok = TRUE /\ p \in Items
  BY DEF Init, Allocated, Made
<1>2. Contents = [q \in {} |-> <<>>]
  BY <1>1 DEF Contents
<1>3. QED
  BY <1>1, <1>2 DEF QueueInv, F!Init

LEMMA EveryStep ==
  QueueInv /\ [Next]_vars => QueueInv' /\ [Loses]_vars /\ [F!Next]_<<Contents, ok, p>>
<1> SUFFICES ASSUME QueueInv, [Next]_vars
             PROVE  QueueInv' /\ [Loses]_vars /\ [F!Next]_<<Contents, ok, p>>
  OBVIOUS
<1>1. CASE UNCHANGED vars
  <2>1. UNCHANGED <<heap, queue, ok, p>>
    BY <1>1 DEF vars
  <2>2. /\ \A r : Nodes(queue[r])' = Nodes(queue[r]) /\ Parts(r)' = Parts(r)
        /\ Contents' = Contents /\ Made' = Made /\ Allocated' = Allocated
    BY <2>1 DEF Nodes, Parts, ItemsOf, Contents, Made, Allocated
  <2>3. QueueInv'
    BY <2>1, <2>2 DEF QueueInv
  <2>4. QED
    BY <1>1, <2>1, <2>2, <2>3
<1>2. ASSUME NEW q \in Queues,
             newQueue(q) \/ peek(q) \/ isEmpty(q) \/ pop(q) \/ freeQueue(q)
             \/ \E x \in Items : push(q, x)
      PROVE  QueueInv' /\ Loses /\ F!Next
  <2>1. CASE newQueue(q)
    BY <2>1, NewStep DEF F!Next
  <2>2. CASE peek(q) \/ isEmpty(q)
    BY <2>2, LookStep DEF F!Next
  <2>3. CASE pop(q)
    BY <2>3, PopStep DEF F!Next
  <2>4. CASE freeQueue(q)
    BY <2>4, FreeStep DEF F!Next
  <2>5. CASE \E x \in Items : push(q, x)
    BY <2>5, PushStep DEF F!Next
  <2>6. QED
    BY <1>2, <2>1, <2>2, <2>3, <2>4, <2>5
<1>3. QED
  BY <1>1, <1>2 DEF Next

\* The invariant holds: the blocks of every queue are chained as the code takes
\* them to be, in every reachable heap.
THEOREM QueuesAreChains == Spec => []QueueInv
<1>1. Init => QueueInv
  BY StartsEmpty
<1>2. QueueInv /\ [Next]_vars => QueueInv'
  BY EveryStep
<1>3. QED
  BY <1>1, <1>2, PTL DEF Spec

\* No pointer of a queue leads to a block that was freed or is used for something
\* else, whatever is made, pushed, popped and freed in between.
THEOREM QueueTyping == Spec => []TypeOK
BY QueuesAreChains, Shape, PTL

\* No two queues share a block of the heap, and none serves twice in one queue:
\* no byte of one pipe shows up in another, and pop frees no block twice.
THEOREM QueuesAreDisjoint == Spec => []ListsDisjoint
BY QueuesAreChains, Shape, PTL

\* newQueue loses two nodes, freeQueue the nodes of the queue, and no other call
\* loses a block.
THEOREM OnlyNodesLeak == Spec => LeaksOnlyNodes
<1>1. QueueInv /\ [Next]_vars => [Loses]_vars
  BY EveryStep
<1>2. [Loses]_vars =>
        [/\ Made' = Made => Leaked' = Leaked
         /\ \A q \in Made' \ Made : Cardinality(Leaked' \ Leaked) = 2
         /\ \A q \in Made \ Made' : Leaked' \ Leaked = ToSet(Nodes(queue[q]))]_vars
  BY DEF Loses
<1>3. QED
  BY <1>1, <1>2, QueuesAreChains, PTL DEF Spec, LeaksOnlyNodes

\* The lists are the sequences of Fifos: items come out of the queue they were put
\* in, in that order, each once.
THEOREM QueuesImplementFifos == Spec => ImplementsFifos
<1>1. Init => F!Init
  BY StartsEmpty
<1>2. QueueInv /\ [Next]_vars => [F!Next]_<<Contents, ok, p>>
  BY EveryStep
<1>3. QED
  BY <1>1, <1>2, QueuesAreChains, PTL DEF Spec, ImplementsFifos, F!Spec
=============================================================================
