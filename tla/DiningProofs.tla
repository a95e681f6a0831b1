---------------------------- MODULE DiningProofs ----------------------------
(***************************************************************************)
(* Proofs about Dining, for a table of any size and any number of children *)
(* that fork could make: the waiter's table of forks agrees with what the  *)
(* philosophers do, so that neighbours never eat together, whatever        *)
(* requests and answers are in the pipes.                                  *)
(***************************************************************************)
EXTENDS Dining, SequenceTheorems, FiniteSetTheorems, TLAPS

\* The waiter is found by pid - 3, and the bytes of a request stay together:
\* Console starts the table like this, and Dining_preempted is what happens if not.
FirstAndWhole == FirstPid = 3 /\ ~Preempt

-----------------------------------------------------------------------------
(* The pipes of the table: one for each child, one for the waiter, all made *)
(* by the waiter.  None is ever unlinked, so a descriptor stays good.       *)

MadeIn(s, name)   == \E i \in 1 .. Len(s) : s[i].name = name
FdIn(s, fd, name) == \E i \in 1 .. Len(s) : s[i].name = name /\ s[i].fd = fd
QueueIn(s, name)  ==
  IF MadeIn(s, name)
  THEN s[CHOOSE i \in 1 .. Len(s) : s[i].name = name].queue
  ELSE <<>>

Made(name)     == MadeIn(pipes, name)
IsFd(fd, name) == FdIn(pipes, fd, name)
QueueOf(name)  == QueueIn(pipes, name)
Requests       == QueueOf(WaiterPipe)
Answer(p)      == QueueOf(PipeOf(p))
Unused         == QueueOf(PipeOf(-1))  \* of the forks that failed

ModeFor(name) == IF name = WaiterPipe THEN RequestMode ELSE AnswerMode

\* What the waiter's pipes allow.
Allowed(pid, name, flags) ==
  ModeFor(name)[IF pid = Waiter THEN 2 ELSE IF pid = name[1] THEN 1 ELSE 0] \cap flags # {}

\* An array with the waiter's pipes, no two of them with one name or one descriptor.
MadePipe(pipe, next) ==
  /\ pipe \in Pipe /\ pipe.fd \in 3 .. next - 1
  /\ pipe.owner = Waiter /\ pipe.group = pipe.name[1] /\ pipe.mode = ModeFor(pipe.name)

Array(s, next) ==
  /\ s \in Seq(Pipe) /\ next \in Nat /\ 3 <= next
  /\ \A i \in 1 .. Len(s) : MadePipe(s[i], next)
  /\ \A i, j \in 1 .. Len(s) : s[i].name = s[j].name \/ s[i].fd = s[j].fd => i = j

PipesMade == Array(pipes, currFd)

\* No pipe goes away, and no descriptor changes its meaning.
Kept ==
  \A name \in PipeNames :
    /\ Made(name) => Made(name)'
    /\ \A fd \in Int : IsFd(fd, name) => IsFd(fd, name)'

LEMMA QueueOfPipe ==
  ASSUME NEW s, NEW next, Array(s, next), NEW i \in 1 .. Len(s)
  PROVE  s[i].queue \in Seq(Byte) /\ QueueIn(s, s[i].name) = s[i].queue
<1> DEFINE name == s[i].name
           c == CHOOSE j \in 1 .. Len(s) : s[j].name = name
<1>1. c \in 1 .. Len(s) /\ s[c].name = name
  OBVIOUS
<1>2. c = i
  <2> HIDE DEF c
  <2> QED
    BY <1>1 DEF Array
<1>3. QueueIn(s, name) = s[c].queue
  BY <1>1 DEF QueueIn, MadeIn
<1>4. s[i].queue \in Seq(Byte)
  BY DEF Array, MadePipe, Pipe
<1> HIDE DEF c
<1> QED
  BY <1>2, <1>3, <1>4

LEMMA QueuesTyped ==
  ASSUME PipesMade, NEW name
  PROVE  QueueOf(name) \in Seq(Byte)
<1>1. CASE MadeIn(pipes, name)
  <2>1. PICK i \in 1 .. Len(pipes) : pipes[i].name = name
    BY <1>1 DEF MadeIn
  <2> QED
    BY <2>1, QueueOfPipe DEF PipesMade, QueueOf
<1>2. CASE ~MadeIn(pipes, name)
  BY <1>2, EmptySeq DEF QueueOf, QueueIn
<1> QED
  BY <1>1, <1>2

\* Arrays with the same names and descriptors have the same queues where the pipes
\* have.
LEMMA SameQueue ==
  ASSUME NEW s, NEW next, Array(s, next), NEW t, NEW then, Array(t, then),
         NEW name, NEW i \in 1 .. Len(s), s[i].name = name,
         i \in 1 .. Len(t), t[i].name = name, t[i].queue = s[i].queue
  PROVE  QueueIn(t, name) = QueueIn(s, name)
<1>1. QueueIn(s, name) = s[i].queue
  BY QueueOfPipe
<1>2. QueueIn(t, name) = t[i].queue
  BY QueueOfPipe
<1> QED
  BY <1>1, <1>2

\* allocateNewPipe adds a pipe without bytes.
LEMMA MkfifoMakes ==
  ASSUME PipesMade, NEW name \in PipeNames, svc_mkfifo(Waiter, name, ModeFor(name))
  PROVE  /\ PipesMade' /\ Kept /\ Made(name)'
         /\ \A n \in PipeNames : QueueOf(n)' = QueueOf(n)
<1> DEFINE new == [name |-> name, fd |-> currFd, owner |-> Waiter, group |-> name[1],
                   mode |-> ModeFor(name), queue |-> <<>>]
           len == Len(pipes)
<1>0. len \in Nat /\ DOMAIN pipes = 1 .. len /\ currFd \in Nat /\ 3 <= currFd
  BY LenProperties DEF PipesMade, Array
<1>1. CASE checkValidPipeName(name)
  <2>1. pipes' = Append(pipes, new) /\ currFd' = currFd + 1
    BY <1>1 DEF svc_mkfifo, allocateNewPipe
  <2>2. new \in Pipe
    <3>1. name[1] \in Int
      BY DiningAssumption DEF PipeNames, PipeOf, WaiterPipe, Hungry
    <3>2. ModeFor(name) \in [0 .. 2 -> Flags]
      BY DEF ModeFor, RequestMode, AnswerMode, Flags
    <3>3. <<>> \in Seq(Byte)
      BY EmptySeq
    <3>4. Waiter \in Int
      BY DiningAssumption DEF Waiter
    <3> QED
      BY <1>0, <3>1, <3>2, <3>3, <3>4 DEF Pipe
  <2>3. MadePipe(new, currFd + 1) /\ new.name = name /\ new.fd = currFd /\ new.queue = <<>>
    BY <1>0, <2>2 DEF MadePipe
  <2> HIDE DEF new
  <2>4. /\ pipes' \in Seq(Pipe) /\ Len(pipes') = len + 1
        /\ \A i \in 1 .. len : pipes'[i] = pipes[i]
        /\ pipes'[len + 1] = new
    BY <2>1, <2>2, AppendProperties DEF PipesMade, Array
  <2>5. \A i \in 1 .. len + 1 : i \in 1 .. len \/ i = len + 1
    BY <1>0
  <2>6. \A i \in 1 .. len :
          /\ pipes[i].name # name /\ pipes[i].fd \in 3 .. currFd - 1
          /\ MadePipe(pipes[i], currFd + 1)
    BY <1>0, <1>1 DEF checkValidPipeName, PipesMade, Array, MadePipe
  <2>7. PipesMade'
    <3>1. \A i \in 1 .. len + 1 : MadePipe(pipes'[i], currFd + 1)
      BY <2>3, <2>4, <2>5, <2>6
    <3>2. \A i, j \in 1 .. len + 1 :
            pipes'[i].name = pipes'[j].name \/ pipes'[i].fd = pipes'[j].fd => i = j
      BY <1>0, <2>3, <2>4, <2>5, <2>6 DEF PipesMade, Array
    <3>3. Array(pipes', currFd + 1)
      BY <1>0, <2>4, <3>1, <3>2 DEF Array
    <3> QED
      BY <2>1, <3>3 DEF PipesMade
  <2>8. Kept /\ Made(name)'
    <3>1. \A i \in 1 .. len : i \in 1 .. len + 1 /\ pipes'[i] = pipes[i]
      BY <1>0, <2>4
    <3>2. len + 1 \in 1 .. len + 1
      BY <1>0
    <3> QED
      BY <2>3, <2>4, <3>1, <3>2 DEF Kept, Made, IsFd, MadeIn, FdIn
  <2>9. ASSUME NEW n \in PipeNames
        PROVE  QueueOf(n)' = QueueOf(n)
    <3>1. CASE \E i \in 1 .. len : pipes[i].name = n
      <4>1. PICK i \in 1 .. len : pipes[i].name = n
        BY <3>1
      <4>2. i \in 1 .. Len(pipes') /\ pipes'[i] = pipes[i]
        BY <1>0, <2>4
      <4> QED
        BY <2>7, <4>1, <4>2, SameQueue DEF PipesMade, QueueOf
    <3>2. CASE n = name
      <4>1. len + 1 \in 1 .. Len(pipes')
        BY <1>0, <2>4
      <4>2. QueueIn(pipes', name) = <<>>
        BY <2>3, <2>4, <2>7, <4>1, QueueOfPipe DEF PipesMade
      <4>3. QueueIn(pipes, name) = <<>>
        BY <2>6 DEF QueueIn, MadeIn
      <4> QED
        BY <3>2, <4>2, <4>3 DEF QueueOf
    <3>3. CASE n # name /\ ~\E i \in 1 .. len : pipes[i].name = n
      <4>1. ~MadeIn(pipes, n) /\ ~MadeIn(pipes', n)
        BY <2>3, <2>4, <2>5, <3>3 DEF MadeIn
      <4> QED
        BY <4>1 DEF QueueOf, QueueIn
    <3> QED
      BY <3>1, <3>2, <3>3
  <2> QED
    BY <2>7, <2>8, <2>9
<1>2. CASE ~checkValidPipeName(name)
  <2>1. UNCHANGED <<pipes, currFd>>
    BY <1>2 DEF svc_mkfifo
  <2>2. Made(name)
    BY <1>0, <1>2 DEF checkValidPipeName, Made, MadeIn
  <2> QED
    BY <2>1, <2>2 DEF PipesMade, Kept, Made, IsFd, QueueOf
<1> QED
  BY <1>1, <1>2

-----------------------------------------------------------------------------
(* Searches, permissions, and what open, write and read do.                *)

LEMMA FoundByName ==
  ASSUME PipesMade, NEW name, Made(name)
  PROVE  /\ getPipeFromName(name) \in 1 .. Len(pipes)
         /\ pipes[getPipeFromName(name)].name = name
<1>1. DOMAIN pipes = 1 .. Len(pipes) /\ Len(pipes) \in Nat
  BY LenProperties DEF PipesMade, Array
<1>2. PICK i \in 1 .. Len(pipes) : pipes[i].name = name
  BY DEF Made, MadeIn
<1>3. \A j \in 1 .. i - 1 : pipes[j].name # name
  BY <1>1, <1>2 DEF PipesMade, Array
<1>4. \E k \in DOMAIN pipes : pipes[k].name = name /\ \A j \in 1 .. k - 1 : pipes[j].name # name
  BY <1>1, <1>2, <1>3
<1> QED
  BY <1>1, <1>2, <1>4 DEF getPipeFromName

LEMMA FoundByFd ==
  ASSUME PipesMade, NEW name, NEW fd, IsFd(fd, name)
  PROVE  \E i \in 1 .. Len(pipes) :
           getPipeFromFd(fd) = i /\ pipes[i].name = name /\ pipes[i].fd = fd
<1>1. DOMAIN pipes = 1 .. Len(pipes) /\ Len(pipes) \in Nat
  BY LenProperties DEF PipesMade, Array
<1>2. PICK i \in 1 .. Len(pipes) : pipes[i].name = name /\ pipes[i].fd = fd
  BY DEF IsFd, FdIn
<1>3. \A j \in 1 .. i - 1 : pipes[j].fd # fd
  BY <1>1, <1>2 DEF PipesMade, Array
<1>4. \E k \in DOMAIN pipes : pipes[k].fd = fd /\ \A j \in 1 .. k - 1 : pipes[j].fd # fd
  BY <1>1, <1>2, <1>3
<1>5. getPipeFromFd(fd) \in 1 .. Len(pipes) /\ pipes[getPipeFromFd(fd)].fd = fd
  BY <1>1, <1>2, <1>4 DEF getPipeFromFd
<1>6. getPipeFromFd(fd) = i
  <2> DEFINE g == getPipeFromFd(fd)
  <2>1. g \in 1 .. Len(pipes) /\ pipes[g].fd = fd
    BY <1>5
  <2> HIDE DEF g
  <2>2. g = i
    BY <1>2, <2>1 DEF PipesMade, Array
  <2> QED
    BY <2>2 DEF g
<1> QED
  BY <1>2, <1>6

\* A descriptor of a pipe is none of the standard three.
LEMMA FdRange ==
  ASSUME PipesMade, NEW name, NEW fd, IsFd(fd, name)
  PROVE  fd \in Nat /\ fd >= 3
BY DEF PipesMade, Array, MadePipe, IsFd, FdIn

LEMMA Permissions ==
  ASSUME PipesMade, NEW i \in 1 .. Len(pipes), NEW pid, NEW flags
  PROVE  checkPermissions(pid, pipes[i], flags) <=> Allowed(pid, pipes[i].name, flags)
BY DEF PipesMade, Array, MadePipe, checkPermissions, userCategory, Allowed

LEMMA OpenFinds ==
  ASSUME PipesMade, NEW pid, NEW name, NEW flags
  PROVE  /\ \/ openResult(pid, name, flags) = -1
            \/ IsFd(openResult(pid, name, flags), name)
         /\ openResult(pid, name, flags) \in Int
         /\ Made(name) /\ Allowed(pid, name, flags)
              => IsFd(openResult(pid, name, flags), name)
<1> DEFINE i == getPipeFromName(name)
<1>1. CASE Made(name)
  <2>1. i \in 1 .. Len(pipes) /\ pipes[i].name = name
    BY <1>1, FoundByName
  <2>2. openResult(pid, name, flags) =
          IF i # 0 /\ checkPermissions(pid, pipes[i], flags) THEN pipes[i].fd ELSE -1
    BY DEF openResult
  <2> HIDE DEF i
  <2>3. IsFd(pipes[i].fd, name) /\ pipes[i].fd \in Int
    BY <2>1 DEF IsFd, FdIn, PipesMade, Array, MadePipe
  <2>4. checkPermissions(pid, pipes[i], flags) <=> Allowed(pid, name, flags)
    BY <2>1, Permissions
  <2>5. Len(pipes) \in Nat
    BY LenProperties DEF PipesMade, Array
  <2> QED
    BY <2>1, <2>2, <2>3, <2>4, <2>5
<1>2. CASE ~Made(name)
  <2>1. i = 0
    BY <1>2, LenProperties DEF getPipeFromName, Made, MadeIn, PipesMade, Array
  <2> QED
    BY <1>2, <2>1 DEF openResult
<1> QED
  BY <1>1, <1>2

\* One queue changes.
RequeueAt(s, i, q) == [s EXCEPT ![i].queue = q]

LEMMA Requeued ==
  ASSUME PipesMade, NEW i \in 1 .. Len(pipes), NEW name, pipes[i].name = name,
         NEW q \in Seq(Byte),
         pipes' = RequeueAt(pipes, i, q), currFd' = currFd
  PROVE  /\ PipesMade' /\ Kept
         /\ QueueOf(name)' = q
         /\ \A n \in PipeNames : n # name => QueueOf(n)' = QueueOf(n)
<1> DEFINE p == [pipes[i] EXCEPT !.queue = q]
           len == Len(pipes)
<1>1. pipes \in Seq(Pipe) /\ pipes[i] \in Pipe
  BY ElementOfSeq DEF PipesMade, Array
<1>2. /\ p \in Pipe /\ p.name = pipes[i].name /\ p.fd = pipes[i].fd /\ p.queue = q
      /\ p.owner = pipes[i].owner /\ p.group = pipes[i].group /\ p.mode = pipes[i].mode
  BY <1>1 DEF Pipe
<1> DEFINE t == [pipes EXCEPT ![i] = p]
<1>3. pipes' = t
  BY DEF RequeueAt
<1> HIDE DEF p
<1>11. /\ t \in Seq(Pipe) /\ Len(t) = len
       /\ \A k \in 1 .. len : t[k] = IF k = i THEN p ELSE pipes[k]
  BY <1>1, <1>2, ExceptSeq
<1> HIDE DEF t
<1>4. /\ pipes' \in Seq(Pipe) /\ Len(pipes') = len
      /\ \A k \in 1 .. len : pipes'[k] = IF k = i THEN p ELSE pipes[k]
  BY <1>3, <1>11
<1>5. \A k \in 1 .. len : pipes'[k].name = pipes[k].name /\ pipes'[k].fd = pipes[k].fd
  BY <1>2, <1>4
<1>6. Array(pipes', currFd)
  <2>1. \A k \in 1 .. len : MadePipe(pipes'[k], currFd)
    BY <1>2, <1>4 DEF PipesMade, Array, MadePipe
  <2>2. \A k, l \in 1 .. len :
          pipes'[k].name = pipes'[l].name \/ pipes'[k].fd = pipes'[l].fd => k = l
    BY <1>5 DEF PipesMade, Array
  <2>3. currFd \in Nat /\ 3 <= currFd
    BY DEF PipesMade, Array
  <2> QED
    BY <1>4, <2>1, <2>2, <2>3 DEF Array
<1>7. PipesMade'
  BY <1>6 DEF PipesMade
<1>8. Kept
  BY <1>4, <1>5 DEF Kept, Made, IsFd, MadeIn, FdIn
<1>9. QueueOf(name)' = q
  <2>1. QueueIn(pipes', pipes'[i].name) = pipes'[i].queue
    BY <1>4, <1>6, QueueOfPipe
  <2>2. pipes'[i].name = name /\ pipes'[i].queue = q
    BY <1>2, <1>4
  <2> QED
    BY <2>1, <2>2 DEF QueueOf
<1>10. ASSUME NEW n \in PipeNames, n # name
       PROVE  QueueOf(n)' = QueueOf(n)
  <2>1. CASE \E k \in 1 .. len : pipes[k].name = n
    <3>1. PICK k \in 1 .. len : pipes[k].name = n
      BY <2>1
    <3>2. k \in 1 .. Len(pipes') /\ pipes'[k] = pipes[k]
      BY <1>4, <1>10, <3>1
    <3> QED
      BY <1>6, <3>1, <3>2, SameQueue DEF PipesMade, QueueOf
  <2>2. CASE ~\E k \in 1 .. len : pipes[k].name = n
    <3>1. ~MadeIn(pipes, n) /\ ~MadeIn(pipes', n)
      BY <1>4, <1>5, <2>2 DEF MadeIn
    <3> QED
      BY <3>1 DEF QueueOf, QueueIn
  <2> QED
    BY <2>1, <2>2
<1> QED
  BY <1>7, <1>8, <1>9, <1>10

\* A write that is allowed adds its bytes at the end.
LEMMA WriteAdds ==
  ASSUME PipesMade, NEW name \in PipeNames, NEW fd, IsFd(fd, name),
         NEW pid, Allowed(pid, name, O_WRONLY), NEW x \in Seq(Byte), svc_write(pid, fd, x)
  PROVE  /\ PipesMade' /\ Kept
         /\ QueueOf(name)' = QueueOf(name) \o x
         /\ \A n \in PipeNames : n # name => QueueOf(n)' = QueueOf(n)
<1>1. PICK i \in 1 .. Len(pipes) :
        getPipeFromFd(fd) = i /\ pipes[i].name = name /\ pipes[i].fd = fd
  BY FoundByFd
<1>2. i # 0 /\ fd # 1
  BY FdRange, LenProperties DEF PipesMade, Array
<1>3. MayUse(pid, fd, O_WRONLY)
  BY <1>1, <1>2, Permissions DEF MayUse
<1>4. pipes' = [pipes EXCEPT ![i].queue = @ \o x] /\ currFd' = currFd
  BY <1>1, <1>2, <1>3 DEF svc_write
<1>5. pipes[i].queue \in Seq(Byte) /\ QueueOf(name) = pipes[i].queue
  BY <1>1, QueueOfPipe DEF PipesMade, QueueOf
<1> DEFINE q == pipes[i].queue \o x
<1>6. q \in Seq(Byte)
  BY <1>5, ConcatProperties
<1>7. pipes' = RequeueAt(pipes, i, q)
  BY <1>4 DEF RequeueAt
<1> HIDE DEF q
<1>8. /\ PipesMade' /\ Kept
      /\ QueueOf(name)' = q
      /\ \A n \in PipeNames : n # name => QueueOf(n)' = QueueOf(n)
  BY <1>1, <1>4, <1>6, <1>7, Requeued
<1> QED
  BY <1>5, <1>8 DEF q

Least(m, n) == IF m < n THEN m ELSE n

\* A read that is allowed takes bytes from the front.
LEMMA ReadTakes ==
  ASSUME PipesMade, NEW name \in PipeNames, NEW fd, IsFd(fd, name),
         NEW pid, Allowed(pid, name, O_RDONLY), NEW n \in Nat, svc_read(pid, fd, n),
         NEW q, q = QueueOf(name), NEW k, k = Least(n, Len(q))
  PROVE  /\ PipesMade' /\ Kept
         /\ readBytes(pid, fd, n) = SubSeq(q, 1, k)
         /\ readResult(pid, fd, n) = k
         /\ QueueOf(name)' = SubSeq(q, k + 1, Len(q))
         /\ \A m \in PipeNames : m # name => QueueOf(m)' = QueueOf(m)
<1> DEFINE left == SubSeq(q, k + 1, Len(q))
<1>1. PICK i \in 1 .. Len(pipes) :
        getPipeFromFd(fd) = i /\ pipes[i].name = name /\ pipes[i].fd = fd
  BY FoundByFd
<1>2. i # 0 /\ fd > 2 /\ ~(fd <= 2)
  BY FdRange, LenProperties DEF PipesMade, Array
<1>3. MayUse(pid, fd, O_RDONLY)
  BY <1>1, <1>2, Permissions DEF MayUse
<1>4. q \in Seq(Byte) /\ q = pipes[i].queue
  BY <1>1, QueueOfPipe DEF PipesMade, QueueOf
<1>5. readBytes(pid, fd, n) = SubSeq(q, 1, k)
  BY <1>1, <1>2, <1>3, <1>4 DEF readBytes, Least
<1>6. Len(q) \in Nat /\ k \in 0 .. Len(q)
  BY <1>4, LenProperties DEF Least
<1>7. Len(SubSeq(q, 1, k)) = k
  <2>1. \A j \in 1 .. k : q[j] \in Byte
    BY <1>4, <1>6, ElementOfSeq
  <2>2. 1 \in Int /\ k \in Int
    BY <1>6
  <2>3. Len(SubSeq(q, 1, k)) = IF 1 <= k THEN k - 1 + 1 ELSE 0
    BY <2>1, <2>2, SubSeqProperties
  <2> QED
    BY <1>6, <2>3
<1>8. left \in Seq(Byte)
  <2>1. \A j \in k + 1 .. Len(q) : q[j] \in Byte
    BY <1>4, <1>6, ElementOfSeq
  <2>2. k + 1 \in Int /\ Len(q) \in Int
    BY <1>6
  <2> QED
    BY <2>1, <2>2, SubSeqProperties
<1>9. readResult(pid, fd, n) = k
  BY <1>2, <1>3, <1>5, <1>7 DEF readResult
<1>10. currFd' = currFd
  BY DEF svc_read
<1>11. /\ PipesMade' /\ Kept
       /\ QueueOf(name)' = left
       /\ \A m \in PipeNames : m # name => QueueOf(m)' = QueueOf(m)
  <2>1. CASE k = 0
    <3>1. pipes' = pipes
      BY <1>5, <1>7, <2>1 DEF svc_read
    <3>4. k + 1 = 1
      BY <2>1
    <3>2. left = SubSeq(q, 1, Len(q))
      BY <3>4
    <3> HIDE DEF left
    <3>3. left = q
      BY <1>4, <3>2, SubSeqFull
    <3> QED
      BY <1>10, <3>1, <3>3 DEF PipesMade, Kept, Made, IsFd, QueueOf
  <2>2. CASE k # 0
    <3>1. pipes' = [pipes EXCEPT ![i].queue = SubSeq(@, k + 1, Len(@))]
      BY <1>1, <1>5, <1>7, <2>2 DEF svc_read
    <3>2. pipes' = RequeueAt(pipes, i, left)
      BY <1>4, <3>1 DEF RequeueAt
    <3>3. left \in Seq(Byte)
      BY <1>8
    <3> HIDE DEF left
    <3> QED
      BY <1>1, <1>10, <3>2, <3>3, Requeued
  <2> QED
    BY <2>1, <2>2
<1> QED
  BY <1>5, <1>9, <1>11

-----------------------------------------------------------------------------
(* Pids, seats, names and rights.                                          *)

Child(i) == IF i < Forked THEN 3 + i ELSE -1

LEMMA SeatOf ==
  ASSUME FirstAndWhole, NEW p \in Hungry
  PROVE  /\ p \in Nat /\ p >= 3 /\ Seat(p) = p - 3 /\ Seat(p) \in Seats
         /\ Child(Seat(p)) = p
         /\ Forks(p) \subseteq Seats /\ Seat(p) \in Forks(p)
<1>1. p \in 3 .. 2 + Forked /\ Forked \in 0 .. PHILOSOPHERS /\ PHILOSOPHERS \in Nat \ {0}
  BY DiningAssumption DEF FirstAndWhole, Hungry
<1>2. p - 3 \in 0 .. PHILOSOPHERS - 1 /\ p - 2 + PHILOSOPHERS \in Int
  BY <1>1
<1>3. (p - 3 + PHILOSOPHERS) % PHILOSOPHERS = p - 3
  BY <1>1, <1>2
<1>4. (p - 2 + PHILOSOPHERS) % PHILOSOPHERS \in 0 .. PHILOSOPHERS - 1
  BY <1>1, <1>2
<1>5. Child(p - 3) = p
  BY <1>1 DEF Child
<1> QED
  BY <1>1, <1>2, <1>3, <1>4, <1>5 DEF Seat, Seats, Forks

LEMMA ChildAt ==
  ASSUME FirstAndWhole, NEW i \in Seats
  PROVE  /\ Child(i) \in Hungry \cup {-1} /\ PipeOf(Child(i)) \in PipeNames
         /\ PipeOf(Child(i)) # WaiterPipe
<1>1. Child(i) \in Hungry \cup {-1}
  BY DiningAssumption DEF FirstAndWhole, Child, Hungry, Seats
<1> QED
  BY <1>1 DEF PipeNames, PipeOf, WaiterPipe

LEMMA NamesDiffer ==
  /\ WaiterPipe \in PipeNames
  /\ \A p \in Hungry : PipeOf(p) \in PipeNames /\ PipeOf(p) # WaiterPipe
  /\ \A p, q \in Hungry : PipeOf(p) = PipeOf(q) => p = q
  /\ PipeOf(-1) \in PipeNames /\ PipeOf(-1) # WaiterPipe
  /\ \A p \in Hungry : PipeOf(p) # PipeOf(-1)
<1>1. \A p \in Hungry : p # -1
  BY DiningAssumption DEF Hungry
<1> QED
  BY <1>1 DEF PipeNames, PipeOf, WaiterPipe

LEMMA Rights ==
  ASSUME FirstAndWhole
  PROVE  /\ Allowed(Waiter, WaiterPipe, O_RDONLY)
         /\ \A i \in Seats : Allowed(Waiter, PipeOf(Child(i)), O_WRONLY)
         /\ \A p \in Hungry : /\ Allowed(p, PipeOf(p), O_RDONLY)
                              /\ Allowed(p, WaiterPipe, O_WRONLY)
<1>1. Waiter = 2 /\ \A p \in Hungry : p \in Int /\ p # 2 /\ p # -1
  BY DiningAssumption DEF FirstAndWhole, Waiter, Hungry
<1>2. /\ RequestMode[2] = {4} /\ RequestMode[0] = {2}
      /\ AnswerMode[2] = {2} /\ AnswerMode[1] = {4}
  BY DEF RequestMode, AnswerMode
<1>3. ModeFor(WaiterPipe) = RequestMode /\ WaiterPipe[1] = -1
  BY DEF ModeFor, WaiterPipe
<1>4. Allowed(Waiter, WaiterPipe, O_RDONLY)
  BY <1>2, <1>3 DEF Allowed, O_RDONLY
<1>5. ASSUME NEW i \in Seats
      PROVE  Allowed(Waiter, PipeOf(Child(i)), O_WRONLY)
  <2>1. ModeFor(PipeOf(Child(i))) = AnswerMode
    BY ChildAt DEF ModeFor
  <2> QED
    BY <1>2, <2>1 DEF Allowed, O_WRONLY
<1>6. ASSUME NEW p \in Hungry
      PROVE  Allowed(p, PipeOf(p), O_RDONLY) /\ Allowed(p, WaiterPipe, O_WRONLY)
  <2>1. ModeFor(PipeOf(p)) = AnswerMode
    BY NamesDiffer DEF ModeFor
  <2>2. PipeOf(p)[1] = p
    BY DEF PipeOf
  <2>3. p # Waiter /\ p # -1
    BY <1>1
  <2>4. Allowed(p, PipeOf(p), O_RDONLY)
    BY <1>2, <2>1, <2>2, <2>3 DEF Allowed, O_RDONLY
  <2>5. Allowed(p, WaiterPipe, O_WRONLY)
    BY <1>2, <1>3, <2>3 DEF Allowed, O_WRONLY
  <2> QED
    BY <2>4, <2>5
<1> QED
  BY <1>4, <1>5, <1>6

-----------------------------------------------------------------------------
(* The bytes of requests.                                                  *)

\* A number without its least significant byte, and that byte.
Shift(n) == n \div 256
Low(n)   == n % 256

LEMMA ShiftLow ==
  ASSUME NEW n \in Nat
  PROVE  Shift(n) \in Nat /\ Low(n) \in Byte /\ n = Low(n) + 256 * Shift(n)
BY SMT DEF Shift, Low, Byte

LEMMA PidBytes ==
  ASSUME NEW n \in Nat
  PROVE  /\ IntBytes(n) \in Seq(Byte) /\ Len(IntBytes(n)) = 4
         /\ IntBytes(n)[1] = Low(n)
         /\ IntBytes(n)[2] = Low(Shift(n))
         /\ IntBytes(n)[3] = Low(Shift(Shift(n)))
         /\ IntBytes(n)[4] = Low(Shift(Shift(Shift(n))))
<1>1. /\ IntBytes(n)[1] = Low(n)
      /\ IntBytes(n)[2] = Low(Shift(n))
      /\ IntBytes(n)[3] = Low(Shift(Shift(n)))
      /\ IntBytes(n)[4] = Low(Shift(Shift(Shift(n))))
  BY SMT DEF IntBytes, Low, Shift
<1>2. \A j \in 1 .. 4 : IntBytes(n)[j] \in Byte
  <2>1. Shift(n) \in Nat /\ Shift(Shift(n)) \in Nat /\ Shift(Shift(Shift(n))) \in Nat
    BY ShiftLow
  <2> QED
    BY <1>1, <2>1, ShiftLow
<1>3. IntBytes(n) = [j \in 1 .. 4 |-> IntBytes(n)[j]]
  BY DEF IntBytes
<1>4. IntBytes(n) \in Seq(Byte) /\ Len(IntBytes(n)) = 4
  BY <1>2, <1>3, IsASeq
<1> QED
  BY <1>1, <1>4

\* The waiter reads the pid that was written.
LEMMA PidBack ==
  ASSUME FirstAndWhole, NEW p \in Hungry,
         NEW b, Len(b) = 4, \A j \in 1 .. 4 : b[j] = IntBytes(p)[j]
  PROVE  IntOf(b) = p
<1>1. p \in Nat /\ p \div 256 ^ 3 < 128
  <2>1. p \in Nat /\ p <= FirstPid + PHILOSOPHERS /\ FirstPid + PHILOSOPHERS \in Nat
    BY DiningAssumption DEF Hungry
  <2>2. (FirstPid + PHILOSOPHERS) \div 256 ^ 3 < 128
    BY DiningAssumption
  <2> QED
    BY <2>1, <2>2, SMT
<1>2. b[1] = Low(p) /\ b[2] = Low(Shift(p)) /\ b[3] = Low(Shift(Shift(p)))
      /\ b[4] = Low(Shift(Shift(Shift(p))))
  BY <1>1, PidBytes
<1>3. Shift(p) \in Nat /\ Shift(Shift(p)) \in Nat /\ Shift(Shift(Shift(p))) \in Nat
  BY <1>1, ShiftLow
<1>4. Low(Shift(Shift(Shift(p)))) = Shift(Shift(Shift(p)))
  <2>1. Shift(Shift(Shift(p))) < 128
    BY <1>1, SMT DEF Shift
  <2> QED
    BY <1>3, <2>1, SMT DEF Low
<1>5. /\ p = Low(p) + 256 * Shift(p)
      /\ Shift(p) = Low(Shift(p)) + 256 * Shift(Shift(p))
      /\ Shift(Shift(p)) = Low(Shift(Shift(p))) + 256 * Shift(Shift(Shift(p)))
  BY <1>1, <1>3, ShiftLow
<1>6. IntOf(b) = b[1] + 256 * (b[2] + 256 * (b[3] + 256 * b[4]))
  BY DEF IntOf
<1> QED
  BY <1>2, <1>4, <1>5, <1>6

LEMMA ByteBack ==
  ASSUME NEW b, Len(b) = 1, b[1] \in Nat
  PROVE  IntOf(b) = b[1]
BY DEF IntOf

\* A request, and its bytes.
Message == [pid : Hungry, sig : {0, 1}]
ByteOf(m, j) == IF j = 5 THEN m.sig ELSE IntBytes(m.pid)[j]

\* The bytes q are those of the messages ms, without the first few that are gone;
\* and in Begun, the pid of one more.
Tells(q, ms, gone) ==
  \A k \in 1 .. Len(ms), j \in 1 .. 5 :
    5 * k - 5 + j > gone => q[5 * k - 5 + j - gone] = ByteOf(ms[k], j)

Whole(q, ms, gone) == Len(q) = 5 * Len(ms) - gone /\ Tells(q, ms, gone)

Begun(q, ms, gone, p) ==
  /\ Len(q) = 5 * Len(ms) - gone + 4 /\ Tells(q, ms, gone)
  /\ \A j \in 1 .. 4 : q[5 * Len(ms) - gone + j] = IntBytes(p)[j]

LEMMA PidWritten ==
  ASSUME NEW q \in Seq(Byte), NEW ms \in Seq(Message), NEW gone \in {0, 4},
         Whole(q, ms, gone), NEW p \in Hungry, p \in Nat
  PROVE  Begun(q \o IntBytes(p), ms, gone, p)
<1> DEFINE r == q \o IntBytes(p)
           n == Len(ms)
<1>1. IntBytes(p) \in Seq(Byte) /\ Len(IntBytes(p)) = 4
  BY PidBytes
<1>2. n \in Nat /\ Len(q) \in Nat /\ Len(q) = 5 * n - gone
  BY LenProperties DEF Whole
<1>6. Len(q) \in Nat
  BY LenProperties
<1>3. /\ Len(r) = Len(q) + 4
      /\ \A i \in 1 .. Len(q) + 4 :
           r[i] = IF i <= Len(q) THEN q[i] ELSE IntBytes(p)[i - Len(q)]
  <2>1. /\ Len(r) = Len(q) + Len(IntBytes(p))
        /\ \A i \in 1 .. Len(q) + Len(IntBytes(p)) :
             r[i] = IF i <= Len(q) THEN q[i] ELSE IntBytes(p)[i - Len(q)]
    BY <1>1, ConcatProperties
  <2> QED
    BY <1>1, <2>1
<1> HIDE DEF r
<1>4. Tells(r, ms, gone)
  <2> SUFFICES ASSUME NEW k \in 1 .. n, NEW j \in 1 .. 5, 5 * k - 5 + j > gone
               PROVE  r[5 * k - 5 + j - gone] = ByteOf(ms[k], j)
    BY DEF Tells
  <2> DEFINE i == 5 * k - 5 + j - gone
  <2>1. i \in 1 .. Len(q)
    BY <1>2
  <2>2. q[i] = ByteOf(ms[k], j)
    BY DEF Whole, Tells
  <2> HIDE DEF i
  <2>3. r[i] = q[i]
    BY <1>3, <1>6, <2>1
  <2> QED
    BY <2>2, <2>3 DEF i
<1>5. ASSUME NEW j \in 1 .. 4
      PROVE  r[5 * n - gone + j] = IntBytes(p)[j]
  <2> DEFINE i == Len(q) + j
  <2>1. i \in 1 .. Len(q) + 4 /\ ~(i <= Len(q)) /\ i - Len(q) = j
    BY <1>2
  <2> HIDE DEF i
  <2>2. r[i] = IntBytes(p)[j]
    BY <1>3, <2>1
  <2> QED
    BY <1>2, <2>2 DEF i
<1> QED
  BY <1>2, <1>3, <1>4, <1>5 DEF Begun, r

LEMMA SigWritten ==
  ASSUME NEW q \in Seq(Byte), NEW ms \in Seq(Message), NEW gone \in {0, 4},
         NEW p \in Hungry, Begun(q, ms, gone, p), NEW s \in {0, 1}
  PROVE  Whole(q \o <<s>>, Append(ms, [pid |-> p, sig |-> s]), gone)
<1> DEFINE r == q \o <<s>>
           n == Len(ms)
           m == [pid |-> p, sig |-> s]
           new == Append(ms, m)
<1>1. <<s>> \in Seq(Byte) /\ Len(<<s>>) = 1 /\ <<s>>[1] = s
  BY DEF Byte
<1>2. n \in Nat /\ Len(q) \in Nat /\ Len(q) = 5 * n - gone + 4
  BY LenProperties DEF Begun
<1>3. /\ Len(r) = Len(q) + 1
      /\ \A i \in 1 .. Len(q) + 1 : r[i] = IF i <= Len(q) THEN q[i] ELSE <<s>>[i - Len(q)]
  BY <1>1, ConcatProperties
<1>4. /\ m \in Message
      /\ \A j \in 1 .. 5 : ByteOf(m, j) = IF j = 5 THEN s ELSE IntBytes(p)[j]
  BY DEF Message, ByteOf
<1> HIDE DEF r, m
<1>5. /\ Len(new) = n + 1 /\ new[n + 1] = m
      /\ \A k \in 1 .. n : new[k] = ms[k]
  BY <1>4, AppendProperties
<1> HIDE DEF new
<1>10. Len(q) \in Nat
  BY <1>2
<1>6. \A i \in 1 .. Len(q) : r[i] = q[i]
  BY <1>3, <1>10
<1>7. r[Len(q) + 1] = s
  BY <1>1, <1>2, <1>3
<1>8. Tells(r, new, gone)
  <2> SUFFICES ASSUME NEW k \in 1 .. n + 1, NEW j \in 1 .. 5, 5 * k - 5 + j > gone
               PROVE  r[5 * k - 5 + j - gone] = ByteOf(new[k], j)
    BY <1>5 DEF Tells
  <2> DEFINE i == 5 * k - 5 + j - gone
  <2>1. CASE k \in 1 .. n
    <3>1. i \in 1 .. Len(q)
      BY <1>2, <2>1
    <3>2. q[i] = ByteOf(ms[k], j)
      BY <2>1 DEF Begun, Tells
    <3>3. r[i] = q[i]
      BY <1>6, <3>1
    <3> QED
      BY <1>5, <2>1, <3>2, <3>3
  <2>2. CASE k = n + 1 /\ j = 5
    <3>1. i = Len(q) + 1
      BY <1>2, <2>2
    <3> QED
      BY <1>4, <1>5, <1>7, <2>2, <3>1
  <2>3. CASE k = n + 1 /\ j \in 1 .. 4
    <3>1. i = 5 * n - gone + j /\ i \in 1 .. Len(q)
      BY <1>2, <2>3
    <3>2. q[5 * n - gone + j] = IntBytes(p)[j]
      BY <2>3 DEF Begun
    <3>3. r[i] = q[i]
      BY <1>6, <3>1
    <3> QED
      BY <1>4, <1>5, <2>3, <3>1, <3>2, <3>3
  <2>4. k \in 1 .. n \/ k = n + 1
    BY <1>2
  <2> QED
    BY <2>1, <2>2, <2>3, <2>4
<1>9. Len(r) = 5 * Len(new) - gone
  BY <1>2, <1>3, <1>5
<1> QED
  BY <1>8, <1>9 DEF Whole, r, new, m

LEMMA PidRead ==
  ASSUME FirstAndWhole, NEW q \in Seq(Byte), NEW ms \in Seq(Message), Whole(q, ms, 0)
  PROVE  /\ Len(q) = 0 <=> ms = <<>>
         /\ ms # <<>> =>
              /\ Len(q) > 4 /\ ms[1].pid \in Hungry
              /\ IntOf(SubSeq(q, 1, 4)) = ms[1].pid
              /\ Whole(SubSeq(q, 5, Len(q)), ms, 4)
<1> DEFINE n == Len(ms)
           b == SubSeq(q, 1, 4)
           r == SubSeq(q, 5, Len(q))
<1>1. n \in Nat /\ Len(q) \in Nat /\ Len(q) = 5 * n
  BY LenProperties DEF Whole
<1>2. n = 0 <=> ms = <<>>
  BY EmptySeq
<1>3. ASSUME ms # <<>>
      PROVE  /\ Len(q) > 4 /\ ms[1].pid \in Hungry
             /\ IntOf(b) = ms[1].pid
             /\ Whole(r, ms, 4)
  <2>1. n >= 1 /\ Len(q) > 4 /\ 1 \in 1 .. n
    BY <1>1, <1>2, <1>3
  <2>2. ms[1].pid \in Hungry
    <3>1. ms[1] \in Message
      BY <2>1, ElementOfSeq
    <3> QED
      BY <3>1 DEF Message
  <2>3. Len(b) = 4 /\ \A j \in 1 .. 4 : b[j] = q[j]
    <3>1. \A j \in 1 .. 4 : q[j] \in Byte
      BY <1>1, <2>1, ElementOfSeq
    <3>2. Len(b) = (IF 1 <= 4 THEN 4 - 1 + 1 ELSE 0) /\ \A j \in 1 .. 4 - 1 + 1 : b[j] = q[1 + j - 1]
      BY <3>1, SubSeqProperties
    <3> HIDE DEF b
    <3> QED
      BY <3>2
  <2>4. \A j \in 1 .. 4 : b[j] = IntBytes(ms[1].pid)[j]
    <3> SUFFICES ASSUME NEW j \in 1 .. 4
                 PROVE  q[j] = IntBytes(ms[1].pid)[j]
      BY <2>3
    <3>1. 5 * 1 - 5 + j > 0 /\ 5 * 1 - 5 + j - 0 = j /\ j \in 1 .. 5 /\ j # 5
      OBVIOUS
    <3>2. q[5 * 1 - 5 + j - 0] = ByteOf(ms[1], j)
      BY <2>1, <3>1 DEF Whole, Tells
    <3> QED
      BY <3>1, <3>2 DEF ByteOf
  <2>5. IntOf(b) = ms[1].pid
    <3> HIDE DEF b
    <3> QED
      BY <2>2, <2>3, <2>4, PidBack
  <2>6. Len(r) = Len(q) - 4 /\ \A j \in 1 .. Len(q) - 4 : r[j] = q[4 + j]
    <3>1. \A j \in 5 .. Len(q) : q[j] \in Byte
      BY <1>1, ElementOfSeq
    <3>2. /\ Len(r) = IF 5 <= Len(q) THEN Len(q) - 5 + 1 ELSE 0
          /\ \A j \in 1 .. Len(q) - 5 + 1 : r[j] = q[5 + j - 1]
      BY <1>1, <3>1, SubSeqProperties
    <3> HIDE DEF r
    <3> QED
      BY <1>1, <2>1, <3>2
  <2> HIDE DEF r
  <2>7. Tells(r, ms, 4)
    <3> SUFFICES ASSUME NEW k \in 1 .. n, NEW j \in 1 .. 5, 5 * k - 5 + j > 4
                 PROVE  r[5 * k - 5 + j - 4] = ByteOf(ms[k], j)
      BY DEF Tells
    <3> DEFINE l == 5 * k - 5 + j - 4
    <3>1. l \in 1 .. Len(q) - 4 /\ 4 + l = 5 * k - 5 + j - 0 /\ 5 * k - 5 + j > 0
      BY <1>1
    <3>2. q[5 * k - 5 + j - 0] = ByteOf(ms[k], j)
      BY <3>1 DEF Whole, Tells
    <3> HIDE DEF l
    <3>3. r[l] = q[4 + l]
      BY <2>6, <3>1
    <3>4. r[l] = ByteOf(ms[k], j)
      BY <3>1, <3>2, <3>3
    <3> QED
      BY <3>4 DEF l
  <2> QED
    BY <1>1, <2>1, <2>2, <2>5, <2>6, <2>7 DEF Whole
<1> QED
  BY <1>1, <1>2, <1>3

LEMMA SigRead ==
  ASSUME NEW q \in Seq(Byte), NEW ms \in Seq(Message), Whole(q, ms, 4), ms # <<>>
  PROVE  /\ Len(q) > 0
         /\ Len(SubSeq(q, 1, 1)) = 1 /\ SubSeq(q, 1, 1)[1] = ms[1].sig
         /\ Whole(SubSeq(q, 2, Len(q)), Tail(ms), 0)
<1> DEFINE n == Len(ms)
           b == SubSeq(q, 1, 1)
           r == SubSeq(q, 2, Len(q))
           t == Tail(ms)
<1>1. n \in Nat /\ Len(q) \in Nat /\ Len(q) = 5 * n - 4
  BY LenProperties DEF Whole
<1>2. n >= 1 /\ Len(q) > 0 /\ 1 \in 1 .. n
  BY <1>1, EmptySeq
<1>3. Len(b) = 1 /\ b[1] = q[1]
  <2>1. \A j \in 1 .. 1 : q[j] \in Byte
    BY <1>1, <1>2, ElementOfSeq
  <2>2. Len(b) = (IF 1 <= 1 THEN 1 - 1 + 1 ELSE 0) /\ \A j \in 1 .. 1 - 1 + 1 : b[j] = q[1 + j - 1]
    BY <2>1, SubSeqProperties
  <2> HIDE DEF b
  <2> QED
    BY <2>2
<1>4. q[1] = ms[1].sig
  <2>1. q[5 * 1 - 5 + 5 - 4] = ByteOf(ms[1], 5)
    <3>1. 5 * 1 - 5 + 5 > 4 /\ 5 \in 1 .. 5
      OBVIOUS
    <3> QED
      BY <1>2, <3>1 DEF Whole, Tells
  <2> QED
    BY <2>1 DEF ByteOf
<1>5. Len(r) = Len(q) - 1 /\ \A j \in 1 .. Len(q) - 1 : r[j] = q[1 + j]
  <2>1. \A j \in 2 .. Len(q) : q[j] \in Byte
    BY <1>1, ElementOfSeq
  <2>2. /\ Len(r) = IF 2 <= Len(q) THEN Len(q) - 2 + 1 ELSE 0
        /\ \A j \in 1 .. Len(q) - 2 + 1 : r[j] = q[2 + j - 1]
    BY <1>1, <2>1, SubSeqProperties
  <2> HIDE DEF r
  <2> QED
    BY <1>1, <1>2, <2>2
<1>6. Len(t) = n - 1 /\ \A k \in 1 .. n - 1 : t[k] = ms[k + 1]
  BY HeadTailProperties
<1> HIDE DEF r, t, b
<1>7. Tells(r, t, 0)
  <2> SUFFICES ASSUME NEW k \in 1 .. n - 1, NEW j \in 1 .. 5
               PROVE  r[5 * k - 5 + j - 0] = ByteOf(t[k], j)
    BY <1>6 DEF Tells
  <2> DEFINE l == 5 * k - 5 + j - 0
  <2>1. /\ l \in 1 .. Len(q) - 1 /\ 1 + l = 5 * (k + 1) - 5 + j - 4
        /\ 5 * (k + 1) - 5 + j > 4 /\ k + 1 \in 1 .. n
    BY <1>1
  <2>2. q[5 * (k + 1) - 5 + j - 4] = ByteOf(ms[k + 1], j)
    BY <2>1 DEF Whole, Tells
  <2> HIDE DEF l
  <2>3. r[l] = q[1 + l]
    BY <1>5, <2>1
  <2>4. r[l] = ByteOf(t[k], j)
    BY <1>6, <2>1, <2>2, <2>3
  <2> QED
    BY <2>4 DEF l
<1> QED
  BY <1>1, <1>2, <1>3, <1>4, <1>5, <1>6, <1>7 DEF Whole, r, t, b

(***************************************************************************)
(* The inductive invariant.  ForksHeld is about philosophers that eat or   *)
(* may begin to; it holds because the messages on their way are few and in *)
(* order: each philosopher has at most one request to put its forks down,  *)
(* then at most one to pick them up, and no answer until that is read.     *)
(***************************************************************************)
Steps == {"fork", "mkfifo", "open", "mkfifo_public", "open_public", "read_pid",
          "read_sig", "reply"}
Places == {"unborn", "open_read", "open_write", "read", "write_pid", "write_sig"}

TableTyped ==
  /\ step \in Steps \X Seats
  /\ philosophers \in [Seats -> Hungry \cup {-1, 0}]
  /\ philosopherFds \in [Seats -> Int]
  /\ whoHasFork \in [Seats -> Int] /\ lastEater \in Int
  /\ waiterReadFd \in Int /\ requestingPid \in Int /\ sig \in Byte
  /\ pc \in [Hungry -> Places]
  /\ readFd \in [Hungry -> Int] /\ writeFd \in [Hungry -> Int]
  /\ state \in [Hungry -> {0, 1, 2}]

\* The waiter has done its calls up to seat n.
Born(n)   == \A i \in Seats : i < n => philosophers[i] = Child(i)
Opened(n) == \A i \in Seats : i < n => IsFd(philosopherFds[i], PipeOf(Child(i)))

SetUp ==
  /\ step[1] = "fork" => /\ Born(step[2])
                         /\ \A p \in Hungry : p - 3 >= step[2] => pc[p] = "unborn"
  /\ step[1] # "fork" => Born(PHILOSOPHERS)
  /\ step[1] \in {"mkfifo", "open"} => Opened(step[2])
  /\ step[1] = "open" => Made(PipeOf(Child(step[2])))
  /\ step[1] \notin {"fork", "mkfifo", "open"} => Opened(PHILOSOPHERS)
  /\ step[1] = "open_public" => Made(WaiterPipe)
  /\ step[1] \in {"read_pid", "read_sig", "reply"} => IsFd(waiterReadFd, WaiterPipe)

\* Where a philosopher is, with its descriptors.
PlaceOf(p) ==
  /\ pc[p] \in {"unborn", "open_read", "open_write"} => state[p] = 0
  /\ pc[p] = "read" => state[p] \in {0, 2}
  /\ pc[p] \in {"write_pid", "write_sig"} => state[p] \in {0, 1}
  /\ pc[p] \in {"open_write", "read", "write_pid", "write_sig"} => IsFd(readFd[p], PipeOf(p))
  /\ pc[p] \in {"read", "write_pid", "write_sig"} => IsFd(writeFd[p], WaiterPipe)

OneBetween == \A p, q \in Hungry : Between(p) /\ Between(q) => p = q

\* The messages ms on their way to the waiter, and their bytes.
Gone == IF step[1] = "read_sig" THEN 4 ELSE 0

Carries(ms) ==
  /\ step[1] = "read_sig" => ms # <<>> /\ requestingPid = ms[1].pid
  /\ (\A p \in Hungry : ~Between(p)) => Whole(Requests, ms, Gone)
  /\ \A p \in Hungry : Between(p) => Begun(Requests, ms, Gone, p)

Held(p)     == \A f \in Forks(p) : whoHasFork[f] = p
Replying(p) == step[1] = "reply" /\ requestingPid = p
Yes(p)      == Answer(p) = <<1>> \/ (Replying(p) /\ sig = 1)

Orderly(ms) ==
  \A j, k \in 1 .. Len(ms) : j < k /\ ms[j].pid = ms[k].pid => ms[j].sig = 0 /\ ms[k].sig = 1

\* Those that have asked wait; those that put their forks down still hold them.
Asked(ms) ==
  \A k \in 1 .. Len(ms) :
    /\ ms[k].sig = 1 => state[ms[k].pid] = 2
    /\ ms[k].sig = 0 => state[ms[k].pid] # 1 /\ Held(ms[k].pid)
    /\ ~Replying(ms[k].pid) /\ Answer(ms[k].pid) = <<>>

Answered(p) ==
  /\ Answer(p) \in {<<>>, <<0>>, <<1>>}
  /\ Answer(p) # <<>> => state[p] = 2 /\ ~Replying(p)
  /\ Replying(p) => state[p] = 2
  /\ Eating(p) \/ Yes(p) => Held(p)
  /\ Yes(p) => lastEater # p

Deciding == step[1] = "reply" => requestingPid \in Hungry /\ sig \in {0, 1}

Protocol(ms) == Orderly(ms) /\ Asked(ms) /\ (\A p \in Hungry : Answered(p)) /\ Deciding

Table(ms) ==
  /\ TableTyped /\ PipesMade /\ SetUp /\ (\A p \in Hungry : PlaceOf(p)) /\ OneBetween
  /\ ms \in Seq(Message) /\ Carries(ms) /\ Protocol(ms) /\ Unused = <<>>

TableInv == \E ms \in Seq(Message) : Table(ms)

-----------------------------------------------------------------------------
(* What steps leave as it is.                                              *)

LEMMA SameFds ==
  ASSUME PipesMade, UNCHANGED pipes
  PROVE  Kept /\ \A name : QueueOf(name)' = QueueOf(name)
BY DEF Kept, Made, IsFd, QueueOf

LEMMA PlaceKept ==
  ASSUME NEW p \in Hungry, PlaceOf(p), Kept, TableTyped,
         pc'[p] = pc[p], state'[p] = state[p], readFd'[p] = readFd[p], writeFd'[p] = writeFd[p]
  PROVE  PlaceOf(p)'
<1>1. readFd[p] \in Int /\ writeFd[p] \in Int
  BY DEF TableTyped
<1>2. /\ IsFd(readFd[p], PipeOf(p)) => IsFd(readFd[p], PipeOf(p))'
      /\ IsFd(writeFd[p], WaiterPipe) => IsFd(writeFd[p], WaiterPipe)'
  BY <1>1, NamesDiffer DEF Kept, IsFd
<1> QED
  BY <1>2 DEF PlaceOf, IsFd

LEMMA OpenedKept ==
  ASSUME FirstAndWhole, TableTyped, Kept, UNCHANGED philosopherFds, NEW n, Opened(n)
  PROVE  Opened(n)'
<1>1. \A i \in Seats : philosopherFds[i] \in Int /\ PipeOf(Child(i)) \in PipeNames
  BY ChildAt DEF TableTyped
<1> QED
  BY <1>1 DEF Opened, Kept, IsFd

\* A philosopher's step leaves what the waiter has set up.
LEMMA SetUpKept ==
  ASSUME FirstAndWhole, TableTyped, SetUp, Kept, UNCHANGED waiterVars,
         \A p \in Hungry : pc[p] = "unborn" => pc'[p] = "unborn"
  PROVE  SetUp'
<1>1. /\ UNCHANGED <<step, philosophers, philosopherFds, waiterReadFd>>
  BY DEF waiterVars
<1>2. \A n : Born(n)' <=> Born(n)
  BY <1>1 DEF Born
<1>3. ASSUME NEW n, Opened(n)
      PROVE  Opened(n)'
  BY <1>1, <1>3, OpenedKept
<1>4. step[1] = "open" /\ Made(PipeOf(Child(step[2]))) => Made(PipeOf(Child(step[2])))'
  <2>1. step[2] \in Seats
    BY DEF TableTyped
  <2>2. PipeOf(Child(step[2])) \in PipeNames
    BY <2>1, ChildAt
  <2> QED
    BY <1>1, <2>2 DEF Kept, Made
<1>5. Made(WaiterPipe) => Made(WaiterPipe)'
  BY NamesDiffer DEF Kept
<1>6. IsFd(waiterReadFd, WaiterPipe) => IsFd(waiterReadFd, WaiterPipe)'
  BY <1>1, NamesDiffer DEF Kept, IsFd, TableTyped
<1> QED
  BY <1>1, <1>2, <1>3, <1>4, <1>5, <1>6 DEF SetUp

LEMMA CarriesKept ==
  ASSUME NEW ms \in Seq(Message), Carries(ms), Requests' = Requests,
         \A p \in Hungry : Between(p)' <=> Between(p),
         \/ UNCHANGED <<step, requestingPid>>
         \/ step[1] # "read_sig" /\ step'[1] # "read_sig"
  PROVE  Carries(ms)'
<1>1. Gone' = Gone
  BY DEF Gone
<1>2. \A p \in Hungry : Begun(Requests, ms, Gone, p) => Begun(Requests, ms, Gone, p)'
  BY <1>1 DEF Begun, Tells
<1>3. Whole(Requests, ms, Gone) => Whole(Requests, ms, Gone)'
  BY <1>1 DEF Whole, Tells
<1> QED
  BY <1>2, <1>3 DEF Carries

LEMMA ProtocolKept ==
  ASSUME NEW ms \in Seq(Message), Protocol(ms),
         \A p \in Hungry : Answer(p)' = Answer(p),
         UNCHANGED <<state, whoHasFork, lastEater>>,
         \/ UNCHANGED <<step, requestingPid, sig>>
         \/ step[1] # "reply" /\ step'[1] # "reply"
  PROVE  Protocol(ms)'
<1>1. \A p \in Hungry : (Replying(p)' <=> Replying(p)) /\ (Held(p)' <=> Held(p))
  BY DEF Replying, Held
<1>2. \A p \in Hungry : (Yes(p)' <=> Yes(p)) /\ (Eating(p)' <=> Eating(p))
  BY <1>1 DEF Yes, Eating, Replying
<1>3. \A k \in 1 .. Len(ms) : ms[k].pid \in Hungry
  <2>1. \A k \in 1 .. Len(ms) : ms[k] \in Message
    BY ElementOfSeq
  <2> QED
    BY <2>1 DEF Message
<1>4. Orderly(ms)'
  BY DEF Protocol, Orderly
<1>5. Asked(ms)'
  BY <1>1, <1>3 DEF Protocol, Asked
<1>6. \A p \in Hungry : Answered(p)'
  BY <1>1, <1>2 DEF Protocol, Answered
<1>7. Deciding'
  BY DEF Protocol, Deciding
<1> QED
  BY <1>4, <1>5, <1>6, <1>7 DEF Protocol

-----------------------------------------------------------------------------
(* The philosophers' steps.                                                *)

OthersStay(p) ==
  \A q \in Hungry :
    q # p => /\ pc'[q] = pc[q] /\ state'[q] = state[q]
             /\ readFd'[q] = readFd[q] /\ writeFd'[q] = writeFd[q]

LEMMA PhilosopherFrame ==
  ASSUME FirstAndWhole, NEW ms, Table(ms), NEW p \in Hungry, Kept, UNCHANGED waiterVars,
         pc[p] # "unborn", OthersStay(p), TableTyped', PlaceOf(p)', PipesMade',
         \A q \in Hungry : q # p => ~Between(q),
         NEW ns \in Seq(Message), Carries(ns)', Protocol(ns)', Unused' = Unused
  PROVE  TableInv'
<1>1. SetUp'
  BY SetUpKept DEF Table, OthersStay
<1>2. ASSUME NEW q \in Hungry
      PROVE  PlaceOf(q)'
  <2>1. CASE q = p
    BY <2>1
  <2>2. CASE q # p
    BY <2>2, PlaceKept DEF Table, OthersStay
  <2> QED
    BY <2>1, <2>2
<1>3. OneBetween'
  BY DEF OneBetween, Between, OthersStay
<1> QED
  BY <1>1, <1>2, <1>3 DEF TableInv, Table

LEMMA open_read_Keeps ==
  ASSUME FirstAndWhole, NEW ms, Table(ms), NEW p \in Hungry, open_read(p),
         \A q \in Hungry : q # p => ~Between(q)
  PROVE  TableInv'
<1> DEFINE fd == openResult(p, PipeOf(p), O_RDONLY)
<1>0. /\ TableTyped /\ PipesMade /\ PlaceOf(p) /\ pc[p] = "open_read"
      /\ UNCHANGED pipes /\ UNCHANGED currFd /\ UNCHANGED waiterVars
      /\ UNCHANGED writeFd /\ UNCHANGED state
  BY DEF Table, open_read, pipeVars
<1>1. Kept /\ \A name : QueueOf(name)' = QueueOf(name)
  BY <1>0, SameFds
<1>2. fd \in Int /\ (fd = -1 \/ IsFd(fd, PipeOf(p)))
  BY <1>0, OpenFinds
<1>3. readFd' = [readFd EXCEPT ![p] = fd]
  BY DEF open_read
<1> HIDE DEF fd
<1>4. readFd'[p] = fd /\ readFd' \in [Hungry -> Int]
  BY <1>0, <1>2, <1>3 DEF TableTyped
<1>5. pc' = [pc EXCEPT ![p] = IF fd = -1 THEN "open_read" ELSE "open_write"]
  BY <1>0, <1>4 DEF open_read, TableTyped
<1>6. pc' \in [Hungry -> Places] /\ pc'[p] = IF fd = -1 THEN "open_read" ELSE "open_write"
  BY <1>0, <1>5 DEF TableTyped, Places
<1>7. OthersStay(p)
  BY <1>0, <1>3, <1>5 DEF OthersStay, TableTyped
<1>8. TableTyped'
  BY <1>0, <1>4, <1>6 DEF TableTyped, waiterVars
<1>9. PlaceOf(p)'
  BY <1>0, <1>2, <1>4, <1>6 DEF PlaceOf, IsFd
<1>10. PipesMade'
  BY <1>0 DEF PipesMade
<1>11. Carries(ms)' /\ Protocol(ms)' /\ ms \in Seq(Message)
  <2>1. \A q \in Hungry : Between(q)' <=> Between(q)
    BY <1>0, <1>6, <1>7 DEF Between, OthersStay
  <2>2. UNCHANGED <<step, requestingPid, sig, whoHasFork, lastEater>>
    BY <1>0 DEF waiterVars
  <2>3. Carries(ms)'
    BY <1>1, <2>1, <2>2, CarriesKept DEF Table, Requests
  <2>4. Protocol(ms)'
    BY <1>0, <1>1, <2>2, ProtocolKept DEF Table, Answer
  <2> QED
    BY <2>3, <2>4 DEF Table
<1>12. Unused' = Unused
  BY <1>1, NamesDiffer DEF Unused
<1> QED
  BY <1>0, <1>1, <1>7, <1>8, <1>9, <1>10, <1>11, <1>12, PhilosopherFrame

LEMMA open_write_Keeps ==
  ASSUME FirstAndWhole, NEW ms, Table(ms), NEW p \in Hungry, open_write(p),
         \A q \in Hungry : q # p => ~Between(q)
  PROVE  TableInv'
<1> DEFINE fd == openResult(p, WaiterPipe, O_WRONLY)
<1>0. /\ TableTyped /\ PipesMade /\ PlaceOf(p) /\ pc[p] = "open_write"
      /\ UNCHANGED pipes /\ UNCHANGED currFd /\ UNCHANGED waiterVars
      /\ UNCHANGED readFd /\ UNCHANGED state
  BY DEF Table, open_write, pipeVars
<1>1. Kept /\ \A name : QueueOf(name)' = QueueOf(name)
  BY <1>0, SameFds
<1>2. fd \in Int /\ (fd = -1 \/ IsFd(fd, WaiterPipe))
  BY <1>0, OpenFinds
<1>3. writeFd' = [writeFd EXCEPT ![p] = fd]
  BY DEF open_write
<1> HIDE DEF fd
<1>4. writeFd'[p] = fd /\ writeFd' \in [Hungry -> Int]
  BY <1>0, <1>2, <1>3 DEF TableTyped
<1>5. pc' = [pc EXCEPT ![p] = IF fd = -1 THEN "open_write" ELSE "read"]
  BY <1>0, <1>4 DEF open_write, TableTyped
<1>6. pc' \in [Hungry -> Places] /\ pc'[p] = IF fd = -1 THEN "open_write" ELSE "read"
  BY <1>0, <1>5 DEF TableTyped, Places
<1>7. OthersStay(p)
  BY <1>0, <1>3, <1>5 DEF OthersStay, TableTyped
<1>8. TableTyped'
  BY <1>0, <1>4, <1>6 DEF TableTyped, waiterVars
<1>9. PlaceOf(p)'
  BY <1>0, <1>2, <1>4, <1>6 DEF PlaceOf, IsFd
<1>10. PipesMade'
  BY <1>0 DEF PipesMade
<1>11. Carries(ms)' /\ Protocol(ms)' /\ ms \in Seq(Message)
  <2>1. \A q \in Hungry : Between(q)' <=> Between(q)
    BY <1>0, <1>6, <1>7 DEF Between, OthersStay
  <2>2. UNCHANGED <<step, requestingPid, sig, whoHasFork, lastEater>>
    BY <1>0 DEF waiterVars
  <2>3. Carries(ms)'
    BY <1>1, <2>1, <2>2, CarriesKept DEF Table, Requests
  <2>4. Protocol(ms)'
    BY <1>0, <1>1, <2>2, ProtocolKept DEF Table, Answer
  <2> QED
    BY <2>3, <2>4 DEF Table
<1>12. Unused' = Unused
  BY <1>1, NamesDiffer DEF Unused
<1> QED
  BY <1>0, <1>1, <1>7, <1>8, <1>9, <1>10, <1>11, <1>12, PhilosopherFrame

LEMMA write_pid_Keeps ==
  ASSUME FirstAndWhole, NEW ms, Table(ms), NEW p \in Hungry, write_pid(p),
         \A q \in Hungry : q # p => ~Between(q)
  PROVE  TableInv'
<1>0. /\ TableTyped /\ PipesMade /\ PlaceOf(p) /\ pc[p] = "write_pid"
      /\ svc_write(p, writeFd[p], IntBytes(p))
      /\ pc' = [pc EXCEPT ![p] = "write_sig"]
      /\ UNCHANGED waiterVars /\ UNCHANGED readFd /\ UNCHANGED writeFd /\ UNCHANGED state
      /\ ms \in Seq(Message)
  BY DEF Table, write_pid
<1>1. p \in Nat /\ IntBytes(p) \in Seq(Byte)
  BY SeatOf, PidBytes
<1>2. /\ PipesMade' /\ Kept /\ Requests' = Requests \o IntBytes(p)
      /\ \A n \in PipeNames : n # WaiterPipe => QueueOf(n)' = QueueOf(n)
  <2>1. IsFd(writeFd[p], WaiterPipe)
    BY <1>0 DEF PlaceOf
  <2> QED
    BY <1>0, <1>1, <2>1, NamesDiffer, Rights, WriteAdds DEF Requests
<1>3. pc'[p] = "write_sig" /\ pc' \in [Hungry -> Places]
  BY <1>0 DEF TableTyped, Places
<1>4. OthersStay(p)
  BY <1>0 DEF OthersStay, TableTyped
<1>5. TableTyped'
  BY <1>0, <1>3 DEF TableTyped, waiterVars
<1>6. PlaceOf(p)'
  <2>1. /\ IsFd(readFd[p], PipeOf(p)) => IsFd(readFd[p], PipeOf(p))'
        /\ IsFd(writeFd[p], WaiterPipe) => IsFd(writeFd[p], WaiterPipe)'
    BY <1>0, <1>2, NamesDiffer DEF Kept, IsFd, TableTyped
  <2> QED
    BY <1>0, <1>3, <2>1 DEF PlaceOf, IsFd
<1>7. UNCHANGED <<step, requestingPid, sig, whoHasFork, lastEater>>
  BY <1>0 DEF waiterVars
<1>8. Carries(ms)'
  <2>1. \A q \in Hungry : ~Between(q)
    BY <1>0 DEF Between
  <2>2. Whole(Requests, ms, Gone) /\ Gone \in {0, 4}
    BY <2>1 DEF Table, Carries, Gone
  <2>3. Requests \in Seq(Byte)
    BY <1>0, QueuesTyped DEF Requests
  <2>4. Begun(Requests \o IntBytes(p), ms, Gone, p)
    BY <1>0, <1>1, <2>2, <2>3, PidWritten
  <2>5. Begun(Requests, ms, Gone, p)'
    <3>1. Gone' = Gone
      BY <1>7 DEF Gone
    <3> QED
      BY <1>2, <2>4, <3>1 DEF Begun, Tells
  <2>6. \A q \in Hungry : Between(q)' => q = p
    BY <1>4, <2>1 DEF Between, OthersStay
  <2>7. Between(p)'
    BY <1>3 DEF Between
  <2> QED
    BY <1>7, <2>5, <2>6, <2>7 DEF Table, Carries
<1>9. Protocol(ms)'
  <2>1. \A q \in Hungry : Answer(q)' = Answer(q)
    BY <1>2, NamesDiffer DEF Answer
  <2> QED
    BY <1>0, <1>7, <2>1, ProtocolKept DEF Table
<1>10. Unused' = Unused
  BY <1>2, NamesDiffer DEF Unused
<1> QED
  BY <1>0, <1>2, <1>4, <1>5, <1>6, <1>8, <1>9, <1>10, PhilosopherFrame

LEMMA PidsOfMessages ==
  ASSUME NEW ms \in Seq(Message), NEW k \in 1 .. Len(ms)
  PROVE  ms[k].pid \in Hungry /\ ms[k].sig \in {0, 1}
<1>1. ms[k] \in Message
  BY ElementOfSeq
<1> QED
  BY <1>1 DEF Message

\* A philosopher asks for its forks when it has no other request to pick up on its
\* way, and puts them down when it has none at all.
LEMMA write_sig_Keeps ==
  ASSUME FirstAndWhole, NEW ms, Table(ms), NEW p \in Hungry, write_sig(p),
         \A q \in Hungry : q # p => ~Between(q)
  PROVE  TableInv'
<1>18. state[p] \in {0, 1}
  BY DEF Table, write_sig, PlaceOf
<1>19. PICK s \in {0, 1} : s = 1 - state[p]
  BY <1>18
<1>20. [pid |-> p, sig |-> s] \in Message
  BY DEF Message
<1>21. PICK m \in Message : m = [pid |-> p, sig |-> s]
  BY <1>20
<1>22. Append(ms, m) \in Seq(Message)
  BY AppendProperties DEF Table
<1>23. PICK ns \in Seq(Message) : ns = Append(ms, m)
  BY <1>22
<1>0. /\ TableTyped /\ PipesMade /\ PlaceOf(p) /\ pc[p] = "write_sig"
      /\ svc_write(p, writeFd[p], <<s>>)
      /\ state' = [state EXCEPT ![p] = IF @ = 0 THEN 2 ELSE 0]
      /\ pc' = [pc EXCEPT ![p] = "read"]
      /\ UNCHANGED waiterVars /\ UNCHANGED readFd /\ UNCHANGED writeFd
      /\ ms \in Seq(Message) /\ Carries(ms) /\ Protocol(ms)
  BY <1>19 DEF Table, write_sig
<1>1. state[p] \in {0, 1} /\ s = 1 - state[p] /\ <<s>> \in Seq(Byte)
  <2>1. s \in Byte
    BY DEF Byte
  <2> QED
    BY <1>18, <1>19, <2>1
<1>2. /\ PipesMade' /\ Kept /\ Requests' = Requests \o <<s>>
      /\ \A n \in PipeNames : n # WaiterPipe => QueueOf(n)' = QueueOf(n)
  <2>1. IsFd(writeFd[p], WaiterPipe)
    BY <1>0 DEF PlaceOf
  <2> QED
    BY <1>0, <1>1, <2>1, NamesDiffer, Rights, WriteAdds DEF Requests
<1>3. /\ pc'[p] = "read" /\ pc' \in [Hungry -> Places]
      /\ state'[p] = (IF state[p] = 0 THEN 2 ELSE 0) /\ state' \in [Hungry -> {0, 1, 2}]
  BY <1>0 DEF TableTyped, Places
<1>4. OthersStay(p)
  BY <1>0 DEF OthersStay, TableTyped
<1>5. TableTyped'
  BY <1>0, <1>3 DEF TableTyped, waiterVars
<1>6. PlaceOf(p)'
  <2>1. /\ IsFd(readFd[p], PipeOf(p)) => IsFd(readFd[p], PipeOf(p))'
        /\ IsFd(writeFd[p], WaiterPipe) => IsFd(writeFd[p], WaiterPipe)'
    BY <1>0, <1>2, NamesDiffer DEF Kept, IsFd, TableTyped
  <2> QED
    BY <1>0, <1>3, <2>1 DEF PlaceOf, IsFd
<1>7. UNCHANGED <<step, requestingPid, sig, whoHasFork, lastEater>>
  BY <1>0 DEF waiterVars
<1>8. m \in Message /\ m.pid = p /\ m.sig = s
  BY <1>21
<1>9. ns \in Seq(Message) /\ Carries(ns)'
  <2>1. Begun(Requests, ms, Gone, p) /\ Gone \in {0, 4}
    BY <1>0 DEF Carries, Between, Gone
  <2>2. Requests \in Seq(Byte)
    BY <1>0, QueuesTyped DEF Requests
  <2>3. Whole(Requests \o <<s>>, ns, Gone)
    <3>1. Whole(Requests \o <<s>>, Append(ms, [pid |-> p, sig |-> s]), Gone)
      BY <1>0, <2>1, <2>2, SigWritten
    <3> QED
      BY <1>21, <1>23, <3>1
  <2>4. Whole(Requests, ns, Gone)'
    <3>1. Gone' = Gone
      BY <1>7 DEF Gone
    <3> QED
      BY <1>2, <2>3, <3>1 DEF Whole, Tells
  <2>5. \A q \in Hungry : ~Between(q)'
    BY <1>3, <1>4 DEF Between, OthersStay
  <2>6. ns \in Seq(Message) /\ ns # <<>>
    BY <1>0, <1>8, <1>23, AppendProperties
  <2>7. step[1] = "read_sig" => requestingPid = ns[1].pid
    <3>1. ASSUME step[1] = "read_sig"
          PROVE  ns[1] = ms[1] /\ requestingPid = ms[1].pid
      <4>1. ms # <<>> /\ requestingPid = ms[1].pid
        BY <1>0, <3>1 DEF Carries
      <4>2. 1 \in 1 .. Len(ms)
        BY <1>0, <4>1, EmptySeq
      <4> QED
        BY <1>0, <1>8, <4>1, <4>2, <1>23, AppendProperties
    <3> QED
      BY <3>1
  <2> QED
    BY <1>7, <2>4, <2>5, <2>6, <2>7 DEF Carries
<1>10. /\ Len(ns) = Len(ms) + 1 /\ Len(ms) \in Nat
       /\ \A k \in 1 .. Len(ms) : ns[k] = ms[k]
       /\ ns[Len(ms) + 1] = m
  BY <1>0, <1>8, <1>23, AppendProperties, LenProperties
<1>11. \A k \in 1 .. Len(ms) : ms[k].pid = p => s = 1 /\ ms[k].sig = 0
  BY <1>0, <1>1, PidsOfMessages DEF Protocol, Asked
<1>12. /\ \A q \in Hungry : Answer(q)' = Answer(q)
       /\ \A q \in Hungry : (Replying(q)' <=> Replying(q)) /\ (Held(q)' <=> Held(q))
       /\ \A q \in Hungry : (Yes(q)' <=> Yes(q)) /\ (q # p => (Eating(q)' <=> Eating(q)))
       /\ ~Eating(p)'
  <2>1. \A q \in Hungry : Answer(q)' = Answer(q)
    BY <1>2, NamesDiffer DEF Answer
  <2>2. \A q \in Hungry : (Replying(q)' <=> Replying(q)) /\ (Held(q)' <=> Held(q))
    BY <1>7 DEF Replying, Held
  <2>3. \A q \in Hungry : (Yes(q)' <=> Yes(q)) /\ (q # p => (Eating(q)' <=> Eating(q)))
    BY <1>4, <1>7, <2>1, <2>2 DEF Yes, Eating, OthersStay
  <2>4. ~Eating(p)'
    BY <1>3 DEF Eating
  <2> QED
    BY <2>1, <2>2, <2>3, <2>4
<1>13. Answer(p) = <<>> /\ ~Replying(p) /\ ~Yes(p) /\ (s = 0 => Held(p))
  <2>1. Answered(p)
    BY <1>0 DEF Protocol
  <2>2. Answer(p) = <<>> /\ ~Replying(p)
    BY <1>1, <2>1 DEF Answered
  <2>3. s = 0 => Eating(p)
    BY <1>1 DEF Eating
  <2> QED
    BY <2>1, <2>2, <2>3 DEF Answered, Yes
<1>14. Orderly(ns)'
  <2> SUFFICES ASSUME NEW j \in 1 .. Len(ms) + 1, NEW k \in 1 .. Len(ms) + 1, j < k,
                      ns[j].pid = ns[k].pid
               PROVE  ns[j].sig = 0 /\ ns[k].sig = 1
    BY <1>10 DEF Orderly
  <2>1. j \in 1 .. Len(ms)
    BY <1>10
  <2>2. CASE k \in 1 .. Len(ms)
    BY <1>0, <1>10, <2>1, <2>2 DEF Protocol, Orderly
  <2>3. CASE k = Len(ms) + 1
    BY <1>8, <1>10, <1>11, <2>1, <2>3
  <2> QED
    BY <1>10, <2>2, <2>3
<1>15. Asked(ns)'
  <2> SUFFICES ASSUME NEW k \in 1 .. Len(ms) + 1
               PROVE  /\ ns[k].sig = 1 => state'[ns[k].pid] = 2
                      /\ ns[k].sig = 0 => state'[ns[k].pid] # 1 /\ Held(ns[k].pid)'
                      /\ ~Replying(ns[k].pid)' /\ Answer(ns[k].pid)' = <<>>
    BY <1>10 DEF Asked
  <2>1. CASE k = Len(ms) + 1
    <3>1. ns[k].pid = p /\ ns[k].sig = s
      BY <1>8, <1>10, <2>1
    <3>2. s = 1 => state'[p] = 2
      BY <1>1, <1>3
    <3>3. state'[p] # 1
      BY <1>3
    <3> QED
      BY <1>12, <1>13, <3>1, <3>2, <3>3
  <2>2. CASE k \in 1 .. Len(ms)
    <3>5. ns[k] = ms[k] /\ ms[k].pid \in Hungry
      BY <1>0, <1>10, <2>2, PidsOfMessages
    <3>6. PICK q \in Hungry : q = ms[k].pid
      BY <3>5
    <3>1. ns[k].pid = q /\ ns[k].sig = ms[k].sig
      BY <3>5, <3>6
    <3>2. /\ ms[k].sig = 1 => state[q] = 2
          /\ ms[k].sig = 0 => state[q] # 1 /\ Held(q)
          /\ ~Replying(q) /\ Answer(q) = <<>>
      BY <1>0, <2>2, <3>6 DEF Protocol, Asked
    <3>3. q # p => state'[q] = state[q]
      BY <1>4, <3>1 DEF OthersStay
    <3>7. state'[p] # 1
      BY <1>3
    <3>4. q = p => ms[k].sig = 0 /\ state'[q] # 1
      BY <1>11, <2>2, <3>6, <3>7
    <3> QED
      BY <1>12, <3>1, <3>2, <3>3, <3>4
  <2> QED
    BY <1>10, <2>1, <2>2
<1>16. ASSUME NEW q \in Hungry
       PROVE  Answered(q)'
  <2>1. Answered(q)
    BY <1>0 DEF Protocol
  <2>2. CASE q = p
    BY <1>7, <1>12, <1>13, <2>1, <2>2 DEF Answered
  <2>3. CASE q # p
    <3>1. state'[q] = state[q]
      BY <1>4, <2>3 DEF OthersStay
    <3> QED
      BY <1>7, <1>12, <2>1, <2>3, <3>1 DEF Answered
  <2> QED
    BY <2>2, <2>3
<1>17. Deciding'
  BY <1>0, <1>7 DEF Protocol, Deciding
<1>24. Unused' = Unused
  BY <1>2, NamesDiffer DEF Unused
<1> QED
  BY <1>0, <1>2, <1>4, <1>5, <1>6, <1>9, <1>14, <1>15, <1>16, <1>17, <1>24, PhilosopherFrame
  DEF Protocol

\* The pipe of an answer is read empty, and the state is the answer if there is one.
LEMMA AnswerRead ==
  ASSUME FirstAndWhole, NEW ms, Table(ms), NEW p \in Hungry, read_reply(p)
  PROVE  /\ PipesMade' /\ Kept /\ Answer(p)' = <<>>
         /\ \A n \in PipeNames : n # PipeOf(p) => QueueOf(n)' = QueueOf(n)
         /\ \/ Answer(p) = <<>> /\ state' = state
            \/ \E b \in {0, 1} : Answer(p) = <<b>> /\ state' = [state EXCEPT ![p] = b]
<1>0. /\ TableTyped /\ PipesMade /\ PlaceOf(p) /\ pc[p] = "read" /\ Answered(p)
      /\ svc_read(p, readFd[p], 1)
      /\ state' = [state EXCEPT ![p] =
           IF readResult(p, readFd[p], 1) > 0 THEN readBytes(p, readFd[p], 1)[1] ELSE @]
  BY DEF Table, read_reply, Protocol
<1>1. PICK q \in {<<>>, <<0>>, <<1>>} : q = Answer(p)
  BY <1>0 DEF Answered
<1>2. IsFd(readFd[p], PipeOf(p))
  BY <1>0 DEF PlaceOf
<1>6. PICK one \in Nat : one = 1
  OBVIOUS
<1>8. PICK k : k = Least(one, Len(q))
  OBVIOUS
<1>7. /\ PipesMade' /\ Kept
      /\ readBytes(p, readFd[p], one) = SubSeq(q, 1, k)
      /\ readResult(p, readFd[p], one) = k
      /\ QueueOf(PipeOf(p))' = SubSeq(q, k + 1, Len(q))
      /\ \A n \in PipeNames : n # PipeOf(p) => QueueOf(n)' = QueueOf(n)
  <2>1. /\ PipeOf(p) \in PipeNames /\ Allowed(p, PipeOf(p), O_RDONLY)
        /\ svc_read(p, readFd[p], one) /\ q = QueueOf(PipeOf(p))
    BY <1>0, <1>1, <1>6, NamesDiffer, Rights DEF Answer
  <2> QED
    <3>1. PICK name \in PipeNames : name = PipeOf(p)
      BY <2>1
    <3>2. /\ PipesMade' /\ Kept
          /\ readBytes(p, readFd[p], one) = SubSeq(q, 1, k)
          /\ readResult(p, readFd[p], one) = k
          /\ QueueOf(name)' = SubSeq(q, k + 1, Len(q))
          /\ \A n \in PipeNames : n # name => QueueOf(n)' = QueueOf(n)
      BY <1>0, <1>2, <1>8, <2>1, <3>1, ReadTakes
    <3>3. QueueOf(PipeOf(p))' = QueueOf(name)'
      BY <3>1 DEF QueueOf
    <3> QED
      BY <3>1, <3>2, <3>3
<1>3. /\ PipesMade' /\ Kept
      /\ readBytes(p, readFd[p], 1) = SubSeq(q, 1, k)
      /\ readResult(p, readFd[p], 1) = k
      /\ QueueOf(PipeOf(p))' = SubSeq(q, k + 1, Len(q))
      /\ \A n \in PipeNames : n # PipeOf(p) => QueueOf(n)' = QueueOf(n)
  BY <1>6, <1>7
<1>4. CASE q = <<>>
  <2>1. Len(q) = 0 /\ k = 0
    BY <1>4, <1>6, <1>8 DEF Least
  <2>2. QueueOf(PipeOf(p))' = <<>>
    BY <1>3, <2>1, SubSeqEmpty
  <2>3. state' = state
    BY <1>0, <1>3, <2>1 DEF TableTyped
  <2> QED
    BY <1>1, <1>3, <1>4, <2>2, <2>3 DEF Answer
<1>5. CASE q # <<>>
  <2>1. PICK b \in {0, 1} : q = <<b>>
    BY <1>1, <1>5
  <2>2. q \in Seq(Byte) /\ Len(q) = 1 /\ q[1] = b /\ k = 1
    BY <1>6, <1>8, <2>1 DEF Byte, Least
  <2>3. readBytes(p, readFd[p], 1) = q
    BY <1>3, <2>2, SubSeqFull
  <2>4. QueueOf(PipeOf(p))' = <<>>
    BY <1>3, <2>2, SubSeqEmpty
  <2>5. state' = [state EXCEPT ![p] = b]
    <3>1. readResult(p, readFd[p], 1) > 0 /\ readBytes(p, readFd[p], 1)[1] = b
      BY <1>3, <2>2, <2>3
    <3> QED
      BY <1>0, <3>1
  <2> QED
    BY <1>1, <1>3, <2>1, <2>4, <2>5 DEF Answer
<1> QED
  BY <1>4, <1>5

\* A philosopher that reads an answer had no request on its way.
LEMMA read_reply_Keeps ==
  ASSUME FirstAndWhole, NEW ms, Table(ms), NEW p \in Hungry, read_reply(p),
         \A q \in Hungry : q # p => ~Between(q)
  PROVE  TableInv'
<1>0. /\ TableTyped /\ PipesMade /\ PlaceOf(p) /\ pc[p] = "read" /\ Answered(p)
      /\ pc' = [pc EXCEPT ![p] = IF state'[p] \in {0, 1} THEN "write_pid" ELSE @]
      /\ UNCHANGED waiterVars /\ UNCHANGED readFd /\ UNCHANGED writeFd
      /\ ms \in Seq(Message) /\ Carries(ms) /\ Protocol(ms)
  BY DEF Table, read_reply, Protocol
<1>1. /\ PipesMade' /\ Kept /\ Answer(p)' = <<>>
      /\ \A n \in PipeNames : n # PipeOf(p) => QueueOf(n)' = QueueOf(n)
      /\ \/ Answer(p) = <<>> /\ state' = state
         \/ \E b \in {0, 1} : Answer(p) = <<b>> /\ state' = [state EXCEPT ![p] = b]
  BY AnswerRead
<1>2. Requests' = Requests /\ \A q \in Hungry : q # p => Answer(q)' = Answer(q)
  BY <1>1, NamesDiffer DEF Requests, Answer
<1>3. /\ state' \in [Hungry -> {0, 1, 2}] /\ \A q \in Hungry : q # p => state'[q] = state[q]
  BY <1>0, <1>1 DEF TableTyped
<1>4. /\ pc' \in [Hungry -> Places] /\ \A q \in Hungry : q # p => pc'[q] = pc[q]
      /\ pc'[p] = IF state'[p] \in {0, 1} THEN "write_pid" ELSE "read"
  BY <1>0 DEF TableTyped, Places
<1>5. OthersStay(p)
  BY <1>0, <1>3, <1>4 DEF OthersStay
<1>6. TableTyped'
  BY <1>0, <1>3, <1>4 DEF TableTyped, waiterVars
<1>7. PlaceOf(p)'
  <2>1. /\ IsFd(readFd[p], PipeOf(p)) => IsFd(readFd[p], PipeOf(p))'
        /\ IsFd(writeFd[p], WaiterPipe) => IsFd(writeFd[p], WaiterPipe)'
    BY <1>0, <1>1, NamesDiffer DEF Kept, IsFd, TableTyped
  <2>2. state'[p] \in {0, 1, 2}
    BY <1>3
  <2> QED
    BY <1>0, <1>4, <2>1, <2>2 DEF PlaceOf, IsFd
<1>8. UNCHANGED <<step, requestingPid, sig, whoHasFork, lastEater>>
  BY <1>0 DEF waiterVars
<1>9. Carries(ms)'
  <2>1. \A q \in Hungry : Between(q)' <=> Between(q)
    BY <1>0, <1>4 DEF Between
  <2> QED
    BY <1>0, <1>2, <1>8, <2>1, CarriesKept
<1>12. Unused' = Unused
  BY <1>1, NamesDiffer DEF Unused
<1>10. CASE Answer(p) = <<>> /\ state' = state
  <2>1. \A q \in Hungry : Answer(q)' = Answer(q)
    BY <1>1, <1>2, <1>10
  <2>2. Protocol(ms)'
    BY <1>0, <1>8, <1>10, <2>1, ProtocolKept
  <2> QED
    BY <1>0, <1>1, <1>5, <1>6, <1>7, <1>9, <2>2, <1>12, PhilosopherFrame
<1>11. CASE \E b \in {0, 1} : Answer(p) = <<b>> /\ state' = [state EXCEPT ![p] = b]
  <2>1. PICK b \in {0, 1} : Answer(p) = <<b>> /\ state' = [state EXCEPT ![p] = b]
    BY <1>11
  <2>2. <<b>> # <<>> /\ state'[p] = b
    BY <1>0, <2>1 DEF TableTyped
  <2>3. ~Replying(p) /\ (b = 1 => Held(p))
    BY <1>0, <2>1, <2>2 DEF Answered, Yes
  <2>4. \A k \in 1 .. Len(ms) : ms[k].pid # p
    BY <1>0, <2>1, <2>2 DEF Protocol, Asked
  <2>5. \A q \in Hungry : (Replying(q)' <=> Replying(q)) /\ (Held(q)' <=> Held(q))
    BY <1>8 DEF Replying, Held
  <2>6. Orderly(ms)' /\ Deciding'
    BY <1>0, <1>8 DEF Protocol, Orderly, Deciding
  <2>7. Asked(ms)'
    <3>1. \A k \in 1 .. Len(ms) :
            /\ ms[k].pid \in Hungry /\ ms[k].pid # p
            /\ state'[ms[k].pid] = state[ms[k].pid]
      BY <1>0, <1>3, <2>4, PidsOfMessages
    <3> QED
      BY <1>0, <1>2, <2>5, <3>1 DEF Protocol, Asked
  <2>8. ASSUME NEW q \in Hungry
        PROVE  Answered(q)'
    <3>1. Answered(q)
      BY <1>0 DEF Protocol
    <3>2. CASE q # p
      <4>1. (Yes(q)' <=> Yes(q)) /\ (Eating(q)' <=> Eating(q)) /\ Answer(q)' = Answer(q)
        BY <1>2, <1>3, <1>8, <2>5, <3>2 DEF Yes, Eating
      <4>2. state'[q] = state[q]
        BY <1>3, <3>2
      <4> QED
        BY <1>8, <2>5, <3>1, <4>1, <4>2 DEF Answered
    <3>3. CASE q = p
      <4>1. Answer(q)' = <<>> /\ ~Replying(q)' /\ ~Yes(q)'
        BY <1>1, <2>3, <2>5, <3>3 DEF Yes
      <4>2. Eating(q)' => Held(q)'
        BY <2>2, <2>3, <2>5, <3>3 DEF Eating
      <4> QED
        BY <4>1, <4>2 DEF Answered
    <3> QED
      BY <3>2, <3>3
  <2>9. Protocol(ms)'
    BY <2>6, <2>7, <2>8 DEF Protocol
  <2> QED
    BY <1>0, <1>1, <1>5, <1>6, <1>7, <1>9, <2>9, <1>12, PhilosopherFrame
<1> QED
  BY <1>1, <1>10, <1>11

-----------------------------------------------------------------------------
(* The waiter's steps.  None is taken while a philosopher is between two    *)
(* writes.                                                                  *)

Serving == {"read_pid", "read_sig", "reply"}

LEMMA WaiterFrame ==
  ASSUME FirstAndWhole, NEW ms, Table(ms), \A q \in Hungry : ~Between(q),
         Kept, PipesMade', TableTyped', SetUp', UNCHANGED <<readFd, writeFd, state>>,
         \A q \in Hungry : pc'[q] = pc[q] \/ (pc[q] = "unborn" /\ pc'[q] = "open_read"),
         NEW ns \in Seq(Message), Carries(ns)', Protocol(ns)', Unused' = Unused
  PROVE  TableInv'
<1>1. ASSUME NEW q \in Hungry
      PROVE  PlaceOf(q)'
  <2>1. TableTyped /\ PlaceOf(q)
    BY DEF Table
  <2>2. CASE pc'[q] = pc[q]
    BY <2>1, <2>2, PlaceKept
  <2>3. CASE pc[q] = "unborn" /\ pc'[q] = "open_read"
    BY <2>1, <2>3 DEF PlaceOf
  <2> QED
    BY <2>2, <2>3
<1>2. OneBetween'
  BY DEF OneBetween, Between
<1> QED
  BY <1>1, <1>2 DEF TableInv, Table

\* A step that moves no message and decides nothing.
LEMMA QuietStep ==
  ASSUME FirstAndWhole, NEW ms, Table(ms), \A q \in Hungry : ~Between(q),
         Kept, PipesMade', TableTyped', SetUp',
         \A n \in PipeNames : QueueOf(n)' = QueueOf(n),
         UNCHANGED <<readFd, writeFd, state, whoHasFork, lastEater>>,
         \A q \in Hungry : pc'[q] = pc[q] \/ (pc[q] = "unborn" /\ pc'[q] = "open_read"),
         step[1] \notin {"read_sig", "reply"}, step'[1] \notin {"read_sig", "reply"}
  PROVE  TableInv'
<1>1. Requests' = Requests /\ \A q \in Hungry : Answer(q)' = Answer(q)
  BY NamesDiffer DEF Requests, Answer
<1>2. \A q \in Hungry : Between(q)' <=> Between(q)
  BY DEF Between
<1>3. ms \in Seq(Message) /\ Carries(ms)'
  BY <1>1, <1>2, CarriesKept DEF Table
<1>4. Protocol(ms)'
  BY <1>1, <1>3, ProtocolKept DEF Table
<1>5. Unused' = Unused
  BY NamesDiffer DEF Unused
<1> QED
  BY <1>3, <1>4, <1>5, WaiterFrame

LEMMA ServingKept ==
  ASSUME FirstAndWhole, TableTyped, SetUp, Kept, step[1] \in Serving, step'[1] \in Serving,
         UNCHANGED <<philosophers, philosopherFds, waiterReadFd>>
  PROVE  SetUp'
<1>1. Born(PHILOSOPHERS)'
  BY DEF SetUp, Serving, Born
<1>2. Opened(PHILOSOPHERS)'
  BY OpenedKept DEF SetUp, Serving
<1>3. IsFd(waiterReadFd, WaiterPipe)'
  BY NamesDiffer DEF SetUp, Serving, Kept, IsFd, TableTyped
<1> QED
  BY <1>1, <1>2, <1>3 DEF SetUp, Serving

LEMMA waiter_fork_Keeps ==
  ASSUME FirstAndWhole, NEW ms, Table(ms), \A q \in Hungry : ~Between(q), waiter_fork
  PROVE  TableInv'
<1>0. /\ TableTyped /\ SetUp /\ PipesMade /\ step[1] = "fork" /\ step[2] \in Seats
      /\ UNCHANGED <<pipes, currFd, philosopherFds, whoHasFork, lastEater, waiterReadFd,
                     requestingPid, sig, readFd, writeFd, state>>
  BY DEF Table, waiter_fork, TableTyped, pipeVars
<1>1. PICK i \in Seats : i = step[2]
  BY <1>0
<1>2. PICK pid : pid = Child(i)
  OBVIOUS
<1>3. /\ pid = (IF i < Forked THEN FirstPid + i ELSE -1)
      /\ pid \in Hungry \cup {-1} /\ (pid # -1 => pid = 3 + i)
  BY <1>2, ChildAt DEF Child, FirstAndWhole
<1>4. /\ philosophers' = [philosophers EXCEPT ![i] = pid]
      /\ pc' = IF pid = -1 THEN pc ELSE [pc EXCEPT ![pid] = "open_read"]
      /\ step' = NextSeat("fork", i, "mkfifo")
  BY <1>1, <1>3 DEF waiter_fork
<1>5. i \in Nat /\ PHILOSOPHERS \in Nat /\ i < PHILOSOPHERS
  BY DiningAssumption DEF Seats
<1>6. /\ step' \in Steps \X Seats /\ step'[1] \in {"fork", "mkfifo"}
      /\ step'[1] = "fork" => step'[2] = i + 1
      /\ step'[1] = "mkfifo" => step'[2] = 0 /\ i + 1 = PHILOSOPHERS
  BY <1>4, <1>5, DiningAssumption DEF NextSeat, Steps, Seats
<1>7. \A q \in Hungry : /\ q = pid => pc[q] = "unborn" /\ pc'[q] = "open_read"
                        /\ q # pid => pc'[q] = pc[q]
  <2>1. pid # -1 => pc[pid] = "unborn"
    <3>1. pid \in Hungry => (pid - 3 >= step[2] => pc[pid] = "unborn")
      BY <1>0 DEF SetUp
    <3> QED
      BY <1>1, <1>3, <1>5, <3>1
  <2>2. -1 \notin Hungry
    BY DiningAssumption DEF Hungry
  <2> QED
    BY <1>0, <1>3, <1>4, <2>1, <2>2 DEF TableTyped
<1>8. pc' \in [Hungry -> Places] /\ philosophers' \in [Seats -> Hungry \cup {-1, 0}]
  BY <1>0, <1>3, <1>4 DEF TableTyped, Places
<1>9. TableTyped'
  BY <1>0, <1>6, <1>8 DEF TableTyped
<1>10. Born(i + 1)'
  <2> SUFFICES ASSUME NEW j \in Seats, j < i + 1
               PROVE  philosophers'[j] = Child(j)
    BY DEF Born
  <2>1. j = i => philosophers'[j] = Child(j)
    BY <1>0, <1>2, <1>4 DEF TableTyped
  <2>2. j # i => j < i
    BY <1>5 DEF Seats
  <2>3. Born(i)
    BY <1>0, <1>1 DEF SetUp
  <2> QED
    BY <1>0, <1>4, <2>1, <2>2, <2>3 DEF Born, TableTyped
<1>11. SetUp'
  <2>1. CASE step'[1] = "fork"
    <3>1. Born(step[2])'
      BY <1>6, <1>10, <2>1 DEF Born
    <3>2. ASSUME NEW q \in Hungry, q - 3 >= step'[2]
          PROVE  pc'[q] = "unborn"
      <4>1. q \in Nat /\ step'[2] = i + 1
        BY <1>6, <2>1, SeatOf
      <4>2. q # pid /\ q - 3 >= step[2]
        <5>1. q # 3 + i
          BY <1>5, <3>2, <4>1
        <5>2. q >= 3
          BY SeatOf
        <5>3. q # pid
          BY <1>3, <5>1, <5>2
        <5> QED
          BY <1>1, <1>5, <3>2, <4>1, <5>3
      <4>3. pc[q] = "unborn"
        BY <1>0, <4>2 DEF SetUp
      <4> QED
        BY <1>7, <4>2, <4>3
    <3> QED
      BY <2>1, <3>1, <3>2 DEF SetUp
  <2>2. CASE step'[1] = "mkfifo"
    <3>1. Born(PHILOSOPHERS)'
      BY <1>6, <1>10, <2>2 DEF Born
    <3>2. Opened(step[2])'
      BY <1>6, <2>2 DEF Opened, Seats
    <3> QED
      BY <2>2, <3>1, <3>2 DEF SetUp
  <2> QED
    BY <1>6, <2>1, <2>2
<1>12. Kept /\ PipesMade' /\ \A n \in PipeNames : QueueOf(n)' = QueueOf(n)
  BY <1>0, SameFds DEF PipesMade
<1> QED
  BY <1>0, <1>6, <1>7, <1>9, <1>11, <1>12, QuietStep

LEMMA waiter_mkfifo_Keeps ==
  ASSUME FirstAndWhole, NEW ms, Table(ms), \A q \in Hungry : ~Between(q), waiter_mkfifo
  PROVE  TableInv'
<1>0. /\ TableTyped /\ SetUp /\ PipesMade /\ step[1] = "mkfifo" /\ step[2] \in Seats
      /\ UNCHANGED <<philosophers, philosopherFds, whoHasFork, lastEater, waiterReadFd,
                     requestingPid, sig, pc, readFd, writeFd, state>>
  BY DEF Table, waiter_mkfifo, TableTyped, philosopherVars
<1>1. PICK i \in Seats : i = step[2]
  BY <1>0
<1>2. PICK name \in PipeNames : name = PipeOf(Child(i))
  BY ChildAt
<1>3. philosophers[i] = Child(i)
  BY <1>0, DiningAssumption DEF SetUp, Born, Seats
<1>4. svc_mkfifo(Waiter, name, ModeFor(name)) /\ step' = <<"open", i>>
  <2>1. ModeFor(name) = AnswerMode
    BY <1>2, ChildAt DEF ModeFor
  <2> QED
    BY <1>1, <1>2, <1>3, <2>1 DEF waiter_mkfifo
<1>5. /\ PipesMade' /\ Kept /\ Made(name)'
      /\ \A n \in PipeNames : QueueOf(n)' = QueueOf(n)
  BY <1>0, <1>4, MkfifoMakes
<1>6. TableTyped'
  BY <1>0, <1>4 DEF TableTyped, Steps
<1>7. SetUp'
  <2>1. Opened(i)'
    BY <1>0, <1>1, <1>5, OpenedKept DEF SetUp
  <2>2. Opened(step[2])' /\ Made(PipeOf(Child(step[2])))'
    BY <1>2, <1>4, <1>5, <2>1 DEF Opened, Made
  <2>3. Born(PHILOSOPHERS)'
    BY <1>0 DEF SetUp, Born
  <2> QED
    BY <1>4, <2>2, <2>3 DEF SetUp
<1> QED
  BY <1>0, <1>4, <1>5, <1>6, <1>7, QuietStep

LEMMA waiter_open_Keeps ==
  ASSUME FirstAndWhole, NEW ms, Table(ms), \A q \in Hungry : ~Between(q), waiter_open
  PROVE  TableInv'
<1>0. /\ TableTyped /\ SetUp /\ PipesMade /\ step[1] = "open" /\ step[2] \in Seats
      /\ UNCHANGED <<pipes, currFd, philosophers, whoHasFork, lastEater, waiterReadFd,
                     requestingPid, sig, pc, readFd, writeFd, state>>
  BY DEF Table, waiter_open, TableTyped, philosopherVars, pipeVars
<1>1. PICK i \in Seats : i = step[2]
  BY <1>0
<1>2. philosophers[i] = Child(i)
  BY <1>0, DiningAssumption DEF SetUp, Born, Seats
<1> DEFINE fd == openResult(Waiter, PipeOf(Child(i)), O_WRONLY)
<1>3. IsFd(fd, PipeOf(Child(i))) /\ fd \in Int
  <2>1. Made(PipeOf(Child(i))) /\ Allowed(Waiter, PipeOf(Child(i)), O_WRONLY)
    BY <1>0, <1>1, Rights DEF SetUp
  <2> QED
    BY <1>0, <2>1, OpenFinds
<1>4. /\ philosopherFds' = [philosopherFds EXCEPT ![i] = fd]
      /\ step' = NextSeat("mkfifo", i, "mkfifo_public")
  BY <1>1, <1>2 DEF waiter_open
<1> HIDE DEF fd
<1>5. i \in Nat /\ PHILOSOPHERS \in Nat /\ i < PHILOSOPHERS
  BY DiningAssumption DEF Seats
<1>6. /\ step' \in Steps \X Seats /\ step'[1] \in {"mkfifo", "mkfifo_public"}
      /\ step'[1] = "mkfifo" => step'[2] = i + 1
      /\ step'[1] = "mkfifo_public" => i + 1 = PHILOSOPHERS
  BY <1>4, <1>5, DiningAssumption DEF NextSeat, Steps, Seats
<1>7. philosopherFds' \in [Seats -> Int]
  BY <1>0, <1>3, <1>4 DEF TableTyped
<1>8. TableTyped'
  BY <1>0, <1>6, <1>7 DEF TableTyped
<1>9. Kept /\ PipesMade' /\ \A n \in PipeNames : QueueOf(n)' = QueueOf(n)
  BY <1>0, SameFds DEF PipesMade
<1>10. Opened(i + 1)'
  <2> SUFFICES ASSUME NEW j \in Seats, j < i + 1
               PROVE  IsFd(philosopherFds[j], PipeOf(Child(j)))'
    BY DEF Opened
  <2>1. CASE j = i
    <3>1. philosopherFds'[j] = fd
      BY <1>0, <1>4, <2>1 DEF TableTyped
    <3>2. FdIn(pipes', fd, PipeOf(Child(j)))
      BY <1>0, <1>3, <2>1 DEF IsFd
    <3> QED
      BY <3>1, <3>2 DEF IsFd
  <2>2. CASE j # i
    <3>1. j < i
      BY <1>5, <2>2 DEF Seats
    <3>2. IsFd(philosopherFds[j], PipeOf(Child(j)))
      BY <1>0, <1>1, <3>1 DEF SetUp, Opened
    <3>3. philosopherFds'[j] = philosopherFds[j]
      BY <1>0, <1>4, <2>2 DEF TableTyped
    <3> QED
      BY <1>0, <3>2, <3>3 DEF IsFd
  <2> QED
    BY <2>1, <2>2
<1>11. SetUp'
  <2>1. Born(PHILOSOPHERS)'
    BY <1>0 DEF SetUp, Born
  <2>2. step'[1] = "mkfifo" => Opened(step[2])'
    BY <1>6, <1>10 DEF Opened
  <2>3. step'[1] = "mkfifo_public" => Opened(PHILOSOPHERS)'
    BY <1>6, <1>10 DEF Opened
  <2> QED
    BY <1>6, <2>1, <2>2, <2>3 DEF SetUp
<1> QED
  BY <1>0, <1>6, <1>8, <1>9, <1>11, QuietStep

LEMMA waiter_mkfifo_public_Keeps ==
  ASSUME FirstAndWhole, NEW ms, Table(ms), \A q \in Hungry : ~Between(q),
         waiter_mkfifo_public
  PROVE  TableInv'
<1>0. /\ TableTyped /\ SetUp /\ PipesMade /\ step[1] = "mkfifo_public"
      /\ UNCHANGED <<philosophers, philosopherFds, whoHasFork, lastEater, waiterReadFd,
                     requestingPid, sig, pc, readFd, writeFd, state>>
      /\ step' = <<"open_public", 0>>
  BY DEF Table, waiter_mkfifo_public, philosopherVars
<1>1. ModeFor(WaiterPipe) = RequestMode /\ WaiterPipe \in PipeNames
  BY NamesDiffer DEF ModeFor
<1>2. /\ PipesMade' /\ Kept /\ Made(WaiterPipe)'
      /\ \A n \in PipeNames : QueueOf(n)' = QueueOf(n)
  BY <1>0, <1>1, MkfifoMakes DEF waiter_mkfifo_public
<1>3. TableTyped'
  BY <1>0, DiningAssumption DEF TableTyped, Steps, Seats
<1>4. SetUp'
  <2>1. Born(PHILOSOPHERS)'
    BY <1>0 DEF SetUp, Born
  <2>2. Opened(PHILOSOPHERS)'
    BY <1>0, <1>2, OpenedKept DEF SetUp
  <2> QED
    BY <1>0, <1>2, <2>1, <2>2 DEF SetUp
<1> QED
  BY <1>0, <1>2, <1>3, <1>4, QuietStep

LEMMA waiter_open_public_Keeps ==
  ASSUME FirstAndWhole, NEW ms, Table(ms), \A q \in Hungry : ~Between(q),
         waiter_open_public
  PROVE  TableInv'
<1>0. /\ TableTyped /\ SetUp /\ PipesMade /\ step[1] = "open_public"
      /\ UNCHANGED <<pipes, currFd, philosophers, philosopherFds, whoHasFork, lastEater,
                     requestingPid, sig, pc, readFd, writeFd, state>>
      /\ step' = <<"read_pid", 0>>
      /\ waiterReadFd' = openResult(Waiter, WaiterPipe, O_RDONLY)
  BY DEF Table, waiter_open_public, philosopherVars, pipeVars
<1>1. IsFd(waiterReadFd', WaiterPipe) /\ waiterReadFd' \in Int
  BY <1>0, OpenFinds, Rights DEF SetUp
<1>2. Kept /\ PipesMade' /\ \A n \in PipeNames : QueueOf(n)' = QueueOf(n)
  BY <1>0, SameFds DEF PipesMade
<1>3. TableTyped'
  BY <1>0, <1>1, DiningAssumption DEF TableTyped, Steps, Seats
<1>4. SetUp'
  <2>1. Born(PHILOSOPHERS)'
    BY <1>0 DEF SetUp, Born
  <2>2. Opened(PHILOSOPHERS)'
    BY <1>0, <1>2, OpenedKept DEF SetUp
  <2>3. IsFd(waiterReadFd, WaiterPipe)'
    BY <1>0, <1>1 DEF IsFd
  <2> QED
    BY <1>0, <2>1, <2>2, <2>3 DEF SetUp
<1> QED
  BY <1>0, <1>2, <1>3, <1>4, QuietStep

\* What the waiter reads, and what is left.
LEMMA RequestRead ==
  ASSUME FirstAndWhole, TableTyped, SetUp, PipesMade, step[1] \in Serving,
         NEW n \in Nat, svc_read(Waiter, waiterReadFd, n),
         NEW q \in Seq(Byte), q = Requests, NEW k, k = Least(n, Len(q))
  PROVE  /\ PipesMade' /\ Kept
         /\ readBytes(Waiter, waiterReadFd, n) = SubSeq(q, 1, k)
         /\ readResult(Waiter, waiterReadFd, n) = k
         /\ Requests' = SubSeq(q, k + 1, Len(q))
         /\ \A m \in PipeNames : m # WaiterPipe => QueueOf(m)' = QueueOf(m)
<1>1. IsFd(waiterReadFd, WaiterPipe) /\ Allowed(Waiter, WaiterPipe, O_RDONLY)
  BY Rights DEF SetUp, Serving
<1>2. PICK name \in PipeNames : name = WaiterPipe
  BY NamesDiffer
<1>3. /\ PipesMade' /\ Kept
      /\ readBytes(Waiter, waiterReadFd, n) = SubSeq(q, 1, k)
      /\ readResult(Waiter, waiterReadFd, n) = k
      /\ QueueOf(name)' = SubSeq(q, k + 1, Len(q))
      /\ \A m \in PipeNames : m # name => QueueOf(m)' = QueueOf(m)
  BY <1>1, <1>2, ReadTakes DEF Requests
<1>4. Requests' = QueueOf(name)'
  BY <1>2 DEF Requests, QueueOf
<1> QED
  BY <1>2, <1>3, <1>4

LEMMA waiter_read_pid_Keeps ==
  ASSUME FirstAndWhole, NEW ms, Table(ms), \A q \in Hungry : ~Between(q), waiter_read_pid
  PROVE  TableInv'
<1>1. PICK four \in Nat : four = 4
  OBVIOUS
<1>0. /\ TableTyped /\ SetUp /\ PipesMade /\ step[1] = "read_pid" /\ step[1] \in Serving
      /\ ms \in Seq(Message) /\ Carries(ms) /\ Protocol(ms)
      /\ UNCHANGED <<philosophers, philosopherFds, whoHasFork, lastEater, waiterReadFd,
                     sig, pc, readFd, writeFd, state>>
      /\ svc_read(Waiter, waiterReadFd, four)
      /\ requestingPid' = IntOf(readBytes(Waiter, waiterReadFd, four))
      /\ step' = IF readResult(Waiter, waiterReadFd, four) > 0 THEN <<"read_sig", 0>> ELSE step
  BY <1>1 DEF Table, waiter_read_pid, philosopherVars, Serving
<1>2. PICK q \in Seq(Byte) : q = Requests
  BY <1>0, QueuesTyped DEF Requests
<1>3. PICK k : k = Least(four, Len(q))
  OBVIOUS
<1>4. /\ PipesMade' /\ Kept
      /\ readBytes(Waiter, waiterReadFd, four) = SubSeq(q, 1, k)
      /\ readResult(Waiter, waiterReadFd, four) = k
      /\ Requests' = SubSeq(q, k + 1, Len(q))
      /\ \A m \in PipeNames : m # WaiterPipe => QueueOf(m)' = QueueOf(m)
  BY <1>0, <1>2, <1>3, RequestRead
<1>5. Whole(q, ms, 0)
  BY <1>0, <1>2 DEF Carries, Gone
<1>6. \A p \in Hungry : Answer(p)' = Answer(p)
  BY <1>4, NamesDiffer DEF Answer
<1>7. Len(q) \in Nat
  BY LenProperties
<1>8. ASSUME step'[1] \in Serving, step' \in Steps \X Seats, requestingPid' \in Int
      PROVE  TableTyped' /\ SetUp'
  BY <1>0, <1>4, <1>8, ServingKept DEF TableTyped
<1>11. Unused' = Unused
  BY <1>4, NamesDiffer DEF Unused
<1>9. CASE ms = <<>>
  <2>1. Len(q) = 0
    BY <1>0, <1>5, <1>9, PidRead
  <2>2. k = 0
    BY <1>1, <1>3, <2>1 DEF Least
  <2>3. step' = step
    BY <1>0, <1>4, <2>2
  <2>4. requestingPid' \in Int
    <3>1. SubSeq(q, 1, 0) = <<>>
      BY SubSeqEmpty
    <3>2. IntOf(<<>>) \in Int
      BY DEF IntOf
    <3> QED
      BY <1>0, <1>4, <2>2, <3>1, <3>2
  <2>5. Requests' = Requests
    <3>1. k + 1 = 1
      BY <2>2
    <3>2. SubSeq(q, 1, Len(q)) = q
      BY SubSeqFull
    <3> QED
      BY <1>2, <1>4, <3>1, <3>2
  <2>6. \A n \in PipeNames : QueueOf(n)' = QueueOf(n)
    BY <1>4, <2>5 DEF Requests
  <2>7. step' \in Steps \X Seats
    BY <1>0, <2>3 DEF TableTyped
  <2> QED
    BY <1>0, <1>4, <1>8, <2>3, <2>4, <2>6, <2>7, QuietStep
<1>10. CASE ms # <<>>
  <2>1. /\ Len(q) > 4 /\ ms[1].pid \in Hungry /\ IntOf(SubSeq(q, 1, 4)) = ms[1].pid
        /\ Whole(SubSeq(q, 5, Len(q)), ms, 4)
    BY <1>0, <1>5, <1>10, PidRead
  <2>2. k = 4 /\ k + 1 = 5
    BY <1>1, <1>3, <1>7, <2>1 DEF Least
  <2>3. step' = <<"read_sig", 0>> /\ requestingPid' = ms[1].pid
    BY <1>0, <1>4, <2>1, <2>2
  <2>4. Whole(Requests', ms, 4)
    BY <1>4, <2>1, <2>2
  <2>5. TableTyped' /\ SetUp'
    <3>1. requestingPid' \in Int
      BY <2>1, <2>3, SeatOf
    <3>2. step' \in Steps \X Seats /\ step'[1] \in Serving
      BY <2>3, DiningAssumption DEF Steps, Seats, Serving
    <3> QED
      BY <1>8, <3>1, <3>2
  <2>6. Carries(ms)'
    <3>1. Gone' = 4
      BY <2>3 DEF Gone
    <3>2. Whole(Requests, ms, Gone)'
      BY <2>4, <3>1 DEF Whole, Tells
    <3>3. \A p \in Hungry : ~Between(p)'
      BY <1>0 DEF Between
    <3> QED
      BY <1>10, <2>3, <3>2, <3>3 DEF Carries
  <2>7. Protocol(ms)'
    BY <1>0, <1>6, <2>3, ProtocolKept
  <2> QED
    BY <1>0, <1>4, <2>5, <2>6, <2>7, <1>11, WaiterFrame
<1> QED
  BY <1>9, <1>10

\* What is left when the first message has been read.
LEMMA OneReceived ==
  ASSUME NEW ms \in Seq(Message), ms # <<>>, Orderly(ms)
  PROVE  \E ns \in Seq(Message), r \in Hungry, s \in {0, 1} :
           /\ ns = Tail(ms) /\ r = ms[1].pid /\ s = ms[1].sig
           /\ Orderly(ns) /\ 1 \in 1 .. Len(ms)
           /\ \A k \in 1 .. Len(ns) : k + 1 \in 1 .. Len(ms) /\ ns[k] = ms[k + 1]
           /\ \A k \in 1 .. Len(ns) : ns[k].pid = r => s = 0 /\ ns[k].sig = 1
<1>1. Len(ms) \in Nat /\ Len(ms) >= 1 /\ 1 \in 1 .. Len(ms)
  BY LenProperties, EmptySeq
<1>2. PICK r \in Hungry, s \in {0, 1} : r = ms[1].pid /\ s = ms[1].sig
  BY <1>1, PidsOfMessages
<1>7. PICK ns \in Seq(Message) : ns = Tail(ms)
  BY HeadTailProperties
<1>3. /\ Len(ns) = Len(ms) - 1
      /\ \A k \in 1 .. Len(ms) - 1 : ns[k] = ms[k + 1]
  BY <1>7, HeadTailProperties
<1>4. \A k \in 1 .. Len(ns) : k + 1 \in 1 .. Len(ms) /\ ns[k] = ms[k + 1] /\ 1 < k + 1
  BY <1>1, <1>3
<1>5. \A k \in 1 .. Len(ns) : ns[k].pid = r => s = 0 /\ ns[k].sig = 1
  BY <1>1, <1>2, <1>4 DEF Orderly
<1>6. Orderly(ns)
  <2> SUFFICES ASSUME NEW j \in 1 .. Len(ns), NEW k \in 1 .. Len(ns), j < k,
                      ns[j].pid = ns[k].pid
               PROVE  ns[j].sig = 0 /\ ns[k].sig = 1
    BY DEF Orderly
  <2>1. j + 1 < k + 1
    BY <1>1, <1>3
  <2>2. /\ j + 1 \in 1 .. Len(ms) /\ k + 1 \in 1 .. Len(ms)
        /\ ns[j] = ms[j + 1] /\ ns[k] = ms[k + 1]
    BY <1>4
  <2> QED
    BY <2>1, <2>2 DEF Orderly
<1> QED
  BY <1>1, <1>2, <1>4, <1>5, <1>6, <1>7

\* The bytes of a decision.
LEMMA SigReceived ==
  ASSUME FirstAndWhole, NEW ms, Table(ms), \A q \in Hungry : ~Between(q), waiter_read_sig
  PROVE  /\ PipesMade' /\ Kept
         /\ readResult(Waiter, waiterReadFd, 1) = 1
         /\ IntOf(readBytes(Waiter, waiterReadFd, 1)) = ms[1].sig
         /\ Whole(Requests', Tail(ms), 0)
         /\ \A m \in PipeNames : m # WaiterPipe => QueueOf(m)' = QueueOf(m)
<1>1. PICK one \in Nat : one = 1
  OBVIOUS
<1>0. /\ TableTyped /\ SetUp /\ PipesMade /\ step[1] = "read_sig" /\ step[1] \in Serving
      /\ ms \in Seq(Message) /\ Carries(ms) /\ svc_read(Waiter, waiterReadFd, one)
  BY <1>1 DEF Table, waiter_read_sig, Serving
<1>2. PICK q \in Seq(Byte) : q = Requests
  BY <1>0, QueuesTyped DEF Requests
<1>3. PICK k : k = Least(one, Len(q))
  OBVIOUS
<1>4. /\ PipesMade' /\ Kept
      /\ readBytes(Waiter, waiterReadFd, one) = SubSeq(q, 1, k)
      /\ readResult(Waiter, waiterReadFd, one) = k
      /\ Requests' = SubSeq(q, k + 1, Len(q))
      /\ \A m \in PipeNames : m # WaiterPipe => QueueOf(m)' = QueueOf(m)
  BY <1>0, <1>2, <1>3, RequestRead
<1>5. Whole(q, ms, 4) /\ ms # <<>>
  BY <1>0, <1>2 DEF Carries, Gone
<1>6. /\ Len(q) > 0
      /\ Len(SubSeq(q, 1, 1)) = 1 /\ SubSeq(q, 1, 1)[1] = ms[1].sig
      /\ Whole(SubSeq(q, 2, Len(q)), Tail(ms), 0)
  BY <1>0, <1>5, SigRead
<1>7. k = 1 /\ k + 1 = 2
  <2>1. Len(q) \in Nat /\ Len(q) > 0
    BY <1>6, LenProperties
  <2>2. k = Least(1, Len(q))
    BY <1>1, <1>3
  <2>3. PICK l \in Nat : l = Len(q)
    BY <2>1
  <2>4. l > 0 /\ k = Least(1, l)
    BY <2>1, <2>2, <2>3
  <2>5. k = IF 1 < l THEN 1 ELSE l
    BY <2>4 DEF Least
  <2>6. k = 1
    BY <2>4, <2>5
  <2> QED
    BY <2>6
<1>8. ms[1].sig \in Nat
  <2>1. 1 \in 1 .. Len(ms)
    BY <1>0, <1>5, EmptySeq, LenProperties
  <2> QED
    BY <1>0, <2>1, PidsOfMessages
<1>9. IntOf(SubSeq(q, 1, 1)) = ms[1].sig
  BY <1>6, <1>8, ByteBack
<1>10. readBytes(Waiter, waiterReadFd, 1) = SubSeq(q, 1, 1)
  BY <1>1, <1>4, <1>7
<1>11. readResult(Waiter, waiterReadFd, 1) = 1 /\ Requests' = SubSeq(q, 2, Len(q))
  BY <1>1, <1>4, <1>7
<1> QED
  BY <1>4, <1>6, <1>9, <1>10, <1>11

LEMMA waiter_read_sig_Keeps ==
  ASSUME FirstAndWhole, NEW ms, Table(ms), \A q \in Hungry : ~Between(q), waiter_read_sig
  PROVE  TableInv'
<1>0. /\ TableTyped /\ SetUp /\ PipesMade /\ step[1] = "read_sig" /\ step[1] \in Serving
      /\ ms \in Seq(Message) /\ Carries(ms) /\ Protocol(ms)
      /\ UNCHANGED <<philosophers, philosopherFds, waiterReadFd, requestingPid,
                     pc, readFd, writeFd, state>>
  BY DEF Table, waiter_read_sig, philosopherVars, Serving
<1>1. ms # <<>> /\ requestingPid = ms[1].pid /\ Orderly(ms)
  BY <1>0 DEF Carries, Protocol
<1>2. PICK ns \in Seq(Message), r \in Hungry, s \in {0, 1} :
        /\ ns = Tail(ms) /\ r = ms[1].pid /\ s = ms[1].sig
        /\ Orderly(ns) /\ 1 \in 1 .. Len(ms)
        /\ \A k \in 1 .. Len(ns) : k + 1 \in 1 .. Len(ms) /\ ns[k] = ms[k + 1]
        /\ \A k \in 1 .. Len(ns) : ns[k].pid = r => s = 0 /\ ns[k].sig = 1
  BY <1>0, <1>1, OneReceived
<1>6. /\ PipesMade' /\ Kept
      /\ readResult(Waiter, waiterReadFd, 1) = 1
      /\ IntOf(readBytes(Waiter, waiterReadFd, 1)) = s
      /\ Whole(Requests', ns, 0)
      /\ \A m \in PipeNames : m # WaiterPipe => QueueOf(m)' = QueueOf(m)
  BY <1>2, SigReceived
<1>7. /\ requestingPid = r
      /\ s = 1 => state[r] = 2
      /\ s = 0 => state[r] # 1 /\ Held(r)
      /\ Answer(r) = <<>>
  BY <1>0, <1>1, <1>2 DEF Protocol, Asked
<1>8. \A p \in Hungry : Answer(p)' = Answer(p)
  BY <1>6, NamesDiffer DEF Answer
<1>9. \A k \in 1 .. Len(ns) :
        /\ ns[k].pid \in Hungry
        /\ ns[k].sig = 1 => state[ns[k].pid] = 2
        /\ ns[k].sig = 0 => state[ns[k].pid] # 1 /\ Held(ns[k].pid) /\ ns[k].pid # r
        /\ Answer(ns[k].pid) = <<>>
        /\ ns[k].pid = r => s = 0
  <2> SUFFICES ASSUME NEW k \in 1 .. Len(ns)
               PROVE  /\ ns[k].pid \in Hungry
                      /\ ns[k].sig = 1 => state[ns[k].pid] = 2
                      /\ ns[k].sig = 0 => /\ state[ns[k].pid] # 1
                                          /\ Held(ns[k].pid) /\ ns[k].pid # r
                      /\ Answer(ns[k].pid) = <<>>
                      /\ ns[k].pid = r => s = 0
    OBVIOUS
  <2>1. k + 1 \in 1 .. Len(ms) /\ ns[k] = ms[k + 1]
    BY <1>2
  <2>2. /\ ms[k + 1].sig = 1 => state[ms[k + 1].pid] = 2
        /\ ms[k + 1].sig = 0 => state[ms[k + 1].pid] # 1 /\ Held(ms[k + 1].pid)
        /\ Answer(ms[k + 1].pid) = <<>>
    BY <1>0, <2>1 DEF Protocol, Asked
  <2>3. ns[k].pid \in Hungry
    BY <1>2, PidsOfMessages
  <2>4. ns[k].pid = r => s = 0 /\ ns[k].sig = 1
    BY <1>2
  <2> QED
    BY <2>1, <2>2, <2>3, <2>4
<1>10. ASSUME step'[1] \in {"read_pid", "reply"}
       PROVE  Carries(ns)'
  <2>1. Gone' = 0
    BY <1>10 DEF Gone
  <2>2. Whole(Requests, ns, Gone)'
    BY <1>6, <2>1 DEF Whole, Tells
  <2>3. \A p \in Hungry : ~Between(p)'
    BY <1>0 DEF Between
  <2> QED
    BY <1>10, <2>2, <2>3 DEF Carries
<1>11. ASSUME step' \in Steps \X Seats, step'[1] \in Serving, lastEater' \in Int,
              whoHasFork' \in [Seats -> Int], sig' \in Byte
       PROVE  TableTyped' /\ SetUp'
  BY <1>0, <1>6, <1>11, ServingKept DEF TableTyped
<1>12. \A p \in Hungry : p \in Int /\ p # -1 /\ Forks(p) \subseteq Seats
  BY SeatOf
<1>13. ASSUME NEW p \in Hungry
       PROVE  /\ Answered(p)
              /\ Eating(p)' <=> Eating(p)
              /\ Replying(p)' <=> step'[1] = "reply" /\ p = r
              /\ ~Replying(p) /\ state'[p] = state[p]
  BY <1>0, <1>7 DEF Protocol, Eating, Replying
<1>16. Unused' = Unused
  BY <1>6, NamesDiffer DEF Unused
<1>14. CASE s = 1
  <2>1. /\ sig' = IF Grants(r) THEN 1 ELSE 0
        /\ whoHasFork' = [f \in Seats |-> IF sig' = 1 /\ f \in Forks(r) THEN r ELSE whoHasFork[f]]
        /\ step' = <<"reply", 0>> /\ lastEater' = lastEater
    BY <1>6, <1>7, <1>14 DEF waiter_read_sig
  <2>2. sig' \in {0, 1} /\ (sig' = 1 => Grants(r))
    BY <2>1
  <2>3. sig' = 1 => Held(r)' /\ lastEater # r
    BY <1>2, <1>12, <2>1, <2>2 DEF Held, Grants
  <2>4. ASSUME NEW p \in Hungry, Held(p)
        PROVE  Held(p)'
    <3>1. CASE sig' = 1
      <4>1. CASE p = r
        BY <2>3, <3>1, <4>1
      <4>2. CASE p # r
        <5>1. \A f \in Forks(p) : whoHasFork[f] = p /\ f \in Seats /\ p # -1
          BY <1>12, <2>4 DEF Held
        <5>2. \A f \in Forks(p) : f \notin Forks(r)
          BY <2>2, <3>1, <5>1 DEF Grants
        <5> QED
          BY <2>1, <5>1, <5>2 DEF Held
      <4> QED
        BY <4>1, <4>2
    <3>2. CASE sig' # 1
      BY <1>12, <2>1, <2>4, <3>2 DEF Held
    <3> QED
      BY <3>1, <3>2
  <2>5. Asked(ns)'
    <3> SUFFICES ASSUME NEW k \in 1 .. Len(ns)
                 PROVE  /\ ns[k].sig = 1 => state'[ns[k].pid] = 2
                        /\ ns[k].sig = 0 => state'[ns[k].pid] # 1 /\ Held(ns[k].pid)'
                        /\ ~Replying(ns[k].pid)' /\ Answer(ns[k].pid)' = <<>>
      BY DEF Asked
    <3>1. ns[k].pid \in Hungry /\ ns[k].pid # r
      BY <1>9, <1>14
    <3>2. PICK u \in Hungry : u = ns[k].pid
      BY <3>1
    <3>3. /\ ns[k].sig = 1 => state[u] = 2
          /\ ns[k].sig = 0 => state[u] # 1 /\ Held(u)
          /\ Answer(u) = <<>> /\ u # r
      BY <1>9, <3>1, <3>2
    <3>4. /\ ns[k].sig = 0 => Held(u)'
          /\ ~Replying(u)' /\ Answer(u)' = <<>> /\ state'[u] = state[u]
      BY <1>8, <1>13, <2>4, <3>3
    <3>5. (Held(ns[k].pid)' <=> Held(u)') /\ (Replying(ns[k].pid)' <=> Replying(u)')
          /\ Answer(ns[k].pid)' = Answer(u)'
      BY <3>2
    <3> QED
      BY <3>2, <3>3, <3>4, <3>5
  <2>6. ASSUME NEW p \in Hungry
        PROVE  Answered(p)'
    <3>1. Answered(p) /\ Answer(p)' = Answer(p)
      BY <1>8, <1>13
    <3>2. CASE p = r
      <4>1. Answer(p)' = <<>> /\ Answer(p) = <<>> /\ state'[p] = 2 /\ ~Eating(p)'
        BY <1>7, <1>13, <1>14, <3>1, <3>2 DEF Eating
      <4>2. Yes(p)' => sig' = 1
        BY <4>1 DEF Yes
      <4>3. Yes(p)' => Held(p)' /\ lastEater' # p
        BY <2>1, <2>3, <3>2, <4>2
      <4> QED
        BY <4>1, <4>3 DEF Answered
    <3>3. CASE p # r
      <4>1. ~Replying(p)' /\ ~Replying(p)
        BY <1>13, <3>3
      <4>2. (Yes(p)' <=> Yes(p)) /\ (Eating(p)' <=> Eating(p))
        BY <1>13, <3>1, <4>1 DEF Yes
      <4>3. Held(p) => Held(p)'
        BY <2>4
      <4>4. state'[p] = state[p]
        BY <1>13
      <4> QED
        BY <2>1, <3>1, <4>1, <4>2, <4>3, <4>4 DEF Answered
    <3> QED
      BY <3>2, <3>3
  <2>7. Deciding'
    BY <1>0, <1>2, <1>7, <2>2 DEF Deciding
  <2>8. Protocol(ns)'
    <3>1. Orderly(ns)'
      BY <1>2 DEF Orderly
    <3> QED
      BY <2>5, <2>6, <2>7, <3>1 DEF Protocol
  <2>9. TableTyped' /\ SetUp' /\ Carries(ns)'
    <3>1. step' \in Steps \X Seats /\ step'[1] = "reply" /\ step'[1] \in Serving
      BY <2>1, DiningAssumption DEF Steps, Seats, Serving
    <3>2. whoHasFork' \in [Seats -> Int] /\ lastEater' \in Int /\ sig' \in Byte
      BY <1>0, <1>2, <1>12, <2>1, <2>2 DEF TableTyped, Byte
    <3> QED
      BY <1>10, <1>11, <3>1, <3>2
  <2> QED
    BY <1>0, <1>2, <1>6, <2>8, <2>9, <1>16, WaiterFrame
<1>15. CASE s = 0
  <2>1. /\ sig' = 0 /\ PutDown(r) /\ lastEater' = r /\ step' = <<"read_pid", 0>>
    BY <1>6, <1>7, <1>15 DEF waiter_read_sig
  <2>2. ASSUME NEW p \in Hungry, Held(p), p # r
        PROVE  Held(p)'
    <3>1. \A f \in Forks(p) : whoHasFork[f] = p /\ f \in Seats
      BY <1>12, <2>2 DEF Held
    <3>2. \A f \in Forks(p) : f \notin Forks(r)
      BY <1>7, <1>15, <2>2, <3>1 DEF Held
    <3> QED
      BY <2>1, <3>1, <3>2 DEF Held, PutDown
  <2>3. \A p \in Hungry : ~Replying(p)'
    BY <2>1 DEF Replying
  <2>4. Asked(ns)'
    <3> SUFFICES ASSUME NEW k \in 1 .. Len(ns)
                 PROVE  /\ ns[k].sig = 1 => state'[ns[k].pid] = 2
                        /\ ns[k].sig = 0 => state'[ns[k].pid] # 1 /\ Held(ns[k].pid)'
                        /\ ~Replying(ns[k].pid)' /\ Answer(ns[k].pid)' = <<>>
      BY DEF Asked
    <3>1. PICK u \in Hungry : u = ns[k].pid
      BY <1>9
    <3>2. /\ ns[k].sig = 1 => state[u] = 2
          /\ ns[k].sig = 0 => state[u] # 1 /\ Held(u) /\ u # r
          /\ Answer(u) = <<>>
      BY <1>9, <3>1
    <3>3. /\ ns[k].sig = 0 => Held(u)'
          /\ ~Replying(u)' /\ Answer(u)' = <<>> /\ state'[u] = state[u]
      BY <1>8, <1>13, <2>2, <2>3, <3>2
    <3>4. (Held(ns[k].pid)' <=> Held(u)') /\ (Replying(ns[k].pid)' <=> Replying(u)')
          /\ Answer(ns[k].pid)' = Answer(u)'
      BY <3>1
    <3> QED
      BY <3>1, <3>2, <3>3, <3>4
  <2>5. ASSUME NEW p \in Hungry
        PROVE  Answered(p)'
    <3>1. Answered(p) /\ Answer(p)' = Answer(p) /\ ~Replying(p)'
      BY <1>8, <1>13, <2>3
    <3>2. CASE p = r
      <4>1. Answer(p)' = <<>> /\ ~Eating(p)'
        BY <1>7, <1>13, <1>15, <3>1, <3>2 DEF Eating
      <4>2. ~Yes(p)'
        BY <3>1, <4>1 DEF Yes
      <4> QED
        BY <3>1, <4>1, <4>2 DEF Answered
    <3>3. CASE p # r
      <4>1. (Yes(p)' <=> Yes(p)) /\ (Eating(p)' <=> Eating(p))
        BY <1>13, <3>1 DEF Yes
      <4>2. Held(p) => Held(p)'
        BY <2>2, <3>3
      <4>3. lastEater' # p /\ state'[p] = state[p]
        BY <1>13, <2>1, <3>3
      <4> QED
        BY <3>1, <4>1, <4>2, <4>3 DEF Answered
    <3> QED
      BY <3>2, <3>3
  <2>6. Protocol(ns)'
    <3>1. Orderly(ns)' /\ Deciding'
      BY <1>2, <2>1 DEF Orderly, Deciding
    <3> QED
      BY <2>4, <2>5, <3>1 DEF Protocol
  <2>7. TableTyped' /\ SetUp' /\ Carries(ns)'
    <3>1. step' \in Steps \X Seats /\ step'[1] = "read_pid" /\ step'[1] \in Serving
      BY <2>1, DiningAssumption DEF Steps, Seats, Serving
    <3>2. whoHasFork' \in [Seats -> Int] /\ lastEater' \in Int /\ sig' \in Byte
      BY <1>0, <1>2, <1>12, <2>1 DEF TableTyped, Byte, PutDown
    <3> QED
      BY <1>10, <1>11, <3>1, <3>2
  <2> QED
    BY <1>0, <1>2, <1>6, <2>6, <2>7, <1>16, WaiterFrame
<1> QED
  BY <1>2, <1>14, <1>15

LEMMA waiter_reply_Keeps ==
  ASSUME FirstAndWhole, NEW ms, Table(ms), \A q \in Hungry : ~Between(q), waiter_reply
  PROVE  TableInv'
<1>0. /\ TableTyped /\ SetUp /\ PipesMade /\ step[1] = "reply" /\ step[1] \in Serving
      /\ ms \in Seq(Message) /\ Carries(ms) /\ Protocol(ms)
      /\ step' = <<"read_pid", 0>>
      /\ UNCHANGED <<philosophers, philosopherFds, whoHasFork, lastEater, waiterReadFd,
                     requestingPid, sig, pc, readFd, writeFd, state>>
  BY DEF Table, waiter_reply, philosopherVars, Serving
<1>1. PICK r \in Hungry, s \in {0, 1} : r = requestingPid /\ s = sig
  BY <1>0 DEF Protocol, Deciding
<1>2. Answered(r) /\ Replying(r) /\ Answer(r) = <<>> /\ state[r] = 2
  <2>1. Answered(r) /\ Replying(r)
    BY <1>0, <1>1 DEF Protocol, Replying
  <2> QED
    BY <2>1 DEF Answered
<1>3. IsFd(philosopherFds[Seat(r)], PipeOf(r)) /\ Allowed(Waiter, PipeOf(r), O_WRONLY)
  <2>1. Seat(r) \in Seats /\ Seat(r) < PHILOSOPHERS /\ Child(Seat(r)) = r
    BY SeatOf, DiningAssumption DEF Seats
  <2>2. Opened(PHILOSOPHERS)
    BY <1>0 DEF SetUp
  <2>3. Allowed(Waiter, PipeOf(Child(Seat(r))), O_WRONLY)
    BY <2>1, Rights
  <2> QED
    BY <2>1, <2>2, <2>3 DEF Opened
<1>4. PICK name \in PipeNames : name = PipeOf(r)
  BY NamesDiffer
<1>5. svc_write(Waiter, philosopherFds[Seat(r)], <<s>>) /\ <<s>> \in Seq(Byte)
  <2>1. s \in Byte
    BY DEF Byte
  <2> QED
    BY <1>1, <2>1 DEF waiter_reply
<1>6. /\ PipesMade' /\ Kept /\ QueueOf(name)' = QueueOf(name) \o <<s>>
      /\ \A n \in PipeNames : n # name => QueueOf(n)' = QueueOf(n)
  BY <1>0, <1>3, <1>4, <1>5, WriteAdds
<1>7. Answer(r)' = <<s>>
  <2>1. QueueOf(name)' = Answer(r)' /\ QueueOf(name) = Answer(r)
    BY <1>4 DEF Answer
  <2>2. <<>> \o <<s>> = <<s>>
    BY <1>5, ConcatEmptySeq
  <2> QED
    BY <1>2, <1>6, <2>1, <2>2
<1>8. Requests' = Requests /\ \A q \in Hungry : q # r => Answer(q)' = Answer(q)
  BY <1>4, <1>6, NamesDiffer DEF Requests, Answer
<1>9. TableTyped' /\ SetUp'
  <2>1. step' \in Steps \X Seats /\ step'[1] \in Serving
    BY <1>0, DiningAssumption DEF Steps, Seats, Serving
  <2> QED
    BY <1>0, <1>6, <2>1, ServingKept DEF TableTyped
<1>10. Carries(ms)'
  <2>1. \A q \in Hungry : Between(q)' <=> Between(q)
    BY <1>0 DEF Between
  <2> QED
    BY <1>0, <1>8, <2>1, CarriesKept
<1>11. \A q \in Hungry :
         /\ ~Replying(q)' /\ (Held(q)' <=> Held(q)) /\ (Eating(q)' <=> Eating(q))
         /\ Replying(q) <=> q = r
  BY <1>0, <1>1 DEF Replying, Held, Eating
<1>12. Asked(ms)'
  <2> SUFFICES ASSUME NEW k \in 1 .. Len(ms)
               PROVE  /\ ms[k].sig = 1 => state'[ms[k].pid] = 2
                      /\ ms[k].sig = 0 => state'[ms[k].pid] # 1 /\ Held(ms[k].pid)'
                      /\ ~Replying(ms[k].pid)' /\ Answer(ms[k].pid)' = <<>>
    BY DEF Asked
  <2>1. PICK u \in Hungry : u = ms[k].pid
    BY <1>0, PidsOfMessages
  <2>2. /\ ms[k].sig = 1 => state[u] = 2
        /\ ms[k].sig = 0 => state[u] # 1 /\ Held(u)
        /\ ~Replying(u) /\ Answer(u) = <<>>
    BY <1>0, <2>1 DEF Protocol, Asked
  <2>3. /\ ms[k].sig = 0 => Held(u)'
        /\ ~Replying(u)' /\ Answer(u)' = <<>> /\ state'[u] = state[u]
    BY <1>0, <1>8, <1>11, <2>2
  <2>4. (Held(ms[k].pid)' <=> Held(u)') /\ (Replying(ms[k].pid)' <=> Replying(u)')
        /\ Answer(ms[k].pid)' = Answer(u)'
    BY <2>1
  <2> QED
    BY <2>1, <2>2, <2>3, <2>4
<1>13. ASSUME NEW q \in Hungry
       PROVE  Answered(q)'
  <2>1. Answered(q)
    BY <1>0 DEF Protocol
  <2>2. CASE q = r
    <3>1. Yes(q)' => Yes(q)
      BY <1>1, <1>7, <1>11, <2>2 DEF Yes
    <3>2. Answer(q)' \in {<<>>, <<0>>, <<1>>}
      BY <1>7, <2>2
    <3> QED
      BY <1>0, <1>2, <1>11, <2>1, <2>2, <3>1, <3>2 DEF Answered
  <2>3. CASE q # r
    <3>1. Yes(q)' <=> Yes(q)
      BY <1>8, <1>11, <2>3 DEF Yes
    <3>2. Answer(q)' = Answer(q)
      BY <1>8, <2>3
    <3> QED
      BY <1>0, <1>11, <2>1, <3>1, <3>2 DEF Answered
  <2> QED
    BY <2>2, <2>3
<1>14. Protocol(ms)'
  <2>1. Orderly(ms)' /\ Deciding'
    BY <1>0 DEF Protocol, Orderly, Deciding
  <2> QED
    BY <1>12, <1>13, <2>1 DEF Protocol
<1>15. Unused' = Unused
  BY <1>4, <1>6, NamesDiffer DEF Unused
<1> QED
  BY <1>0, <1>6, <1>9, <1>10, <1>14, <1>15, WaiterFrame

-----------------------------------------------------------------------------
(* The invariant, and what follows from it.                                *)

LEMMA InitTable ==
  ASSUME FirstAndWhole, Init
  PROVE  TableInv
<1>0. /\ pipes = <<>> /\ currFd = 3 /\ step = <<"fork", 0>>
      /\ philosophers = [i \in Seats |-> 0] /\ philosopherFds = [i \in Seats |-> 0]
      /\ whoHasFork = [i \in Seats |-> -1] /\ lastEater = -1
      /\ waiterReadFd = 0 /\ requestingPid = 0 /\ sig = 0
      /\ pc = [p \in Hungry |-> "unborn"]
      /\ readFd = [p \in Hungry |-> -1] /\ writeFd = [p \in Hungry |-> -1]
      /\ state = [p \in Hungry |-> 0]
  BY DEF Init, PipesInit
<1>1. TableTyped
  BY <1>0, DiningAssumption DEF TableTyped, Steps, Seats, Places, Byte
<1>2. PipesMade
  BY <1>0, EmptySeq DEF PipesMade, Array
<1>3. \A name : QueueOf(name) = <<>>
  BY <1>0 DEF QueueOf, QueueIn, MadeIn
<1>4. SetUp
  BY <1>0, DiningAssumption DEF SetUp, Born, Seats
<1>5. ASSUME NEW p \in Hungry
      PROVE  PlaceOf(p) /\ ~Between(p)
  BY <1>0 DEF PlaceOf, Between
<1>6. PICK ms \in Seq(Message) : ms = <<>>
  BY EmptySeq
<1>7. Len(ms) = 0
  BY <1>6, EmptySeq
<1>8. Carries(ms)
  <2>1. Gone = 0 /\ step[1] # "read_sig"
    BY <1>0 DEF Gone
  <2>2. Requests = <<>> /\ Len(Requests) = 0
    BY <1>3, EmptySeq DEF Requests
  <2>3. Whole(Requests, ms, Gone)
    BY <1>7, <2>1, <2>2 DEF Whole, Tells
  <2> QED
    BY <1>5, <2>1, <2>3 DEF Carries
<1>9. Protocol(ms)
  <2>1. step[1] # "reply"
    BY <1>0
  <2>2. Orderly(ms) /\ Asked(ms) /\ Deciding
    BY <1>7, <2>1 DEF Orderly, Asked, Deciding
  <2>3. ASSUME NEW p \in Hungry
        PROVE  Answered(p)
    <3>1. ~Replying(p) /\ ~Eating(p) /\ Answer(p) = <<>>
      BY <1>0, <1>3, <2>1 DEF Replying, Eating, Answer
    <3> QED
      BY <3>1 DEF Answered, Yes
  <2> QED
    BY <2>2, <2>3 DEF Protocol
<1> QED
  BY <1>1, <1>2, <1>3, <1>4, <1>5, <1>8, <1>9 DEF TableInv, Table, OneBetween, Unused

LEMMA StepTable ==
  ASSUME FirstAndWhole, TableInv, [Next]_vars
  PROVE  TableInv'
<1>0. PICK ms \in Seq(Message) : Table(ms)
  BY DEF TableInv
<1>1. CASE waiter
  <2>1. \A q \in Hungry : ~Between(q)
    BY <1>1 DEF waiter, FirstAndWhole
  <2> QED
    BY <1>0, <1>1, <2>1, waiter_fork_Keeps, waiter_mkfifo_Keeps, waiter_open_Keeps,
       waiter_mkfifo_public_Keeps, waiter_open_public_Keeps, waiter_read_pid_Keeps,
       waiter_read_sig_Keeps, waiter_reply_Keeps DEF waiter
<1>2. ASSUME NEW p \in Hungry, philosopher(p)
      PROVE  TableInv'
  <2>1. \A q \in Hungry : q # p => ~Between(q)
    BY <1>2 DEF philosopher, FirstAndWhole
  <2> QED
    BY <1>0, <1>2, <2>1, open_read_Keeps, open_write_Keeps, read_reply_Keeps,
       write_pid_Keeps, write_sig_Keeps DEF philosopher
<1>3. CASE UNCHANGED vars
  <2>1. UNCHANGED <<pipes, currFd, step, philosophers, philosopherFds, whoHasFork,
                    lastEater, waiterReadFd, requestingPid, sig, pc, readFd, writeFd,
                    state>>
    BY <1>3 DEF vars, pipeVars, waiterVars, philosopherVars
  <2>2. Kept /\ \A name : QueueOf(name)' = QueueOf(name)
    BY <1>0, <2>1, SameFds DEF Table
  <2>3. PipesMade' /\ TableTyped' /\ OneBetween'
    BY <1>0, <2>1 DEF Table, PipesMade, TableTyped, OneBetween, Between
  <2>4. SetUp'
    BY <1>0, <2>1, <2>2, SetUpKept DEF Table, waiterVars
  <2>5. \A q \in Hungry : PlaceOf(q)'
    BY <1>0, <2>1, <2>2, PlaceKept DEF Table
  <2>6. Carries(ms)'
    BY <1>0, <2>1, <2>2, CarriesKept DEF Table, Requests, Between
  <2>7. Protocol(ms)'
    BY <1>0, <2>1, <2>2, ProtocolKept DEF Table, Answer
  <2>8. Unused' = <<>>
    BY <1>0, <2>2 DEF Table, Unused
  <2> QED
    BY <1>0, <2>3, <2>4, <2>5, <2>6, <2>7, <2>8 DEF TableInv, Table
<1> QED
  BY <1>1, <1>2, <1>3 DEF Next

LEMMA TableAlways == FirstAndWhole => (Spec => []TableInv)
<1> SUFFICES ASSUME FirstAndWhole PROVE Spec => []TableInv
  OBVIOUS
<1>1. Init => TableInv
  BY InitTable
<1>2. TableInv /\ [Next]_vars => TableInv'
  BY StepTable
<1> QED
  BY <1>1, <1>2, PTL DEF Spec

\* The waiter's table agrees with what its philosophers do, whatever messages are on
\* their way: the forks of one that eats, or that has a yes to read, are its.
THEOREM ForksAreHeld == FirstAndWhole => (Spec => []ForksHeld)
<1> SUFFICES ASSUME FirstAndWhole PROVE Spec => []ForksHeld
  OBVIOUS
<1>1. TableInv => ForksHeld
  <2> DEFINE ToRead(p) ==
               \E i \in DOMAIN pipes : pipes[i].name = PipeOf(p) /\ pipes[i].queue = <<1>>
  <2> SUFFICES ASSUME TableInv, NEW p \in Hungry, Eating(p) \/ ToRead(p)
               PROVE  \A f \in Forks(p) : whoHasFork[f] = p
    BY DEF ForksHeld
  <2>1. PipesMade /\ Answered(p)
    BY DEF TableInv, Table, Protocol
  <2>2. CASE Eating(p)
    BY <2>1, <2>2 DEF Answered, Held
  <2>3. CASE ToRead(p)
    <3>1. PICK i \in 1 .. Len(pipes) : pipes[i].name = PipeOf(p) /\ pipes[i].queue = <<1>>
      BY <2>1, <2>3, LenProperties DEF PipesMade, Array
    <3>2. Answer(p) = <<1>>
      BY <2>1, <3>1, QueueOfPipe DEF PipesMade, Answer, QueueOf
    <3> QED
      BY <2>1, <3>2 DEF Answered, Yes, Held
  <2> QED
    BY <2>2, <2>3
<1> QED
  BY <1>1, TableAlways, PTL

\* Philosophers next to each other share a fork and never eat together: one fork is
\* in one hand.
THEOREM NeighboursTakeTurns == FirstAndWhole => (Spec => []NeighboursExclusive)
<1> SUFFICES ASSUME FirstAndWhole PROVE Spec => []NeighboursExclusive
  OBVIOUS
<1>1. ForksHeld => NeighboursExclusive
  BY DEF ForksHeld, NeighboursExclusive
<1> QED
  BY <1>1, ForksAreHeld, PTL

\* Who starts to eat is not who ate last: until it has read the yes it asked for, it
\* puts no forks down, and whoever does comes after it.
THEOREM NobodyEatsTwice == FirstAndWhole => (Spec => NotTwice)
<1> SUFFICES ASSUME FirstAndWhole PROVE Spec => NotTwice
  OBVIOUS
<1>1. ASSUME TableInv, [Next]_vars, NEW p \in Hungry, Eating(p)', ~Eating(p)
      PROVE  lastEater' # p
  <2>0. PICK ms \in Seq(Message) : Table(ms)
    BY <1>1 DEF TableInv
  <2>1. state'[p] = 1 /\ state[p] # 1 /\ state \in [Hungry -> {0, 1, 2}]
    BY <1>1, <2>0 DEF Eating, Table, TableTyped
  <2>2. PICK q \in Hungry : philosopher(q)
    BY <1>1, <2>1 DEF Next, vars, philosopherVars, waiter, waiter_fork, waiter_mkfifo,
       waiter_open, waiter_mkfifo_public, waiter_open_public, waiter_read_pid,
       waiter_read_sig, waiter_reply
  <2>3. read_reply(q)
    BY <2>1, <2>2 DEF philosopher, open_read, open_write, write_pid, write_sig
  <2>4. \/ state' = state
        \/ \E b \in {0, 1} : Answer(q) = <<b>> /\ state' = [state EXCEPT ![q] = b]
    BY <2>0, <2>3, AnswerRead
  <2>5. PICK b \in {0, 1} : Answer(q) = <<b>> /\ state' = [state EXCEPT ![q] = b]
    BY <2>1, <2>4
  <2>6. p = q /\ b = 1
    BY <2>1, <2>5
  <2>7. Yes(p)
    BY <2>5, <2>6 DEF Yes
  <2>8. lastEater # p
    BY <2>0, <2>7 DEF Table, Protocol, Answered
  <2> QED
    BY <2>3, <2>8 DEF read_reply, waiterVars
<1>2. TableInv /\ [Next]_vars => [\A p \in Hungry : Eating(p)' /\ ~Eating(p) => lastEater' # p]_vars
  BY <1>1
<1> QED
  BY <1>2, TableAlways, PTL DEF Spec, NotTwice

-----------------------------------------------------------------------------
(* Requests in flight are few: at most two of each philosopher, and of one  *)
(* that is writing at most the one before.                                  *)

Slot(m) == 2 * (m.pid - 3) + m.sig

LEMMA MessagesFit ==
  ASSUME FirstAndWhole, NEW ms \in Seq(Message), Orderly(ms),
         NEW T, IsFiniteSet(T), \A k \in 1 .. Len(ms) : Slot(ms[k]) \in T
  PROVE  Len(ms) <= Cardinality(T)
<1> DEFINE slot == [k \in 1 .. Len(ms) |-> Slot(ms[k])]
<1>1. Len(ms) \in Nat /\ Cardinality(T) \in Nat
  BY LenProperties, FS_CardinalityType
<1>2. IsFiniteSet(1 .. Len(ms)) /\ Cardinality(1 .. Len(ms)) = Len(ms)
  <2>1. PICK l \in Nat : l = Len(ms)
    BY <1>1
  <2>2. IsFiniteSet(1 .. l) /\ Cardinality(1 .. l) = IF 1 > l THEN 0 ELSE l - 1 + 1
    BY FS_Interval
  <2> QED
    BY <2>1, <2>2
<1>3. slot \in [1 .. Len(ms) -> T]
  OBVIOUS
<1>4. ASSUME NEW j \in 1 .. Len(ms), NEW k \in 1 .. Len(ms), j # k
      PROVE  Slot(ms[j]) # Slot(ms[k])
  <2>1. /\ ms[j].pid \in Int /\ ms[k].pid \in Int
        /\ ms[j].sig \in {0, 1} /\ ms[k].sig \in {0, 1}
    BY PidsOfMessages, SeatOf
  <2>2. j < k \/ k < j
    BY <1>1, <1>4
  <2>3. ms[j].pid = ms[k].pid => ms[j].sig # ms[k].sig
    BY <2>2 DEF Orderly
  <2>4. \A a, b \in Int, s, t \in {0, 1} :
          2 * (a - 3) + s = 2 * (b - 3) + t => a = b /\ s = t
    OBVIOUS
  <2> HIDE DEF slot
  <2> QED
    BY <2>1, <2>3, <2>4 DEF Slot
<1>5. CASE Cardinality(T) < Len(ms)
  <2>1. PICK j, k \in 1 .. Len(ms) : j # k /\ slot[j] = slot[k]
    <3> HIDE DEF slot
    <3> QED
      BY <1>2, <1>3, <1>5, FS_PigeonHole
  <2> QED
    BY <1>4, <2>1
<1> QED
  BY <1>1, <1>5

LEMMA FewMessages ==
  ASSUME FirstAndWhole, NEW ms, Table(ms)
  PROVE  /\ Len(ms) <= 2 * Forked
         /\ (\E p \in Hungry : Between(p)) => Len(ms) <= 2 * Forked - 1
<1> DEFINE Slots == 0 .. 2 * Forked - 1
<1>0. ms \in Seq(Message) /\ Orderly(ms) /\ Forked \in Nat
  BY DiningAssumption DEF Table, Protocol
<1>1. IsFiniteSet(Slots) /\ Cardinality(Slots) = 2 * Forked
  BY <1>0, FS_Interval
<1>2. \A k \in 1 .. Len(ms) : Slot(ms[k]) \in Slots
  <2>1. \A k \in 1 .. Len(ms) : ms[k].pid \in 3 .. 2 + Forked /\ ms[k].sig \in {0, 1}
    BY <1>0, PidsOfMessages DEF Hungry, FirstAndWhole
  <2>2. \A a \in 3 .. 2 + Forked, s \in {0, 1} : 2 * (a - 3) + s \in Slots
    BY <1>0
  <2> HIDE DEF Slots
  <2> QED
    BY <2>1, <2>2 DEF Slot
<1> HIDE DEF Slots
<1>3. Len(ms) <= 2 * Forked
  BY <1>0, <1>1, <1>2, MessagesFit
<1>4. ASSUME NEW p \in Hungry, Between(p)
      PROVE  Len(ms) <= 2 * Forked - 1
  <2> DEFINE mine == 2 * (p - 3) + 1
             others == Slots \ {mine}
  <2>1. mine \in Slots
    BY <1>0 DEF Hungry, FirstAndWhole, Slots
  <2>2. IsFiniteSet(others) /\ Cardinality(others) = 2 * Forked - 1
    BY <1>1, <2>1, FS_RemoveElement
  <2>3. state[p] \in {0, 1}
    BY <1>4 DEF Table, PlaceOf, Between
  <2>4. ASSUME NEW k \in 1 .. Len(ms)
        PROVE  Slot(ms[k]) # mine
    <3>1. ms[k].pid \in Int /\ ms[k].sig \in {0, 1} /\ p \in Int
      BY <1>0, PidsOfMessages, SeatOf
    <3>2. ms[k].sig = 1 => ms[k].pid # p
      BY <2>3 DEF Table, Protocol, Asked
    <3> QED
      BY <3>1, <3>2 DEF Slot
  <2>5. \A k \in 1 .. Len(ms) : Slot(ms[k]) \in others
    BY <1>2, <2>4
  <2> HIDE DEF others
  <2> QED
    BY <1>0, <2>2, <2>5, MessagesFit
<1> QED
  BY <1>3, <1>4

\* Type correctness: no pipe ever holds more than two requests of every philosopher,
\* because each waits for the answer to its own.
THEOREM TableTyping == FirstAndWhole => (Spec => []TypeOK)
<1> SUFFICES ASSUME FirstAndWhole PROVE Spec => []TypeOK
  OBVIOUS
<1>1. TableInv => TypeOK
  <2> SUFFICES ASSUME NEW ms, Table(ms)
               PROVE  TypeOK
    BY DEF TableInv
  <2>1. TableTyped /\ PipesMade /\ ms \in Seq(Message) /\ Carries(ms)
    BY DEF Table
  <2>2. /\ Len(ms) \in Nat /\ Forked \in Nat /\ PHILOSOPHERS \in Nat
        /\ Forked <= PHILOSOPHERS /\ PHILOSOPHERS >= 3
    BY <2>1, LenProperties, DiningAssumption
  <2>3. Len(Requests) <= 10 * PHILOSOPHERS
    <3>1. Gone \in {0, 4}
      BY DEF Gone
    <3>2. CASE \E p \in Hungry : Between(p)
      <4>1. Len(Requests) = 5 * Len(ms) - Gone + 4
        BY <2>1, <3>2 DEF Carries, Begun
      <4>2. Len(ms) <= 2 * Forked - 1
        BY <3>2, FewMessages
      <4> QED
        BY <2>2, <3>1, <4>1, <4>2
    <3>3. CASE ~\E p \in Hungry : Between(p)
      <4>1. Len(Requests) = 5 * Len(ms) - Gone
        BY <2>1, <3>3 DEF Carries, Whole
      <4>2. Len(ms) <= 2 * Forked
        BY FewMessages
      <4> QED
        BY <2>2, <3>1, <4>1, <4>2
    <3> QED
      BY <3>2, <3>3
  <2>4. ASSUME NEW i \in DOMAIN pipes
        PROVE  Len(pipes[i].queue) <= 10 * PHILOSOPHERS
    <3>1. i \in 1 .. Len(pipes) /\ pipes[i].name \in PipeNames
      BY <2>1, LenProperties DEF PipesMade, Array, MadePipe, Pipe
    <3>2. pipes[i].queue = QueueOf(pipes[i].name)
      BY <2>1, <3>1, QueueOfPipe DEF PipesMade, QueueOf
    <3>3. CASE pipes[i].name = WaiterPipe
      BY <2>3, <3>2, <3>3 DEF Requests
    <3>4. CASE pipes[i].name = PipeOf(-1)
      <4>1. pipes[i].queue = <<>>
        BY <3>2, <3>4 DEF Table, Unused
      <4> QED
        BY <2>2, <4>1, EmptySeq
    <3>5. CASE \E p \in Hungry : pipes[i].name = PipeOf(p)
      <4>1. PICK p \in Hungry : pipes[i].name = PipeOf(p)
        BY <3>5
      <4>2. pipes[i].queue \in {<<>>, <<0>>, <<1>>}
        BY <3>2, <4>1 DEF Table, Protocol, Answered, Answer
      <4>3. PICK l \in {0, 1} : l = Len(pipes[i].queue)
        BY <4>2, EmptySeq
      <4>4. l <= 10 * PHILOSOPHERS
        BY <2>2
      <4> QED
        BY <4>3, <4>4
    <3> QED
      BY <3>1, <3>3, <3>4, <3>5 DEF PipeNames
  <2>5. pipes \in Seq(Pipe) /\ currFd \in Nat
    BY <2>1 DEF PipesMade, Array
  <2> QED
    BY <2>1, <2>4, <2>5 DEF TypeOK, TableTyped, Steps, Places
<1> QED
  BY <1>1, TableAlways, PTL

\* waiter.c:55 "READ PID": under FirstAndWhole, unlike in Dining_preempted, the 4 bytes
\* that begin a request are a pid, and the one that asked.
THEOREM PidsAreRead == FirstAndWhole => (Spec => []ReadsPid)
<1> SUFFICES ASSUME FirstAndWhole PROVE Spec => []ReadsPid
  OBVIOUS
<1>1. TableInv => ReadsPid
  <2> SUFFICES ASSUME NEW ms, Table(ms), step[1] = "read_sig"
               PROVE  requestingPid \in Hungry
    BY DEF TableInv, ReadsPid
  <2>1. ms \in Seq(Message) /\ ms # <<>> /\ requestingPid = ms[1].pid
    BY DEF Table, Carries
  <2>2. 1 \in 1 .. Len(ms)
    BY <2>1, EmptySeq, LenProperties
  <2> QED
    BY <2>1, <2>2, PidsOfMessages
<1> QED
  BY <1>1, TableAlways, PTL

\* waiter.c:58 "REQUESTING PID WANTS TO PICK UP FORKS": under FirstAndWhole the seat
\* of the pid is where fork put it, so that the answer goes to the process that asked.
THEOREM RequestersAreAnswered == FirstAndWhole => (Spec => []AnswersRequester)
<1> SUFFICES ASSUME FirstAndWhole PROVE Spec => []AnswersRequester
  OBVIOUS
<1>1. TableInv => AnswersRequester
  <2> SUFFICES ASSUME NEW ms, Table(ms), step[1] = "reply"
               PROVE  philosophers[Seat(requestingPid)] = requestingPid
    BY DEF TableInv, AnswersRequester
  <2>1. requestingPid \in Hungry /\ Born(PHILOSOPHERS)
    BY DEF Table, Protocol, Deciding, SetUp
  <2>2. PICK r \in Hungry : r = requestingPid
    BY <2>1
  <2>3. Seat(r) \in Seats /\ Seat(r) < PHILOSOPHERS /\ Child(Seat(r)) = r
    BY SeatOf, DiningAssumption DEF Seats
  <2>4. philosophers[Seat(r)] = r
    BY <2>1, <2>3 DEF Born
  <2> QED
    BY <2>2, <2>4
<1> QED
  BY <1>1, TableAlways, PTL
=============================================================================
