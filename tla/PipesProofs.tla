---------------------------- MODULE PipesProofs ----------------------------
(***************************************************************************)
(* The pipes of Pipes, for any names, callers, modes, buffers and sizes:   *)
(* the array keeps its type, names and descriptors identify one pipe each, *)
(* and every call is the call of NamedPipes with the same arguments.       *)
(***************************************************************************)
EXTENDS Pipes, SequenceTheorems, TLAPS

\* What the array keeps: the type, no descriptor below 3, no two pipes with one
\* name or one descriptor.  PipesDistinct of any array s, as Distinct(s).
Distinct(s) ==
  \A i, j \in 1 .. Len(s) : s[i].name = s[j].name \/ s[i].fd = s[j].fd => i = j
Array(s, next) ==
  /\ s \in Seq(Pipe) /\ next \in Nat /\ 3 <= next
  /\ \A i \in 1 .. Len(s) : s[i].fd \in 3 .. next - 1
  /\ Distinct(s)
ArrayInv == Array(pipes, currFd)

-----------------------------------------------------------------------------
(* The three ways a call changes the array.                                *)

\* allocateNewPipe adds a pipe with a name and a descriptor of its own.
LEMMA Added ==
  ASSUME NEW s, NEW next, Array(s, next), NEW p \in Pipe,
         p.fd = next, \A i \in 1 .. Len(s) : s[i].name # p.name
  PROVE  Array(Append(s, p), next + 1)
<1> DEFINE t == Append(s, p)
<1>1. s \in Seq(Pipe) BY DEF Array
<1>2. /\ t \in Seq(Pipe) /\ Len(t) = Len(s) + 1
      /\ \A i \in 1 .. Len(s) : t[i] = s[i]
      /\ t[Len(s) + 1] = p
  BY <1>1, AppendProperties
<1>3. Len(s) \in Nat BY <1>1, LenProperties
<1> HIDE DEF t
<1>4. \A i \in 1 .. Len(t) : i \in 1 .. Len(s) \/ i = Len(s) + 1
  BY <1>2, <1>3
<1>5. \A i \in 1 .. Len(t) : t[i].fd \in 3 .. next
  BY <1>2, <1>3, <1>4 DEF Array
<1>6. Distinct(t)
  <2> SUFFICES ASSUME NEW i \in 1 .. Len(t), NEW j \in 1 .. Len(t),
                      t[i].name = t[j].name \/ t[i].fd = t[j].fd
               PROVE  i = j
    BY DEF Distinct
  <2>1. CASE i \in 1 .. Len(s) /\ j \in 1 .. Len(s)
    BY <1>2, <2>1 DEF Array, Distinct
  <2>2. CASE i \in 1 .. Len(s) /\ j = Len(s) + 1
    BY <1>2, <2>2 DEF Array
  <2>3. CASE i = Len(s) + 1 /\ j \in 1 .. Len(s)
    BY <1>2, <2>3 DEF Array
  <2> QED BY <1>4, <2>1, <2>2, <2>3
<1> QED BY <1>2, <1>5, <1>6 DEF Array, t

\* deallocatePipe keeps every pipe but the one at i, in one place each.
LEMMA Removed ==
  ASSUME NEW s, NEW next, Array(s, next), NEW i \in 1 .. Len(s)
  PROVE  LET t == SubSeq([s EXCEPT ![i] = s[Len(s)]], 1, Len(s) - 1) IN
         /\ Array(t, next)
         /\ Len(t) = Len(s) - 1
         /\ \A k \in 1 .. Len(t) : t[k] = s[IF k = i THEN Len(s) ELSE k]
<1> DEFINE last == Len(s)
           m == [s EXCEPT ![i] = s[last]]
           t == SubSeq(m, 1, last - 1)
           Old(k) == IF k = i THEN last ELSE k
<1>1. s \in Seq(Pipe) BY DEF Array
<1>2. last \in Nat /\ 1 <= last BY <1>1, LenProperties
<1>3. /\ m \in Seq(Pipe) /\ Len(m) = last
      /\ \A k \in 1 .. last : m[k] = s[Old(k)]
  <2>1. s[last] \in Pipe BY <1>1, <1>2, ElementOfSeq
  <2> QED BY <1>1, <1>2, <2>1, ExceptSeq
<1> HIDE DEF m
<1>4. /\ t \in Seq(Pipe) /\ Len(t) = last - 1
      /\ \A k \in 1 .. last - 1 : t[k] = m[k]
  <2>1. \A k \in 1 .. last - 1 : m[k] \in Pipe BY <1>2, <1>3, ElementOfSeq
  <2>2. /\ t \in Seq(Pipe)
        /\ Len(t) = IF 1 <= last - 1 THEN (last - 1) - 1 + 1 ELSE 0
        /\ \A k \in 1 .. (last - 1) - 1 + 1 : t[k] = m[1 + k - 1]
    <3>1. 1 \in Int /\ last - 1 \in Int BY <1>2
    <3> HIDE DEF last
    <3> QED BY <2>1, <3>1, SubSeqProperties
  <2> HIDE DEF t, last
  <2> QED BY <1>2, <2>2
<1> HIDE DEF t
<1>5. \A k \in 1 .. last - 1 : t[k] = s[Old(k)] /\ Old(k) \in 1 .. last
  BY <1>2, <1>3, <1>4
<1>6. \A k \in 1 .. Len(t) : t[k].fd \in 3 .. next - 1
  BY <1>4, <1>5 DEF Array
<1>7. Distinct(t)
  <2> SUFFICES ASSUME NEW k \in 1 .. last - 1, NEW l \in 1 .. last - 1,
                      t[k].name = t[l].name \/ t[k].fd = t[l].fd
               PROVE  k = l
    BY <1>4 DEF Distinct
  <2>1. Old(k) = Old(l) BY <1>5 DEF Array, Distinct
  <2> QED BY <1>2, <2>1
<1>8. Array(t, next) BY <1>4, <1>6, <1>7 DEF Array
<1>9. Len(t) = last - 1 /\ \A k \in 1 .. Len(t) : t[k] = s[Old(k)]
  BY <1>4, <1>5
<1> QED BY <1>8, <1>9 DEF t, m

\* The channel a pipe stands for in NamedPipes, and a channel or an array with
\* one queue changed.
Channel(p) == [name |-> p.name, owner |-> p.owner, group |-> p.group,
               mode |-> p.mode, queue |-> p.queue]
SetQueue(c, q) == [c EXCEPT !.queue = q]
RequeueAt(s, i, q) == [s EXCEPT ![i].queue = q]

\* write and read change one queue and leave every other pipe as it is.
LEMMA Requeued ==
  ASSUME NEW s, NEW next, Array(s, next), NEW i \in 1 .. Len(s), NEW q \in Seq(Bytes)
  PROVE  LET t == RequeueAt(s, i, q) IN
         /\ Array(t, next)
         /\ Len(t) = Len(s)
         /\ \A k \in 1 .. Len(s) : t[k].fd = s[k].fd /\ (k # i => t[k] = s[k])
         /\ Channel(t[i]) = SetQueue(Channel(s[i]), q)
<1> DEFINE p == [s[i] EXCEPT !.queue = q]
           t == [s EXCEPT ![i] = p]
<1>1. s \in Seq(Pipe) BY DEF Array
<1>2. s[i] \in Pipe BY <1>1, ElementOfSeq
<1>3. p \in Pipe /\ p.name = s[i].name /\ p.fd = s[i].fd BY <1>2 DEF Pipe
<1>4. RequeueAt(s, i, q) = t BY DEF RequeueAt
<1>5. Channel(p) = SetQueue(Channel(s[i]), q) BY <1>2 DEF Channel, SetQueue, Pipe
<1> HIDE DEF p
<1>8. /\ t \in Seq(Pipe) /\ Len(t) = Len(s)
      /\ \A k \in 1 .. Len(s) : t[k] = IF k = i THEN p ELSE s[k]
  BY <1>1, <1>3, ExceptSeq
<1> HIDE DEF t
<1>6. \A k \in 1 .. Len(s) : t[k].fd = s[k].fd /\ t[k].name = s[k].name
  BY <1>3, <1>8
<1>7. Array(t, next) BY <1>6, <1>8 DEF Array, Distinct
<1> QED BY <1>4, <1>5, <1>6, <1>7, <1>8

-----------------------------------------------------------------------------
(* A search for the first match finds the only one, if there is one.       *)

LEMMA FoundByName ==
  ASSUME ArrayInv, NEW name
  PROVE  \/ /\ getPipeFromName(name) = 0
            /\ \A i \in 1 .. Len(pipes) : pipes[i].name # name
         \/ /\ getPipeFromName(name) \in 1 .. Len(pipes)
            /\ pipes[getPipeFromName(name)].name = name
<1>1. DOMAIN pipes = 1 .. Len(pipes) /\ Len(pipes) \in Nat
  BY LenProperties DEF ArrayInv, Array
<1>2. CASE \E i \in DOMAIN pipes : pipes[i].name = name
  <2>1. PICK i \in DOMAIN pipes : pipes[i].name = name BY <1>2
  <2>2. \A j \in 1 .. i - 1 : pipes[j].name # name
    BY <1>1, <2>1 DEF ArrayInv, Array, Distinct
  <2>3. \E k \in DOMAIN pipes :
          pipes[k].name = name /\ \A j \in 1 .. k - 1 : pipes[j].name # name
    BY <2>1, <2>2
  <2> QED BY <1>1, <1>2, <2>3 DEF getPipeFromName
<1> QED BY <1>1, <1>2 DEF getPipeFromName

LEMMA FoundByFd ==
  ASSUME ArrayInv, NEW fd
  PROVE  \/ /\ getPipeFromFd(fd) = 0
            /\ \A i \in 1 .. Len(pipes) : pipes[i].fd # fd
         \/ /\ getPipeFromFd(fd) \in 1 .. Len(pipes)
            /\ pipes[getPipeFromFd(fd)].fd = fd
<1>1. DOMAIN pipes = 1 .. Len(pipes) /\ Len(pipes) \in Nat
  BY LenProperties DEF ArrayInv, Array
<1>2. CASE \E i \in DOMAIN pipes : pipes[i].fd = fd
  <2>1. PICK i \in DOMAIN pipes : pipes[i].fd = fd BY <1>2
  <2>2. \A j \in 1 .. i - 1 : pipes[j].fd # fd
    BY <1>1, <2>1 DEF ArrayInv, Array, Distinct
  <2>3. \E k \in DOMAIN pipes :
          pipes[k].fd = fd /\ \A j \in 1 .. k - 1 : pipes[j].fd # fd
    BY <2>1, <2>2
  <2> QED BY <1>1, <1>2, <2>3 DEF getPipeFromFd
<1> QED BY <1>1, <1>2 DEF getPipeFromFd

-----------------------------------------------------------------------------
(* The type invariant, and that names and descriptors are unique.          *)

\* What a read takes: the first bytes of the queue, and those left behind.
LEMMA TakenAndLeft ==
  ASSUME NEW q \in Seq(Bytes), NEW n \in Nat
  PROVE  LET k == IF n < Len(q) THEN n ELSE Len(q)
             taken == SubSeq(q, 1, k)
             left == SubSeq(q, k + 1, Len(q)) IN
         /\ taken \in Seq(Bytes) /\ left \in Seq(Bytes)
         /\ Len(taken) = k /\ q = taken \o left
<1> DEFINE k == IF n < Len(q) THEN n ELSE Len(q)
           taken == SubSeq(q, 1, k)
           left == SubSeq(q, k + 1, Len(q))
<1>1. Len(q) \in Nat BY LenProperties
<1>2. k \in 0 .. Len(q) BY <1>1
<1> HIDE DEF k
<1>3. \A i \in 1 .. k : q[i] \in Bytes BY <1>1, <1>2, ElementOfSeq
<1>4. taken \in Seq(Bytes) /\ Len(taken) = IF 1 <= k THEN k - 1 + 1 ELSE 0
  <2>1. 1 \in Int /\ k \in Int BY <1>2
  <2> QED BY <1>3, <2>1, SubSeqProperties
<1>5. left \in Seq(Bytes)
  <2>1. \A i \in k + 1 .. Len(q) : q[i] \in Bytes BY <1>1, <1>2, ElementOfSeq
  <2>2. k + 1 \in Int /\ Len(q) \in Int BY <1>1, <1>2
  <2> QED BY <2>1, <2>2, SubSeqProperties
<1>6. taken \o left = SubSeq(q, 1, Len(q))
  <2>1. 1 \in 1 .. Len(q) + 1 /\ k \in 1 - 1 .. Len(q) /\ Len(q) \in k .. Len(q)
    BY <1>1, <1>2
  <2> QED BY <2>1, ConcatAdjacentSubSeq
<1>7. SubSeq(q, 1, Len(q)) = q BY SubSeqFull
<1>8. Len(taken) = k BY <1>2, <1>4
<1> QED BY <1>4, <1>5, <1>6, <1>7, <1>8 DEF k

ArrayInvTyped == ArrayInv /\ r0 \in Int /\ data \in Seq(Bytes)

LEMMA InitArrayInv == Init => ArrayInvTyped
<1> SUFFICES ASSUME Init PROVE ArrayInvTyped OBVIOUS
<1>1. pipes = <<>> /\ currFd = 3 /\ r0 = 0 /\ data = <<>>
  BY DEF Init, PipesInit
<1>2. pipes \in Seq(Pipe) /\ Len(pipes) = 0 BY <1>1, EmptySeq
<1>3. data \in Seq(Bytes) BY <1>1, EmptySeq
<1> QED BY <1>1, <1>2, <1>3 DEF ArrayInvTyped, ArrayInv, Array, Distinct

\* The steps of the array: what mkfifo, unlink, write and read do to it.
LEMMA MkfifoArray ==
  ASSUME ArrayInv, NEW pid \in Callers, NEW name \in Names, NEW mode \in Modes,
         svc_mkfifo(pid, name, mode)
  PROVE  ArrayInv'
<1>1. CASE checkValidPipeName(name)
  <2> DEFINE p == [name |-> name, fd |-> currFd, owner |-> pid,
                   group |-> GroupOf[name], mode |-> mode, queue |-> <<>>]
  <2>1. pipes' = Append(pipes, p) /\ currFd' = currFd + 1
    BY <1>1 DEF svc_mkfifo, allocateNewPipe
  <2>2. p \in Pipe
    <3>1. pid \in Int /\ GroupOf[name] \in Int /\ mode \in [0 .. 2 -> Flags]
      BY CallsAssumption, NamesAssumption
    <3>2. currFd \in Nat BY DEF ArrayInv, Array
    <3>3. <<>> \in Seq(Bytes) BY EmptySeq
    <3> QED BY <3>1, <3>2, <3>3 DEF Pipe
  <2>3. \A i \in 1 .. Len(pipes) : pipes[i].name # name
    BY <1>1, LenProperties DEF checkValidPipeName, ArrayInv, Array
  <2>4. p.fd = currFd /\ p.name = name OBVIOUS
  <2> HIDE DEF p
  <2> QED BY <2>1, <2>2, <2>3, <2>4, Added DEF ArrayInv
<1>2. CASE ~checkValidPipeName(name)
  BY <1>2 DEF svc_mkfifo, ArrayInv
<1> QED BY <1>1, <1>2

LEMMA UnlinkArray ==
  ASSUME ArrayInv, NEW name, svc_unlink(name)
  PROVE  ArrayInv'
<1> DEFINE i == getPipeFromName(name)
<1>1. CASE i = 0
  BY <1>1 DEF svc_unlink, ArrayInv
<1>2. CASE i \in 1 .. Len(pipes)
  <2>1. i # 0 BY <1>2
  <2>2. /\ pipes' = SubSeq([pipes EXCEPT ![i] = pipes[Len(pipes)]], 1, Len(pipes) - 1)
        /\ currFd' = currFd
    BY <2>1 DEF svc_unlink, deallocatePipe
  <2> HIDE DEF i
  <2> QED BY <1>2, <2>2, Removed DEF ArrayInv
<1> QED BY <1>1, <1>2, FoundByName

LEMMA QueueArray ==
  ASSUME ArrayInv, NEW i \in 1 .. Len(pipes), NEW q \in Seq(Bytes),
         pipes' = RequeueAt(pipes, i, q), currFd' = currFd
  PROVE  ArrayInv'
BY Requeued DEF ArrayInv

\* A write that is allowed adds its bytes to the queue of the pipe it names.
LEMMA WriteQueue ==
  ASSUME ArrayInv, NEW pid, NEW fd, NEW x \in Buffers, svc_write(pid, fd, x)
  PROVE  /\ currFd' = currFd
         /\ LET i == getPipeFromFd(fd) IN
            \/ /\ fd # 1 /\ MayUse(pid, fd, O_WRONLY)
               /\ i \in 1 .. Len(pipes) /\ pipes[i].fd = fd
               /\ pipes[i].queue \o x \in Seq(Bytes)
               /\ pipes' = RequeueAt(pipes, i, pipes[i].queue \o x)
            \/ ~(fd # 1 /\ MayUse(pid, fd, O_WRONLY)) /\ pipes' = pipes
<1> DEFINE i == getPipeFromFd(fd)
<1>1. CASE fd # 1 /\ MayUse(pid, fd, O_WRONLY)
  <2>1. i \in 1 .. Len(pipes) /\ pipes[i].fd = fd
    BY <1>1, FoundByFd DEF MayUse
  <2>2. pipes[i].queue \in Seq(Bytes)
    <3> HIDE DEF i
    <3>1. pipes[i] \in Pipe BY <2>1, ElementOfSeq DEF ArrayInv, Array
    <3> QED BY <3>1 DEF Pipe
  <2>3. pipes[i].queue \o x \in Seq(Bytes)
    <3>1. x \in Seq(Bytes) BY CallsAssumption
    <3> HIDE DEF i
    <3> QED BY <2>2, <3>1, ConcatProperties
  <2>4. pipes' = RequeueAt(pipes, i, pipes[i].queue \o x)
    BY <1>1 DEF svc_write, RequeueAt
  <2> QED BY <1>1, <2>1, <2>3, <2>4 DEF svc_write
<1>2. CASE ~(fd # 1 /\ MayUse(pid, fd, O_WRONLY))
  BY <1>2 DEF svc_write
<1> QED BY <1>1, <1>2

\* A read that is allowed takes the first bytes of the pipe it names.
LEMMA ReadQueue ==
  ASSUME ArrayInv, NEW pid, NEW fd \in Fds, NEW n \in Sizes, svc_read(pid, fd, n)
  PROVE  /\ currFd' = currFd
         /\ readBytes(pid, fd, n) \in Seq(Bytes)
         /\ LET i == getPipeFromFd(fd) IN
            \/ /\ fd > 2 /\ MayUse(pid, fd, O_RDONLY)
               /\ i \in 1 .. Len(pipes) /\ pipes[i].fd = fd
               /\ \E left \in Seq(Bytes) :
                    /\ pipes[i].queue = readBytes(pid, fd, n) \o left
                    /\ Len(readBytes(pid, fd, n)) = IF n < Len(pipes[i].queue) THEN n
                                                    ELSE Len(pipes[i].queue)
                    /\ pipes' = RequeueAt(pipes, i, left)
            \/ /\ ~(fd > 2 /\ MayUse(pid, fd, O_RDONLY))
               /\ readBytes(pid, fd, n) = <<>> /\ pipes' = pipes
<1> DEFINE i == getPipeFromFd(fd)
           q == pipes[i].queue
           k == IF n < Len(q) THEN n ELSE Len(q)
           left == SubSeq(q, k + 1, Len(q))
           got == readBytes(pid, fd, n)
<1>0. currFd' = currFd BY DEF svc_read
<1>1. CASE fd > 2 /\ MayUse(pid, fd, O_RDONLY)
  <2>1. i \in 1 .. Len(pipes) /\ pipes[i].fd = fd
    BY <1>1, FoundByFd DEF MayUse
  <2>2. q \in Seq(Bytes)
    <3> HIDE DEF i
    <3>1. pipes[i] \in Pipe BY <2>1, ElementOfSeq DEF ArrayInv, Array
    <3> QED BY <3>1 DEF Pipe
  <2>3. n \in Nat BY CallsAssumption
  <2>4. got = SubSeq(q, 1, k) BY <1>1 DEF readBytes
  <2>5. got \in Seq(Bytes) /\ left \in Seq(Bytes) /\ Len(got) = k /\ q = got \o left
    <3> HIDE DEF i, q, got
    <3> QED BY <2>2, <2>3, <2>4, TakenAndLeft
  <2>6. pipes' = RequeueAt(pipes, i, left)
    <3>1. CASE Len(got) = 0
      <4>1. pipes' = pipes BY <3>1 DEF svc_read
      <4>2. left = q
        <5>1. left = SubSeq(q, 1, Len(q)) BY <2>5, <3>1
        <5> HIDE DEF q, left
        <5> QED BY <2>2, <5>1, SubSeqFull
      <4>3. pipes = RequeueAt(pipes, i, q)
        <5>1. pipes \in Seq(Pipe) BY DEF ArrayInv, Array
        <5>2. pipes[i] \in Pipe BY <2>1, <5>1, ElementOfSeq
        <5>3. pipes[i] = [pipes[i] EXCEPT !.queue = q] BY <5>2 DEF Pipe
        <5>4. pipes \in [1 .. Len(pipes) -> Pipe] BY <5>1, LenProperties
        <5>5. pipes = [pipes EXCEPT ![i] = pipes[i]] BY <2>1, <5>4
        <5> QED BY <5>3, <5>5 DEF RequeueAt
      <4> HIDE DEF left, q
      <4> QED BY <4>1, <4>2, <4>3
    <3>2. CASE Len(got) # 0
      BY <2>5, <3>2 DEF svc_read, RequeueAt
    <3> QED BY <3>1, <3>2
  <2>7. \E rest \in Seq(Bytes) :
          q = got \o rest /\ Len(got) = k /\ pipes' = RequeueAt(pipes, i, rest)
    <3> HIDE DEF left, got, k, i, q
    <3> QED BY <2>5, <2>6
  <2> QED BY <1>0, <1>1, <2>1, <2>5, <2>7
<1>2. CASE ~(fd > 2 /\ MayUse(pid, fd, O_RDONLY))
  <2>1. got = <<>> BY <1>2 DEF readBytes
  <2>2. got \in Seq(Bytes) /\ Len(got) = 0 BY <2>1, EmptySeq
  <2>3. pipes' = pipes BY <2>2 DEF svc_read
  <2> QED BY <1>0, <1>2, <2>1, <2>2, <2>3
<1> QED BY <1>1, <1>2

LEMMA StepArrayInv ==
  ASSUME ArrayInvTyped, Next
  PROVE  ArrayInvTyped'
<1> USE DEF ArrayInvTyped
<1>1. PICK pid \in Callers :
        \/ \E name \in Names, mode \in Modes : mkfifo(pid, name, mode)
        \/ \E name \in Names, flags \in {O_RDONLY, O_WRONLY, O_RDWR} : open(pid, name, flags)
        \/ \E name \in Names : unlink(name)
        \/ \E fd \in Fds, x \in Buffers : write(pid, fd, x)
        \/ \E fd \in Fds, n \in Sizes : read(pid, fd, n)
  BY DEF Next
<1>2. <<>> \in Seq(Bytes) BY EmptySeq
<1>3. ASSUME NEW name \in Names, NEW mode \in Modes, mkfifo(pid, name, mode)
      PROVE  ArrayInvTyped'
  BY <1>2, <1>3, MkfifoArray DEF mkfifo, mkfifoResult
<1>4. ASSUME NEW name \in Names, NEW flags \in {O_RDONLY, O_WRONLY, O_RDWR},
             open(pid, name, flags)
      PROVE  ArrayInvTyped'
  <2>1. pipes' = pipes /\ currFd' = currFd /\ data' = <<>> /\ r0' = openResult(pid, name, flags)
    BY <1>4 DEF open
  <2>2. openResult(pid, name, flags) \in Int
    <3> DEFINE i == getPipeFromName(name)
    <3>1. CASE i = 0 BY <3>1 DEF openResult
    <3>2. CASE i \in 1 .. Len(pipes)
      <4> HIDE DEF i
      <4>1. pipes[i].fd \in Int BY <3>2 DEF ArrayInv, Array
      <4> QED BY <4>1 DEF openResult, i
    <3> QED BY <3>1, <3>2, FoundByName
  <2> QED BY <1>2, <2>1, <2>2 DEF ArrayInv
<1>5. ASSUME NEW name \in Names, unlink(name)
      PROVE  ArrayInvTyped'
  BY <1>2, <1>5, UnlinkArray DEF unlink, unlinkResult
<1>6. ASSUME NEW fd \in Fds, NEW x \in Buffers, write(pid, fd, x)
      PROVE  ArrayInvTyped'
  <2>1. svc_write(pid, fd, x) /\ data' = <<>> /\ r0' = writeResult(pid, fd, x)
    BY <1>6 DEF write
  <2>2. r0' \in Int
    <3>1. Len(x) \in Nat BY CallsAssumption, LenProperties
    <3> QED BY <2>1, <3>1 DEF writeResult
  <2>3. ArrayInv' BY <2>1, WriteQueue, QueueArray DEF ArrayInv
  <2> QED BY <1>2, <2>1, <2>2, <2>3
<1>7. ASSUME NEW fd \in Fds, NEW n \in Sizes, read(pid, fd, n)
      PROVE  ArrayInvTyped'
  <2>1. /\ svc_read(pid, fd, n)
        /\ data' = readBytes(pid, fd, n) /\ r0' = readResult(pid, fd, n)
    BY <1>7 DEF read
  <2>2. data' \in Seq(Bytes) BY <2>1, ReadQueue
  <2>3. r0' \in Int
    <3>1. Len(readBytes(pid, fd, n)) \in Nat BY <2>1, <2>2, LenProperties
    <3>2. fd \in Int BY CallsAssumption DEF Fds
    <3> QED BY <2>1, <3>1, <3>2 DEF readResult
  <2>4. ArrayInv' BY <2>1, ReadQueue, QueueArray DEF ArrayInv
  <2> QED BY <2>2, <2>3, <2>4
<1> QED BY <1>1, <1>3, <1>4, <1>5, <1>6, <1>7

\* Whatever is called, the array keeps its type and its descriptors are new.
LEMMA ArrayKept == Spec => []ArrayInvTyped
<1>1. ArrayInvTyped /\ UNCHANGED vars => ArrayInvTyped'
  BY DEF ArrayInvTyped, ArrayInv, vars
<1> QED BY <1>1, InitArrayInv, StepArrayInv, PTL DEF Spec

\* Every variable of Pipes keeps its type: hilevel.c's array never holds a pipe
\* with a standard descriptor, or with one that mkfifo has still to give.
THEOREM PipesTyping == Spec => []TypeOK
<1>1. ArrayInvTyped => TypeOK
  <2> SUFFICES ASSUME ArrayInvTyped PROVE TypeOK OBVIOUS
  <2>1. DOMAIN pipes = 1 .. Len(pipes) BY LenProperties DEF ArrayInvTyped, ArrayInv, Array
  <2> QED BY <2>1 DEF TypeOK, ArrayInvTyped, ArrayInv, Array
<1> QED BY <1>1, ArrayKept, PTL

\* However many pipes are made and unlinked, in whatever order, the first match
\* of getPipeFromName and of getPipeFromFd is the only one.
THEOREM PipesAreDistinct == Spec => []PipesDistinct
<1>1. ArrayInvTyped => PipesDistinct
  <2> SUFFICES ASSUME ArrayInvTyped PROVE PipesDistinct OBVIOUS
  <2>1. DOMAIN pipes = 1 .. Len(pipes) BY LenProperties DEF ArrayInvTyped, ArrayInv, Array
  <2> QED BY <2>1 DEF PipesDistinct, ArrayInvTyped, ArrayInv, Array, Distinct
<1> QED BY <1>1, ArrayKept, PTL

-----------------------------------------------------------------------------
(* The calls as calls of NamedPipes.                                       *)

FdsOf(s) == {s[i].fd : i \in 1 .. Len(s)}

\* Channels of any array, and what makes a function the channels of an array.
ChannelsOf(s) ==
  [fd \in {s[i].fd : i \in DOMAIN s} |->
     LET p == s[CHOOSE i \in DOMAIN s : s[i].fd = fd]
     IN [name |-> p.name, owner |-> p.owner, group |-> p.group,
         mode |-> p.mode, queue |-> p.queue]]

LEMMA ChannelOfPipe ==
  ASSUME NEW s, NEW next, Array(s, next)
  PROVE  /\ ChannelsOf(s) = [fd \in FdsOf(s) |-> ChannelsOf(s)[fd]]
         /\ DOMAIN ChannelsOf(s) = FdsOf(s)
         /\ \A i \in 1 .. Len(s) : ChannelsOf(s)[s[i].fd] = Channel(s[i])
<1>1. DOMAIN s = 1 .. Len(s) BY LenProperties DEF Array
<1>2. \A i \in 1 .. Len(s) : (CHOOSE j \in DOMAIN s : s[j].fd = s[i].fd) = i
  BY <1>1 DEF Array, Distinct
<1>3. DOMAIN ChannelsOf(s) = FdsOf(s) BY <1>1 DEF ChannelsOf, FdsOf
<1>4. ASSUME NEW i \in 1 .. Len(s)
      PROVE  ChannelsOf(s)[s[i].fd] = Channel(s[i])
  <2>1. s[i].fd \in {s[j].fd : j \in DOMAIN s} BY <1>1
  <2> QED BY <1>2, <2>1 DEF ChannelsOf, Channel
<1>5. ChannelsOf(s) = [fd \in FdsOf(s) |-> ChannelsOf(s)[fd]]
  BY <1>1 DEF ChannelsOf, FdsOf
<1> QED BY <1>3, <1>4, <1>5

LEMMA SameChannels ==
  ASSUME NEW s, NEW next, Array(s, next), NEW f,
         f = [fd \in FdsOf(s) |-> f[fd]],
         \A i \in 1 .. Len(s) : f[s[i].fd] = Channel(s[i])
  PROVE  ChannelsOf(s) = f
<1>1. \A fd \in FdsOf(s) : ChannelsOf(s)[fd] = f[fd]
  <2>1. \A i \in 1 .. Len(s) : ChannelsOf(s)[s[i].fd] = Channel(s[i])
    BY ChannelOfPipe
  <2>2. \A i \in 1 .. Len(s) : ChannelsOf(s)[s[i].fd] = f[s[i].fd]
    BY <2>1
  <2> QED BY <2>2 DEF FdsOf
<1>2. ChannelsOf(s) = [fd \in FdsOf(s) |-> ChannelsOf(s)[fd]]
  BY ChannelOfPipe
<1> QED BY <1>1, <1>2

\* What the calls of NamedPipes ask of the channels, in terms of the array.
LEMMA NamedFds ==
  ASSUME ArrayInv, NEW name
  PROVE  NP!Named(name) = {pipes[i].fd : i \in {j \in 1 .. Len(pipes) : pipes[j].name = name}}
<1>1. Channels = ChannelsOf(pipes) BY DEF Channels, ChannelsOf
<1>2. NP!Named(name) = {fd \in FdsOf(pipes) : ChannelsOf(pipes)[fd].name = name}
  BY <1>1, ChannelOfPipe DEF NP!Named, ArrayInv
<1>3. \A i \in 1 .. Len(pipes) : ChannelsOf(pipes)[pipes[i].fd].name = pipes[i].name
  <2>1. \A i \in 1 .. Len(pipes) : ChannelsOf(pipes)[pipes[i].fd] = Channel(pipes[i])
    BY ChannelOfPipe DEF ArrayInv
  <2>2. \A p : Channel(p).name = p.name BY DEF Channel
  <2> HIDE DEF Channel
  <2> QED BY <2>1, <2>2
<1> QED BY <1>2, <1>3 DEF FdsOf

\* checkPermissions decides as NamedPipes does: the rights of the first of the
\* categories owner, group, others that the user is in.
LEMMA SameRights ==
  ASSUME NEW p \in Pipe, NEW pid, NEW flags
  PROVE  checkPermissions(pid, p, flags) <=> NP!Allowed(pid, Channel(p), flags)
<1>1. CASE pid = p.owner
  BY <1>1 DEF checkPermissions, userCategory, NP!Allowed, Channel
<1>2. CASE pid # p.owner /\ pid = p.group
  BY <1>2 DEF checkPermissions, userCategory, NP!Allowed, Channel
<1>3. CASE pid # p.owner /\ pid # p.group
  BY <1>3 DEF checkPermissions, userCategory, NP!Allowed, Channel
<1> QED BY <1>1, <1>2, <1>3

LEMMA MkfifoAgrees ==
  ASSUME ArrayInv, NEW pid \in Callers, NEW name \in Names, NEW mode \in Modes,
         mkfifo(pid, name, mode)
  PROVE  NP!Mkfifo(pid, name, mode)
<1> DEFINE p == [name |-> name, fd |-> currFd, owner |-> pid,
                 group |-> GroupOf[name], mode |-> mode, queue |-> <<>>]
           C == ChannelsOf(pipes)
<1>1. /\ data' = <<>> /\ r0' = mkfifoResult(name)
      /\ svc_mkfifo(pid, name, mode) /\ ArrayInv'
  BY MkfifoArray DEF mkfifo
<1>2. DOMAIN pipes = 1 .. Len(pipes) /\ Len(pipes) \in Nat
  BY LenProperties DEF ArrayInv, Array
<1>3. CASE checkValidPipeName(name)
  <2>1. pipes' = Append(pipes, p) /\ currFd' = currFd + 1
    BY <1>1, <1>3 DEF svc_mkfifo, allocateNewPipe
  <2>2. p \in Pipe
    <3>1. pid \in Int /\ GroupOf[name] \in Int /\ mode \in [0 .. 2 -> Flags]
      BY CallsAssumption, NamesAssumption
    <3>2. currFd \in Nat BY DEF ArrayInv, Array
    <3>3. <<>> \in Seq(Bytes) BY EmptySeq
    <3> QED BY <3>1, <3>2, <3>3 DEF Pipe
  <2> DEFINE c == [name |-> name, owner |-> pid, group |-> GroupOf[name],
                   mode |-> mode, queue |-> <<>>]
             f == [fd \in FdsOf(pipes) \cup {currFd} |-> IF fd = currFd THEN c ELSE C[fd]]
  <2>3. Channel(p) = c /\ p.fd = currFd BY DEF Channel
  <2> HIDE DEF p, c
  <2>4. /\ Len(pipes') = Len(pipes) + 1
        /\ \A i \in 1 .. Len(pipes) : pipes'[i] = pipes[i]
        /\ pipes'[Len(pipes) + 1] = p
    BY <2>1, <2>2, AppendProperties DEF ArrayInv, Array
  <2>5. \A i \in 1 .. Len(pipes') : i \in 1 .. Len(pipes) \/ i = Len(pipes) + 1
    BY <1>2, <2>4
  <2>6. \A i \in 1 .. Len(pipes) : pipes[i].fd # currFd
    BY DEF ArrayInv, Array
  <2>7. ChannelsOf(pipes') = f
    <3>1. FdsOf(pipes') = FdsOf(pipes) \cup {currFd}
      BY <1>2, <2>3, <2>4, <2>5 DEF FdsOf
    <3>2. \A i \in 1 .. Len(pipes) : C[pipes[i].fd] = Channel(pipes[i])
      BY ChannelOfPipe DEF ArrayInv
    <3>3. \A i \in 1 .. Len(pipes') : f[pipes'[i].fd] = Channel(pipes'[i])
      BY <2>3, <2>4, <2>5, <2>6, <3>2 DEF FdsOf
    <3>4. f = [fd \in FdsOf(pipes') |-> f[fd]] BY <3>1
    <3> HIDE DEF f
    <3> QED BY <1>1, <3>3, <3>4, SameChannels DEF ArrayInv
  <2>8. Channels = C /\ Channels' = f /\ DOMAIN C = FdsOf(pipes)
    BY <2>7, ChannelOfPipe DEF Channels, ChannelsOf, ArrayInv
  <2>9. NP!Named(name) = {}
    BY <1>2, <1>3, NamedFds DEF checkValidPipeName
  <2>10. /\ (3 .. currFd - 1)' = (3 .. currFd - 1) \cup {currFd}
         /\ currFd \in (3 .. currFd - 1)' \ (3 .. currFd - 1)
    BY <2>1 DEF ArrayInv, Array
  <2> QED BY <1>1, <1>3, <2>8, <2>9, <2>10 DEF NP!Mkfifo, NP!NoData, mkfifoResult, c
<1>4. CASE ~checkValidPipeName(name)
  <2>1. pipes' = pipes /\ currFd' = currFd BY <1>1, <1>4 DEF svc_mkfifo
  <2>2. Channels' = Channels BY <2>1 DEF Channels
  <2>3. NP!Named(name) # {}
    <3>1. PICK i \in 1 .. Len(pipes) : pipes[i].name = name
      BY <1>2, <1>4 DEF checkValidPipeName
    <3>2. pipes[i].fd \in NP!Named(name) BY <3>1, NamedFds
    <3> QED BY <3>2
  <2> QED BY <1>1, <1>4, <2>1, <2>2, <2>3 DEF NP!Mkfifo, NP!NoData, mkfifoResult
<1> QED BY <1>3, <1>4

LEMMA OpenAgrees ==
  ASSUME ArrayInv, NEW pid, NEW name, NEW flags, open(pid, name, flags)
  PROVE  NP!Open(pid, name, flags)
<1> DEFINE i == getPipeFromName(name)
<1>1. /\ data' = <<>> /\ r0' = openResult(pid, name, flags)
      /\ pipes' = pipes /\ currFd' = currFd
  BY DEF open
<1>2. Channels = ChannelsOf(pipes) /\ Channels' = Channels
  BY <1>1 DEF Channels, ChannelsOf
<1>3. CASE i = 0 /\ \A j \in 1 .. Len(pipes) : pipes[j].name # name
  <2>1. NP!Named(name) = {} BY <1>3, NamedFds
  <2>2. r0' = -1 BY <1>1, <1>3 DEF openResult
  <2> QED BY <1>1, <1>2, <2>1, <2>2 DEF NP!Open, NP!NoData
<1>4. CASE i \in 1 .. Len(pipes) /\ pipes[i].name = name
  <2> HIDE DEF i
  <2>1. NP!Named(name) = {pipes[i].fd}
    BY <1>4, NamedFds DEF ArrayInv, Array, Distinct
  <2>2. Channels[pipes[i].fd] = Channel(pipes[i])
    BY <1>2, <1>4, ChannelOfPipe DEF ArrayInv
  <2>3. pipes[i] \in Pipe BY <1>4, ElementOfSeq DEF ArrayInv, Array
  <2>4. checkPermissions(pid, pipes[i], flags)
          <=> NP!Allowed(pid, Channels[pipes[i].fd], flags)
    BY <2>2, <2>3, SameRights
  <2>5. i # 0 BY <1>4
  <2>6. r0' = IF checkPermissions(pid, pipes[i], flags) THEN pipes[i].fd ELSE -1
    BY <1>1, <2>5 DEF openResult, i
  <2> QED BY <1>1, <1>2, <2>1, <2>4, <2>6 DEF NP!Open, NP!NoData
<1> QED BY <1>3, <1>4, FoundByName

LEMMA UnlinkAgrees ==
  ASSUME ArrayInv, NEW name, unlink(name)
  PROVE  NP!Unlink(name)
<1> DEFINE i == getPipeFromName(name)
           last == Len(pipes)
           C == ChannelsOf(pipes)
<1>1. data' = <<>> /\ r0' = unlinkResult(name) /\ svc_unlink(name)
  BY DEF unlink
<1>2. Channels = C /\ Channels' = ChannelsOf(pipes') /\ DOMAIN C = FdsOf(pipes)
  BY ChannelOfPipe DEF Channels, ChannelsOf, ArrayInv
<1>3. CASE i = 0 /\ \A j \in 1 .. Len(pipes) : pipes[j].name # name
  <2>1. NP!Named(name) = {} BY <1>3, NamedFds
  <2>2. pipes' = pipes /\ currFd' = currFd BY <1>1, <1>3 DEF svc_unlink
  <2>3. Channels' = [fd \in DOMAIN Channels |-> Channels[fd]]
    BY <1>2, <2>2, ChannelOfPipe DEF ArrayInv
  <2>4. r0' = -1 BY <1>1, <1>3 DEF unlinkResult
  <2> QED BY <1>1, <2>1, <2>2, <2>3, <2>4 DEF NP!Unlink, NP!NoData
<1>4. CASE i \in 1 .. Len(pipes) /\ pipes[i].name = name
  <2>1. i # 0 BY <1>4
  <2>2. /\ pipes' = SubSeq([pipes EXCEPT ![i] = pipes[last]], 1, last - 1)
        /\ currFd' = currFd
    BY <1>1, <2>1 DEF svc_unlink, deallocatePipe
  <2>3. r0' = 0 BY <1>1, <2>1 DEF unlinkResult
  <2> HIDE DEF i
  <2>4. last \in Nat BY LenProperties DEF ArrayInv, Array
  <2>5. /\ Array(pipes', currFd)
        /\ Len(pipes') = last - 1
        /\ \A k \in 1 .. Len(pipes') : pipes'[k] = pipes[IF k = i THEN last ELSE k]
    BY <1>4, <2>2, Removed DEF ArrayInv
  <2>6. NP!Named(name) = {pipes[i].fd}
    BY <1>4, NamedFds DEF ArrayInv, Array, Distinct
  <2> DEFINE f == [fd \in FdsOf(pipes) \ {pipes[i].fd} |-> C[fd]]
  <2>7. FdsOf(pipes') = FdsOf(pipes) \ {pipes[i].fd}
    <3>1. ASSUME NEW k \in 1 .. last - 1
          PROVE  pipes'[k].fd \in FdsOf(pipes) \ {pipes[i].fd}
      <4>1. PICK l \in 1 .. last : l # i /\ pipes'[k] = pipes[l]
        BY <1>4, <2>4, <2>5
      <4>2. pipes[l].fd # pipes[i].fd
        BY <1>4, <4>1 DEF ArrayInv, Array, Distinct
      <4> QED BY <4>1, <4>2 DEF FdsOf
    <3>2. ASSUME NEW k \in 1 .. last, k # i
          PROVE  pipes[k].fd \in FdsOf(pipes')
      <4>1. PICK l \in 1 .. last - 1 : k = IF l = i THEN last ELSE l
        <5>1. CASE k = last
          <6>1. i \in 1 .. last - 1 BY <1>4, <2>4, <3>2, <5>1
          <6> QED BY <5>1, <6>1
        <5>2. CASE k # last
          <6>1. k \in 1 .. last - 1 BY <2>4, <5>2
          <6> QED BY <3>2, <6>1
        <5> QED BY <5>1, <5>2
      <4>2. l \in 1 .. Len(pipes') /\ pipes'[l] = pipes[k] BY <2>5, <4>1
      <4> QED BY <4>2 DEF FdsOf
    <3> QED BY <2>5, <3>1, <3>2 DEF FdsOf
  <2>8. ChannelsOf(pipes') = f
    <3>1. \A k \in 1 .. last : C[pipes[k].fd] = Channel(pipes[k])
      BY ChannelOfPipe DEF ArrayInv
    <3>2. ASSUME NEW k \in 1 .. Len(pipes')
          PROVE  f[pipes'[k].fd] = Channel(pipes'[k])
      <4>1. pipes'[k].fd \in FdsOf(pipes') BY DEF FdsOf
      <4>2. \E l \in 1 .. last : pipes'[k] = pipes[l] BY <1>4, <2>4, <2>5
      <4> QED BY <2>7, <3>1, <4>1, <4>2
    <3>3. f = [fd \in FdsOf(pipes') |-> f[fd]] BY <2>7
    <3> HIDE DEF f
    <3> QED BY <2>5, <3>2, <3>3, SameChannels
  <2> QED BY <1>1, <1>2, <2>2, <2>3, <2>6, <2>8 DEF NP!Unlink, NP!NoData
<1> QED BY <1>3, <1>4, FoundByName

\* The channels after one queue has changed.
LEMMA RequeuedChannels ==
  ASSUME NEW s, NEW next, Array(s, next), NEW i \in 1 .. Len(s), NEW q, NEW t,
         Array(t, next), Len(t) = Len(s),
         \A k \in 1 .. Len(s) : t[k].fd = s[k].fd /\ (k # i => t[k] = s[k]),
         Channel(t[i]) = SetQueue(Channel(s[i]), q)
  PROVE  ChannelsOf(t) = RequeueAt(ChannelsOf(s), s[i].fd, q)
<1> DEFINE C == ChannelsOf(s)
           f == RequeueAt(C, s[i].fd, q)
<1>1. /\ DOMAIN C = FdsOf(s)
      /\ C = [fd \in FdsOf(s) |-> C[fd]]
      /\ \A k \in 1 .. Len(s) : C[s[k].fd] = Channel(s[k])
  BY ChannelOfPipe
<1>3. FdsOf(t) = FdsOf(s) BY DEF FdsOf
<1>5. \A k \in 1 .. Len(s) : f[s[k].fd] = Channel(t[k])
  <2> SUFFICES ASSUME NEW k \in 1 .. Len(s)
               PROVE  f[s[k].fd] = Channel(t[k])
    OBVIOUS
  <2>1. s[k].fd \in DOMAIN C BY <1>1 DEF FdsOf
  <2>2. CASE k = i
    <3>1. f[s[k].fd] = SetQueue(C[s[i].fd], q) BY <2>1, <2>2 DEF RequeueAt, SetQueue
    <3> QED BY <1>1, <2>2, <3>1
  <2>3. CASE k # i
    <3>1. s[k].fd # s[i].fd BY <2>3 DEF Array, Distinct
    <3>2. f[s[k].fd] = C[s[k].fd] BY <2>1, <3>1 DEF RequeueAt
    <3> QED BY <1>1, <2>3, <3>2
  <2> QED BY <2>2, <2>3
<1>6. f = [fd \in FdsOf(t) |-> f[fd]] BY <1>1, <1>3 DEF RequeueAt
<1>7. \A k \in 1 .. Len(t) : f[t[k].fd] = Channel(t[k]) BY <1>5
<1> HIDE DEF f
<1>8. ChannelsOf(t) = f BY <1>6, <1>7, SameChannels
<1> QED BY <1>8 DEF f

LEMMA QueueChannels ==
  ASSUME ArrayInv, NEW i \in 1 .. Len(pipes), NEW q \in Seq(Bytes),
         pipes' = RequeueAt(pipes, i, q)
  PROVE  /\ pipes[i].fd \in DOMAIN Channels
         /\ Channels[pipes[i].fd] = Channel(pipes[i])
         /\ Channels' = RequeueAt(Channels, pipes[i].fd, q)
<1>1. Channels = ChannelsOf(pipes) /\ Channels' = ChannelsOf(pipes')
  BY DEF Channels, ChannelsOf
<1>2. pipes[i].fd \in DOMAIN Channels /\ Channels[pipes[i].fd] = Channel(pipes[i])
  BY <1>1, ChannelOfPipe DEF FdsOf, ArrayInv
<1>3. /\ Array(pipes, currFd) /\ Array(pipes', currFd)
      /\ Len(pipes') = Len(pipes)
      /\ \A k \in 1 .. Len(pipes) : pipes'[k].fd = pipes[k].fd /\ (k # i => pipes'[k] = pipes[k])
      /\ Channel(pipes'[i]) = SetQueue(Channel(pipes[i]), q)
  BY Requeued DEF ArrayInv
<1>4. ChannelsOf(pipes') = RequeueAt(ChannelsOf(pipes), pipes[i].fd, q)
  BY <1>3, RequeuedChannels
<1> QED BY <1>1, <1>2, <1>4

\* MayUse decides as NamedPipes does.
LEMMA SameUse ==
  ASSUME ArrayInv, NEW pid, NEW fd, NEW flags
  PROVE  MayUse(pid, fd, flags) <=> fd \in DOMAIN Channels /\ NP!Allowed(pid, Channels[fd], flags)
<1> DEFINE i == getPipeFromFd(fd)
<1>1. /\ DOMAIN Channels = FdsOf(pipes)
      /\ \A k \in 1 .. Len(pipes) : Channels[pipes[k].fd] = Channel(pipes[k])
  <2>1. Channels = ChannelsOf(pipes) BY DEF Channels, ChannelsOf
  <2> QED BY <2>1, ChannelOfPipe DEF ArrayInv
<1>2. CASE i = 0 /\ \A k \in 1 .. Len(pipes) : pipes[k].fd # fd
  BY <1>1, <1>2 DEF MayUse, FdsOf
<1>3. CASE i \in 1 .. Len(pipes) /\ pipes[i].fd = fd
  <2> HIDE DEF i
  <2>1. i # 0 /\ fd \in DOMAIN Channels BY <1>1, <1>3 DEF FdsOf
  <2>2. pipes[i] \in Pipe BY <1>3, ElementOfSeq DEF ArrayInv, Array
  <2>3. Channels[fd] = Channel(pipes[i]) BY <1>1, <1>3
  <2>4. checkPermissions(pid, pipes[i], flags) <=> NP!Allowed(pid, Channels[fd], flags)
    BY <2>2, <2>3, SameRights
  <2> QED BY <2>1, <2>4 DEF MayUse, i
<1> QED BY <1>2, <1>3, FoundByFd

LEMMA PipeFdsFrom3 ==
  ASSUME ArrayInv, NEW fd \in DOMAIN Channels
  PROVE  fd \in Int /\ 3 <= fd
<1>1. Channels = ChannelsOf(pipes) BY DEF Channels, ChannelsOf
<1>2. fd \in FdsOf(pipes) BY <1>1, ChannelOfPipe DEF ArrayInv
<1> QED BY <1>2 DEF FdsOf, ArrayInv, Array

LEMMA WriteAgrees ==
  ASSUME ArrayInv, NEW pid, NEW fd \in Fds, NEW x \in Buffers, write(pid, fd, x)
  PROVE  NP!Write(pid, fd, x)
<1> DEFINE i == getPipeFromFd(fd)
<1>1. data' = <<>> /\ r0' = writeResult(pid, fd, x) /\ svc_write(pid, fd, x)
  BY DEF write
<1>2. currFd' = currFd BY <1>1, WriteQueue
<1>3. MayUse(pid, fd, O_WRONLY) <=> fd \in DOMAIN Channels /\ NP!Allowed(pid, Channels[fd], {2})
  BY SameUse DEF O_WRONLY
<1>4. CASE fd # 1 /\ MayUse(pid, fd, O_WRONLY)
  <2>1. /\ i \in 1 .. Len(pipes) /\ pipes[i].fd = fd
        /\ pipes[i].queue \o x \in Seq(Bytes)
        /\ pipes' = RequeueAt(pipes, i, pipes[i].queue \o x)
    BY <1>1, <1>4, WriteQueue
  <2> HIDE DEF i
  <2> DEFINE q == pipes[i].queue \o x
  <2>2. /\ Channels[fd] = Channel(pipes[i])
        /\ Channels' = RequeueAt(Channels, fd, q)
    <3> HIDE DEF q
    <3> QED BY <2>1, QueueChannels DEF q
  <2>3. Channels[fd].queue = pipes[i].queue BY <2>2 DEF Channel
  <2>4. Channels' = [Channels EXCEPT ![fd].queue = @ \o x]
    BY <2>2, <2>3 DEF RequeueAt
  <2>5. r0' = Len(x) BY <1>1, <1>4 DEF writeResult
  <2> QED BY <1>1, <1>2, <1>3, <1>4, <2>4, <2>5 DEF NP!Write, NP!NoData
<1>5. CASE ~(fd # 1 /\ MayUse(pid, fd, O_WRONLY))
  <2>1. pipes' = pipes BY <1>1, <1>5, WriteQueue
  <2>2. Channels' = Channels BY <2>1 DEF Channels
  <2>3. fd = 1 => fd \notin DOMAIN Channels BY PipeFdsFrom3
  <2>4. r0' = IF fd = 1 THEN Len(x) ELSE -1 BY <1>1, <1>5 DEF writeResult
  <2> QED BY <1>1, <1>2, <1>3, <1>5, <2>2, <2>3, <2>4 DEF NP!Write, NP!NoData
<1> QED BY <1>4, <1>5

LEMMA ReadAgrees ==
  ASSUME ArrayInv, NEW pid, NEW fd \in Fds, NEW n \in Sizes, read(pid, fd, n)
  PROVE  IF fd \in Standard THEN NP!ReadStandard ELSE NP!Read(pid, fd, n)
<1> DEFINE i == getPipeFromFd(fd)
           got == readBytes(pid, fd, n)
<1>1. data' = got /\ r0' = readResult(pid, fd, n) /\ svc_read(pid, fd, n)
  BY DEF read
<1>2. currFd' = currFd /\ got \in Seq(Bytes) BY <1>1, ReadQueue
<1>3. MayUse(pid, fd, O_RDONLY) <=> fd \in DOMAIN Channels /\ NP!Allowed(pid, Channels[fd], {4})
  BY SameUse DEF O_RDONLY
<1>4. fd \in Nat /\ n \in Nat /\ (fd \in Standard <=> fd <= 2)
  BY CallsAssumption DEF Fds, Standard
<1>5. CASE fd > 2 /\ MayUse(pid, fd, O_RDONLY)
  <2>1. /\ i \in 1 .. Len(pipes) /\ pipes[i].fd = fd
        /\ \E left \in Seq(Bytes) :
             /\ pipes[i].queue = got \o left
             /\ Len(got) = IF n < Len(pipes[i].queue) THEN n ELSE Len(pipes[i].queue)
             /\ pipes' = RequeueAt(pipes, i, left)
    BY <1>1, <1>5, ReadQueue
  <2> HIDE DEF i, got
  <2>2. PICK left \in Seq(Bytes) :
          /\ pipes[i].queue = got \o left
          /\ Len(got) = IF n < Len(pipes[i].queue) THEN n ELSE Len(pipes[i].queue)
          /\ pipes' = RequeueAt(pipes, i, left)
    BY <2>1
  <2>3. /\ fd \in DOMAIN Channels /\ Channels[fd] = Channel(pipes[i])
        /\ Channels' = RequeueAt(Channels, fd, left)
    BY <2>1, <2>2, QueueChannels
  <2>4. Channels[fd].queue = pipes[i].queue BY <2>3 DEF Channel
  <2>5. Channels'[fd].queue = left
    <3>1. Channels[fd] = [name |-> pipes[i].name, owner |-> pipes[i].owner,
                          group |-> pipes[i].group, mode |-> pipes[i].mode,
                          queue |-> pipes[i].queue]
      BY <2>3 DEF Channel
    <3>2. Channels'[fd] = [Channels[fd] EXCEPT !.queue = left] BY <2>3 DEF RequeueAt
    <3> QED BY <3>1, <3>2
  <2>6. r0' = Len(got) BY <1>1, <1>4, <1>5 DEF readResult, got
  <2>7. /\ Len(got) \in Nat /\ Len(left) \in Nat
        /\ Len(pipes[i].queue) = Len(got) + Len(left)
    BY <1>2, <2>2, ConcatProperties, LenProperties
  <2>8. Len(got) <= n BY <1>4, <2>2, <2>7
  <2>9. Len(got) < n => left = <<>>
    <3> SUFFICES ASSUME Len(got) < n PROVE left = <<>> OBVIOUS
    <3>1. Len(left) = 0 BY <1>4, <2>2, <2>7
    <3> QED BY <3>1, EmptySeq
  <2>10. NP!Read(pid, fd, n)
    BY <1>1, <1>2, <1>3, <1>5, <2>2, <2>3, <2>4, <2>5, <2>6, <2>8, <2>9 DEF NP!Read, got, RequeueAt
  <2> QED BY <1>4, <1>5, <2>10
<1>6. CASE ~(fd > 2 /\ MayUse(pid, fd, O_RDONLY))
  <2>1. got = <<>> /\ pipes' = pipes BY <1>1, <1>6, ReadQueue
  <2>2. Channels' = Channels BY <2>1 DEF Channels
  <2>3. CASE fd <= 2
    BY <1>1, <1>2, <1>4, <2>1, <2>2, <2>3 DEF NP!ReadStandard, NP!NoData
  <2>4. CASE fd > 2
    <3>1. r0' = -1 BY <1>1, <1>4, <1>6, <2>4 DEF readResult
    <3> QED BY <1>1, <1>2, <1>3, <1>4, <1>6, <2>1, <2>2, <2>4, <3>1 DEF NP!Read, NP!NoData
  <2> QED BY <1>4, <2>3, <2>4
<1> QED BY <1>5, <1>6

\* Every call does to the channels what NamedPipes says, with the same result:
\* the array, its searches and its compaction cannot be seen through the calls.
THEOREM PipesImplementNamedPipes == Spec => ImplementsNamedPipes
<1>1. Init => NP!Init
  <2> SUFFICES ASSUME Init PROVE NP!Init OBVIOUS
  <2>1. pipes = <<>> /\ currFd = 3 /\ r0 = 0 /\ data = <<>> BY DEF Init, PipesInit
  <2>2. DOMAIN pipes = {} BY <2>1
  <2>3. Channels = [fd \in {} |-> 0] BY <2>2 DEF Channels
  <2>4. 3 .. currFd - 1 = {} BY <2>1
  <2> QED BY <2>1, <2>3, <2>4 DEF NP!Init
<1>2. ArrayInvTyped => CallsAgree
  BY MkfifoAgrees, OpenAgrees, UnlinkAgrees, WriteAgrees, ReadAgrees
  DEF CallsAgree, ArrayInvTyped
<1>3. Spec => NP!Init BY <1>1 DEF Spec
<1>4. Spec => [][CallsAgree]_vars BY <1>2, ArrayKept, PTL
<1> QED BY <1>3, <1>4 DEF ImplementsNamedPipes

=============================================================================
