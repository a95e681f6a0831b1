------------------------------ MODULE DiskProofs ------------------------------
(***************************************************************************)
(* Proofs about Disk, for a disk of any size that struct.pack can tell,    *)
(* any addresses and any data, writes of any length and any faults of the  *)
(* image.  Reads are of whole blocks, as disk.h asks: with another length  *)
(* the driver and the server fall out of step.                             *)
(***************************************************************************)
EXTENDS Disk, SequenceTheorems, TLAPS

WholeBlocks == RdLens \subseteq {BlockLen}

-----------------------------------------------------------------------------
(* The inductive invariant.  InStep speaks of the time between calls; it   *)
(* holds because the line carries at most one request or its one answer,   *)
(* and because that is as long as the driver expects from its first two    *)
(* characters.                                                             *)

\* The disk cannot serve the call.
Refused ==
  \/ call.op \in {"wr", "rd"} /\ call.a >= BlockNum
  \/ call.op = "wr" /\ Len(call.data) # BlockLen

\* The line while the driver waits: the request, nothing for the server is dead,
\* or the answer, right, or a failure for which there is a reason.
Requested == toDisk = <<call>> /\ fromDisk = <<>> /\ (Refused \/ faults = i)
Abandoned == toDisk = <<>> /\ fromDisk = <<>> /\ ~serving
Failed    == toDisk = <<>> /\ fromDisk = AckFail /\ (Refused \/ faults = i + 1)

Succeeded ==
  /\ toDisk = <<>>
  /\ \/ call.op \in {"num", "len"} /\ fromDisk = AckOkay(Pack(BlockNum) \o Pack(BlockLen))
     \/ /\ call.op = "rd" /\ call.a \in 0 .. BlockNum - 1
        /\ fromDisk = AckOkay(blocks[call.a])
     \/ /\ call.op = "wr" /\ call.a \in 0 .. BlockNum - 1
        /\ blocks[call.a] = call.data /\ fromDisk = AckOkay(<<>>)

DiskTyped ==
  /\ blocks \in [0 .. BlockNum - 1 -> [1 .. BlockLen -> Bytes]]
  /\ pc \in {"idle", "write", "read"}
  /\ i \in Nat /\ faults \in Nat
  /\ IF pc = "idle" THEN call = None ELSE call \in Requests /\ i < DISK_RETRY

OneExchange ==
  /\ pc \in {"idle", "write"} => toDisk = <<>> /\ fromDisk = <<>>
  /\ pc = "write" => Refused \/ faults = i
  /\ pc = "read" => Requested \/ Abandoned \/ Failed \/ Succeeded

LineInv == DiskTyped /\ OneExchange
-----------------------------------------------------------------------------
(* Answers, as characters and as the driver takes them apart.              *)

Byte == 0 .. 255

LEMMA HexDigits ==
  ASSUME NEW b \in Seq(Byte)
  PROVE  /\ Hex(b) \in Seq(Nat) /\ Len(Hex(b)) = 2 * Len(b)
         /\ \A k \in 1 .. Len(b) :
              Hex(b)[2 * k - 1] = b[k] \div 16 /\ Hex(b)[2 * k] = b[k] % 16
<1>1. Len(b) \in Nat /\ \A k \in 1 .. Len(b) : b[k] \in Byte
  BY LenProperties, ElementOfSeq
<1>2. \A n \in Byte : n \div 16 \in Nat /\ n % 16 \in Nat
  BY SMT DEF Byte
<1>3. ASSUME NEW k \in 1 .. 2 * Len(b)
      PROVE  (IF k % 2 = 1 THEN b[(k + 1) \div 2] \div 16 ELSE b[k \div 2] % 16) \in Nat
  <2>1. CASE k % 2 = 1
    <3>1. (k + 1) \div 2 \in 1 .. Len(b)
      BY <1>1, <2>1, SMT
    <3>2. b[(k + 1) \div 2] \in Byte
      BY <1>1, <3>1
    <3> QED
      BY <1>2, <2>1, <3>2
  <2>2. CASE k % 2 # 1
    <3>1. k \div 2 \in 1 .. Len(b)
      BY <1>1, <2>2, SMT
    <3>2. b[k \div 2] \in Byte
      BY <1>1, <3>1
    <3> QED
      BY <1>2, <2>2, <3>2
  <2> QED
    BY <2>1, <2>2
<1>4. 2 * Len(b) \in Nat
  BY <1>1
<1>5. Hex(b) \in Seq(Nat) /\ Len(Hex(b)) = 2 * Len(b)
  BY <1>3, <1>4, IsASeq DEF Hex
<1>6. ASSUME NEW k \in 1 .. Len(b)
      PROVE  Hex(b)[2 * k - 1] = b[k] \div 16 /\ Hex(b)[2 * k] = b[k] % 16
  <2>1. /\ 2 * k - 1 \in 1 .. 2 * Len(b) /\ 2 * k \in 1 .. 2 * Len(b)
        /\ (2 * k - 1) % 2 = 1 /\ ((2 * k - 1) + 1) \div 2 = k
        /\ (2 * k) % 2 = 0 /\ (2 * k) \div 2 = k
    BY <1>1, SMT
  <2> QED
    BY <2>1 DEF Hex
<1> QED
  BY <1>5, <1>6

\* The two characters of a byte give it back.
LEMMA ByteBack ==
  ASSUME NEW n \in Byte
  PROVE  geth(n \div 16, n % 16) = n
<1>1. n \div 16 \in 0 .. 15 /\ n % 16 \in 0 .. 15 /\ 16 * (n \div 16) + (n % 16) = n
  BY SMT DEF Byte
<1>2. xtoi(n \div 16) = n \div 16 /\ xtoi(n % 16) = n % 16
  BY <1>1 DEF xtoi
<1>3. xtoi(n \div 16) # -1 /\ xtoi(n % 16) # -1
  BY <1>1, <1>2
<1> QED
  BY <1>1, <1>2, <1>3 DEF geth

\* An answer with data.
LEMMA AckWithData ==
  ASSUME NEW b \in Seq(Byte), Len(b) > 0
  PROVE  /\ AckOkay(b) \in Seq(Nat) /\ Len(AckOkay(b)) = 2 + 1 + 2 * Len(b) + 1
         /\ AckOkay(b)[1] = 0 /\ AckOkay(b)[2] = 0
         /\ \A k \in 1 .. Len(b) : geth(AckOkay(b)[2 * k + 2], AckOkay(b)[2 * k + 3]) = b[k]
<1> DEFINE h == Hex(b)
           t == <<SP>> \o h
           u == <<0, 0>> \o t
<1>1. /\ h \in Seq(Nat) /\ Len(h) = 2 * Len(b) /\ Len(b) \in Nat
      /\ \A k \in 1 .. Len(b) : h[2 * k - 1] = b[k] \div 16 /\ h[2 * k] = b[k] % 16
  BY HexDigits, LenProperties
<1>2. AckOkay(b) = u \o <<NL>>
  <2>1. b # <<>>
    BY EmptySeq
  <2> QED
    BY <2>1 DEF AckOkay
<1> HIDE DEF h
<1>3. <<SP>> \in Seq(Nat) /\ Len(<<SP>>) = 1 /\ <<0, 0>> \in Seq(Nat) /\ Len(<<0, 0>>) = 2
      /\ <<NL>> \in Seq(Nat) /\ Len(<<NL>>) = 1
  BY DEF SP, NL
<1>4. t \in Seq(Nat) /\ Len(t) = 1 + Len(h) /\ \A k \in 1 .. Len(h) : t[k + 1] = h[k]
  <2>1. /\ t \in Seq(Nat) /\ Len(t) = Len(<<SP>>) + Len(h)
        /\ \A k \in 1 .. Len(<<SP>>) + Len(h) :
             t[k] = IF k <= Len(<<SP>>) THEN <<SP>>[k] ELSE h[k - Len(<<SP>>)]
    BY <1>1, <1>3, ConcatProperties
  <2> QED
    BY <1>1, <1>3, <2>1
<1> HIDE DEF t
<1>5. /\ u \in Seq(Nat) /\ Len(u) = 2 + Len(t) /\ \A k \in 1 .. Len(t) : u[k + 2] = t[k]
      /\ u[1] = 0 /\ u[2] = 0
  <2>1. /\ u \in Seq(Nat) /\ Len(u) = Len(<<0, 0>>) + Len(t)
        /\ \A k \in 1 .. Len(<<0, 0>>) + Len(t) :
             u[k] = IF k <= Len(<<0, 0>>) THEN <<0, 0>>[k] ELSE t[k - Len(<<0, 0>>)]
    BY <1>3, <1>4, ConcatProperties
  <2> QED
    BY <1>1, <1>3, <1>4, <2>1
<1> HIDE DEF u
<1>6. /\ AckOkay(b) \in Seq(Nat) /\ Len(AckOkay(b)) = Len(u) + 1
      /\ \A k \in 1 .. Len(u) : AckOkay(b)[k] = u[k]
  <2>1. /\ AckOkay(b) \in Seq(Nat) /\ Len(AckOkay(b)) = Len(u) + Len(<<NL>>)
        /\ \A k \in 1 .. Len(u) + Len(<<NL>>) :
             AckOkay(b)[k] = IF k <= Len(u) THEN u[k] ELSE <<NL>>[k - Len(u)]
    BY <1>2, <1>3, <1>5, ConcatProperties
  <2> QED
    BY <1>1, <1>3, <1>4, <1>5, <2>1
<1>7. Len(h) = 2 * Len(b) /\ Len(t) = 1 + 2 * Len(b) /\ Len(u) = 3 + 2 * Len(b)
  BY <1>1, <1>4, <1>5
<1>8. ASSUME NEW k \in 1 .. Len(b)
      PROVE  geth(AckOkay(b)[2 * k + 2], AckOkay(b)[2 * k + 3]) = b[k]
  <2>1. AckOkay(b)[2 * k + 2] = h[2 * k - 1] /\ AckOkay(b)[2 * k + 3] = h[2 * k]
    <3>1. /\ 2 * k + 2 \in 1 .. Len(u) /\ 2 * k \in 1 .. Len(t) /\ 2 * k - 1 \in 1 .. Len(h)
          /\ 2 * k + 3 \in 1 .. Len(u) /\ 2 * k + 1 \in 1 .. Len(t) /\ 2 * k \in 1 .. Len(h)
          /\ (2 * k + 1) + 2 = 2 * k + 3 /\ (2 * k - 1) + 1 = 2 * k
      BY <1>1, <1>7
    <3>2. u[2 * k + 2] = t[2 * k] /\ u[2 * k + 3] = t[2 * k + 1]
      BY <1>5, <3>1
    <3>3. t[2 * k] = h[2 * k - 1] /\ t[2 * k + 1] = h[2 * k]
      BY <1>4, <3>1
    <3> QED
      BY <1>6, <3>1, <3>2, <3>3
  <2>2. b[k] \in Byte
    BY ElementOfSeq
  <2> QED
    BY <1>1, <2>1, <2>2, ByteBack
<1>9. Len(AckOkay(b)) = 2 + 1 + 2 * Len(b) + 1 /\ AckOkay(b)[1] = 0 /\ AckOkay(b)[2] = 0
  <2>1. 1 \in 1 .. Len(u) /\ 2 \in 1 .. Len(u)
    BY <1>1, <1>7
  <2> QED
    BY <1>1, <1>5, <1>6, <1>7, <2>1
<1> QED
  BY <1>6, <1>8, <1>9

\* The answers without data.
LEMMA AckWithout ==
  /\ AckOkay(<<>>) \in Seq(Nat) /\ Len(AckOkay(<<>>)) = 3
  /\ AckOkay(<<>>)[1] = 0 /\ AckOkay(<<>>)[2] = 0
  /\ AckFail \in Seq(Nat) /\ Len(AckFail) = 3 /\ AckFail[1] = 0 /\ AckFail[2] = 1
<1>1. AckOkay(<<>>) = <<0, 0>> \o <<>> \o <<NL>>
  BY DEF AckOkay
<1>2. <<0, 0>> \o <<>> = <<0, 0>> /\ <<0, 0>> \in Seq(Nat)
  BY ConcatEmptySeq
<1>3. AckOkay(<<>>) = <<0, 0, 17>>
  BY <1>1, <1>2 DEF NL
<1>4. AckFail = <<0, 1, 17>>
  BY DEF AckFail, NL
<1>5. <<0, 0, 17>> \in Seq(Nat) /\ <<0, 1, 17>> \in Seq(Nat)
  OBVIOUS
<1>6. Len(<<0, 0, 17>>) = 3 /\ Len(<<0, 1, 17>>) = 3
  OBVIOUS
<1>7. /\ <<0, 0, 17>>[1] = 0 /\ <<0, 0, 17>>[2] = 0
      /\ <<0, 1, 17>>[1] = 0 /\ <<0, 1, 17>>[2] = 1
  OBVIOUS
<1> QED
  BY <1>3, <1>4, <1>5, <1>6, <1>7, Zenon

LEMMA Acknowledgements ==
  geth(0, 0) = 0 /\ geth(0, 1) = 1
BY DEF geth, xtoi
-----------------------------------------------------------------------------
(* Calls, addresses, blocks and sizes.                                     *)

LEMMA CallCases ==
  ASSUME call \in Requests
  PROVE  \/ call.op \in {"num", "len"}
         \/ /\ call.op = "wr" /\ call.a \in Addresses /\ call.data \in Seq(Bytes)
         \/ /\ call.op = "rd" /\ call.a \in Addresses /\ call.n \in RdLens
<1>1. CASE call \in [op : {"num", "len"}, a : {0}, data : {<<>>}, n : {0}]
  BY <1>1
<1>2. CASE call \in [op : {"wr"}, a : Addresses, data : UNION {[1 .. n -> Bytes] : n \in WrLens},
                     n : {0}]
  <2>0. PICK n \in WrLens : call.data \in [1 .. n -> Bytes]
    BY <1>2
  <2>1. n \in Nat
    BY DiskAssumption
  <2>2. \A d \in [1 .. n -> Bytes] : d \in Seq(Bytes)
    BY <2>1
  <2>3. call.data \in Seq(Bytes)
    BY <2>0, <2>2
  <2>4. call.op = "wr" /\ call.a \in Addresses
    BY <1>2
  <2> QED
    BY <2>3, <2>4
<1>3. CASE call \in [op : {"rd"}, a : Addresses, data : {<<>>}, n : RdLens]
  BY <1>3
<1> QED
  BY <1>1, <1>2, <1>3 DEF Requests

\* The server takes an address as the driver meant it, unless it is negative to
\* the server.
LEMMA Signed ==
  ASSUME NEW a \in Addresses
  PROVE  a \in Nat /\ Unpack(a) \in Int /\ Unpack(a) <= a /\ (Unpack(a) >= 0 => Unpack(a) = a)
<1>1. a \in 0 .. 2 * SignBit - 1 /\ SignBit \in Nat
  BY DiskAssumption
<1> QED
  BY <1>1 DEF Unpack

LEMMA BlockType ==
  ASSUME DiskTyped, NEW a \in 0 .. BlockNum - 1
  PROVE  blocks[a] \in Seq(Bytes) /\ Len(blocks[a]) = BlockLen
<1>1. blocks[a] \in [1 .. BlockLen -> Bytes] /\ BlockLen \in Nat
  BY DiskAssumption DEF DiskTyped
<1>2. \A b \in [1 .. BlockLen -> Bytes] : b \in Seq(Bytes) /\ Len(b) = BlockLen
  BY <1>1
<1> QED
  BY <1>1, <1>2

LEMMA BytesAreBytes ==
  ASSUME NEW b \in Seq(Bytes)
  PROVE  b \in Seq(Byte)
<1>1. Bytes \subseteq Byte
  BY DiskAssumption DEF Byte
<1> QED
  BY <1>1, SeqMonotonic

\* The front of one block and the back of another, as a torn write leaves them.
LEMMA TornBlock ==
  ASSUME NEW d \in Seq(Bytes), NEW b \in Seq(Bytes), Len(d) = BlockLen, Len(b) = BlockLen,
         NEW k \in 0 .. BlockLen
  PROVE  /\ SubSeq(d, 1, k) \o SubSeq(b, k + 1, BlockLen) \in [1 .. BlockLen -> Bytes]
         /\ k = 0 => SubSeq(d, 1, k) \o SubSeq(b, k + 1, BlockLen) = b
         /\ k = BlockLen => SubSeq(d, 1, k) \o SubSeq(b, k + 1, BlockLen) = d
<1> DEFINE front == SubSeq(d, 1, k)
           back  == SubSeq(b, k + 1, BlockLen)
<1>0. BlockLen \in Nat /\ k \in Nat
  BY DiskAssumption
<1>1. front \in Seq(Bytes) /\ Len(front) = k
  <2>1. \A j \in 1 .. k : d[j] \in Bytes
    BY <1>0, ElementOfSeq
  <2> QED
    BY <1>0, <2>1, SubSeqProperties
<1>2. back \in Seq(Bytes) /\ Len(back) = BlockLen - k
  <2>1. \A j \in k + 1 .. BlockLen : b[j] \in Bytes
    BY <1>0, ElementOfSeq
  <2>2. /\ back \in Seq(Bytes)
        /\ Len(back) = IF k + 1 <= BlockLen THEN BlockLen - (k + 1) + 1 ELSE 0
    BY <1>0, <2>1, SubSeqProperties
  <2> QED
    BY <1>0, <2>2
<1>3. k = 0 => front = <<>> /\ back = b
  <2>1. k = 0 => front = <<>>
    BY SubSeqEmpty
  <2>2. SubSeq(b, 1, Len(b)) = b
    BY SubSeqFull
  <2> QED
    BY <2>1, <2>2
<1>4. k = BlockLen => front = d /\ back = <<>>
  <2>1. k = BlockLen => back = <<>>
    BY <1>0, SubSeqEmpty
  <2>2. SubSeq(d, 1, Len(d)) = d
    BY SubSeqFull
  <2> QED
    BY <2>1, <2>2
<1> HIDE DEF front, back
<1>5. front \o back \in Seq(Bytes) /\ Len(front \o back) = BlockLen
  BY <1>0, <1>1, <1>2, ConcatProperties
<1>6. front \o back \in [1 .. BlockLen -> Bytes]
  BY <1>5, LenProperties
<1>7. k = 0 => front \o back = b
  BY <1>3, ConcatEmptySeq
<1>8. k = BlockLen => front \o back = d
  BY <1>4, ConcatEmptySeq
<1> QED
  BY <1>6, <1>7, <1>8 DEF front, back

\* The sizes, as they travel.
Sizes == Pack(BlockNum) \o Pack(BlockLen)

\* A number without its least significant byte, and that byte.
Shift(n) == n \div 256
Low(n)   == n % 256

LEMMA ShiftLow ==
  ASSUME NEW n \in Nat
  PROVE  Shift(n) \in Nat /\ Low(n) \in Byte /\ n = Low(n) + 256 * Shift(n)
BY SMT DEF Shift, Low, Byte

LEMMA PackType ==
  ASSUME NEW n \in Nat
  PROVE  /\ Pack(n) \in Seq(Byte) /\ Len(Pack(n)) = 4
         /\ Pack(n)[1] = Low(n)
         /\ Pack(n)[2] = Low(Shift(n))
         /\ Pack(n)[3] = Low(Shift(Shift(n)))
         /\ Pack(n)[4] = Low(Shift(Shift(Shift(n))))
<1>1. /\ Pack(n)[1] = Low(n)
      /\ Pack(n)[2] = Low(Shift(n))
      /\ Pack(n)[3] = Low(Shift(Shift(n)))
      /\ Pack(n)[4] = Low(Shift(Shift(Shift(n))))
  BY SMT DEF Pack, Low, Shift
<1>2. \A j \in 1 .. 4 : Pack(n)[j] \in Byte
  <2>1. Shift(n) \in Nat /\ Shift(Shift(n)) \in Nat /\ Shift(Shift(Shift(n))) \in Nat
    BY ShiftLow
  <2> QED
    BY <1>1, <2>1, ShiftLow
<1>3. Pack(n) = [j \in 1 .. 4 |-> Pack(n)[j]]
  BY DEF Pack
<1>4. Pack(n) \in Seq(Byte) /\ Len(Pack(n)) = 4
  BY <1>2, <1>3, IsASeq
<1> QED
  BY <1>1, <1>4

\* A size that struct.pack takes comes back from its four bytes.
Packable(n) == n \in Nat /\ n \div 256 ^ 3 < 128

LEMMA WordBack ==
  ASSUME NEW n, Packable(n), NEW b, \A k \in 1 .. 4 : b[k] = Pack(n)[k]
  PROVE  Word(b) = n
<1>1. n \in Nat
  BY DEF Packable
<1>2. b[1] = Low(n) /\ b[2] = Low(Shift(n)) /\ b[3] = Low(Shift(Shift(n)))
      /\ b[4] = Low(Shift(Shift(Shift(n))))
  BY <1>1, PackType
<1>3. Shift(n) \in Nat /\ Shift(Shift(n)) \in Nat /\ Shift(Shift(Shift(n))) \in Nat
  BY <1>1, ShiftLow
<1>4. Low(Shift(Shift(Shift(n)))) = Shift(Shift(Shift(n)))
  <2>1. Shift(Shift(Shift(n))) < 128
    BY <1>1, SMT DEF Packable, Shift
  <2> QED
    BY <1>3, <2>1, SMT DEF Low
<1>5. /\ n = Low(n) + 256 * Shift(n)
      /\ Shift(n) = Low(Shift(n)) + 256 * Shift(Shift(n))
      /\ Shift(Shift(n)) = Low(Shift(Shift(n))) + 256 * Shift(Shift(Shift(n)))
  BY <1>1, <1>3, ShiftLow
<1> QED
  BY <1>2, <1>4, <1>5 DEF Word

LEMMA SizesType ==
  /\ Sizes \in Seq(Byte) /\ Len(Sizes) = 8
  /\ \A k \in 1 .. 4 : Sizes[k] = Pack(BlockNum)[k] /\ Sizes[k + 4] = Pack(BlockLen)[k]
<1>1. /\ Pack(BlockNum) \in Seq(Byte) /\ Len(Pack(BlockNum)) = 4
      /\ Pack(BlockLen) \in Seq(Byte) /\ Len(Pack(BlockLen)) = 4
  <2>1. BlockNum \in Nat /\ BlockLen \in Nat
    BY DiskAssumption
  <2> QED
    BY <2>1, PackType
<1>2. /\ Sizes \in Seq(Byte) /\ Len(Sizes) = 8
      /\ \A k \in 1 .. 8 :
           Sizes[k] = IF k <= 4 THEN Pack(BlockNum)[k] ELSE Pack(BlockLen)[k - 4]
  <2>1. /\ Sizes \in Seq(Byte) /\ Len(Sizes) = Len(Pack(BlockNum)) + Len(Pack(BlockLen))
        /\ \A k \in 1 .. Len(Pack(BlockNum)) + Len(Pack(BlockLen)) :
             Sizes[k] = IF k <= Len(Pack(BlockNum)) THEN Pack(BlockNum)[k]
                        ELSE Pack(BlockLen)[k - Len(Pack(BlockNum))]
    BY <1>1, ConcatProperties DEF Sizes
  <2> QED
    BY <1>1, <2>1
<1> QED
  BY <1>2
-----------------------------------------------------------------------------
(* The server takes the request and answers it, or dies.                   *)

LEMMA ServeTakes ==
  ASSUME LineInv, Serve
  PROVE  /\ pc = "read" /\ Requested /\ call \in Requests
         /\ toDisk' = <<>> /\ UNCHANGED <<call, pc, i, r, x>>
         /\ \/ call.op \in {"num", "len"} /\ conf
            \/ call.op = "wr" /\ wr(call)
            \/ call.op = "rd" /\ rd(call)
<1>1. toDisk # <<>>
  BY DEF Serve
<1>2. pc = "read" /\ Requested
  BY <1>1 DEF LineInv, DiskTyped, OneExchange, Abandoned, Failed, Succeeded
<1>3. Head(toDisk) = call /\ Tail(toDisk) = <<>>
  BY <1>2 DEF Requested
<1> QED
  BY <1>2, <1>3 DEF Serve, LineInv, DiskTyped

LEMMA AnswerAlone ==
  ASSUME fromDisk = <<>>, NEW ack \in Seq(Nat), Answer(ack)
  PROVE  fromDisk' = ack
BY ConcatEmptySeq DEF Answer

\* What the server may have done to the disk and to the line.
Died    == serving' = FALSE /\ UNCHANGED <<blocks, fromDisk, faults>>
Refuses == Refused /\ fromDisk' = AckFail /\ UNCHANGED <<blocks, faults>>

Servable == call.a \in 0 .. BlockNum - 1 /\ (call.op = "wr" => Len(call.data) = BlockLen)

Faulty == Servable /\ fromDisk' = AckFail /\ faults' = faults + 1

Torn ==
  /\ call.op = "wr" /\ Faulty
  /\ \E k \in 0 .. BlockLen - 1 :
       blocks' = [blocks EXCEPT ![call.a] =
                    SubSeq(call.data, 1, k) \o SubSeq(blocks[call.a], k + 1, BlockLen)]

Written ==
  /\ call.op = "wr" /\ Servable
  /\ blocks' = [blocks EXCEPT ![call.a] = call.data]
  /\ fromDisk' = AckOkay(<<>>) /\ UNCHANGED faults

ReadOut ==
  /\ call.op = "rd" /\ Servable
  /\ fromDisk' = AckOkay(blocks[call.a]) /\ UNCHANGED <<blocks, faults>>

Told ==
  /\ call.op \in {"num", "len"}
  /\ fromDisk' = AckOkay(Sizes) /\ UNCHANGED <<blocks, faults>>

Outcome ==
  Died \/ Refuses \/ Torn \/ Written \/ ReadOut \/ Told \/ (Faulty /\ UNCHANGED blocks)

LEMMA ServeOutcome ==
  ASSUME LineInv, Serve
  PROVE  Outcome
<1>1. /\ pc = "read" /\ call \in Requests /\ DiskTyped /\ fromDisk = <<>>
      /\ \/ call.op \in {"num", "len"} /\ conf
         \/ call.op = "wr" /\ wr(call)
         \/ call.op = "rd" /\ rd(call)
  BY ServeTakes DEF LineInv, Requested
<1>2. AckFail \in Seq(Nat) /\ AckOkay(<<>>) \in Seq(Nat)
  BY AckWithout
<1>3. CASE call.op \in {"num", "len"} /\ conf
  <2>1. AckOkay(Sizes) \in Seq(Nat)
    <3>1. Sizes \in Seq(Byte) /\ Len(Sizes) > 0
      BY SizesType
    <3> QED
      BY <3>1, AckWithData
  <2>2. fromDisk' = AckOkay(Sizes)
    BY <1>1, <1>3, <2>1, AnswerAlone DEF conf, Sizes
  <2> QED
    BY <1>3, <2>2 DEF conf, Told, Outcome
<1>4. CASE call.op = "wr" /\ wr(call)
  <2>1. call.a \in Addresses
    BY <1>1, <1>4, CallCases
  <2>2. /\ call.a \in Nat /\ Unpack(call.a) \in Int /\ Unpack(call.a) <= call.a
        /\ Unpack(call.a) >= 0 => Unpack(call.a) = call.a
        /\ BlockNum \in Nat
    BY <2>1, Signed, DiskAssumption
  <2>3. CASE Dies
    BY <2>3 DEF Dies, Died, Outcome
  <2>4. CASE /\ Unpack(call.a) >= BlockNum \/ Len(call.data) # BlockLen
             /\ Answer(AckFail) /\ UNCHANGED <<blocks, faults>>
    <3>1. Refused
      BY <1>4, <2>2, <2>4 DEF Refused
    <3> QED
      BY <1>1, <1>2, <2>4, <3>1, AnswerAlone DEF Refuses, Outcome
  <2>5. CASE /\ Unpack(call.a) \in 0 .. BlockNum - 1 /\ Len(call.data) = BlockLen
             /\ blocks' = [blocks EXCEPT ![Unpack(call.a)] = call.data]
             /\ Answer(AckOkay(<<>>)) /\ UNCHANGED faults
    <3>1. Unpack(call.a) = call.a /\ Servable
      BY <2>2, <2>5 DEF Servable
    <3>2. fromDisk' = AckOkay(<<>>)
      BY <1>1, <1>2, <2>5, AnswerAlone
    <3> QED
      BY <1>4, <2>5, <3>1, <3>2 DEF Written, Outcome
  <2>6. CASE /\ Unpack(call.a) \in 0 .. BlockNum - 1 /\ Len(call.data) = BlockLen
             /\ \E k \in 0 .. BlockLen - 1 :
                  blocks' = [blocks EXCEPT ![Unpack(call.a)] =
                    SubSeq(call.data, 1, k) \o SubSeq(blocks[Unpack(call.a)], k + 1, BlockLen)]
             /\ Answer(AckFail) /\ Fault
    <3>1. Unpack(call.a) = call.a /\ Servable
      BY <2>2, <2>6 DEF Servable
    <3>2. Faulty
      BY <1>1, <1>2, <2>6, <3>1, AnswerAlone DEF Faulty, Fault
    <3> QED
      BY <1>4, <2>6, <3>1, <3>2 DEF Torn, Outcome
  <2> QED
    BY <1>4, <2>3, <2>4, <2>5, <2>6 DEF wr
<1>5. CASE call.op = "rd" /\ rd(call)
  <2>1. call.a \in Addresses
    BY <1>1, <1>5, CallCases
  <2>2. /\ call.a \in Nat /\ Unpack(call.a) \in Int /\ Unpack(call.a) <= call.a
        /\ Unpack(call.a) >= 0 => Unpack(call.a) = call.a
        /\ BlockNum \in Nat
    BY <2>1, Signed, DiskAssumption
  <2>3. CASE Dies
    BY <2>3 DEF Dies, Died, Outcome
  <2>4. CASE /\ Unpack(call.a) >= BlockNum
             /\ Answer(AckFail) /\ UNCHANGED <<blocks, faults>>
    <3>1. Refused
      BY <1>5, <2>2, <2>4 DEF Refused
    <3> QED
      BY <1>1, <1>2, <2>4, <3>1, AnswerAlone DEF Refuses, Outcome
  <2>5. CASE /\ Unpack(call.a) \in 0 .. BlockNum - 1
             /\ Answer(AckOkay(blocks[Unpack(call.a)])) /\ UNCHANGED <<blocks, faults>>
    <3>1. Unpack(call.a) = call.a /\ Servable
      BY <1>5, <2>2, <2>5 DEF Servable
    <3>2. AckOkay(blocks[call.a]) \in Seq(Nat)
      <4>1. blocks[call.a] \in Seq(Byte) /\ Len(blocks[call.a]) > 0
        BY <1>1, <3>1, BlockType, BytesAreBytes, DiskAssumption DEF Servable
      <4> QED
        BY <4>1, AckWithData
    <3> QED
      BY <1>1, <1>5, <2>5, <3>1, <3>2, AnswerAlone DEF ReadOut, Outcome
  <2>6. CASE /\ Unpack(call.a) \in 0 .. BlockNum - 1
             /\ Answer(AckFail) /\ Fault /\ UNCHANGED blocks
    <3>1. Unpack(call.a) = call.a /\ Servable
      BY <1>5, <2>2, <2>6 DEF Servable
    <3> QED
      BY <1>1, <1>2, <2>6, <3>1, AnswerAlone DEF Faulty, Fault, Outcome
  <2> QED
    BY <1>5, <2>3, <2>4, <2>5, <2>6 DEF rd
<1> QED
  BY <1>1, <1>3, <1>4, <1>5
LEMMA ServeKeepsLine ==
  ASSUME LineInv, Serve
  PROVE  LineInv'
<1>1. /\ pc = "read" /\ Requested /\ call \in Requests /\ DiskTyped
      /\ toDisk' = <<>> /\ UNCHANGED <<call, pc, i, r, x>> /\ Outcome
  BY ServeTakes, ServeOutcome DEF LineInv
<1>2. faults' \in Nat /\ (Servable => ~Refused /\ faults = i)
  <2>1. faults \in Nat
    BY <1>1 DEF DiskTyped
  <2>2. faults' = faults \/ faults' = faults + 1
    BY <1>1 DEF Outcome, Died, Refuses, Torn, Written, ReadOut, Told, Faulty
  <2>3. Servable => ~Refused
    BY DiskAssumption DEF Servable, Refused
  <2> QED
    BY <1>1, <2>1, <2>2, <2>3 DEF Requested
<1>3. Refused' <=> Refused
  BY <1>1 DEF Refused
<1>4. blocks' \in [0 .. BlockNum - 1 -> [1 .. BlockLen -> Bytes]]
  <2>1. blocks \in [0 .. BlockNum - 1 -> [1 .. BlockLen -> Bytes]]
    BY <1>1 DEF DiskTyped
  <2>2. ASSUME call.op = "wr", Servable
        PROVE  /\ call.a \in 0 .. BlockNum - 1
               /\ call.data \in Seq(Bytes) /\ Len(call.data) = BlockLen
               /\ blocks[call.a] \in Seq(Bytes) /\ Len(blocks[call.a]) = BlockLen
    BY <1>1, <2>2, CallCases, BlockType DEF Servable
  <2>3. CASE Written
    <3>1. call.data \in [1 .. BlockLen -> Bytes]
      BY <2>2, <2>3, LenProperties DEF Written
    <3> QED
      BY <2>1, <2>3, <3>1 DEF Written
  <2>4. CASE Torn
    <3>0. PICK k \in 0 .. BlockLen - 1 :
            blocks' = [blocks EXCEPT ![call.a] =
                         SubSeq(call.data, 1, k) \o SubSeq(blocks[call.a], k + 1, BlockLen)]
      BY <2>4 DEF Torn
    <3>1. k \in 0 .. BlockLen
      BY DiskAssumption
    <3>2. SubSeq(call.data, 1, k) \o SubSeq(blocks[call.a], k + 1, BlockLen)
            \in [1 .. BlockLen -> Bytes]
      BY <2>2, <2>4, <3>1, TornBlock DEF Torn, Faulty
    <3> QED
      BY <2>1, <3>0, <3>2
  <2>5. CASE UNCHANGED blocks
    BY <2>1, <2>5
  <2> QED
    BY <1>1, <2>3, <2>4, <2>5 DEF Outcome, Died, Refuses, ReadOut, Told
<1>5. DiskTyped'
  BY <1>1, <1>2, <1>4 DEF DiskTyped
<1>6. (Requested \/ Abandoned \/ Failed \/ Succeeded)'
  <2>1. CASE Died
    BY <1>1, <2>1 DEF Died, Requested, Abandoned
  <2>2. CASE Refuses
    BY <1>1, <1>3, <2>2 DEF Refuses, Failed
  <2>3. CASE Torn \/ (Faulty /\ UNCHANGED blocks)
    BY <1>1, <1>2, <2>3 DEF Torn, Faulty, Failed
  <2>4. CASE Written
    <3>1. blocks'[call.a] = call.data /\ call.a \in 0 .. BlockNum - 1
      BY <1>1, <2>4 DEF Written, Servable, DiskTyped
    <3> QED
      BY <1>1, <2>4, <3>1 DEF Written, Succeeded
  <2>5. CASE ReadOut
    BY <1>1, <2>5 DEF ReadOut, Servable, Succeeded
  <2>6. CASE Told
    BY <1>1, <2>6 DEF Told, Succeeded, Sizes
  <2> QED
    BY <1>1, <2>1, <2>2, <2>3, <2>4, <2>5, <2>6 DEF Outcome
<1> QED
  BY <1>1, <1>5, <1>6 DEF LineInv, OneExchange

-----------------------------------------------------------------------------
(* The driver takes an answer apart, and nothing of it is left.            *)

\* What is on the line while the driver waits, by its first two characters.
LEMMA AnswerForms ==
  ASSUME LineInv, WholeBlocks, pc = "read", fromDisk # <<>>
  PROVE  /\ toDisk = <<>> /\ fromDisk \in Seq(Nat)
         /\ \/ Failed /\ ~Acknowledged /\ Len(fromDisk) = 3
            \/ Succeeded /\ Acknowledged /\ Len(fromDisk) = OkayLen
<1>1. call \in Requests /\ DiskTyped
  BY DEF LineInv, DiskTyped
<1>3. Failed \/ Succeeded
  BY DEF LineInv, OneExchange, Requested, Abandoned
<1>4. CASE Failed
  BY <1>4, AckWithout, Acknowledgements DEF Failed, Acknowledged
<1>5. CASE Succeeded
  <2>1. CASE call.op \in {"num", "len"} /\ fromDisk = AckOkay(Sizes)
    <3>1. Sizes \in Seq(Byte) /\ Len(Sizes) = 8
      BY SizesType
    <3>2. fromDisk \in Seq(Nat) /\ Len(fromDisk) = 2 + 1 + 2 * 8 + 1
          /\ fromDisk[1] = 0 /\ fromDisk[2] = 0
      <4>1. Len(Sizes) > 0
        BY <3>1
      <4>2. /\ AckOkay(Sizes) \in Seq(Nat) /\ Len(AckOkay(Sizes)) = 2 + 1 + 2 * Len(Sizes) + 1
            /\ AckOkay(Sizes)[1] = 0 /\ AckOkay(Sizes)[2] = 0
        BY <3>1, <4>1, AckWithData
      <4> QED
        BY <2>1, <3>1, <4>2
    <3>3. OkayLen = 2 + 1 + 2 * 8 + 1
      BY <2>1 DEF OkayLen, DataLen
    <3> QED
      BY <1>5, <3>2, <3>3, Acknowledgements DEF Succeeded, Acknowledged
  <2>2. CASE call.op = "rd" /\ call.a \in 0 .. BlockNum - 1 /\ fromDisk = AckOkay(blocks[call.a])
    <3>1. blocks[call.a] \in Seq(Byte) /\ Len(blocks[call.a]) = BlockLen /\ BlockLen > 0
          /\ BlockLen \in Nat
      BY <1>1, <2>2, BlockType, BytesAreBytes, DiskAssumption
    <3>2. fromDisk \in Seq(Nat) /\ Len(fromDisk) = 2 + 1 + 2 * BlockLen + 1
          /\ fromDisk[1] = 0 /\ fromDisk[2] = 0
      BY <2>2, <3>1, AckWithData
    <3>3. call.n = BlockLen
      BY <1>1, <2>2, CallCases DEF WholeBlocks
    <3>4. OkayLen = 2 + 1 + 2 * BlockLen + 1
      BY <2>2, <3>3 DEF OkayLen, DataLen
    <3> QED
      BY <1>5, <3>2, <3>4, Acknowledgements DEF Succeeded, Acknowledged
  <2>3. CASE call.op = "wr" /\ fromDisk = AckOkay(<<>>)
    <3>1. OkayLen = 3
      BY <2>3 DEF OkayLen
    <3> QED
      BY <1>5, <2>3, <3>1, AckWithout, Acknowledgements DEF Succeeded, Acknowledged
  <2> QED
    BY <1>5, <2>1, <2>2, <2>3 DEF Succeeded, Sizes
<1> QED
  BY <1>3, <1>4, <1>5

LEMMA LongIsNotEmpty ==
  Len(fromDisk) >= 2 \/ Len(fromDisk) >= 3 => fromDisk # <<>>
<1>1. Len(<<>>) = 0
  BY EmptySeq
<1> QED
  BY <1>1

LEMMA NothingLeft ==
  ASSUME NEW s \in Seq(Nat), NEW n \in Nat, Len(s) = n
  PROVE  SubSeq(s, n + 1, Len(s)) = <<>>
BY SubSeqEmpty

LEMMA DriverKeepsLine ==
  ASSUME LineInv, WholeBlocks, Begin \/ Driver
  PROVE  LineInv'
<1>1. CASE Begin
  <2>1. /\ call' \in Requests /\ pc' = "write" /\ i' = 0 /\ faults' = 0
        /\ UNCHANGED <<blocks, toDisk, fromDisk>> /\ pc = "idle"
    BY <1>1 DEF Begin
  <2> QED
    BY <2>1 DEF LineInv, DiskTyped, OneExchange, DISK_RETRY
<1>2. CASE WriteRequest
  <2>1. /\ pc = "write" /\ toDisk' = Append(toDisk, call) /\ pc' = "read"
        /\ UNCHANGED <<blocks, call, i, fromDisk, faults>>
    BY <1>2 DEF WriteRequest
  <2>2. toDisk' = <<call>> /\ fromDisk' = <<>> /\ (Refused \/ faults = i)
    BY <2>1 DEF LineInv, OneExchange
  <2>3. Refused' <=> Refused
    BY <2>1 DEF Refused
  <2>4. Requested'
    BY <2>1, <2>2, <2>3 DEF Requested
  <2>5. DiskTyped'
    BY <2>1 DEF LineInv, DiskTyped
  <2> QED
    BY <2>1, <2>4, <2>5 DEF LineInv, OneExchange
<1>3. CASE ReadOkay
  <2>1. /\ pc = "read" /\ fromDisk # <<>> /\ Acknowledged
        /\ fromDisk' = SubSeq(fromDisk, OkayLen + 1, Len(fromDisk))
        /\ pc' = "idle" /\ call' = None /\ UNCHANGED <<blocks, i, toDisk, faults>>
    BY <1>3, LongIsNotEmpty DEF ReadOkay
  <2>2. toDisk = <<>> /\ fromDisk \in Seq(Nat) /\ Len(fromDisk) = OkayLen
    BY <2>1, AnswerForms
  <2>3. fromDisk' = <<>>
    BY <2>1, <2>2, LenProperties, NothingLeft
  <2> QED
    BY <2>1, <2>2, <2>3 DEF LineInv, DiskTyped, OneExchange
<1>4. CASE ReadFail
  <2>1. /\ pc = "read" /\ fromDisk # <<>> /\ ~Acknowledged
        /\ fromDisk' = SubSeq(fromDisk, 4, Len(fromDisk)) /\ i' = i + 1
        /\ \/ i' < DISK_RETRY /\ pc' = "write" /\ UNCHANGED call
           \/ i' >= DISK_RETRY /\ pc' = "idle" /\ call' = None
        /\ UNCHANGED <<blocks, toDisk, faults>>
    BY <1>4, LongIsNotEmpty DEF ReadFail
  <2>2. toDisk = <<>> /\ fromDisk \in Seq(Nat) /\ Len(fromDisk) = 3 /\ Failed
    BY <2>1, AnswerForms
  <2>3. fromDisk' = <<>>
    BY <2>1, <2>2, SubSeqEmpty
  <2>4. Refused \/ faults = i + 1
    BY <2>2 DEF Failed
  <2>5. i' \in Nat /\ faults' \in Nat
    BY <2>1 DEF LineInv, DiskTyped
  <2>6. CASE i' < DISK_RETRY /\ pc' = "write" /\ UNCHANGED call
    <3>1. Refused' <=> Refused
      BY <2>6 DEF Refused
    <3> QED
      BY <2>1, <2>2, <2>3, <2>4, <2>5, <2>6, <3>1 DEF LineInv, DiskTyped, OneExchange
  <2>7. CASE pc' = "idle" /\ call' = None
    BY <2>1, <2>2, <2>3, <2>5, <2>7 DEF LineInv, DiskTyped, OneExchange
  <2> QED
    BY <2>1, <2>6, <2>7
<1> QED
  BY <1>1, <1>2, <1>3, <1>4 DEF Driver

LEMMA InitLine == Init => LineInv
BY DEF Init, LineInv, DiskTyped, OneExchange

LEMMA StepKeepsLine ==
  ASSUME LineInv, WholeBlocks, [Next]_vars
  PROVE  LineInv'
<1>1. CASE Begin \/ Driver
  BY <1>1, DriverKeepsLine
<1>2. CASE Serve
  BY <1>2, ServeKeepsLine
<1>3. CASE UNCHANGED vars
  BY <1>3 DEF vars, LineInv, DiskTyped, OneExchange, Requested, Abandoned, Failed,
              Succeeded, Refused
<1> QED
  BY <1>1, <1>2, <1>3 DEF Next

\* If blocks are read whole, the line is silent between calls: every answer is as
\* long as the driver takes it to be from its first two characters.
THEOREM LineInStep == WholeBlocks => (Spec => []InStep)
<1> SUFFICES ASSUME WholeBlocks PROVE Spec => []InStep
  OBVIOUS
<1>1. Init => LineInv
  BY InitLine
<1>2. LineInv /\ [Next]_vars => LineInv'
  BY StepKeepsLine
<1>3. LineInv => InStep
  BY DEF LineInv, OneExchange, InStep
<1> QED
  BY <1>1, <1>2, <1>3, PTL DEF Spec
-----------------------------------------------------------------------------
(* What calls return, and that the whole implements BlockDevice.           *)

\* The bytes behind an acknowledgement are the server's.
LEMMA DataBack ==
  ASSUME NEW b \in Seq(Byte), Len(b) > 0, fromDisk = AckOkay(b), NEW n \in Nat, Len(b) = n
  PROVE  data_geth(n) = b
<1>1. \A k \in 1 .. n : geth(fromDisk[2 * k + 2], fromDisk[2 * k + 3]) = b[k]
  BY AckWithData
<1>2. data_geth(n) = [k \in 1 .. n |-> b[k]]
  BY <1>1 DEF data_geth
<1> QED
  BY <1>2, LenProperties

LEMMA OkayIsSucceed ==
  ASSUME LineInv, WholeBlocks, ReadOkay
  PROVE  BD!Succeed /\ r' # DISK_FAILURE
<1> DEFINE got == data_geth(DataLen)
<1>1. /\ pc = "read" /\ fromDisk # <<>> /\ Acknowledged /\ call' = None /\ UNCHANGED blocks
      /\ r' = CASE call.op = "num" -> Word(SubSeq(got, 1, 4))
                [] call.op = "len" -> Word(SubSeq(got, 5, 8))
                [] OTHER -> DISK_SUCCESS
      /\ x' = IF call.op = "rd" THEN got ELSE x
  BY LongIsNotEmpty DEF ReadOkay
<1>2. Succeeded /\ call \in Requests /\ DiskTyped
  BY <1>1, AnswerForms DEF LineInv, DiskTyped
<1>3. CASE call.op \in {"num", "len"} /\ fromDisk = AckOkay(Sizes)
  <2>1. Sizes \in Seq(Byte) /\ Len(Sizes) = 8 /\ Len(Sizes) > 0
    BY SizesType
  <2>2. DataLen = 8
    BY <1>3 DEF DataLen
  <2>3. got = Sizes
    BY <1>3, <2>1, <2>2, DataBack
  <2>4. \A k \in 1 .. 8 : Sizes[k] \in Byte
    BY <2>1, ElementOfSeq
  <2>5. \A k \in 1 .. 4 : SubSeq(Sizes, 1, 4)[k] = Pack(BlockNum)[k]
    <3>1. \A k \in 1 .. 4 - 1 + 1 : SubSeq(Sizes, 1, 4)[k] = Sizes[1 + k - 1]
      BY <2>4, SubSeqProperties
    <3>2. \A k \in 1 .. 4 : k \in 1 .. 4 - 1 + 1 /\ 1 + k - 1 = k
      OBVIOUS
    <3> QED
      BY <3>1, <3>2, SizesType
  <2>6. \A k \in 1 .. 4 : SubSeq(Sizes, 5, 8)[k] = Pack(BlockLen)[k]
    <3>1. \A k \in 1 .. 8 - 5 + 1 : SubSeq(Sizes, 5, 8)[k] = Sizes[5 + k - 1]
      BY <2>4, SubSeqProperties
    <3>2. \A k \in 1 .. 4 : k \in 1 .. 8 - 5 + 1 /\ 5 + k - 1 = k + 4
      OBVIOUS
    <3> QED
      BY <3>1, <3>2, SizesType
  <2>7. Packable(BlockNum) /\ Packable(BlockLen)
    BY DiskAssumption DEF Packable
  <2>8. Word(SubSeq(Sizes, 1, 4)) = BlockNum /\ Word(SubSeq(Sizes, 5, 8)) = BlockLen
    BY <2>5, <2>6, <2>7, WordBack
  <2> HIDE DEF got
  <2>9. \/ call.op = "num" /\ r' = BlockNum
        \/ call.op = "len" /\ r' = BlockLen
    BY <1>1, <1>3, <2>3, <2>8
  <2>10. BlockNum # DISK_FAILURE /\ BlockLen # DISK_FAILURE
    BY DiskAssumption DEF DISK_FAILURE
  <2> QED
    BY <1>1, <1>3, <2>9, <2>10 DEF BD!Succeed, BD!None, None
<1>4. CASE call.op = "rd" /\ call.a \in 0 .. BlockNum - 1 /\ fromDisk = AckOkay(blocks[call.a])
  <2>1. /\ blocks[call.a] \in Seq(Byte) /\ Len(blocks[call.a]) = BlockLen
        /\ Len(blocks[call.a]) > 0 /\ BlockLen \in Nat
    BY <1>2, <1>4, BlockType, BytesAreBytes, DiskAssumption
  <2>2. DataLen = BlockLen
    BY <1>2, <1>4, CallCases DEF DataLen, WholeBlocks
  <2>3. got = blocks[call.a]
    BY <1>4, <2>1, <2>2, DataBack
  <2> HIDE DEF got
  <2>4. r' = 0 /\ x' = blocks[call.a]
    BY <1>1, <1>4, <2>3 DEF DISK_SUCCESS
  <2> QED
    BY <1>1, <1>4, <2>4 DEF BD!Succeed, BD!None, None, DISK_FAILURE
<1>5. CASE call.op = "wr" /\ blocks[call.a] = call.data
  <2> HIDE DEF got
  <2>1. r' = 0 /\ x' = x
    BY <1>1, <1>5 DEF DISK_SUCCESS
  <2> QED
    BY <1>1, <1>5, <2>1 DEF BD!Succeed, BD!None, None, DISK_FAILURE
<1> QED
  BY <1>2, <1>3, <1>4, <1>5 DEF Succeeded, Sizes

\* Giving up: the third failure in a row, each with its reason.
LEMMA GivesUp ==
  ASSUME LineInv, WholeBlocks, ReadFail, pc' = "idle"
  PROVE  Refused \/ faults = DISK_RETRY
<1>1. /\ pc = "read" /\ fromDisk # <<>> /\ ~Acknowledged /\ i' = i + 1 /\ i' >= DISK_RETRY
  BY LongIsNotEmpty DEF ReadFail
<1>2. Failed
  BY <1>1, AnswerForms
<1>3. i \in Nat /\ i < DISK_RETRY
  BY <1>1 DEF LineInv, DiskTyped
<1> QED
  BY <1>1, <1>2, <1>3 DEF Failed, DISK_RETRY

\* The driver reports a failure only of a request that the disk cannot serve, or
\* after the image failed in all of its three tries: no answer is taken for another.
THEOREM FailuresHaveCause == WholeBlocks => (Spec => FailsForCause)
<1> SUFFICES ASSUME WholeBlocks PROVE Spec => FailsForCause
  OBVIOUS
<1>1. LineInv /\ [Next]_vars =>
        [r' = DISK_FAILURE /\ pc' = "idle" /\ pc # "idle"
           => \/ (call.op \in {"wr", "rd"} /\ call.a >= BlockNum)
              \/ (call.op = "wr" /\ Len(call.data) # BlockLen)
              \/ faults = DISK_RETRY]_vars
  <2> SUFFICES ASSUME LineInv, [Next]_vars, r' = DISK_FAILURE, pc' = "idle", pc # "idle"
               PROVE  Refused \/ faults = DISK_RETRY
    BY DEF Refused
  <2>1. ReadOkay \/ ReadFail
    BY DEF Next, vars, Begin, Driver, WriteRequest, Serve
  <2> QED
    BY <2>1, OkayIsSucceed, GivesUp
<1>2. Init => LineInv
  BY InitLine
<1>3. LineInv /\ [Next]_vars => LineInv'
  BY StepKeepsLine
<1> QED
  BY <1>1, <1>2, <1>3, PTL DEF Spec, FailsForCause

LEMMA ServeIsStore ==
  ASSUME LineInv, Serve
  PROVE  BD!Store \/ UNCHANGED BD!bvars
<1>1. UNCHANGED <<call, r, x>> /\ call \in Requests /\ DiskTyped /\ Outcome
  BY ServeTakes, ServeOutcome DEF LineInv
<1>2. CASE UNCHANGED blocks
  BY <1>1, <1>2 DEF BD!bvars
<1>3. CASE Written \/ Torn
  <2>1. call.op = "wr" /\ call.a \in 0 .. BlockNum - 1 /\ Len(call.data) = BlockLen
    BY <1>3 DEF Written, Torn, Faulty, Servable
  <2>2. /\ call.data \in Seq(Bytes)
        /\ blocks[call.a] \in Seq(Bytes) /\ Len(blocks[call.a]) = BlockLen
    BY <1>1, <2>1, CallCases, BlockType
  <2>3. call.a < BlockNum /\ BlockLen \in Nat \ {0}
    BY <2>1, DiskAssumption
  <2>4. ASSUME NEW k \in 1 .. BlockLen,
               blocks' = [blocks EXCEPT ![call.a] =
                            SubSeq(call.data, 1, k) \o SubSeq(blocks[call.a], k + 1, BlockLen)]
        PROVE  BD!Store
    BY <1>1, <2>1, <2>3, <2>4 DEF BD!Store
  <2>5. CASE Written
    <3>1. SubSeq(call.data, 1, BlockLen) \o SubSeq(blocks[call.a], BlockLen + 1, BlockLen)
            = call.data
      BY <2>1, <2>2, <2>3, TornBlock
    <3>2. BlockLen \in 1 .. BlockLen
      BY <2>3
    <3> QED
      BY <2>4, <2>5, <3>1, <3>2 DEF Written
  <2>6. CASE Torn
    <3>0. PICK k \in 0 .. BlockLen - 1 :
            blocks' = [blocks EXCEPT ![call.a] =
                         SubSeq(call.data, 1, k) \o SubSeq(blocks[call.a], k + 1, BlockLen)]
      BY <2>6 DEF Torn
    <3>1. CASE k = 0
      <4>1. 0 \in 0 .. BlockLen
        BY <2>3
      <4>2. SubSeq(call.data, 1, k) \o SubSeq(blocks[call.a], k + 1, BlockLen) = blocks[call.a]
        BY <2>1, <2>2, <3>1, <4>1, TornBlock
      <4>3. blocks' = blocks
        BY <1>1, <2>1, <3>0, <4>2 DEF DiskTyped
      <4> QED
        BY <1>2, <4>3
    <3>2. CASE k # 0
      <4>1. k \in 1 .. BlockLen
        BY <2>3, <3>2
      <4> QED
        BY <2>4, <3>0, <4>1
    <3> QED
      BY <3>1, <3>2
  <2> QED
    BY <1>3, <2>5, <2>6
<1> QED
  BY <1>1, <1>2, <1>3 DEF Outcome, Died, Refuses, ReadOut, Told

LEMMA StepIsBlockStep ==
  ASSUME LineInv, WholeBlocks, [Next]_vars
  PROVE  [BD!Next]_BD!bvars
<1>1. CASE Begin
  BY <1>1 DEF Begin, LineInv, DiskTyped, BD!Next, BD!Begin, BD!None, None
<1>2. CASE WriteRequest
  BY <1>2 DEF WriteRequest, BD!bvars
<1>3. CASE ReadOkay
  BY <1>3, OkayIsSucceed DEF BD!Next
<1>4. CASE ReadFail
  <2>1. call # None
    <3>1. call \in Requests
      BY <1>4 DEF ReadFail, LineInv, DiskTyped
    <3>2. call.op # "none"
      BY <3>1, CallCases
    <3> QED
      BY <3>2 DEF None
  <2>2. UNCHANGED <<blocks, x>> /\ ((call' = None /\ r' = -1) \/ UNCHANGED <<call, r>>)
    BY <1>4 DEF ReadFail, DISK_FAILURE
  <2> QED
    BY <2>1, <2>2 DEF BD!Next, BD!Fail, BD!None, None, BD!bvars
<1>5. CASE Serve
  BY <1>5, ServeIsStore DEF BD!Next
<1>6. CASE UNCHANGED vars
  BY <1>6 DEF vars, BD!bvars
<1> QED
  BY <1>1, <1>2, <1>3, <1>4, <1>5, <1>6 DEF Next, Driver

\* The driver, the line and the server are a block device, whatever the image
\* does to their reads and writes: a write that succeeded is on the disk, a read
\* returns the block, and the sizes arrive.
THEOREM DiskImplementsBlockDevice == WholeBlocks => (Spec => ImplementsBlockDevice)
<1> SUFFICES ASSUME WholeBlocks PROVE Spec => ImplementsBlockDevice
  OBVIOUS
<1>1. Init => BD!Init
  BY DEF Init, BD!Init, None, BD!None, DISK_SUCCESS
<1>2. Init => LineInv
  BY InitLine
<1>3. LineInv /\ [Next]_vars => LineInv'
  BY StepKeepsLine
<1>4. LineInv /\ [Next]_vars => [BD!Next]_BD!bvars
  BY StepIsBlockStep
<1> QED
  BY <1>1, <1>2, <1>3, <1>4, PTL DEF Spec, ImplementsBlockDevice, BD!Spec
=============================================================================
