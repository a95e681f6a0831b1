-------------------------------- MODULE Disk --------------------------------
(***************************************************************************)
(* The emulated disk: the driver device/disk.c and the server disk.py at   *)
(* the two ends of a serial line (UART2 and a socket).  The driver writes  *)
(* a request, waits for the answer, and repeats the request up to          *)
(* DISK_RETRY times.  It reads as many characters as it expects: nothing   *)
(* but their number keeps the two ends in step.                            *)
(*                                                                         *)
(* A character is a hexadecimal digit, 0 .. 15, a space or an end of line. *)
(* Requests, always well formed, are kept as the fields the server finds.  *)
(***************************************************************************)
EXTENDS Integers, Sequences

CONSTANTS
  BlockNum, BlockLen,  \* the size of the disk (65536 blocks of 16 bytes)
  SignBit,             \* the weight of an address's sign bit (2^31)
  Addresses,           \* the addresses asked for
  Bytes,               \* the bytes in blocks
  WrLens, RdLens,      \* the lengths n that disk_wr and disk_rd are called with
  MaxFaults            \* bound of the model: short reads and writes of the image, per call

ASSUME DiskAssumption ==
  /\ BlockNum \in Nat \ {0} /\ BlockLen \in Nat \ {0} /\ SignBit \in Nat \ {0}
  /\ BlockNum \div 256 ^ 3 < 128 /\ BlockLen \div 256 ^ 3 < 128  \* struct.pack's '<l'
  /\ Addresses \subseteq 0 .. 2 * SignBit - 1 /\ Bytes \subseteq 0 .. 255
  /\ WrLens \subseteq Nat /\ RdLens \subseteq Nat /\ MaxFaults \in Nat

VARIABLES
  blocks,    \* the disk image
  serving,   \* the server runs
  call,      \* the driver's function and its arguments
  pc, i,     \* where the driver is, and its loop counter
  toDisk,    \* the request on the line, if any
  fromDisk,  \* the characters on the line to the driver
  r, x,      \* the last result, and the buffer of the last read
  faults     \* the faults of the image during the call

vars == <<blocks, serving, call, pc, i, toDisk, fromDisk, r, x, faults>>

SP == 16
NL == 17
DISK_RETRY   == 3
DISK_SUCCESS == 0
DISK_FAILURE == -1

\* Idle, with no arguments.
None == [op |-> "none", a |-> 0, data |-> <<>>, n |-> 0]

Requests ==
  [op : {"num", "len"}, a : {0}, data : {<<>>}, n : {0}]
    \cup [op : {"wr"}, a : Addresses, data : UNION {[1 .. n -> Bytes] : n \in WrLens}, n : {0}]
    \cup [op : {"rd"}, a : Addresses, data : {<<>>}, n : RdLens]

Init ==
  /\ blocks \in [0 .. BlockNum - 1 -> [1 .. BlockLen -> Bytes]]
  /\ serving = TRUE
  /\ call = None /\ pc = "idle" /\ i = 0
  /\ toDisk = <<>> /\ fromDisk = <<>>
  /\ r = DISK_SUCCESS /\ x = <<>> /\ faults = 0

(***************************************************************************)
(* The server, disk.py.                                                    *)
(***************************************************************************)
\* hexlify: two digits a byte.
Hex(b) == [k \in 1 .. 2 * Len(b) |-> IF k % 2 = 1 THEN b[(k + 1) \div 2] \div 16
                                                  ELSE b[k \div 2] % 16]

AckOkay(b) == <<0, 0>> \o (IF b = <<>> THEN <<>> ELSE <<SP>> \o Hex(b)) \o <<NL>>
AckFail    == <<0, 1, NL>>

\* struct.pack( '<l', n ).
Pack(n) == [k \in 1 .. 4 |-> (n \div 256 ^ (k - 1)) % 256]

\* struct.unpack( '<l', ... ) of an address the driver sent as an unsigned word.
Unpack(a) == IF a < SignBit THEN a ELSE a - 2 * SignBit

Answer(ack) == fromDisk' = fromDisk \o ack /\ UNCHANGED serving

\* An exception ends the server: lseek to a negative position, no req[ 2 ].
Dies == serving' = FALSE /\ UNCHANGED <<blocks, fromDisk, faults>>

\* A fault of the image: os.read or os.write moves fewer bytes than asked for.
Fault == faults < MaxFaults /\ faults' = faults + 1

conf ==
  /\ Answer(AckOkay(Pack(BlockNum) \o Pack(BlockLen)))
  /\ UNCHANGED <<blocks, faults>>

\* Mutant of wr: the length of the data is not looked at.
wr_AnyLength(req) ==
  LET address == Unpack(req.a) IN
  \/ address >= BlockNum /\ Answer(AckFail) /\ UNCHANGED <<blocks, faults>>
  \/ /\ address \in 0 .. BlockNum - 1
     /\ blocks' = [blocks EXCEPT ![address] =
          [k \in 1 .. BlockLen |-> IF k <= Len(req.data) THEN req.data[k] ELSE @[k]]]
     /\ Answer(AckOkay(<<>>)) /\ UNCHANGED faults

wr(req) ==
  LET address == Unpack(req.a) IN
  \/ req.data = <<>> /\ Dies
  \/ /\ req.data # <<>>
     /\ address >= BlockNum \/ Len(req.data) # BlockLen
     /\ Answer(AckFail) /\ UNCHANGED <<blocks, faults>>
  \/ address < 0 /\ Len(req.data) = BlockLen /\ Dies
  \/ /\ address \in 0 .. BlockNum - 1 /\ Len(req.data) = BlockLen
     /\ \/ /\ blocks' = [blocks EXCEPT ![address] = req.data]
           /\ Answer(AckOkay(<<>>)) /\ UNCHANGED faults
        \/ /\ \E k \in 0 .. BlockLen - 1 :
                blocks' = [blocks EXCEPT ![address] =
                             SubSeq(req.data, 1, k) \o SubSeq(@, k + 1, BlockLen)]
           /\ Answer(AckFail) /\ Fault

rd(req) ==
  LET address == Unpack(req.a) IN
  /\ UNCHANGED blocks
  /\ \/ address >= BlockNum /\ Answer(AckFail) /\ UNCHANGED faults
     \/ address < 0 /\ Dies
     \/ /\ address \in 0 .. BlockNum - 1
        /\ \/ Answer(AckOkay(blocks[address])) /\ UNCHANGED faults
           \/ Answer(AckFail) /\ Fault

Serve ==
  /\ serving /\ toDisk # <<>>
  /\ LET req == Head(toDisk) IN
     \/ req.op \in {"num", "len"} /\ conf
     \/ req.op = "wr" /\ wr(req)
     \/ req.op = "rd" /\ rd(req)
  /\ toDisk' = Tail(toDisk)
  /\ UNCHANGED <<call, pc, i, r, x>>

(***************************************************************************)
(* The driver, disk.c over PL011.c.                                        *)
(***************************************************************************)
Begin ==
  /\ pc = "idle"
  /\ call' \in Requests /\ pc' = "write" /\ i' = 0 /\ faults' = 0
  /\ UNCHANGED <<blocks, serving, toDisk, fromDisk, r, x>>

WriteRequest ==
  /\ pc = "write"
  /\ toDisk' = Append(toDisk, call) /\ pc' = "read"
  /\ UNCHANGED <<blocks, serving, call, i, fromDisk, r, x, faults>>

\* xtoi, then PL011_geth of two characters into a byte.
xtoi(c) == IF c \in 0 .. 15 THEN c ELSE -1

geth(c, d) ==
  IF xtoi(d) = -1 THEN 255 ELSE (IF xtoi(c) = -1 THEN 240 ELSE 16 * xtoi(c)) + xtoi(d)

\* data_geth: n bytes from the characters behind the acknowledgement, a space.
data_geth(n) == [k \in 1 .. n |-> geth(fromDisk[2 * k + 2], fromDisk[2 * k + 3])]

\* The number of data bytes the function expects in the answer, and the characters.
DataLen == CASE call.op \in {"num", "len"} -> 8 [] call.op = "rd" -> call.n [] OTHER -> 0

OkayLen == IF call.op = "wr" THEN 3 ELSE 2 + 1 + 2 * DataLen + 1

\* The four bytes of a word, least significant first.
Word(b) == b[1] + 256 * (b[2] + 256 * (b[3] + 256 * b[4]))

Acknowledged == geth(fromDisk[1], fromDisk[2]) = 0

\* read command: 0 ends the call with success.
ReadOkay ==
  /\ pc = "read" /\ Len(fromDisk) >= 2 /\ Acknowledged /\ Len(fromDisk) >= OkayLen
  /\ LET got == data_geth(DataLen) IN
     /\ r' = CASE call.op = "num" -> Word(SubSeq(got, 1, 4))
               [] call.op = "len" -> Word(SubSeq(got, 5, 8))
               [] OTHER -> DISK_SUCCESS
     /\ x' = IF call.op = "rd" THEN got ELSE x
  /\ fromDisk' = SubSeq(fromDisk, OkayLen + 1, Len(fromDisk))
  /\ pc' = "idle" /\ call' = None
  /\ UNCHANGED <<blocks, serving, i, toDisk, faults>>

\* Mutants of ReadFail: the end of line is not read; the last try is not made.
ReadFail_NoEOL ==
  /\ pc = "read" /\ Len(fromDisk) >= 3 /\ ~Acknowledged
  /\ fromDisk' = SubSeq(fromDisk, 3, Len(fromDisk))
  /\ i' = i + 1
  /\ \/ i' < DISK_RETRY /\ pc' = "write" /\ UNCHANGED <<call, r>>
     \/ i' >= DISK_RETRY /\ pc' = "idle" /\ call' = None /\ r' = DISK_FAILURE
  /\ UNCHANGED <<blocks, serving, toDisk, x, faults>>
ReadFail_OneLess ==
  /\ pc = "read" /\ Len(fromDisk) >= 3 /\ ~Acknowledged
  /\ fromDisk' = SubSeq(fromDisk, 4, Len(fromDisk))
  /\ i' = i + 1
  /\ \/ i' < DISK_RETRY - 1 /\ pc' = "write" /\ UNCHANGED <<call, r>>
     \/ i' >= DISK_RETRY - 1 /\ pc' = "idle" /\ call' = None /\ r' = DISK_FAILURE
  /\ UNCHANGED <<blocks, serving, toDisk, x, faults>>
ReadFail_NoCount ==
  /\ pc = "read" /\ Len(fromDisk) >= 3 /\ ~Acknowledged
  /\ fromDisk' = SubSeq(fromDisk, 4, Len(fromDisk))
  /\ pc' = "write"
  /\ UNCHANGED <<blocks, serving, call, i, r, toDisk, x, faults>>

\* Anything else: read EOL, and try again or give up.
ReadFail ==
  /\ pc = "read" /\ Len(fromDisk) >= 3 /\ ~Acknowledged
  /\ fromDisk' = SubSeq(fromDisk, 4, Len(fromDisk))
  /\ i' = i + 1
  /\ \/ i' < DISK_RETRY /\ pc' = "write" /\ UNCHANGED <<call, r>>
     \/ i' >= DISK_RETRY /\ pc' = "idle" /\ call' = None /\ r' = DISK_FAILURE
  /\ UNCHANGED <<blocks, serving, toDisk, x, faults>>

Driver == WriteRequest \/ ReadOkay \/ ReadFail

Next == Begin \/ Driver \/ Serve

Spec == Init /\ [][Next]_vars

\* The driver, once called, and the server keep running.
Fairness == WF_vars(Driver) /\ WF_vars(Serve)

FairSpec == Spec /\ Fairness

-----------------------------------------------------------------------------
\* Between calls the line is silent: an answer left over would be taken for the
\* answer to the next request, and every later one with it.
InStep == pc = "idle" => toDisk = <<>> /\ fromDisk = <<>>

\* The driver gives up only on a request that the disk cannot serve, or after the
\* image failed at every one of its three tries.
FailsForCause ==
  [][r' = DISK_FAILURE /\ pc' = "idle" /\ pc # "idle"
       => \/ (call.op \in {"wr", "rd"} /\ call.a >= BlockNum)
          \/ (call.op = "wr" /\ Len(call.data) # BlockLen)
          \/ faults = DISK_RETRY]_vars

\* Every call returns, whatever the server answers; only an address with the sign
\* bit, or a write of nothing, ends the server and leaves the driver waiting.
EveryCallReturns ==
  pc # "idle" ~> \/ pc = "idle"
                 \/ /\ ~serving
                    /\ (Unpack(call.a) < 0 \/ (call.op = "wr" /\ call.data = <<>>))

(***************************************************************************)
(* The driver, the line and the server implement BlockDevice.              *)
(***************************************************************************)
BD == INSTANCE BlockDevice WITH pending <- call

\* A write that succeeded is on the disk although it may have been made again
\* over a torn one, a read returns the block, failed calls touch no other block,
\* and the sizes arrive as they were packed.
ImplementsBlockDevice == BD!Spec
=============================================================================
