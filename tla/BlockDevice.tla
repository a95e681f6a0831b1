---------------------------- MODULE BlockDevice ----------------------------
(***************************************************************************)
(* What device/disk.h promises of the emulated disk: blocks that only a    *)
(* write changes, and calls that end in success or in failure.  No line,   *)
(* no messages, no repetition.                                             *)
(***************************************************************************)
EXTENDS Integers, Sequences

CONSTANTS BlockNum, BlockLen, Requests, Bytes

VARIABLES
  blocks,   \* blocks[a]: the bytes of block a
  pending,  \* the call in progress, or the call "none"
  r, x      \* what the last call returned, and what a read put in its buffer

bvars == <<blocks, pending, r, x>>

None == [op |-> "none", a |-> 0, data |-> <<>>, n |-> 0]

Init ==
  /\ blocks \in [0 .. BlockNum - 1 -> [1 .. BlockLen -> Bytes]]
  /\ pending = None /\ r = 0 /\ x = <<>>

Begin ==
  /\ pending = None
  /\ pending' \in Requests
  /\ UNCHANGED <<blocks, r, x>>

\* A write may change its block before it ends, and only from the front.
Store ==
  /\ pending.op = "wr" /\ pending.a < BlockNum /\ Len(pending.data) = BlockLen
  /\ \E k \in 1 .. BlockLen :
       blocks' = [blocks EXCEPT ![pending.a] =
                    SubSeq(pending.data, 1, k) \o SubSeq(@, k + 1, BlockLen)]
  /\ UNCHANGED <<pending, r, x>>

Fail == pending # None /\ pending' = None /\ r' = -1 /\ UNCHANGED <<blocks, x>>

Succeed ==
  /\ pending' = None
  /\ UNCHANGED blocks
  /\ \/ pending.op = "wr" /\ blocks[pending.a] = pending.data /\ r' = 0 /\ x' = x
     \/ pending.op = "rd" /\ r' = 0 /\ x' = blocks[pending.a]
     \/ pending.op = "num" /\ r' = BlockNum /\ x' = x
     \/ pending.op = "len" /\ r' = BlockLen /\ x' = x

Next == Begin \/ Store \/ Fail \/ Succeed

Spec == Init /\ [][Next]_bvars
=============================================================================
