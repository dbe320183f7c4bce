--------------------------- MODULE MCBatchStreamer ---------------------------
EXTENDS BatchStreamer

Rec(n, h, p, o, oh, s) ==
  [number |-> n, hash |-> h, parent |-> p, origin |-> o, originHash |-> oh, signer |-> s]

(* Number 1: two rival blocks, one of them on a reorged L1 block.  Number 2:   *)
(* two forks.  Number 3: one block.  All signed by the authorized batcher; u1  *)
(* is a block of number 1 signed by another key, z1 one whose origin has no    *)
(* authorized batcher.                                                         *)
a1 == Rec(1, "a1", "g", 1, "x1", "A")
r1 == Rec(1, "r1", "g", 2, "y2", "A")
u1 == Rec(1, "u1", "g", 1, "x1", "U")
z1 == Rec(1, "z1", "g", 0, "x0", "A")
a2 == Rec(2, "a2", "a1", 1, "x1", "A")
b2 == Rec(2, "b2", "r1", 2, "x2", "A")
a3 == Rec(3, "a3", "a2", 2, "x2", "A")

MCBatch == {a1, r1, u1, z1, a2, b2, a3}
MCL1Hash == [n \in 0..2 |-> CASE n = 0 -> "x0" [] n = 1 -> "x1" [] n = 2 -> "x2"]
MCBatcherAt == [n \in 0..2 |-> IF n = 0 THEN ZeroAddress ELSE "A"]

At(block, b) == [block |-> block, tx |-> b]

(* The batcher changes from A to B at L1 block 2: c2 and c3 are B's.  s1 and   *)
(* s2 are copies of a1 and a2 under another key, with their hash.              *)
c2 == Rec(2, "c2", "a1", 2, "x2", "B")
c3 == Rec(3, "c3", "a2", 2, "x2", "B")
s1 == Rec(1, "a1", "g", 1, "x1", "U")
s2 == Rec(2, "a2", "a1", 2, "x2", "U")
MCRotationBatch == MCBatch \cup {c2, c3, s1, s2}
MCRotationBatcherAt == [n \in 0..2 |-> CASE n = 0 -> ZeroAddress [] n = 1 -> "A" [] n = 2 -> "B"]

MCHistories == {
  <<At(0, a2), At(1, r1), At(2, a1), At(2, a2), At(3, c3), At(3, Undecodable)>>,
  <<At(1, c3), At(1, b2), At(1, a2), At(2, s1), At(2, a1), At(3, c2), At(3, z1)>>,
  <<At(1, u1), At(1, s2), At(1, a1), At(2, c2), At(2, a2), At(3, c3)>> }

(* One valid batch per number, out of order, with a repeat; each of the first  *)
(* three numbers is there.  In the third the last two blocks are empty.        *)
MCLiveHistories == {
  <<At(0, a3), At(1, a2), At(1, a1), At(1, u1), At(2, a3), At(3, Undecodable)>>,
  <<At(1, a2), At(1, a3), At(1, b2), At(2, a2), At(3, a1)>>,
  <<At(1, a3), At(1, a2), At(1, a1)>> }

(* The reorged batch r1 is the head while the buffer is full of later batches  *)
(* and the valid batch of number 1 is turned away.                             *)
MCStuckHistories == {<<At(1, r1), At(1, a2), At(2, a1)>>}

MCOnceHistories == {<<At(1, a1), At(1, a2), At(2, b2)>>}

(* The rival r1 of number 1 is still buffered when number 2 is due, with two   *)
(* batches of another fork before the one on a1.                               *)
d2 == Rec(2, "d2", "r1", 2, "x2", "A")
MCForkBatch == MCBatch \cup {d2}
MCForkHistories == {<<At(1, a1), At(1, r1), At(2, b2), At(2, d2), At(2, a2)>>}

(* The batch of origin 2 is committed before that block is final. *)
MCRotationHistories == {<<At(1, a1), At(1, c2)>>}

(* The copy under another key comes before the batch itself. *)
MCCopyHistories == {<<At(1, s1), At(1, a1)>>}
==============================================================================
