----------------------------- MODULE BatchBuffer -----------------------------
(* The sorted batch buffer of op/batch_buffer.go: what slices.BinarySearchFunc *)
(* finds under the comparison Insert passes it, and what Insert does with the  *)
(* answer.  A batch is a record whose fields are the answers of the Batch      *)
(* interface; here only number and hash matter.  A buffer is a sequence.       *)
EXTENDS Integers, Sequences

CONSTANTS
  Batch,      \* the batches that can be decoded from a HotShot transaction
  Capacity    \* BatchBuffer.capacity

(* The hash covers the block header, so it fixes the block number. *)
ASSUME BatchAssumption ==
  \A a, b \in Batch : /\ a.number \in Nat
                      /\ a.hash = b.hash => a.number = b.number

ASSUME CapacityAssumption == Capacity \in Nat

------------------------------------------------------------------------------
(* Variants the model-checking runs must reject: a newcomer goes in front of   *)
(* its number; the hash is never compared; one batch too many is let in; the   *)
(* insertion point is ignored.                                                 *)
CmpNewFirst(a, t) ==
  IF a.hash = t.hash THEN 0 ELSE IF a.number >= t.number THEN 1 ELSE -1

CmpNoHash(a, t) == IF a.number > t.number THEN 1 ELSE -1

AtCapacityLate(buf) == Len(buf) > Capacity

InsertAtEnd(buf, p, t) == Append(buf, t)

(* The comparison closure: an equal hash stops the search; another batch of   *)
(* the same number counts as smaller, so that a newcomer goes behind it.      *)
Cmp(a, t) ==
  IF a.hash = t.hash THEN 0 ELSE IF a.number > t.number THEN 1 ELSE -1

(* A round of the loop of slices.BinarySearchFunc: the candidates are the      *)
(* (0-based) positions from w.i up to w.j.                                     *)
Narrow(buf, t, w) ==
  LET h == (w.i + w.j) \div 2
  IN  IF w.i >= w.j THEN w
      ELSE IF Cmp(buf[h + 1], t) < 0 THEN [i |-> h + 1, j |-> w.j] ELSE [i |-> w.i, j |-> h]

(* The loop.  Every round drops a candidate: it needs no more than Len(buf). *)
SearchPos(buf, t) ==
  LET window[r \in 0..Len(buf)] ==
        IF r = 0 THEN [i |-> 0, j |-> Len(buf)] ELSE Narrow(buf, t, window[r - 1])
  IN  window[Len(buf)].i

(* The search's second result: does it end on an element equal to t? *)
AlreadyExists(buf, t) ==
  \E k \in 1..Len(buf) : k = SearchPos(buf, t) + 1 /\ Cmp(buf[k], t) = 0

(* Where a search that does not end on an equal element should end: behind    *)
(* every batch whose number is not larger.  SearchAgrees of BatchBufferSpec    *)
(* states that it does, on every buffer Insert can build.                      *)
InsertPoints(buf, t) ==
  {p \in 0..Len(buf) : /\ \A i \in 1..p : buf[i].number <= t.number
                       /\ \A i \in (p + 1)..Len(buf) : buf[i].number > t.number}

(* slices.Insert(buf, p, t) *)
InsertAt(buf, p, t) == SubSeq(buf, 1, p) \o <<t>> \o SubSeq(buf, p + 1, Len(buf))

AtCapacity(buf) == Len(buf) >= Capacity

SortedByNumber(buf) ==
  \A i, j \in 1..Len(buf) : i < j => buf[i].number <= buf[j].number
==============================================================================
