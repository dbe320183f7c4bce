---------------------------- MODULE MCBatchBuffer ----------------------------
(* Five batches: numbers 1 and 3 with one batch each, number 2 with three. *)
EXTENDS BatchBufferSpec

Rec(n, h) == [number |-> n, hash |-> h]

MCBatch == {Rec(1, "a1"), Rec(2, "a2"), Rec(2, "b2"), Rec(2, "c2"), Rec(3, "a3")}
==============================================================================
