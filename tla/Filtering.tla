------------------------------ MODULE Filtering ------------------------------
(* The loop that copies what passes a test: SelectSeq, with the test given as  *)
(* the set of what passes it, which is what proofs can reason about.           *)
EXTENDS Integers, Sequences

(* kept[i] is the copy after i rounds of the loop. *)
Filter(s, S) ==
  LET kept[i \in 0..Len(s)] ==
        IF i = 0 THEN <<>>
        ELSE IF s[i] \in S THEN Append(kept[i - 1], s[i]) ELSE kept[i - 1]
  IN  kept[Len(s)]
==============================================================================
