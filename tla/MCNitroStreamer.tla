--------------------------- MODULE MCNitroStreamer ---------------------------
EXTENDS NitroStreamer

Msg(p, s) == [pos |-> p, signer |-> s]
At(block, ms) == [block |-> block, messages |-> ms]

(* A is always valid, B from L1 block 2 on, D at L1 block 0 only, C never: B   *)
(* counts in block 3 whatever is read with it, and so does D in block 0.       *)
MCRanges == {[address |-> "A", from |-> 0, to |-> 9], [address |-> "B", from |-> 2, to |-> 9],
             [address |-> "D", from |-> 0, to |-> 0]}
MCL1Finalized == [b \in 0..3 |-> IF b = 0 THEN 0 ELSE b - 1]

(* Positions out of order, rival messages for one position, signers whose      *)
(* validity changes, a transaction that cannot be parsed.                      *)
MCHistories == {
  <<At(0, <<Msg(2, "A"), Msg(3, "A")>>), At(1, <<Msg(1, "A")>>), At(2, <<Msg(2, "A"), Msg(1, "B")>>),
    At(3, <<Msg(3, "C"), Msg(4, "B")>>)>>,
  <<At(0, <<Msg(1, "B"), Msg(4, "D")>>), At(1, <<Msg(3, "A")>>), At(2, <<Msg(1, "A"), Msg(2, "A")>>),
    At(2, <<>>), At(2, <<Msg(4, "D")>>), At(3, <<Msg(2, "A"), Msg(4, "A")>>)>> }
==============================================================================
