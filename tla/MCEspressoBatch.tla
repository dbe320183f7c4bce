--------------------------- MODULE MCEspressoBatch ---------------------------
EXTENDS EspressoBatch

Tx(type, id, info) == [type |-> type, id |-> id, info |-> info]

(* Two L1 info deposits of one L1 block number, a deposit of another kind, a   *)
(* deposit whose data cannot be parsed, and transactions of users.             *)
d1 == Tx("deposit", "d1", <<1, "x1">>)
d2 == Tx("deposit", "d2", <<1, "y1">>)
ud == Tx("deposit", "ud", None)
u1 == Tx("user", "u1", None)
u2 == Tx("user", "u2", None)

Block(n, txs) ==
  [header |-> [number |-> n, parent |-> "p", time |-> n, txHash |-> txs], txs |-> txs]

(* A block with two transactions, one with none, one on another L1 block; one  *)
(* with a user's deposit; and three that cannot be packed.                     *)
MCPlainBlocks == {Block(1, <<d1, u1, u2>>), Block(2, <<d1>>), Block(1, <<d2, u1>>)}
MCBlocks ==
  MCPlainBlocks \cup {Block(2, <<d1, ud, u1>>), Block(1, <<>>), Block(1, <<u1, d1>>), Block(1, <<ud>>)}

Good ==
  [header |-> Block(1, <<d1, u1, u2>>).header,
   batch |-> [parent |-> "p", time |-> 1, epoch |-> <<1, "x1">>, txs |-> <<u1, u2>>],
   deposit |-> d1, signer |-> ZeroAddress]

(* The batch of a block with one thing wrong each. *)
MCForeignData ==
  {Good, Garbage,
   [Good EXCEPT !.header = None], [Good EXCEPT !.header.number = None],
   [Good EXCEPT !.header.number = MaxWord + 2],
   [Good EXCEPT !.deposit = None], [Good EXCEPT !.deposit = u1], [Good EXCEPT !.deposit = ud],
   [Good EXCEPT !.deposit = d2],
   [Good EXCEPT !.batch.parent = "q"], [Good EXCEPT !.batch.time = 2],
   [Good EXCEPT !.batch.epoch = <<1, "y1">>],
   [Good EXCEPT !.batch.txs = <<u2>>], [Good EXCEPT !.batch.txs = <<u1, Garbage>>],
   [Good EXCEPT !.batch.txs = <<ud, u1>>],
   [Good EXCEPT !.signer = "A"]}

MCForeign ==
  {[signature |-> None, data |-> Good]}
    \cup {[signature |-> [key |-> "F", over |-> d], data |-> d] : d \in MCForeignData}
==============================================================================
