---------------------------- MODULE MCNitroPayload ----------------------------
(* Small instances of the payload formats: words of a few values, a signature  *)
(* of two cells, bodies of one or two.                                         *)
EXTENDS NitroPayload

MCV1Header == <<0, 1, 1>>
MCRLPBodies == {<<1>>, <<2>>, <<2, 1>>}

(* L1 messages with headers of one cell, and a text that keeps them apart. *)
L1(header, baseFee, l2msg, stats) ==
  [header |-> <<header>>, requestId |-> <<>>, baseFee |-> baseFee, l2msg |-> l2msg, stats |-> stats]

Text(l1) ==
  l1.header \o <<Len(l1.baseFee)>> \o l1.baseFee \o <<Len(l1.l2msg)>> \o l1.l2msg \o l1.stats

X == L1(7, <<1>>, <<2>>, <<>>)
Y == L1(8, <<1>>, <<3>>, <<>>)
YWithStats == L1(8, <<1>>, <<3>>, <<9>>)
YShifted == L1(8, <<>>, <<1, 3>>, <<>>)
XAsV2 == L1(7, <<>>, Tail(Text(X)), <<>>)

MCRLPOf == [l1 \in {X, Y, YWithStats, YShifted, XAsV2} |-> Text(l1)]

(* Messages with a block hash or without, the signatures of key for chain, and *)
(* what is on the feed.                                                        *)
Msg(seq, l1, blockHash) ==
  [seq |-> seq, delayed |-> 0, l1 |-> l1, blockHash |-> blockHash, blockMetadata |-> <<>>]
Sig(key, v2, chain, m) == [key |-> key, v2 |-> v2, chain |-> chain, over |-> m]
Feed(m, s, s2) == m @@ [signature |-> s, signatureV2 |-> s2]

X1 == Msg(1, X, <<>>)
Y2 == Msg(2, Y, <<4>>)
Y3 == Msg(3, Y, <<5>>)
SigY2 == Sig("P", TRUE, ChainID, Y2)

(* In order: signed the old way, the new way, and both; the first one under    *)
(* another number; the second one with another block hash; a key that is not   *)
(* valid; no signature; no message; the second one with stats, and with the    *)
(* base fee moved into the L2 message; one signed for another chain; and one   *)
(* of another chain whose number is ChainID, signed the old way, as a message  *)
(* of the new kind.                                                            *)
MCFeedMessage ==
     <<1>> :> Feed(X1, Sig("P", FALSE, ChainID, X1), NoSignature)
  @@ <<2>> :> Feed(Y2, NoSignature, SigY2)
  @@ <<2, 1>> :> Feed(Y3, Sig("P", FALSE, ChainID, Y3), Sig("P", TRUE, ChainID, Y3))
  @@ <<4>> :> Feed([X1 EXCEPT !.seq = 2], Sig("P", FALSE, ChainID, X1), NoSignature)
  @@ <<5>> :> Feed([Y2 EXCEPT !.blockHash = <<6>>], NoSignature, SigY2)
  @@ <<6>> :> Feed(X1, NoSignature, Sig("U", TRUE, ChainID, X1))
  @@ <<7>> :> Feed(X1, NoSignature, NoSignature)
  @@ <<8>> :> Feed(Msg(2, NoMessage, <<>>), NoSignature, SigY2)
  @@ <<9>> :> Feed([Y2 EXCEPT !.l1 = YWithStats], NoSignature, SigY2)
  @@ <<10>> :> Feed([Y2 EXCEPT !.l1 = YShifted], NoSignature, SigY2)
  @@ <<11>> :> Feed(Y3, NoSignature, Sig("P", TRUE, ChainID + 1, Y3))
  @@ <<12>> :> Feed(Msg(9, XAsV2, <<>>), NoSignature, Sig("P", FALSE, 9, Msg(ChainID, X, <<>>)))

MCFeedLists == SeqOf(DOMAIN MCFeedMessage, 2) \cup {<<<<1>>, <<4>>, <<2>>, <<2, 1>>>>}

MCMsgPositions == <<3, 1, 2, 4>>
MCMsgBytes == [p \in 1..4 |-> CASE p = 1 -> <<>> [] p = 2 -> <<2, 1>> [] p = 3 -> <<1>> [] p = 4 -> <<2>>]
MCQuotes == {<<1, 2>>, <<1>>, <<2, 2, 2, 2>>}

(* For the parser: every short payload behind each beginning. *)
MCPayloads ==
  LET heads == {<<>>, <<2>>, <<2, 0>>, <<2, 1, 1>>, <<3, 0>>, <<3, 0, 1, 1>>}
  IN  {h \o r : h \in heads, r \in SeqOf({0, 1, 2, MaxWord - 1, MaxWord}, 4)}
==============================================================================
