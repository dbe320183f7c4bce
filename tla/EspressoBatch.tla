---------------------------- MODULE EspressoBatch ----------------------------
(* EspressoBatch of op/derivation/espresso_batch.go: the way of an L2 block    *)
(* from the batcher (BlockToEspressoBatch, ToEspressoTransaction) through      *)
(* HotShot to the derivation (UnmarshalEspressoTransaction, ToBlock).          *)
(*                                                                             *)
(* Encoding is kept apart from its bytes: what is encoded is the record, and   *)
(* Garbage is what does not decode.  A hash is what it covers, so a header's   *)
(* TxHash is the sequence of the transactions.                                 *)
EXTENDS Filtering, Functions

CONSTANTS
  Blocks,      \* L2 blocks of the batcher, [header, txs]
  Foreign,     \* payloads of other writers to the namespace, with their signatures
  ForeignData, \* what other writers may put behind a batcher's signature
  Keys,        \* keys of batchers
  MaxWord,     \* math.MaxUint64
  MaxRounds,   \* bound: transactions that are followed
  None, Garbage, ZeroAddress, Stranger

IsSeq(s) == s \in Seq(Range(s))

(* EspressoBatch and the SingularBatch in it *)
IsBatch(b) ==
  /\ b = [header |-> b.header, batch |-> b.batch, deposit |-> b.deposit, signer |-> b.signer]
  /\ b.batch = [parent |-> b.batch.parent, time |-> b.batch.time, epoch |-> b.batch.epoch,
                txs |-> b.batch.txs]
  /\ IsSeq(b.batch.txs)

ASSUME EspressoAssumption ==
  /\ MaxWord \in Nat /\ MaxRounds \in Nat
  /\ ZeroAddress \notin Keys /\ Stranger \notin Keys
  /\ \A d \in (ForeignData \cup {p.data : p \in Foreign}) \ {Garbage} :
       /\ IsBatch(d)
       /\ d.header # None => d.header.number \in Nat \cup {None}
  /\ \A p \in Foreign : p.signature = None \/ p.signature.key \notin Keys
  /\ \A b \in Blocks :
       /\ b # None /\ b.header # None
       /\ b.header.number \in (0..MaxWord) \ {None} /\ b.header.txHash = b.txs
       /\ IsSeq(b.txs) /\ \A i \in DOMAIN b.txs : b.txs[i] \notin {None, Garbage}

VARIABLES
  stage,      \* where the transaction is
  block,      \* the batcher's block, None once another writer has its hand in
  batch,      \* EspressoBatch of the batcher
  payload,    \* espressoCommon.Transaction.Payload
  decoded,    \* EspressoBatch of the derivation
  result,     \* the block ToBlock makes
  signed,     \* history: what each key has signed, [key, data]
  seen,       \* history: the batches that were decoded, as the streamer meets them
  rounds

vars == <<stage, block, batch, payload, decoded, result, signed, seen, rounds>>

------------------------------------------------------------------------------
(* EspressoBatch's methods *)
Number(b) == b.header.number % (MaxWord + 1)

(* Variant the runs must reject: of the header only the number is covered. *)
HashOfNumber(b) == <<b.header.number, b.deposit>>

Hash(b) == <<b.header, b.deposit>>

(* derive.L1BlockInfoFromBytes, None for an error *)
L1Info(deposit) == deposit.info

IsDepositTx(tx) == tx.type = "deposit"

UserTxs(txs) == Filter(txs, {tx \in Range(txs) : ~IsDepositTx(tx)})

(* derive.BlockToSingularBatch: deposits are not part of a batch. *)
BlockToSingularBatch(b) ==
  IF b.txs = <<>> \/ ~IsDepositTx(Head(b.txs)) \/ L1Info(Head(b.txs)) = None THEN None
  ELSE [parent |-> b.header.parent, time |-> b.header.time, epoch |-> L1Info(Head(b.txs)),
        txs |-> UserTxs(b.txs)]

(* What BlockToEspressoBatch makes of a block, and ToEspressoTransaction of it. *)
Packed(b) ==
  [header |-> b.header, batch |-> BlockToSingularBatch(b), deposit |-> Head(b.txs),
   signer |-> ZeroAddress]

Transaction(b, key) == [signature |-> [key |-> key, over |-> b], data |-> b]

------------------------------------------------------------------------------
(* A transaction is followed to its end, then the next one. *)
Fail ==
  /\ stage' = "idle"
  /\ UNCHANGED <<block, batch, payload, decoded, result, signed, seen, rounds>>

Take ==
  /\ stage = "idle" /\ rounds < MaxRounds
  /\ \/ block' \in Blocks /\ stage' = "block" /\ payload' = None
     \/ block' = None /\ stage' = "sent" /\ payload' \in Foreign
  /\ batch' = None /\ decoded' = None /\ result' = None
  /\ rounds' = rounds + 1
  /\ UNCHANGED <<signed, seen>>

BlockToEspressoBatch ==
  /\ stage = "block"
  /\ \/ BlockToSingularBatch(block) = None /\ Fail
     \/ /\ BlockToSingularBatch(block) # None
        /\ batch' = Packed(block)
        /\ stage' = "batch"
        /\ UNCHANGED <<block, payload, decoded, result, signed, seen, rounds>>

(* The signer may fail. *)
ToEspressoTransaction(key) ==
  /\ stage = "batch"
  /\ payload' = Transaction(batch, key)
  /\ signed' = signed \cup {[key |-> key, data |-> batch]}
  /\ stage' = "sent"
  /\ UNCHANGED <<block, batch, decoded, result, seen, rounds>>

SignerFails == stage = "batch" /\ Fail

(* Another writer posts the signature with other data. *)
Alter ==
  /\ stage = "sent" /\ block # None
  /\ block' = None
  /\ \E data \in ForeignData : payload' = [signature |-> payload.signature, data |-> data]
  /\ UNCHANGED <<stage, batch, decoded, result, signed, seen, rounds>>

(* crypto.SigToPub: over other data the key that comes out is nobody's. *)
SigToPub(data, signature) == IF signature.over = data THEN signature.key ELSE Stranger

(* Variants the runs must reject: an oversized number passes; the signer that  *)
(* the data names is believed.                                                 *)
CompleteAnyNumber(b) == b.header # None /\ b.header.number # None /\ b.deposit # None

DecodeBelievingSigner(p) == p.data

(* What Number and Hash assume, checked before anyone calls them. *)
Complete(b) ==
  /\ b.header # None /\ b.header.number # None
  /\ b.header.number <= MaxWord
  /\ b.deposit # None

(* The batch with the signer that is recovered from the signature. *)
Decode(p) == [p.data EXCEPT !.signer = SigToPub(p.data, p.signature)]

(* Too short a payload has no signature. *)
UnmarshalEspressoTransaction ==
  /\ stage = "sent"
  /\ \/ payload.signature = None /\ Fail
     \/ payload.signature # None /\ payload.data = Garbage /\ Fail
     \/ payload.signature # None /\ payload.data # Garbage /\ ~Complete(payload.data) /\ Fail
     \/ /\ payload.signature # None /\ payload.data # Garbage /\ Complete(payload.data)
        /\ decoded' = Decode(payload)
        /\ seen' = seen \cup {decoded'}
        /\ stage' = "decoded"
        /\ UNCHANGED <<block, batch, payload, result, signed, rounds>>

------------------------------------------------------------------------------
(* ToBlock *)

(* Variants the runs must reject: the parents are not compared; the deposit is *)
(* not put back.                                                               *)
ConsistentAnyParent(b) ==
  /\ IsDepositTx(b.deposit) /\ L1Info(b.deposit) # None
  /\ b.batch.time = b.header.time
  /\ b.batch.epoch = L1Info(b.deposit)

Consistent(b) ==
  /\ IsDepositTx(b.deposit) /\ L1Info(b.deposit) # None
  /\ b.batch.parent = b.header.parent /\ b.batch.time = b.header.time
  /\ b.batch.epoch = L1Info(b.deposit)

TxsDecode(b) == \A i \in DOMAIN b.batch.txs : b.batch.txs[i] # Garbage

RebuiltWithoutDeposit(b) == [header |-> b.header, txs |-> b.batch.txs]

Rebuilt(b) == [header |-> b.header, txs |-> <<b.deposit>> \o b.batch.txs]

ToBlock ==
  /\ stage = "decoded"
  /\ \/ ~Consistent(decoded) /\ Fail
     \/ Consistent(decoded) /\ ~TxsDecode(decoded) /\ Fail
     \/ /\ Consistent(decoded) /\ TxsDecode(decoded)
        /\ result' = Rebuilt(decoded)
        /\ stage' = "idle"
        /\ UNCHANGED <<block, batch, payload, decoded, signed, seen, rounds>>

(* The marks for nothing and for what does not decode are no encoded value. *)
ASSUME MarkAssumption ==
  \A b \in Blocks : BlockToSingularBatch(b) # None =>
    /\ Packed(b) # Garbage /\ Rebuilt(Packed(b)) # None
    /\ \A key \in Keys : Transaction(Packed(b), key).signature # None

------------------------------------------------------------------------------
Init ==
  /\ stage = "idle" /\ rounds = 0
  /\ block = None /\ batch = None /\ payload = None /\ decoded = None /\ result = None
  /\ signed = {} /\ seen = {}

Next ==
  \/ Take
  \/ BlockToEspressoBatch
  \/ \E key \in Keys : ToEspressoTransaction(key)
  \/ SignerFails \/ Alter
  \/ UnmarshalEspressoTransaction
  \/ ToBlock

Spec == Init /\ [][Next]_vars

------------------------------------------------------------------------------
(* Whatever stands in the namespace, Number and Hash can be asked of a decoded *)
(* batch before its signer is known, and Number is not cut off: no batch gets  *)
(* another one's place in the streamer.                                        *)
MethodsAnswer ==
  decoded # None =>
    /\ decoded.header # None /\ decoded.deposit # None
    /\ Number(decoded) = decoded.header.number

(* The signer CheckBatch compares with the authorized batcher has signed this  *)
(* very batch, whatever the signer field of the encoded batch says.            *)
SignerSigned ==
  (decoded # None /\ decoded.signer \in Keys) =>
    [key |-> decoded.signer, data |-> [decoded EXCEPT !.signer = ZeroAddress]] \in signed

(* The streamer tells batches apart by Hash, which covers neither the batch    *)
(* nor the signer, and does so as soon as they are decoded.  Among batches     *)
(* with the recovered signature of a batcher, of one or of two of them, one    *)
(* hash is one batch: header, deposit and transactions are the same, so that   *)
(* a batch skipped as a duplicate of a genuine one is nothing lost.  (A copy   *)
(* with another signature shares the hash: see DuplicateStaysHeld of           *)
(* BatchStreamer.)                                                             *)
SignedHashIdentifies ==
  \A a, b \in seen :
    (a.signer \in Keys /\ b.signer \in Keys /\ Hash(a) = Hash(b)) =>
      a.header = b.header /\ a.batch = b.batch /\ a.deposit = b.deposit

HasDeposits(txs) == \E i \in DOMAIN txs : IsDepositTx(txs[i])

(* "The produced block must round-trip through BlockToSingularBatch" (ToBlock): *)
(* the block made of a batch that a batcher has signed, or of any batch        *)
(* without deposits among its transactions, gives this very batch back.  Other *)
(* writers' batches may have such deposits, which ToBlock does not refuse:     *)
(* exactly these are missing then, and the block is converted all the same.    *)
ResultRoundTrips ==
  result # None =>
    /\ (decoded.signer \in Keys \/ ~HasDeposits(decoded.batch.txs)) =>
         BlockToSingularBatch(result) = decoded.batch
    /\ BlockToSingularBatch(result) =
         [decoded.batch EXCEPT !.txs = UserTxs(decoded.batch.txs)]

(* A block of the batcher that can be packed is never refused on the way, and  *)
(* comes out with its header, its L1 info deposit and its own transactions.    *)
BlockArrives ==
  (stage = "idle" /\ block # None /\ payload # None) =>
    /\ result # None
    /\ result.header = block.header
    /\ result.txs = <<Head(block.txs)>> \o UserTxs(block.txs)

------------------------------------------------------------------------------
(* Statements of the documentation the code does not keep. *)

(* "The decoded batch must convert back to the original block."                *)
(* (TestBatchRoundtrip, espresso_batch_test.go)                                *)
BlockRestored == (block # None /\ result # None) => result = block

(* "The produced block must round-trip through BlockToSingularBatch" (ToBlock, *)
(* espresso_batch.go), of whatever batch ToBlock takes.                        *)
EveryResultRoundTrips == result # None => BlockToSingularBatch(result) = decoded.batch
==============================================================================
