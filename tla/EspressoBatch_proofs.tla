------------------------- MODULE EspressoBatch_proofs -------------------------
(* Theorems about the way of a batch, for any blocks, any number of            *)
(* transactions and whatever other writers post.                               *)
EXTENDS EspressoBatch, SequenceLemmas

(* What may stand behind a signature: something that does not decode, or a     *)
(* batch whose header, if it has one, has a number or none.                    *)
DataOK(d) ==
  d # Garbage =>
    /\ IsBatch(d)
    /\ d.header # None => d.header.number \in Nat \cup {None}

(* The invariant: the batcher packs whole batches, with no signer in them; a   *)
(* signature of a batcher's key on the way is one it has made, over such a     *)
(* batch.                                                                      *)
BatchInv ==
  /\ stage = "block" => block \in Blocks
  /\ stage = "batch" => DataOK(batch) /\ IsBatch(batch) /\ batch.signer = ZeroAddress

PayloadInv ==
  stage = "sent" =>
    /\ DataOK(payload.data)
    /\ (payload.signature # None /\ payload.signature.key \in Keys) =>
         /\ [key |-> payload.signature.key, data |-> payload.signature.over] \in signed
         /\ payload.signature.over.signer = ZeroAddress

IInv == BatchInv /\ PayloadInv /\ SignerSigned /\ MethodsAnswer

LEMMA InitInv == Init => IInv
BY DEF Init, IInv, BatchInv, PayloadInv, SignerSigned, MethodsAnswer

LEMMA FailInv == ASSUME IInv, Fail PROVE IInv'
BY DEF Fail, IInv, BatchInv, PayloadInv, SignerSigned, MethodsAnswer, Number

LEMMA TakeInv == ASSUME IInv, Take PROVE IInv'
<1>1. BatchInv' /\ SignerSigned' /\ MethodsAnswer'
  BY DEF Take, IInv, BatchInv, SignerSigned, MethodsAnswer
<1>2. PayloadInv'
  BY EspressoAssumption DEF Take, PayloadInv, DataOK
<1> QED BY <1>1, <1>2 DEF IInv

(* The transactions of users among some. *)
LEMMA UserTxsType == ASSUME NEW txs, IsSeq(txs) PROVE UserTxs(txs) \in Seq(Range(txs))
BY FilterType DEF IsSeq, UserTxs

(* What is packed is a whole batch without a signer. *)
LEMMA PackedFacts ==
  ASSUME NEW b \in Blocks, BlockToSingularBatch(b) # None
  PROVE  /\ IsBatch(Packed(b)) /\ Packed(b).signer = ZeroAddress
         /\ Packed(b).header = b.header /\ Packed(b).deposit = Head(b.txs)
         /\ Packed(b).batch = BlockToSingularBatch(b)
         /\ BlockToSingularBatch(b) = [parent |-> b.header.parent, time |-> b.header.time,
                                       epoch |-> L1Info(Head(b.txs)), txs |-> UserTxs(b.txs)]
<1> DEFINE p == b.header.parent
           t == b.header.time
           e == L1Info(Head(b.txs))
           u == UserTxs(b.txs)
           s == BlockToSingularBatch(b)
<1>1. s = [parent |-> p, time |-> t, epoch |-> e, txs |-> u]
  BY DEF BlockToSingularBatch
<1>2. u \in Seq(Range(b.txs))
  BY UserTxsType, EspressoAssumption
<1>3. IsSeq(u)
  <2> HIDE DEF u
  <2> QED BY <1>2, SeqOfRange, Zenon DEF IsSeq
<1> HIDE DEF p, t, e, u, s
<1>4. s = [parent |-> s.parent, time |-> s.time, epoch |-> s.epoch, txs |-> s.txs] /\ s.txs = u
  BY <1>1
<1>5. Packed(b) = [header |-> b.header, batch |-> s, deposit |-> Head(b.txs),
                   signer |-> ZeroAddress]
  BY DEF Packed, s
<1>6. /\ Packed(b).header = b.header /\ Packed(b).deposit = Head(b.txs)
      /\ Packed(b).batch = s /\ Packed(b).signer = ZeroAddress
  BY <1>5
<1>7. IsBatch(Packed(b))
  BY <1>3, <1>4, <1>5, <1>6 DEF IsBatch
<1> QED BY <1>1, <1>6, <1>7 DEF p, t, e, u, s

LEMMA PackInv == ASSUME IInv, BlockToEspressoBatch PROVE IInv'
<1>1. CASE Fail
  BY <1>1, FailInv
<1>2. CASE ~Fail
  <2>1. /\ batch' = Packed(block) /\ BlockToSingularBatch(block) # None
        /\ stage = "block" /\ stage' = "batch"
        /\ UNCHANGED <<block, payload, decoded, result, signed, seen, rounds>>
    BY <1>2 DEF BlockToEspressoBatch
  <2>2. block.header.number \in Nat
    BY <2>1, EspressoAssumption DEF IInv, BatchInv
  <2>3. IsBatch(batch') /\ batch'.signer = ZeroAddress /\ batch'.header = block.header
    BY <2>1, PackedFacts DEF IInv, BatchInv
  <2>4. BatchInv'
    BY <2>1, <2>2, <2>3 DEF BatchInv, DataOK, IsBatch
  <2>5. PayloadInv' /\ SignerSigned' /\ MethodsAnswer'
    BY <2>1 DEF IInv, PayloadInv, SignerSigned, MethodsAnswer, Number
  <2> QED BY <2>4, <2>5 DEF IInv
<1> QED BY <1>1, <1>2

LEMMA SignInv == ASSUME IInv, NEW key \in Keys, ToEspressoTransaction(key) PROVE IInv'
<1>1. /\ stage = "batch" /\ stage' = "sent"
      /\ payload' = Transaction(batch, key)
      /\ signed' = signed \cup {[key |-> key, data |-> batch]}
      /\ UNCHANGED <<block, batch, decoded, result, seen, rounds>>
  BY DEF ToEspressoTransaction
<1>2. DataOK(batch) /\ batch.signer = ZeroAddress
  BY <1>1 DEF IInv, BatchInv
<1>3. /\ payload'.data = batch /\ payload'.signature.key = key
      /\ payload'.signature.over = batch
  BY <1>1 DEF Transaction
<1>4. PayloadInv'
  BY <1>1, <1>2, <1>3 DEF PayloadInv, DataOK, IsBatch
<1>5. BatchInv' /\ SignerSigned' /\ MethodsAnswer'
  BY <1>1 DEF IInv, BatchInv, SignerSigned, MethodsAnswer, Number
<1> QED BY <1>4, <1>5 DEF IInv

LEMMA AlterInv == ASSUME IInv, Alter PROVE IInv'
<1>1. PICK data \in ForeignData :
        /\ payload' = [signature |-> payload.signature, data |-> data]
        /\ stage = "sent"
        /\ UNCHANGED <<stage, batch, decoded, result, signed, seen, rounds>>
  BY DEF Alter
<1>2. DataOK(data)
  BY EspressoAssumption DEF DataOK
<1>3. payload'.data = data /\ payload'.signature = payload.signature
  BY <1>1
<1>4. PayloadInv'
  BY <1>1, <1>2, <1>3 DEF IInv, PayloadInv, DataOK, IsBatch
<1>5. BatchInv' /\ SignerSigned' /\ MethodsAnswer'
  BY <1>1 DEF IInv, BatchInv, SignerSigned, MethodsAnswer, Number
<1> QED BY <1>4, <1>5 DEF IInv

(* What decoding makes of a complete batch. *)
LEMMA DecodeFacts ==
  ASSUME NEW p, DataOK(p.data), p.data # Garbage
  PROVE  /\ Decode(p).header = p.data.header /\ Decode(p).deposit = p.data.deposit
         /\ Decode(p).signer = SigToPub(p.data, p.signature)
         /\ p.data.signer = ZeroAddress => [Decode(p) EXCEPT !.signer = ZeroAddress] = p.data
<1>1. PICK h, b, d, s : p.data = [header |-> h, batch |-> b, deposit |-> d, signer |-> s]
  BY DEF DataOK, IsBatch
<1>2. Decode(p) = [header |-> h, batch |-> b, deposit |-> d, signer |-> SigToPub(p.data, p.signature)]
  BY <1>1 DEF Decode
<1> QED BY <1>1, <1>2

LEMMA UnmarshalInv == ASSUME IInv, UnmarshalEspressoTransaction PROVE IInv'
<1>1. CASE Fail
  BY <1>1, FailInv
<1>2. CASE ~Fail
  <2>1. /\ stage = "sent" /\ stage' = "decoded" /\ payload.signature # None
        /\ payload.data # Garbage /\ Complete(payload.data)
        /\ decoded' = Decode(payload)
        /\ UNCHANGED <<block, batch, payload, result, signed, rounds>>
    BY <1>2 DEF UnmarshalEspressoTransaction
  <2>2. DataOK(payload.data)
    BY <2>1 DEF IInv, PayloadInv
  <2>3. /\ decoded'.header = payload.data.header /\ decoded'.deposit = payload.data.deposit
        /\ decoded'.signer = SigToPub(payload.data, payload.signature)
        /\ payload.data.signer = ZeroAddress =>
             [decoded' EXCEPT !.signer = ZeroAddress] = payload.data
    BY <2>1, <2>2, DecodeFacts
  <2>4. MethodsAnswer'
    <3>1. payload.data.header # None /\ payload.data.deposit # None
          /\ payload.data.header.number \in Nat
          /\ payload.data.header.number <= MaxWord
      BY <2>1, <2>2 DEF Complete, DataOK
    <3>2. \A n \in Nat : n <= MaxWord => n % (MaxWord + 1) = n
      BY EspressoAssumption
    <3> QED BY <2>3, <3>1, <3>2 DEF MethodsAnswer, Number
  <2>5. SignerSigned'
    <3> SUFFICES ASSUME decoded'.signer \in Keys
                 PROVE  [key |-> decoded'.signer,
                         data |-> [decoded' EXCEPT !.signer = ZeroAddress]] \in signed'
      BY DEF SignerSigned
    <3>1. payload.signature.over = payload.data /\ decoded'.signer = payload.signature.key
      BY <2>3, EspressoAssumption DEF SigToPub
    <3>2. /\ [key |-> payload.signature.key, data |-> payload.signature.over] \in signed
          /\ payload.signature.over.signer = ZeroAddress
      BY <2>1, <3>1 DEF IInv, PayloadInv
    <3> QED BY <2>1, <2>3, <3>1, <3>2
  <2>6. BatchInv' /\ PayloadInv'
    BY <2>1 DEF IInv, BatchInv, PayloadInv
  <2> QED BY <2>4, <2>5, <2>6 DEF IInv
<1> QED BY <1>1, <1>2

LEMMA ToBlockInv == ASSUME IInv, ToBlock PROVE IInv'
<1>1. CASE Fail
  BY <1>1, FailInv
<1>2. CASE ~Fail
  <2>1. stage' = "idle" /\ UNCHANGED <<block, batch, payload, decoded, signed, rounds>>
    BY <1>2 DEF ToBlock
  <2> QED BY <2>1 DEF IInv, BatchInv, PayloadInv, SignerSigned, MethodsAnswer, Number
<1> QED BY <1>1, <1>2

LEMMA StepInv == IInv /\ [Next]_vars => IInv'
<1> SUFFICES ASSUME IInv, [Next]_vars PROVE IInv'
  OBVIOUS
<1>1. CASE UNCHANGED vars
  BY <1>1 DEF vars, IInv, BatchInv, PayloadInv, SignerSigned, MethodsAnswer, Number
<1>2. CASE SignerFails
  BY <1>2, FailInv DEF SignerFails
<1> QED
  BY <1>1, <1>2, TakeInv, PackInv, SignInv, AlterInv, UnmarshalInv, ToBlockInv DEF Next

LEMMA InvCorrect == Spec => []IInv
BY InitInv, StepInv, PTL DEF Spec

(* A decoded batch answers Number and Hash, and Number is the header's number: *)
(* the checks of UnmarshalEspressoTransaction suffice for any payload.         *)
THEOREM MethodsCorrect == Spec => []MethodsAnswer
<1>1. IInv => MethodsAnswer
  BY DEF IInv
<1> QED BY <1>1, InvCorrect, PTL

(* A batch whose recovered signer is a batcher's key is one that key signed.   *)
THEOREM SignerCorrect == Spec => []SignerSigned
<1>1. IInv => SignerSigned
  BY DEF IInv
<1> QED BY <1>1, InvCorrect, PTL

------------------------------------------------------------------------------
(* The way of a whole transaction.  A block that is made is made of a whole    *)
(* and consistent batch; and as long as no other writer has its hand in, what  *)
(* is on the way is the batcher's block, packed.                               *)
ResultInv ==
  /\ stage = "decoded" => IsBatch(decoded)
  /\ stage # "idle" => result = None
  /\ result # None => IsBatch(decoded) /\ Consistent(decoded) /\ result = Rebuilt(decoded)

Packable == block \in Blocks /\ BlockToSingularBatch(block) # None

SameContent(b, c) == b.header = c.header /\ b.batch = c.batch /\ b.deposit = c.deposit

WayInv ==
  /\ stage = "block" => payload = None
  /\ stage = "batch" => payload = None /\ Packable /\ batch = Packed(block)
  /\ (stage = "sent" /\ block # None) =>
       Packable /\ \E key \in Keys : payload = Transaction(Packed(block), key)
  /\ (stage = "decoded" /\ block # None) => Packable /\ SameContent(decoded, Packed(block))
  /\ (stage = "idle" /\ block # None /\ payload # None) =>
       Packable /\ result = Rebuilt(Packed(block))

(* Decoding keeps a batch whole, and all of it but the signer. *)
LEMMA DecodeKeeps ==
  ASSUME NEW p, IsBatch(p.data)
  PROVE  IsBatch(Decode(p)) /\ SameContent(Decode(p), p.data)
<1> DEFINE d == p.data
           k == SigToPub(p.data, p.signature)
<1>1. Decode(p) = [header |-> d.header, batch |-> d.batch, deposit |-> d.deposit, signer |-> k]
  BY DEF Decode, IsBatch
<1> HIDE DEF k
<1>2. /\ Decode(p).header = d.header /\ Decode(p).batch = d.batch
      /\ Decode(p).deposit = d.deposit /\ Decode(p).signer = k
  BY <1>1
<1> QED BY <1>1, <1>2 DEF IsBatch, SameContent

LEMMA ResultStep == IInv /\ ResultInv /\ [Next]_vars => ResultInv'
<1> SUFFICES ASSUME IInv, ResultInv, [Next]_vars PROVE ResultInv'
  OBVIOUS
<1>1. CASE Fail
  BY <1>1 DEF Fail, ResultInv
<1>2. CASE Take
  BY <1>2 DEF Take, ResultInv
<1>3. CASE BlockToEspressoBatch
  BY <1>1, <1>3 DEF BlockToEspressoBatch, ResultInv
<1>4. ASSUME NEW key \in Keys, ToEspressoTransaction(key) PROVE ResultInv'
  BY <1>4 DEF ToEspressoTransaction, ResultInv
<1>5. CASE Alter
  BY <1>5 DEF Alter, ResultInv
<1>6. CASE UnmarshalEspressoTransaction
  <2>1. CASE ~Fail
    <3>1. /\ stage = "sent" /\ stage' = "decoded" /\ payload.data # Garbage
          /\ decoded' = Decode(payload) /\ UNCHANGED result
      BY <1>6, <2>1 DEF UnmarshalEspressoTransaction
    <3>2. IsBatch(payload.data)
      BY <3>1 DEF IInv, PayloadInv, DataOK
    <3>3. IsBatch(decoded')
      BY <3>1, <3>2, DecodeKeeps
    <3> QED BY <3>1, <3>3 DEF ResultInv
  <2> QED BY <1>1, <2>1
<1>7. CASE ToBlock
  <2>1. CASE ~Fail
    <3>1. /\ stage = "decoded" /\ stage' = "idle" /\ Consistent(decoded)
          /\ result' = Rebuilt(decoded) /\ UNCHANGED decoded
      BY <1>7, <2>1 DEF ToBlock
    <3> QED BY <3>1 DEF ResultInv
  <2> QED BY <1>1, <2>1
<1>8. CASE UNCHANGED vars
  BY <1>8 DEF vars, ResultInv
<1> QED
  BY <1>1, <1>2, <1>3, <1>4, <1>5, <1>6, <1>7, <1>8 DEF Next, SignerFails

(* What the batcher packs passes every check of the derivation. *)
LEMMA PackedPasses ==
  ASSUME Packable, NEW d, SameContent(d, Packed(block))
  PROVE  Complete(d) /\ Consistent(d) /\ TxsDecode(d) /\ Rebuilt(d) = Rebuilt(Packed(block))
<1> DEFINE b == block
           s == BlockToSingularBatch(b)
<1>1. /\ d.header = b.header /\ d.deposit = Head(b.txs) /\ d.batch = s
      /\ s = [parent |-> b.header.parent, time |-> b.header.time,
              epoch |-> L1Info(Head(b.txs)), txs |-> UserTxs(b.txs)]
  BY PackedFacts DEF SameContent, Packable
<1>2. b.txs # <<>> /\ IsDepositTx(Head(b.txs)) /\ L1Info(Head(b.txs)) # None
  BY DEF Packable, BlockToSingularBatch
<1>3. /\ IsSeq(b.txs) /\ \A i \in DOMAIN b.txs : b.txs[i] \notin {None, Garbage}
      /\ b.header # None /\ b.header.number # None /\ b.header.number <= MaxWord
  BY EspressoAssumption DEF Packable
<1>4. \A tx \in Range(b.txs) : tx \notin {None, Garbage}
  BY <1>3 DEF Range
<1>5. Head(b.txs) # None
  <2> DEFINE R == Range(b.txs)
  <2>1. b.txs \in Seq(R)
    BY <1>3 DEF IsSeq
  <2>2. Head(b.txs) \in R
    <3> HIDE DEF R
    <3> QED BY <1>2, <2>1, HeadTailProperties
  <2> QED BY <1>4, <2>2
<1>6. Complete(d)
  BY <1>1, <1>3, <1>5 DEF Complete
<1>7. Consistent(d)
  BY <1>1, <1>2 DEF Consistent
<1>8. TxsDecode(d)
  <2> DEFINE u == UserTxs(b.txs)
             R == Range(b.txs)
  <2>1. u \in Seq(R)
    BY <1>3, UserTxsType
  <2>2. d.batch.txs = u
    BY <1>1
  <2> HIDE DEF u, R
  <2>3. \A i \in DOMAIN u : u[i] \in R
    BY <2>1
  <2> QED BY <1>4, <2>2, <2>3 DEF TxsDecode, R
<1>9. Rebuilt(d) = Rebuilt(Packed(block))
  BY DEF Rebuilt, SameContent
<1> QED BY <1>6, <1>7, <1>8, <1>9

LEMMA WayStep == IInv /\ WayInv /\ [Next]_vars => WayInv'
<1> SUFFICES ASSUME IInv, WayInv, [Next]_vars PROVE WayInv'
  OBVIOUS
<1>1. ASSUME Fail, stage # "idle", payload = None \/ block = None PROVE WayInv'
  BY <1>1 DEF Fail, WayInv
<1>2. CASE Take
  BY <1>2 DEF Take, WayInv
<1>3. CASE BlockToEspressoBatch
  <2>1. stage = "block" /\ payload = None /\ block \in Blocks
    BY <1>3 DEF BlockToEspressoBatch, WayInv, IInv, BatchInv
  <2>2. CASE ~Fail
    BY <1>3, <2>1, <2>2 DEF BlockToEspressoBatch, WayInv, Packable
  <2> QED BY <1>1, <2>1, <2>2
<1>4. CASE SignerFails
  BY <1>1, <1>4 DEF SignerFails, WayInv
<1>5. ASSUME NEW key \in Keys, ToEspressoTransaction(key) PROVE WayInv'
  BY <1>5 DEF ToEspressoTransaction, WayInv, Packable
<1>6. CASE Alter
  BY <1>6 DEF Alter, WayInv
<1>7. CASE UnmarshalEspressoTransaction
  <2>1. stage = "sent"
    BY <1>7 DEF UnmarshalEspressoTransaction
  <2>2. CASE block = None
    <3>1. CASE ~Fail
      BY <1>7, <2>2, <3>1 DEF UnmarshalEspressoTransaction, WayInv
    <3> QED BY <1>1, <2>1, <2>2, <3>1
  <2>3. CASE block # None
    <3>1. PICK key \in Keys : payload = Transaction(Packed(block), key)
      BY <2>1, <2>3 DEF WayInv
    <3>2. Packable
      BY <2>1, <2>3 DEF WayInv
    <3>3. payload.data = Packed(block) /\ payload.signature # None /\ payload.data # Garbage
      <4>1. payload.data = Packed(block)
        BY <3>1 DEF Transaction
      <4> QED BY <3>1, <3>2, <4>1, MarkAssumption DEF Packable
    <3>4. Complete(payload.data) /\ IsBatch(payload.data)
      BY <3>2, <3>3, PackedPasses, PackedFacts DEF SameContent, Packable
    <3>5. /\ decoded' = Decode(payload) /\ stage' = "decoded"
          /\ UNCHANGED <<block, batch, payload, result>>
      BY <1>7, <3>3, <3>4 DEF UnmarshalEspressoTransaction
    <3>6. SameContent(decoded', Packed(block))
      BY <3>3, <3>4, <3>5, DecodeKeeps
    <3> QED BY <3>2, <3>5, <3>6 DEF WayInv, Packable, SameContent
  <2> QED BY <2>2, <2>3
<1>8. CASE ToBlock
  <2>1. stage = "decoded"
    BY <1>8 DEF ToBlock
  <2>2. CASE block = None
    <3>1. CASE ~Fail
      BY <1>8, <2>2, <3>1 DEF ToBlock, WayInv
    <3> QED BY <1>1, <2>1, <2>2, <3>1
  <2>3. CASE block # None
    <3>1. Packable /\ SameContent(decoded, Packed(block))
      BY <2>1, <2>3 DEF WayInv
    <3>2. Consistent(decoded) /\ TxsDecode(decoded) /\ Rebuilt(decoded) = Rebuilt(Packed(block))
      BY <3>1, PackedPasses
    <3>3. /\ result' = Rebuilt(Packed(block)) /\ stage' = "idle"
          /\ UNCHANGED <<block, batch, payload, decoded>>
      BY <1>8, <3>2 DEF ToBlock
    <3> QED BY <3>1, <3>3 DEF WayInv, Packable
  <2> QED BY <2>2, <2>3
<1>9. CASE UNCHANGED vars
  BY <1>9 DEF vars, WayInv, Packable
<1> QED BY <1>2, <1>3, <1>4, <1>5, <1>6, <1>7, <1>8, <1>9 DEF Next

------------------------------------------------------------------------------
(* What the batchers' keys have signed are packed blocks, and a decoded batch  *)
(* with a batcher as its signer has the content of one.                        *)
IsPacked(d) ==
  \E b \in Blocks : BlockToSingularBatch(b) # None /\ SameContent(d, Packed(b))

SignedInv ==
  /\ \A s \in signed : IsPacked(s.data)
  /\ \A a \in seen : a.signer \in Keys => IsPacked(a)
  /\ (stage = "decoded" \/ result # None) => decoded \in seen

LEMMA SignedStep == IInv /\ WayInv /\ SignedInv /\ [Next]_vars => SignedInv'
<1> SUFFICES ASSUME IInv, WayInv, SignedInv, [Next]_vars PROVE SignedInv'
  OBVIOUS
<1>1. ASSUME UNCHANGED <<signed, seen, decoded>>,
             stage' # "decoded" \/ UNCHANGED stage,
             result' # None => stage = "decoded" \/ UNCHANGED result
      PROVE  SignedInv'
  BY <1>1 DEF SignedInv
<1>2. ASSUME NEW key \in Keys, ToEspressoTransaction(key) PROVE SignedInv'
  <2>1. /\ stage = "batch" /\ stage' = "sent" /\ UNCHANGED <<seen, decoded, result>>
        /\ signed' = signed \cup {[key |-> key, data |-> batch]}
    BY <1>2 DEF ToEspressoTransaction
  <2>2. IsPacked(batch)
    BY <2>1 DEF WayInv, Packable, IsPacked, SameContent
  <2>3. \A s \in signed' : s \in signed \/ s.data = batch
    BY <2>1
  <2> QED BY <2>1, <2>2, <2>3 DEF SignedInv
<1>3. CASE UnmarshalEspressoTransaction /\ ~Fail
  <2>1. /\ stage = "sent" /\ payload.data # Garbage
        /\ decoded' = Decode(payload) /\ seen' = seen \cup {decoded'} /\ UNCHANGED signed
    BY <1>3 DEF UnmarshalEspressoTransaction
  <2>2. ASSUME decoded'.signer \in Keys PROVE IsPacked(decoded')
    <3>1. DataOK(payload.data) /\ IsBatch(payload.data)
      BY <2>1 DEF IInv, PayloadInv, DataOK
    <3>2. SameContent(decoded', payload.data)
      BY <2>1, <3>1, DecodeKeeps
    <3>3. decoded'.signer = SigToPub(payload.data, payload.signature)
      BY <2>1, <3>1, DecodeFacts
    <3>4. payload.signature.over = payload.data /\ decoded'.signer = payload.signature.key
      BY <2>2, <3>3, EspressoAssumption DEF SigToPub
    <3>5. payload.signature # None
      BY <1>3 DEF UnmarshalEspressoTransaction
    <3>6. [key |-> payload.signature.key, data |-> payload.signature.over] \in signed
      BY <2>1, <2>2, <3>4, <3>5 DEF IInv, PayloadInv
    <3>7. IsPacked(payload.data)
      BY <3>4, <3>6 DEF SignedInv
    <3> QED BY <3>2, <3>7 DEF IsPacked, SameContent
  <2> QED BY <2>1, <2>2 DEF SignedInv
<1>4. CASE Fail
  BY <1>1, <1>4 DEF Fail
<1>5. CASE Take
  BY <1>5 DEF Take, SignedInv
<1>6. CASE BlockToEspressoBatch \/ Alter \/ ToBlock \/ UNCHANGED vars
  BY <1>1, <1>6 DEF BlockToEspressoBatch, Alter, ToBlock, Fail, vars
<1> QED BY <1>2, <1>3, <1>4, <1>5, <1>6 DEF Next, SignerFails

LEMMA WayCorrect == Spec => [](ResultInv /\ WayInv /\ SignedInv)
<1>1. Init => ResultInv /\ WayInv /\ SignedInv
  BY DEF Init, ResultInv, WayInv, SignedInv
<1> QED BY <1>1, ResultStep, WayStep, SignedStep, InvCorrect, PTL DEF Spec

(* The header covers the transactions: one header is one packed block. *)
LEMMA HeaderFixesBatch ==
  ASSUME NEW a, NEW b, IsPacked(a), IsPacked(b), a.header = b.header
  PROVE  a.batch = b.batch
<1>1. PICK x \in Blocks : BlockToSingularBatch(x) # None /\ SameContent(a, Packed(x))
  BY DEF IsPacked
<1>2. PICK y \in Blocks : BlockToSingularBatch(y) # None /\ SameContent(b, Packed(y))
  BY DEF IsPacked
<1>3. /\ a.header = x.header /\ a.batch = BlockToSingularBatch(x)
      /\ b.header = y.header /\ b.batch = BlockToSingularBatch(y)
  BY <1>1, <1>2, PackedFacts DEF SameContent
<1>4. x.header = y.header /\ x.txs = y.txs
  BY <1>3, EspressoAssumption
<1> QED BY <1>3, <1>4 DEF BlockToSingularBatch

(* For any blocks, any number of batchers and whatever other writers post: two *)
(* batches with batchers' signatures and one Hash are the same batch.  It      *)
(* rests on what the batchers' keys sign and on the header's transaction hash. *)
THEOREM HashCorrect == Spec => []SignedHashIdentifies
<1>1. SignedInv => SignedHashIdentifies
  <2> SUFFICES ASSUME SignedInv, NEW a \in seen, NEW b \in seen,
                      a.signer \in Keys, b.signer \in Keys, Hash(a) = Hash(b)
               PROVE  a.header = b.header /\ a.batch = b.batch /\ a.deposit = b.deposit
    BY DEF SignedHashIdentifies
  <2>1. a.header = b.header /\ a.deposit = b.deposit
    BY DEF Hash
  <2>2. IsPacked(a) /\ IsPacked(b)
    BY DEF SignedInv
  <2> QED BY <2>1, <2>2, HeaderFixesBatch
<1> QED BY <1>1, WayCorrect, PTL

(* The deposit in front does not count among the transactions of users. *)
LEMMA DepositLeftOut ==
  ASSUME NEW d, IsDepositTx(d), NEW txs, IsSeq(txs)
  PROVE  UserTxs(<<d>> \o txs) = UserTxs(txs)
<1> DEFINE U == Range(txs) \cup {d}
           all == <<d>> \o txs
           A == {tx \in Range(all) : ~IsDepositTx(tx)}
           B == {tx \in Range(txs) : ~IsDepositTx(tx)}
<1>1. Range(txs) \subseteq U /\ d \in U
  OBVIOUS
<1>2. txs \in Seq(U)
  BY <1>1, SeqMonotonic, Zenon DEF IsSeq
<1>3. /\ <<d>> \in Seq(U) /\ Len(txs) \in Nat
      /\ all \in Seq(U) /\ Len(all) = Len(txs) + 1
      /\ \A i \in 1..Len(txs) : all[i + 1] = txs[i]
  <2> HIDE DEF U
  <2>1. <<d>> \in Seq(U) /\ Len(<<d>>) = 1
    BY <1>1
  <2> QED BY <1>2, <2>1, ConcatProperties, LenProperties
<1>4. \A i \in 1..Len(txs) : txs[i] \in A <=> txs[i] \in B
  <2> SUFFICES ASSUME NEW i \in 1..Len(txs)
               PROVE  txs[i] \in Range(all) /\ txs[i] \in Range(txs)
    OBVIOUS
  <2>1. i \in DOMAIN txs /\ i + 1 \in DOMAIN all /\ all[i + 1] = txs[i]
    BY <1>2, <1>3, LenProperties
  <2> HIDE DEF all
  <2> QED BY <2>1 DEF Range
<1>5. d \notin A
  OBVIOUS
<1> HIDE DEF U, A, B
<1>6. Filter(all, A) = Filter(txs, A)
  BY <1>1, <1>2, <1>5, FilterCons
<1>7. Filter(txs, A) = Filter(txs, B)
  BY <1>2, <1>4, FilterAgrees, Zenon
<1> QED BY <1>6, <1>7 DEF UserTxs, A, B

(* Where there are no deposits, none are left out. *)
LEMMA NoneLeftOut ==
  ASSUME NEW txs, IsSeq(txs), ~HasDeposits(txs)
  PROVE  UserTxs(txs) = txs
<1> DEFINE R == Range(txs)
           A == {tx \in R : ~IsDepositTx(tx)}
<1>1. R \subseteq A
  BY DEF HasDeposits, Range
<1>2. txs \in Seq(R)
  BY DEF IsSeq
<1> HIDE DEF R, A
<1>3. Filter(txs, A) = txs
  BY <1>1, <1>2, FilterAll
<1> QED BY <1>3 DEF UserTxs, A, R

(* What the batcher packs has no deposits. *)
LEMMA PackedHasNone == ASSUME NEW d, IsPacked(d) PROVE ~HasDeposits(d.batch.txs)
<1>1. PICK b \in Blocks : BlockToSingularBatch(b) # None /\ SameContent(d, Packed(b))
  BY DEF IsPacked
<1>2. d.batch.txs = UserTxs(b.txs)
  BY <1>1, PackedFacts DEF SameContent
<1> DEFINE R == Range(b.txs)
           A == {tx \in R : ~IsDepositTx(tx)}
           u == Filter(b.txs, A)
<1>3. b.txs \in Seq(R)
  BY EspressoAssumption DEF IsSeq
<1> HIDE DEF R, A
<1>4. u \in Seq(R \cap A)
  BY <1>3, FilterType, Zenon
<1>5. d.batch.txs = u
  BY <1>2 DEF UserTxs, R, A
<1> HIDE DEF u
<1>6. \A i \in DOMAIN u : u[i] \in A
  BY <1>4
<1> QED BY <1>5, <1>6 DEF HasDeposits, A

(* Whatever batch ToBlock takes, of any writer: out of the block comes this    *)
(* very batch when a batcher signed it or it has no deposits, and all of it    *)
(* but the deposits otherwise.                                                 *)
THEOREM RoundTripCorrect == Spec => []ResultRoundTrips
<1>1. ResultInv /\ SignedInv => ResultRoundTrips
  <2> SUFFICES ASSUME ResultInv, SignedInv, result # None
               PROVE  /\ (decoded.signer \in Keys \/ ~HasDeposits(decoded.batch.txs)) =>
                           BlockToSingularBatch(result) = decoded.batch
                      /\ BlockToSingularBatch(result) =
                           [decoded.batch EXCEPT !.txs = UserTxs(decoded.batch.txs)]
    BY DEF ResultRoundTrips
  <2> DEFINE d == decoded.deposit
             s == decoded.batch
             h == decoded.header
             txs == s.txs
             all == <<d>> \o txs
  <2>1. /\ IsBatch(decoded) /\ Consistent(decoded)
        /\ result.header = h /\ result.txs = all
    BY DEF ResultInv, Rebuilt
  <2>2. /\ IsSeq(txs) /\ IsDepositTx(d) /\ L1Info(d) # None
        /\ s.parent = h.parent /\ s.time = h.time /\ s.epoch = L1Info(d)
        /\ s = [parent |-> s.parent, time |-> s.time, epoch |-> s.epoch, txs |-> txs]
    BY <2>1 DEF IsBatch, Consistent
  <2>3. all # <<>> /\ Head(all) = d
    <3>1. txs \in Seq(Range(txs) \cup {d}) /\ <<d>> \in Seq(Range(txs) \cup {d})
      BY <2>2, SeqMonotonic DEF IsSeq
    <3> HIDE DEF txs, d
    <3> QED BY <3>1
  <2>4. UserTxs(all) = UserTxs(txs)
    BY <2>2, DepositLeftOut
  <2>5. BlockToSingularBatch(result) = [parent |-> h.parent, time |-> h.time,
                                        epoch |-> L1Info(d), txs |-> UserTxs(txs)]
    <3> HIDE DEF all, d, txs, h
    <3> QED BY <2>1, <2>2, <2>3, <2>4 DEF BlockToSingularBatch
  <2>7. (decoded.signer \in Keys \/ ~HasDeposits(txs)) => UserTxs(txs) = txs
    <3>1. decoded \in seen
      BY DEF SignedInv
    <3>2. decoded.signer \in Keys => ~HasDeposits(decoded.batch.txs)
      BY <3>1, PackedHasNone DEF SignedInv
    <3>3. ~HasDeposits(txs) => UserTxs(txs) = txs
      BY <2>2, NoneLeftOut
    <3> QED BY <3>2, <3>3
  <2> HIDE DEF s, d, h
  <2>6. [s EXCEPT !.txs = UserTxs(s.txs)] =
          [parent |-> s.parent, time |-> s.time, epoch |-> s.epoch, txs |-> UserTxs(txs)]
    BY <2>2
  <2> QED BY <2>2, <2>5, <2>6, <2>7 DEF s
<1> QED BY <1>1, WayCorrect, PTL

(* A block of the batcher that can be packed and that nobody tampers with is   *)
(* never refused, and comes out with all but its deposits of users.            *)
THEOREM BlockArrivesCorrect == Spec => []BlockArrives
<1>1. WayInv => BlockArrives
  <2> SUFFICES ASSUME WayInv, stage = "idle", block # None, payload # None
               PROVE  /\ result # None
                      /\ result.header = block.header
                      /\ result.txs = <<Head(block.txs)>> \o UserTxs(block.txs)
    BY DEF BlockArrives
  <2>1. Packable /\ result = Rebuilt(Packed(block))
    BY DEF WayInv
  <2>2. result # None
    BY <2>1, MarkAssumption DEF Packable
  <2>3. /\ Packed(block).header = block.header /\ Packed(block).deposit = Head(block.txs)
        /\ Packed(block).batch.txs = UserTxs(block.txs)
    BY <2>1, PackedFacts DEF Packable
  <2> QED BY <2>1, <2>2, <2>3 DEF Rebuilt
<1> QED BY <1>1, WayCorrect, PTL
==============================================================================
