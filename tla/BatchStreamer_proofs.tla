------------------------- MODULE BatchStreamer_proofs -------------------------
(* Type correctness and the safety of delivery and of rewinding, for every     *)
(* value of the constants.                                                     *)
EXTENDS BatchStreamer, BatchBuffer_proofs

(* Where the fetched transactions lie: between the block reading restarted     *)
(* from and the block reading has reached.  This is what makes the rewind      *)
(* position of a turned-away batch lie there too.                              *)
ScanBounds ==
  /\ base <= hotShotPos
  /\ pc # "process" => todo = {}
  /\ \A i \in todo : /\ hotshot[i].block <= hotShotPos
                     /\ base = 0 \/ base < hotshot[i].block

------------------------------------------------------------------------------
(* The constants of the specification, in the form the proofs use. *)
LEMMA Constants ==
  /\ HotShotHeight \in Nat /\ MaxL1 \in Nat /\ MaxUint64 \in Nat
  /\ HotShotHeight < MaxUint64 /\ OriginHotShotPos < MaxUint64
  /\ OriginHotShotPos \in Nat /\ OriginBatchPos \in Nat
  /\ FetchLimit \in Nat \ {0}
  /\ \A h \in LightHeights : h \in Nat /\ h < MaxUint64
  /\ SafeBatches \subseteq Nat
  /\ Unreachable \notin LightHeights
  /\ NoBatch \notin Batch /\ Undecodable \notin Batch
  /\ NoL1Ref \notin L1Numbers
  /\ \A b \in Batch : b.origin \in Nat /\ b.number \in Nat
  /\ L1Numbers = 0..MaxL1
BY StreamerAssumption, BatchAssumption DEF L1Numbers

(* A transaction HotShot has finalized. *)
LEMMA Transactions ==
  ASSUME hotshot \in Histories, NEW i \in DOMAIN hotshot
  PROVE  /\ i \in Nat
         /\ hotshot[i].block \in 0..(HotShotHeight - 1)
         /\ hotshot[i].tx # Undecodable => hotshot[i].tx \in Batch
BY StreamerAssumption

(* CheckBatch keeps the cache well typed, and accepts only a batch of a final  *)
(* origin that is genuine.                                                     *)
LEMMA CheckBatchAnswers ==
  ASSUME TypeOK, NEW b \in Batch, NEW verdict, CheckBatch(b, verdict)
  PROVE  /\ l1Cache' \subseteq L1Numbers
         /\ verdict = "past" => b.number < nextBatchPos
         /\ verdict = "accept" =>
              /\ finalizedL1 # NoL1Ref /\ b.origin <= finalizedL1
              /\ Genuine(b)
<1>1. /\ b.origin \in Nat /\ b.number \in Nat /\ L1Numbers = 0..MaxL1 /\ MaxL1 \in Nat
      /\ l1Cache \subseteq L1Numbers /\ finalizedL1 \in L1Numbers \cup {NoL1Ref}
      /\ nextBatchPos \in Nat
  BY Constants DEF TypeOK
<1>2. CASE IsPast(b)
  BY <1>1, <1>2 DEF CheckBatch, IsPast
<1>3. CASE ~IsPast(b) /\ finalizedL1 = NoL1Ref
  BY <1>1, <1>3 DEF CheckBatch
<1>4. CASE ~IsPast(b) /\ finalizedL1 # NoL1Ref /\ Unfinalized(b)
  BY <1>1, <1>4 DEF CheckBatch
<1>5. CASE ~IsPast(b) /\ finalizedL1 # NoL1Ref /\ ~Unfinalized(b)
  <2>1. b.origin <= finalizedL1 /\ b.origin \in L1Numbers
    BY <1>1, <1>5 DEF Unfinalized
  <2>2. CacheAdd(b.origin) => l1Cache' \subseteq L1Numbers
    BY <1>1, <2>1 DEF CacheAdd
  <2>3. /\ l1Cache' = l1Cache \/ CacheAdd(b.origin)
        /\ verdict # "past"
        /\ verdict = "accept" => Genuine(b)
    BY <1>5, CheckBatch(b, verdict), Zenon DEF CheckBatch
  <2> QED BY <1>1, <1>5, <2>1, <2>2, <2>3
<1> QED BY <1>2, <1>3, <1>4, <1>5

(* The fallback position the light client confirms is a HotShot position. *)
LEMMA ConfirmedPosType ==
  ASSUME TypeOK, NEW h \in LightHeights \cup {Unreachable}
  PROVE  ConfirmedPos(h) \in 0..(MaxUint64 - 1)
<1>1. /\ fallbackHotShotPos \in 0..(MaxUint64 - 1) /\ OriginHotShotPos \in 0..(MaxUint64 - 1)
      /\ h # Unreachable => h \in 0..(MaxUint64 - 1)
  BY Constants DEF TypeOK
<1> QED BY <1>1, Constants, Zenon DEF ConfirmedPos, Max2

(* The range Update fetches ends at or below the height it has read. *)
LEMMA RangeType ==
  ASSUME TypeOK, ~RangeExhausted
  PROVE  /\ Start \in Nat /\ Finish \in Nat
         /\ hotShotPos <= Finish - 1 /\ Finish - 1 \in 0..(MaxUint64 - 1)
         /\ Finish - 1 <= finalizedBlockHeight
<1>1. /\ hotShotPos \in Nat /\ finalizedBlockHeight \in Nat
      /\ finalizedBlockHeight <= HotShotHeight
  BY Constants DEF TypeOK
<1>2. Start \in Nat /\ hotShotPos <= Start
  BY <1>1 DEF Start
<1>3. Finish \in Nat /\ Finish <= finalizedBlockHeight + 1
  BY <1>1, <1>2, Constants DEF Finish, Min2
<1>4. Start < Finish
  BY <1>2, <1>3 DEF RangeExhausted
<1> QED BY <1>1, <1>2, <1>3, <1>4, Constants

(* Admitting a batch keeps head, buffer and skipPos well typed. *)
LEMMA AdmitType ==
  ASSUME TypeOK, NEW b \in Batch, NEW block \in 0..(HotShotHeight - 1), Admit(b, block)
  PROVE  /\ headBatch' \in Batch \cup {NoBatch}
         /\ buffer' \in Seq(Batch) /\ Len(buffer') <= Capacity
         /\ skipPos' \in 0..MaxUint64
         /\ shadowed' \subseteq Batch
<1>0. shadowed' \subseteq Batch
  BY DEF TypeOK, Admit, Shadow
<1>1. /\ buffer \in Seq(Batch) /\ Len(buffer) \in Nat /\ Len(buffer) <= Capacity
      /\ headBatch \in Batch \cup {NoBatch} /\ skipPos \in 0..MaxUint64
  BY LenProperties DEF TypeOK
<1>2. CASE UNCHANGED <<headBatch, buffer, skipPos>>
  BY <1>0, <1>1, <1>2
<1>3. CASE headBatch' = b /\ UNCHANGED <<buffer, skipPos>>
  BY <1>0, <1>1, <1>3
<1>4. CASE skipPos' = Min2(skipPos, RewindTo(block)) /\ UNCHANGED <<headBatch, buffer>>
  <2>1. RewindTo(block) \in 0..MaxUint64
    BY Constants DEF RewindTo
  <2> QED BY <1>0, <1>1, <1>4, <2>1, Constants DEF Min2
<1>5. ASSUME ~AtCapacity(buffer), buffer' = InsertAt(buffer, SearchPos(buffer, b), b),
             UNCHANGED <<headBatch, skipPos>>
      PROVE  /\ buffer' \in Seq(Batch) /\ Len(buffer') <= Capacity
             /\ UNCHANGED <<headBatch, skipPos>>
  <2>1. SearchPos(buffer, b) \in 0..Len(buffer)
    BY <1>1, SearchEnds
  <2>2. buffer' \in Seq(Batch) /\ Len(buffer') = Len(buffer) + 1
    BY <1>1, <1>5, <2>1, InsertAtElements
  <2> QED BY <1>1, <1>5, <2>2, CapacityAssumption DEF AtCapacity
<1> QED BY <1>0, <1>1, <1>2, <1>3, <1>4, <1>5 DEF Admit

(* A streamer that NewEspressoStreamer returns has the types of TypeOK. *)
THEOREM TypeInit == Init => TypeOK
<1> SUFFICES ASSUME Init PROVE TypeOK
  OBVIOUS
<1>1. buffer \in Seq(Batch) /\ Len(buffer) <= Capacity
  BY CapacityAssumption, EmptySeq DEF Init
<1>2. /\ hotShotPos \in 0..(MaxUint64 - 1) /\ fallbackHotShotPos \in 0..(MaxUint64 - 1)
      /\ base \in 0..(MaxUint64 - 1) /\ skipPos \in 0..MaxUint64
      /\ nextBatchPos \in Nat /\ fallbackBatchPos \in Nat
      /\ finalizedBlockHeight \in 0..HotShotHeight
  BY Constants DEF Init
<1> QED BY <1>1, <1>2 DEF Init, TypeOK

(* A reset keeps the state well typed. *)
LEMMA ResetType ==
  ASSUME TypeOK, NEW batchPos \in Nat, NEW pos \in 0..(MaxUint64 - 1), ResetTo(batchPos, pos)
  PROVE  /\ nextBatchPos' \in Nat /\ hotShotPos' \in 0..(MaxUint64 - 1)
         /\ headBatch' \in Batch \cup {NoBatch} /\ skipPos' \in 0..MaxUint64
         /\ buffer' \in Seq(Batch) /\ Len(buffer') <= Capacity
         /\ base' \in 0..(MaxUint64 - 1)
         /\ released' \subseteq Batch /\ shadowed' \subseteq Batch
BY Constants, CapacityAssumption, EmptySeq DEF ResetTo

(* The end of a call. *)
LEMMA EndCallType ==
  ASSUME EndCall
  PROVE  /\ pc' \in {"idle", "update", "process", "hasNext", "deliver"}
         /\ caller' \in {"None", "Update", "HasNext", "Next"}
         /\ finalizedBlockHeight' \in 0..HotShotHeight /\ again' \in BOOLEAN
         /\ todo' \subseteq DOMAIN hotshot'
<1>1. 0 \in 0..HotShotHeight
  BY Constants
<1> QED BY <1>1, Zenon DEF EndCall

(* Every step keeps the state well typed. *)
THEOREM TypeStep == TypeOK /\ [Next]_vars => TypeOK'
<1> SUFFICES ASSUME TypeOK, [Next]_vars PROVE TypeOK'
  OBVIOUS
<1> USE DEF fallbackVars, l1Vars, callVars, ghostVars
<1>1. CASE Reset
  <2>1. /\ fallbackBatchPos \in Nat /\ fallbackHotShotPos \in 0..(MaxUint64 - 1)
        /\ ResetTo(fallbackBatchPos, fallbackHotShotPos)
    BY <1>1 DEF TypeOK, Reset
  <2> QED BY <1>1, <2>1, ResetType DEF TypeOK, Reset
<1>2. ASSUME NEW h \in LightHeights \cup {Unreachable}, RefreshSafeL1Origin(h)
      PROVE  TypeOK'
  <2>1. ConfirmedPos(h) \in 0..(MaxUint64 - 1) /\ fallbackBatchPos \in Nat
    BY ConfirmedPosType DEF TypeOK
  <2>2. CASE Regressed(h)
    <3>1. ResetTo(fallbackBatchPos, ConfirmedPos(h))
      BY <1>2, <2>2 DEF RefreshSafeL1Origin
    <3> QED BY <1>2, <2>1, <3>1, ResetType DEF TypeOK, RefreshSafeL1Origin
  <2>3. CASE ~Regressed(h)
    BY <1>2, <2>1, <2>3 DEF TypeOK, RefreshSafeL1Origin
  <2> QED BY <2>2, <2>3
<1>3. ASSUME NEW h \in LightHeights \cup {Unreachable}, NEW f \in L1Numbers,
             NEW safe \in SafeBatches, NEW answered \in BOOLEAN,
             Refresh(f, safe, h, answered)
      PROVE  TypeOK'
  <2>1. /\ ConfirmedPos(h) \in 0..(MaxUint64 - 1) /\ fallbackBatchPos \in Nat
        /\ safe \in Nat
    BY ConfirmedPosType, Constants DEF TypeOK
  <2>2. /\ finalizedL1' = f /\ fallbackHotShotPos' = ConfirmedPos(h)
        /\ fallbackBatchPos' = safe
        /\ UNCHANGED <<hotshot, l1Cache, callVars>>
    BY <1>3 DEF Refresh
  <2>3. \/ ResetTo(safe, ConfirmedPos(h))
        \/ ResetTo(fallbackBatchPos, ConfirmedPos(h))
        \/ UNCHANGED <<hotShotPos, nextBatchPos, headBatch, skipPos, buffer, ghostVars>>
    BY <1>3, Zenon DEF Refresh
  <2>4. CASE ResetTo(safe, ConfirmedPos(h)) \/ ResetTo(fallbackBatchPos, ConfirmedPos(h))
    <3>1. /\ nextBatchPos' \in Nat /\ hotShotPos' \in 0..(MaxUint64 - 1)
          /\ headBatch' \in Batch \cup {NoBatch} /\ skipPos' \in 0..MaxUint64
          /\ buffer' \in Seq(Batch) /\ Len(buffer') <= Capacity
          /\ base' \in 0..(MaxUint64 - 1)
          /\ released' \subseteq Batch /\ shadowed' \subseteq Batch
      BY <2>1, <2>4, ResetType
    <3> QED BY <2>1, <2>2, <3>1 DEF TypeOK
  <2>5. CASE UNCHANGED <<hotShotPos, nextBatchPos, headBatch, skipPos, buffer, ghostVars>>
    BY <2>1, <2>2, <2>5 DEF TypeOK
  <2> QED BY <2>3, <2>4, <2>5
<1>4. ASSUME NEW latest \in 2..(HotShotHeight + 1), CallUpdate(latest)
      PROVE  TypeOK'
  <2>1. latest - 2 \in 0..HotShotHeight
    BY Constants
  <2> QED BY <1>4, <2>1 DEF TypeOK, CallUpdate
<1>5. CASE UpdateDone
  BY <1>5, EndCallType DEF TypeOK, UpdateDone
<1>6. CASE FetchFails
  BY <1>6, EndCallType DEF TypeOK, FetchFails
<1>7. CASE FetchNothing
  BY <1>7 DEF TypeOK, FetchNothing
<1>8. CASE FetchRange
  <2>1. Finish - 1 \in 0..(MaxUint64 - 1)
    BY <1>8, RangeType DEF FetchRange
  <2>2. InRange \subseteq DOMAIN hotshot
    BY DEF InRange
  <2> QED BY <1>8, <2>1, <2>2 DEF TypeOK, FetchRange
<1>9. ASSUME NEW i \in todo, ProcessTransaction(i)
      PROVE  TypeOK'
  <2> DEFINE b == hotshot[i].tx
  <2>1. /\ i \in DOMAIN hotshot /\ hotshot[i].block \in 0..(HotShotHeight - 1)
        /\ b # Undecodable => b \in Batch
    BY Transactions DEF TypeOK
  <2>2. /\ todo' = todo \ {i}
        /\ UNCHANGED <<hotshot, nextBatchPos, fallbackVars, hotShotPos, l1Vars, pc, caller,
                       finalizedBlockHeight, again, base>>
    BY <1>9 DEF ProcessTransaction
  <2>3. CASE UNCHANGED <<headBatch, buffer, skipPos, l1Cache, released, shadowed>>
    BY <2>2, <2>3 DEF TypeOK
  <2>4. ASSUME b # Undecodable, NEW verdict \in Validity, CheckBatch(b, verdict),
               \/ Admit(b, hotshot[i].block) /\ UNCHANGED released
               \/ Release({b}) /\ UNCHANGED <<headBatch, buffer, skipPos, shadowed>>
        PROVE  TypeOK'
    <3>1. l1Cache' \subseteq L1Numbers
      BY <2>1, <2>4, CheckBatchAnswers
    <3>2. CASE Admit(b, hotshot[i].block) /\ UNCHANGED released
      <4>1. /\ headBatch' \in Batch \cup {NoBatch}
            /\ buffer' \in Seq(Batch) /\ Len(buffer') <= Capacity
            /\ skipPos' \in 0..MaxUint64 /\ shadowed' \subseteq Batch
        BY <2>1, <2>4, <3>2, AdmitType
      <4> QED BY <2>2, <3>1, <3>2, <4>1 DEF TypeOK
    <3>3. CASE Release({b}) /\ UNCHANGED <<headBatch, buffer, skipPos, shadowed>>
      <4>1. released' \subseteq Batch
        BY <2>1, <2>4, <3>3 DEF Release, TypeOK
      <4> QED BY <2>2, <3>1, <3>3, <4>1 DEF TypeOK
    <3> QED BY <2>4, <3>2, <3>3
  <2> QED BY <1>9, <2>3, <2>4, Zenon DEF ProcessTransaction
<1>10. CASE RangeProcessed
  BY <1>10 DEF TypeOK, RangeProcessed
<1>11. ASSUME NEW who \in {"HasNext", "Next"}, CallHasNext(who)
       PROVE  TypeOK'
  BY <1>11 DEF TypeOK, CallHasNext
<1>12. CASE NothingBuffered
  <2>1. CASE EndCall
    BY <1>12, <2>1, EndCallType DEF TypeOK, NothingBuffered
  <2>2. CASE ~EndCall
    BY <1>12, <2>2 DEF TypeOK, NothingBuffered, ReturnFalse
  <2> QED BY <2>1, <2>2
<1>13. CASE DiscardStale
  <2>1. buffer' \in Seq(Batch) /\ Len(buffer') <= Capacity
    BY <1>13, TailSorted, CapacityAssumption, LenProperties DEF TypeOK, DiscardStale
  <2> QED BY <1>13, <2>1 DEF TypeOK, DiscardStale
<1>14. CASE Promote
  <2>1. /\ headBatch' \in Batch
        /\ buffer' \in Seq(Batch) /\ Len(buffer') <= Capacity
    BY <1>14, TailSorted, CapacityAssumption, LenProperties DEF TypeOK, Promote
  <2> QED BY <1>14, <2>1 DEF TypeOK, Promote
<1>15. ASSUME NEW verdict \in Validity, CheckHead(verdict)
       PROVE  TypeOK'
  <2>1. headBatch \in Batch /\ CheckBatch(headBatch, verdict)
    BY <1>15 DEF TypeOK, CheckHead
  <2>2. l1Cache' \subseteq L1Numbers
    BY <2>1, CheckBatchAnswers
  <2>3. /\ UNCHANGED <<hotshot, nextBatchPos, fallbackVars, hotShotPos, l1Vars, skipPos,
                       buffer, base, shadowed>>
        /\ \/ (ReturnTrue \/ ReturnFalse) /\ UNCHANGED <<headBatch, released>>
           \/ headBatch' = NoBatch /\ Release({headBatch}) /\ UNCHANGED callVars
    BY <1>15, Zenon DEF CheckHead
  <2>4. CASE (ReturnTrue \/ ReturnFalse) /\ UNCHANGED <<headBatch, released>>
    <3>1. CASE EndCall
      BY <2>2, <2>3, <2>4, <3>1, EndCallType DEF TypeOK
    <3>2. CASE ~EndCall
      BY <2>2, <2>3, <2>4, <3>2 DEF TypeOK, ReturnTrue, ReturnFalse
    <3> QED BY <3>1, <3>2
  <2>5. CASE headBatch' = NoBatch /\ Release({headBatch}) /\ UNCHANGED callVars
    BY <2>1, <2>2, <2>3, <2>5 DEF TypeOK, Release
  <2> QED BY <2>3, <2>4, <2>5
<1>16. CASE Deliver
  <2>1. hotShotPos' \in 0..(MaxUint64 - 1) /\ nextBatchPos' \in Nat
    BY <1>16, Constants DEF TypeOK, Deliver
  <2>2. EndCall /\ skipPos' \in 0..MaxUint64
    BY <1>16, Constants DEF Deliver
  <2> QED BY <1>16, <2>1, <2>2, EndCallType DEF TypeOK, Deliver
<1>17. ASSUME NEW parent \in ParentHashes, SetProperHead(parent)
       PROVE  TypeOK'
  <2>1. PICK k \in 0..Len(buffer) :
          /\ buffer' = SubSeq(buffer, k + 1, Len(buffer))
          /\ Release({buffer[i] : i \in 1..k} \cup ({headBatch} \ {NoBatch}))
    BY <1>17, Zenon DEF SetProperHead
  <2>2. buffer' \in Seq(Batch) /\ Len(buffer') <= Capacity
    BY <2>1, SuffixSorted, CapacityAssumption, LenProperties DEF TypeOK
  <2>3. released' \subseteq Batch
    BY <2>1, LenProperties, ElementOfSeq DEF TypeOK, Release
  <2> QED BY <1>17, <2>2, <2>3 DEF TypeOK, SetProperHead
<1>18. CASE UNCHANGED vars
  BY <1>18 DEF TypeOK, vars
<1> QED
  BY <1>1, <1>2, <1>3, <1>4, <1>5, <1>6, <1>7, <1>8, <1>9, <1>10, <1>11, <1>12,
     <1>13, <1>14, <1>15, <1>16, <1>17, <1>18
  DEF Next, UpdateStep, NextStep, HasNextStep, RefreshStep

(* The streamer's variables keep their types: the positions stay below the     *)
(* value that marks no pending rewind, the buffer within its capacity.         *)
THEOREM TypeCorrect == Spec => []TypeOK
<1>1. Init => TypeOK
  BY TypeInit
<1>2. TypeOK /\ [Next]_vars => TypeOK'
  BY TypeStep
<1> QED BY <1>1, <1>2, PTL DEF Spec

------------------------------------------------------------------------------
(* Delivery: the head is the batch that is due, and Next reaches its last part *)
(* only with a head that CheckBatch has just accepted.                         *)
DeliveryInv == HeadIsDue /\ DeliversOnlyFinal

(* What Refresh, RefreshSafeL1Origin and Reset do to head, buffer and scan. *)
LEMMA RefreshEffect ==
  ASSUME \/ Reset
         \/ \E h \in LightHeights \cup {Unreachable} : RefreshSafeL1Origin(h)
         \/ \E h \in LightHeights \cup {Unreachable}, f \in L1Numbers, safe \in SafeBatches,
              answered \in BOOLEAN : Refresh(f, safe, h, answered)
  PROVE  /\ pc = "idle" /\ UNCHANGED <<hotshot, l1Cache, callVars>>
         /\ \/ \E batchPos, pos : ResetTo(batchPos, pos)
            \/ UNCHANGED <<hotShotPos, nextBatchPos, headBatch, skipPos, buffer, ghostVars>>
<1>1. CASE Reset
  BY <1>1 DEF Reset
<1>2. ASSUME NEW h \in LightHeights \cup {Unreachable}, RefreshSafeL1Origin(h)
      PROVE  /\ pc = "idle" /\ UNCHANGED <<hotshot, l1Cache, callVars>>
             /\ \/ \E batchPos, pos : ResetTo(batchPos, pos)
                \/ UNCHANGED <<hotShotPos, nextBatchPos, headBatch, skipPos, buffer, ghostVars>>
  BY <1>2, Zenon DEF RefreshSafeL1Origin
<1>3. ASSUME NEW h \in LightHeights \cup {Unreachable}, NEW f \in L1Numbers,
             NEW safe \in SafeBatches, NEW answered \in BOOLEAN,
             Refresh(f, safe, h, answered)
      PROVE  /\ pc = "idle" /\ UNCHANGED <<hotshot, l1Cache, callVars>>
             /\ \/ \E batchPos, pos : ResetTo(batchPos, pos)
                \/ UNCHANGED <<hotShotPos, nextBatchPos, headBatch, skipPos, buffer, ghostVars>>
  BY <1>3, Zenon DEF Refresh
<1> QED BY <1>1, <1>2, <1>3

(* Every step keeps the head due, and final when it is handed out. *)
THEOREM DeliveryStep == TypeOK /\ DeliveryInv /\ [Next]_vars => DeliveryInv'
<1> SUFFICES ASSUME TypeOK, DeliveryInv, [Next]_vars PROVE DeliveryInv'
  OBVIOUS
<1> USE DEF DeliveryInv, HeadIsDue, DeliversOnlyFinal
<1>1. CASE RefreshStep \/ Reset
  <2>1. /\ pc = "idle" /\ UNCHANGED callVars
        /\ \/ \E batchPos, pos : ResetTo(batchPos, pos)
           \/ UNCHANGED <<hotShotPos, nextBatchPos, headBatch, skipPos, buffer, ghostVars>>
    BY <1>1, RefreshEffect DEF RefreshStep
  <2> QED BY <2>1 DEF ResetTo, callVars
<1>2. CASE \E latest \in 2..(HotShotHeight + 1) : CallUpdate(latest)
  BY <1>2 DEF CallUpdate
<1>3. CASE UpdateDone \/ FetchFails \/ FetchNothing \/ FetchRange \/ RangeProcessed
  BY <1>3 DEF UpdateDone, FetchFails, FetchNothing, FetchRange, RangeProcessed, EndCall
<1>4. ASSUME NEW i \in todo, ProcessTransaction(i)
      PROVE  DeliveryInv'
  <2>1. pc = "process" /\ UNCHANGED <<pc, nextBatchPos>>
    BY <1>4 DEF ProcessTransaction
  <2>2. \/ UNCHANGED headBatch
        \/ Admit(hotshot[i].tx, hotshot[i].block)
    BY <1>4, Zenon DEF ProcessTransaction
  <2>3. \/ UNCHANGED headBatch
        \/ headBatch' = hotshot[i].tx /\ hotshot[i].tx.number = nextBatchPos
    BY <2>2 DEF Admit, BecomesHead
  <2> QED BY <2>1, <2>3
<1>5. CASE \E who \in {"HasNext", "Next"} : CallHasNext(who)
  BY <1>5 DEF CallHasNext
<1>6. CASE NothingBuffered
  BY <1>6 DEF NothingBuffered, HeadMissing, ReturnFalse, EndCall
<1>7. CASE DiscardStale
  BY <1>7 DEF DiscardStale, HeadMissing, callVars
<1>8. CASE Promote
  BY <1>8 DEF Promote, HeadMissing, callVars
<1>9. ASSUME NEW verdict \in Validity, CheckHead(verdict)
      PROVE  DeliveryInv'
  <2>1. /\ pc = "hasNext" /\ headBatch \in Batch /\ headBatch # NoBatch
        /\ CheckBatch(headBatch, verdict)
        /\ UNCHANGED <<nextBatchPos, finalizedL1>>
    BY <1>9 DEF TypeOK, CheckHead, l1Vars
  <2>2. verdict = "accept" => /\ finalizedL1 # NoL1Ref /\ headBatch.origin <= finalizedL1
                              /\ Genuine(headBatch)
    BY <2>1, CheckBatchAnswers
  <2>3. CASE verdict = "accept"
    <3>1. UNCHANGED headBatch
      BY <1>9, <2>3 DEF CheckHead
    <3> QED BY <2>1, <2>2, <2>3, <3>1 DEF Genuine
  <2>4. CASE verdict # "accept"
    <3>1. /\ headBatch' \in {headBatch, NoBatch}
          /\ pc' # "deliver"
      BY <1>9, <2>1, <2>4 DEF CheckHead, ReturnFalse, EndCall, callVars
    <3> QED BY <2>1, <3>1
  <2> QED BY <2>3, <2>4
<1>10. CASE Deliver
  BY <1>10 DEF Deliver, EndCall
<1>11. CASE \E parent \in ParentHashes : SetProperHead(parent)
  BY <1>11 DEF SetProperHead, callVars
<1>12. CASE UNCHANGED vars
  BY <1>12 DEF vars, l1Vars, callVars, Genuine
<1> QED
  BY <1>1, <1>2, <1>3, <1>4, <1>5, <1>6, <1>7, <1>8, <1>9, <1>10, <1>11, <1>12
  DEF Next, UpdateStep, NextStep, HasNextStep

(* Next hands out only batches that are due, final, canonical and signed by    *)
(* the batcher authorized at their origin, whatever failed in between.         *)
THEOREM DeliveryCorrect == Spec => [](HeadIsDue /\ DeliversOnlyFinal)
<1>1. Init => DeliveryInv
  BY DEF Init, DeliveryInv, HeadIsDue, DeliversOnlyFinal
<1>2. TypeOK /\ DeliveryInv /\ [Next]_vars => DeliveryInv'
  BY DeliveryStep
<1>3. DeliveryInv => HeadIsDue /\ DeliversOnlyFinal
  BY DEF DeliveryInv
<1> QED BY <1>1, <1>2, <1>3, TypeCorrect, PTL DEF Spec

(* The head always has the number that is due, so no check of it can find it   *)
(* past and SetProperHead never returns early.                                 *)
THEOREM HeadCorrect == Spec => []HeadIsDue
BY DeliveryCorrect, PTL

(* What Peek shows stays: while Update or HasNext runs, an acceptable head is  *)
(* neither dropped nor replaced.                                               *)
THEOREM HeadIsStableStep ==
  ASSUME TypeOK, HeadIsDue, [Next]_vars,
         pc \in {"update", "process", "hasNext"}, Acceptable(headBatch)
  PROVE  UNCHANGED headBatch
<1>1. /\ headBatch \in Batch /\ headBatch # NoBatch
      /\ headBatch.number = nextBatchPos /\ nextBatchPos \in Nat
      /\ headBatch.signer # ZeroAddress
  BY StreamerAssumption DEF TypeOK, HeadIsDue, Acceptable
<1>2. ASSUME NEW verdict \in Validity, CheckBatch(headBatch, verdict)
      PROVE  verdict \in {"accept", "undecided"}
  <2>1. ~IsPast(headBatch)
    BY <1>1 DEF IsPast
  <2>2. /\ finalizedL1 # NoL1Ref /\ ~Unfinalized(headBatch)
        /\ Genuine(headBatch) /\ BatcherAt[headBatch.origin] # ZeroAddress
    BY <1>1, Constants DEF Acceptable, Unfinalized, Genuine, TypeOK, L1Numbers
  <2> QED BY <1>2, <2>1, <2>2, Zenon DEF CheckBatch
<1>3. ASSUME NEW i \in todo, ProcessTransaction(i) PROVE UNCHANGED headBatch
  <2>1. UNCHANGED headBatch \/ Admit(hotshot[i].tx, hotshot[i].block)
    BY <1>3, Zenon DEF ProcessTransaction
  <2> QED BY <1>1, <2>1 DEF Admit, BecomesHead
<1>4. ASSUME NEW verdict \in Validity, CheckHead(verdict) PROVE UNCHANGED headBatch
  BY <1>2, <1>4 DEF CheckHead
<1>5. CASE \/ UpdateDone \/ FetchFails \/ FetchNothing \/ FetchRange \/ RangeProcessed
           \/ UNCHANGED vars
  BY <1>5 DEF UpdateDone, FetchFails, FetchNothing, FetchRange, RangeProcessed, vars
<1>6. CASE NothingBuffered \/ DiscardStale \/ Promote
  BY <1>1, <1>6 DEF NothingBuffered, DiscardStale, Promote, HeadMissing
<1>7. ~(RefreshStep \/ Reset)
  BY RefreshEffect DEF RefreshStep
<1>8. ~\E latest \in 2..(HotShotHeight + 1) : CallUpdate(latest)
  BY DEF CallUpdate
<1>9. ~(\E who \in {"HasNext", "Next"} : CallHasNext(who)) /\ ~Deliver
  BY DEF CallHasNext, Deliver
<1>10. ~\E parent \in ParentHashes : SetProperHead(parent)
  BY DEF SetProperHead
<1> QED
  BY <1>3, <1>4, <1>5, <1>6, <1>7, <1>8, <1>9, <1>10
  DEF Next, UpdateStep, NextStep, HasNextStep

(* An acceptable head stays the head while Update or HasNext runs, in every     *)
(* behaviour.                                                                  *)
THEOREM HeadStays == Spec => HeadIsStable
<1>1. TypeOK /\ HeadIsDue /\ [Next]_vars
        => [(pc \in {"update", "process", "hasNext"} /\ Acceptable(headBatch))
              => UNCHANGED headBatch]_vars
  BY HeadIsStableStep
<1> QED BY <1>1, TypeCorrect, HeadCorrect, PTL DEF Spec, HeadIsStable

------------------------------------------------------------------------------
(* The streamer implements BatchFeed: every step advances by one, goes back to *)
(* the first batch behind the safe head, moves the safe head, or leaves both   *)
(* positions alone.                                                            *)
feedVars == <<fallbackBatchPos, nextBatchPos>>

(* Every step of a method is a step of BatchFeed, or none. *)
THEOREM FeedStep == TypeOK /\ [Next]_vars => [Feed!Next]_feedVars
<1> SUFFICES ASSUME TypeOK, [Next]_vars PROVE [Feed!Next]_feedVars
  OBVIOUS
<1>1. CASE Reset
  BY <1>1 DEF Reset, ResetTo, fallbackVars, Feed!Next, Feed!Rewind
<1>2. ASSUME NEW h \in LightHeights \cup {Unreachable}, RefreshSafeL1Origin(h)
      PROVE  [Feed!Next]_feedVars
  <2>1. \/ ResetTo(fallbackBatchPos, ConfirmedPos(h)) /\ UNCHANGED fallbackBatchPos
        \/ UNCHANGED feedVars
    BY <1>2, Zenon DEF RefreshSafeL1Origin, feedVars
  <2> QED BY <2>1 DEF ResetTo, Feed!Next, Feed!Rewind, feedVars
<1>3. ASSUME NEW h \in LightHeights \cup {Unreachable}, NEW f \in L1Numbers,
             NEW safe \in SafeBatches, NEW answered \in BOOLEAN,
             Refresh(f, safe, h, answered)
      PROVE  [Feed!Next]_feedVars
  <2>1. safe \in Nat /\ fallbackBatchPos \in Nat /\ nextBatchPos \in Nat
    BY Constants DEF TypeOK
  <2>2. /\ fallbackBatchPos' = safe
        /\ \/ nextBatchPos' = safe + 1
           \/ nextBatchPos' = nextBatchPos /\ safe >= fallbackBatchPos
              /\ (safe # fallbackBatchPos => nextBatchPos > safe)
    <3> DEFINE reset == Regressed(h)
               confirmed == ConfirmedPos(h)
               pos == IF reset THEN confirmed ELSE hotShotPos
               due == IF reset THEN fallbackBatchPos + 1 ELSE nextBatchPos
               safeReset == /\ safe # fallbackBatchPos
                            /\ \/ safe < fallbackBatchPos
                               \/ confirmed > pos
                               \/ due <= safe
    <3>1. /\ fallbackBatchPos' = safe
          /\ IF reset \/ safeReset
               THEN nextBatchPos' = (IF safeReset THEN safe ELSE fallbackBatchPos) + 1
               ELSE nextBatchPos' = nextBatchPos
      BY <1>3 DEF Refresh, ResetTo
    <3> HIDE DEF reset, confirmed
    <3> QED BY <2>1, <3>1
  <2> QED BY <2>1, <2>2 DEF Feed!Next, Feed!Refresh, Feed!Refreshed, feedVars
<1>4. CASE Deliver
  BY <1>4 DEF Deliver, fallbackVars, Feed!Next, Feed!Deliver
<1>5. CASE UpdateStep
  BY <1>5 DEF UpdateStep, CallUpdate, UpdateDone, FetchFails, FetchNothing, FetchRange,
              ProcessTransaction, RangeProcessed, fallbackVars, feedVars
<1>6. CASE HasNextStep
  BY <1>6 DEF HasNextStep, NothingBuffered, DiscardStale, Promote, CheckHead,
              fallbackVars, feedVars
<1>7. CASE \/ \E who \in {"HasNext", "Next"} : CallHasNext(who)
           \/ \E parent \in ParentHashes : SetProperHead(parent)
  BY <1>7 DEF CallHasNext, SetProperHead, fallbackVars, feedVars
<1>8. CASE UNCHANGED vars
  BY <1>8 DEF vars, fallbackVars, feedVars
<1> QED
  BY <1>1, <1>2, <1>3, <1>4, <1>5, <1>6, <1>7, <1>8 DEF Next, NextStep, RefreshStep

(* BatchStreamer keeps what the interface promises its caller (BatchFeed).     *)
THEOREM FeedCorrect == Spec => ImplementsFeed
<1>1. Init => Feed!Init
  BY DEF Init, Feed!Init
<1>2. TypeOK /\ [Next]_vars => [Feed!Next]_feedVars
  BY FeedStep
<1> QED BY <1>1, <1>2, TypeCorrect, PTL DEF Spec, ImplementsFeed, Feed!Spec, feedVars

------------------------------------------------------------------------------
(* The buffer changes in three ways: it is cleared, it loses batches at the    *)
(* front, or a batch it does not have goes in where the search ends.           *)
Inserted(b) ==
  ~AlreadyExists(buffer, b) /\ buffer' = InsertAt(buffer, SearchPos(buffer, b), b)

LEMMA BufferEffect ==
  ASSUME TypeOK, [Next]_vars
  PROVE  \/ buffer' = <<>>
         \/ \E k \in 0..Len(buffer) : buffer' = SubSeq(buffer, k + 1, Len(buffer))
         \/ buffer # <<>> /\ buffer' = Tail(buffer)
         \/ \E b \in Batch : Inserted(b)
         \/ UNCHANGED buffer
<1>1. CASE RefreshStep \/ Reset
  BY <1>1, RefreshEffect DEF RefreshStep, ResetTo
<1>2. ASSUME NEW i \in todo, ProcessTransaction(i)
      PROVE  \/ UNCHANGED buffer
             \/ \E b \in Batch : Inserted(b)
  <2> DEFINE b == hotshot[i].tx
  <2>1. b = Undecodable \/ b \in Batch
    BY Transactions DEF TypeOK
  <2>2. UNCHANGED buffer \/ (b # Undecodable /\ Admit(b, hotshot[i].block))
    BY <1>2, Zenon DEF ProcessTransaction
  <2> QED BY <2>1, <2>2 DEF Admit, Inserted
<1>3. CASE UpdateDone \/ FetchFails \/ FetchNothing \/ FetchRange \/ RangeProcessed
  BY <1>3 DEF UpdateDone, FetchFails, FetchNothing, FetchRange, RangeProcessed
<1>4. CASE \/ \E latest \in 2..(HotShotHeight + 1) : CallUpdate(latest)
           \/ \E who \in {"HasNext", "Next"} : CallHasNext(who)
           \/ \E verdict \in Validity : CheckHead(verdict)
           \/ NothingBuffered \/ Deliver
  BY <1>4 DEF CallUpdate, CallHasNext, CheckHead, NothingBuffered, Deliver
<1>5. CASE DiscardStale \/ Promote
  BY <1>5 DEF DiscardStale, Promote
<1>6. ASSUME NEW parent \in ParentHashes, SetProperHead(parent)
      PROVE  \E k \in 0..Len(buffer) : buffer' = SubSeq(buffer, k + 1, Len(buffer))
  BY <1>6 DEF SetProperHead
<1>7. CASE UNCHANGED vars
  BY <1>7 DEF vars
<1> QED
  BY <1>1, <1>2, <1>3, <1>4, <1>5, <1>6, <1>7 DEF Next, UpdateStep, NextStep, HasNextStep

(* No step puts the buffer out of order. *)
THEOREM SortedStep == TypeOK /\ BufferSorted /\ [Next]_vars => BufferSorted'
<1> SUFFICES ASSUME TypeOK, BufferSorted, [Next]_vars PROVE SortedByNumber(buffer')
  BY DEF BufferSorted, SortedByNumber
<1>0. buffer \in Seq(Batch) /\ SortedByNumber(buffer)
  BY DEF TypeOK, BufferSorted
<1>1. CASE buffer' = <<>>
  BY <1>1 DEF SortedByNumber
<1>2. CASE \E k \in 0..Len(buffer) : buffer' = SubSeq(buffer, k + 1, Len(buffer))
  BY <1>0, <1>2, SuffixSorted
<1>3. CASE buffer # <<>> /\ buffer' = Tail(buffer)
  BY <1>0, <1>3, TailSorted
<1>4. ASSUME NEW b \in Batch, Inserted(b) PROVE SortedByNumber(buffer')
  <2>1. SearchPos(buffer, b) \in InsertPoints(buffer, b)
    BY <1>0, <1>4, SearchFinds DEF Inserted
  <2> QED BY <1>0, <1>4, <2>1, InsertAtSorted DEF Inserted
<1>5. CASE UNCHANGED buffer
  BY <1>0, <1>5
<1> QED BY <1>1, <1>2, <1>3, <1>4, <1>5, BufferEffect

(* The buffer is sorted by number in every reachable state. *)
THEOREM BufferStaysSorted == Spec => []BufferSorted
<1>1. Init => BufferSorted
  BY DEF Init, BufferSorted, SortedByNumber
<1> QED BY <1>1, SortedStep, TypeCorrect, PTL DEF Spec

------------------------------------------------------------------------------
(* Rewinding: ScanBounds is what makes RewindWithinScan inductive.             *)
RewindInv == ScanBounds /\ RewindWithinScan

(* No step moves a pending rewind out of the stretch that was read. *)
THEOREM RewindStep == TypeOK /\ RewindInv /\ [Next]_vars => RewindInv'
<1> SUFFICES ASSUME TypeOK, RewindInv, [Next]_vars PROVE RewindInv'
  OBVIOUS
<1> USE DEF RewindInv, ScanBounds, RewindWithinScan
<1>0. /\ hotShotPos \in Nat /\ base \in Nat /\ skipPos \in Nat /\ base <= hotShotPos
      /\ MaxUint64 \in Nat
  BY Constants DEF TypeOK
<1>1. CASE RefreshStep \/ Reset
  <2>1. /\ pc = "idle" /\ UNCHANGED callVars /\ UNCHANGED hotshot
        /\ \/ \E batchPos, pos : ResetTo(batchPos, pos)
           \/ UNCHANGED <<hotShotPos, nextBatchPos, headBatch, skipPos, buffer, ghostVars>>
    BY <1>1, RefreshEffect DEF RefreshStep
  <2>2. CASE \E batchPos, pos : ResetTo(batchPos, pos)
    <3>1. base' = hotShotPos' /\ skipPos' = MaxUint64 /\ todo' = {} /\ hotShotPos' \in Nat
      BY <2>1, <2>2, TypeStep, Constants DEF ResetTo, callVars, TypeOK
    <3> QED BY <3>1
  <2>3. CASE UNCHANGED <<hotShotPos, nextBatchPos, headBatch, skipPos, buffer, ghostVars>>
    BY <2>1, <2>3 DEF callVars, ghostVars
  <2> QED BY <2>1, <2>2, <2>3
<1>2. CASE \/ \E latest \in 2..(HotShotHeight + 1) : CallUpdate(latest)
           \/ \E who \in {"HasNext", "Next"} : CallHasNext(who)
           \/ UpdateDone \/ FetchFails \/ FetchNothing \/ RangeProcessed
  BY <1>2 DEF CallUpdate, CallHasNext, UpdateDone, FetchFails, FetchNothing, RangeProcessed,
              EndCall, ghostVars
<1>3. CASE FetchRange
  <2>1. /\ Start \in Nat /\ Finish \in Nat /\ hotShotPos <= Finish - 1
        /\ pc = "update" /\ ~RangeExhausted
    BY <1>3, RangeType DEF FetchRange
  <2>2. /\ hotShotPos' = Finish - 1 /\ todo' = InRange /\ pc' = "process"
        /\ UNCHANGED <<hotshot, skipPos, base>>
    BY <1>3 DEF FetchRange, ghostVars
  <2>3. ASSUME NEW i \in InRange
        PROVE  hotshot[i].block <= Finish - 1 /\ (base = 0 \/ base < hotshot[i].block)
    <3>1. hotshot[i].block \in Start..(Finish - 1)
      BY DEF InRange
    <3>2. base = 0 \/ base < Start
      BY <1>0 DEF Start
    <3> QED BY <1>0, <2>1, <3>1, <3>2
  <2> QED BY <1>0, <2>1, <2>2, <2>3
<1>4. ASSUME NEW i \in todo, ProcessTransaction(i)
      PROVE  RewindInv'
  <2>1. /\ UNCHANGED <<hotshot, hotShotPos, base, pc>> /\ todo' = todo \ {i}
        /\ pc = "process"
    BY <1>4 DEF ProcessTransaction
  <2>2. /\ hotshot[i].block \in Nat /\ hotshot[i].block <= hotShotPos
        /\ base = 0 \/ base < hotshot[i].block
    BY Transactions, Constants DEF TypeOK
  <2>3. \/ UNCHANGED skipPos
        \/ skipPos' = Min2(skipPos, RewindTo(hotshot[i].block))
    BY <1>4, Zenon DEF ProcessTransaction, Admit
  <2>4. /\ RewindTo(hotshot[i].block) \in Nat
        /\ base <= RewindTo(hotshot[i].block)
        /\ RewindTo(hotshot[i].block) <= hotShotPos
    BY <1>0, <2>2 DEF RewindTo
  <2>5. CASE UNCHANGED skipPos
    BY <2>1, <2>5
  <2>6. CASE skipPos' = Min2(skipPos, RewindTo(hotshot[i].block))
    <3>1. base <= skipPos' /\ skipPos' <= hotShotPos
      <4>1. hotShotPos < MaxUint64
        BY Constants DEF TypeOK
      <4> QED BY <1>0, <2>4, <2>6, <4>1 DEF Min2
    <3> QED BY <2>1, <3>1
  <2> QED BY <2>3, <2>5, <2>6
<1>5. CASE NothingBuffered
  BY <1>5 DEF NothingBuffered, HeadMissing, ReturnFalse, EndCall, ghostVars
<1>6. CASE DiscardStale \/ Promote
  BY <1>6 DEF DiscardStale, Promote, callVars, ghostVars
<1>7. ASSUME NEW verdict \in Validity, CheckHead(verdict)
      PROVE  RewindInv'
  <2>1. /\ pc = "hasNext" /\ todo' = {} /\ UNCHANGED <<hotshot, hotShotPos, skipPos, base>>
    BY <1>7 DEF CheckHead, ReturnTrue, ReturnFalse, EndCall, callVars
  <2> QED BY <2>1
<1>8. CASE Deliver
  BY <1>0, <1>8 DEF Deliver, EndCall, ghostVars
<1>9. CASE \E parent \in ParentHashes : SetProperHead(parent)
  BY <1>9 DEF SetProperHead, callVars
<1>10. CASE UNCHANGED vars
  BY <1>10 DEF vars, callVars, ghostVars
<1> QED
  BY <1>1, <1>2, <1>3, <1>4, <1>5, <1>6, <1>7, <1>8, <1>9, <1>10
  DEF Next, UpdateStep, NextStep, HasNextStep

(* The rewind of Next never skips a block: skipPos lies between the block      *)
(* reading restarted from and the block reading has reached.                   *)
THEOREM RewindCorrect == Spec => []RewindWithinScan
<1>1. Init => RewindInv
  BY Constants DEF Init, RewindInv, ScanBounds, RewindWithinScan
<1>2. RewindInv => RewindWithinScan
  BY DEF RewindInv
<1> QED BY <1>1, <1>2, RewindStep, TypeCorrect, PTL DEF Spec

------------------------------------------------------------------------------
(* No batch is lost.  Insert and the head test tell batches apart by hash, and *)
(* the hash of a batch covers neither its signer nor its L1 origin: a valid    *)
(* batch taken for a duplicate is held already (GenuineAssumption), or a copy  *)
(* that is not valid shadows it.                                               *)

(* What NoBatchLost says of transaction i. *)
Kept(i) ==
  LET b == hotshot[i].tx
  IN  (b # Undecodable /\ Scanned(i) /\ Genuine(b) /\ b.number >= nextBatchPos)
        => \/ Held(b) \/ b \in released \/ b \in shadowed
           \/ skipPos < hotshot[i].block \/ skipPos = 0

(* Admitting a batch: what was held is still held, and the batch itself is     *)
(* held, shadowed or will be read again.                                       *)
LEMMA AdmitKeeps ==
  ASSUME TypeOK, NEW b \in Batch, NEW block \in Nat, Admit(b, block)
  PROVE  /\ \A c \in Batch : Held(c) => Held(c)'
         /\ skipPos' <= skipPos /\ shadowed \subseteq shadowed'
         /\ Genuine(b) => Held(b)' \/ b \in shadowed' \/ skipPos' < block \/ skipPos' = 0
<1>a. ASSUME NEW c \in Batch, Held(c), c.hash = b.hash, Shadow(b), Genuine(b)
      PROVE  Held(b) \/ b \in shadowed'
  <2>1. CASE Genuine(c)
    <3>1. c = b
      BY <1>a, <2>1, GenuineAssumption, Zenon
    <3> QED BY <1>a, <3>1
  <2>2. CASE ~Genuine(c)
    BY <1>a, <2>2 DEF Shadow
  <2> QED BY <2>1, <2>2
<1>b. shadowed \subseteq shadowed'
  BY DEF Admit, Shadow
<1>0. /\ buffer \in Seq(Batch) /\ Len(buffer) \in Nat
      /\ headBatch \in Batch \cup {NoBatch} /\ NoBatch \notin Batch
      /\ skipPos \in Nat
      /\ \A k \in 1..Len(buffer) : buffer[k] \in Batch
  BY LenProperties, ElementOfSeq, Constants DEF TypeOK
<1>1. CASE IsHead(b) /\ Shadow(b) /\ UNCHANGED <<headBatch, buffer, skipPos>>
  <2>1. headBatch \in Batch /\ headBatch.hash = b.hash /\ Held(headBatch)
    BY <1>0, <1>1 DEF IsHead, Held
  <2>2. \A c : Held(c) => Held(c)'
    BY <1>1 DEF Held
  <2> QED BY <1>0, <1>a, <1>b, <1>1, <2>1, <2>2
<1>2. CASE headBatch = NoBatch /\ headBatch' = b /\ UNCHANGED <<buffer, skipPos>>
  BY <1>0, <1>b, <1>2 DEF Held
<1>3. CASE skipPos' = Min2(skipPos, RewindTo(block)) /\ UNCHANGED <<headBatch, buffer>>
  BY <1>0, <1>b, <1>3 DEF Held, Min2, RewindTo
<1>4. CASE AlreadyExists(buffer, b) /\ Shadow(b) /\ UNCHANGED <<headBatch, buffer, skipPos>>
  <2>1. PICK k \in 1..Len(buffer) : Cmp(buffer[k], b) = 0
    BY <1>4 DEF AlreadyExists
  <2>2. buffer[k].hash = b.hash
    <3>1. CASE buffer[k].hash # b.hash
      <4>1. Cmp(buffer[k], b) \in {1, -1}
        BY <3>1 DEF Cmp
      <4> QED BY <2>1, <4>1
    <3> QED BY <3>1
  <2>3. buffer[k] \in Batch /\ Held(buffer[k])
    BY <1>0 DEF Held
  <2>4. \A c : Held(c) => Held(c)'
    BY <1>4 DEF Held
  <2> QED BY <1>0, <1>a, <1>b, <1>4, <2>2, <2>3, <2>4
<1>5. ASSUME NEW p, p = SearchPos(buffer, b), buffer' = InsertAt(buffer, p, b),
             UNCHANGED <<headBatch, skipPos>>
      PROVE  /\ \A c \in Batch : Held(c) => Held(c)'
             /\ skipPos' <= skipPos /\ Held(b)'
  <2>1. p \in 0..Len(buffer)
    BY <1>0, <1>5, SearchEnds
  <2> DEFINE longer == InsertAt(buffer, p, b)
  <2>a. /\ Len(longer) = Len(buffer) + 1
        /\ \A k \in 1..(Len(buffer) + 1) :
             longer[k] = IF k <= p THEN buffer[k] ELSE IF k = p + 1 THEN b ELSE buffer[k - 1]
    <3>1. Spliced(longer, Batch, buffer, p, b)
      BY <1>0, <2>1, Splice, Zenon
    <3> HIDE DEF longer
    <3> QED BY <3>1 DEF Spliced
  <2>b. buffer' = longer
    BY <1>5
  <2> HIDE DEF longer
  <2>2. /\ Len(buffer') = Len(buffer) + 1
        /\ \A k \in 1..(Len(buffer) + 1) :
             buffer'[k] = IF k <= p THEN buffer[k] ELSE IF k = p + 1 THEN b ELSE buffer[k - 1]
    BY <2>a, <2>b, Zenon
  <2>3. buffer'[p + 1] = b /\ p + 1 \in 1..Len(buffer')
    BY <1>0, <2>1, <2>2
  <2>4. ASSUME NEW k \in 1..Len(buffer)
        PROVE  \E l \in 1..Len(buffer') : buffer'[l] = buffer[k]
    <3>1. CASE k <= p
      BY <1>0, <2>1, <2>2, <3>1
    <3>2. CASE k > p
      <4>1. k + 1 \in 1..Len(buffer') /\ buffer'[k + 1] = buffer[k]
        BY <1>0, <2>1, <2>2, <3>2
      <4> QED BY <4>1
    <3> QED BY <1>0, <2>1, <3>1, <3>2
  <2> QED BY <1>0, <1>5, <2>3, <2>4 DEF Held
<1> QED BY <1>b, <1>1, <1>2, <1>3, <1>4, <1>5, Zenon DEF Admit, BecomesHead

(* Steps that read nothing and lose nothing of transaction i. *)
LEMMA QuietKeeps ==
  ASSUME NEW i \in DOMAIN hotshot, Kept(i),
         UNCHANGED <<hotshot, nextBatchPos, hotShotPos, skipPos, base>>,
         i \notin todo' => i \notin todo,
         released \subseteq released', shadowed \subseteq shadowed',
         (/\ hotshot[i].tx # Undecodable /\ Genuine(hotshot[i].tx)
          /\ hotshot[i].tx.number >= nextBatchPos /\ Held(hotshot[i].tx))
            => Held(hotshot[i].tx)' \/ hotshot[i].tx \in released'
  PROVE  Kept(i)'
<1> DEFINE b == hotshot[i].tx
<1>1. b' = b /\ (Genuine(b)' <=> Genuine(b)) /\ hotshot'[i].block = hotshot[i].block
  BY DEF Genuine
<1>2. Scanned(i)' => Scanned(i)
  BY DEF Scanned
<1>3. Held(b)' = Held(hotshot[i].tx)'
  OBVIOUS
<1> QED BY <1>1, <1>2, <1>3 DEF Kept

(* The fetch of a range reads its transactions into todo. *)
LEMMA FetchKeeps ==
  ASSUME TypeOK, RewindInv, FetchRange, NEW i \in DOMAIN hotshot, Kept(i)
  PROVE  Kept(i)'
<1>0. /\ hotShotPos \in Nat /\ base \in Nat /\ hotshot[i].block \in Nat
      /\ Start \in Nat /\ Finish \in Nat /\ todo = {}
  BY RangeType, Transactions DEF TypeOK, FetchRange, RewindInv, ScanBounds
<1>1. /\ hotShotPos' = Finish - 1 /\ todo' = InRange
      /\ UNCHANGED <<hotshot, nextBatchPos, skipPos, base, headBatch, buffer, released, shadowed>>
  BY DEF FetchRange, ghostVars
<1>2. ASSUME Scanned(i)' PROVE Scanned(i)
  <2>1. /\ hotshot[i].block <= Finish - 1 /\ i \notin InRange
        /\ hotshot[i].block > base \/ base = 0
    BY <1>1, <1>2 DEF Scanned
  <2>2. hotshot[i].block < Start
    BY <1>0, <2>1 DEF InRange
  <2> QED BY <1>0, <2>1, <2>2 DEF Scanned, Start
<1>3. (Genuine(hotshot[i].tx)' <=> Genuine(hotshot[i].tx))
      /\ (Held(hotshot[i].tx)' <=> Held(hotshot[i].tx))
  BY <1>1 DEF Genuine, Held
<1> QED BY <1>1, <1>2, <1>3 DEF Kept

(* Processing a transaction keeps it and loses no other. *)
LEMMA ProcessKeeps ==
  ASSUME TypeOK, NEW j \in todo, ProcessTransaction(j),
         NEW i \in DOMAIN hotshot, Kept(i)
  PROVE  Kept(i)'
<1> DEFINE b == hotshot[i].tx
           c == hotshot[j].tx
<1>0. /\ j \in DOMAIN hotshot /\ hotshot[i].block \in Nat /\ hotshot[j].block \in Nat
      /\ b = Undecodable \/ b \in Batch
      /\ c = Undecodable \/ c \in Batch
      /\ skipPos \in Nat /\ skipPos' \in Nat
  <2>1. j \in DOMAIN hotshot /\ hotshot \in Histories /\ skipPos \in Nat
    BY Constants DEF TypeOK
  <2>2. TypeOK'
    BY TypeStep DEF Next, UpdateStep
  <2>3. skipPos' \in Nat
    BY <2>2, Constants DEF TypeOK
  <2> QED BY <2>1, <2>3, Transactions, Constants
<1>1. /\ UNCHANGED <<hotshot, nextBatchPos, hotShotPos, base>>
      /\ todo' = todo \ {j}
  BY DEF ProcessTransaction
<1>2. \/ c = Undecodable /\ UNCHANGED <<headBatch, buffer, skipPos, released, shadowed>>
      \/ c # Undecodable /\ Release({c}) /\ UNCHANGED <<headBatch, buffer, skipPos, shadowed>>
      \/ c # Undecodable /\ Admit(c, hotshot[j].block) /\ UNCHANGED released
  BY Zenon DEF ProcessTransaction
<1>3. /\ Genuine(b)' <=> Genuine(b)
      /\ b' = b /\ hotshot'[i].block = hotshot[i].block
      /\ Held(b)' = Held(hotshot[i].tx)'
  BY <1>1 DEF Genuine
<1>4. i # j => (Scanned(i)' => Scanned(i))
  BY <1>1 DEF Scanned
<1>5. CASE c = Undecodable /\ UNCHANGED <<headBatch, buffer, skipPos, released, shadowed>>
  <2>1. Held(b)' <=> Held(b)
    BY <1>1, <1>5 DEF Held
  <2> QED BY <1>1, <1>3, <1>4, <1>5, <2>1 DEF Kept
<1>6. CASE c # Undecodable /\ Release({c}) /\ UNCHANGED <<headBatch, buffer, skipPos, shadowed>>
  <2>1. Held(b)' <=> Held(b)
    BY <1>1, <1>6 DEF Held
  <2>2. /\ released \subseteq released'
        /\ (i = j /\ Genuine(b) /\ ~IsPast(b)) => b \in released'
    BY <1>6 DEF Release
  <2>3. b \in Batch => b.number \in Nat /\ nextBatchPos \in Nat
    BY Constants DEF TypeOK
  <2>4. (b \in Batch /\ b.number >= nextBatchPos) => ~IsPast(b)
    BY <2>3 DEF IsPast
  <2> QED BY <1>0, <1>1, <1>3, <1>4, <1>6, <2>1, <2>2, <2>4 DEF Kept
<1>7. CASE c # Undecodable /\ Admit(c, hotshot[j].block) /\ UNCHANGED released
  <2>1. /\ b \in Batch /\ Held(b) => Held(b)'
        /\ skipPos' <= skipPos /\ shadowed \subseteq shadowed'
        /\ Genuine(c) => \/ Held(c)' \/ c \in shadowed'
                         \/ skipPos' < hotshot[j].block \/ skipPos' = 0
    <3> SUFFICES ASSUME NEW d \in Batch, d = c, NEW block \in Nat, block = hotshot[j].block,
                        Admit(d, block)
                 PROVE  /\ b \in Batch /\ Held(b) => Held(b)'
                        /\ skipPos' <= skipPos /\ shadowed \subseteq shadowed'
                        /\ Genuine(c) => \/ Held(c)' \/ c \in shadowed'
                                         \/ skipPos' < hotshot[j].block \/ skipPos' = 0
      BY <1>0, <1>7
    <3>0. c' = d
      BY <1>1
    <3>1. /\ \A e \in Batch : Held(e) => Held(e)'
          /\ skipPos' <= skipPos /\ shadowed \subseteq shadowed'
          /\ Genuine(d) => Held(d)' \/ d \in shadowed' \/ skipPos' < block \/ skipPos' = 0
      BY AdmitKeeps
    <3>3. Held(d)' => Held(c)'
      BY <3>0 DEF Held
    <3>2. ASSUME b \in Batch, Held(b) PROVE Held(b)'
      BY <1>1, <3>1, <3>2 DEF Held
    <3> QED BY <3>1, <3>2, <3>3
  <2>2. CASE i = j
    <3>1. Held(c)' => Held(b)'
      BY <1>1, <2>2 DEF Held
    <3> QED BY <1>0, <1>1, <1>3, <2>1, <2>2, <3>1 DEF Kept
  <2>3. CASE i # j
    <3>1. (skipPos < hotshot[i].block \/ skipPos = 0)
            => (skipPos' < hotshot[i].block \/ skipPos' = 0)
      BY <1>0, <2>1
    <3> QED BY <1>0, <1>1, <1>3, <1>4, <1>7, <2>1, <2>3, <3>1 DEF Kept
  <2> QED BY <2>2, <2>3
<1> QED BY <1>2, <1>5, <1>6, <1>7

(* Delivering the head: a rewind that is pending is done, and what it will     *)
(* read again does not count as read.                                          *)
LEMMA DeliverKeeps ==
  ASSUME TypeOK, RewindInv, DeliveryInv, Deliver, NEW i \in DOMAIN hotshot, Kept(i)
  PROVE  Kept(i)'
<1> DEFINE b == hotshot[i].tx
<1>0. /\ hotShotPos \in Nat /\ base \in Nat /\ nextBatchPos \in Nat /\ skipPos \in Nat
      /\ hotshot[i].block \in Nat /\ hotshot[i].block < MaxUint64 /\ MaxUint64 \in Nat
      /\ MaxUint64 > 0
      /\ b # Undecodable => b.number \in Nat
  BY Transactions, Constants DEF TypeOK
<1>1. /\ todo = {} /\ todo' = {} /\ headBatch.number = nextBatchPos
      /\ skipPos # MaxUint64 => base <= skipPos /\ skipPos <= hotShotPos
  BY DEF Deliver, RewindInv, ScanBounds, RewindWithinScan, DeliveryInv, DeliversOnlyFinal,
         EndCall
<1>2. /\ nextBatchPos' = nextBatchPos + 1
      /\ hotShotPos' = IF skipPos # MaxUint64 THEN skipPos ELSE hotShotPos
      /\ UNCHANGED <<hotshot, buffer, base, released, shadowed>>
  BY DEF Deliver, ghostVars
<1>3. SUFFICES ASSUME b # Undecodable, Scanned(i)', Genuine(b), b.number >= nextBatchPos + 1
               PROVE  Held(b)' \/ b \in released \/ b \in shadowed
  BY <1>2 DEF Kept, Genuine
<1>4. /\ hotshot[i].block <= hotShotPos'
      /\ hotshot[i].block > base \/ (base = 0 /\ hotShotPos' > 0)
  BY <1>2, <1>3 DEF Scanned
<1>5. hotShotPos' \in Nat /\ hotShotPos' <= hotShotPos
  BY <1>0, <1>1, <1>2
<1>6. Scanned(i)
  BY <1>0, <1>1, <1>4, <1>5 DEF Scanned
<1>7. Held(b) \/ b \in released \/ b \in shadowed \/ skipPos < hotshot[i].block \/ skipPos = 0
  BY <1>0, <1>3, <1>6 DEF Kept
<1>8. ~(skipPos < hotshot[i].block \/ skipPos = 0)
  BY <1>0, <1>1, <1>2, <1>4
<1>9. b # headBatch
  BY <1>0, <1>1, <1>3
<1> QED BY <1>2, <1>7, <1>8, <1>9 DEF Held

(* What HotShot has finalized never changes. *)
LEMMA HistoryFixed == [Next]_vars => UNCHANGED hotshot
<1> SUFFICES ASSUME [Next]_vars PROVE UNCHANGED hotshot
  OBVIOUS
<1>1. CASE RefreshStep \/ Reset
  BY <1>1, RefreshEffect DEF RefreshStep
<1>2. CASE UpdateStep
  BY <1>2 DEF UpdateStep, CallUpdate, UpdateDone, FetchFails, FetchNothing, FetchRange,
              ProcessTransaction, RangeProcessed
<1>3. CASE NextStep
  BY <1>3 DEF NextStep, HasNextStep, CallHasNext, NothingBuffered, DiscardStale, Promote,
              CheckHead, Deliver
<1>4. CASE \E parent \in ParentHashes : SetProperHead(parent)
  BY <1>4 DEF SetProperHead
<1> QED BY <1>1, <1>2, <1>3, <1>4 DEF Next, vars

(* Every step keeps what NoBatchLost says of every transaction. *)
THEOREM NoBatchLostStep ==
  TypeOK /\ RewindInv /\ DeliveryInv /\ NoBatchLost /\ [Next]_vars => NoBatchLost'
<1> SUFFICES ASSUME TypeOK, RewindInv, DeliveryInv, [Next]_vars,
                    NEW i \in DOMAIN hotshot, Kept(i)
             PROVE  Kept(i)'
  <2>1. [Next]_vars => UNCHANGED hotshot
    BY HistoryFixed
  <2> QED BY <2>1, Zenon DEF NoBatchLost, Kept
<1> DEFINE b == hotshot[i].tx
<1>0. /\ hotshot[i].block \in Nat
      /\ b = Undecodable \/ b \in Batch
      /\ hotShotPos \in Nat /\ nextBatchPos \in Nat
      /\ pc # "process" => todo = {}
  BY Transactions DEF TypeOK, RewindInv, ScanBounds
<1>1. CASE RefreshStep \/ Reset
  <2>1. /\ pc = "idle" /\ UNCHANGED callVars /\ UNCHANGED hotshot
        /\ \/ \E batchPos, pos : ResetTo(batchPos, pos)
           \/ UNCHANGED <<hotShotPos, nextBatchPos, headBatch, skipPos, buffer, ghostVars>>
    BY <1>1, RefreshEffect DEF RefreshStep
  <2>2. CASE \E batchPos, pos : ResetTo(batchPos, pos)
    <3>1. base' = hotShotPos' /\ hotShotPos' \in Nat
      BY <2>2, TypeStep DEF ResetTo, TypeOK
    <3>2. ~Scanned(i)'
      BY <1>0, <2>1, <3>1 DEF Scanned
    <3> QED BY <2>1, <3>2 DEF Kept
  <2>3. CASE UNCHANGED <<hotShotPos, nextBatchPos, headBatch, skipPos, buffer, ghostVars>>
    <3>1. Held(b) => Held(b)'
      BY <2>1, <2>3 DEF Held
    <3> QED BY <2>1, <2>3, <3>1, QuietKeeps DEF ghostVars, callVars
  <2> QED BY <2>1, <2>2, <2>3
<1>2. CASE \/ \E latest \in 2..(HotShotHeight + 1) : CallUpdate(latest)
           \/ \E who \in {"HasNext", "Next"} : CallHasNext(who)
           \/ UpdateDone \/ FetchFails \/ FetchNothing \/ RangeProcessed \/ NothingBuffered
  <2>1. /\ UNCHANGED <<hotshot, nextBatchPos, hotShotPos, skipPos, headBatch, buffer, ghostVars>>
        /\ UNCHANGED todo \/ todo' = {}
        /\ todo = {}
    BY <1>0, <1>2 DEF CallUpdate, CallHasNext, UpdateDone, FetchFails, FetchNothing,
                      RangeProcessed, NothingBuffered, HeadMissing, ReturnFalse, EndCall
  <2>2. Held(b) => Held(b)'
    BY <2>1 DEF Held
  <2> QED BY <2>1, <2>2, QuietKeeps DEF ghostVars
<1>3. CASE FetchRange
  BY <1>3, FetchKeeps DEF FetchRange
<1>4. ASSUME NEW j \in todo, ProcessTransaction(j)
      PROVE  Kept(i)'
  BY <1>4, ProcessKeeps DEF ProcessTransaction
<1>5. CASE DiscardStale \/ Promote
  <2>1. /\ UNCHANGED <<hotshot, nextBatchPos, hotShotPos, skipPos, callVars, ghostVars>>
        /\ buffer # <<>> /\ buffer' = Tail(buffer) /\ headBatch = NoBatch
        /\ \/ Head(buffer).number < nextBatchPos /\ UNCHANGED headBatch
           \/ headBatch' = Head(buffer)
    BY <1>5 DEF DiscardStale, Promote, HeadMissing
  <2>2. /\ Len(buffer) \in Nat \ {0} /\ Len(Tail(buffer)) = Len(buffer) - 1
        /\ Head(buffer) = buffer[1]
        /\ \A k \in 1..(Len(buffer) - 1) : Tail(buffer)[k] = buffer[k + 1]
    BY <2>1, LenProperties, HeadTailProperties DEF TypeOK
  <2>3. ASSUME b # Undecodable, b.number >= nextBatchPos, Held(b)
        PROVE  Held(b)'
    <3>1. PICK k \in 1..Len(buffer) : buffer[k] = b
      BY <1>0, <2>1, <2>3, Constants DEF Held
    <3>2. CASE k = 1
      <4>1. headBatch' = b
        BY <1>0, <2>1, <2>2, <2>3, <3>1, <3>2, Constants
      <4> QED BY <2>1, <4>1 DEF Held
    <3>3. CASE k # 1
      <4>1. k - 1 \in 1..Len(buffer') /\ buffer'[k - 1] = b
        BY <2>1, <2>2, <3>1, <3>3
      <4> QED BY <2>1, <4>1 DEF Held
    <3> QED BY <3>2, <3>3
  <2> QED BY <2>1, <2>3, QuietKeeps DEF ghostVars, callVars
<1>6. ASSUME NEW verdict \in Validity, CheckHead(verdict)
      PROVE  Kept(i)'
  <2>1. /\ UNCHANGED <<hotshot, nextBatchPos, hotShotPos, skipPos, buffer, base, shadowed>>
        /\ todo = {} /\ todo' = {}
        /\ \/ UNCHANGED <<headBatch, released>>
           \/ headBatch' = NoBatch /\ Release({headBatch})
    BY <1>0, <1>6 DEF CheckHead, ReturnTrue, ReturnFalse, EndCall, callVars
  <2>2. released \subseteq released'
    BY <2>1 DEF Release
  <2>3. ASSUME b # Undecodable, Genuine(b), b.number >= nextBatchPos, Held(b)
        PROVE  Held(b)' \/ b \in released'
    <3>1. b.number \in Nat
      BY <1>0, <2>3, Constants
    <3> QED BY <1>0, <2>1, <2>3, <3>1 DEF Held, Release, IsPast
  <2> QED BY <2>1, <2>2, <2>3, QuietKeeps
<1>7. CASE Deliver
  BY <1>7, DeliverKeeps DEF Deliver
<1>8. ASSUME NEW parent \in ParentHashes, SetProperHead(parent)
      PROVE  Kept(i)'
  <2>1. PICK k \in 0..Len(buffer) :
          /\ buffer' = SubSeq(buffer, k + 1, Len(buffer))
          /\ Release({buffer[l] : l \in 1..k} \cup ({headBatch} \ {NoBatch}))
    BY <1>8, Zenon DEF SetProperHead
  <2>2. /\ UNCHANGED <<hotshot, nextBatchPos, hotShotPos, skipPos, callVars, base, shadowed>>
        /\ headBatch' = NoBatch
    BY <1>8 DEF SetProperHead
  <2>3. /\ released \subseteq released'
        /\ \A c \in {buffer[l] : l \in 1..k} \cup ({headBatch} \ {NoBatch}) :
             Genuine(c) /\ ~IsPast(c) => c \in released'
    BY <2>1 DEF Release
  <2>4. /\ Len(buffer) \in Nat /\ Len(buffer') = Len(buffer) - k
        /\ \A l \in 1..(Len(buffer) - k) : buffer'[l] = buffer[k + l]
    <3>1. Len(buffer) \in Nat /\ \A l \in 1..Len(buffer) : buffer[l] \in Batch
      BY LenProperties, ElementOfSeq DEF TypeOK
    <3>2. k + 1 \in Int /\ \A l \in (k + 1)..Len(buffer) : buffer[l] \in Batch
      BY <3>1
    <3>3. /\ Len(SubSeq(buffer, k + 1, Len(buffer)))
               = IF k + 1 <= Len(buffer) THEN Len(buffer) - (k + 1) + 1 ELSE 0
          /\ \A l \in 1..(Len(buffer) - (k + 1) + 1) :
               SubSeq(buffer, k + 1, Len(buffer))[l] = buffer[(k + 1) + l - 1]
      BY <3>1, <3>2, Slice
    <3> QED BY <2>1, <3>1, <3>3
  <2>5. ASSUME b # Undecodable, Genuine(b), b.number >= nextBatchPos, Held(b)
        PROVE  Held(b)' \/ b \in released'
    <3>1. ~IsPast(b) /\ b # NoBatch
      BY <1>0, <2>5, Constants DEF IsPast
    <3>2. CASE b = headBatch
      BY <2>3, <2>5, <3>1, <3>2
    <3>3. ASSUME NEW l \in 1..Len(buffer), buffer[l] = b
          PROVE  Held(b)' \/ b \in released'
      <4>1. CASE l <= k
        <5>1. b \in {buffer[m] : m \in 1..k}
          BY <2>4, <3>3, <4>1
        <5> QED BY <2>3, <2>5, <3>1, <5>1
      <4>2. CASE l > k
        <5>1. l - k \in 1..Len(buffer') /\ buffer'[l - k] = b
          BY <2>4, <3>3, <4>2
        <5> QED BY <2>2, <5>1 DEF Held
      <4> QED BY <2>4, <4>1, <4>2
    <3> QED BY <2>5, <3>2, <3>3 DEF Held
  <2> QED BY <2>2, <2>3, <2>5, QuietKeeps DEF callVars
<1>9. CASE UNCHANGED vars
  <2>1. Held(b) => Held(b)'
    BY <1>9 DEF vars, Held
  <2> QED BY <1>9, <2>1, QuietKeeps DEF vars, ghostVars, callVars
<1> QED
  BY <1>1, <1>2, <1>3, <1>4, <1>5, <1>6, <1>7, <1>8, <1>9
  DEF Next, UpdateStep, NextStep, HasNextStep

(* No valid batch that was read is lost, whatever the capacity of the buffer,  *)
(* the fetch limit, the failures of the L1 queries, the copies others post and *)
(* the calls in between - but for a batch that an invalid copy shadows.        *)
THEOREM NoBatchLostCorrect == Spec => []NoBatchLost
<1>1. Init => NoBatchLost
  <2> SUFFICES ASSUME Init, NEW i \in DOMAIN hotshot
               PROVE  ~Scanned(i)
    BY DEF NoBatchLost
  <2>1. hotshot[i].block \in Nat /\ hotShotPos \in Nat /\ base = hotShotPos
    BY Transactions, Constants DEF Init
  <2> QED BY <2>1 DEF Scanned
<1>2. Init => RewindInv /\ DeliveryInv
  BY Constants DEF Init, RewindInv, ScanBounds, RewindWithinScan, DeliveryInv, HeadIsDue,
                   DeliversOnlyFinal
<1>3. TypeOK /\ RewindInv /\ DeliveryInv /\ NoBatchLost /\ [Next]_vars => NoBatchLost'
  BY NoBatchLostStep
<1> QED BY <1>1, <1>2, <1>3, TypeCorrect, RewindStep, DeliveryStep, PTL DEF Spec

------------------------------------------------------------------------------
(* The pre-filter judges by the batcher of the last Refresh, which was         *)
(* authorized at a block that is final now.  What it drops, and CheckBatch     *)
(* would accept later, belongs to another batcher.                             *)
KnownBatcher ==
  espressoBatcher # ZeroAddress =>
    /\ finalizedL1 # NoL1Ref
    /\ \E f \in L1Numbers : f <= finalizedL1 /\ espressoBatcher = BatcherAt[f]

(* Only Refresh replaces the batcher the streamer knows, by an authorized one. *)
LEMMA KnownBatcherStep == TypeOK /\ KnownBatcher /\ [Next]_vars => KnownBatcher'
<1> SUFFICES ASSUME TypeOK, KnownBatcher, [Next]_vars PROVE KnownBatcher'
  OBVIOUS
<1>1. ASSUME NEW h \in LightHeights \cup {Unreachable}, NEW f \in L1Numbers,
             NEW safe \in SafeBatches, NEW answered \in BOOLEAN,
             Refresh(f, safe, h, answered)
      PROVE  KnownBatcher'
  <2>1. /\ espressoBatcher' = BatcherAt[f] \/ UNCHANGED espressoBatcher
        /\ finalizedL1' = f /\ (finalizedL1 # NoL1Ref => finalizedL1 <= f)
    BY <1>1 DEF Refresh
  <2>2. f # NoL1Ref /\ f \in Nat /\ (finalizedL1 # NoL1Ref => finalizedL1 \in Nat)
    BY StreamerAssumption DEF TypeOK, L1Numbers
  <2>3. CASE espressoBatcher' = BatcherAt[f]
    BY <2>1, <2>2, <2>3 DEF KnownBatcher
  <2>4. CASE UNCHANGED espressoBatcher
    <3> SUFFICES ASSUME espressoBatcher # ZeroAddress PROVE KnownBatcher'
      BY <2>4 DEF KnownBatcher
    <3>1. PICK g \in L1Numbers : g <= finalizedL1 /\ espressoBatcher = BatcherAt[g]
      BY DEF KnownBatcher
    <3>2. finalizedL1 # NoL1Ref /\ g \in Nat
      BY DEF KnownBatcher, L1Numbers
    <3>3. g <= f
      BY <2>1, <2>2, <3>1, <3>2
    <3> QED BY <2>1, <2>2, <2>4, <3>1, <3>3 DEF KnownBatcher
  <2> QED BY <2>1, <2>3, <2>4
<1>2. CASE UNCHANGED <<espressoBatcher, finalizedL1>>
  BY <1>2 DEF KnownBatcher
<1>3. CASE Reset \/ \E h \in LightHeights \cup {Unreachable} : RefreshSafeL1Origin(h)
  BY <1>2, <1>3 DEF Reset, RefreshSafeL1Origin, l1Vars
<1>4. CASE UpdateStep \/ UNCHANGED vars
  <2>1. UNCHANGED l1Vars
    BY <1>4 DEF UpdateStep, CallUpdate, UpdateDone, FetchFails, FetchNothing, FetchRange,
                ProcessTransaction, RangeProcessed, vars
  <2> QED BY <1>2, <2>1 DEF l1Vars
<1>5. CASE NextStep \/ \E parent \in ParentHashes : SetProperHead(parent)
  <2>1. UNCHANGED l1Vars
    BY <1>5 DEF NextStep, HasNextStep, CallHasNext, NothingBuffered, DiscardStale, Promote,
                CheckHead, Deliver, SetProperHead
  <2> QED BY <1>2, <2>1 DEF l1Vars
<1> QED BY <1>1, <1>3, <1>4, <1>5 DEF Next, RefreshStep

(* What CheckBatch rejects as past is past; what it drops can never be valid,  *)
(* unless the batcher changed.                                                 *)
LEMMA DroppedForGood ==
  ASSUME KnownBatcher, NEW b \in Batch, NEW verdict \in {"drop", "past"},
         CheckBatch(b, verdict)
  PROVE  IsPast(b) \/ ~Genuine(b) \/ (Unfinalized(b) /\ Rotated(b))
<1> SUFFICES ASSUME ~IsPast(b), Genuine(b) PROVE Unfinalized(b) /\ Rotated(b)
  OBVIOUS
<1>1. b.signer # ZeroAddress /\ b.origin \in L1Numbers /\ b.signer = BatcherAt[b.origin]
  BY StreamerAssumption DEF Genuine
<1>2. PreFiltered(b)
  BY <1>1, Zenon DEF CheckBatch
<1>3. /\ Unfinalized(b) /\ espressoBatcher # ZeroAddress
      /\ BatcherAt[b.origin] # espressoBatcher
  BY <1>1, <1>2 DEF PreFiltered
<1> QED BY <1>3 DEF KnownBatcher, Rotated

LEMMA DropStep ==
  ASSUME KnownBatcher, TypeOK, [Next]_vars, pc \in {"process", "hasNext"}
  PROVE  \A b \in released' \ released : Unfinalized(b) /\ Rotated(b)
<1> DEFINE Excused == \A b \in released' \ released : Unfinalized(b) /\ Rotated(b)
<1>1. ASSUME NEW i \in todo, ProcessTransaction(i) PROVE Excused
  <2> DEFINE b == hotshot[i].tx
  <2>1. b = Undecodable \/ b \in Batch
    BY Transactions DEF TypeOK
  <2>2. CASE UNCHANGED released
    BY <2>2
  <2>3. ASSUME NEW verdict \in Validity \ {"accept", "undecided"}, b # Undecodable,
               CheckBatch(b, verdict), Release({b})
        PROVE  Excused
    <3>1. IsPast(b) \/ ~Genuine(b) \/ (Unfinalized(b) /\ Rotated(b))
      BY <2>1, <2>3, DroppedForGood DEF Validity
    <3> QED BY <2>3, <3>1 DEF Release
  <2> QED BY <1>1, <2>2, <2>3, Zenon DEF ProcessTransaction
<1>2. ASSUME NEW verdict \in Validity, CheckHead(verdict) PROVE Excused
  <2>1. headBatch \in Batch
    BY <1>2 DEF TypeOK, CheckHead
  <2>2. CASE verdict \in {"drop", "past"}
    <3>1. \/ IsPast(headBatch) \/ ~Genuine(headBatch)
          \/ Unfinalized(headBatch) /\ Rotated(headBatch)
      BY <1>2, <2>1, <2>2, DroppedForGood DEF CheckHead
    <3>2. Release({headBatch})
      BY <1>2, <2>2 DEF CheckHead
    <3> QED BY <3>1, <3>2 DEF Release
  <2>3. CASE verdict \notin {"drop", "past"}
    BY <1>2, <2>3 DEF CheckHead, Validity
  <2> QED BY <2>2, <2>3
<1>3. CASE \/ UpdateDone \/ FetchFails \/ FetchNothing \/ FetchRange \/ RangeProcessed
           \/ NothingBuffered \/ DiscardStale \/ Promote \/ UNCHANGED vars
  BY <1>3 DEF UpdateDone, FetchFails, FetchNothing, FetchRange, RangeProcessed,
              NothingBuffered, DiscardStale, Promote, vars, ghostVars
<1>4. ~(RefreshStep \/ Reset)
  BY RefreshEffect DEF RefreshStep
<1>5. ~\E latest \in 2..(HotShotHeight + 1) : CallUpdate(latest)
  BY DEF CallUpdate
<1>6. ~(\E who \in {"HasNext", "Next"} : CallHasNext(who)) /\ ~Deliver
  BY DEF CallHasNext, Deliver
<1>7. ~\E parent \in ParentHashes : SetProperHead(parent)
  BY DEF SetProperHead
<1> QED
  BY <1>1, <1>2, <1>3, <1>4, <1>5, <1>6, <1>7 DEF Next, UpdateStep, NextStep, HasNextStep

(* For every L1 and every HotShot, a batch that CheckBatch drops and would     *)
(* accept later was judged before its origin was final, by a batcher that a    *)
(* finalized block authorizes and the origin of the batch does not.            *)
THEOREM DropCorrect == Spec => DropIsFinal
<1>1. Init => KnownBatcher
  BY DEF Init, KnownBatcher
<1>2. KnownBatcher /\ TypeOK /\ [Next]_vars
        => [(pc \in {"process", "hasNext"})
              => \A b \in released' \ released : Unfinalized(b) /\ Rotated(b)]_vars
  BY DropStep
<1> QED BY <1>1, <1>2, KnownBatcherStep, TypeCorrect, PTL DEF Spec, DropIsFinal
==============================================================================
