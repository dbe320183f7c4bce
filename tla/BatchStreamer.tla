---------------------------- MODULE BatchStreamer ----------------------------
(* BatchStreamer of op/op_streamer.go: reads the transactions HotShot has      *)
(* finalized for a namespace, checks the batches in them against the finalized *)
(* L1 and hands them out by L2 block number.                                   *)
(*                                                                             *)
(* The streamer takes no lock: its caller runs one method at a time.  A method *)
(* is a sequence of steps, cut where it asks another service (one CheckBatch   *)
(* per step), so that every query can fail on its own.  pc is the point the    *)
(* running method has reached.                                                 *)
EXTENDS BatchBuffer, FiniteSets

CONSTANTS
  Histories,          \* possible contents of HotShot: sequences of [block, tx]
  HotShotHeight,      \* the blocks are 0 .. HotShotHeight - 1
  MaxL1,              \* the L1 blocks are 0 .. MaxL1
  L1Hash,             \* canonical hash of each L1 block
  BatcherAt,          \* batcher authorized at each L1 block, ZeroAddress for none
  LightHeights,       \* HotShot heights the light client contract may report
  SafeBatches,        \* safe L2 block numbers the caller may report
  ParentHashes,       \* arguments of SetProperHead
  OriginHotShotPos,   \* originHotShotPos
  OriginBatchPos,     \* originBatchPos
  FetchLimit,         \* HOTSHOT_BLOCK_FETCH_LIMIT
  L1CacheSize,        \* capacity of finalizedL1StateCache
  MaxUint64,          \* math.MaxUint64
  ZeroAddress, NoL1Ref, NoBatch, Undecodable, Unreachable

L1Numbers == 0..MaxL1

ASSUME StreamerAssumption ==
  /\ HotShotHeight \in Nat /\ MaxL1 \in Nat /\ L1CacheSize \in Nat
  /\ FetchLimit \in Nat \ {0}
  /\ OriginHotShotPos \in Nat /\ OriginBatchPos \in Nat
  /\ LightHeights \subseteq Nat /\ SafeBatches \subseteq Nat
  /\ MaxUint64 \in Nat /\ HotShotHeight < MaxUint64 /\ OriginHotShotPos < MaxUint64
  /\ \A h \in LightHeights : h < MaxUint64
  /\ NoBatch \notin Batch /\ Undecodable \notin Batch
  /\ Unreachable \notin LightHeights /\ NoL1Ref \notin L1Numbers
  /\ \A b \in Batch : b.origin \in Nat /\ b.signer # ZeroAddress
  /\ \A h \in Histories : \A i \in DOMAIN h :
        i \in Nat /\ h[i].block \in 0..(HotShotHeight - 1)
                  /\ h[i].tx \in Batch \cup {Undecodable}

VARIABLES
  hotshot,              \* the transactions of the namespace, in HotShot order
  nextBatchPos, fallbackBatchPos,
  hotShotPos, fallbackHotShotPos,
  finalizedL1,          \* FinalizedL1, its number; NoL1Ref for the zero value
  espressoBatcher,
  skipPos,              \* MaxUint64 when no rewind is pending
  headBatch,            \* NoBatch for nil
  buffer,               \* BatchBuffer.batches
  l1Cache,              \* keys of finalizedL1StateCache
  pc, caller,           \* where the running method is; who called HasNext
  finalizedBlockHeight, \* Update's local
  again,                \* Update's i > 0
  todo,                 \* indices of the fetched transactions still to process
  base,                 \* history: hotShotPos at the last reset
  released,             \* history: valid batches given up since the last reset
  shadowed              \* history: valid batches taken for an invalid one since then

l1Vars == <<finalizedL1, espressoBatcher>>
fallbackVars == <<fallbackBatchPos, fallbackHotShotPos>>
callVars == <<pc, caller, finalizedBlockHeight, again, todo>>
ghostVars == <<base, released, shadowed>>
vars == <<hotshot, nextBatchPos, fallbackVars, hotShotPos, l1Vars, skipPos,
          headBatch, buffer, l1Cache, callVars, ghostVars>>

Min2(a, b) == IF a <= b THEN a ELSE b
Max2(a, b) == IF a >= b THEN a ELSE b

(* What CheckBatch's verdict on b comes to once its origin is final. *)
Genuine(b) ==
  /\ b.origin \in L1Numbers
  /\ b.signer = BatcherAt[b.origin]
  /\ b.originHash = L1Hash[b.origin]

(* Hash leaves out the signer and the body of the batch, so anyone may post a  *)
(* copy that has the hash of a batcher's batch.  The batcher itself signs one  *)
(* batch per hash: it packs a block, and the header fixes the block            *)
(* (SignedHashIdentifies of EspressoBatch).                                    *)
ASSUME GenuineAssumption ==
  \A a, b \in Batch : a.hash = b.hash /\ Genuine(a) /\ Genuine(b) => a = b

Held(b) == b = headBatch \/ \E k \in 1..Len(buffer) : buffer[k] = b

TypeOK ==
  /\ hotshot \in Histories
  /\ nextBatchPos \in Nat /\ fallbackBatchPos \in Nat
  /\ hotShotPos \in 0..(MaxUint64 - 1) /\ fallbackHotShotPos \in 0..(MaxUint64 - 1)
  /\ finalizedL1 \in L1Numbers \cup {NoL1Ref}
  /\ skipPos \in 0..MaxUint64
  /\ headBatch \in Batch \cup {NoBatch}
  /\ buffer \in Seq(Batch)
  /\ Len(buffer) <= Capacity
  /\ l1Cache \subseteq L1Numbers
  /\ pc \in {"idle", "update", "process", "hasNext", "deliver"}
  /\ caller \in {"None", "Update", "HasNext", "Next"}
  /\ finalizedBlockHeight \in 0..HotShotHeight /\ again \in BOOLEAN
  /\ todo \subseteq DOMAIN hotshot
  /\ base \in 0..(MaxUint64 - 1) /\ released \subseteq Batch /\ shadowed \subseteq Batch

(* NewEspressoStreamer *)
Init ==
  /\ hotshot \in Histories
  /\ nextBatchPos = OriginBatchPos + 1 /\ fallbackBatchPos = OriginBatchPos
  /\ hotShotPos = OriginHotShotPos /\ fallbackHotShotPos = OriginHotShotPos
  /\ finalizedL1 = NoL1Ref /\ espressoBatcher = ZeroAddress
  /\ skipPos = MaxUint64
  /\ headBatch = NoBatch /\ buffer = <<>> /\ l1Cache = {}
  /\ pc = "idle" /\ caller = "None"
  /\ finalizedBlockHeight = 0 /\ again = FALSE /\ todo = {}
  /\ base = OriginHotShotPos /\ released = {} /\ shadowed = {}

EndCall ==
  /\ pc' = "idle" /\ caller' = "None"
  /\ finalizedBlockHeight' = 0 /\ again' = FALSE /\ todo' = {}

------------------------------------------------------------------------------
(* Reset, RefreshSafeL1Origin, Refresh *)

(* A variant the runs must reject: a reset leaves the pending rewind alone. *)
ResetToKeepingSkip(batchPos, pos) ==
  /\ hotShotPos' = pos
  /\ nextBatchPos' = batchPos + 1
  /\ headBatch' = NoBatch
  /\ skipPos' = skipPos
  /\ buffer' = <<>>
  /\ base' = pos /\ released' = {} /\ shadowed' = {}

ResetTo(batchPos, pos) ==
  /\ hotShotPos' = pos
  /\ nextBatchPos' = batchPos + 1
  /\ headBatch' = NoBatch
  /\ skipPos' = MaxUint64
  /\ buffer' = <<>>
  /\ base' = pos /\ released' = {} /\ shadowed' = {}

Reset ==
  /\ pc = "idle"
  /\ ResetTo(fallbackBatchPos, fallbackHotShotPos)
  /\ UNCHANGED <<hotshot, fallbackVars, l1Vars, l1Cache, callVars>>

(* confirmEspressoBlockHeight: the new fallback position when the light client *)
(* contract answers h, and whether the answer asks for a reset.                *)
ConfirmedPos(h) ==
  IF h = Unreachable THEN Max2(fallbackHotShotPos, OriginHotShotPos)
  ELSE IF h <= OriginHotShotPos THEN fallbackHotShotPos ELSE h

Regressed(h) == h # Unreachable /\ h > OriginHotShotPos /\ h < fallbackHotShotPos

RefreshSafeL1Origin(h) ==
  /\ pc = "idle"
  /\ fallbackHotShotPos' = ConfirmedPos(h)
  /\ IF Regressed(h)
       THEN ResetTo(fallbackBatchPos, ConfirmedPos(h))
       ELSE UNCHANGED <<hotShotPos, nextBatchPos, headBatch, skipPos, buffer, ghostVars>>
  /\ UNCHANGED <<hotshot, fallbackBatchPos, l1Vars, l1Cache, callVars>>

(* A variant the runs must reject: a safe head that overtook is not noticed. *)
RefreshWhenBehind(f, safe, h, answered) ==
  /\ pc = "idle"
  /\ finalizedL1 # NoL1Ref => finalizedL1 <= f
  /\ finalizedL1' = f /\ UNCHANGED espressoBatcher
  /\ fallbackHotShotPos' = ConfirmedPos(h)
  /\ fallbackBatchPos' = safe
  /\ IF Regressed(h) \/ safe < fallbackBatchPos
       THEN ResetTo(safe, ConfirmedPos(h))
       ELSE UNCHANGED <<hotShotPos, nextBatchPos, headBatch, skipPos, buffer, ghostVars>>
  /\ UNCHANGED <<hotshot, l1Cache, callVars>>

(* Refresh at finalized L1 block f and safe batch number safe.  The caller's   *)
(* view of L1 finality never goes back.  answered: the BatchAuthenticator      *)
(* query did not fail.  pos and next are hotShotPos and nextBatchPos after the *)
(* call of RefreshSafeL1Origin.                                                *)
Refresh(f, safe, h, answered) ==
  /\ pc = "idle"
  /\ finalizedL1 # NoL1Ref => finalizedL1 <= f
  /\ finalizedL1' = f
  /\ espressoBatcher' = IF answered /\ BatcherAt[f] # ZeroAddress
                           THEN BatcherAt[f] ELSE espressoBatcher
  /\ fallbackHotShotPos' = ConfirmedPos(h)
  /\ fallbackBatchPos' = safe
  /\ LET pos  == IF Regressed(h) THEN ConfirmedPos(h) ELSE hotShotPos
         next == IF Regressed(h) THEN fallbackBatchPos + 1 ELSE nextBatchPos
         safeReset == /\ safe # fallbackBatchPos
                      /\ \/ safe < fallbackBatchPos
                         \/ ConfirmedPos(h) > pos
                         \/ next <= safe
     IN  IF Regressed(h) \/ safeReset
           THEN ResetTo(IF safeReset THEN safe ELSE fallbackBatchPos, ConfirmedPos(h))
           ELSE UNCHANGED <<hotShotPos, nextBatchPos, headBatch, skipPos, buffer, ghostVars>>
  /\ UNCHANGED <<hotshot, l1Cache, callVars>>

------------------------------------------------------------------------------
(* CheckBatch *)

(* BatchValidity *)
Validity == {"drop", "accept", "undecided", "past"}

(* finalizedL1StateCache.Add: a full cache evicts an entry. *)
CacheAdd(n) ==
  \E kept \in SUBSET l1Cache :
    /\ IF Cardinality(l1Cache) < L1CacheSize
         THEN kept = l1Cache ELSE Cardinality(kept) < L1CacheSize
    /\ l1Cache' = kept \cup {n}

IsPast(b) == b.number < nextBatchPos

(* A variant the runs must reject: the block after the finalized one passes. *)
UnfinalizedLate(b) == finalizedL1 # NoL1Ref /\ b.origin > finalizedL1 + 1

(* An origin above the finalized block: only the batcher known from the last   *)
(* Refresh may wait for finality.                                              *)
Unfinalized(b) == finalizedL1 # NoL1Ref /\ b.origin > finalizedL1

(* A variant the runs must reject: an unknown batcher filters as well. *)
PreFilteredUnset(b) == Unfinalized(b) /\ b.signer # espressoBatcher

PreFiltered(b) ==
  Unfinalized(b) /\ espressoBatcher # ZeroAddress /\ b.signer # espressoBatcher

(* The answer of CheckBatch(b).  A cached l1State never changes, so the cache  *)
(* only decides whether the L1 is asked, and may fail to answer.               *)
CheckBatch(b, verdict) ==
  IF IsPast(b) THEN verdict = "past" /\ UNCHANGED l1Cache
  ELSE IF finalizedL1 = NoL1Ref THEN verdict = "undecided" /\ UNCHANGED l1Cache
  ELSE IF Unfinalized(b)
    THEN verdict = (IF PreFiltered(b) THEN "drop" ELSE "undecided") /\ UNCHANGED l1Cache
  ELSE LET final == IF Genuine(b) THEN "accept" ELSE "drop"
       IN  \/ /\ b.origin \in l1Cache
              /\ verdict = final /\ UNCHANGED l1Cache
           \/ /\ b.origin \notin l1Cache
              /\ verdict = "undecided" /\ UNCHANGED l1Cache
           \/ /\ b.origin \notin l1Cache /\ BatcherAt[b.origin] # ZeroAddress
              /\ verdict = final /\ CacheAdd(b.origin)
           \/ /\ b.origin \notin l1Cache /\ BatcherAt[b.origin] = ZeroAddress
              /\ verdict = "drop" /\ UNCHANGED l1Cache

(* history: a valid batch that is dropped all the same is given up. *)
Release(bs) == released' = released \cup {b \in bs : Genuine(b) /\ ~IsPast(b)}

------------------------------------------------------------------------------
(* Update *)

Start == IF hotShotPos > 0 THEN hotShotPos + 1 ELSE 0
Finish == Min2(Start + FetchLimit, finalizedBlockHeight + 1)

(* A variant the runs must reject: a single block is always fetched. *)
RangeExhaustedAlone == Start >= Finish

RangeExhausted == Start >= Finish \/ (Start + 1 = Finish /\ again)

InRange == {i \in DOMAIN hotshot : hotshot[i].block \in Start..(Finish - 1)}

(* Update reads the block height.  A node may lag, so any height of at least 2 *)
(* can be reported; on a smaller one, an error or MaxUint64 Update returns.    *)
CallUpdate(latest) ==
  /\ pc = "idle"
  /\ latest >= 2
  /\ pc' = "update" /\ caller' = "Update"
  /\ finalizedBlockHeight' = latest - 2
  /\ UNCHANGED <<hotshot, nextBatchPos, fallbackVars, hotShotPos, l1Vars, skipPos,
                 headBatch, buffer, l1Cache, again, todo, ghostVars>>

UpdateDone ==
  /\ pc = "update" /\ RangeExhausted
  /\ EndCall
  /\ UNCHANGED <<hotshot, nextBatchPos, fallbackVars, hotShotPos, l1Vars, skipPos,
                 headBatch, buffer, l1Cache, ghostVars>>

(* fetchHotShotRange: the fetch fails and so does Update; *)
FetchFails ==
  /\ pc = "update" /\ ~RangeExhausted
  /\ EndCall
  /\ UNCHANGED <<hotshot, nextBatchPos, fallbackVars, hotShotPos, l1Vars, skipPos,
                 headBatch, buffer, l1Cache, ghostVars>>

(* a range without transactions may come back as no blocks at all; *)
FetchNothing ==
  /\ pc = "update" /\ ~RangeExhausted /\ InRange = {}
  /\ pc' = "hasNext"
  /\ UNCHANGED <<hotshot, nextBatchPos, fallbackVars, hotShotPos, l1Vars, skipPos,
                 headBatch, buffer, l1Cache, caller, finalizedBlockHeight, again, todo,
                 ghostVars>>

(* the blocks of the range come back. *)
FetchRange ==
  /\ pc = "update" /\ ~RangeExhausted
  /\ hotShotPos' = Finish - 1
  /\ todo' = InRange
  /\ pc' = "process"
  /\ UNCHANGED <<hotshot, nextBatchPos, fallbackVars, l1Vars, skipPos, headBatch,
                 buffer, l1Cache, caller, finalizedBlockHeight, again, ghostVars>>

(* processEspressoTransaction, once CheckBatch let b through, with             *)
(* fetchHotShotRange's handling of ErrAtCapacity.                              *)
IsHead(b) == headBatch # NoBatch /\ b.number = headBatch.number /\ b.hash = headBatch.hash

(* Variants the runs must reject: any batch becomes the head; the next batch   *)
(* becomes the head whatever the head is; the rewind stops at the block itself. *)
BecomesHeadAnyNumber(b) == headBatch = NoBatch

BecomesHeadOverHead(b) == b.number = nextBatchPos

RewindToBlock(block) == block

BecomesHead(b) == b.number = nextBatchPos /\ headBatch = NoBatch

RewindTo(block) == IF block > 0 THEN block - 1 ELSE 0

(* history: b is discarded as a duplicate; if it is valid and what is held in  *)
(* its place is not, it is shadowed.                                           *)
Shadow(b) ==
  shadowed' = shadowed \cup
    {g \in {b} : Genuine(g) /\ \E c \in Batch : Held(c) /\ c.hash = g.hash /\ ~Genuine(c)}

Admit(b, block) ==
  \/ IsHead(b) /\ Shadow(b) /\ UNCHANGED <<headBatch, buffer, skipPos>>
  \/ /\ BecomesHead(b)
     /\ headBatch' = b /\ UNCHANGED <<buffer, skipPos, shadowed>>
  \/ /\ ~IsHead(b) /\ ~BecomesHead(b) /\ AtCapacity(buffer)
     /\ skipPos' = Min2(skipPos, RewindTo(block))
     /\ UNCHANGED <<headBatch, buffer, shadowed>>
  \/ /\ ~IsHead(b) /\ ~BecomesHead(b) /\ ~AtCapacity(buffer)
     /\ IF AlreadyExists(buffer, b)
          THEN Shadow(b) /\ UNCHANGED buffer
          ELSE buffer' = InsertAt(buffer, SearchPos(buffer, b), b) /\ UNCHANGED shadowed
     /\ UNCHANGED <<headBatch, skipPos>>

(* One transaction of the fetched range, in commit order. *)
ProcessTransaction(i) ==
  /\ pc = "process"
  /\ i \in todo /\ \A j \in todo : i <= j
  /\ todo' = todo \ {i}
  /\ LET b == hotshot[i].tx
     IN  IF b = Undecodable
           THEN UNCHANGED <<headBatch, buffer, skipPos, l1Cache, released, shadowed>>
           ELSE \E verdict \in Validity :
                  /\ CheckBatch(b, verdict)
                  /\ IF verdict \in {"accept", "undecided"}
                       THEN Admit(b, hotshot[i].block) /\ UNCHANGED released
                       ELSE Release({b}) /\ UNCHANGED <<headBatch, buffer, skipPos, shadowed>>
  /\ UNCHANGED <<hotshot, nextBatchPos, fallbackVars, hotShotPos, l1Vars, pc, caller,
                 finalizedBlockHeight, again, base>>

RangeProcessed ==
  /\ pc = "process" /\ todo = {}
  /\ pc' = "hasNext"
  /\ UNCHANGED <<hotshot, nextBatchPos, fallbackVars, hotShotPos, l1Vars, skipPos,
                 headBatch, buffer, l1Cache, caller, finalizedBlockHeight, again, todo,
                 ghostVars>>

------------------------------------------------------------------------------
(* HasNext, and Peek, which adds nothing to it; Next *)

CallHasNext(who) ==
  /\ pc = "idle"
  /\ pc' = "hasNext" /\ caller' = who
  /\ UNCHANGED <<hotshot, nextBatchPos, fallbackVars, hotShotPos, l1Vars, skipPos,
                 headBatch, buffer, l1Cache, finalizedBlockHeight, again, todo, ghostVars>>

(* HasNext returns true: Next goes on to deliver, the other callers return. *)
ReturnTrue ==
  \/ /\ caller = "Next"
     /\ pc' = "deliver"
     /\ UNCHANGED <<caller, finalizedBlockHeight, again, todo>>
  \/ caller # "Next" /\ EndCall

(* HasNext returns false: Update reads on, the other callers return. *)
ReturnFalse ==
  \/ /\ caller = "Update"
     /\ pc' = "update" /\ again' = TRUE
     /\ UNCHANGED <<caller, finalizedBlockHeight, todo>>
  \/ caller # "Update" /\ EndCall

HeadMissing == pc = "hasNext" /\ headBatch = NoBatch

NothingBuffered ==
  /\ HeadMissing
  /\ buffer # <<>> => Head(buffer).number > nextBatchPos
  /\ ReturnFalse
  /\ UNCHANGED <<hotshot, nextBatchPos, fallbackVars, hotShotPos, l1Vars, skipPos,
                 headBatch, buffer, l1Cache, ghostVars>>

DiscardStale ==
  /\ HeadMissing
  /\ buffer # <<>> /\ Head(buffer).number < nextBatchPos
  /\ buffer' = Tail(buffer)
  /\ UNCHANGED <<hotshot, nextBatchPos, fallbackVars, hotShotPos, l1Vars, skipPos,
                 headBatch, l1Cache, callVars, ghostVars>>

Promote ==
  /\ HeadMissing
  /\ buffer # <<>> /\ Head(buffer).number = nextBatchPos
  /\ headBatch' = Head(buffer) /\ buffer' = Tail(buffer)
  /\ UNCHANGED <<hotshot, nextBatchPos, fallbackVars, hotShotPos, l1Vars, skipPos,
                 l1Cache, callVars, ghostVars>>

(* The switch on CheckBatch's answer for the head. *)
CheckHead(verdict) ==
  /\ pc = "hasNext" /\ headBatch # NoBatch
  /\ CheckBatch(headBatch, verdict)
  /\ \/ /\ verdict = "accept" /\ ReturnTrue
        /\ UNCHANGED <<headBatch, released>>
     \/ /\ verdict = "undecided" /\ ReturnFalse
        /\ UNCHANGED <<headBatch, released>>
     \/ /\ verdict \in {"drop", "past"} /\ headBatch' = NoBatch
        /\ Release({headBatch}) /\ UNCHANGED callVars
  /\ UNCHANGED <<hotshot, nextBatchPos, fallbackVars, hotShotPos, l1Vars, skipPos,
                 buffer, base, shadowed>>

(* A variant the runs must reject: Next forgets to rewind. *)
DeliverWithoutRewind ==
  /\ pc = "deliver"
  /\ nextBatchPos' = nextBatchPos + 1
  /\ headBatch' = NoBatch
  /\ hotShotPos' = hotShotPos
  /\ skipPos' = MaxUint64
  /\ EndCall
  /\ UNCHANGED <<hotshot, fallbackVars, l1Vars, buffer, l1Cache, ghostVars>>

(* The rest of Next: hand out the head, and rewind if batches were skipped. *)
Deliver ==
  /\ pc = "deliver"
  /\ nextBatchPos' = nextBatchPos + 1
  /\ headBatch' = NoBatch
  /\ hotShotPos' = IF skipPos # MaxUint64 THEN skipPos ELSE hotShotPos
  /\ skipPos' = MaxUint64
  /\ EndCall
  /\ UNCHANGED <<hotshot, fallbackVars, l1Vars, buffer, l1Cache, ghostVars>>

------------------------------------------------------------------------------
(* SetProperHead: gives up the head, and the batches of its number at the      *)
(* front of the buffer until one has the given parent.  A head of another      *)
(* number makes it return at once.                                             *)
WrongFork(b, parent) == b.number = nextBatchPos /\ b.parent # parent

SetProperHead(parent) ==
  /\ pc = "idle"
  /\ headBatch # NoBatch => headBatch.number = nextBatchPos
  /\ headBatch' = NoBatch
  /\ \E k \in 0..Len(buffer) :
       /\ \A i \in 1..k : WrongFork(buffer[i], parent)
       /\ k < Len(buffer) => ~WrongFork(buffer[k + 1], parent)
       /\ buffer' = SubSeq(buffer, k + 1, Len(buffer))
       /\ Release({buffer[i] : i \in 1..k} \cup ({headBatch} \ {NoBatch}))
  /\ UNCHANGED <<hotshot, nextBatchPos, fallbackVars, hotShotPos, l1Vars, skipPos,
                 l1Cache, callVars, base, shadowed>>

------------------------------------------------------------------------------
UpdateStep ==
  \/ \E latest \in 2..(HotShotHeight + 1) : CallUpdate(latest)
  \/ UpdateDone \/ FetchFails \/ FetchNothing \/ FetchRange
  \/ \E i \in todo : ProcessTransaction(i)
  \/ RangeProcessed

HasNextStep ==
  \/ NothingBuffered \/ DiscardStale \/ Promote
  \/ \E verdict \in Validity : CheckHead(verdict)

NextStep ==
  \/ \E who \in {"HasNext", "Next"} : CallHasNext(who)
  \/ HasNextStep
  \/ Deliver

RefreshStep ==
  \E h \in LightHeights \cup {Unreachable} :
    \/ RefreshSafeL1Origin(h)
    \/ \E f \in L1Numbers, safe \in SafeBatches, answered \in BOOLEAN :
         Refresh(f, safe, h, answered)

Next ==
  \/ UpdateStep
  \/ NextStep
  \/ RefreshStep
  \/ Reset
  \/ \E parent \in ParentHashes : SetProperHead(parent)

Spec == Init /\ [][Next]_vars

(* A caller that polls: Refresh, Update and Next over and over, with a safe    *)
(* head that stays where it is, and neither Reset nor SetProperHead.           *)
PollRefresh(f, answered) == Refresh(f, fallbackBatchPos, Unreachable, answered)

Poll ==
  \/ UpdateStep
  \/ NextStep
  \/ \E f \in L1Numbers, answered \in BOOLEAN : PollRefresh(f, answered)

(* A method that runs goes on (weak fairness).  The caller keeps making every  *)
(* call, L1 becomes final, and a query asked again and again is answered at    *)
(* last (strong fairness: between two tries other calls run).  Nothing is      *)
(* assumed of the fetch of a range: it may fail, or bring no blocks, for ever. *)
Fairness ==
  /\ WF_vars(pc # "idle" /\ (UpdateStep \/ NextStep))
  /\ SF_vars(CallUpdate(HotShotHeight + 1))
  /\ SF_vars(CallHasNext("Next"))
  /\ SF_vars(\E answered \in BOOLEAN : PollRefresh(MaxL1, answered))
  /\ SF_vars(\E verdict \in Validity \ {"undecided"} : CheckHead(verdict))

PollSpec == Init /\ [][Poll]_vars /\ Fairness

------------------------------------------------------------------------------
(* The head is the batch that is due: whatever Next, Reset, a retreat of the   *)
(* light client or a wrong fork did in between, headBatch has the number       *)
(* nextBatchPos, so its later checks never answer BatchPast and SetProperHead  *)
(* never leaves on a number mismatch.                                          *)
HeadIsDue == headBatch # NoBatch => headBatch.number = nextBatchPos

(* What Next hands out: a batch whose L1 origin is final, on the canonical     *)
(* chain, and signed by the batcher authorized at that origin.                 *)
DeliversOnlyFinal ==
  pc = "deliver" =>
    /\ headBatch # NoBatch /\ headBatch.number = nextBatchPos
    /\ finalizedL1 # NoL1Ref /\ headBatch.origin <= finalizedL1
    /\ Genuine(headBatch)

(* The buffer never gets out of order, so HasNext, which only looks at its     *)
(* front, cannot overlook a batch of the number it waits for.                  *)
BufferSorted == SortedByNumber(buffer)

(* A pending rewind leads neither behind the block reading restarted from nor  *)
(* ahead of the block reading has reached: Next cannot skip blocks with it.    *)
RewindWithinScan ==
  skipPos # MaxUint64 => base <= skipPos /\ skipPos <= hotShotPos

(* Transaction i has been read since the last reset. *)
Scanned(i) ==
  LET block == hotshot[i].block
  IN  /\ block <= hotShotPos /\ i \notin todo
      /\ block > base \/ (base = 0 /\ hotShotPos > 0)

(* No batch is lost: a valid batch that is still to come and that was read is  *)
(* in the head or in the buffer, or a pending rewind will read it again - or   *)
(* the streamer gave it up on purpose (SetProperHead, the signer pre-filter),  *)
(* or took it for the duplicate of a copy that is held and is not valid: the   *)
(* one way in which a valid batch can go unnoticed (DuplicateStaysHeld).       *)
NoBatchLost ==
  \A i \in DOMAIN hotshot :
    LET b == hotshot[i].tx
    IN  (b # Undecodable /\ Scanned(i) /\ Genuine(b) /\ b.number >= nextBatchPos)
          => \/ Held(b) \/ b \in released \/ b \in shadowed
             \/ skipPos < hotshot[i].block \/ skipPos = 0

(* Update and HasNext never take back a batch that Peek has shown: an          *)
(* acceptable head stays the head until Next, SetProperHead or a reset.        *)
Acceptable(b) ==
  b # NoBatch /\ finalizedL1 # NoL1Ref /\ b.origin <= finalizedL1 /\ Genuine(b)

HeadIsStable ==
  [][(pc \in {"update", "process", "hasNext"} /\ Acceptable(headBatch))
       => UNCHANGED headBatch]_vars

(* The known batcher was authorized at a finalized block, and no longer or not *)
(* yet at the origin of b: the batcher was changed in between.                 *)
Rotated(b) ==
  \E f \in L1Numbers :
    /\ finalizedL1 # NoL1Ref /\ f <= finalizedL1 /\ espressoBatcher # ZeroAddress
    /\ BatcherAt[f] = espressoBatcher /\ BatcherAt[b.origin] # espressoBatcher

(* "invalid, and will always be in the future, unless we reorg" (BatchDrop,    *)
(* batch_buffer.go): CheckBatch drops a batch that it would accept later only  *)
(* when it judges it, before its origin is final, by the batcher known from    *)
(* the last Refresh, and the batcher changed between the two L1 blocks.        *)
DropIsFinal ==
  [][(pc \in {"process", "hasNext"})
       => \A b \in released' \ released : Unfinalized(b) /\ Rotated(b)]_vars

(* Some valid block of number n has been committed. *)
Committed(n) ==
  \E i \in DOMAIN hotshot :
    /\ hotshot[i].tx # Undecodable /\ hotshot[i].block > OriginHotShotPos
    /\ hotshot[i].tx.number = n /\ Genuine(hotshot[i].tx)

(* The query service answers the fetch of a range up to the newest height with *)
(* its blocks at last, if it is asked again and again.                         *)
BlocksComeAtLast == SF_vars(finalizedBlockHeight = HotShotHeight - 1 /\ FetchRange)

(* Under a polling caller, and a query service that brings the blocks at last, *)
(* every committed batch is delivered in the end, the ones a full buffer       *)
(* turned away included: nextBatchPos passes every number up to which HotShot  *)
(* holds a valid batch of each number.                                         *)
EveryBatchDelivered ==
  BlocksComeAtLast =>
    \A n \in 1..Cardinality(Batch) :
      (\A m \in (OriginBatchPos + 1)..n : Committed(m)) ~> (nextBatchPos > n)

(* An Update that never returns is one whose range is answered with no blocks  *)
(* for ever: hotShotPos stays, and the loop asks for the same range again.     *)
(* There is no other way, not even at the very start of HotShot, where block 0 *)
(* leaves hotShotPos at 0 and would be read again and again.                   *)
UpdateReturns == <>[](caller = "Update") => []<><<FetchNothing>>_vars

(* What a caller sees of all this is a feed (BatchFeed): the number Next       *)
(* returns rises by one, and the only other way is back to the first batch     *)
(* behind the safe head - never past a batch, never to one that is safe.       *)
Feed == INSTANCE BatchFeed WITH
          safe <- fallbackBatchPos, next <- nextBatchPos, SelfRewinds <- TRUE

ImplementsFeed == Feed!Spec

------------------------------------------------------------------------------
(* Statements of the documentation the code does not keep. *)

(* "this ensures Peek() always returns the earliest-committed batch for a      *)
(* given number" (Insert, batch_buffer.go): no buffered rival of the head was  *)
(* committed before it.                                                        *)
CommittedAt(b) ==
  CHOOSE i \in DOMAIN hotshot :
    /\ hotshot[i].tx = b
    /\ \A j \in DOMAIN hotshot : hotshot[j].tx = b => i <= j

EarliestCommittedFirst ==
  headBatch # NoBatch =>
    \A k \in 1..Len(buffer) :
      buffer[k].number = headBatch.number
        => CommittedAt(headBatch) <= CommittedAt(buffer[k])

(* "invalid, and will always be in the future, unless we reorg" (BatchDrop,    *)
(* batch_buffer.go), without the exception of DropIsFinal.                     *)
DropNeverRegretted ==
  [][(pc \in {"process", "hasNext"}) => released' = released]_vars

(* "Drop batches that duplicate the current head batch position"               *)
(* (processEspressoTransaction), and ErrDuplicateBatch of Insert: while a      *)
(* valid batch that was dropped as a duplicate is due, the streamer holds one  *)
(* of its hash.  A copy signed by another key has that hash, may be held while *)
(* it is undecided, and is dropped later.                                      *)
DuplicateStaysHeld ==
  \A b \in shadowed :
    b.number >= nextBatchPos => \E c \in Batch : Held(c) /\ c.hash = b.hash

(* "the only things that will prevent the next call to Next from returning a   *)
(* batch is if there are no more HotShot blocks to process currently, or if an *)
(* error occurs" (Update): Update does not return without error, and without   *)
(* any head, before it has processed the last block of the height it has read. *)
UpdateReadsAllBlocks ==
  [][UpdateDone => headBatch # NoBatch \/ hotShotPos >= finalizedBlockHeight]_vars

(* "drains stale/wrong-fork entries from the buffer front, positioning it at   *)
(* the correct fork for the next Peek call" (SetProperHead, interface.go): of  *)
(* the batches of the due number the first in the buffer has the given parent. *)
ProperHeadPositioned ==
  [][\A parent \in ParentHashes : SetProperHead(parent) =>
       \A k \in 1..Len(buffer') :
         (buffer'[k].number = nextBatchPos /\ \A i \in 1..(k - 1) : buffer'[i].number # nextBatchPos)
           => buffer'[k].parent = parent]_vars

(* "This will only automatically reset the Streamer if the safeBatchNumber     *)
(* moves backwards" (Refresh, interface.go): a safe head that moves forward    *)
(* does not clear what is buffered.                                            *)
ResetsOnlyOnRetreat ==
  [][fallbackBatchPos' > fallbackBatchPos => buffer' = buffer]_vars
==============================================================================
