-------------------------- MODULE BufferedStreamer --------------------------
(* BufferedEspressoStreamer of op/buffered_streamer.go: a cache of what an     *)
(* inner streamer has delivered.  The inner streamer is an implementation of   *)
(* the interface: it counts its batches up by one, and a call of Refresh,      *)
(* Reset or RefreshSafeL1Origin leaves it where BatchFeed says or, if          *)
(* LooseStarts is not empty, elsewhere: the mock of buffered_streamer_test.go  *)
(* ignores the safe head and goes back to batch 1.  A batch is its number.     *)
(*                                                                             *)
(* Update, HasNext, GetFallbackHotshotPos, GetBatchFinalizationTimestamp and   *)
(* UnmarshalBatch only pass the call on, and change none of this state.        *)
EXTENDS Integers, Sequences

CONSTANTS
  OriginBatchPos,   \* the batch the inner streamer was created behind
  SafeBatches,      \* safe L2 block numbers the caller may report
  SafeL1Origins,    \* numbers of the safe L1 origins the caller may report
  SelfRewinds,      \* does the inner streamer rewind without being asked to?
  LooseStarts,      \* where it may go besides, whatever the safe head
  MaxBatch,         \* bound on the batches the inner streamer delivers
  MaxCache          \* bound on the length of the cache

ASSUME BufferedAssumption ==
  /\ OriginBatchPos \in Nat /\ MaxBatch \in Nat /\ MaxCache \in Nat
  /\ SafeBatches \subseteq Nat /\ SafeL1Origins \subseteq Nat
  /\ SelfRewinds \in BOOLEAN /\ LooseStarts \subseteq Nat

VARIABLES
  batches,              \* the cache
  readPos,              \* how much of it the consumer has read
  startingBatchPos,
  currentSafeL1Origin,  \* its number
  feedSafe, feedNext,   \* the inner streamer: a BatchFeed
  wentBack              \* history: did it go back while the cache was kept?

cacheVars == <<batches, readPos, startingBatchPos>>
feedVars == <<feedSafe, feedNext>>
vars == <<cacheVars, currentSafeL1Origin, feedVars, wentBack>>

Feed == INSTANCE BatchFeed WITH safe <- feedSafe, next <- feedNext

TypeOK ==
  /\ batches \in Seq(Nat) /\ readPos \in Nat
  /\ startingBatchPos \in Nat /\ currentSafeL1Origin \in Nat
  /\ feedSafe \in Nat /\ feedNext \in Nat /\ wentBack \in BOOLEAN

(* NewBufferedEspressoStreamer *)
Init ==
  /\ batches = <<>> /\ readPos = 0
  /\ startingBatchPos = 0 /\ currentSafeL1Origin = 0
  /\ Feed!Init /\ wentBack = FALSE

------------------------------------------------------------------------------
(* Refresh, RefreshSafeL1Origin *)

(* handleL2PositionUpdate(s): the cache and the read position it leaves.  A    *)
(* retreat empties the cache, an advance drops its front, or all of it.        *)
Adjustment(s) == s - startingBatchPos

FitsCache(s) == Adjustment(s) \in 0..Len(batches)

(* Variants the runs must reject: the cache stays when it is behind as a       *)
(* whole; the read position stays, is restarted, or falls below the cache.     *)
CacheAfterKept(s) ==
  IF FitsCache(s) THEN SubSeq(batches, Adjustment(s) + 1, Len(batches)) ELSE batches

ReadPosAfterKept(s) == IF FitsCache(s) THEN readPos ELSE 0

ReadPosAfterRestart(s) == 0

ReadPosAfterUnclamped(s) == IF FitsCache(s) THEN readPos - Adjustment(s) ELSE 0

CacheAfter(s) ==
  IF FitsCache(s) THEN SubSeq(batches, Adjustment(s) + 1, Len(batches)) ELSE <<>>

ReadPosAfter(s) ==
  IF FitsCache(s) /\ readPos >= Adjustment(s) THEN readPos - Adjustment(s) ELSE 0

Retreats(o) == o < currentSafeL1Origin

(* A retreat of the L1 origin. *)
ForgetCache == batches' = <<>> /\ readPos' = 0 /\ startingBatchPos' = 0

RefreshSafeL1Origin(o) ==
  /\ currentSafeL1Origin' = o
  /\ \/ /\ Retreats(o) /\ ForgetCache
        /\ \/ Feed!RefreshSafeL1Origin \/ UNCHANGED feedVars
           \/ feedNext' \in LooseStarts /\ UNCHANGED feedSafe
     \/ ~Retreats(o) /\ UNCHANGED <<cacheVars, feedVars>>

(* What the inner streamer may return next when its Refresh is called: after   *)
(* its Reset if s lies behind the cache, and its RefreshSafeL1Origin.          *)
BeforeFeedRefresh(s, o) ==
  {IF s < startingBatchPos THEN feedSafe + 1 ELSE feedNext}
    \cup (IF Retreats(o) /\ SelfRewinds THEN {feedSafe + 1} ELSE {})

Refresh(s, o) ==
  /\ currentSafeL1Origin' = o
  /\ \/ Retreats(o) /\ ForgetCache
     \/ /\ ~Retreats(o)
        /\ batches' = CacheAfter(s) /\ readPos' = ReadPosAfter(s) /\ startingBatchPos' = s
  /\ feedSafe' = s
  /\ \E n \in BeforeFeedRefresh(s, o) : feedNext' \in Feed!Refreshed(s, n) \cup LooseStarts

------------------------------------------------------------------------------
(* Next, Peek *)

HasUnread == readPos < Len(batches)

NextFromCache ==
  /\ HasUnread
  /\ readPos' = readPos + 1
  /\ UNCHANGED <<batches, startingBatchPos, currentSafeL1Origin, feedVars>>

(* A variant the runs must reject: none is thrown away. *)
FirstKeptOfAll == feedNext

(* The first batch of the inner streamer the loops of Next and Peek keep: the  *)
(* ones numbered below startingBatchPos are taken from it and thrown away.     *)
FirstKept == IF feedNext >= startingBatchPos THEN feedNext ELSE startingBatchPos

NextFromFeed ==
  /\ ~HasUnread
  /\ FirstKept <= MaxBatch /\ Len(batches) < MaxCache
  /\ batches' = Append(batches, FirstKept)
  /\ readPos' = readPos + 1
  /\ feedNext' = FirstKept + 1
  /\ UNCHANGED <<startingBatchPos, currentSafeL1Origin, feedSafe>>

Peek ==
  /\ ~HasUnread
  /\ feedNext' = FirstKept
  /\ UNCHANGED <<cacheVars, currentSafeL1Origin, feedSafe>>

(* Reset: the inner streamer is left where it is. *)
Reset ==
  /\ readPos' = 0
  /\ UNCHANGED <<batches, startingBatchPos, currentSafeL1Origin, feedVars>>

(* SetProperHead: the inner streamer drops batches, but expects the same one.  *)
SetProperHead ==
  /\ batches' = SubSeq(batches, 1, readPos)
  /\ UNCHANGED <<readPos, startingBatchPos, currentSafeL1Origin, feedVars>>

------------------------------------------------------------------------------
(* An inner streamer that goes back while cached batches are kept delivers     *)
(* some of them again.                                                         *)
NoteBack == wentBack' = (batches' # <<>> /\ (wentBack \/ feedNext' < feedNext))

Calls == NextFromCache \/ NextFromFeed \/ Peek \/ Reset \/ SetProperHead

Refreshes(o) == RefreshSafeL1Origin(o) \/ \E s \in SafeBatches : Refresh(s, o)

Next == (Calls \/ \E o \in SafeL1Origins : Refreshes(o)) /\ NoteBack

Spec == Init /\ [][Next]_vars

(* A caller that calls Refresh before it reads, and SetProperHead only when    *)
(* the cache is read to its end.                                               *)
Synced == startingBatchPos = feedSafe

AlignedCalls ==
  \/ Synced /\ (NextFromCache \/ NextFromFeed \/ Peek \/ Reset)
  \/ ~HasUnread /\ SetProperHead

AlignedNext == (AlignedCalls \/ \E o \in SafeL1Origins : Refreshes(o)) /\ NoteBack

AlignedSpec == Init /\ [][AlignedNext]_vars

(* The cache keeps its promise if the L1 origin never retreats either. *)
SteadyNext ==
  /\ AlignedCalls \/ \E o \in SafeL1Origins : ~Retreats(o) /\ Refreshes(o)
  /\ NoteBack

SteadySpec == Init /\ [][SteadyNext]_vars

------------------------------------------------------------------------------
(* The number of the batch the consumer gets next. *)
Due == IF HasUnread THEN batches[readPos + 1] ELSE FirstKept

(* The cache is the stretch of batches from the safe one to the inner          *)
(* streamer's position, so dropping by count (handleL2PositionUpdate) and by   *)
(* number are the same, and what was dropped is never asked for again.         *)
CacheIsWindow ==
  /\ \A i \in 1..Len(batches) : batches[i] = startingBatchPos + i
  /\ Synced => feedNext = startingBatchPos + Len(batches) + 1

(* With the cache the streamer is a feed as well: Reset leads back to the      *)
(* first batch that is not safe without a reset of the inner streamer, and a   *)
(* safe head that moves forward goes unnoticed by the consumer.                *)
Outer == INSTANCE BatchFeed WITH
           safe <- feedSafe, next <- Due, SelfRewinds <- FALSE

KeepsPromise == Outer!Spec

(* The consumer is never handed a batch from before the safe head the cache    *)
(* starts at, however far behind the inner streamer is and whatever the caller *)
(* does: the loops of Next and Peek throw those away, and what is dropped by   *)
(* count (handleL2PositionUpdate) leaves nothing older in the cache.  An inner *)
(* streamer that goes back while the cache is kept is excepted.                *)
NothingBelowStart == ~wentBack => Due >= startingBatchPos

(* The slice that SetProperHead takes exists, whatever the caller and the      *)
(* inner streamer do.                                                          *)
ReadPosInCache == readPos <= Len(batches)

------------------------------------------------------------------------------
(* Statements of the documentation the code does not keep. *)

(* "Reset will reset the Streamer to the last known good safe state ... the    *)
(* last know good safe batch position" (Reset, interface.go).                  *)
ResetReturnsToSafe == [][Reset => Due' = feedSafe + 1]_vars

(* "This should appear to the consumer as nothing has changed                  *)
(* progression-wise" (handleL2PositionUpdate): a safe head that moves forward, *)
(* and not past the batch that is due, does not change which one that is.      *)
ProgressionUnchanged ==
  [][(feedSafe' > feedSafe /\ feedSafe' < Due) => Due' = Due]_vars

(* "positioning it at the correct fork for the next Peek call" (SetProperHead, *)
(* interface.go): the fork changes, the number that is due does not.           *)
SetProperHeadKeepsNumber == [][SetProperHead => Due' = Due]_vars
==============================================================================
