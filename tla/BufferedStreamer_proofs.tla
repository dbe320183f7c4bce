----------------------- MODULE BufferedStreamer_proofs -----------------------
(* Theorems about the buffered streamer, for every set of safe heads and of L1 *)
(* origins, every order of the calls and every number of batches.  The proofs  *)
(* rest on BufferedAssumption only; the theorems on the window and the promise *)
(* also assume an inner streamer that keeps BatchFeed's promise and never      *)
(* rewinds by itself.                                                          *)
EXTENDS BufferedStreamer, TLAPS

(* What handleL2PositionUpdate leaves of the cache and of the read position.   *)
LEMMA AdjustedCache ==
  ASSUME batches \in Seq(Nat), startingBatchPos \in Nat, NEW s \in Nat
  PROVE  /\ CacheAfter(s) \in Seq(Nat)
         /\ Len(CacheAfter(s)) = IF FitsCache(s) THEN Len(batches) - Adjustment(s) ELSE 0
         /\ \A i \in 1..Len(CacheAfter(s)) :
              /\ FitsCache(s) /\ i + Adjustment(s) \in 1..Len(batches)
              /\ CacheAfter(s)[i] = batches[i + Adjustment(s)]
<1> DEFINE a == Adjustment(s)
<1>1. a \in Int /\ Len(batches) \in Nat
  BY DEF Adjustment
<1>2. CASE FitsCache(s)
  <2>1. a \in 0..Len(batches)
    BY <1>2 DEF FitsCache
  <2>2. CacheAfter(s) = SubSeq(batches, a + 1, Len(batches))
    BY <1>2 DEF CacheAfter
  <2> HIDE DEF a
  <2>3. CacheAfter(s) \in Seq(Nat) /\ Len(CacheAfter(s)) = Len(batches) - a
    BY <1>1, <2>1, <2>2
  <2>4. \A i \in 1..(Len(batches) - a) :
          i + a \in 1..Len(batches) /\ CacheAfter(s)[i] = batches[i + a]
    <3> SUFFICES ASSUME NEW i \in 1..(Len(batches) - a)
                 PROVE  i + a \in 1..Len(batches) /\ CacheAfter(s)[i] = batches[i + a]
      OBVIOUS
    <3>1. i + a \in 1..Len(batches)
      BY <1>1, <2>1
    <3>2. CacheAfter(s)[i] = batches[i + a]
      BY <1>1, <2>1, <2>2
    <3> QED BY <3>1, <3>2
  <2> QED BY <1>2, <2>3, <2>4 DEF a
<1>3. CASE ~FitsCache(s)
  BY <1>3 DEF CacheAfter
<1> QED BY <1>2, <1>3

LEMMA AdjustedReadPos ==
  ASSUME batches \in Seq(Nat), readPos \in Nat, startingBatchPos \in Nat, NEW s \in Nat
  PROVE  /\ ReadPosAfter(s) \in Nat
         /\ ReadPosInCache => ReadPosAfter(s) <= Len(CacheAfter(s))
<1>1. Adjustment(s) \in Int /\ Len(batches) \in Nat
  BY DEF Adjustment
<1>2. Len(CacheAfter(s)) = IF FitsCache(s) THEN Len(batches) - Adjustment(s) ELSE 0
  BY AdjustedCache
<1>3. FitsCache(s) <=> Adjustment(s) \in 0..Len(batches)
  BY DEF FitsCache
<1> QED BY <1>1, <1>2, <1>3 DEF ReadPosAfter, ReadPosInCache

------------------------------------------------------------------------------
(* Any caller and any inner streamer. *)
AnyInv == TypeOK /\ ReadPosInCache

LEMMA AnyInit == Init => AnyInv
<1> SUFFICES ASSUME Init PROVE AnyInv
  OBVIOUS
<1>1. wentBack \in BOOLEAN
  BY DEF Init
<1>2. /\ batches = <<>> /\ readPos = 0 /\ startingBatchPos = 0 /\ currentSafeL1Origin = 0
      /\ feedSafe = OriginBatchPos /\ feedNext = OriginBatchPos + 1
  BY DEF Init, Feed!Init
<1> QED BY <1>1, <1>2, BufferedAssumption DEF AnyInv, TypeOK, ReadPosInCache

(* What a call of the inner streamer's Refresh leaves it to return next, if it *)
(* keeps BatchFeed's promise.                                                  *)
LEMMA FeedRefreshed ==
  ASSUME TypeOK, NEW s \in Nat, NEW o \in Nat, NEW n \in BeforeFeedRefresh(s, o),
         NEW m \in Feed!Refreshed(s, n)
  PROVE  m \in Nat /\ m > s
<1>1. n \in Nat
  BY DEF TypeOK, BeforeFeedRefresh
<1> QED BY <1>1 DEF Feed!Refreshed, TypeOK

LEMMA AnyRefresh ==
  ASSUME AnyInv, NEW s \in SafeBatches, NEW o \in SafeL1Origins, Refresh(s, o), NoteBack
  PROVE  AnyInv'
<1>1. s \in Nat /\ o \in Nat
  BY BufferedAssumption
<1>2. feedSafe' = s /\ currentSafeL1Origin' = o /\ feedNext' \in Nat
  BY <1>1, FeedRefreshed, BufferedAssumption DEF Refresh, AnyInv
<1>3. wentBack' \in BOOLEAN
  BY DEF NoteBack
<1>4. CASE Retreats(o) /\ ForgetCache
  BY <1>1, <1>2, <1>3, <1>4 DEF ForgetCache, AnyInv, TypeOK, ReadPosInCache
<1>5. CASE batches' = CacheAfter(s) /\ readPos' = ReadPosAfter(s) /\ startingBatchPos' = s
  BY <1>1, <1>2, <1>3, <1>5, AdjustedCache, AdjustedReadPos
     DEF AnyInv, TypeOK, ReadPosInCache
<1> QED BY <1>4, <1>5 DEF Refresh

LEMMA AnyOrigin ==
  ASSUME AnyInv, NEW o \in SafeL1Origins, RefreshSafeL1Origin(o), NoteBack
  PROVE  AnyInv'
<1>1. o \in Nat
  BY BufferedAssumption
<1>2. wentBack' \in BOOLEAN
  BY DEF NoteBack
<1>3. feedSafe' \in Nat /\ feedNext' \in Nat
  <2>1. /\ feedSafe' = feedSafe
        /\ feedNext' = feedSafe + 1 \/ feedNext' = feedNext \/ feedNext' \in LooseStarts
    BY Zenon DEF RefreshSafeL1Origin, Feed!RefreshSafeL1Origin, Feed!Rewind, feedVars
  <2>2. LooseStarts \subseteq Nat
    BY BufferedAssumption
  <2>3. feedSafe \in Nat /\ feedNext \in Nat
    BY DEF AnyInv, TypeOK
  <2>4. CASE feedNext' \in LooseStarts
    BY <2>1, <2>2, <2>3, <2>4
  <2>5. CASE feedNext' = feedSafe + 1 \/ feedNext' = feedNext
    BY <2>1, <2>3, <2>5
  <2> QED BY <2>1, <2>4, <2>5
<1>4. CASE ForgetCache
  BY <1>1, <1>2, <1>3, <1>4 DEF RefreshSafeL1Origin, ForgetCache, AnyInv, TypeOK,
                                ReadPosInCache
<1>5. CASE UNCHANGED <<cacheVars, feedVars>>
  BY <1>1, <1>2, <1>3, <1>5 DEF RefreshSafeL1Origin, cacheVars, AnyInv, TypeOK,
                                ReadPosInCache
<1> QED BY <1>4, <1>5 DEF RefreshSafeL1Origin

(* Next, Peek, Reset and SetProperHead. *)
LEMMA AnyCall ==
  ASSUME AnyInv, (Calls /\ NoteBack) \/ UNCHANGED vars
  PROVE  AnyInv'
<1>1. /\ batches \in Seq(Nat) /\ readPos \in Nat /\ startingBatchPos \in Nat
      /\ currentSafeL1Origin \in Nat /\ feedSafe \in Nat /\ feedNext \in Nat
      /\ readPos <= Len(batches)
  BY DEF AnyInv, TypeOK, ReadPosInCache
<1>2. FirstKept \in Nat
  BY <1>1 DEF FirstKept
<1>3. wentBack' \in BOOLEAN
  BY DEF NoteBack, AnyInv, TypeOK, vars
<1>4. CASE NextFromCache
  BY <1>1, <1>3, <1>4 DEF NextFromCache, HasUnread, feedVars, AnyInv, TypeOK, ReadPosInCache
<1>5. CASE NextFromFeed
  <2>1. readPos = Len(batches) /\ batches' = Append(batches, FirstKept)
        /\ readPos' = readPos + 1 /\ feedNext' = FirstKept + 1
        /\ UNCHANGED <<startingBatchPos, currentSafeL1Origin, feedSafe>>
    BY <1>1, <1>5 DEF NextFromFeed, HasUnread
  <2> QED BY <1>1, <1>2, <1>3, <2>1 DEF AnyInv, TypeOK, ReadPosInCache
<1>6. CASE Peek
  BY <1>1, <1>2, <1>3, <1>6 DEF Peek, cacheVars, AnyInv, TypeOK, ReadPosInCache
<1>7. CASE Reset
  BY <1>1, <1>3, <1>7 DEF Reset, feedVars, AnyInv, TypeOK, ReadPosInCache
<1>8. CASE SetProperHead
  BY <1>1, <1>3, <1>8 DEF SetProperHead, feedVars, AnyInv, TypeOK, ReadPosInCache
<1>9. CASE UNCHANGED vars
  BY <1>1, <1>3, <1>9 DEF vars, cacheVars, feedVars, AnyInv, TypeOK, ReadPosInCache
<1> QED BY <1>4, <1>5, <1>6, <1>7, <1>8, <1>9 DEF Calls

LEMMA AnyStep == AnyInv /\ [Next]_vars => AnyInv'
BY AnyRefresh, AnyOrigin, AnyCall DEF Next, Refreshes

LEMMA AnyCorrect == Spec => []AnyInv
BY AnyInit, AnyStep, PTL DEF Spec

(* The read position stays inside the cache: SetProperHead's slice exists.     *)
THEOREM ReadPosCorrect == Spec => []ReadPosInCache
<1>1. AnyInv => ReadPosInCache
  BY DEF AnyInv
<1> QED BY <1>1, AnyCorrect, PTL

(* While the inner streamer has not gone back, the i-th cached batch is at     *)
(* least i - 1 behind the start of the cache, so that dropping as many batches *)
(* as the start moves on keeps that, and the inner streamer is behind them all.*)
Above ==
  ~wentBack =>
    /\ \A i \in 1..Len(batches) : batches[i] + 1 >= startingBatchPos + i
    /\ Len(batches) = 0 \/ feedNext >= startingBatchPos + Len(batches)

(* A step of the history, spelled out. *)
LEMMA NotedBack ==
  ASSUME TypeOK, TypeOK', NoteBack, ~wentBack'
  PROVE  batches' = <<>> \/ (~wentBack /\ feedNext' >= feedNext)
<1>1. batches' = <<>> \/ ~(feedNext' < feedNext)
  BY DEF NoteBack
<1>2. batches' = <<>> \/ ~wentBack
  BY DEF NoteBack
<1> QED BY <1>1, <1>2 DEF TypeOK

(* An empty cache satisfies the invariant. *)
LEMMA AboveEmpty == ASSUME batches' = <<>> PROVE Above'
BY DEF Above

LEMMA AboveRefresh ==
  ASSUME AnyInv, AnyInv', Above,
         NEW s \in SafeBatches, NEW o \in SafeL1Origins, Refresh(s, o), NoteBack
  PROVE  Above'
<1>1. s \in Nat
  BY BufferedAssumption
<1>2. SUFFICES ASSUME ~wentBack', batches' # <<>>
               PROVE  /\ \A i \in 1..Len(batches') : batches'[i] + 1 >= startingBatchPos' + i
                      /\ feedNext' >= startingBatchPos' + Len(batches')
  BY AboveEmpty DEF Above
<1>3. ~wentBack /\ feedNext' >= feedNext
  BY <1>2, NotedBack DEF AnyInv
<1>4. batches' = CacheAfter(s) /\ startingBatchPos' = s
  BY <1>2 DEF Refresh, ForgetCache
<1>5. /\ batches \in Seq(Nat) /\ startingBatchPos \in Nat /\ feedNext \in Nat
      /\ feedNext' \in Nat /\ Len(batches) \in Nat
  BY DEF AnyInv, TypeOK
<1>6. FitsCache(s) /\ Len(batches') = Len(batches) - Adjustment(s)
  <2>1. batches' \in Seq(Nat) /\ Len(batches') # 0
    BY <1>2 DEF AnyInv, TypeOK
  <2> QED BY <1>1, <1>4, <1>5, <2>1, AdjustedCache
<1>7. Adjustment(s) = s - startingBatchPos /\ Adjustment(s) \in 0..Len(batches)
  BY <1>6 DEF FitsCache, Adjustment
<1>8. Len(batches) # 0
  BY <1>2, <1>4, <1>5, <1>6, <1>7, AdjustedCache DEF CacheAfter
<1>9. ASSUME NEW i \in 1..Len(batches')
      PROVE  batches'[i] + 1 >= startingBatchPos' + i
  <2>1. /\ i + Adjustment(s) \in 1..Len(batches)
        /\ batches'[i] = batches[i + Adjustment(s)]
    BY <1>1, <1>4, <1>5, AdjustedCache
  <2>2. batches[i + Adjustment(s)] + 1 >= startingBatchPos + (i + Adjustment(s))
    BY <1>3, <2>1 DEF Above
  <2>3. i \in Int /\ batches'[i] \in Nat
    BY <1>5, <2>1
  <2> QED BY <1>1, <1>4, <1>5, <1>7, <2>1, <2>2, <2>3
<1>10. feedNext' >= startingBatchPos' + Len(batches')
  <2>1. feedNext >= startingBatchPos + Len(batches)
    BY <1>3, <1>8 DEF Above
  <2> QED BY <1>1, <1>3, <1>4, <1>5, <1>6, <1>7, <2>1
<1> QED BY <1>9, <1>10

LEMMA AboveOrigin ==
  ASSUME AnyInv, AnyInv', Above,
         NEW o \in SafeL1Origins, RefreshSafeL1Origin(o), NoteBack
  PROVE  Above'
<1>1. CASE ForgetCache
  BY <1>1, AboveEmpty DEF ForgetCache
<1>2. CASE UNCHANGED <<cacheVars, feedVars>>
  <2>1. SUFFICES ASSUME ~wentBack' PROVE Above'
    BY DEF Above
  <2>2. batches' = <<>> \/ ~wentBack
    BY <2>1, NotedBack DEF AnyInv
  <2> QED BY <1>2, <2>2, AboveEmpty DEF cacheVars, feedVars, Above
<1> QED BY <1>1, <1>2 DEF RefreshSafeL1Origin

LEMMA AboveCall ==
  ASSUME AnyInv, AnyInv', Above, (Calls /\ NoteBack) \/ UNCHANGED vars
  PROVE  Above'
<1>1. /\ batches \in Seq(Nat) /\ Len(batches) \in Nat /\ readPos \in Nat
      /\ startingBatchPos \in Nat /\ feedNext \in Nat /\ readPos <= Len(batches)
  BY DEF AnyInv, TypeOK, ReadPosInCache
<1>2. CASE UNCHANGED vars
  BY <1>2 DEF vars, cacheVars, feedVars, Above
<1>3. SUFFICES ASSUME Calls, NoteBack, ~wentBack', batches' # <<>>
               PROVE  /\ \A i \in 1..Len(batches') : batches'[i] + 1 >= startingBatchPos' + i
                      /\ feedNext' >= startingBatchPos' + Len(batches')
  BY <1>2, AboveEmpty DEF Above
<1>4. /\ \A i \in 1..Len(batches) : batches[i] + 1 >= startingBatchPos + i
      /\ Len(batches) = 0 \/ feedNext >= startingBatchPos + Len(batches)
  BY <1>3, NotedBack DEF AnyInv, Above
<1>5. CASE NextFromCache \/ Reset
  <2>1. UNCHANGED <<batches, startingBatchPos, feedNext>>
    BY <1>5 DEF NextFromCache, Reset, feedVars
  <2>2. Len(batches) # 0
    BY <1>1, <1>3, <2>1
  <2> QED BY <1>4, <2>1, <2>2
<1>6. CASE Peek
  <2>1. UNCHANGED <<batches, startingBatchPos>> /\ feedNext' = FirstKept
    BY <1>6 DEF Peek, cacheVars
  <2>2. Len(batches) # 0
    BY <1>1, <1>3, <2>1
  <2>3. FirstKept >= feedNext /\ FirstKept \in Nat
    BY <1>1 DEF FirstKept
  <2> QED BY <1>1, <1>4, <2>1, <2>2, <2>3
<1>7. CASE SetProperHead
  <2>1. UNCHANGED <<startingBatchPos, feedNext>> /\ batches' = SubSeq(batches, 1, readPos)
    BY <1>7 DEF SetProperHead, feedVars
  <2>2. Len(batches') = readPos /\ \A i \in 1..readPos : batches'[i] = batches[i]
    BY <1>1, <2>1
  <2>3. readPos # 0
    BY <1>1, <1>3, <2>1
  <2> QED BY <1>1, <1>4, <2>1, <2>2, <2>3
<1>8. CASE NextFromFeed
  <2>1. /\ batches' = Append(batches, FirstKept) /\ feedNext' = FirstKept + 1
        /\ UNCHANGED startingBatchPos
    BY <1>8 DEF NextFromFeed
  <2>2. FirstKept \in Nat /\ FirstKept >= startingBatchPos + Len(batches)
    BY <1>1, <1>4 DEF FirstKept
  <2>3. /\ Len(batches') = Len(batches) + 1 /\ batches'[Len(batches) + 1] = FirstKept
        /\ \A i \in 1..Len(batches) : batches'[i] = batches[i]
    BY <1>1, <2>1, <2>2
  <2>4. ASSUME NEW i \in 1..Len(batches')
        PROVE  batches'[i] + 1 >= startingBatchPos' + i
    <3>1. CASE i = Len(batches) + 1
      BY <1>1, <2>1, <2>2, <2>3, <3>1
    <3>2. CASE i \in 1..Len(batches)
      BY <1>4, <2>1, <2>3, <3>2
    <3> QED BY <1>1, <2>3, <3>1, <3>2
  <2> QED BY <1>1, <2>1, <2>2, <2>3, <2>4
<1> QED BY <1>3, <1>5, <1>6, <1>7, <1>8 DEF Calls

LEMMA AboveStep == AnyInv /\ AnyInv' /\ Above /\ [Next]_vars => Above'
BY AboveRefresh, AboveOrigin, AboveCall DEF Next, Refreshes

(* The consumer is never handed a batch numbered below startingBatchPos, for   *)
(* any caller and any inner streamer that does not go back behind a cache that *)
(* is kept: the loops of Next and Peek, and dropping by count, see to it.      *)
THEOREM NothingBelowStartCorrect == Spec => []NothingBelowStart
<1>1. Init => Above
  BY DEF Init, Above
<1>2. AnyInv /\ Above => NothingBelowStart
  <2> SUFFICES ASSUME AnyInv, Above, ~wentBack PROVE Due >= startingBatchPos
    BY DEF NothingBelowStart
  <2>1. /\ batches \in Seq(Nat) /\ readPos \in Nat /\ startingBatchPos \in Nat
        /\ feedNext \in Nat /\ Len(batches) \in Nat
    BY DEF AnyInv, TypeOK
  <2>2. CASE HasUnread
    <3>1. readPos + 1 \in 1..Len(batches)
      BY <2>1, <2>2 DEF HasUnread
    <3>2. batches[readPos + 1] + 1 >= startingBatchPos + (readPos + 1)
      BY <3>1 DEF Above
    <3>3. Due = batches[readPos + 1] /\ Due \in Nat
      BY <2>1, <2>2, <3>1 DEF Due
    <3> QED BY <2>1, <3>2, <3>3
  <2>3. CASE ~HasUnread
    BY <2>1, <2>3 DEF Due, FirstKept
  <2> QED BY <2>2, <2>3
<1> QED BY <1>1, <1>2, AboveStep, AnyCorrect, PTL DEF Spec

------------------------------------------------------------------------------
(* A caller that calls Refresh before it reads, an L1 origin that never        *)
(* retreats, and an inner streamer that keeps BatchFeed's promise and rewinds  *)
(* only when asked to.                                                         *)

Steady == SelfRewinds = FALSE /\ LooseStarts = {}

(* Before the first Refresh nothing has been read. *)
Fresh ==
  ~Synced => batches = <<>> /\ startingBatchPos = 0 /\ feedNext = feedSafe + 1

(* The cache starts no later than the safe head the inner streamer was told,   *)
(* which is before its next batch.                                             *)
Ordered == startingBatchPos <= feedSafe /\ feedSafe < feedNext

SteadyInv == AnyInv /\ Ordered /\ CacheIsWindow /\ Fresh

LEMMA SteadyInit == Init => SteadyInv
<1> SUFFICES ASSUME Init PROVE SteadyInv
  OBVIOUS
<1>1. AnyInv
  BY AnyInit
<1>2. Ordered /\ CacheIsWindow /\ Fresh
  BY BufferedAssumption DEF Init, Feed!Init, Ordered, CacheIsWindow, Fresh, Synced
<1> QED BY <1>1, <1>2 DEF SteadyInv

(* The facts the proofs below use, spelled out. *)
LEMMA SteadyFacts ==
  ASSUME SteadyInv
  PROVE  /\ batches \in Seq(Nat) /\ Len(batches) \in Nat /\ readPos \in Nat
         /\ startingBatchPos \in Nat /\ feedSafe \in Nat /\ feedNext \in Nat
         /\ readPos <= Len(batches) /\ startingBatchPos <= feedSafe /\ feedSafe < feedNext
         /\ FirstKept = feedNext
         /\ \A i \in 1..Len(batches) : batches[i] = startingBatchPos + i
         /\ \/ startingBatchPos = feedSafe /\ feedNext = startingBatchPos + Len(batches) + 1
            \/ /\ startingBatchPos # feedSafe /\ Len(batches) = 0
               /\ startingBatchPos = 0 /\ feedNext = feedSafe + 1
<1>1. /\ batches \in Seq(Nat) /\ readPos \in Nat /\ startingBatchPos \in Nat
      /\ feedSafe \in Nat /\ feedNext \in Nat /\ readPos <= Len(batches)
      /\ startingBatchPos <= feedSafe /\ feedSafe < feedNext
  BY DEF SteadyInv, AnyInv, TypeOK, ReadPosInCache, Ordered
<1>2. FirstKept = feedNext
  BY <1>1 DEF FirstKept
<1>3. \A i \in 1..Len(batches) : batches[i] = startingBatchPos + i
  BY DEF SteadyInv, CacheIsWindow
<1>4. CASE Synced
  BY <1>1, <1>2, <1>3, <1>4 DEF Synced, SteadyInv, CacheIsWindow
<1>5. CASE ~Synced
  BY <1>1, <1>2, <1>3, <1>5 DEF Synced, SteadyInv, Fresh
<1> QED BY <1>4, <1>5

(* The batch that is due is the read position counted from the safe head. *)
LEMMA DueCounts == SteadyInv => Due = feedSafe + readPos + 1
<1> SUFFICES ASSUME SteadyInv PROVE Due = feedSafe + readPos + 1
  OBVIOUS
<1>1. CASE HasUnread
  <2>1. readPos + 1 \in 1..Len(batches)
    BY <1>1, SteadyFacts DEF HasUnread
  <2>2. Due = batches[readPos + 1]
    BY <1>1 DEF Due
  <2>3. batches[readPos + 1] = startingBatchPos + (readPos + 1) /\ Len(batches) # 0
    BY <2>1, SteadyFacts
  <2>4. startingBatchPos = feedSafe /\ readPos \in Nat /\ feedSafe \in Nat
    BY <2>3, SteadyFacts
  <2> QED BY <2>2, <2>3, <2>4
<1>2. CASE ~HasUnread
  BY <1>2, SteadyFacts DEF Due, HasUnread
<1> QED BY <1>1, <1>2

LEMMA DueCountsThen == SteadyInv' => Due' = feedSafe' + readPos' + 1
<1> DEFINE Counted == SteadyInv => Due = feedSafe + readPos + 1
<1>1. Counted
  BY DueCounts
<1> HIDE DEF Counted
<1>2. Counted'
  BY <1>1, PTL
<1> QED BY <1>2 DEF Counted

(* A Refresh that is no retreat of the L1 origin, in numbers. *)
LEMMA SteadyRefreshEffect ==
  ASSUME Steady, SteadyInv,
         NEW s \in SafeBatches, NEW o \in SafeL1Origins, ~Retreats(o), Refresh(s, o)
  PROVE  /\ s \in Nat /\ feedSafe' = s /\ startingBatchPos' = s
         /\ batches' = CacheAfter(s) /\ readPos' = ReadPosAfter(s)
         /\ feedNext' = s + Len(CacheAfter(s)) + 1
<1>1. s \in Nat
  BY BufferedAssumption
<1>2. /\ batches' = CacheAfter(s) /\ readPos' = ReadPosAfter(s) /\ startingBatchPos' = s
      /\ feedSafe' = s
  BY DEF Refresh
<1>3. PICK n \in BeforeFeedRefresh(s, o) : feedNext' \in Feed!Refreshed(s, n)
  BY DEF Refresh, Steady
<1>4. n = IF s < startingBatchPos THEN feedSafe + 1 ELSE feedNext
  BY <1>3 DEF BeforeFeedRefresh, Steady
<1>5. feedNext' = IF s >= feedSafe /\ n > s THEN n ELSE s + 1
  BY <1>3 DEF Feed!Refreshed, Steady
<1>6. Len(CacheAfter(s)) =
        IF s - startingBatchPos \in 0..Len(batches)
          THEN Len(batches) - (s - startingBatchPos) ELSE 0
  BY <1>1, AdjustedCache, SteadyFacts DEF FitsCache, Adjustment
<1>7. feedNext' = s + Len(CacheAfter(s)) + 1
  <2>1. /\ Len(batches) \in Nat /\ startingBatchPos \in Nat /\ feedSafe \in Nat
        /\ feedNext \in Nat /\ startingBatchPos <= feedSafe /\ feedSafe < feedNext
        /\ \/ startingBatchPos = feedSafe /\ feedNext = startingBatchPos + Len(batches) + 1
           \/ Len(batches) = 0 /\ startingBatchPos = 0 /\ feedNext = feedSafe + 1
    BY SteadyFacts
  <2> DEFINE l == Len(CacheAfter(s))
             q == Len(batches)
  <2>2. l = IF s - startingBatchPos \in 0..q THEN q - (s - startingBatchPos) ELSE 0
    BY <1>6
  <2> HIDE DEF l, q
  <2>3. ASSUME startingBatchPos = feedSafe, feedNext = startingBatchPos + q + 1, q \in Nat
        PROVE  feedNext' = s + l + 1
    BY <1>1, <1>4, <1>5, <2>1, <2>2, <2>3
  <2>4. ASSUME q = 0, startingBatchPos = 0, feedNext = feedSafe + 1
        PROVE  feedNext' = s + l + 1
    BY <1>1, <1>4, <1>5, <2>1, <2>2, <2>4
  <2> QED BY <2>1, <2>3, <2>4 DEF l, q
<1> QED BY <1>1, <1>2, <1>7

LEMMA SteadyStep ==
  ASSUME Steady, SteadyInv, [SteadyNext]_vars
  PROVE  SteadyInv'
<1>1. AnyInv'
  BY AnyRefresh, AnyOrigin, AnyCall
     DEF SteadyNext, AlignedCalls, Refreshes, Calls, SteadyInv
<1> SUFFICES Ordered' /\ CacheIsWindow' /\ Fresh'
  BY <1>1 DEF SteadyInv
<1>2. ASSUME NEW s \in SafeBatches, NEW o \in SafeL1Origins, ~Retreats(o), Refresh(s, o)
      PROVE  Ordered' /\ CacheIsWindow' /\ Fresh'
  <2>1. /\ s \in Nat /\ feedSafe' = s /\ startingBatchPos' = s
        /\ batches' = CacheAfter(s) /\ feedNext' = s + Len(CacheAfter(s)) + 1
    BY <1>2, SteadyRefreshEffect
  <2>2. \A i \in 1..Len(CacheAfter(s)) : CacheAfter(s)[i] = s + i
    <3> TAKE i \in 1..Len(CacheAfter(s))
    <3>1. /\ i + Adjustment(s) \in 1..Len(batches)
          /\ CacheAfter(s)[i] = batches[i + Adjustment(s)]
      BY <2>1, AdjustedCache, SteadyFacts
    <3>2. batches[i + Adjustment(s)] = startingBatchPos + (i + Adjustment(s))
      BY <3>1, SteadyFacts
    <3>3. i \in Int
      OBVIOUS
    <3> QED BY <2>1, <3>1, <3>2, <3>3, SteadyFacts DEF Adjustment
  <2> QED BY <2>1, <2>2 DEF Ordered, CacheIsWindow, Fresh, Synced
<1>3. ASSUME NEW o \in SafeL1Origins, ~Retreats(o), RefreshSafeL1Origin(o)
      PROVE  Ordered' /\ CacheIsWindow' /\ Fresh'
  BY <1>3 DEF RefreshSafeL1Origin, cacheVars, feedVars, SteadyInv, Ordered, CacheIsWindow,
              Fresh, Synced
<1>4. CASE Synced /\ NextFromFeed
  <2>1. /\ batches' = Append(batches, feedNext) /\ feedNext' = feedNext + 1
        /\ UNCHANGED <<startingBatchPos, feedSafe>>
    BY <1>4, SteadyFacts DEF NextFromFeed
  <2>2. startingBatchPos = feedSafe /\ feedNext = startingBatchPos + Len(batches) + 1
    BY <1>4, SteadyFacts DEF Synced
  <2>3. /\ Len(batches') = Len(batches) + 1
        /\ \A i \in 1..Len(batches') : batches'[i] = startingBatchPos + i
    BY <2>1, <2>2, SteadyFacts
  <2> QED BY <2>1, <2>2, <2>3, SteadyFacts DEF Ordered, CacheIsWindow, Fresh, Synced
<1>5. CASE NextFromCache \/ Reset \/ UNCHANGED vars
  BY <1>5 DEF NextFromCache, Reset, vars, cacheVars, feedVars, SteadyInv, Ordered,
              CacheIsWindow, Fresh, Synced
<1>6. CASE Peek
  BY <1>6, SteadyFacts DEF Peek, cacheVars, SteadyInv, Ordered, CacheIsWindow,
              Fresh, Synced
<1>7. CASE ~HasUnread /\ SetProperHead
  <2>1. batches' = batches
    <3>1. readPos = Len(batches)
      BY <1>7, SteadyFacts DEF HasUnread
    <3>2. SubSeq(batches, 1, Len(batches)) = batches
      BY SteadyFacts
    <3> QED BY <1>7, <3>1, <3>2 DEF SetProperHead
  <2> QED BY <1>7, <2>1 DEF SetProperHead, feedVars, SteadyInv, Ordered, CacheIsWindow,
              Fresh, Synced
<1> QED
  BY <1>2, <1>3, <1>4, <1>5, <1>6, <1>7 DEF SteadyNext, AlignedCalls, Refreshes

LEMMA SteadyCorrect == ASSUME Steady PROVE SteadySpec => []SteadyInv
<1>1. SteadyInv /\ [SteadyNext]_vars => SteadyInv'
  BY SteadyStep
<1> QED BY <1>1, SteadyInit, PTL DEF SteadySpec

(* TypeOK holds of every history in which Refresh comes before the reads.      *)
THEOREM BufferedTypeCorrect ==
  ASSUME Steady PROVE SteadySpec => []TypeOK
<1>1. SteadyInv => TypeOK
  BY DEF SteadyInv, AnyInv
<1> QED BY <1>1, SteadyCorrect, PTL

(* The cache holds the batches behind the safe head, all of them up to the one *)
(* the inner streamer delivers next: handleL2PositionUpdate may drop by count. *)
THEOREM WindowCorrect ==
  ASSUME Steady PROVE SteadySpec => []CacheIsWindow
<1>1. SteadyInv => CacheIsWindow
  BY DEF SteadyInv
<1> QED BY <1>1, SteadyCorrect, PTL

outerVars == <<feedSafe, Due>>

LEMMA PromiseStep ==
  ASSUME Steady, SteadyInv, SteadyInv', [SteadyNext]_vars
  PROVE  [Outer!Next]_outerVars
<1>1. Due = feedSafe + readPos + 1
  BY DueCounts
<1>2. Due' = feedSafe' + readPos' + 1
  BY DueCountsThen
<1> HIDE DEF Due
<1>3. ASSUME NEW s \in SafeBatches, NEW o \in SafeL1Origins, ~Retreats(o), Refresh(s, o)
      PROVE  [Outer!Next]_outerVars
  <2>1. s \in Nat /\ feedSafe' = s /\ readPos' = ReadPosAfter(s)
    BY <1>3, SteadyRefreshEffect
  <2>2. readPos' = IF s - startingBatchPos \in 0..Len(batches)
                        /\ readPos >= s - startingBatchPos
                     THEN readPos - (s - startingBatchPos) ELSE 0
    BY <2>1 DEF ReadPosAfter, FitsCache, Adjustment
  <2>3. /\ Due = feedSafe + readPos + 1 /\ Due' = s + readPos' + 1
        /\ readPos \in Nat /\ feedSafe \in Nat /\ startingBatchPos \in Nat
        /\ Len(batches) \in Nat /\ readPos <= Len(batches)
        /\ startingBatchPos = feedSafe
             \/ (startingBatchPos = 0 /\ Len(batches) = 0)
    BY <1>1, <1>2, <2>1, SteadyFacts
  <2>4. Due' = IF s >= feedSafe /\ Due > s THEN Due ELSE s + 1
    BY <2>1, <2>2, <2>3
  <2> QED BY <2>1, <2>4 DEF Outer!Next, Outer!Refresh, Outer!Refreshed
<1>4. ASSUME NEW o \in SafeL1Origins, ~Retreats(o), RefreshSafeL1Origin(o)
      PROVE  [Outer!Next]_outerVars
  BY <1>1, <1>2, <1>4 DEF RefreshSafeL1Origin, cacheVars, feedVars, outerVars
<1>5. CASE NextFromCache \/ NextFromFeed
  <2>1. readPos' = readPos + 1 /\ feedSafe' = feedSafe
    BY <1>5 DEF NextFromCache, NextFromFeed, feedVars
  <2> QED BY <1>1, <1>2, <2>1, SteadyFacts DEF Outer!Next, Outer!Deliver
<1>6. CASE Peek \/ SetProperHead \/ UNCHANGED vars
  <2>1. readPos' = readPos /\ feedSafe' = feedSafe
    BY <1>6 DEF Peek, SetProperHead, vars, cacheVars, feedVars
  <2> QED BY <1>1, <1>2, <2>1 DEF outerVars
<1>7. CASE Reset
  <2>1. readPos' = 0 /\ feedSafe' = feedSafe
    BY <1>7 DEF Reset, feedVars
  <2> QED BY <1>2, <2>1, SteadyFacts DEF Outer!Next, Outer!Rewind
<1> QED BY <1>3, <1>4, <1>5, <1>6, <1>7 DEF SteadyNext, AlignedCalls, Refreshes

(* The buffered streamer is a feed of its own: for its consumer Reset leads    *)
(* back to the first batch behind the safe head although the inner streamer is *)
(* not reset, and an advance of the safe head changes nothing.                 *)
THEOREM PromiseKept ==
  ASSUME Steady PROVE SteadySpec => KeepsPromise
<1>1. Init => Outer!Init
  BY SteadyInit, DueCounts, BufferedAssumption DEF Init, Feed!Init, Outer!Init
<1>2. SteadyInv /\ SteadyInv' /\ [SteadyNext]_vars => [Outer!Next]_outerVars
  BY PromiseStep
<1> QED BY <1>1, <1>2, SteadyCorrect, PTL DEF SteadySpec, KeepsPromise, Outer!Spec, outerVars
==============================================================================
