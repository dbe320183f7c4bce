---------------------------- MODULE NitroStreamer ----------------------------
(* EspressoStreamer of nitro/nitro_streamer.go: a goroutine polls HotShot and  *)
(* queues the messages it finds by position; a consumer reads the queue in     *)
(* order and may move it or reset it at any time.                              *)
(*                                                                             *)
(* messageLock guards the queue.  Every method of the consumer is one critical *)
(* section, hence one step; the poller's insertion of a transaction is several *)
(* steps, at pc = "insert", during which it holds the lock.  The poller reads  *)
(* nextHotshotBlockNum without the lock before it fetches.                     *)
EXTENDS Integers, Sequences, FiniteSetsExt

CONSTANTS
  Histories,       \* possible contents of HotShot: sequences of [block, messages]
  HotShotHeight,   \* the blocks are 0 .. HotShotHeight - 1
  L1Finalized,     \* number of the L1 block each HotShot block calls finalized
  AddressRanges,   \* BatcherAddrMonitor.addressValidRanges
  StartBlock, StartPos,   \* arguments of NewEspressoStreamer
  ResetBlocks, ResetPositions, \* arguments of Reset
  RangeLimit,      \* HOTSHOT_RANGE_LIMIT
  MaxPos           \* bound on message positions and on currentMessagePos

ASSUME NitroAssumption ==
  /\ HotShotHeight \in Nat /\ StartBlock \in Nat /\ StartPos \in Nat /\ MaxPos \in Nat
  /\ StartPos <= MaxPos
  /\ ResetBlocks \subseteq Nat /\ ResetPositions \subseteq 0..MaxPos
  /\ RangeLimit \in Nat \ {0}
  /\ \A h \in Histories : \A i \in DOMAIN h :
       /\ i \in Nat /\ h[i].block \in 0..(HotShotHeight - 1)
       /\ h[i].messages \in Seq([pos : 0..MaxPos, signer : STRING])
       /\ \A j \in DOMAIN h : i <= j => h[i].block <= h[j].block

VARIABLES
  hotshot,               \* the transactions of the namespace, in HotShot order
  nextHotshotBlockNum, currentMessagePos, highestPos,
  queue,                 \* messageWithMetadataAndPos: [height, tx, index] by position
  cancelled,             \* the context has been cancelled
  pc,                    \* where the poller is
  startHotshotBlockNum, untilBlock, \* locals of the poll
  todo,                  \* indices of the fetched transactions still to parse
  tx, pending,           \* transaction being inserted, indices of its messages to come
  base,                  \* history: nextHotshotBlockNum after the last Reset
  race,                  \* history: how the last Reset hit a running poll
  resetInPoll,           \* history: a Reset hit the poll that runs
  strays                 \* history: positions queued by a poll after a Reset hit it

consumerVars == <<nextHotshotBlockNum, currentMessagePos, highestPos, queue>>
pollVars == <<pc, startHotshotBlockNum, untilBlock, todo, tx, pending>>
ghostVars == <<base, race, resetInPoll, strays>>
vars == <<hotshot, consumerVars, cancelled, pollVars, ghostVars>>

Running == pc \notin {"stopped", "idle"}
Locked == pc = "insert"

TypeOK ==
  /\ hotshot \in Histories
  /\ nextHotshotBlockNum \in Nat /\ currentMessagePos \in Nat /\ highestPos \in Nat
  /\ DOMAIN queue \subseteq 0..highestPos
  /\ \A p \in DOMAIN queue : queue[p].height \in Nat /\ queue[p].tx \in DOMAIN hotshot
  /\ cancelled \in BOOLEAN
  /\ pc \in {"stopped", "idle", "fetch", "parse", "insert"}
  /\ startHotshotBlockNum \in Nat /\ untilBlock \in Nat
  /\ todo \subseteq DOMAIN hotshot
  /\ Locked => /\ tx \in DOMAIN hotshot /\ pending # {}
               /\ pending \subseteq DOMAIN hotshot[tx].messages
  /\ base \in Nat /\ race \in {"none", "behind", "same", "ahead"} /\ resetInPoll \in BOOLEAN
  /\ strays \subseteq 0..MaxPos

(* NewEspressoStreamer *)
Init ==
  /\ hotshot \in Histories
  /\ nextHotshotBlockNum = StartBlock /\ currentMessagePos = StartPos /\ highestPos = 1
  /\ queue = <<>>
  /\ cancelled = FALSE
  /\ pc = "stopped" /\ startHotshotBlockNum = 0 /\ untilBlock = 0
  /\ todo = {} /\ tx = 0 /\ pending = {}
  /\ base = StartBlock /\ race = "none" /\ resetInPoll = FALSE /\ strays = {}

------------------------------------------------------------------------------
(* The poller *)

Start ==
  /\ pc = "stopped"
  /\ pc' = "idle" /\ cancelled' = FALSE
  /\ UNCHANGED <<hotshot, consumerVars, startHotshotBlockNum, untilBlock, todo, tx,
                 pending, ghostVars>>

Exit ==
  /\ pc = "idle" /\ cancelled
  /\ pc' = "stopped"
  /\ UNCHANGED <<hotshot, consumerVars, cancelled, startHotshotBlockNum, untilBlock, todo,
                 tx, pending, ghostVars>>

(* A variant the runs must reject: the loop does not look at the context. *)
PollWhenCancelled ==
  /\ pc = "idle"
  /\ pc' = "fetch"
  /\ startHotshotBlockNum' = nextHotshotBlockNum
  /\ resetInPoll' = FALSE
  /\ UNCHANGED <<hotshot, consumerVars, cancelled, untilBlock, todo, tx, pending,
                 base, race, strays>>

(* QueueMessagesFromHotshot begins. *)
Poll ==
  /\ pc = "idle" /\ ~cancelled
  /\ pc' = "fetch"
  /\ startHotshotBlockNum' = nextHotshotBlockNum
  /\ resetInPoll' = FALSE
  /\ UNCHANGED <<hotshot, consumerVars, cancelled, untilBlock, todo, tx, pending,
                 base, race, strays>>

(* fetchNextHotshotBlock: one of the three queries fails; the loop sleeps; *)
FetchFails ==
  /\ pc = "fetch"
  /\ pc' = "idle"
  /\ UNCHANGED <<hotshot, consumerVars, cancelled, startHotshotBlockNum, untilBlock, todo,
                 tx, pending, ghostVars>>

(* or they all succeed, at the block height latest: the range that is read     *)
(* ends before UntilBlock(latest).                                             *)
UntilBlock(latest) ==
  IF latest <= startHotshotBlockNum THEN startHotshotBlockNum
  ELSE IF latest - startHotshotBlockNum > RangeLimit
    THEN startHotshotBlockNum + RangeLimit
    ELSE latest

(* A variant the runs must reject: the first block of the range is left out. *)
FetchAfterStart(latest) ==
  /\ pc = "fetch"
  /\ pc' = "parse"
  /\ untilBlock' = UntilBlock(latest)
  /\ todo' = {i \in DOMAIN hotshot :
                hotshot[i].block \in (startHotshotBlockNum + 1)..(untilBlock' - 1)}
  /\ UNCHANGED <<hotshot, consumerVars, cancelled, startHotshotBlockNum, tx, pending,
                 ghostVars>>

Fetch(latest) ==
  /\ pc = "fetch"
  /\ pc' = "parse"
  /\ untilBlock' = UntilBlock(latest)
  /\ todo' = {i \in DOMAIN hotshot :
                hotshot[i].block \in startHotshotBlockNum..(untilBlock' - 1)}
  /\ UNCHANGED <<hotshot, consumerVars, cancelled, startHotshotBlockNum, tx, pending,
                 ghostVars>>

(* BatcherAddrMonitor.IsValid *)
IsValid(address, l1Height) ==
  \E r \in AddressRanges : r.address = address /\ r.from <= l1Height /\ l1Height <= r.to

(* A variant the runs must reject: the L1 height is that of the range's first   *)
(* block.                                                                      *)
VerifiedAtStart(i) ==
  {k \in DOMAIN hotshot[i].messages :
     IsValid(hotshot[i].messages[k].signer, L1Finalized[startHotshotBlockNum])}

(* VerifySignature on transaction i: the messages whose signer is valid at the *)
(* L1 height of the range's last block.  A V0 transaction has one signature    *)
(* for all its messages and stands or falls with it; a V1 transaction loses    *)
(* the messages that fail.                                                     *)
Verified(i) ==
  {k \in DOMAIN hotshot[i].messages :
     IsValid(hotshot[i].messages[k].signer, L1Finalized[untilBlock - 1])}

(* parseEspressoTransaction up to the lock. *)
ParseTransaction(i) ==
  /\ pc = "parse"
  /\ i \in todo /\ \A j \in todo : i <= j
  /\ todo' = todo \ {i}
  /\ IF Verified(i) = {}
       THEN UNCHANGED <<pc, tx, pending>>
       ELSE pc' = "insert" /\ tx' = i /\ pending' = Verified(i)
  /\ UNCHANGED <<hotshot, consumerVars, cancelled, startHotshotBlockNum, untilBlock,
                 ghostVars>>

(* The loop of parseEspressoTransaction under the lock, at message k. *)
AtMessage(k) ==
  /\ pc = "insert"
  /\ k \in pending /\ \A l \in pending : k <= l
  /\ pending' = pending \ {k}
  /\ pc' = IF pending = {k} THEN "parse" ELSE "insert"

Pos(k) == hotshot[tx].messages[k].pos

SkipMessage(k) ==
  /\ AtMessage(k)
  /\ Pos(k) < currentMessagePos \/ Pos(k) \in DOMAIN queue
  /\ UNCHANGED <<hotshot, consumerVars, cancelled, startHotshotBlockNum, untilBlock, todo,
                 tx, ghostVars>>

(* A variant the runs must reject: the heights of later positions are ignored. *)
LowestHeightOwn(p) == nextHotshotBlockNum

(* The heights of the queued messages at positions p and after. *)
HeightsFrom(p) == {queue[q].height : q \in {r \in DOMAIN queue : r >= p}}

(* The height given to the message at p: a message after it may have come from *)
(* an earlier block.  The search ends at highestPos.                           *)
LowestHeight(p) ==
  Min({nextHotshotBlockNum}
        \cup {queue[q].height : q \in {r \in DOMAIN queue : p < r /\ r <= highestPos}})

(* history: a poll that a Reset has hit goes on inserting. *)
StraysWith(p) == IF resetInPoll THEN strays \cup {p} ELSE strays

(* Variants the runs must reject: highestPos stays behind; a message replaces  *)
(* the one queued at its position.                                             *)
InsertMessageKeepingHighest(k) ==
  /\ AtMessage(k)
  /\ LET p == Pos(k)
     IN  /\ p >= currentMessagePos /\ p \notin DOMAIN queue
         /\ queue' = [q \in DOMAIN queue \cup {p} |->
                        IF q = p THEN [height |-> LowestHeight(p), tx |-> tx, index |-> k] ELSE queue[q]]
  /\ strays' = StraysWith(Pos(k))
  /\ UNCHANGED <<hotshot, nextHotshotBlockNum, currentMessagePos, highestPos, cancelled,
                 startHotshotBlockNum, untilBlock, todo, tx, base, race, resetInPoll>>

InsertMessageReplacing(k) ==
  /\ AtMessage(k)
  /\ LET p == Pos(k)
     IN  /\ p >= currentMessagePos
         /\ highestPos' = IF p > highestPos THEN p ELSE highestPos
         /\ queue' = [q \in DOMAIN queue \cup {p} |->
                        IF q = p THEN [height |-> LowestHeight(p), tx |-> tx, index |-> k] ELSE queue[q]]
  /\ strays' = StraysWith(Pos(k))
  /\ UNCHANGED <<hotshot, nextHotshotBlockNum, currentMessagePos, cancelled,
                 startHotshotBlockNum, untilBlock, todo, tx, base, race, resetInPoll>>

InsertMessage(k) ==
  /\ AtMessage(k)
  /\ LET p == Pos(k)
     IN  /\ p >= currentMessagePos /\ p \notin DOMAIN queue
         /\ highestPos' = IF p > highestPos THEN p ELSE highestPos
         /\ queue' = [q \in DOMAIN queue \cup {p} |->
                        IF q = p THEN [height |-> LowestHeight(p), tx |-> tx, index |-> k] ELSE queue[q]]
  /\ strays' = StraysWith(Pos(k))
  /\ UNCHANGED <<hotshot, nextHotshotBlockNum, currentMessagePos, cancelled,
                 startHotshotBlockNum, untilBlock, todo, tx, base, race, resetInPoll>>

(* A variant the runs must reject: the poll always moves on. *)
PollDoneAlwaysMoves ==
  /\ pc = "parse" /\ todo = {}
  /\ pc' = "idle"
  /\ nextHotshotBlockNum' = untilBlock
  /\ UNCHANGED <<hotshot, currentMessagePos, highestPos, queue, cancelled,
                 startHotshotBlockNum, untilBlock, todo, tx, pending, ghostVars>>

(* The end of QueueMessagesFromHotshot. *)
PollDone ==
  /\ pc = "parse" /\ todo = {}
  /\ pc' = "idle"
  /\ nextHotshotBlockNum' = IF nextHotshotBlockNum = startHotshotBlockNum
                              THEN untilBlock ELSE nextHotshotBlockNum
  /\ UNCHANGED <<hotshot, currentMessagePos, highestPos, queue, cancelled,
                 startHotshotBlockNum, untilBlock, todo, tx, pending, ghostVars>>

------------------------------------------------------------------------------
(* The consumer *)

Without(positions) == Restrict(queue, DOMAIN queue \ positions)

Advance ==
  /\ ~Locked /\ currentMessagePos < MaxPos
  /\ queue' = Without({currentMessagePos})
  /\ currentMessagePos' = currentMessagePos + 1
  /\ UNCHANGED <<hotshot, nextHotshotBlockNum, highestPos, cancelled, pollVars, ghostVars>>

AdvanceTo(toPos) ==
  /\ ~Locked
  /\ toPos > currentMessagePos
  /\ queue' = Without(currentMessagePos..(toPos - 1))
  /\ currentMessagePos' = toPos
  /\ UNCHANGED <<hotshot, nextHotshotBlockNum, highestPos, cancelled, pollVars, ghostVars>>

Reset(pos, block) ==
  /\ ~Locked
  /\ currentMessagePos' = pos
  /\ nextHotshotBlockNum' = block
  /\ highestPos' = pos
  /\ queue' = <<>>
  /\ base' = block
  /\ race' = IF ~Running THEN "none"
             ELSE IF block < startHotshotBlockNum THEN "behind"
             ELSE IF block = startHotshotBlockNum THEN "same" ELSE "ahead"
  /\ resetInPoll' = Running /\ strays' = {}
  /\ UNCHANGED <<hotshot, cancelled, pollVars>>

(* StopAndWait cancels the context and waits for pc to be "stopped". *)
Stop ==
  /\ pc # "stopped" /\ ~cancelled
  /\ cancelled' = TRUE
  /\ UNCHANGED <<hotshot, consumerVars, pollVars, ghostVars>>

(* Peek returns a message. *)
Available == currentMessagePos \in DOMAIN queue

(* A variant the runs must reject: a position that is not queued will be read  *)
(* next.                                                                       *)
EarliestBlockNext(pos) == IF pos \in DOMAIN queue THEN queue[pos].height ELSE nextHotshotBlockNum

(* GetCurrentEarliestHotShotBlockNumber *)
EarliestBlock(pos) ==
  IF pos \in DOMAIN queue THEN queue[pos].height
  ELSE Min({nextHotshotBlockNum} \cup HeightsFrom(pos))

------------------------------------------------------------------------------
PollStep ==
  \/ Poll \/ FetchFails
  \/ \E latest \in 0..HotShotHeight : Fetch(latest)
  \/ \E i \in todo : ParseTransaction(i)
  \/ \E k \in pending : SkipMessage(k) \/ InsertMessage(k)
  \/ PollDone \/ Exit

Next ==
  \/ PollStep
  \/ Start \/ Stop
  \/ Advance
  \/ \E p \in 0..MaxPos : AdvanceTo(p)
  \/ \E p \in ResetPositions, b \in ResetBlocks : Reset(p, b)

Spec == Init /\ [][Next]_vars

(* A consumer that takes every message Peek shows and does nothing else.       *)
Consume == Available /\ Advance

Follow == PollStep \/ Start \/ Stop \/ Consume

(* The goroutine runs on, the streamer is stopped and started again finitely   *)
(* often, the consumer takes what there is, and a fetch at the newest height   *)
(* succeeds if it is tried again and again.                                    *)
FollowSpec ==
  /\ Init /\ [][Follow]_vars
  /\ WF_vars(PollStep) /\ WF_vars(Start) /\ SF_vars(Consume)
  /\ SF_vars(Fetch(HotShotHeight))
  /\ <>[][~Stop]_vars

------------------------------------------------------------------------------
(* Of two queued messages the one that comes first in position has the lower   *)
(* height, or the same, and none is above nextHotshotBlockNum: the height of   *)
(* the message at pos is as good as the minimum over all that follow.          *)
HeightsOrdered ==
  \A p \in DOMAIN queue :
    /\ queue[p].height <= nextHotshotBlockNum
    /\ \A q \in DOMAIN queue : p < q => queue[p].height <= queue[q].height

(* A streamer restarted at position pos from the block that                    *)
(* GetCurrentEarliestHotShotBlockNumber gives finds again every message from   *)
(* pos on that is queued here, and every one still to be read.  Not so for the *)
(* messages that a running poll went on inserting after a Reset to a block     *)
(* ahead of the one it had started from: they stand under the later number.    *)
RestartSafe ==
  \A pos \in 0..MaxPos :
    /\ EarliestBlock(pos) <= nextHotshotBlockNum
    /\ \A p \in DOMAIN queue :
         p >= pos /\ (race = "ahead" => p \notin strays)
           => EarliestBlock(pos) <= hotshot[queue[p].tx].block

(* A message is queued only if its signer is valid at an L1 height that some   *)
(* HotShot block, not before its own and within one range of it, calls         *)
(* finalized.                                                                  *)
Authorized ==
  \A p \in DOMAIN queue :
    LET block  == hotshot[queue[p].tx].block
        signer == hotshot[queue[p].tx].messages[queue[p].index].signer
    IN  \E b \in block..(block + RangeLimit - 1) :
          b < HotShotHeight /\ IsValid(signer, L1Finalized[b])

(* Transaction i holds a message for position p that counts whatever range it  *)
(* is read in: all messages of a range are judged at the L1 height of its last *)
(* block, and the signer is valid at that of every block the range can end at. *)
(* A message whose signer is not may count for one reader and not for another. *)
Offers(i, p) ==
  LET block == hotshot[i].block
  IN  \E k \in DOMAIN hotshot[i].messages :
        /\ hotshot[i].messages[k].pos = p
        /\ \A b \in block..(block + RangeLimit - 1) :
             b < HotShotHeight => IsValid(hotshot[i].messages[k].signer, L1Finalized[b])

(* No message is lost: of what HotShot holds between the block of the last     *)
(* Reset and the block that is next, from the current position on, each        *)
(* position that is offered is queued - unless that Reset named the very block *)
(* a running poll had started from.                                            *)
NoMessageLost ==
  race # "same" =>
    \A i \in DOMAIN hotshot :
      hotshot[i].block \in base..(nextHotshotBlockNum - 1) =>
        \A p \in currentMessagePos..MaxPos : Offers(i, p) => p \in DOMAIN queue

(* The first message for a position in HotShot's order is the one queued.  It  *)
(* is passed over for a later one only if its signer is not valid at an L1     *)
(* height some range that holds it is judged at, or if a Reset hit a running   *)
(* poll: then the messages this poll goes on inserting may come too early, and *)
(* nothing holds after a Reset to the very block it had started from.  So two  *)
(* streamers that read in different ranges agree on a position when the signer *)
(* of its first message does not change within a range of it - no further.     *)
FirstWins ==
  race # "same" =>
    \A p \in DOMAIN queue \ strays :
      \A i \in DOMAIN hotshot :
        (hotshot[i].block >= base /\ Offers(i, p)) => queue[p].tx <= i

(* StopAndWait returns. *)
StopTerminates == cancelled ~> pc = "stopped"

(* The consumer gets every message: currentMessagePos passes every position up *)
(* to which HotShot holds a message of each position.                          *)
EveryMessageServed ==
  \A n \in 0..(MaxPos - 1) :
    (\A p \in StartPos..n : \E i \in DOMAIN hotshot : hotshot[i].block >= StartBlock /\ Offers(i, p))
      ~> (currentMessagePos > n)

(* "Don't jump to toBlock if reset() was called while we were fetching"        *)
(* (QueueMessagesFromHotshot).                                                 *)
NoJumpAfterReset ==
  [][(PollDone /\ resetInPoll) => UNCHANGED nextHotshotBlockNum]_vars
==============================================================================
