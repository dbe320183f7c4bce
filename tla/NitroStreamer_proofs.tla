------------------------- MODULE NitroStreamer_proofs -------------------------
(* The safety of the Nitro streamer, for every value of the constants. *)
EXTENDS NitroStreamer, WellFoundedInduction, TLAPS

(* What a poll has fetched: a range of at most RangeLimit existing blocks, the *)
(* transactions of which are parsed in order, and of a transaction the         *)
(* verified messages only.                                                     *)
PollRange ==
  pc \in {"parse", "insert"} =>
    /\ startHotshotBlockNum <= untilBlock
    /\ untilBlock <= startHotshotBlockNum + RangeLimit
    /\ startHotshotBlockNum < untilBlock => untilBlock <= HotShotHeight
    /\ \A i \in todo : hotshot[i].block \in startHotshotBlockNum..(untilBlock - 1)
    /\ Locked => /\ hotshot[tx].block \in startHotshotBlockNum..(untilBlock - 1)
                 /\ pending \subseteq Verified(tx)
                 /\ \A i \in todo : tx < i

(* What a running poll finds of a Reset in nextHotshotBlockNum. *)
ResetSeen ==
  Running => /\ race # "ahead" => nextHotshotBlockNum <= startHotshotBlockNum
             /\ ~resetInPoll => nextHotshotBlockNum = startHotshotBlockNum

------------------------------------------------------------------------------
(* A set of natural numbers has a least element, which Min gives. *)
LEMMA MinIsLeast ==
  ASSUME NEW S, S \subseteq Nat, S # {}
  PROVE  Min(S) \in S /\ \A y \in S : Min(S) <= y
<1>1. PICK x \in S : \A y \in S : ~ (<<y, x>> \in OpToRel(<, Nat))
  BY NatLessThanWellFounded, WFMin
<1>2. ASSUME NEW y \in S
      PROVE  ~ (y < x)
  <2>1. /\ <<y, x>> \in Nat \X Nat
        /\ <<y, x>>[1] = y /\ <<y, x>>[2] = x
    OBVIOUS
  <2> QED BY <1>1, <2>1, Zenon DEF OpToRel
<1>3. \A y \in S : x <= y
  BY <1>2
<1> QED BY <1>3, Zenon DEF Min

(* The constants of the specification, in the form the proofs use. *)
LEMMA Constants ==
  /\ HotShotHeight \in Nat /\ StartBlock \in Nat /\ StartPos \in Nat /\ MaxPos \in Nat
  /\ RangeLimit \in Nat \ {0}
  /\ ResetBlocks \subseteq Nat /\ ResetPositions \subseteq 0..MaxPos
BY NitroAssumption

(* A transaction HotShot has finalized. *)
LEMMA Transactions ==
  ASSUME hotshot \in Histories, NEW i \in DOMAIN hotshot
  PROVE  /\ i \in Nat
         /\ hotshot[i].block \in 0..(HotShotHeight - 1)
         /\ \A k \in DOMAIN hotshot[i].messages : hotshot[i].messages[k].pos \in 0..MaxPos
         /\ DOMAIN hotshot[i].messages \subseteq Nat
         /\ \A j \in DOMAIN hotshot : i <= j => hotshot[i].block <= hotshot[j].block
<1>0. \A j \in DOMAIN hotshot : i <= j => hotshot[i].block <= hotshot[j].block
  BY NitroAssumption, Zenon
<1>1. /\ i \in Nat /\ hotshot[i].block \in 0..(HotShotHeight - 1)
      /\ hotshot[i].messages \in Seq([pos : 0..MaxPos, signer : STRING])
  BY NitroAssumption, Zenon
<1> DEFINE ms == hotshot[i].messages
           Message == [pos : 0..MaxPos, signer : STRING]
<1>2. ms \in Seq(Message)
  BY <1>1
<1>3. \A m \in Message : m.pos \in 0..MaxPos
  OBVIOUS
<1> HIDE DEF ms, Message
<1>4. DOMAIN ms = 1..Len(ms) /\ Len(ms) \in Nat /\ \A k \in 1..Len(ms) : ms[k] \in Message
  BY <1>2
<1> QED BY <1>0, <1>1, <1>3, <1>4 DEF ms

(* The height given to a new message is the least of those it competes with. *)
LEMMA LowestHeightIsLeast ==
  ASSUME TypeOK, NEW p \in Nat
  PROVE  /\ LowestHeight(p) \in Nat /\ LowestHeight(p) <= nextHotshotBlockNum
         /\ \A q \in DOMAIN queue : p < q => LowestHeight(p) <= queue[q].height
         /\ \/ LowestHeight(p) = nextHotshotBlockNum
            \/ \E q \in DOMAIN queue : p < q /\ LowestHeight(p) = queue[q].height
<1> DEFINE H == {nextHotshotBlockNum}
                  \cup {queue[q].height : q \in {r \in DOMAIN queue : p < r /\ r <= highestPos}}
<1>1. H \subseteq Nat /\ H # {}
  BY DEF TypeOK
<1>2. Min(H) \in H /\ \A y \in H : Min(H) <= y
  BY <1>1, MinIsLeast
<1>3. \A q \in DOMAIN queue : q <= highestPos
  BY DEF TypeOK
<1>4. LowestHeight(p) = Min(H)
  BY Zenon DEF LowestHeight
<1>5. /\ nextHotshotBlockNum \in H
      /\ \A q \in DOMAIN queue : p < q => queue[q].height \in H
  BY <1>3
<1>6. \A y \in H : \/ y = nextHotshotBlockNum
                   \/ \E q \in DOMAIN queue : p < q /\ y = queue[q].height
  OBVIOUS
<1> HIDE DEF H
<1> QED BY <1>1, <1>2, <1>4, <1>5, <1>6

(* A poll's range. *)
LEMMA UntilBlockRange ==
  ASSUME TypeOK, NEW latest \in 0..HotShotHeight
  PROVE  /\ UntilBlock(latest) \in Nat
         /\ startHotshotBlockNum <= UntilBlock(latest)
         /\ UntilBlock(latest) <= startHotshotBlockNum + RangeLimit
         /\ startHotshotBlockNum < UntilBlock(latest) => UntilBlock(latest) <= HotShotHeight
BY Constants DEF UntilBlock, TypeOK

------------------------------------------------------------------------------
(* The steps of the specification. *)
LEMMA Steps ==
  ASSUME [Next]_vars
  PROVE  \/ Poll \/ FetchFails \/ PollDone \/ Exit \/ Start \/ Stop \/ Advance
         \/ \E latest \in 0..HotShotHeight : Fetch(latest)
         \/ \E i \in todo : ParseTransaction(i)
         \/ \E k \in pending : SkipMessage(k)
         \/ \E k \in pending : InsertMessage(k)
         \/ \E p \in 0..MaxPos : AdvanceTo(p)
         \/ \E p \in ResetPositions, b \in ResetBlocks : Reset(p, b)
         \/ UNCHANGED vars
BY Zenon DEF Next, PollStep

(* The message being inserted. *)
LEMMA MessageAt ==
  ASSUME TypeOK, NEW k \in pending, pc = "insert"
  PROVE  tx \in DOMAIN hotshot /\ k \in DOMAIN hotshot[tx].messages /\ Pos(k) \in 0..MaxPos
BY Transactions DEF TypeOK, Locked, Pos

(* A streamer that New returns has the types of TypeOK. *)
THEOREM TypeInit == Init => TypeOK
<1>1. DOMAIN <<>> = {}
  OBVIOUS
<1> SUFFICES ASSUME Init PROVE TypeOK
  OBVIOUS
<1>2. DOMAIN queue = {} /\ todo = {} /\ pc = "stopped"
  BY <1>1 DEF Init
<1>3. /\ nextHotshotBlockNum \in Nat /\ currentMessagePos \in Nat /\ highestPos \in Nat
      /\ startHotshotBlockNum \in Nat /\ untilBlock \in Nat /\ base \in Nat
  BY Constants DEF Init
<1>4. hotshot \in Histories /\ cancelled \in BOOLEAN /\ race = "none" /\ resetInPoll \in BOOLEAN
      /\ strays = {}
  BY DEF Init
<1> QED BY <1>2, <1>3, <1>4 DEF TypeOK, Locked

(* No step of the poller or of the consumer leaves the types. *)
THEOREM TypeStep == TypeOK /\ [Next]_vars => TypeOK'
<1> SUFFICES ASSUME TypeOK, [Next]_vars PROVE TypeOK'
  OBVIOUS
<1>1. CASE Poll \/ FetchFails \/ PollDone \/ Exit \/ Start \/ Stop
  BY <1>1 DEF TypeOK, Locked, Poll, FetchFails, PollDone, Exit, Start, Stop, consumerVars,
              pollVars, ghostVars
<1>2. ASSUME NEW latest \in 0..HotShotHeight, Fetch(latest) PROVE TypeOK'
  BY <1>2, UntilBlockRange DEF TypeOK, Locked, Fetch, consumerVars, ghostVars
<1>3. ASSUME NEW i \in todo, ParseTransaction(i) PROVE TypeOK'
  <2>1. Verified(i) \subseteq DOMAIN hotshot[i].messages
    BY DEF Verified
  <2> QED BY <1>3, <2>1 DEF TypeOK, Locked, ParseTransaction, consumerVars, ghostVars
<1>4. ASSUME NEW k \in pending, SkipMessage(k) PROVE TypeOK'
  BY <1>4 DEF TypeOK, Locked, SkipMessage, AtMessage, consumerVars, ghostVars
<1>5. ASSUME NEW k \in pending, InsertMessage(k) PROVE TypeOK'
  <2>1. pc = "insert"
    BY <1>5 DEF InsertMessage, AtMessage
  <2>2. PICK p \in Nat, h \in Nat :
          /\ highestPos' = IF p > highestPos THEN p ELSE highestPos
          /\ queue' = [q \in DOMAIN queue \cup {p} |->
                         IF q = p THEN [height |-> h, tx |-> tx, index |-> k] ELSE queue[q]]
    <3>1. Pos(k) \in Nat /\ LowestHeight(Pos(k)) \in Nat
      BY <2>1, Constants, MessageAt, LowestHeightIsLeast
    <3> QED BY <1>5, <3>1 DEF InsertMessage
  <2>3. tx \in DOMAIN hotshot
    BY <2>1, MessageAt
  <2>4. /\ highestPos' \in Nat /\ DOMAIN queue' \subseteq 0..highestPos'
        /\ \A q \in DOMAIN queue' : queue'[q].height \in Nat /\ queue'[q].tx \in DOMAIN hotshot
    BY <2>2, <2>3 DEF TypeOK
  <2>6. strays' \subseteq 0..MaxPos
    <3>1. Pos(k) \in 0..MaxPos
      BY <2>1, MessageAt
    <3> QED BY <1>5, <3>1 DEF InsertMessage, StraysWith, TypeOK
  <2>5. /\ UNCHANGED <<hotshot, nextHotshotBlockNum, currentMessagePos, cancelled,
                       startHotshotBlockNum, untilBlock, todo, tx, base, race, resetInPoll>>
        /\ pending' = pending \ {k} /\ pc' = IF pending = {k} THEN "parse" ELSE "insert"
    BY <1>5 DEF InsertMessage, AtMessage
  <2> QED BY <2>1, <2>4, <2>5, <2>6 DEF TypeOK, Locked
<1>6. CASE Advance \/ \E p \in 0..MaxPos : AdvanceTo(p)
  <2>1. PICK positions : queue' = Without(positions)
    BY <1>6 DEF Advance, AdvanceTo
  <2>2. /\ currentMessagePos' \in Nat
        /\ UNCHANGED <<hotshot, nextHotshotBlockNum, highestPos, cancelled, pollVars, ghostVars>>
    BY <1>6, Constants DEF Advance, AdvanceTo, TypeOK
  <2>3. /\ DOMAIN queue' \subseteq DOMAIN queue
        /\ \A p \in DOMAIN queue' : queue'[p] = queue[p]
    BY <2>1 DEF Without, Restrict
  <2> QED BY <2>2, <2>3 DEF TypeOK, Locked, pollVars, ghostVars
<1>7. ASSUME NEW p \in ResetPositions, NEW b \in ResetBlocks, Reset(p, b) PROVE TypeOK'
  <2>1. p \in Nat /\ b \in Nat
    BY Constants
  <2> QED BY <1>7, <2>1 DEF TypeOK, Locked, Running, Reset, pollVars
<1>8. CASE UNCHANGED vars
  BY <1>8 DEF TypeOK, Locked, vars, consumerVars, pollVars, ghostVars
<1> QED BY <1>1, <1>2, <1>3, <1>4, <1>5, <1>6, <1>7, <1>8, Steps

(* The streamer's variables keep their types: the queue lies at or below       *)
(* highestPos, where the search for lower heights ends.                        *)
THEOREM TypeCorrect == Spec => []TypeOK
<1>1. Init => TypeOK
  BY TypeInit
<1>2. TypeOK /\ [Next]_vars => TypeOK'
  BY TypeStep
<1> QED BY <1>1, <1>2, PTL DEF Spec

------------------------------------------------------------------------------
(* Heights: that a poll's range lies ahead makes HeightsOrdered inductive. *)
THEOREM PollRangeStep == TypeOK /\ PollRange /\ [Next]_vars => PollRange'
<1> SUFFICES ASSUME TypeOK, PollRange, [Next]_vars PROVE PollRange'
  OBVIOUS
<1> USE DEF PollRange, Locked
<1>1. CASE Poll \/ FetchFails \/ PollDone \/ Exit \/ Start
  BY <1>1 DEF Poll, FetchFails, PollDone, Exit, Start
<1>2. ASSUME NEW latest \in 0..HotShotHeight, Fetch(latest) PROVE PollRange'
  <2>1. /\ startHotshotBlockNum <= untilBlock'
        /\ untilBlock' <= startHotshotBlockNum + RangeLimit
        /\ startHotshotBlockNum < untilBlock' => untilBlock' <= HotShotHeight
    BY <1>2, UntilBlockRange DEF Fetch
  <2> QED BY <1>2, <2>1 DEF Fetch
<1>3. ASSUME NEW i \in todo, ParseTransaction(i) PROVE PollRange'
  <2>1. /\ i \in Nat /\ todo \subseteq Nat /\ pc = "parse"
        /\ UNCHANGED <<hotshot, startHotshotBlockNum, untilBlock>>
        /\ todo' = todo \ {i} /\ \A j \in todo : i <= j
    BY <1>3, Transactions DEF ParseTransaction, TypeOK
  <2>2. CASE pc' = "insert" /\ tx' = i /\ pending' = Verified(i)
    <3>1. Verified(i)' = Verified(i)
      BY <2>1 DEF Verified
    <3> QED BY <2>1, <2>2, <3>1 DEF Verified
  <2>3. CASE UNCHANGED <<pc, tx, pending>>
    BY <2>1, <2>3
  <2> QED BY <1>3, <2>2, <2>3 DEF ParseTransaction
<1>4. ASSUME NEW k \in pending, SkipMessage(k) \/ InsertMessage(k) PROVE PollRange'
  <2>1. /\ pc = "insert" /\ pending' = pending \ {k}
        /\ UNCHANGED <<hotshot, startHotshotBlockNum, untilBlock, todo, tx>>
    BY <1>4 DEF SkipMessage, InsertMessage, AtMessage
  <2> QED BY <2>1 DEF Verified
<1>5. CASE \/ Stop \/ Advance \/ UNCHANGED vars \/ \E p \in 0..MaxPos : AdvanceTo(p)
           \/ \E p \in ResetPositions, b \in ResetBlocks : Reset(p, b)
  <2>1. UNCHANGED <<hotshot, pc, startHotshotBlockNum, untilBlock, todo, tx, pending>>
    BY <1>5 DEF Stop, Advance, AdvanceTo, Reset, vars, pollVars
  <2> QED BY <2>1 DEF Verified
<1> QED BY <1>1, <1>2, <1>3, <1>4, <1>5, Steps

(* What a step does to the queue. *)
LEMMA QueueEffect ==
  ASSUME TypeOK, [Next]_vars
  PROVE  \/ UNCHANGED queue
         \/ /\ DOMAIN queue' \subseteq DOMAIN queue
            /\ \A p \in DOMAIN queue' : queue'[p] = queue[p]
            /\ UNCHANGED <<hotshot, nextHotshotBlockNum, race, strays, pc, startHotshotBlockNum>>
         \/ queue' = <<>>
         \/ \E k \in pending : InsertMessage(k)
<1>1. CASE \/ Poll \/ FetchFails \/ PollDone \/ Exit \/ Start \/ Stop \/ UNCHANGED vars
           \/ (\E latest \in 0..HotShotHeight : Fetch(latest))
           \/ (\E i \in todo : ParseTransaction(i))
           \/ (\E k \in pending : SkipMessage(k))
  BY <1>1 DEF Poll, FetchFails, PollDone, Exit, Start, Stop, Fetch, ParseTransaction,
              SkipMessage, vars, consumerVars
<1>2. CASE Advance \/ \E p \in 0..MaxPos : AdvanceTo(p)
  <2>1. PICK positions : queue' = Without(positions)
    BY <1>2 DEF Advance, AdvanceTo
  <2>2. UNCHANGED <<hotshot, nextHotshotBlockNum, pollVars, ghostVars>>
    BY <1>2 DEF Advance, AdvanceTo
  <2> QED BY <2>1, <2>2 DEF Without, Restrict, pollVars, ghostVars
<1>3. CASE \E p \in ResetPositions, b \in ResetBlocks : Reset(p, b)
  BY <1>3 DEF Reset
<1> QED BY <1>1, <1>2, <1>3, Steps

(* What inserting message k does. *)
LEMMA InsertEffect ==
  ASSUME TypeOK, NEW k \in pending, InsertMessage(k)
  PROVE  \E p \in Nat, h \in Nat :
           /\ p = Pos(k) /\ h = LowestHeight(p)
           /\ p >= currentMessagePos /\ p \notin DOMAIN queue
           /\ DOMAIN queue' = DOMAIN queue \cup {p}
           /\ queue'[p] = [height |-> h, tx |-> tx, index |-> k]
           /\ \A q \in DOMAIN queue : queue'[q] = queue[q]
           /\ strays' = IF resetInPoll THEN strays \cup {p} ELSE strays
<1>1. Pos(k) \in Nat /\ LowestHeight(Pos(k)) \in Nat
  BY Constants, MessageAt, LowestHeightIsLeast DEF InsertMessage, AtMessage
<1> QED BY <1>1 DEF InsertMessage, StraysWith

(* No step puts a height out of order or ahead of the next block. *)
THEOREM HeightsStep == TypeOK /\ PollRange /\ HeightsOrdered /\ [Next]_vars => HeightsOrdered'
<1> SUFFICES ASSUME TypeOK, PollRange, HeightsOrdered, [Next]_vars PROVE HeightsOrdered'
  OBVIOUS
<1>1. CASE \E k \in pending : InsertMessage(k)
  <2>1. PICK k \in pending : InsertMessage(k)
    BY <1>1
  <2>2. PICK p \in Nat, h \in Nat :
           /\ p = Pos(k) /\ h = LowestHeight(p)
           /\ p >= currentMessagePos /\ p \notin DOMAIN queue
           /\ DOMAIN queue' = DOMAIN queue \cup {p}
           /\ queue'[p] = [height |-> h, tx |-> tx, index |-> k]
           /\ \A q \in DOMAIN queue : queue'[q] = queue[q]
    BY <2>1, InsertEffect
  <2>3. /\ h <= nextHotshotBlockNum
        /\ \A q \in DOMAIN queue : p < q => h <= queue[q].height
        /\ h = nextHotshotBlockNum \/ \E q \in DOMAIN queue : p < q /\ h = queue[q].height
    BY <2>2, LowestHeightIsLeast
  <2>4. \A q \in DOMAIN queue : q < p => queue[q].height <= h
    BY <2>3 DEF HeightsOrdered, TypeOK
  <2>5. UNCHANGED nextHotshotBlockNum
    BY <2>1 DEF InsertMessage
  <2>6. DOMAIN queue \subseteq Nat
    BY DEF TypeOK
  <2> QED BY <2>2, <2>3, <2>4, <2>5, <2>6 DEF HeightsOrdered
<1>2. CASE UNCHANGED queue
  <2>1. CASE \E p \in ResetPositions, b \in ResetBlocks : Reset(p, b)
    <3>1. DOMAIN <<>> = {}
      OBVIOUS
    <3> QED BY <2>1, <3>1 DEF Reset, HeightsOrdered
  <2>2. CASE PollDone
    <3>1. nextHotshotBlockNum' >= nextHotshotBlockNum /\ nextHotshotBlockNum' \in Nat
      BY <2>2 DEF PollDone, PollRange, TypeOK
    <3> QED BY <1>2, <3>1 DEF HeightsOrdered, TypeOK
  <2>3. CASE UNCHANGED nextHotshotBlockNum
    BY <1>2, <2>3 DEF HeightsOrdered
  <2> QED BY <2>1, <2>2, <2>3, Steps
       DEF Poll, FetchFails, Exit, Start, Stop, Advance, Fetch, ParseTransaction, SkipMessage,
           InsertMessage, AdvanceTo, vars, consumerVars
<1>3. CASE /\ DOMAIN queue' \subseteq DOMAIN queue
           /\ \A p \in DOMAIN queue' : queue'[p] = queue[p]
           /\ UNCHANGED nextHotshotBlockNum
  BY <1>3 DEF HeightsOrdered
<1>4. CASE queue' = <<>>
  <2>1. DOMAIN <<>> = {}
    OBVIOUS
  <2> QED BY <1>4, <2>1 DEF HeightsOrdered
<1> QED BY <1>1, <1>2, <1>3, <1>4, QueueEffect

(* Heights grow with positions, so the height of one message covers all that   *)
(* follow it in the queue (GetCurrentEarliestHotShotBlockNumber).              *)
THEOREM HeightsCorrect == Spec => []HeightsOrdered
<1>1. Init => TypeOK /\ PollRange /\ HeightsOrdered
  <2>1. DOMAIN <<>> = {}
    OBVIOUS
  <2> QED BY <2>1, TypeInit DEF Init, PollRange, HeightsOrdered
<1>2. TypeOK /\ PollRange /\ HeightsOrdered /\ [Next]_vars
        => (TypeOK /\ PollRange /\ HeightsOrdered)'
  BY TypeStep, PollRangeStep, HeightsStep
<1> QED BY <1>1, <1>2, PTL DEF Spec

------------------------------------------------------------------------------
(* Restarting: the height of a queued message is not above its block, because  *)
(* a poll that no Reset has overtaken inserts under the number it started from. *)
Behind ==
  \A p \in DOMAIN queue :
    (race = "ahead" => p \notin strays) => queue[p].height <= hotshot[queue[p].tx].block

(* A Reset during a poll stays on record in race until the poll is over. *)
THEOREM ResetSeenStep == TypeOK /\ ResetSeen /\ [Next]_vars => ResetSeen'
<1> SUFFICES ASSUME TypeOK, ResetSeen, [Next]_vars PROVE ResetSeen'
  OBVIOUS
<1>1. CASE FetchFails \/ PollDone \/ Exit \/ Start
  BY <1>1 DEF FetchFails, PollDone, Exit, Start, ResetSeen, Running
<1>2. CASE Poll
  BY <1>2 DEF Poll, ResetSeen, Running, TypeOK, consumerVars
<1>3. ASSUME NEW p \in ResetPositions, NEW b \in ResetBlocks, Reset(p, b) PROVE ResetSeen'
  <2>1. b \in Nat /\ startHotshotBlockNum \in Nat
    BY Constants DEF TypeOK
  <2>2. /\ UNCHANGED <<pc, startHotshotBlockNum>> /\ nextHotshotBlockNum' = b
        /\ resetInPoll' = Running
        /\ race' = IF ~Running THEN "none"
                   ELSE IF b < startHotshotBlockNum THEN "behind"
                   ELSE IF b = startHotshotBlockNum THEN "same" ELSE "ahead"
    BY <1>3 DEF Reset, pollVars
  <2>3. Running' <=> Running
    BY <2>2 DEF Running
  <2> QED BY <2>1, <2>2, <2>3 DEF ResetSeen
<1>4. CASE /\ Running' => Running
           /\ UNCHANGED <<nextHotshotBlockNum, race, resetInPoll, startHotshotBlockNum>>
  BY <1>4 DEF ResetSeen
<1>5. CASE \/ (\E latest \in 0..HotShotHeight : Fetch(latest))
           \/ (\E i \in todo : ParseTransaction(i))
           \/ (\E k \in pending : SkipMessage(k) \/ InsertMessage(k))
  <2>1. UNCHANGED <<nextHotshotBlockNum, race, resetInPoll, startHotshotBlockNum>> /\ Running
    BY <1>5 DEF Fetch, ParseTransaction, SkipMessage, InsertMessage, AtMessage, consumerVars,
                ghostVars, Running
  <2> QED BY <1>4, <2>1
<1>6. CASE Stop \/ Advance \/ UNCHANGED vars \/ \E p \in 0..MaxPos : AdvanceTo(p)
  <2>1. UNCHANGED <<nextHotshotBlockNum, race, resetInPoll, startHotshotBlockNum, pc>>
    BY <1>6 DEF Stop, Advance, AdvanceTo, vars, consumerVars, pollVars, ghostVars
  <2> QED BY <1>4, <2>1 DEF Running
<1> QED BY <1>1, <1>2, <1>3, <1>5, <1>6, Steps

(* Every message queued keeps a height at or below its own block's number. *)
THEOREM BehindStep == TypeOK /\ PollRange /\ ResetSeen /\ Behind /\ [Next]_vars => Behind'
<1> SUFFICES ASSUME TypeOK, PollRange, ResetSeen, Behind, [Next]_vars PROVE Behind'
  OBVIOUS
<1>1. ASSUME NEW k \in pending, InsertMessage(k) PROVE Behind'
  <2>1. PICK p \in Nat, h \in Nat :
           /\ p = Pos(k) /\ h = LowestHeight(p)
           /\ p >= currentMessagePos /\ p \notin DOMAIN queue
           /\ DOMAIN queue' = DOMAIN queue \cup {p}
           /\ queue'[p] = [height |-> h, tx |-> tx, index |-> k]
           /\ \A q \in DOMAIN queue : queue'[q] = queue[q]
           /\ strays' = IF resetInPoll THEN strays \cup {p} ELSE strays
    BY <1>1, InsertEffect
  <2>2. UNCHANGED <<hotshot, race>> /\ pc = "insert"
    BY <1>1 DEF InsertMessage, AtMessage, ghostVars
  <2>3. (race = "ahead" => ~resetInPoll) => nextHotshotBlockNum <= hotshot[tx].block
    BY <2>2, Transactions DEF PollRange, ResetSeen, Running, Locked, TypeOK
  <2>4. h <= nextHotshotBlockNum
    BY <2>1, LowestHeightIsLeast
  <2>5. (race = "ahead" => p \notin strays') => h <= hotshot[tx].block
    BY <2>1, <2>2, <2>3, <2>4, Transactions DEF TypeOK, Locked
  <2>6. \A q \in DOMAIN queue : q # p /\ (q \notin strays' => q \notin strays)
    BY <2>1
  <2> QED BY <2>1, <2>2, <2>5, <2>6 DEF Behind
<1>2. CASE queue' = <<>>
  <2>1. DOMAIN <<>> = {}
    OBVIOUS
  <2> QED BY <1>2, <2>1 DEF Behind
<1>3. CASE /\ DOMAIN queue' \subseteq DOMAIN queue
           /\ \A p \in DOMAIN queue' : queue'[p] = queue[p]
           /\ UNCHANGED <<hotshot, race, strays>>
  BY <1>3 DEF Behind
<1>4. CASE UNCHANGED queue
  <2>1. CASE \E p \in ResetPositions, b \in ResetBlocks : Reset(p, b)
    BY <1>2, <2>1 DEF Reset
  <2>2. CASE UNCHANGED <<hotshot, race, strays>>
    BY <1>4, <2>2 DEF Behind
  <2>3. CASE \E k \in pending : InsertMessage(k)
    BY <1>1, <2>3
  <2> QED BY <2>1, <2>2, <2>3, Steps
       DEF Poll, FetchFails, PollDone, Exit, Start, Stop, Advance, Fetch, ParseTransaction,
           SkipMessage, AdvanceTo, vars, ghostVars
<1> QED BY <1>1, <1>2, <1>3, <1>4, QueueEffect

(* The block a restart begins at covers what is queued from pos on. *)
LEMMA EarliestBlockCovers ==
  ASSUME TypeOK, HeightsOrdered, NEW pos \in Nat
  PROVE  /\ EarliestBlock(pos) \in Nat /\ EarliestBlock(pos) <= nextHotshotBlockNum
         /\ \A p \in DOMAIN queue : p >= pos => EarliestBlock(pos) <= queue[p].height
<1>1. CASE pos \in DOMAIN queue
  <2>1. DOMAIN queue \subseteq Nat /\ \A p \in DOMAIN queue : queue[p].height \in Nat
    BY DEF TypeOK
  <2> QED BY <1>1, <2>1 DEF EarliestBlock, HeightsOrdered
<1>2. CASE pos \notin DOMAIN queue
  <2> DEFINE H == {nextHotshotBlockNum} \cup HeightsFrom(pos)
  <2>1. /\ H \subseteq Nat /\ nextHotshotBlockNum \in H
        /\ \A p \in DOMAIN queue : p >= pos => queue[p].height \in H
    BY DEF TypeOK, HeightsFrom
  <2>2. EarliestBlock(pos) = Min(H)
    BY <1>2, Zenon DEF EarliestBlock
  <2> HIDE DEF H
  <2>3. Min(H) \in H /\ \A y \in H : Min(H) <= y
    BY <2>1, MinIsLeast
  <2> QED BY <2>1, <2>2, <2>3
<1> QED BY <1>1, <1>2

(* A streamer restarted at pos from the block that                             *)
(* GetCurrentEarliestHotShotBlockNumber names finds again every message from   *)
(* pos on, but for the messages that a poll inserted after a Reset to a block   *)
(* ahead of the one it had started from.                                       *)
THEOREM RestartCorrect == Spec => []RestartSafe
<1> DEFINE Inv == TypeOK /\ PollRange /\ HeightsOrdered /\ ResetSeen /\ Behind
<1>1. Init => Inv
  <2>1. DOMAIN <<>> = {}
    OBVIOUS
  <2> QED BY <2>1, TypeInit DEF Init, PollRange, HeightsOrdered, ResetSeen, Running, Behind
<1>2. Inv /\ [Next]_vars => Inv'
  BY TypeStep, PollRangeStep, HeightsStep, ResetSeenStep, BehindStep
<1>3. Inv => RestartSafe
  <2> SUFFICES ASSUME TypeOK, HeightsOrdered, Behind, NEW pos \in 0..MaxPos
               PROVE  /\ EarliestBlock(pos) <= nextHotshotBlockNum
                      /\ \A p \in DOMAIN queue :
                           p >= pos /\ (race = "ahead" => p \notin strays)
                             => EarliestBlock(pos) <= hotshot[queue[p].tx].block
    BY DEF RestartSafe
  <2>1. /\ EarliestBlock(pos) \in Nat /\ EarliestBlock(pos) <= nextHotshotBlockNum
        /\ \A p \in DOMAIN queue : p >= pos => EarliestBlock(pos) <= queue[p].height
    BY Constants, EarliestBlockCovers
  <2>2. ASSUME NEW p \in DOMAIN queue, race # "ahead" \/ p \notin strays, p >= pos
        PROVE  EarliestBlock(pos) <= hotshot[queue[p].tx].block
    <3>1. queue[p].height <= hotshot[queue[p].tx].block
      BY <2>2 DEF Behind
    <3>2. queue[p].height \in Nat /\ hotshot[queue[p].tx].block \in Nat
      BY Transactions DEF TypeOK
    <3>3. EarliestBlock(pos) <= queue[p].height
      BY <2>1, <2>2
    <3> QED BY <2>1, <3>1, <3>2, <3>3
  <2> QED BY <2>1, <2>2
<1> QED BY <1>1, <1>2, <1>3, PTL DEF Spec

------------------------------------------------------------------------------
(* Authorization: a signer is judged at the last block of the range. *)
THEOREM AuthorizedStep == TypeOK /\ PollRange /\ Authorized /\ [Next]_vars => Authorized'
<1> SUFFICES ASSUME TypeOK, PollRange, Authorized, [Next]_vars PROVE Authorized'
  OBVIOUS
<1>1. ASSUME NEW k \in pending, InsertMessage(k) PROVE Authorized'
  <2>1. PICK p \in Nat, h \in Nat :
           /\ p = Pos(k) /\ h = LowestHeight(p)
           /\ p >= currentMessagePos /\ p \notin DOMAIN queue
           /\ DOMAIN queue' = DOMAIN queue \cup {p}
           /\ queue'[p] = [height |-> h, tx |-> tx, index |-> k]
           /\ \A q \in DOMAIN queue : queue'[q] = queue[q]
    BY <1>1, InsertEffect
  <2>2. hotshot' = hotshot /\ pc = "insert"
    BY <1>1 DEF InsertMessage, AtMessage
  <2>3. /\ hotshot[tx].block \in Nat /\ startHotshotBlockNum \in Nat /\ untilBlock \in Nat
        /\ RangeLimit \in Nat /\ HotShotHeight \in Nat
    BY <2>2, Transactions, Constants DEF TypeOK, Locked
  <2>4. /\ untilBlock <= startHotshotBlockNum + RangeLimit
        /\ startHotshotBlockNum < untilBlock => untilBlock <= HotShotHeight
        /\ hotshot[tx].block \in startHotshotBlockNum..(untilBlock - 1)
        /\ k \in Verified(tx)
    BY <2>2 DEF PollRange, Locked
  <2>5. /\ untilBlock - 1 \in hotshot[tx].block..(hotshot[tx].block + RangeLimit - 1)
        /\ untilBlock - 1 < HotShotHeight
    BY <2>3, <2>4
  <2>6. IsValid(hotshot[tx].messages[k].signer, L1Finalized[untilBlock - 1])
    BY <2>4 DEF Verified
  <2>7. \A q \in DOMAIN queue : q # p
    BY <2>1
  <2> QED BY <2>1, <2>2, <2>5, <2>6, <2>7 DEF Authorized
<1>2. CASE queue' = <<>>
  <2>1. DOMAIN <<>> = {}
    OBVIOUS
  <2> QED BY <1>2, <2>1 DEF Authorized
<1>3. CASE /\ DOMAIN queue' \subseteq DOMAIN queue
           /\ \A p \in DOMAIN queue' : queue'[p] = queue[p]
           /\ UNCHANGED hotshot
  BY <1>3 DEF Authorized
<1>4. CASE UNCHANGED queue
  <2>1. UNCHANGED hotshot
    BY Steps DEF Poll, FetchFails, PollDone, Exit, Start, Stop, Advance, Fetch, ParseTransaction,
                 SkipMessage, InsertMessage, AdvanceTo, Reset, vars
  <2> QED BY <1>4, <2>1 DEF Authorized
<1> QED BY <1>1, <1>2, <1>3, <1>4, QueueEffect

(* A message is queued only if its signer is valid at an L1 height called       *)
(* final within one range of the message's block (VerifySignature).            *)
THEOREM AuthorizedCorrect == Spec => []Authorized
<1>1. Init => TypeOK /\ PollRange /\ Authorized
  <2>1. DOMAIN <<>> = {}
    OBVIOUS
  <2> QED BY <2>1, TypeInit DEF Init, PollRange, Authorized
<1>2. TypeOK /\ PollRange /\ Authorized /\ [Next]_vars => (TypeOK /\ PollRange /\ Authorized)'
  BY TypeStep, PollRangeStep, AuthorizedStep
<1> QED BY <1>1, <1>2, PTL DEF Spec

------------------------------------------------------------------------------
(* No message is lost.  Within a poll that no Reset has disturbed, a message   *)
(* of the range is still to be parsed, still to be inserted, or queued.        *)
PollKept ==
  (pc \in {"parse", "insert"} /\ race # "same" /\ nextHotshotBlockNum = startHotshotBlockNum) =>
    \A i \in DOMAIN hotshot :
      hotshot[i].block \in startHotshotBlockNum..(untilBlock - 1) =>
        \A p \in currentMessagePos..MaxPos : Offers(i, p) =>
          \/ i \in todo \/ p \in DOMAIN queue
          \/ Locked /\ i = tx /\ \E k \in pending : Pos(k) = p

(* An offered message passes the verification: the range that holds it ends     *)
(* within RangeLimit blocks.                                                   *)
LEMMA OfferedIsVerified ==
  ASSUME TypeOK, PollRange, pc = "parse", NEW i \in todo, NEW p, Offers(i, p)
  PROVE  \E k \in Verified(i) : hotshot[i].messages[k].pos = p
<1>1. /\ untilBlock - 1 \in hotshot[i].block..(hotshot[i].block + RangeLimit - 1)
      /\ untilBlock - 1 < HotShotHeight
  <2>1. /\ i \in DOMAIN hotshot /\ startHotshotBlockNum \in Nat /\ untilBlock \in Nat
        /\ hotshot[i].block \in startHotshotBlockNum..(untilBlock - 1)
        /\ untilBlock <= startHotshotBlockNum + RangeLimit
        /\ startHotshotBlockNum < untilBlock => untilBlock <= HotShotHeight
    BY DEF TypeOK, PollRange
  <2> QED BY <2>1, Transactions, Constants DEF TypeOK
<1> QED BY <1>1 DEF Offers, Verified

(* In an undisturbed poll no message of the range is dropped on the way. *)
THEOREM KeptStep ==
  TypeOK /\ PollRange /\ NoMessageLost /\ PollKept /\ [Next]_vars => (NoMessageLost /\ PollKept)'
<1> SUFFICES ASSUME TypeOK, PollRange, NoMessageLost, PollKept, [Next]_vars
             PROVE  NoMessageLost' /\ PollKept'
  OBVIOUS
<1>0. UNCHANGED hotshot
  BY Steps DEF Poll, FetchFails, PollDone, Exit, Start, Stop, Advance, Fetch, ParseTransaction,
               SkipMessage, InsertMessage, AdvanceTo, Reset, vars
<1>1. \A i, p : Offers(i, p)' <=> Offers(i, p)
  BY <1>0 DEF Offers
<1>2. \A i \in DOMAIN hotshot : hotshot[i].block \in Nat
  BY Transactions, Constants DEF TypeOK
<1>3. CASE Poll \/ FetchFails \/ Exit \/ Start
  <2>1. /\ UNCHANGED <<nextHotshotBlockNum, currentMessagePos, queue, base, race>>
        /\ pc' \notin {"parse", "insert"}
    BY <1>3 DEF Poll, FetchFails, Exit, Start, consumerVars, ghostVars
  <2> QED BY <1>0, <1>1, <2>1 DEF NoMessageLost, PollKept
<1>4. ASSUME NEW latest \in 0..HotShotHeight, Fetch(latest)
      PROVE  NoMessageLost' /\ PollKept'
  <2>1. UNCHANGED <<nextHotshotBlockNum, currentMessagePos, queue, base, race,
                    startHotshotBlockNum>>
    BY <1>4 DEF Fetch, consumerVars, ghostVars
  <2>2. todo' = {i \in DOMAIN hotshot :
                  hotshot[i].block \in startHotshotBlockNum..(untilBlock' - 1)}
    BY <1>4 DEF Fetch
  <2> QED BY <1>0, <1>1, <2>1, <2>2 DEF NoMessageLost, PollKept
<1>5. ASSUME NEW j \in todo, ParseTransaction(j)
      PROVE  NoMessageLost' /\ PollKept'
  <2>1. /\ UNCHANGED <<nextHotshotBlockNum, currentMessagePos, queue, base, race,
                       startHotshotBlockNum, untilBlock>>
        /\ pc = "parse" /\ todo' = todo \ {j}
        /\ \/ Verified(j) = {}
           \/ pc' = "insert" /\ tx' = j /\ pending' = Verified(j)
    BY <1>5 DEF ParseTransaction, consumerVars, ghostVars
  <2>2. NoMessageLost'
    BY <1>0, <1>1, <2>1 DEF NoMessageLost
  <2>3. ASSUME race # "same", nextHotshotBlockNum = startHotshotBlockNum,
               NEW i \in DOMAIN hotshot,
               hotshot[i].block \in startHotshotBlockNum..(untilBlock - 1),
               NEW p \in currentMessagePos..MaxPos, Offers(i, p)
        PROVE  \/ i \in todo' \/ p \in DOMAIN queue
               \/ Locked' /\ i = tx' /\ \E k \in pending' : Pos(k)' = p
    <3>1. CASE i = j
      <4>1. PICK k \in Verified(j) : hotshot[j].messages[k].pos = p
        BY <2>1, <2>3, <3>1, OfferedIsVerified
      <4> QED BY <1>0, <2>1, <3>1, <4>1 DEF Locked, Pos
    <3>2. CASE i # j
      BY <2>1, <2>3, <3>2 DEF PollKept, Locked
    <3> QED BY <3>1, <3>2
  <2> QED BY <1>0, <1>1, <2>1, <2>2, <2>3 DEF PollKept
<1>6. ASSUME NEW l \in pending, SkipMessage(l) \/ InsertMessage(l)
      PROVE  NoMessageLost' /\ PollKept'
  <2>1. /\ UNCHANGED <<nextHotshotBlockNum, currentMessagePos, base, race,
                       startHotshotBlockNum, untilBlock, todo, tx>>
        /\ pc = "insert" /\ pending' = pending \ {l}
        /\ pc' = IF pending = {l} THEN "parse" ELSE "insert"
    BY <1>6 DEF SkipMessage, InsertMessage, AtMessage, consumerVars, ghostVars
  <2>2. /\ DOMAIN queue \subseteq DOMAIN queue'
        /\ Pos(l) < currentMessagePos \/ Pos(l) \in DOMAIN queue'
    <3>1. CASE SkipMessage(l)
      BY <3>1 DEF SkipMessage, consumerVars
    <3>2. CASE InsertMessage(l)
      BY <3>2, InsertEffect
    <3> QED BY <1>6, <3>1, <3>2
  <2>3. NoMessageLost'
    BY <1>0, <1>1, <2>1, <2>2 DEF NoMessageLost
  <2>4. ASSUME race # "same", nextHotshotBlockNum = startHotshotBlockNum,
               NEW i \in DOMAIN hotshot,
               hotshot[i].block \in startHotshotBlockNum..(untilBlock - 1),
               NEW p \in currentMessagePos..MaxPos, Offers(i, p)
        PROVE  \/ i \in todo \/ p \in DOMAIN queue'
               \/ Locked' /\ i = tx /\ \E k \in pending' : Pos(k) = p
    <3>1. \/ i \in todo \/ p \in DOMAIN queue
          \/ i = tx /\ \E k \in pending : Pos(k) = p
      BY <2>1, <2>4 DEF PollKept
    <3>2. ASSUME NEW k \in pending, Pos(k) = p, i = tx
          PROVE  p \in DOMAIN queue' \/ (Locked' /\ \E m \in pending' : Pos(m) = p)
      <4>1. CASE k = l
        BY <2>2, <2>4, <3>2, <4>1 DEF TypeOK
      <4>2. CASE k # l
        BY <2>1, <3>2, <4>2 DEF Locked
      <4> QED BY <4>1, <4>2
    <3> QED BY <2>2, <3>1, <3>2
  <2>5. \A k : Pos(k)' = Pos(k)
    BY <1>0, <2>1 DEF Pos
  <2> QED BY <1>0, <1>1, <2>1, <2>3, <2>4, <2>5 DEF PollKept
<1>7. CASE PollDone
  <2>1. /\ pc = "parse" /\ todo = {} /\ pc' = "idle"
        /\ UNCHANGED <<currentMessagePos, queue, base, race>>
        /\ nextHotshotBlockNum' = IF nextHotshotBlockNum = startHotshotBlockNum
                                    THEN untilBlock ELSE nextHotshotBlockNum
    BY <1>7 DEF PollDone, ghostVars
  <2>2. ASSUME race # "same", NEW i \in DOMAIN hotshot,
               hotshot[i].block \in base..(nextHotshotBlockNum' - 1),
               NEW p \in currentMessagePos..MaxPos, Offers(i, p)
        PROVE  p \in DOMAIN queue
    <3>1. CASE hotshot[i].block < nextHotshotBlockNum
      BY <1>2, <2>2, <3>1 DEF NoMessageLost, TypeOK
    <3>2. CASE ~(hotshot[i].block < nextHotshotBlockNum)
      <4>1. /\ nextHotshotBlockNum = startHotshotBlockNum
            /\ hotshot[i].block \in startHotshotBlockNum..(untilBlock - 1)
        BY <1>2, <2>1, <2>2, <3>2 DEF TypeOK
      <4> QED BY <2>1, <2>2, <4>1 DEF PollKept, Locked
    <3> QED BY <3>1, <3>2
  <2> QED BY <1>0, <1>1, <2>1, <2>2 DEF NoMessageLost, PollKept
<1>8. CASE Advance \/ \E p \in 0..MaxPos : AdvanceTo(p)
  <2>1. UNCHANGED <<nextHotshotBlockNum, base, race, pc, startHotshotBlockNum, untilBlock, todo,
                    tx, pending>>
    BY <1>8 DEF Advance, AdvanceTo, pollVars, ghostVars
  <2>2. /\ currentMessagePos \in Nat /\ currentMessagePos' \in Nat
        /\ currentMessagePos <= currentMessagePos'
        /\ \A p \in DOMAIN queue : p >= currentMessagePos' => p \in DOMAIN queue'
    <3>1. CASE Advance
      BY <3>1 DEF Advance, Without, Restrict, TypeOK
    <3>2. ASSUME NEW q \in 0..MaxPos, AdvanceTo(q)
          PROVE  /\ currentMessagePos' \in Nat /\ currentMessagePos <= currentMessagePos'
                 /\ \A p \in DOMAIN queue : p >= currentMessagePos' => p \in DOMAIN queue'
      BY <3>2, Constants DEF AdvanceTo, Without, Restrict, TypeOK
    <3> QED BY <1>8, <3>1, <3>2 DEF TypeOK
  <2>3. \A p \in currentMessagePos'..MaxPos :
          p \in currentMessagePos..MaxPos /\ (p \in DOMAIN queue => p \in DOMAIN queue')
    BY <2>2, Constants
  <2>4. \A k : Pos(k)' = Pos(k)
    BY <1>0, <2>1 DEF Pos
  <2>5. NoMessageLost'
    BY <1>0, <1>1, <2>1, <2>3 DEF NoMessageLost
  <2>6. PollKept'
    BY <1>0, <1>1, <2>1, <2>3, <2>4 DEF PollKept, Locked
  <2> QED BY <2>5, <2>6
<1>9. ASSUME NEW q \in ResetPositions, NEW b \in ResetBlocks, Reset(q, b)
      PROVE  NoMessageLost' /\ PollKept'
  <2>1. b \in Nat /\ base' = b /\ nextHotshotBlockNum' = b
    BY <1>9, Constants DEF Reset
  <2>2. UNCHANGED <<pc, startHotshotBlockNum>>
    BY <1>9 DEF Reset, pollVars
  <2>3. Running /\ b = startHotshotBlockNum => race' = "same"
    BY <1>9, <2>1 DEF Reset, TypeOK
  <2>4. NoMessageLost'
    BY <1>0, <1>2, <2>1 DEF NoMessageLost
  <2>5. PollKept'
    BY <2>1, <2>2, <2>3 DEF PollKept, Running
  <2> QED BY <2>4, <2>5
<1>10. CASE Stop \/ UNCHANGED vars
  <2>1. UNCHANGED <<nextHotshotBlockNum, currentMessagePos, queue, base, race, pc,
                    startHotshotBlockNum, untilBlock, todo, tx, pending>>
    BY <1>10 DEF Stop, vars, consumerVars, pollVars, ghostVars
  <2>2. \A k : Pos(k)' = Pos(k)
    BY <1>0, <2>1 DEF Pos
  <2> QED BY <1>0, <1>1, <2>1, <2>2 DEF NoMessageLost, PollKept, Locked
<1> QED BY <1>3, <1>4, <1>5, <1>6, <1>7, <1>8, <1>9, <1>10, Steps

(* What HotShot holds between the block of the last Reset and the block that is *)
(* next is queued, unless that Reset named the very block a running poll had    *)
(* started from (QueueMessagesFromHotshot).                                     *)
THEOREM NoMessageLostCorrect == Spec => []NoMessageLost
<1>1. Init => TypeOK /\ PollRange /\ NoMessageLost /\ PollKept
  <2> SUFFICES ASSUME Init PROVE TypeOK /\ PollRange /\ NoMessageLost /\ PollKept
    OBVIOUS
  <2>1. TypeOK /\ PollRange /\ PollKept
    BY TypeInit DEF Init, PollRange, PollKept
  <2>2. \A i \in DOMAIN hotshot :
          hotshot[i].block \in Nat /\ hotshot[i].block \notin base..(nextHotshotBlockNum - 1)
    BY <2>1, Transactions, Constants DEF Init, TypeOK
  <2> QED BY <2>1, <2>2 DEF NoMessageLost
<1>2. TypeOK /\ PollRange /\ NoMessageLost /\ PollKept /\ [Next]_vars
        => (TypeOK /\ PollRange /\ NoMessageLost /\ PollKept)'
  BY TypeStep, PollRangeStep, KeptStep
<1> QED BY <1>1, <1>2, PTL DEF Spec

------------------------------------------------------------------------------
(* Rivals: an earlier message for the position of one that is being inserted   *)
(* would be queued already.                                                    *)
THEOREM FirstWinsStep ==
  TypeOK /\ PollRange /\ ResetSeen /\ NoMessageLost /\ PollKept /\ FirstWins /\ [Next]_vars
    => FirstWins'
<1> SUFFICES ASSUME TypeOK, PollRange, ResetSeen, NoMessageLost, PollKept, FirstWins, [Next]_vars
             PROVE  FirstWins'
  OBVIOUS
<1>0. UNCHANGED hotshot
  BY Steps DEF Poll, FetchFails, PollDone, Exit, Start, Stop, Advance, Fetch, ParseTransaction,
               SkipMessage, InsertMessage, AdvanceTo, Reset, vars
<1>1. \A i, p : Offers(i, p)' <=> Offers(i, p)
  BY <1>0 DEF Offers
<1>2. CASE queue' = <<>>
  <2>1. DOMAIN <<>> = {}
    OBVIOUS
  <2> QED BY <1>2, <2>1 DEF FirstWins
<1>3. CASE /\ UNCHANGED <<base, race, strays>> /\ DOMAIN queue' \subseteq DOMAIN queue
           /\ \A p \in DOMAIN queue' : queue'[p] = queue[p]
  BY <1>0, <1>1, <1>3 DEF FirstWins
<1>4. ASSUME NEW k \in pending, InsertMessage(k) PROVE FirstWins'
  <2>1. PICK p \in Nat, h \in Nat :
           /\ p = Pos(k) /\ h = LowestHeight(p)
           /\ p >= currentMessagePos /\ p \notin DOMAIN queue
           /\ DOMAIN queue' = DOMAIN queue \cup {p}
           /\ queue'[p] = [height |-> h, tx |-> tx, index |-> k]
           /\ \A q \in DOMAIN queue : queue'[q] = queue[q]
           /\ strays' = IF resetInPoll THEN strays \cup {p} ELSE strays
    BY <1>4, InsertEffect
  <2>2. UNCHANGED <<base, race>> /\ pc = "insert"
    BY <1>4 DEF InsertMessage, AtMessage, ghostVars
  <2>3. ASSUME race # "same", ~resetInPoll, NEW i \in DOMAIN hotshot, hotshot[i].block >= base, Offers(i, p)
        PROVE  tx <= i
    <3> SUFFICES ASSUME i < tx PROVE FALSE
      BY <2>2, Transactions DEF TypeOK, Locked
    <3>1. /\ hotshot[i].block \in Nat /\ hotshot[tx].block \in Nat
          /\ hotshot[i].block <= hotshot[tx].block /\ hotshot[tx].block <= untilBlock - 1
          /\ i \notin todo
      <4>1. /\ tx \in DOMAIN hotshot /\ i \in Nat /\ tx \in Nat
            /\ hotshot[i].block \in Nat /\ hotshot[tx].block \in Nat
        BY <2>2, Transactions DEF TypeOK, Locked
      <4>2. hotshot[tx].block <= untilBlock - 1 /\ \A j \in todo : tx < j
        BY <2>2 DEF PollRange, Locked, TypeOK
      <4>3. hotshot[i].block <= hotshot[tx].block
        BY <4>1, Transactions DEF TypeOK
      <4> QED BY <4>1, <4>2, <4>3
    <3>2. nextHotshotBlockNum = startHotshotBlockNum /\ race # "same"
      BY <2>2, <2>3 DEF ResetSeen, Running
    <3>3. p \in currentMessagePos..MaxPos
      BY <2>1, <2>2, MessageAt, Constants DEF TypeOK
    <3>4. CASE hotshot[i].block < nextHotshotBlockNum
      BY <2>1, <2>3, <3>1, <3>2, <3>3, <3>4 DEF NoMessageLost, TypeOK
    <3>5. CASE ~(hotshot[i].block < nextHotshotBlockNum)
      <4>1. hotshot[i].block \in startHotshotBlockNum..(untilBlock - 1)
        BY <3>1, <3>2, <3>5 DEF TypeOK
      <4>2. i \in todo \/ p \in DOMAIN queue \/ i = tx
        BY <2>2, <2>3, <3>2, <3>3, <4>1 DEF PollKept
      <4>3. i # tx
        BY <2>2, Transactions DEF TypeOK, Locked
      <4> QED BY <2>1, <3>1, <4>2, <4>3
    <3> QED BY <3>4, <3>5
  <2>4. \A q \in DOMAIN queue : q # p /\ (q \notin strays' => q \notin strays)
    BY <2>1
  <2>5. p \notin strays' => ~resetInPoll
    BY <2>1
  <2> QED BY <1>0, <1>1, <2>1, <2>2, <2>3, <2>4, <2>5 DEF FirstWins
<1>5. CASE \E p \in ResetPositions, b \in ResetBlocks : Reset(p, b)
  BY <1>2, <1>5 DEF Reset
<1>6. CASE UNCHANGED queue
  <2>1. CASE UNCHANGED <<base, race, strays>>
    BY <1>3, <1>6, <2>1
  <2> QED BY <1>4, <1>5, <2>1, Steps
       DEF Poll, FetchFails, PollDone, Exit, Start, Stop, Advance, Fetch, ParseTransaction,
           SkipMessage, AdvanceTo, vars, ghostVars
<1>7. CASE Advance \/ \E p \in 0..MaxPos : AdvanceTo(p)
  <2>1. PICK positions : queue' = Without(positions)
    BY <1>7 DEF Advance, AdvanceTo
  <2>2. UNCHANGED <<base, race, strays>>
    BY <1>7 DEF Advance, AdvanceTo, ghostVars
  <2> QED BY <1>3, <2>1, <2>2 DEF Without, Restrict
<1>8. CASE \/ Poll \/ FetchFails \/ PollDone \/ Exit \/ Start \/ Stop \/ UNCHANGED vars
           \/ (\E latest \in 0..HotShotHeight : Fetch(latest))
           \/ (\E i \in todo : ParseTransaction(i))
           \/ (\E k \in pending : SkipMessage(k))
  BY <1>6, <1>8 DEF Poll, FetchFails, PollDone, Exit, Start, Stop, Fetch, ParseTransaction,
                    SkipMessage, vars, consumerVars
<1> QED BY <1>4, <1>5, <1>7, <1>8, Steps

(* Of two messages for one position the first in HotShot's order is queued, if *)
(* its signer is valid wherever a range that holds it can end - but for what a *)
(* poll inserts after a Reset has hit it (parseEspressoTransaction).           *)
THEOREM FirstWinsCorrect == Spec => []FirstWins
<1> DEFINE Inv == TypeOK /\ PollRange /\ ResetSeen /\ NoMessageLost /\ PollKept /\ FirstWins
<1>1. Init => Inv
  <2> SUFFICES ASSUME Init PROVE Inv
    OBVIOUS
  <2>1. TypeOK /\ PollRange /\ PollKept /\ ResetSeen
    BY TypeInit DEF Init, PollRange, PollKept, ResetSeen, Running
  <2>2. \A i \in DOMAIN hotshot :
          hotshot[i].block \in Nat /\ hotshot[i].block \notin base..(nextHotshotBlockNum - 1)
    BY <2>1, Transactions, Constants DEF Init, TypeOK
  <2>3. DOMAIN <<>> = {}
    OBVIOUS
  <2> QED BY <2>1, <2>2, <2>3 DEF NoMessageLost, FirstWins, Init
<1>2. Inv /\ [Next]_vars => Inv'
  BY TypeStep, PollRangeStep, ResetSeenStep, KeptStep, FirstWinsStep
<1>3. Inv => FirstWins
  OBVIOUS
<1> QED BY <1>1, <1>2, <1>3, PTL DEF Spec
==============================================================================
