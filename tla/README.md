# A verification of the Espresso streamers

This directory holds TLA+ models of the streamers of this repository, TLC
configurations that check them on small instances, and proofs, checked by
TLAPS, of every safety property for every value of the parameters.
Paths are relative to `src/`.

## 1. Inventory

The repository is a Go library with two independent streamers. Both read what
HotShot (the Espresso consensus) has finalized for one namespace and hand it to
the node of a rollup in the rollup's own order.

| component | source | state | operations |
|---|---|---|---|
| `BatchBuffer` | `op/batch_buffer.go` | `batches`, `capacity` | `Insert`, `Pop`, `Clear`; `Peek`, `Get`, `Len` read |
| `BatchStreamer` | `op/op_streamer.go`, `op/interface.go` | positions in L2 (`nextBatchPos`, `fallbackBatchPos`) and in HotShot (`hotShotPos`, `fallbackHotShotPos`), `skipPos`, `headBatch`, `batchBuffer`, `FinalizedL1`, `espressoBatcher`, an LRU cache of L1 states | `Update`, `HasNext`, `Peek`, `Next`, `SetProperHead`, `Reset`, `Refresh`, `RefreshSafeL1Origin` |
| `BufferedEspressoStreamer` | `op/buffered_streamer.go` | a slice of batches handed out by an inner streamer, `readPos`, `startingBatchPos`, `currentSafeL1Origin` | the same interface over an inner streamer |
| `EspressoBatch` | `op/derivation/espresso_batch.go` | none | `BlockToEspressoBatch`, `ToEspressoTransaction`, `UnmarshalEspressoTransaction`, `ToBlock`; `Number`, `Hash`, `L1Origin` read |
| `nitro.EspressoStreamer` | `nitro/nitro_streamer.go`, `nitro/batch_addr_monitor.go` | messages by position, `nextHotshotBlockNum`, `currentMessagePos`, `highestPos`, one `RWMutex` | a polling goroutine; `Peek`, `Advance`, `AdvanceTo`, `Reset`, `GetCurrentEarliestHotShotBlockNumber`, `Start`, `StopAndWait` |
| Nitro message formats | `nitro/utils.go`, `nitro/nitro_types.go`, `nitro/*binary.go` | position of an iterator | `BuildRawHotShotPayload`, `SignHotShotPayload`, two codecs, feed hashes, signature checks, iterators |
| `logDebouncer` | `nitro/utils.go` | time of the first error | level at which an error is logged |
| `BatchAuthenticator` | `op/bindings/` | generated | contract calls |

**How they interact.** `BatchStreamer` owns a `BatchBuffer`; its caller, a
rollup node, calls one method at a time (there is no lock) and supplies its
view of L1 through `Refresh`. The streamer asks four services, each of which
may fail at any time: HotShot's query service (block height, transactions of a
range), an L1 node (block hash), the BatchAuthenticator contract (batcher at an
L1 block) and the light client contract (HotShot height of an L1 state).
`BufferedEspressoStreamer` wraps a streamer and keeps what it delivered, so
that a short retreat can be served again. The Nitro streamer runs a goroutine
that polls HotShot and fills a map that a consumer drains; the two share the
map under `messageLock`. What either streamer reads comes from a namespace that
anyone may write to: `EspressoBatch` decodes the transactions for the OP
streamer, the Nitro formats those for the Nitro streamer, and both recover who
signed them.

**What is hard.**

* Batches arrive in commit order, which is not number order; there are rivals
  for one number, forks, reorged L1 origins, unauthorized signers and
  transactions that do not decode; the buffer is bounded.
* A verdict may be undecided for now: the batch is let in unverified and must
  be judged again before it is delivered.
* A full buffer turns batches away; `skipPos` remembers from where to read
  again, and `Next` rewinds.
* Resets come from three sides (`Reset`, a retreat of the safe head, a light
  client that regresses) and hit a streamer in any state between two calls.
* In the Nitro streamer the poller uses a block number it read before its fetch
  while the consumer may reset the streamer.
* A restart of the Nitro streamer starts from a block the old instance names;
  every message not yet consumed has to lie at or after it.
* Batches are told apart by a hash that covers neither signer nor body, and anyone
  may post a copy under another key.
* The buffered streamer counts its cache in batches from the safe head on, while
  the inner streamer moves on its own account.
* Sizes in a payload are whatever its writer claims, up to 2^64 - 1; a batch may
  lack any part, name any signer, or contradict its own header.

**What makes them correct.** The buffer is sorted, first come first served
within a number. `BatchStreamer` delivers only batches whose origin is final,
canonical and signed by the batcher authorized there; in number order; without
losing one; and every one at last. The Nitro streamer never skips a message,
never lets a later message replace an earlier one of the same position, accepts
only authorized signers, and names safe restart blocks; where the code falls short
of this, the properties name the exception and section 5 shows it. The buffered streamer is
as good a streamer as the one it wraps. A payload is cut into messages without
gap or overlap, and only what a valid key signed comes out of it, at the position
it was signed for. A batch that decodes can be asked for its number and hash, was
signed by its signer, is the only one its batcher signed under its hash, and becomes
the block it was made of.

`PROJECT.json` lists under `hazards` every place where one of these can go
wrong, and the properties that watch it.

## 2. Modules

| module | models |
|---|---|
| `BatchBuffer` | pure: the comparison of `Insert`, the loop of `slices.BinarySearchFunc`, insertion, the capacity test |
| `BatchBufferSpec` | the buffer as an object: `Insert`, `Pop`, `Clear` |
| `BatchFeed` | abstract: what the interface of an OP streamer promises its caller |
| `BatchStreamer` | the OP streamer with all its methods and failing queries; extends `BatchBuffer`, implements `BatchFeed` |
| `BufferedStreamer` | the buffered streamer over any `BatchFeed`, or over an inner streamer that keeps less; a `BatchFeed` itself, for a careful caller |
| `EspressoBatch` | the way of an L2 block through HotShot: packed, signed, decoded, rebuilt |
| `NitroStreamer` | the Nitro streamer: poller, consumer and the lock between them |
| `NitroFormat` | pure: both payload formats, the length check, the feed hashes, `verifyV1Message` |
| `NitroPayload` | the way of a Nitro payload: built, signed, parsed, verified, iterated over; extends `NitroFormat` |
| `Filtering` | pure: the loop that copies what passes a test |
| `SequenceLemmas` | induction over numbers and sequences, facts about loops and `Filter`, for the proofs |
| `*_proofs` | theorems about `BatchBuffer`, `BatchBufferSpec`, `BatchStreamer`, `BufferedStreamer`, `EspressoBatch`, `NitroStreamer`, `NitroPayload` |
| `MC*` | small instances for TLC |

### BatchBuffer, BatchBufferSpec

A buffer is a sequence of records with the answers of the `Batch` interface.
`SearchPos` is the loop of the standard library's binary search, a function from
the number of a round to the interval left (`Narrow` is the body), under the
comparison `Insert` passes to it: 0 for an equal hash, otherwise -1 unless the number is larger. With
several batches of one number that is no total order, so it is not evident where
the search ends. `SearchAgrees` states that whenever the search does not end on
the batch itself it ends at the one place behind every batch whose number is not
larger (`InsertPoints`, the reference definition). Both `BatchBufferSpec` and
`BatchStreamer` insert where the search ends. `arrival` is a history variable: the
rank in which each element came in.

### BatchStreamer

| code | model |
|---|---|
| contents of HotShot | `hotshot`, chosen in `Init` from `Histories`: a sequence of transactions with the number of their block. HotShot is final, so it never changes; that part of it is not there yet is the height a query reports |
| L1 | `L1Hash` and `BatcherAt`, functions on L1 block numbers, for the chain that becomes final. A batch on a reorged block has another `originHash`. `finalizedL1` only moves forward: the caller reports finalized blocks |
| `CheckBatch` | `CheckBatch(b, verdict)`: a relation, because the L1 queries may fail (`undecided`). The LRU cache is a set of keys from which an insertion may evict any; its values never differ from L1 |
| `Update` | `CallUpdate` (block height known), `FetchRange`/`FetchNothing`/`FetchFails`, `ProcessTransaction` once per transaction, `RangeProcessed`, the call of `HasNext`, and round again or `UpdateDone` |
| `HasNext`, `Peek` | `CallHasNext`, then `Promote`, `DiscardStale`, `CheckHead` until one of them returns; `caller` says to whom |
| `Next` | `CallHasNext("Next")`, then `Deliver` |
| `SetProperHead`, `Reset`, `Refresh`, `RefreshSafeL1Origin` | one step each |
| `math.MaxUint64` for "no rewind" | `MaxUint64`, a constant above every position |

`pc` is the point the running method has reached. No other method runs until it
is `idle` again, as the interface demands; but each query is a step of its own,
so every one fails or succeeds separately. History: `base` is the HotShot position
at the last reset; `released` are the valid batches given up on purpose since then
(by `SetProperHead` or by the signer pre-filter); `shadowed` those that were
skipped as duplicates although what is held is not the batch itself but a copy
with its hash that is not valid (`Shadow`).

### NitroStreamer

`pc` is where the goroutine of `Start` is. Methods of the consumer are one step,
since they hold the lock throughout; they are disabled while the poller is at
`insert`, where it holds the lock itself and inserts one message per step. The
poller reads `nextHotshotBlockNum` without the lock (`Poll`), fetches (`Fetch`,
`FetchFails`), parses one transaction after the other (`ParseTransaction`,
`InsertMessage`, `SkipMessage`) and at the end moves on if the number is still
the one it read (`PollDone`); a `Reset` can come anywhere between. The unlocked
read is a data race; on a 64-bit machine it yields the old or the new number, as
the position of `Poll` among the consumer's steps does.

A transaction is a sequence of messages with a position and a signer; one that
cannot be parsed has none. `Verified` gives the messages whose signer is valid.
A V0 transaction has one signature for all messages and is accepted or rejected
as a whole; a V1 transaction loses the bad ones. The model takes the V1 form; a
V0 transaction is one whose messages have the same signer. `L1Finalized` gives
the L1 block each HotShot block calls finalized. History variables: `base`, the
block of the last `Reset`; `race`, how that `Reset` hit a running poll (before,
at or past the block the poll had started from); `resetInPoll`; and `strays`, the
positions that this poll went on inserting after the `Reset`.

### BatchFeed and BufferedStreamer

`BatchFeed` has two variables: the safe batch the caller reported last and the
number of the batch `Next` returns next. `Deliver` counts up, `Rewind` (`Reset`)
goes back to the first batch behind the safe one, `Refresh` goes there if the safe
head retreats or has overtaken, and leaves the number alone otherwise. With
`SelfRewinds` the streamer may also go back there in `Refresh` and
`RefreshSafeL1Origin` without being asked to, as `BatchStreamer` does when the
light client regresses. `BatchStreamer` implements it under
`safe <- fallbackBatchPos, next <- nextBatchPos` (`ImplementsFeed`).

`BufferedStreamer` puts the cache on top of an inner streamer; a batch is its number.
The inner streamer counts up by one, and `Refresh`, `Reset` and
`RefreshSafeL1Origin` leave it where `BatchFeed` says or at one of `LooseStarts`.
That set is empty where the inner streamer is a `BatchFeed`, as `BatchStreamer` is.
Elsewhere it is every number: the interface alone promises no more, and the mock of
`op/buffered_streamer_test.go:323-335` starts at batch 1 whatever the safe head, so
that the loops of `Next` and `Peek` have batches to throw away. `wentBack` is history:
the inner streamer went back while cached batches were kept.

| code | model |
|---|---|
| `batches`, `readPos`, `startingBatchPos`, `currentSafeL1Origin` | the same; an L1 origin is its number |
| `streamer` | `feedSafe`, `feedNext`, an instance of `BatchFeed` |
| `handleL2PositionUpdate` | `CacheAfter`, `ReadPosAfter`, and the `Reset` of the inner streamer in `BeforeFeedRefresh` |
| `Refresh` | one step: `handleL2PositionUpdate`, `RefreshSafeL1Origin`, and `Refresh` of the inner streamer |
| `Next` | `NextFromCache`, `NextFromFeed` |
| `Peek` | reads, but for the loop that discards outdated batches of the inner streamer (`FirstKept`) |
| `Reset`, `SetProperHead`, `RefreshSafeL1Origin` | one step each |

Three callers: `Spec` makes any call at any time; `AlignedSpec` calls `Refresh`
before it reads and `SetProperHead` only when the cache is read to its end;
`SteadySpec` also reports no L1 origin that retreats.

### EspressoBatch

One transaction at a time goes through the stages `block`, `batch`, `sent`,
`decoded`; `Fail` is any error return. Encoding is kept apart from its bytes: an
encoded batch is the record, `Garbage` what RLP does not decode, and a missing
field `None`. A hash is what it covers, so a header holds its transactions. A
signature names its key and what it is over; `SigToPub` over other data gives a
`Stranger`. Other writers post what they like (`Foreign`) and may put a batcher's
signature before other data (`Alter`). `signed` and `seen` (every batch that was
decoded) are history.
`derive.BlockToSingularBatch` and `L1BlockInfoFromBytes` are external, modelled by
what this code relies on: a first transaction that is a deposit with L1 info, and
deposits left out.

### NitroFormat, NitroPayload

A payload is a sequence of cells: a cell is a byte of a message or of a signature,
or one big-endian `uint64`, so integers have the size 1 rather than 8. Arithmetic
is modulo `MaxWord + 1`, as `uint64` is modulo 2^64. RLP and JSON are external:
`RLPBodies` are the byte strings that decode to a message, `FeedMessage` gives the
feed message of a JSON text, `RLPOf` the text of an `L1IncomingMessage`.

A feed hash is the text that is hashed, field by field as the code writes it. The
first version covers number, chain, delayed count and the RLP text of the whole L1
message. The second covers chain, number, block hash, metadata, delayed count, the
header's fields, request ID, base fee and L2 message, one behind the other without
separators; `LegacyBatchGasCost` and `BatchDataStats` (`stats`) are not in it. A
signature is made with a key, for a chain, over one of the two texts of a message.

| code | model |
|---|---|
| `BuildRawHotShotPayload` | `AddMessage` per position, `StopBuilding` (all in, no room, fetch failed) |
| `SignHotShotPayload` | `SignHotShotPayload`, `SignerFails` |
| HotShot | `Arrive`, or `ArriveAltered`: cut off, or another word in one place |
| `ParseNitroMessagesFromHotShot` | `IsV1`, `IsV0`, `RejectUnknown` |
| `parseV1Header`, `parseV0SignatureAndMessages` | `ParseV1Header`, `ParseV0Signature` |
| `parseV0MessageAndIndexes`, `parseV1BroadcastFeedMessages` | `ParseMessage`, `SkipEmpty`, `RejectTruncated`, `RejectUndecodable`, one message a step |
| `parseEspressoTransaction` around them | `ParsedAll` (a payload without a message is refused), `Reject` |
| both `VerifySignature` | `VerifyV0` (all or nothing), `VerifyV1` (drops the bad ones) |
| both iterators | `NextMessage`, `NoMoreMessages` |

`built` and `signed` are what was written and what the signer put its name to;
`intact` is true once a payload has come out of HotShot as it went in; `fields` is
every message read, the empty ones included. What `parseEspressoTransaction` does
with a message that the iterator returns is in `NitroStreamer`.

## 3. Runs

| run | shows |
|---|---|
| `buffer` | all sequences of up to 6 insertions of 5 batches, three of one number, with `Pop` and `Clear`, capacity 4. Sorted, first come first served, the search ends where it should, a batch is recognised unless a rival stands behind it |
| `streamer` | all safety properties of `BatchStreamer` and that it implements `BatchFeed`, with a change of batcher and copies of batches under another key, about 480,000 states |
| `streamer_liveness` | every committed batch is delivered, buffer of one, if fetches bring blocks at last; `Update` returns unless its fetches bring none for ever |
| `streamer_stuck` | **violated.** The first of these when the head is dropped while a rewind is pending: delivery stops for good |
| `buffered` | `SteadySpec` over a feed that rewinds only when asked to: the cache is a window of the feed, and with it the streamer is a feed |
| `buffered_any` | `Spec` over an inner streamer that rewinds when it likes and goes where it likes: nothing from before the safe head is handed out, no slice fails; about 96,000 states |
| `buffered_l1` | **violated.** After a retreat of the L1 origin `Reset` does not lead back to the safe batch |
| `espresso_batch` | two transactions, of two batchers and of others, with sixteen ways to be wrong, about 45,000 states |
| `nitro` | all safety properties of `NitroStreamer`, about 110,000 states |
| `nitro_liveness` | `StopAndWait` returns; the consumer gets every message |
| `nitro_jump` | **violated.** A `Reset` to the very block the running fetch started from goes unnoticed |
| `payload` | what the batch poster and the sequencer's feed write, altered or not, and every short payload of others, about 39,000 states |

### Properties of `streamer`

* `HeadIsDue`: the head has the number `nextBatchPos`, whatever happened before.
* `DeliversOnlyFinal`: where `Next` delivers, the head's origin is final, on the
  canonical chain and signed by the batcher authorized there.
* `BufferSorted`: `HasNext` looks at the front only.
* `RewindWithinScan`: a pending rewind is between the block reading restarted
  from and the one it has reached.
* `NoBatchLost`: a valid batch that is still to come and that was read is in the
  head or in the buffer, or the pending rewind will read it again, or it was
  given up on purpose, or it is `shadowed`: a copy under another key, let in while it
  was undecided, had its hash and was taken for it. The copies are in the run; there
  is no other way to lose a batch, and this one does happen (section 5).
* `HeadIsStable`: an acceptable head stays the head until `Next`,
  `SetProperHead` or a reset: what `Peek` shows, `Next` delivers.
* `DropIsFinal`: a batch that would be accepted once its origin is final is dropped
  only before that, by the pre-filter of line 282, and only if the batcher changed
  between the origin and the finalized block of the batcher the streamer knows. The
  batcher changes in this run.
* `ImplementsFeed`: the number `Next` returns rises by one, and the only other way
  is back to the first batch behind the safe head.

`streamer_liveness` adds `EveryBatchDelivered`, and `UpdateReturns`: an `Update` that
never returns is one whose range is answered with no blocks for ever (line 549 leaves
`hotShotPos` alone and the loop asks again). There is no other way: not at the start
of HotShot, where block 0 leaves `hotShotPos` at 0 and would be read again and again
but for the break of line 410, and not over empty blocks, of which the third history
has two at its end.

### Properties of `buffered` and `buffered_any`

* `CacheIsWindow`: the cache holds the batches from the safe one on, without a gap,
  up to the inner streamer's position. `handleL2PositionUpdate` drops batches by
  count, which is right for this reason only.
* `KeepsPromise`: the number the consumer gets next behaves as a `BatchFeed`, with
  `SelfRewinds` false: `Reset` needs no reset of the inner streamer, and a safe head
  that moves forward goes unnoticed.
* `NothingBelowStart`: the consumer is never handed a batch from before
  `startingBatchPos`, however far behind the inner streamer starts and whatever the
  caller does. The loops of `Next` and `Peek` see to it. Not so when the inner streamer
  goes back while cached batches are kept: then numbers repeat in the cache, and
  dropping by count leaves old ones in it.
* `ReadPosInCache`: the slice `batches[:readPos]` in `SetProperHead` exists.

### Properties of `espresso_batch`

* `MethodsAnswer`: `Number` and `Hash` can be called on whatever decodes, before the
  signer is checked, and `Number` is not cut to 64 bits.
* `SignerSigned`: if the signer is a batcher it signed this very batch, whatever the
  encoded signer field says, also when its signature is reused with other data.
* `SignedHashIdentifies`: the streamer tells batches apart by a hash of header and
  deposit, as soon as they are decoded. Among batches with the recovered signature of
  a batcher, one hash is one batch, transactions and all: a batcher signs packed
  blocks only, and the header covers the transactions. It is what `BatchStreamer`
  assumes of batches (`GenuineAssumption`). Batches under other keys may share the
  hash of a batcher's.
* `ResultRoundTrips`: a block that `ToBlock` makes of a batch that a batcher signed, or
  of any batch without deposits among its transactions, converts back to this very
  batch. `ToBlock` does not refuse other writers' batches with deposits; exactly the
  deposits are missing from what these convert to (section 5).
* `BlockArrives`: what an honest batcher packs is never refused on the way.

### Properties of `payload`

* `SlicesInRange`: no slice reaches out of the payload, whatever sizes it claims.
* `FieldsTileInput`: what has been read, encoded again, is the payload up to the read
  position: no gap, no overlap, nothing left at the end. So the hash of version 0
  covers exactly the messages that are handed out. The text of a version 1 message is
  the one that was read; `MarshalBinary` makes a new one of the same content.
* `OnlySignedDelivered`: what is handed out was signed by a valid key. In version 0 it
  is the messages the batch poster signed, in their order and at their positions. In
  version 1 some signature of a valid key `Vouches` for the message: one of the first
  kind for all of it but block hash and metadata, at its number and for this chain;
  one of the second kind for the text of the fields that are hashed. Since the two
  kinds write number and chain in opposite order behind the same preamble, a text of
  one kind can also be read as one of the other, with number and chain exchanged.
* `NothingLost`: an unaltered payload is handed out in full and in order. For the
  batch poster that is every message but the empty ones, if the key is valid, the
  quote has the length the parser reads and every message decodes; for the feed it is
  every honest message, whatever bad ones lie between them.
* `SignedFits`: the signed payload exceeds `maxSize` by the size field of the quote at
  most, although it is filled up before the quote is known. Quotes go up to
  `MAX_ATTESTATION_QUOTE_SIZE`; the code keeps room for that and nothing for the size
  field, so `maxSize` itself is exceeded (section 5).
* `Handled`: the parsing loops and the iterator end.

### Properties of `nitro`

* `HeightsOrdered`: heights grow with positions, so the height of one message
  covers all that follow.
* `RestartSafe`: a streamer restarted at any position from the block that
  `GetCurrentEarliestHotShotBlockNumber` names finds again every message queued
  here from that position on, and every one not yet read. It excepts the messages
  that a running poll goes on inserting after a `Reset` to a block ahead of the one
  the poll had started from: they stand under a height that is too high. A consumer
  that resets forward while the goroutine runs must not restart from such a height.
* `Authorized`: the signer of a queued message is valid at an L1 height that a
  HotShot block within one range of its own calls finalized.
* `NoMessageLost`: what HotShot holds between the block of the last `Reset` and
  the next block to read is queued, from the current position on. It excludes the
  case `nitro_jump` shows.
* `FirstWins`: of the messages for one position that count, the first in HotShot's
  order is queued. It excepts the positions that a poll went on inserting after a
  `Reset` hit it, which may come too early, and the case of `nitro_jump`.

In the last two a message counts (`Offers`) if its signer is valid at the L1 height of
every block that a range with this message can end at. All messages of a range are
judged at the range's last block (line 336), so around a change of signers a message
may be accepted by a reader of short ranges and refused by one of long ranges, or the
other way round: in the second history of the run either of two rivals of position 1
may be queued. Two streamers agree on a position if the signer of its first message
does not change within a range of it, and nothing more is claimed.

### Bounds

* `Histories` are a few sequences of up to six transactions in four HotShot
  blocks, chosen so that every rule meets its exception: numbers out of order,
  rivals, forks, repeats, a reorged origin, an unknown signer, an origin without
  a batcher, undecodable transactions, more batches than the buffer holds.
* `FetchLimit` and `RangeLimit` are 2, for 100 in the code: four blocks need two
  or three ranges, the last of one block.
* `Capacity` is 2 (1 for liveness), so a buffer overflows, in different blocks.
* `MaxL1 = 2` gives an origin that is final, one that is not and one without a
  batcher; the batcher changes at L1 block 2. `L1CacheSize = 1` makes every second insertion evict.
* `MaxUint64 = 99`: above every position, which is all the code uses it for.
* `MaxBatch` and `MaxCache` (4 to 6) bound the inner streamer and the cache of
  `BufferedStreamer`; safe heads range over four numbers, so they retreat behind the
  cache, move inside it, to its end and past it.
* `LooseStarts` are 0 to 3 in `buffered_any`: before, at and behind every safe head.
* `MaxRounds = 2`: two transactions, so that a signature of the first can be reused by
  the second, and two batches with one hash can meet. `MaxWord = 3` there makes a
  number of 5 one that is cut off.
* In `payload` `MaxWord` is 24, a signature two cells and the largest quote four:
  payloads of up to three messages, an empty one among them, fill `MaxSize = 13` to the
  last cell. The feed messages have good and bad signatures of both kinds, one of
  another chain, changed fields that a hash covers and ones it does not.
  The payloads of others are all sequences of up to four words out of 0, 1, 2 and the
  two largest, behind each beginning of a format: sums wrap around, fields end
  before, at and behind the end.
* `MaxPos = 4` bounds `Advance` and `AdvanceTo`; positions in the histories do not
  exceed it. `MaxInserts = 6` bounds `arrival`.

### Fairness

`streamer_liveness` has a caller that polls: it keeps calling `Refresh`,
`Update` and `Next`, with a safe head that stays where it is, and neither resets
nor calls `SetProperHead`. A running method goes on (weak fairness: Go code does
not stop halfway). Calls and queries alternate with others, so each is strongly
fair: the call is made again and again, L1 becomes final at last, the query for
the newest height is answered at last, and an L1 query too. Nothing is assumed of the
fetch of a range: it may fail, or bring no blocks, for ever. `EveryBatchDelivered` has
the assumption it needs in its statement (`BlocksComeAtLast`: a range up to the newest
height that is fetched again and again brings its blocks at last), `UpdateReturns` has
none. Nothing is assumed about which batch comes when. In that run no head is dropped
by the histories after the buffer overflowed; `streamer_stuck` shows under the same
fairness that this is needed.

`nitro_liveness` has a goroutine that runs on (weak), a consumer that takes what
`Peek` shows (strong, since the lock is taken and released in between), fetches at
the newest height that succeed if tried again and again (strong: failing and
partial fetches come between), and finitely many calls of `StopAndWait`, each
followed by `Start`.

`payload`: one goroutine builds, or parses and iterates, without waiting for
anyone; it goes on (weak fairness of `Next`).

## 4. Proofs

Every invariant that a passing run checks, the refinements and the action properties
are theorems. Only liveness (`EveryBatchDelivered`, `UpdateReturns`, `StopTerminates`,
`EveryMessageServed`, `Handled`), which is out of the prover's reach, and the
disagreements of section 5 rest on TLC alone.

**Induction over data.** The library's induction theorems take an operator, which no
installed prover can instantiate. `SequenceLemmas` states induction with a set
instead: a set of numbers that has 0 and is closed under successor has every number
(`SetInduction`, from the well-foundedness of `<`); a set of sequences that has the
empty one and is closed under `Append` has every one (`SeqInduction`). A claim about
all sequences is proved by taking for the set the sequences that satisfy it.
`Iterates` gives, for a loop of n rounds, the function of its intermediate results,
which is how the function definitions inside `SearchPos`, `Filter` and the encoders are
unfolded.

`BatchBuffer_proofs` and `BatchBufferSpec_proofs`, for any batches and any capacity.
The search keeps `SearchInv`: the comparison is negative just left of the interval and
not negative just right of it. The interval gets shorter every round, so it is empty
after `Len(buf)` rounds (`SearchEnds`), and in a sorted buffer these two neighbours
decide about all others (`SearchFinds`). Insertion
there keeps a buffer sorted (`InsertAtSorted`), and so do `Pop` and `SetProperHead`'s
pruning.

| theorem | strengthening |
|---|---|
| `BufferTypeCorrect`, `EarliestFirstCorrect`: `EarliestFirst` | `TypeOK` and `EarliestFirst` together: the order of arrival is what an insertion has to preserve, the order of numbers what the search needs |
| `SearchCorrect`: `SearchAgrees`; `NewestCorrect`: `NewestIsRecognised` | from these: the buffer is sorted, so the search ends as above |

`BatchStreamer_proofs`, for any histories, capacity, limits, L1 chain and failures that
meet `StreamerAssumption`, `BatchAssumption` and `CapacityAssumption`:

| theorem | strengthening |
|---|---|
| `TypeCorrect` | `TypeOK` is inductive by itself |
| `DeliveryCorrect`: `HeadIsDue` and `DeliversOnlyFinal` | together, and with `TypeOK`. `Deliver` is reached only through `CheckHead("accept")`; no other method can run between |
| `HeadCorrect`: `HeadIsDue`; `HeadStays`: `HeadIsStable` | from the above: for a head that is due and acceptable, `CheckBatch` answers accept or undecided, and neither `Admit` nor `Promote` touches a head |
| `DropCorrect`: `DropIsFinal` | `KnownBatcher`: the batcher the streamer knows is none or the one that was authorized at some finalized block |
| `FeedCorrect`: `ImplementsFeed` | step by step: `Deliver` is `Deliver`, the three resets are `Rewind` or `Refresh`, all other steps leave both positions alone; needs `TypeOK` only |
| `BufferStaysSorted` | `BufferEffect`: whatever a step does to the buffer is one of five forms |
| `RewindCorrect`: `RewindWithinScan` | `ScanBounds`: reading is at or past `base`, and the transactions of the fetched range lie between. Without it the rewind set by `Admit` could be anywhere |
| `NoBatchLostCorrect` | all of the above: the batch delivered is the due one, so it may leave; a rewind goes to a block before what was turned away and not before `base`, so that what lies behind is read again |

The assumptions say that positions are below `MaxUint64`, that a hash fixes the
number it covers, that a signer is not the zero address and that block numbers
are numbers. `GenuineAssumption` says that two valid batches with one hash are the same
batch, which `SignedHashIdentifies` of `EspressoBatch` shows; of batches that are not
valid nothing is assumed, so copies with the hash of a valid batch are among those the
theorems are about. The batcher may change at any L1 block.

`BufferedStreamer_proofs`:

| theorem | strengthening |
|---|---|
| `ReadPosCorrect`: `ReadPosInCache` | `AnyInv`, for any caller and any inner streamer: the property with `TypeOK` |
| `NothingBelowStartCorrect`: `NothingBelowStart` | `Above`, for any caller and any inner streamer, while it has not gone back: the i-th cached batch is at least `startingBatchPos + i - 1`, and the inner streamer is past them all. So what is dropped by count leaves nothing older than the new start |
| `BufferedTypeCorrect`, `WindowCorrect`: `CacheIsWindow` | `SteadyInv`, for `SteadySpec` and an inner streamer that is a `BatchFeed` and does not rewind by itself (`Steady`: `SelfRewinds = FALSE` and no `LooseStarts`): before the first `Refresh` nothing has been read (`Fresh`), afterwards cache and feed agree on the safe head |
| `PromiseKept`: `KeepsPromise` | `DueCounts`: the batch due is `feedSafe + readPos + 1`; with it each call maps to a step of `BatchFeed` |

`NitroPayload_proofs`, for every width of words, every payload and every message:

| theorem | strengthening |
|---|---|
| `SlicesCorrect`: `SlicesInRange` | `PayloadInv` and `OffsetInv`: the read position lies in the payload. Then the unsigned difference in `CanSafelyReadElements` does not wrap, and what it lets pass cannot wrap either (`ReadFits`) |
| `TypeCorrect` | the same with `ReadingInv` below |
| `TilesCorrect`: `FieldsTileInput` | `ReadingInv`: before parsing nothing is read; what was read is a front (signature or header) followed by the encoding of `fields`, up to the read position, and at the end of it once the loop is left (`TileInv`); `messages` are the fields with data (`DataInv`) |
| `SignedCorrect`: `OnlySignedDelivered` | `WriterInv`: what was signed is the encoding of `built`. In version 0 the hash that verifies is that of the bytes read, so two encodings are equal, and the encoding is injective (`Injective`, by induction over the messages): the messages are those signed. In version 1 the hash that verifies is the text the signature is over: number, chain and what is covered agree part by part when the versions are the same, and crosswise when they are not |
| `NothingLostCorrect`: `NothingLost` | `KeptInv`: for a payload that arrives intact the fields read are a beginning of `built`, so no check of the loop can refuse (`WrittenIsFound`: at a read position the next field is the next message written) and the loop is left when all is read |
| `SizeCorrect`: `SignedFits` | `RoomInv`: while one builds, the payload is empty or leaves room for the largest quote; its size field is the excess |

`PayloadAssumption` says that a quote is at most `MAX_ATTESTATION_QUOTE_SIZE` long, as
the constant's name says, and that no payload is longer than a word can tell.
`FormatAssumption` says that header and signature differ in length, which is how the
parser tells the versions apart, that nothing decodes from an empty text, and that the
key recovered from a wrong signature is not a valid one. `FeedAssumption` says that RLP
keeps L1 messages apart and what the fields of a feed message are; the second hash is
not assumed to keep anything apart.

`EspressoBatch_proofs`, for any blocks, keys, foreign payloads and number of rounds:

| theorem | strengthening |
|---|---|
| `MethodsCorrect`: `MethodsAnswer`; `SignerCorrect`: `SignerSigned` | `PayloadInv`: a batcher's signature on the way is one it has made, over a batch without a signer, also after `Alter` |
| `HashCorrect`: `SignedHashIdentifies` | `SignedInv`: what the batchers' keys have signed are packed blocks, and what was decoded with a batcher as its signer has the content of one. One header is one list of transactions, hence one packed block (`HeaderFixesBatch`) |
| `RoundTripCorrect`: `ResultRoundTrips` | `ResultInv`: the result is rebuilt from a consistent batch. Leaving out the deposits of the rebuilt list leaves those of the batch's own list out (`FilterCons`, `FilterAgrees`), and where there are none the list stays as it is (`FilterAll`, all by induction over the list). With `SignedInv` a batcher's batch has none (`PackedHasNone`) |
| `BlockArrivesCorrect`: `BlockArrives` | `WayInv`: as long as no other writer has touched it, what is on the way is the packed block, in every stage; a packed block passes every check of decoding and of `ToBlock` |

`EspressoAssumption` describes blocks and what others write; `MarkAssumption` says that
the marks for "no value" and for bytes that do not decode are not themselves blocks,
batches or signatures.

`NitroStreamer_proofs`, for any histories, ranges, limits and arguments that meet
`NitroAssumption` (blocks and positions are numbers, and a history lists its
transactions in the order of their blocks):

| theorem | strengthening |
|---|---|
| `TypeCorrect` | `TypeOK` is inductive by itself; that the queue lies at or below `highestPos` is part of it |
| `HeightsCorrect`: `HeightsOrdered` | `PollRange`: the range of a poll lies ahead of where it started, so the number only grows at the end of a poll |
| `RestartCorrect`: `RestartSafe` | `ResetSeen`: in a running poll the number is at or behind the one the poll read, unless a `Reset` moved ahead; hence `Behind`: the height of a message is at or below its block, strays of such a `Reset` apart |
| `AuthorizedCorrect`: `Authorized` | `PollRange`: the range is at most `RangeLimit` long, and its last block exists |
| `NoMessageLostCorrect`: `NoMessageLost` | `PollKept`: in an undisturbed poll a message of the range is still to be parsed, still to be inserted, or queued |
| `FirstWinsCorrect`: `FirstWins` | all of these, for messages that no poll inserted after a `Reset` had hit it: what comes before the message being inserted is in a finished range (`NoMessageLost`) or earlier in this one (`PollKept`), so its position would be taken |

## 5. Disagreements between code and documentation

Three are runs that TLC finds violated, listed under `findings`:

* `streamer_stuck`, the most serious one: the batch that waits for finality becomes
  the head; the buffer fills with later batches, and the valid rival of the head's
  number is turned away, which sets `skipPos`; the head turns out to be on a reorged
  block and is dropped. Now no batch of that number is held, reading goes on at the
  tip, and the rewind, which only `Next` performs, never comes. Only a reset helps.
* `nitro_jump`: a `Reset` to the block the running fetch started from leaves
  `nextHotshotBlockNum` equal; the poll jumps past messages the `Reset` cleared.
* `buffered_l1`: on an L1 retreat the cache is emptied and `startingBatchPos` set to
  0, so the next `Refresh` looks like an advance and does not reset the inner
  streamer: the batches between the safe one and its position are nowhere.

Smaller ones have a configuration of their own that is not among the regular runs;
TLC finds each property violated at once (`tlc -config <file> <module>`):

| configuration | property | the code; what is said of it |
|---|---|---|
| `MCBatchBufferDup.cfg` | `NoDuplicates` | `[a2, b2]` accepts `a2` again (`op/batch_buffer.go:66`); "Inserting the exact same batch ... does not create a duplicate", `op/batch_buffer_test.go:124` |
| `MCBatchStreamerOrder.cfg` | `EarliestCommittedFirst` | after `Next` an arriving batch overtakes an earlier committed one in the buffer (`op/op_streamer.go:631`); "Peek() always returns the earliest-committed batch", `op/batch_buffer.go:77` |
| `MCBatchStreamerCopy.cfg` | `DuplicateStaysHeld` | a copy under another key that is let in undecided makes the streamer skip the batcher's batch (`op/op_streamer.go:626`), and is dropped later; "Drop batches that duplicate the current head batch position", line 624 |
| `MCBatchStreamerRotation.cfg` | `DropNeverRegretted` | around a change of batcher `CheckBatch` drops a batch it would accept later (`op/op_streamer.go:282`); "invalid, and will always be in the future", `op/batch_buffer.go:15` |
| `MCBatchStreamerTip.cfg` | `UpdateReadsAllBlocks` | from the second range on `Update` leaves a last single block unread (`op/op_streamer.go:410`), against `op/op_streamer.go:385` |
| `MCBatchStreamerRefresh.cfg` | `ResetsOnlyOnRetreat` | a safe head that moves forward resets the streamer (`op/op_streamer.go:251`); "only ... if the `safeBatchNumber` moves backwards", `op/interface.go:35` |
| `MCBatchStreamerFork.cfg` | `ProperHeadPositioned` | `SetProperHead` stops at an outdated batch at the front and leaves the wrong fork behind it (`op/op_streamer.go:493`); "positioning it at the correct fork", `op/interface.go:72` |
| `MCBufferedStreamerRewind.cfg` | `ProgressionUnchanged` | the inner streamer may reset itself in `Refresh` while the cache stays (`op/buffered_streamer.go:132`); "appear to the consumer as nothing has changed", line 64 |
| `MCBufferedStreamerFork.cfg` | `SetProperHeadKeepsNumber` | with unread batches in the cache, `SetProperHead` skips their numbers (`op/buffered_streamer.go:197`), against `op/interface.go:72` |
| `MCNitroPayloadReads.cfg` | `SafeReadFits` | `CanSafelyReadElements` is true when the read does *not* fit (`nitro/utils.go:512`); its callers know, its comment in line 505 says the opposite |
| `MCNitroPayloadHash.cfg` | `WholeMessageSigned` | a message with changed statistics, or with a field moved into the next one, has the second hash of the original (`nitro/utils.go:198-216`); "verifies the signature on a single BroadcastFeedMessage", line 309 |
| `MCNitroPayloadSize.cfg` | `SignedWithinMaxSize` | with a quote of the largest size the signed payload is longer than `maxSize` by the quote's size field, for which `nitro/utils.go:86` keeps no room |
| `MCEspressoBatchRoundTrip.cfg` | `EveryResultRoundTrips` | `ToBlock` takes a batch with a deposit among its transactions, which `BlockToSingularBatch` leaves out; "The produced block must round-trip through BlockToSingularBatch", `op/derivation/espresso_batch.go:139` |
| `MCEspressoBatchDeposits.cfg` | `BlockRestored` | deposits other than the L1 info deposit are gone (`op/derivation/espresso_batch.go:163`); "must convert back to the original block", `op/derivation/espresso_batch_test.go:136` |

## 6. Not modelled

* `batchTimestamps` of `BatchStreamer`: a statistic that nothing reads.
* The order in which the LRU cache evicts: any eviction is allowed.
* RLP, JSON, Keccak and ECDSA: what decodes is a constant, a hash is what it covers,
  a signature over other data recovers a stranger's key.
* Inside the two streamer models a transaction is a batch or undecodable, a message
  has a signer; how that comes about is in `EspressoBatch` and `NitroPayload`.
* That RLP decoding ignores or normalises anything: `EspressoBatch` takes it for
  injective.
* `CanBatcherAddressSend`, `GetMsg`, `GetMessageCount`: they read only.
* Two concurrent calls of one `BatchStreamer`, or a second `Start` of a running
  Nitro streamer: the interfaces do not allow for them.
* Retries inside a fetch and sleeping: a failed fetch is tried again by the caller.
* Logging and `logDebouncer`, which decides about logging only; the generated
  contract bindings (`op/bindings/`, 2255 lines): the contract's answers are the
  constant `BatcherAt`.
* The hazard at `op/op_streamer.go:782` (the HotShot fallback moves without the batch
  fallback): it depends on how the light client's height relates to the safe batch,
  which the rollup node keeps and this repository does not state.

## 7. State of the plan

Every component with state or control of its own is modelled: `BatchBuffer`,
`BatchStreamer`, `BufferedStreamer`, `EspressoBatch`, `NitroStreamer` and the Nitro
formats; `BatchFeed` ties the two OP streamers together. Every safety invariant, action
property and refinement that a run checks is a theorem as well.

What is left depends on facts outside this repository:

1. the rollup node's safe head composed with `BatchStreamer` (`op/op_streamer.go:782`);
2. a caller of `SetProperHead`: what it does after the next `Peek`.
