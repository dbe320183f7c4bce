----------------------------- MODULE NitroFormat -----------------------------
(* The two formats of the Nitro messages on HotShot (v0_nitro_types_binary.go, *)
(* v1_nitro_type_binary.go) and how their signatures are verified (utils.go).  *)
(*                                                                             *)
(* A payload is a sequence of cells.  A cell is a byte of a message or of a    *)
(* signature, or one big-endian uint64: an integer of 8 bytes has the size 1.  *)
(* RLP and JSON are external: RLPBodies are the texts that decode to a         *)
(* MessageWithMetadata, FeedMessage gives the BroadcastFeedMessage of a text,  *)
(* and RLPOf the text of an L1IncomingMessage.                                 *)
EXTENDS Filtering, SequencesExt

CONSTANTS
  MaxWord,        \* math.MaxUint64
  SignatureSize,  \* 65, the size of an ECDSA signature
  V1Header,       \* the JSON text of the V1 header
  RLPBodies, FeedMessage, RLPOf,
  ChainID,        \* chainID, which is the namespace
  ValidKeys,      \* keys whose address is valid at the L1 height in question
  NoSignature, NoMessage, Stranger

INDEX_SIZE == 1
LEN_SIZE == 1

Word == 0..MaxWord

(* uint64 arithmetic *)
Add(a, b) == (a + b) % (MaxWord + 1)
Sub(a, b) == (a - b) % (MaxWord + 1)

ASSUME FormatAssumption ==
  /\ MaxWord \in Nat /\ MaxWord >= INDEX_SIZE + LEN_SIZE
  /\ SignatureSize \in Word
  /\ V1Header \in Seq(Word) /\ Len(V1Header) \in Word /\ Len(V1Header) # SignatureSize
  /\ RLPBodies \subseteq Seq(Word) /\ <<>> \notin RLPBodies
  /\ \A text \in DOMAIN FeedMessage : text \in Seq(Word) \ {<<>>} /\ Len(text) <= MaxWord
  /\ Stranger \notin ValidKeys

(* Variants the runs must reject: the end of the read is compared, and wraps;  *)
(* the end of the space is left out.                                           *)
CanSafelyReadElementsByEnd(total, pos, n) == Add(pos, n) > total

CanSafelyReadElementsToEnd(total, pos, n) == n >= Sub(total, pos)

(* What the callers use it for: the read does NOT fit. *)
CanSafelyReadElements(total, pos, n) == n > Sub(total, pos)

------------------------------------------------------------------------------
(* Version 0: a signature, then messages with their positions. *)

encodeV0MessageAndIndex(m) == <<m.pos, Len(m.body)>> \o m.body

encodeV0MessageAndIndexes(ms) ==
  FlattenSeq([i \in DOMAIN ms |-> encodeV0MessageAndIndex(ms[i])])

encodeV0SignatureAndMessages(signature, ms) ==
  <<Len(signature)>> \o signature \o encodeV0MessageAndIndexes(ms)

(* Version 1: a header, then the messages of the sequencer's feed. *)

encodeEmbeddedJSON(text) == <<Len(text)>> \o text

encodeV1BroadcastFeedMessages(ms) ==
  FlattenSeq([i \in DOMAIN ms |-> encodeEmbeddedJSON(ms[i].body)])

encodeV1HeaderAndBroadcastMessages(ms) ==
  encodeEmbeddedJSON(V1Header) \o encodeV1BroadcastFeedMessages(ms)

------------------------------------------------------------------------------
(* The feed's signatures.  A hash is the text that goes into it: the fields of *)
(* the message one after the other, without anything between them.  Fields of  *)
(* a fixed size are one cell, optional ones none or one, the others sequences. *)
(* A message is [seq, delayed, l1, blockHash, blockMetadata], its              *)
(* L1IncomingMessage l1 is [header, requestId, baseFee, l2msg, stats]: stats   *)
(* stands for LegacyBatchGasCost and BatchDataStats.                           *)

(* A variant the runs must reject: a hash that leaves the sequence number out. *)
HashWithoutNumber(m, chain) == <<chain, m.delayed>> \o RLPOf[m.l1]

(* What the texts have behind number and chain; the preamble they begin with,  *)
(* the same one, is left out here.                                             *)
CoveredByV1(m) == <<m.delayed>> \o RLPOf[m.l1]

CoveredByV2(m) ==
  m.blockHash \o m.blockMetadata \o <<m.delayed>>
    \o m.l1.header \o m.l1.requestId \o m.l1.baseFee \o m.l1.l2msg

ComputeBroadcastFeedMessageHash(m, chain) == <<m.seq, chain>> \o CoveredByV1(m)

ComputeBroadcastFeedMessageHashV2(m, chain) == <<chain, m.seq>> \o CoveredByV2(m)

FeedHash(v2, m, chain) ==
  IF v2 THEN ComputeBroadcastFeedMessageHashV2(m, chain)
        ELSE ComputeBroadcastFeedMessageHash(m, chain)

(* A signature is [key, v2, chain, over]: made with key, for chain, over the   *)
(* hash of one of the versions of the message over.                            *)
IsFeedMessage(m) ==
  /\ m.seq \in Word /\ m.delayed \in Word
  /\ m.blockHash \in Seq(Word) /\ m.blockMetadata \in Seq(Word)

IsSignature(s) ==
  /\ s.v2 \in BOOLEAN /\ s.chain \in Word
  /\ IsFeedMessage(s.over) /\ s.over.l1 \in DOMAIN RLPOf

(* RLP keeps two messages apart. *)
ASSUME FeedAssumption ==
  /\ ChainID \in Word
  /\ \A a, b \in DOMAIN RLPOf : RLPOf[a] = RLPOf[b] => a = b
  /\ \A a \in DOMAIN RLPOf :
       {RLPOf[a], a.header, a.requestId, a.baseFee, a.l2msg} \subseteq Seq(Word)
  /\ \A text \in DOMAIN FeedMessage :
       LET m == FeedMessage[text]
       IN  /\ IsFeedMessage(m)
           /\ m.l1 # NoMessage => m.l1 \in DOMAIN RLPOf
           /\ m.signature # NoSignature => IsSignature(m.signature)
           /\ m.signatureV2 # NoSignature => IsSignature(m.signatureV2)

SequencerSignatureAndHasher(m) ==
  IF m.signature # NoSignature
    THEN [signature |-> m.signature,   v2 |-> FALSE]
    ELSE [signature |-> m.signatureV2, v2 |-> TRUE]

(* crypto.SigToPub: the wrong hash recovers a key nobody has. *)
SigToPub(hash, s) == IF hash = FeedHash(s.v2, s.over, s.chain) THEN s.key ELSE Stranger

(* A message without an L1IncomingMessage has no hash. *)
verifyV1Message(m) ==
  LET sh == SequencerSignatureAndHasher(m)
  IN  /\ sh.signature # NoSignature /\ m.l1 # NoMessage
      /\ SigToPub(FeedHash(sh.v2, m, ChainID), sh.signature) \in ValidKeys
==============================================================================
