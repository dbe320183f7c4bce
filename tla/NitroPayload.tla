----------------------------- MODULE NitroPayload -----------------------------
(* The way of one Nitro transaction: the batch poster builds and signs it      *)
(* (BuildRawHotShotPayload, SignHotShotPayload) or the V1 encoder writes it;   *)
(* it comes out of HotShot, perhaps not as it went in, for anyone may write to *)
(* the namespace; the streamer parses it (ParseNitroMessagesFromHotShot),      *)
(* verifies its signatures and iterates over its messages.                     *)
EXTENDS NitroFormat

CONSTANTS
  MsgPositions,  \* msgPositions: the positions to build a payload of
  MsgBytes,      \* what msgFetcher returns for each of them
  MaxSize,       \* maxSize
  MAX_ATTESTATION_QUOTE_SIZE,
  Quotes,        \* signatures the signer may return
  Keys,          \* keys the signer may sign with
  FeedLists,     \* lists of feed texts that are written in version 1
  Payloads,      \* payloads of other writers
  Garbage        \* words that may stand in an altered payload

ASSUME PayloadAssumption ==
  /\ MsgPositions \in Seq(Word)
  /\ \A i \in DOMAIN MsgPositions : MsgBytes[MsgPositions[i]] \in Seq(Word)
  /\ MaxSize \in Nat /\ MaxSize + LEN_SIZE <= MaxWord
  /\ MAX_ATTESTATION_QUOTE_SIZE \in Nat /\ MAX_ATTESTATION_QUOTE_SIZE + LEN_SIZE <= MaxWord
  /\ Quotes \subseteq Seq(Word)
  /\ \A q \in Quotes : Len(q) <= MAX_ATTESTATION_QUOTE_SIZE
  /\ Payloads \subseteq Seq(Word) /\ \A p \in Payloads : Len(p) <= MaxWord
  /\ Garbage \subseteq Word /\ Stranger \notin Keys
  /\ \A l \in FeedLists :
       /\ l \in Seq(DOMAIN FeedMessage)
       /\ LET p == encodeV1HeaderAndBroadcastMessages([i \in DOMAIN l |-> [body |-> l[i]]])
          IN  p \in Seq(Word) /\ Len(p) <= MaxWord

VARIABLES
  phase,      \* build, sign, sent, parse, loop, verify, iterate or end
  payload,    \* data
  built,      \* the messages that were written, [pos, body]
  signed,     \* history: what the signer signed, [quote, content, key]
  intact,     \* history: what was written has come out as it went in
  version,    \* 0 or 1, once it is known
  offset,
  signature,  \* V0SignatureAndMessages.Signature
  messages,   \* Messages, of either version
  fields,     \* history: every message that was read, the empty ones included
  position    \* v0MessageIterator.position, v1MessageIterator.position

writeVars == <<built, signed>>
readVars == <<version, offset, signature, messages, fields, position>>
vars == <<phase, payload, writeVars, intact, readVars>>

TypeOK ==
  /\ phase \in {"build", "sign", "sent", "parse", "loop", "verify", "iterate", "end"}
  /\ payload \in Seq(Word) /\ Len(payload) <= MaxWord
  /\ intact \in BOOLEAN /\ version \in {0, 1}
  /\ offset \in 0..Len(payload)
  /\ position \in 0..Len(messages)

Unsigned == [quote |-> <<>>, content |-> <<>>, key |-> Stranger]

FeedEntry(text) == [pos |-> FeedMessage[text].seq, body |-> text]

Init ==
  /\ \/ phase = "build" /\ payload = <<>> /\ built = <<>>
     \/ /\ phase = "sent"
        /\ \E l \in FeedLists : built = [i \in DOMAIN l |-> FeedEntry(l[i])]
        /\ payload = encodeV1HeaderAndBroadcastMessages(built)
     \/ phase = "parse" /\ payload \in Payloads /\ built = <<>>
  /\ signed = Unsigned /\ intact = FALSE
  /\ version = 0 /\ offset = 0 /\ signature = <<>>
  /\ messages = <<>> /\ fields = <<>> /\ position = 0

------------------------------------------------------------------------------
(* BuildRawHotShotPayload: the messages that fit beside the largest quote. *)

(* A variant the runs must reject: no room is kept for the quote. *)
FitsWithoutQuote(body) ==
  Len(payload) + LEN_SIZE + Len(body) + INDEX_SIZE <= MaxSize

Fits(body) ==
  Len(payload) + LEN_SIZE + Len(body) + INDEX_SIZE + MAX_ATTESTATION_QUOTE_SIZE <= MaxSize

(* msgCnt is Len(built). *)
AddMessage ==
  /\ phase = "build" /\ Len(built) < Len(MsgPositions)
  /\ LET p == MsgPositions[Len(built) + 1]
         m == [pos |-> p, body |-> MsgBytes[p]]
     IN  /\ Fits(m.body)
         /\ payload' = payload \o encodeV0MessageAndIndex(m)
         /\ built' = Append(built, m)
  /\ UNCHANGED <<phase, signed, intact, readVars>>

(* All are in, the next one does not fit, or it cannot be fetched. *)
StopBuilding ==
  /\ phase = "build"
  /\ phase' = "sign"
  /\ UNCHANGED <<payload, writeVars, intact, readVars>>

SignHotShotPayload(quote, key) ==
  /\ phase = "sign"
  /\ payload' = <<Len(quote)>> \o quote \o payload
  /\ signed' = [quote |-> quote, content |-> payload, key |-> key]
  /\ phase' = "sent"
  /\ UNCHANGED <<built, intact, readVars>>

SignerFails ==
  /\ phase = "sign"
  /\ phase' = "end"
  /\ UNCHANGED <<payload, writeVars, intact, readVars>>

(* The payload comes out of HotShot; or another one does, that is cut off or   *)
(* differs in a cell.                                                          *)
Arrive ==
  /\ phase = "sent" /\ phase' = "parse"
  /\ intact' = TRUE
  /\ UNCHANGED <<payload, writeVars, readVars>>

ArriveAltered ==
  /\ phase = "sent" /\ phase' = "parse"
  /\ \/ \E n \in 0..(Len(payload) - 1) : payload' = SubSeq(payload, 1, n)
     \/ \E i \in 1..Len(payload), w \in Garbage : payload' = [payload EXCEPT ![i] = w]
  /\ UNCHANGED <<writeVars, intact, readVars>>

------------------------------------------------------------------------------
(* ParseNitroMessagesFromHotShot.  An error of any field rejects them all. *)
Reject ==
  /\ phase' = "end" /\ messages' = <<>>
  /\ UNCHANGED <<payload, writeVars, intact, version, offset, signature, fields, position>>

IsV1 == IsPrefix(encodeEmbeddedJSON(V1Header), payload)
IsV0 == ~IsV1 /\ IsPrefix(<<SignatureSize>>, payload)

RejectUnknown == phase = "parse" /\ ~IsV1 /\ ~IsV0 /\ Reject

(* parseV1Header: what it checks is the prefix. *)
ParseV1Header ==
  /\ phase = "parse" /\ IsV1
  /\ version' = 1 /\ offset' = LEN_SIZE + Len(V1Header)
  /\ phase' = "loop"
  /\ UNCHANGED <<payload, writeVars, intact, signature, messages, fields, position>>

(* parseV0SignatureAndMessages, up to the messages. *)
SignatureMissing == CanSafelyReadElements(Len(payload), LEN_SIZE, payload[1])

SignatureEnd == Add(LEN_SIZE, payload[1])

ParseV0Signature ==
  /\ phase = "parse" /\ IsV0
  /\ \/ SignatureMissing /\ Reject
     \/ /\ ~SignatureMissing
        /\ version' = 0 /\ offset' = SignatureEnd
        /\ signature' = SubSeq(payload, LEN_SIZE + 1, SignatureEnd)
        /\ phase' = "loop"
        /\ UNCHANGED <<payload, writeVars, intact, messages, fields, position>>

------------------------------------------------------------------------------
(* parseV0MessageAndIndexes, parseV1BroadcastFeedMessages: one message a step, *)
(* read from data[offset:].                                                    *)
Remaining == Len(payload) - offset

HeaderSize == IF version = 0 THEN INDEX_SIZE + LEN_SIZE ELSE LEN_SIZE

AtMessage == phase = "loop" /\ offset < Len(payload)

HeaderMissing == CanSafelyReadElements(Remaining, 0, HeaderSize)

BodySize == payload[offset + HeaderSize]

(* Only version 0 knows messages without data (ErrNoMessageData). *)
IsEmpty == version = 0 /\ BodySize = 0

BodyMissing == CanSafelyReadElements(Remaining, HeaderSize, BodySize)

BodyEnd == Add(HeaderSize, BodySize)

Body == SubSeq(payload, offset + HeaderSize + 1, offset + BodyEnd)

Decodes(body) == IF version = 0 THEN body \in RLPBodies ELSE body \in DOMAIN FeedMessage

Entry(body) ==
  IF version = 0 THEN [pos |-> payload[offset + INDEX_SIZE], body |-> body] ELSE FeedEntry(body)

(* Variants the runs must reject: an empty message is not passed over, or only *)
(* its position is.                                                            *)
SkipEmptyInPlace ==
  AtMessage /\ ~HeaderMissing /\ IsEmpty /\ UNCHANGED vars

SkipEmptyIndex ==
  /\ AtMessage /\ ~HeaderMissing /\ IsEmpty
  /\ offset' = offset + INDEX_SIZE
  /\ fields' = Append(fields, Entry(<<>>))
  /\ UNCHANGED <<phase, payload, writeVars, intact, version, signature, messages, position>>

SkipEmpty ==
  /\ AtMessage /\ ~HeaderMissing /\ IsEmpty
  /\ offset' = offset + HeaderSize
  /\ fields' = Append(fields, Entry(<<>>))
  /\ UNCHANGED <<phase, payload, writeVars, intact, version, signature, messages, position>>

HasBody == AtMessage /\ ~HeaderMissing /\ ~IsEmpty /\ ~BodyMissing

ParseMessage ==
  /\ HasBody /\ Decodes(Body)
  /\ offset' = offset + BodyEnd
  /\ fields' = Append(fields, Entry(Body))
  /\ messages' = Append(messages, Entry(Body))
  /\ UNCHANGED <<phase, payload, writeVars, intact, version, signature, position>>

RejectTruncated ==
  AtMessage /\ (HeaderMissing \/ (~HeaderMissing /\ ~IsEmpty /\ BodyMissing)) /\ Reject

RejectUndecodable == HasBody /\ ~Decodes(Body) /\ Reject

(* The end of the payload; parseEspressoTransaction wants a message in it. *)
ParsedAll ==
  /\ phase = "loop" /\ offset >= Len(payload)
  /\ \/ messages = <<>> /\ Reject
     \/ /\ messages # <<>> /\ phase' = "verify"
        /\ UNCHANGED <<payload, writeVars, intact, readVars>>

------------------------------------------------------------------------------
(* VerifySignature of version 0: one signature over all that follows it. *)
UserData == SubSeq(payload, LEN_SIZE + Len(signature) + 1, Len(payload))

V0Key ==
  IF signature = signed.quote /\ UserData = signed.content THEN signed.key ELSE Stranger

VerifyV0 ==
  /\ phase = "verify" /\ version = 0
  /\ \/ V0Key \notin ValidKeys /\ Reject
     \/ /\ V0Key \in ValidKeys /\ phase' = "iterate"
        /\ UNCHANGED <<payload, writeVars, intact, readVars>>

(* VerifySignature of version 1: messages that do not verify are left out. *)
VerifyV1 ==
  /\ phase = "verify" /\ version = 1
  /\ messages' = Filter(messages, {m \in Range(messages) : verifyV1Message(FeedMessage[m.body])})
  /\ phase' = "iterate"
  /\ UNCHANGED <<payload, writeVars, intact, version, offset, signature, fields, position>>

(* A variant the runs must reject: the iterator goes one too far. *)
NextMessageTooFar ==
  /\ phase = "iterate" /\ position <= Len(messages)
  /\ position' = position + 1
  /\ UNCHANGED <<phase, payload, writeVars, intact, version, offset, signature, messages, fields>>

NextMessage ==
  /\ phase = "iterate" /\ position < Len(messages)
  /\ position' = position + 1
  /\ UNCHANGED <<phase, payload, writeVars, intact, version, offset, signature, messages, fields>>

NoMoreMessages ==
  /\ phase = "iterate" /\ position >= Len(messages)
  /\ phase' = "end"
  /\ UNCHANGED <<payload, writeVars, intact, readVars>>

------------------------------------------------------------------------------
Write ==
  \/ AddMessage \/ StopBuilding \/ SignerFails
  \/ \E quote \in Quotes, key \in Keys : SignHotShotPayload(quote, key)
  \/ Arrive \/ ArriveAltered

Parse ==
  \/ RejectUnknown \/ ParseV1Header \/ ParseV0Signature
  \/ SkipEmpty \/ ParseMessage \/ RejectTruncated \/ RejectUndecodable
  \/ ParsedAll

Read == Parse \/ VerifyV0 \/ VerifyV1 \/ NextMessage \/ NoMoreMessages

Next == Write \/ Read

(* One goroutine does all this without waiting for anyone: it goes on. *)
Spec == Init /\ [][Next]_vars /\ WF_vars(Next)

------------------------------------------------------------------------------
(* Every slice the parser takes lies in the payload, whatever sizes the        *)
(* payload claims: a sum of uint64 numbers never wraps past the check.         *)
SlicesInRange ==
  /\ (phase = "parse" /\ IsV0 /\ ~SignatureMissing) => SignatureEnd \in LEN_SIZE..Len(payload)
  /\ HasBody => BodyEnd \in HeaderSize..Remaining

(* What has been read is cut into fields without gap or overlap: written       *)
(* again, text by text, they are the payload up to the read position.  So the  *)
(* hash of version 0 covers exactly the messages that are handed out.  (What   *)
(* MarshalBinary writes of a message of version 1 is its JSON text made anew,  *)
(* which need not be the one that was read.)                                   *)
FieldsTileInput ==
  phase \in {"loop", "verify", "iterate"} =>
    /\ SubSeq(payload, 1, offset) =
         IF version = 0 THEN encodeV0SignatureAndMessages(signature, fields)
                        ELSE encodeV1HeaderAndBroadcastMessages(fields)
    /\ phase # "loop" => offset = Len(payload)

Delivered == SubSeq(messages, 1, position)

WithData(ms) == Filter(ms, {m \in Range(ms) : m.body # <<>>})

(* The signatures of valid keys that are anywhere on the feed. *)
SequencerSignatures ==
  {s \in (UNION {{FeedMessage[t].signature, FeedMessage[t].signatureV2} :
                  t \in DOMAIN FeedMessage}) \ {NoSignature} : s.key \in ValidKeys}

(* What signature s says of message f.  The first version covers the whole     *)
(* message, the second one the text of its fields: neither stats nor where a   *)
(* field of variable length ends.  The versions write number and chain in      *)
(* different order, so a text of the one may be read as a text of the other    *)
(* with the two exchanged.                                                     *)
Vouches(s, f) ==
  \/ /\ s.chain = ChainID /\ s.over.seq = f.seq
     /\ IF s.v2 THEN CoveredByV2(s.over) = CoveredByV2(f)
                ELSE s.over.l1 = f.l1 /\ s.over.delayed = f.delayed
  \/ /\ s.chain = f.seq /\ s.over.seq = ChainID
     /\ IF s.v2 THEN CoveredByV2(s.over) = CoveredByV1(f)
                ELSE CoveredByV1(s.over) = CoveredByV2(f)

(* Whatever comes out of HotShot, the streamer is handed only messages that a  *)
(* valid key has signed: those of the batch poster in their order and at their *)
(* positions, or messages of the sequencer's feed, each of them at the number  *)
(* and for the chain it was signed for, as far as its hash goes.               *)
OnlySignedDelivered ==
  Delivered # <<>> =>
    IF version = 0
      THEN signed.key \in ValidKeys /\ IsPrefix(Delivered, WithData(built))
      ELSE \A i \in DOMAIN Delivered :
             LET f == FeedMessage[Delivered[i].body]
             IN  Delivered[i].pos = f.seq /\ \E s \in SequencerSignatures : Vouches(s, f)

(* A message all of whose signatures are in order. *)
Honest(m) ==
  LET f == FeedMessage[m.body]
      InOrder(s, v2) ==
        /\ s.key \in ValidKeys /\ s.v2 = v2 /\ s.chain = ChainID
        /\ s.over = [seq |-> f.seq, delayed |-> f.delayed, l1 |-> f.l1,
                     blockHash |-> f.blockHash, blockMetadata |-> f.blockMetadata]
  IN  /\ f.l1 # NoMessage
      /\ f.signature # NoSignature \/ f.signatureV2 # NoSignature
      /\ f.signature # NoSignature => InOrder(f.signature, FALSE)
      /\ f.signatureV2 # NoSignature => InOrder(f.signatureV2, TRUE)

HonestOf(ms) == Filter(ms, {m \in Range(ms) : Honest(m)})

(* What was written and comes out unaltered is handed out in full and in       *)
(* order: the batch poster's messages, empty ones apart, if each of them can   *)
(* be decoded, and the feed's honest messages, whatever bad ones lie between   *)
(* them.                                                                       *)
NothingLost ==
  (phase = "end" /\ intact) =>
    IF signed = Unsigned
      THEN HonestOf(Delivered) = HonestOf(built)
      ELSE (/\ signed.key \in ValidKeys /\ Len(signed.quote) = SignatureSize
            /\ \A m \in Range(built) : m.body \in RLPBodies \cup {<<>>})
             => Delivered = WithData(built)

(* The signed payload is at most the size field of the quote larger than       *)
(* maxSize, though BuildRawHotShotPayload fills it up before the quote is      *)
(* known; a quote may be as large as MAX_ATTESTATION_QUOTE_SIZE allows.        *)
SignedFits ==
  signed.content # <<>> =>
    LEN_SIZE + Len(signed.quote) + Len(signed.content) <= MaxSize + LEN_SIZE

(* The loops of the parser and of the iterator come to an end. *)
Handled == <>(phase = "end")

------------------------------------------------------------------------------
(* Statements of the documentation the code does not keep. *)

(* "a utility function that checks if a read of length of a desired read fits  *)
(* within the remaining space" (CanSafelyReadElements, utils.go): when it says *)
(* so of the next message's header, the header is there.                       *)
SafeReadFits ==
  (AtMessage /\ CanSafelyReadElements(Remaining, 0, HeaderSize)) => HeaderSize <= Remaining

(* "verifies the signature on a single BroadcastFeedMessage" (verifyV1Message, *)
(* utils.go): all of a feed message that is handed out was signed, for this    *)
(* chain.                                                                      *)
WholeMessageSigned ==
  version = 1 =>
    \A i \in DOMAIN Delivered :
      LET f == FeedMessage[Delivered[i].body]
      IN  \E s \in SequencerSignatures :
            /\ s.chain = ChainID /\ s.over.seq = f.seq
            /\ s.over.l1 = f.l1 /\ s.over.delayed = f.delayed

(* maxSize and the room kept for the quote (BuildRawHotShotPayload, utils.go): *)
(* the payload keeps to maxSize once it is signed.                             *)
SignedWithinMaxSize ==
  signed.content # <<>> => LEN_SIZE + Len(signed.quote) + Len(signed.content) <= MaxSize
==============================================================================
