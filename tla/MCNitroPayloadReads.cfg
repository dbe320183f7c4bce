SPECIFICATION Spec
CONSTANTS
  MaxWord = 24
  SignatureSize = 2
  V1Header <- MCV1Header
  RLPBodies <- MCRLPBodies
  FeedMessage <- MCFeedMessage
  RLPOf <- MCRLPOf
  ChainID = 5
  ValidKeys = {"P"}
  MsgPositions <- MCMsgPositions
  MsgBytes <- MCMsgBytes
  MaxSize = 13
  MAX_ATTESTATION_QUOTE_SIZE = 4
  Quotes <- MCQuotes
  Keys = {"P", "U"}
  FeedLists <- MCFeedLists
  Payloads <- MCPayloads
  Garbage = {0, 1, 2, 3, 24}
  NoSignature = NoSignature
  NoMessage = NoMessage
  Stranger = Stranger
INVARIANT
  SafeReadFits
CHECK_DEADLOCK FALSE
