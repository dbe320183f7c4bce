------------------------- MODULE MCBufferedStreamer -------------------------
(* Small instances of the buffered streamer: seven batches, and a safe head    *)
(* that wanders over the first ones.                                           *)
EXTENDS BufferedStreamer
==============================================================================
