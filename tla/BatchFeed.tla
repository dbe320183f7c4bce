------------------------------ MODULE BatchFeed ------------------------------
(* What the EspressoStreamer interface (op/interface.go) lets its caller count *)
(* on, whoever implements it: batches come out in the order of their numbers,  *)
(* one by one, from the first one behind the safe head on; a rewind leads back *)
(* to that one and nowhere else.                                               *)
EXTENDS Integers

CONSTANTS
  OriginBatchPos,   \* the batch the streamer was created behind
  SafeBatches,      \* safe L2 block numbers the caller may report
  SelfRewinds       \* does the streamer rewind without being asked to?

VARIABLES
  safe,   \* the safe batch number of the last Refresh
  next    \* the number of the batch the next successful Next returns

Init == safe = OriginBatchPos /\ next = OriginBatchPos + 1

(* Next returns a batch. *)
Deliver == next' = next + 1 /\ UNCHANGED safe

(* Reset *)
Rewind == next' = safe + 1 /\ UNCHANGED safe

(* RefreshSafeL1Origin: only a streamer that rewinds by itself does anything. *)
RefreshSafeL1Origin == SelfRewinds /\ Rewind

(* Where Refresh(s) can leave a streamer that was about to return n: it goes   *)
(* back with a safe head that moves backwards, and skips what is safe already. *)
Refreshed(s, n) ==
  {IF s >= safe /\ n > s THEN n ELSE s + 1} \cup (IF SelfRewinds THEN {s + 1} ELSE {})

Refresh(s) == safe' = s /\ next' \in Refreshed(s, next)

Next ==
  \/ Deliver \/ Rewind \/ RefreshSafeL1Origin
  \/ \E s \in SafeBatches : Refresh(s)

Spec == Init /\ [][Next]_<<safe, next>>
==============================================================================
