--------------------------- MODULE BatchBufferSpec ---------------------------
(* The buffer as an object: its operations in any order, on any batch.         *)
EXTENDS BatchBuffer

CONSTANT MaxInserts   \* bound on the number of successful Inserts of a run

ASSUME MaxInsertsAssumption == MaxInserts \in Nat

VARIABLES
  batches,   \* BatchBuffer.batches
  arrival,   \* history: arrival[i] is the rank in which batches[i] came in
  inserts    \* history: number of batches inserted so far

vars == <<batches, arrival, inserts>>

TypeOK ==
  /\ batches \in Seq(Batch)
  /\ Len(batches) <= Capacity
  /\ inserts \in 0..MaxInserts
  /\ arrival \in Seq(1..inserts)
  /\ Len(arrival) = Len(batches)

Init == batches = <<>> /\ arrival = <<>> /\ inserts = 0

------------------------------------------------------------------------------
(* A variant the runs must reject: the batch goes in front of its number. *)
InsertInFront(b) ==
  /\ ~AtCapacity(batches) /\ ~AlreadyExists(batches, b) /\ inserts < MaxInserts
  /\ \E p \in 0..Len(batches) :
        /\ \A i \in 1..p : batches[i].number < b.number
        /\ \A i \in (p + 1)..Len(batches) : batches[i].number >= b.number
        /\ batches' = InsertAt(batches, p, b)
        /\ arrival' = InsertAt(arrival, p, inserts + 1)
  /\ inserts' = inserts + 1

(* Insert: ErrAtCapacity and ErrDuplicateBatch leave the buffer alone. *)
Insert(b) ==
  /\ ~AtCapacity(batches)
  /\ ~AlreadyExists(batches, b)
  /\ inserts < MaxInserts
  /\ LET pos == SearchPos(batches, b)
     IN  /\ batches' = InsertAt(batches, pos, b)
         /\ arrival' = InsertAt(arrival, pos, inserts + 1)
  /\ inserts' = inserts + 1

Pop ==
  /\ batches # <<>>
  /\ batches' = Tail(batches)
  /\ arrival' = Tail(arrival)
  /\ UNCHANGED inserts

Clear == batches' = <<>> /\ arrival' = <<>> /\ UNCHANGED inserts

Next == (\E b \in Batch : Insert(b)) \/ Pop \/ Clear

Spec == Init /\ [][Next]_vars

------------------------------------------------------------------------------
(* Insert keeps the buffer sorted by number and, among the batches of one      *)
(* number, in the order they were inserted: Peek returns the one committed     *)
(* first (comment of Insert).                                                  *)
EarliestFirst ==
  \A i, j \in 1..Len(batches) : i < j =>
    \/ batches[i].number < batches[j].number
    \/ batches[i].number = batches[j].number /\ arrival[i] < arrival[j]

(* The binary search, whose comparison is no total order as soon as a number   *)
(* has several batches, still ends at the one position that keeps EarliestFirst *)
(* whenever it does not end on the batch itself.                               *)
SearchAgrees ==
  \A t \in Batch :
    AlreadyExists(batches, t) \/ InsertPoints(batches, t) = {SearchPos(batches, t)}

(* A buffered batch is recognised as a duplicate at least while no other batch *)
(* of its number has come in behind it.                                        *)
NewestIsRecognised ==
  \A i \in 1..Len(batches) :
    (\A j \in (i + 1)..Len(batches) : batches[j].number # batches[i].number)
      => AlreadyExists(batches, batches[i])

(* Inserting the exact same batch again does not create a duplicate            *)
(* (TestBatchBufferInsertDuplicateHandling).                                   *)
NoDuplicates ==
  \A i, j \in 1..Len(batches) : i # j => batches[i].hash # batches[j].hash
==============================================================================
