------------------------ MODULE BatchBufferSpec_proofs ------------------------
(* Theorems about the buffer as an object, for any batches, any capacity and   *)
(* any order of its operations.                                                *)
EXTENDS BatchBufferSpec, BatchBuffer_proofs

(* The order of insertion among equal numbers is what makes the order of the   *)
(* numbers inductive: together they are the invariant.                         *)
IInv == TypeOK /\ EarliestFirst

LEMMA Sorted == ASSUME IInv PROVE SortedByNumber(batches)
<1>1. Len(batches) \in Nat /\ \A i \in 1..Len(batches) : batches[i].number \in Nat
  BY LenProperties, ElementOfSeq, BatchAssumption DEF IInv, TypeOK
<1> QED BY <1>1 DEF IInv, EarliestFirst, SortedByNumber

(* The rank of an element before and after the insertion at p. *)
LEMMA InsertKeepsOrder ==
  ASSUME IInv, NEW b \in Batch, NEW p \in InsertPoints(batches, b),
         batches' = InsertAt(batches, p, b), arrival' = InsertAt(arrival, p, inserts + 1)
  PROVE  EarliestFirst'
<1> DEFINE n == Len(batches)
           X == 1..(inserts + 1)
<1>1. /\ n \in Nat /\ inserts \in Nat /\ batches \in Seq(Batch) /\ arrival \in Seq(1..inserts)
      /\ Len(arrival) = n
  BY LenProperties, MaxInsertsAssumption DEF IInv, TypeOK
<1>2. /\ p \in 0..n /\ \A i \in 1..p : batches[i].number <= b.number
      /\ \A i \in (p + 1)..n : batches[i].number > b.number
  BY DEF InsertPoints
<1>3. arrival \in Seq(X) /\ inserts + 1 \in X
  BY <1>1, SeqMonotonic
<1>4. Spliced(batches', Batch, batches, p, b) /\ Spliced(arrival', X, arrival, p, inserts + 1)
  BY <1>1, <1>2, <1>3, Splice
<1>5. \A i \in 1..n : arrival[i] \in 1..inserts /\ batches[i].number \in Nat
  BY <1>1, ElementOfSeq, BatchAssumption
<1>6. b.number \in Nat
  BY BatchAssumption
<1>7. \A i, j \in 1..n : i < j =>
        \/ batches[i].number < batches[j].number
        \/ batches[i].number = batches[j].number /\ arrival[i] < arrival[j]
  BY DEF IInv, EarliestFirst
<1>8. /\ Len(batches') = n + 1
      /\ \A i \in 1..(n + 1) :
           /\ batches'[i] = IF i <= p THEN batches[i] ELSE IF i = p + 1 THEN b ELSE batches[i - 1]
           /\ arrival'[i] = IF i <= p THEN arrival[i]
                            ELSE IF i = p + 1 THEN inserts + 1 ELSE arrival[i - 1]
  BY <1>1, <1>4 DEF Spliced
<1> HIDE DEF n, X
<1>9. ASSUME NEW i \in 1..(n + 1), NEW j \in 1..(n + 1), i < j
      PROVE  \/ batches'[i].number < batches'[j].number
             \/ batches'[i].number = batches'[j].number /\ arrival'[i] < arrival'[j]
  <2>0. i \in Nat /\ j \in Nat /\ p \in Nat /\ n \in Nat /\ inserts \in Nat /\ p <= n
        /\ i < j /\ i <= n + 1 /\ j <= n + 1
    BY <1>1, <1>2, <1>9
  <2>1. CASE j <= p
    <3>1. i \in 1..n /\ j \in 1..n /\ i <= p /\ i \in 1..(n + 1) /\ j \in 1..(n + 1)
      BY <2>0, <2>1
    <3>2. /\ batches'[i] = batches[i] /\ batches'[j] = batches[j]
          /\ arrival'[i] = arrival[i] /\ arrival'[j] = arrival[j]
      BY <1>8, <2>1, <3>1
    <3> QED BY <1>7, <1>9, <3>1, <3>2
  <2>2. CASE j = p + 1
    <3>1. i \in 1..n /\ i \in 1..p /\ i <= p /\ ~(j <= p)
      BY <2>0, <2>2
    <3>2. /\ batches'[i] = batches[i] /\ batches'[j] = b
          /\ arrival'[i] = arrival[i] /\ arrival'[j] = inserts + 1
      BY <1>8, <2>2, <3>1
    <3>3. batches[i].number <= b.number /\ arrival[i] < inserts + 1
          /\ batches[i].number \in Nat
      <4>1. batches[i].number <= b.number /\ arrival[i] \in 1..inserts
            /\ batches[i].number \in Nat
        BY <1>2, <1>5, <3>1, Zenon
      <4>2. arrival[i] < inserts + 1
        BY <2>0, <4>1
      <4> QED BY <4>1, <4>2
    <3>4. batches[i].number < b.number \/ batches[i].number = b.number
      BY <1>6, <3>3
    <3> QED BY <3>2, <3>3, <3>4, Zenon
  <2>3. CASE j > p + 1
    <3>1. j - 1 \in 1..n /\ j - 1 \in (p + 1)..n /\ ~(j <= p) /\ j # p + 1
      BY <2>0, <2>3
    <3>2. batches'[j] = batches[j - 1] /\ arrival'[j] = arrival[j - 1]
      BY <1>8, <3>1
    <3>3. CASE i <= p
      <4>1. i \in 1..n /\ i < j - 1 /\ batches'[i] = batches[i] /\ arrival'[i] = arrival[i]
        BY <1>1, <1>2, <1>8, <2>3, <3>3
      <4> QED BY <1>7, <3>1, <3>2, <4>1
    <3>4. CASE i = p + 1
      <4>1. batches'[i] = b /\ b.number < batches[j - 1].number
        BY <1>1, <1>2, <1>5, <1>6, <1>8, <3>1, <3>4
      <4> QED BY <3>2, <4>1
    <3>5. CASE i > p + 1
      <4>1. i - 1 \in 1..n /\ i - 1 < j - 1 /\ ~(i <= p) /\ i # p + 1
        BY <2>0, <3>5
      <4>2. batches'[i] = batches[i - 1] /\ arrival'[i] = arrival[i - 1]
        BY <1>8, <1>9, <4>1, Zenon
      <4> QED BY <1>7, <3>1, <3>2, <4>1, <4>2
    <3> QED BY <2>0, <3>3, <3>4, <3>5
  <2> QED BY <2>0, <2>1, <2>2, <2>3
<1> QED BY <1>8, <1>9 DEF EarliestFirst

LEMMA InsertInv == ASSUME IInv, NEW b \in Batch, Insert(b) PROVE IInv'
<1> DEFINE pos == SearchPos(batches, b)
           X == 1..(inserts + 1)
<1>1. /\ ~AtCapacity(batches) /\ ~AlreadyExists(batches, b) /\ inserts < MaxInserts
      /\ batches' = InsertAt(batches, pos, b) /\ arrival' = InsertAt(arrival, pos, inserts + 1)
      /\ inserts' = inserts + 1
  BY DEF Insert
<1>2. /\ batches \in Seq(Batch) /\ Len(batches) \in Nat /\ arrival \in Seq(1..inserts)
      /\ Len(arrival) = Len(batches) /\ inserts \in 0..MaxInserts
  BY LenProperties DEF IInv, TypeOK
<1>3. InsertPoints(batches, b) = {pos}
  BY <1>1, <1>2, Sorted, SearchFinds
<1>4. pos \in InsertPoints(batches, b) /\ pos \in 0..Len(batches)
  BY <1>3 DEF InsertPoints
<1> HIDE DEF pos
<1>5. arrival \in Seq(X) /\ inserts + 1 \in X
  BY <1>2, SeqMonotonic, MaxInsertsAssumption
<1>6. /\ Spliced(batches', Batch, batches, pos, b)
      /\ Spliced(arrival', X, arrival, pos, inserts + 1)
  BY <1>1, <1>2, <1>4, <1>5, Splice
<1>7. TypeOK'
  <2>1. /\ batches' \in Seq(Batch) /\ Len(batches') = Len(batches) + 1
        /\ arrival' \in Seq(1..inserts') /\ Len(arrival') = Len(batches')
    BY <1>1, <1>2, <1>6 DEF Spliced
  <2>2. Len(batches') <= Capacity
    BY <1>1, <1>2, <2>1, CapacityAssumption DEF AtCapacity
  <2>3. inserts' \in 0..MaxInserts
    BY <1>1, <1>2, MaxInsertsAssumption
  <2> QED BY <2>1, <2>2, <2>3 DEF TypeOK
<1>8. EarliestFirst'
  BY <1>1, <1>4, InsertKeepsOrder
<1> QED BY <1>7, <1>8 DEF IInv

LEMMA PopInv == ASSUME IInv, Pop PROVE IInv'
<1> DEFINE n == Len(batches)
<1>1. /\ batches' = Tail(batches) /\ arrival' = Tail(arrival) /\ inserts' = inserts
      /\ batches # <<>>
  BY DEF Pop
<1>2. /\ batches \in Seq(Batch) /\ n \in Nat \ {0} /\ arrival \in Seq(1..inserts)
      /\ Len(arrival) = n /\ n <= Capacity /\ arrival # <<>>
  BY <1>1, LenProperties, EmptySeq DEF IInv, TypeOK
<1>3. /\ batches' \in Seq(Batch) /\ Len(batches') = n - 1
      /\ \A i \in 1..(n - 1) : batches'[i] = batches[i + 1]
  BY <1>1, <1>2, HeadTailProperties
<1>4. /\ arrival' \in Seq(1..inserts) /\ Len(arrival') = n - 1
      /\ \A i \in 1..(n - 1) : arrival'[i] = arrival[i + 1]
  BY <1>1, <1>2, HeadTailProperties
<1>5. TypeOK'
  BY <1>1, <1>2, <1>3, <1>4, CapacityAssumption DEF IInv, TypeOK
<1>6. EarliestFirst'
  <2> SUFFICES ASSUME NEW i \in 1..(n - 1), NEW j \in 1..(n - 1), i < j
               PROVE  \/ batches'[i].number < batches'[j].number
                      \/ batches'[i].number = batches'[j].number /\ arrival'[i] < arrival'[j]
    BY <1>3 DEF EarliestFirst
  <2>1. i + 1 \in 1..n /\ j + 1 \in 1..n /\ i + 1 < j + 1
    BY <1>2
  <2>2. \/ batches[i + 1].number < batches[j + 1].number
        \/ batches[i + 1].number = batches[j + 1].number /\ arrival[i + 1] < arrival[j + 1]
    BY <2>1 DEF IInv, EarliestFirst
  <2>3. /\ batches'[i] = batches[i + 1] /\ batches'[j] = batches[j + 1]
        /\ arrival'[i] = arrival[i + 1] /\ arrival'[j] = arrival[j + 1]
    BY <1>3, <1>4
  <2> QED BY <2>2, <2>3
<1> QED BY <1>5, <1>6 DEF IInv

LEMMA ClearInv ==
  ASSUME batches' = <<>>, arrival' = <<>>, inserts' \in 0..MaxInserts PROVE IInv'
BY CapacityAssumption DEF IInv, TypeOK, EarliestFirst

LEMMA InvCorrect == Spec => []IInv
<1>1. Init => IInv
  <2> SUFFICES ASSUME Init PROVE IInv
    OBVIOUS
  <2>1. batches = <<>> /\ arrival = <<>> /\ inserts \in 0..MaxInserts
    BY MaxInsertsAssumption DEF Init
  <2> QED BY <2>1, CapacityAssumption DEF IInv, TypeOK, EarliestFirst
<1>2. IInv /\ [Next]_vars => IInv'
  <2> SUFFICES ASSUME IInv, [Next]_vars PROVE IInv'
    OBVIOUS
  <2>1. CASE Clear
    BY <2>1, ClearInv DEF Clear, IInv, TypeOK
  <2>2. CASE UNCHANGED vars
    BY <2>2 DEF vars, IInv, TypeOK, EarliestFirst
  <2> QED BY <2>1, <2>2, InsertInv, PopInv DEF Next
<1> QED BY <1>1, <1>2, PTL DEF Spec

------------------------------------------------------------------------------
(* The buffer never holds more than its capacity, nor anything but batches. *)
THEOREM BufferTypeCorrect == Spec => []TypeOK
<1>1. IInv => TypeOK
  BY DEF IInv
<1> QED BY <1>1, InvCorrect, PTL

(* Whatever is inserted, popped and cleared, in any order: Peek returns the    *)
(* earliest inserted batch of the smallest number.                             *)
THEOREM EarliestFirstCorrect == Spec => []EarliestFirst
<1>1. IInv => EarliestFirst
  BY DEF IInv
<1> QED BY <1>1, InvCorrect, PTL

(* The binary search of Insert is right for its purpose, though its comparison *)
(* is no order: in every buffer Insert can build, and for every batch, it ends *)
(* on the batch or at the one place that keeps the buffer in order.            *)
THEOREM SearchCorrect == Spec => []SearchAgrees
<1>1. IInv => SearchAgrees
  <2> SUFFICES ASSUME IInv, NEW t \in Batch, ~AlreadyExists(batches, t)
               PROVE  InsertPoints(batches, t) = {SearchPos(batches, t)}
    BY DEF SearchAgrees
  <2>1. batches \in Seq(Batch)
    BY DEF IInv, TypeOK
  <2> QED BY <2>1, Sorted, SearchFinds
<1> QED BY <1>1, InvCorrect, PTL

(* A batch is recognised as long as it is the newest of its number.  (That an  *)
(* older one is not is a disagreement with the test of duplicates.)            *)
THEOREM NewestCorrect == Spec => []NewestIsRecognised
<1>1. IInv => NewestIsRecognised
  <2>1. ASSUME IInv PROVE batches \in Seq(Batch) /\ SortedByNumber(batches)
    BY <2>1, Sorted DEF IInv, TypeOK
  <2> QED BY <2>1, NewestFound DEF NewestIsRecognised
<1> QED BY <1>1, InvCorrect, PTL
==============================================================================
