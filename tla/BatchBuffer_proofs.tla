-------------------------- MODULE BatchBuffer_proofs --------------------------
(* What insertion and removal do to a sorted buffer, for every set of batches. *)
EXTENDS BatchBuffer, SequenceLemmas

(* A spliced sequence: its length and its elements. *)
Spliced(r, S, buf, p, t) ==
  /\ r \in Seq(S)
  /\ Len(r) = Len(buf) + 1
  /\ \A i \in 1..(Len(buf) + 1) :
       r[i] = IF i <= p THEN buf[i] ELSE IF i = p + 1 THEN t ELSE buf[i - 1]

LEMMA Splice ==
  ASSUME NEW S, NEW buf \in Seq(S), NEW p \in 0..Len(buf), NEW t \in S
  PROVE  Spliced(InsertAt(buf, p, t), S, buf, p, t)
<1> DEFINE front == SubSeq(buf, 1, p)
           back  == SubSeq(buf, p + 1, Len(buf))
<1>0. Len(buf) \in Nat /\ \A i \in 1..Len(buf) : buf[i] \in S
  BY LenProperties, ElementOfSeq
<1>1. /\ front \in Seq(S) /\ Len(front) = p
      /\ \A i \in 1..p : front[i] = buf[i]
  BY <1>0, SubSeqProperties, SMT
<1>2. /\ back \in Seq(S) /\ Len(back) = Len(buf) - p
      /\ \A i \in 1..(Len(buf) - p) : back[i] = buf[p + i]
  <2>1. \A i \in (p + 1)..Len(buf) : buf[i] \in S
    BY <1>0
  <2>2. /\ back \in Seq(S)
        /\ Len(back) = IF p + 1 <= Len(buf) THEN Len(buf) - (p + 1) + 1 ELSE 0
        /\ \A i \in 1..(Len(buf) - (p + 1) + 1) : back[i] = buf[(p + 1) + i - 1]
    <3>1. p + 1 \in Int /\ Len(buf) \in Int
      BY <1>0
    <3>2. IsSlice(back, S, buf, p + 1, Len(buf))
      BY <2>1, <3>1, Slice, Zenon
    <3> QED BY <3>2 DEF IsSlice
  <2> QED BY <1>0, <2>2
<1>3. <<t>> \in Seq(S) /\ Len(<<t>>) = 1 /\ <<t>>[1] = t
  OBVIOUS
<1> HIDE DEF front, back
<1>4. /\ front \o <<t>> \in Seq(S)
      /\ Len(front \o <<t>>) = p + 1
      /\ \A i \in 1..(p + 1) : (front \o <<t>>)[i] = IF i <= p THEN buf[i] ELSE t
  <2>1. /\ front \o <<t>> \in Seq(S)
        /\ Len(front \o <<t>>) = Len(front) + Len(<<t>>)
        /\ \A i \in 1..(Len(front) + Len(<<t>>)) :
             (front \o <<t>>)[i] = IF i <= Len(front) THEN front[i] ELSE <<t>>[i - Len(front)]
    BY <1>1, <1>3, ConcatProperties, Zenon
  <2> QED BY <1>0, <1>1, <1>3, <2>1
<1>5. /\ (front \o <<t>>) \o back \in Seq(S)
      /\ Len((front \o <<t>>) \o back) = Len(front \o <<t>>) + Len(back)
      /\ \A i \in 1..(Len(front \o <<t>>) + Len(back)) :
           ((front \o <<t>>) \o back)[i] =
             IF i <= Len(front \o <<t>>) THEN (front \o <<t>>)[i]
             ELSE back[i - Len(front \o <<t>>)]
  BY <1>2, <1>4, ConcatProperties, Zenon
<1> DEFINE r == (front \o <<t>>) \o back
<1>6. InsertAt(buf, p, t) = r
  BY DEF InsertAt, front, back
<1>7. r \in Seq(S) /\ Len(r) = Len(buf) + 1
  BY <1>0, <1>2, <1>4, <1>5 DEF r
<1> HIDE DEF r
<1>8. ASSUME NEW i \in 1..(Len(buf) + 1)
      PROVE  r[i] = IF i <= p THEN buf[i] ELSE IF i = p + 1 THEN t ELSE buf[i - 1]
  <2>1. r[i] = IF i <= p + 1 THEN (front \o <<t>>)[i] ELSE back[i - (p + 1)]
    BY <1>0, <1>2, <1>4, <1>5 DEF r
  <2>2. CASE i <= p + 1
    BY <1>0, <1>4, <2>1, <2>2
  <2>3. CASE i > p + 1
    <3>1. i - (p + 1) \in 1..(Len(buf) - p) /\ p + (i - (p + 1)) = i - 1
      BY <1>0, <2>3
    <3>2. back[i - (p + 1)] = buf[i - 1]
      BY <1>2, <3>1
    <3> QED BY <1>0, <2>1, <2>3, <3>2
  <2>4. i \in Nat /\ p \in Nat
    BY <1>0
  <2> QED BY <2>2, <2>3, <2>4
<1> QED BY <1>6, <1>7, <1>8 DEF Spliced

LEMMA InsertAtElements ==
  ASSUME NEW buf \in Seq(Batch), NEW p \in 0..Len(buf), NEW t \in Batch
  PROVE  /\ InsertAt(buf, p, t) \in Seq(Batch)
         /\ Len(InsertAt(buf, p, t)) = Len(buf) + 1
         /\ \A i \in 1..(Len(buf) + 1) :
              InsertAt(buf, p, t)[i] =
                IF i <= p THEN buf[i] ELSE IF i = p + 1 THEN t ELSE buf[i - 1]
<1>1. Spliced(InsertAt(buf, p, t), Batch, buf, p, t)
  BY Splice
<1> QED BY <1>1 DEF Spliced

(* Insertion at a point InsertPoints allows keeps the buffer sorted. *)
LEMMA InsertAtSorted ==
  ASSUME NEW buf \in Seq(Batch), SortedByNumber(buf), NEW t \in Batch,
         NEW p \in InsertPoints(buf, t)
  PROVE  SortedByNumber(InsertAt(buf, p, t))
<1>0. /\ p \in 0..Len(buf) /\ Len(buf) \in Nat
      /\ \A i \in 1..p : buf[i].number <= t.number
      /\ \A i \in (p + 1)..Len(buf) : buf[i].number > t.number
  BY LenProperties DEF InsertPoints
<1>1. /\ Len(InsertAt(buf, p, t)) = Len(buf) + 1
      /\ \A i \in 1..(Len(buf) + 1) :
           InsertAt(buf, p, t)[i] =
             IF i <= p THEN buf[i] ELSE IF i = p + 1 THEN t ELSE buf[i - 1]
  BY <1>0, InsertAtElements
<1> DEFINE r == InsertAt(buf, p, t)
<1>2. /\ t.number \in Nat
      /\ \A i \in 1..Len(buf) : buf[i].number \in Nat
  BY ElementOfSeq, BatchAssumption
<1>3. \A i, j \in 1..Len(buf) : i < j => buf[i].number <= buf[j].number
  BY DEF SortedByNumber
<1>4. ASSUME NEW i \in 1..(Len(buf) + 1), NEW j \in 1..(Len(buf) + 1), i < j
      PROVE  r[i].number <= r[j].number
  <2>1. /\ r[i] = IF i <= p THEN buf[i] ELSE IF i = p + 1 THEN t ELSE buf[i - 1]
        /\ r[j] = IF j <= p THEN buf[j] ELSE IF j = p + 1 THEN t ELSE buf[j - 1]
    BY <1>1
  <2> HIDE DEF r
  <2>2. CASE j <= p
    <3>1. i \in 1..Len(buf) /\ j \in 1..Len(buf) /\ i <= p
      BY <1>0, <1>4, <2>2
    <3> QED BY <1>3, <1>4, <2>1, <2>2, <3>1
  <2>3. CASE j = p + 1
    <3>1. i \in 1..p
      BY <1>0, <1>4, <2>3
    <3>2. r[i] = buf[i] /\ r[j] = t
      BY <1>0, <2>1, <2>3, <3>1
    <3> QED BY <1>0, <3>1, <3>2
  <2>4. CASE j > p + 1
    <3>1. j - 1 \in (p + 1)..Len(buf) /\ j - 1 \in 1..Len(buf) /\ r[j] = buf[j - 1]
      BY <1>0, <1>4, <2>1, <2>4
    <3>2. CASE i <= p
      <4>1. i \in 1..Len(buf) /\ i < j - 1 /\ r[i] = buf[i]
        BY <1>0, <2>1, <2>4, <3>2
      <4> QED BY <1>3, <3>1, <4>1
    <3>3. CASE i = p + 1
      <4>1. r[i] = t /\ buf[j - 1].number > t.number
        BY <1>0, <2>1, <3>1, <3>3
      <4> QED BY <1>2, <3>1, <4>1
    <3>4. CASE i > p + 1
      <4>1. i - 1 \in 1..Len(buf) /\ i - 1 < j - 1 /\ r[i] = buf[i - 1]
        BY <1>0, <1>4, <2>1, <3>4
      <4> QED BY <1>3, <3>1, <4>1
    <3> QED BY <1>0, <3>2, <3>3, <3>4
  <2> QED BY <1>0, <2>2, <2>3, <2>4
<1> QED BY <1>0, <1>1, <1>4 DEF SortedByNumber

(* What is left of a sorted buffer after its first k batches went is sorted. *)
LEMMA SuffixSorted ==
  ASSUME NEW buf \in Seq(Batch), NEW k \in 0..Len(buf)
  PROVE  LET rest == SubSeq(buf, k + 1, Len(buf))
         IN  /\ rest \in Seq(Batch)
             /\ Len(rest) = Len(buf) - k
             /\ \A i \in 1..Len(rest) : rest[i] = buf[k + i]
             /\ SortedByNumber(buf) => SortedByNumber(rest)
<1> DEFINE rest == SubSeq(buf, k + 1, Len(buf))
<1>1. Len(buf) \in Nat /\ \A i \in (k + 1)..Len(buf) : buf[i] \in Batch
  BY LenProperties, ElementOfSeq
<1>2. /\ rest \in Seq(Batch)
      /\ Len(rest) = IF k + 1 <= Len(buf) THEN Len(buf) - (k + 1) + 1 ELSE 0
      /\ \A i \in 1..(Len(buf) - (k + 1) + 1) : rest[i] = buf[(k + 1) + i - 1]
  <2>1. k + 1 \in Int /\ Len(buf) \in Int
    BY <1>1
  <2>2. IsSlice(rest, Batch, buf, k + 1, Len(buf))
    BY <1>1, <2>1, Slice, Zenon
  <2> QED BY <2>2 DEF IsSlice
<1>3. Len(rest) = Len(buf) - k /\ \A i \in 1..Len(rest) : rest[i] = buf[k + i]
  BY <1>1, <1>2
<1>4. ASSUME SortedByNumber(buf), NEW i \in 1..Len(rest), NEW j \in 1..Len(rest), i < j
      PROVE  rest[i].number <= rest[j].number
  <2>1. k + i \in 1..Len(buf) /\ k + j \in 1..Len(buf) /\ k + i < k + j
    BY <1>1, <1>3, <1>4
  <2> QED BY <1>3, <1>4, <2>1 DEF SortedByNumber
<1> QED BY <1>2, <1>3, <1>4 DEF SortedByNumber

(* Popping is the case k = 1. *)
LEMMA TailSorted ==
  ASSUME NEW buf \in Seq(Batch), buf # <<>>
  PROVE  /\ Head(buf) \in Batch /\ Head(buf) = buf[1]
         /\ Tail(buf) \in Seq(Batch) /\ Len(Tail(buf)) = Len(buf) - 1
         /\ \A i \in 1..Len(Tail(buf)) : Tail(buf)[i] = buf[i + 1]
         /\ SortedByNumber(buf) => SortedByNumber(Tail(buf))
<1>1. /\ Head(buf) \in Batch /\ Tail(buf) \in Seq(Batch)
      /\ Len(Tail(buf)) = Len(buf) - 1
      /\ \A i \in 1..Len(Tail(buf)) : Tail(buf)[i] = buf[i + 1]
  BY HeadTailProperties
<1>2. Len(buf) \in Nat \ {0}
  BY EmptySeq
<1>3. ASSUME SortedByNumber(buf), NEW i \in 1..Len(Tail(buf)), NEW j \in 1..Len(Tail(buf)),
             i < j
      PROVE  Tail(buf)[i].number <= Tail(buf)[j].number
  <2>1. i + 1 \in 1..Len(buf) /\ j + 1 \in 1..Len(buf) /\ i + 1 < j + 1
    BY <1>1, <1>2, <1>3
  <2> QED BY <1>1, <1>3, <2>1 DEF SortedByNumber
<1>4. Head(buf) = buf[1]
  BY <1>2
<1> QED BY <1>1, <1>3, <1>4 DEF SortedByNumber

------------------------------------------------------------------------------
(* The binary search.  What its loop keeps true of the window it has narrowed  *)
(* the candidates to: the batch before it compares as smaller, the one behind  *)
(* it does not.                                                                *)
Window(buf) == [i : 0..Len(buf), j : 0..Len(buf)]

SearchInv(buf, t, w) ==
  /\ w \in Window(buf) /\ w.i <= w.j
  /\ w.i = 0 \/ Cmp(buf[w.i], t) < 0
  /\ w.j = Len(buf) \/ ~(Cmp(buf[w.j + 1], t) < 0)

SearchRun(w, buf, t) ==
  /\ w[0] = [i |-> 0, j |-> Len(buf)]
  /\ \A r \in 1..Len(buf) : w[r] = Narrow(buf, t, w[r - 1])
  /\ SearchPos(buf, t) = w[Len(buf)].i

(* A round keeps it, and drops a candidate if there are any. *)
LEMMA NarrowKeeps ==
  ASSUME NEW buf \in Seq(Batch), NEW t, NEW w, SearchInv(buf, t, w)
  PROVE  /\ SearchInv(buf, t, Narrow(buf, t, w))
         /\ w.i < w.j => Narrow(buf, t, w).j - Narrow(buf, t, w).i < w.j - w.i
         /\ w.i >= w.j => Narrow(buf, t, w) = w
<1> DEFINE n == Len(buf)
           h == (w.i + w.j) \div 2
           v == Narrow(buf, t, w)
<1>1. /\ n \in Nat /\ w.i \in 0..n /\ w.j \in 0..n /\ w.i <= w.j
      /\ w = [i |-> w.i, j |-> w.j]
  BY LenProperties DEF SearchInv, Window
<1>2. CASE w.i >= w.j
  <2>1. v = w
    BY <1>2 DEF Narrow
  <2> QED BY <1>1, <1>2, <2>1
<1>3. CASE w.i < w.j
  <2>1. h \in w.i..(w.j - 1)
    BY <1>1, <1>3
  <2> HIDE DEF h
  <2>2. CASE Cmp(buf[h + 1], t) < 0
    <3>1. v = [i |-> h + 1, j |-> w.j]
      BY <1>1, <1>3, <2>2 DEF Narrow, h
    <3>2. v.i = h + 1 /\ v.j = w.j /\ v \in Window(buf)
      BY <1>1, <2>1, <3>1 DEF Window
    <3>3. SearchInv(buf, t, v)
      BY <1>1, <2>1, <2>2, <3>2 DEF SearchInv
    <3> QED BY <1>1, <1>3, <2>1, <3>2, <3>3
  <2>3. CASE ~(Cmp(buf[h + 1], t) < 0)
    <3>1. v = [i |-> w.i, j |-> h]
      BY <1>1, <1>3, <2>3 DEF Narrow, h
    <3>2. v.i = w.i /\ v.j = h /\ v \in Window(buf)
      BY <1>1, <2>1, <3>1 DEF Window
    <3>3. SearchInv(buf, t, v)
      BY <1>1, <2>1, <2>3, <3>2 DEF SearchInv
    <3> QED BY <1>1, <1>3, <2>1, <3>2, <3>3
  <2> QED BY <2>2, <2>3
<1> QED BY <1>1, <1>2, <1>3

LEMMA SearchRuns ==
  ASSUME NEW buf \in Seq(Batch), NEW t
  PROVE  \E w : SearchRun(w, buf, t)
<1> DEFINE n == Len(buf)
           W == Window(buf)
           first == [i |-> 0, j |-> n]
           N(x) == Narrow(buf, t, x)
           step == [r \in 1..n |-> [x \in W |-> N(x)]]
           Round(g, r) == IF r = 0 THEN first ELSE N(g[r - 1])
<1>1. n \in Nat /\ first \in W
  BY LenProperties DEF Window
<1>2. ASSUME NEW x \in W PROVE N(x) \in W
  <2>1. x.i \in 0..n /\ x.j \in 0..n
    BY DEF Window
  <2>2. x.i < x.j => (x.i + x.j) \div 2 \in x.i..(x.j - 1)
    BY <1>1, <2>1
  <2> QED BY <1>1, <2>1, <2>2 DEF Narrow, Window
<1> HIDE DEF N, W, first, n
<1>3. step \in [1..n -> [W -> W]]
  BY <1>2
<1> HIDE DEF step
<1>4. PICK f : Rounds(f, W, first, n, step)
  BY <1>1, <1>3, Iterates
<1>5. f \in [0..n -> W] /\ f[0] = first /\ \A r \in 1..n : f[r] = step[r][f[r - 1]]
  BY <1>4 DEF Rounds
<1>6. ASSUME NEW r \in 1..n PROVE f[r] = N(f[r - 1])
  <2>1. r - 1 \in 0..n
    BY <1>1
  <2>2. f[r - 1] \in W
    BY <1>5, <2>1
  <2> QED BY <1>5, <2>2 DEF step
<1>7. f = [r \in 0..n |-> Round(f, r)]
  <2>1. \A r \in 0..n : f[r] = Round(f, r)
    BY <1>1, <1>5, <1>6
  <2> HIDE DEF Round
  <2> QED BY <1>5, <2>1
<1> DEFINE w == CHOOSE g : g = [r \in 0..n |-> Round(g, r)]
<1>8. w = [r \in 0..n |-> Round(w, r)]
  <2> HIDE DEF Round
  <2> QED BY <1>7
<1>9. SearchPos(buf, t) = w[n].i
  BY DEF SearchPos, N, n, first
<1> HIDE DEF w
<1>10. \A r \in 0..n : w[r] = Round(w, r)
  <2> HIDE DEF Round
  <2> QED BY <1>8
<1>11. SearchRun(w, buf, t)
  BY <1>1, <1>9, <1>10 DEF SearchRun, N, n, first
<1> QED BY <1>11

(* Where the search ends. *)
LEMMA SearchEnds ==
  ASSUME NEW buf \in Seq(Batch), NEW t
  PROVE  LET p == SearchPos(buf, t)
         IN  /\ p \in 0..Len(buf)
             /\ p = 0 \/ Cmp(buf[p], t) < 0
             /\ p = Len(buf) \/ ~(Cmp(buf[p + 1], t) < 0)
<1> DEFINE n == Len(buf)
<1>1. n \in Nat
  BY LenProperties
<1>2. PICK w : SearchRun(w, buf, t)
  BY SearchRuns
<1> DEFINE T == {r \in Nat : r <= n => /\ SearchInv(buf, t, w[r])
                                       /\ w[r].i < w[r].j => w[r].j - w[r].i <= n - r}
<1>3. 0 \in T
  BY <1>1, <1>2 DEF SearchRun, SearchInv, Window
<1>4. ASSUME NEW r \in Nat, r \in T PROVE r + 1 \in T
  <2> SUFFICES ASSUME r + 1 <= n
               PROVE  /\ SearchInv(buf, t, w[r + 1])
                      /\ w[r + 1].i < w[r + 1].j => w[r + 1].j - w[r + 1].i <= n - (r + 1)
    OBVIOUS
  <2> DEFINE a == w[r]
             b == w[r + 1]
  <2>1. SearchInv(buf, t, a) /\ (a.i < a.j => a.j - a.i <= n - r)
    BY <1>1, <1>4
  <2>2. b = Narrow(buf, t, a)
    <3>1. r + 1 \in 1..n /\ (r + 1) - 1 = r
      BY <1>1
    <3> QED BY <1>2, <3>1 DEF SearchRun
  <2> HIDE DEF a, b
  <2>3. /\ SearchInv(buf, t, b)
        /\ a.i < a.j => b.j - b.i < a.j - a.i
        /\ a.i >= a.j => b = a
    BY <2>1, <2>2, NarrowKeeps
  <2>4. a.i \in Int /\ a.j \in Int /\ b.i \in Int /\ b.j \in Int
    BY <1>1, <2>1, <2>3 DEF SearchInv, Window
  <2> HIDE DEF n
  <2>5. b.i < b.j => b.j - b.i <= n - (r + 1)
    BY <1>1, <2>1, <2>3, <2>4
  <2> QED BY <2>3, <2>5 DEF b
<1> HIDE DEF T
<1>5. n \in T
  BY <1>1, <1>3, <1>4, SetInduction
<1> DEFINE v == w[n]
<1>6. SearchInv(buf, t, v) /\ (v.i < v.j => v.j - v.i <= 0) /\ SearchPos(buf, t) = v.i
  BY <1>1, <1>2, <1>5 DEF T, SearchRun
<1> HIDE DEF v
<1>7. v.i \in 0..n /\ v.j \in 0..n /\ v.i <= v.j
  BY <1>6 DEF SearchInv, Window
<1>8. v.i = v.j
  BY <1>1, <1>6, <1>7
<1> QED BY <1>6, <1>7, <1>8 DEF SearchInv

(* In a sorted buffer, a search that does not end on the batch itself ends     *)
(* behind all batches whose number is not larger, and before all others.       *)
LEMMA SearchFinds ==
  ASSUME NEW buf \in Seq(Batch), SortedByNumber(buf), NEW t \in Batch,
         ~AlreadyExists(buf, t)
  PROVE  InsertPoints(buf, t) = {SearchPos(buf, t)}
<1> DEFINE n == Len(buf)
           p == SearchPos(buf, t)
<1>1. n \in Nat /\ p \in 0..n /\ (p = 0 \/ Cmp(buf[p], t) < 0)
      /\ (p = n \/ ~(Cmp(buf[p + 1], t) < 0))
  BY SearchEnds, LenProperties
<1>2. /\ t.number \in Nat /\ \A i \in 1..n : buf[i].number \in Nat
      /\ \A i, j \in 1..n : i < j => buf[i].number <= buf[j].number
  BY ElementOfSeq, BatchAssumption DEF SortedByNumber
<1>3. p # n => p + 1 \in 1..n /\ ~(Cmp(buf[p + 1], t) = 0)
  BY <1>1 DEF AlreadyExists
<1> HIDE DEF p, n
<1>4. p # n => buf[p + 1].number > t.number
  BY <1>1, <1>2, <1>3 DEF Cmp
<1>5. p # 0 => p \in 1..n /\ buf[p].number <= t.number
  BY <1>1, <1>2 DEF Cmp
<1>6. ASSUME NEW i \in 1..p PROVE buf[i].number <= t.number
  <2>1. i \in 1..n /\ p \in 1..n /\ (i = p \/ i < p)
    BY <1>1
  <2> QED BY <1>2, <1>5, <2>1
<1>7. ASSUME NEW i \in (p + 1)..n PROVE buf[i].number > t.number
  <2>1. i \in 1..n /\ p + 1 \in 1..n /\ (i = p + 1 \/ p + 1 < i)
    BY <1>1
  <2> QED BY <1>1, <1>2, <1>4, <2>1
<1>8. p \in InsertPoints(buf, t)
  BY <1>1, <1>6, <1>7 DEF InsertPoints, n
<1>9. ASSUME NEW q \in InsertPoints(buf, t) PROVE q = p
  <2>1. /\ q \in 0..n /\ \A i \in 1..q : buf[i].number <= t.number
        /\ \A i \in (q + 1)..n : buf[i].number > t.number
    BY DEF InsertPoints, n
  <2>2. ~(q < p)
    <3> SUFFICES ASSUME q < p PROVE FALSE
      OBVIOUS
    <3>1. p \in (q + 1)..n /\ p \in 1..p
      BY <1>1, <2>1
    <3> QED BY <1>2, <1>5, <1>6, <2>1, <3>1
  <2>3. ~(p < q)
    <3> SUFFICES ASSUME p < q PROVE FALSE
      OBVIOUS
    <3>1. q \in (p + 1)..n /\ q \in 1..q /\ q \in 1..n
      BY <1>1, <2>1
    <3> QED BY <1>2, <1>7, <2>1, <3>1
  <2> QED BY <1>1, <2>1, <2>2, <2>3
<1> QED BY <1>8, <1>9 DEF p

(* A batch behind which no other of its number lies is found. *)
LEMMA NewestFound ==
  ASSUME NEW buf \in Seq(Batch), SortedByNumber(buf), NEW k \in 1..Len(buf),
         \A j \in (k + 1)..Len(buf) : buf[j].number # buf[k].number
  PROVE  AlreadyExists(buf, buf[k])
<1> DEFINE n == Len(buf)
           t == buf[k]
           p == SearchPos(buf, t)
<1>1. n \in Nat /\ p \in 0..n /\ (p = 0 \/ Cmp(buf[p], t) < 0)
      /\ (p = n \/ ~(Cmp(buf[p + 1], t) < 0))
  BY SearchEnds, LenProperties
<1>2. /\ t.number \in Nat /\ \A i \in 1..n : buf[i].number \in Nat
      /\ \A i, j \in 1..n : i < j => buf[i].number <= buf[j].number
      /\ \A j \in (k + 1)..n : buf[j].number # t.number
  BY ElementOfSeq, BatchAssumption DEF SortedByNumber
<1>3. k \in 1..n /\ buf[k] = t
  OBVIOUS
<1> HIDE DEF p, n
<1>4. p < k
  <2> SUFFICES ASSUME p >= k PROVE FALSE
    BY <1>1, <1>3
  <2>1. p \in 1..n /\ Cmp(buf[p], t) < 0
    BY <1>1, <1>3
  <2>2. p # k
    BY <2>1 DEF Cmp
  <2>3. p \in (k + 1)..n /\ k < p
    BY <1>1, <1>3, <2>1, <2>2
  <2>4. buf[p].number > t.number
    BY <1>2, <1>3, <2>1, <2>3
  <2> HIDE DEF t
  <2> QED BY <1>2, <2>1, <2>4 DEF Cmp
<1>5. p + 1 \in 1..n /\ p + 1 <= k /\ p # n
  BY <1>1, <1>3, <1>4
<1>6. buf[p + 1].number <= t.number
  BY <1>2, <1>3, <1>5
<1>7. Cmp(buf[p + 1], t) = 0
  <2> HIDE DEF t
  <2> QED BY <1>1, <1>2, <1>5, <1>6 DEF Cmp
<1> QED BY <1>5, <1>7 DEF AlreadyExists, p, n
==============================================================================
