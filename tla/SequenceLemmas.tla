---------------------------- MODULE SequenceLemmas ----------------------------
(* Induction and recursion over the natural numbers in a form the provers can  *)
(* use, with sets and functions in place of operators, and what Filter does.   *)
EXTENDS Filtering, SequenceTheorems, WellFoundedInduction, TLAPS

(* Induction: a set that has 0 and every successor has every number.  (Else    *)
(* there would be a smallest number outside it.)                               *)
LEMMA SetInduction ==
  ASSUME NEW T, 0 \in T, \A n \in Nat : n \in T => n + 1 \in T
  PROVE  \A n \in Nat : n \in T
<1> SUFFICES ASSUME NEW n \in Nat, n \notin T PROVE FALSE
  OBVIOUS
<1> DEFINE outside == {k \in Nat : k \notin T}
           less == OpToRel(<, Nat)
<1>1. outside \subseteq Nat /\ outside # {}
  OBVIOUS
<1>2. IsWellFoundedOn(less, Nat)
  BY NatLessThanWellFounded
<1>3. \E x \in outside : \A y \in outside : ~ (<<y, x>> \in less)
  <2> HIDE DEF less, outside
  <2> QED BY <1>1, <1>2, WFMin
<1>4. PICK x \in outside : \A y \in outside : ~ (<<y, x>> \in less)
  BY <1>3
<1>5. \A y \in outside : ~(y < x)
  BY <1>4 DEF OpToRel
<1>6. x # 0 /\ x \in Nat /\ x - 1 \in Nat
  BY <1>1
<1>7. x - 1 \notin outside
  BY <1>5, <1>6
<1> QED BY <1>6, <1>7

(* The values of a loop that starts with a and whose round i makes step[i][v]  *)
(* of v.                                                                       *)
Rounds(f, S, a, n, step) ==
  f \in [0..n -> S] /\ f[0] = a /\ \A i \in 1..n : f[i] = step[i][f[i - 1]]

(* Recursion: every loop has its values. *)
LEMMA Iterates ==
  ASSUME NEW S, NEW a \in S, NEW n \in Nat, NEW step \in [1..n -> [S -> S]]
  PROVE  \E f : Rounds(f, S, a, n, step)
<1> DEFINE Good(f, k) == f[0] = a /\ \A i \in 1..n : i <= k => f[i] = step[i][f[i - 1]]
           T == {k \in Nat : \E f \in [0..n -> S] : Good(f, k)}
<1>1. 0 \in T
  <2> DEFINE f == [i \in 0..n |-> a]
  <2>1. f \in [0..n -> S] /\ Good(f, 0)
    OBVIOUS
  <2> QED BY <2>1
<1>2. ASSUME NEW k \in Nat, k \in T PROVE k + 1 \in T
  <2>1. PICK f \in [0..n -> S] : Good(f, k)
    BY <1>2
  <2>2. CASE k + 1 \notin 1..n
    <3>1. Good(f, k + 1)
      BY <2>1, <2>2
    <3> QED BY <3>1
  <2>3. CASE k + 1 \in 1..n
    <3> DEFINE g == [f EXCEPT ![k + 1] = step[k + 1][f[k]]]
    <3>1. k \in 0..n /\ f[k] \in S /\ step[k + 1] \in [S -> S]
      BY <2>3
    <3>2. g \in [0..n -> S] /\ g[k + 1] = step[k + 1][f[k]]
      BY <2>3, <3>1
    <3>3. \A i \in 0..n : i # k + 1 => g[i] = f[i]
      OBVIOUS
    <3> HIDE DEF g
    <3>4. Good(g, k + 1)
      <4>1. g[0] = a
        BY <2>1, <2>3, <3>3
      <4>2. ASSUME NEW i \in 1..n, i <= k + 1 PROVE g[i] = step[i][g[i - 1]]
        <5>1. i - 1 \in 0..n /\ i - 1 # k + 1 /\ g[i - 1] = f[i - 1]
          BY <3>3, <4>2
        <5>2. CASE i = k + 1
          BY <3>2, <5>1, <5>2
        <5>3. CASE i # k + 1
          <6>1. i <= k /\ g[i] = f[i]
            BY <3>3, <4>2, <5>3
          <6> QED BY <2>1, <5>1, <6>1
        <5> QED BY <5>2, <5>3
      <4> QED BY <4>1, <4>2
    <3> QED BY <3>2, <3>4
  <2> QED BY <2>2, <2>3
<1>3. n \in T
  <2> HIDE DEF T
  <2> QED BY <1>1, <1>2, SetInduction
<1>4. PICK f \in [0..n -> S] : Good(f, n)
  BY <1>3
<1> QED BY <1>4 DEF Rounds

(* Induction on sequences, from the front to the end. *)
LEMMA SeqInduction ==
  ASSUME NEW U, NEW T, <<>> \in T,
         \A s \in Seq(U), x \in U : s \in T => Append(s, x) \in T
  PROVE  \A s \in Seq(U) : s \in T
<1> DEFINE N == {n \in Nat : \A s \in Seq(U) : Len(s) = n => s \in T}
<1>1. 0 \in N
  BY EmptySeq
<1>2. ASSUME NEW n \in Nat, n \in N PROVE n + 1 \in N
  <2> SUFFICES ASSUME NEW s \in Seq(U), Len(s) = n + 1 PROVE s \in T
    OBVIOUS
  <2>1. PICK r \in Seq(U), x \in U : s = Append(r, x)
    BY SequenceEmptyOrAppend, EmptySeq
  <2>2. Len(r) = n
    BY <2>1
  <2> QED BY <1>2, <2>1, <2>2
<1> HIDE DEF N
<1>3. \A n \in Nat : n \in N
  BY <1>1, <1>2, SetInduction
<1> QED BY <1>3 DEF N

(* A slice of a sequence: its length and its elements. *)
IsSlice(r, S, s, m, n) ==
  /\ r \in Seq(S)
  /\ Len(r) = IF m <= n THEN n - m + 1 ELSE 0
  /\ \A i \in 1..(n - m + 1) : r[i] = s[m + i - 1]

LEMMA Slice ==
  ASSUME NEW S, NEW s, NEW m \in Int, NEW n \in Int, \A i \in m..n : s[i] \in S
  PROVE  IsSlice(SubSeq(s, m, n), S, s, m, n)
BY SubSeqProperties DEF IsSlice

(* Concatenation is associative, named so that a proof can cite one instance.  *)
Associates(r, s, t) == (r \o s) \o t = r \o (s \o t)

LEMMA Associate ==
  ASSUME NEW S, NEW r \in Seq(S), NEW s \in Seq(S), NEW t \in Seq(S)
  PROVE  Associates(r, s, t)
BY DEF Associates

------------------------------------------------------------------------------
(* The rounds of the loop of Filter. *)
FilterRun(kept, U, s, S) ==
  /\ kept \in [0..Len(s) -> Seq(U)]
  /\ kept[0] = <<>>
  /\ \A i \in 1..Len(s) :
       kept[i] = IF s[i] \in S THEN Append(kept[i - 1], s[i]) ELSE kept[i - 1]
  /\ Filter(s, S) = kept[Len(s)]

LEMMA FilterRounds ==
  ASSUME NEW U, NEW s \in Seq(U), NEW S
  PROVE  \E kept : FilterRun(kept, U, s, S)
<1> DEFINE n == Len(s)
           Round(g, i) == IF i = 0 THEN <<>>
                          ELSE IF s[i] \in S THEN Append(g[i - 1], s[i]) ELSE g[i - 1]
           step == [i \in 1..n |-> [v \in Seq(U) |-> IF s[i] \in S THEN Append(v, s[i]) ELSE v]]
<1>1. n \in Nat /\ \A i \in 1..n : s[i] \in U
  BY LenProperties, ElementOfSeq
<1>2. step \in [1..n -> [Seq(U) -> Seq(U)]]
  BY <1>1
<1>3. <<>> \in Seq(U)
  OBVIOUS
<1> DEFINE Z == Seq(U)
<1>4. PICK f \in [0..n -> Z] :
        f[0] = <<>> /\ \A i \in 1..n : f[i] = step[i][f[i - 1]]
  <2> DEFINE nil == <<>>
  <2>1. n \in Nat /\ step \in [1..n -> [Z -> Z]] /\ nil \in Z
    BY <1>1, <1>2, <1>3
  <2> HIDE DEF n, step, Z, nil
  <2>2. PICK f : Rounds(f, Z, nil, n, step)
    BY <2>1, Iterates
  <2> QED BY <2>2 DEF nil, Rounds
<1>5. ASSUME NEW i \in 1..n
      PROVE  f[i] = IF s[i] \in S THEN Append(f[i - 1], s[i]) ELSE f[i - 1]
  <2>1. i - 1 \in 0..n
    BY <1>1
  <2>2. f[i - 1] \in Seq(U)
    BY <2>1
  <2> QED BY <1>4, <2>2
<1>6. f = [i \in 0..n |-> Round(f, i)]
  <2>0. f[0] = <<>>
    BY <1>4
  <2>1. \A i \in 0..n : f[i] = Round(f, i)
    <3> SUFFICES ASSUME NEW i \in 0..n PROVE f[i] = Round(f, i)
      OBVIOUS
    <3>1. i = 0 \/ i \in 1..n
      BY <1>1
    <3> HIDE DEF Z, n
    <3> QED BY <1>5, <2>0, <3>1
  <2> HIDE DEF n, Round, Z
  <2> QED BY <2>1
<1> DEFINE kept == CHOOSE g : g = [i \in 0..n |-> Round(g, i)]
<1>7. kept = [i \in 0..n |-> Round(kept, i)]
  <2> HIDE DEF Round
  <2> QED BY <1>6
<1>8. Filter(s, S) = kept[n]
  BY DEF Filter
<1> HIDE DEF kept
<1>9. \A i \in 0..n : kept[i] = f[i]
  <2> DEFINE T == {i \in Nat : i \in 0..n => kept[i] = f[i]}
  <2>1. 0 \in T
    BY <1>1, <1>4, <1>7
  <2>2. ASSUME NEW i \in Nat, i \in T PROVE i + 1 \in T
    <3> SUFFICES ASSUME i + 1 \in 0..n PROVE kept[i + 1] = f[i + 1]
      OBVIOUS
    <3>1. i \in 0..n /\ i + 1 \in 1..n /\ i + 1 # 0 /\ (i + 1) - 1 = i
      BY <1>1
    <3>2. kept[i] = f[i]
      BY <2>2, <3>1
    <3>3. kept[i + 1] = Round(kept, i + 1)
      <4> HIDE DEF Round
      <4> QED BY <1>7, <3>1
    <3> QED BY <1>5, <3>1, <3>2, <3>3
  <2> HIDE DEF T
  <2>3. \A i \in Nat : i \in T
    BY <2>1, <2>2, SetInduction
  <2> QED BY <1>1, <2>3 DEF T
<1>10. Filter(s, S) = f[n]
  BY <1>1, <1>8, <1>9
<1> QED BY <1>4, <1>5, <1>10 DEF FilterRun

LEMMA FilterEmpty == ASSUME NEW S PROVE Filter(<<>>, S) = <<>>
<1>1. <<>> \in Seq({}) /\ Len(<<>>) = 0
  OBVIOUS
<1>2. PICK kept : FilterRun(kept, {}, <<>>, S)
  BY <1>1, FilterRounds, Zenon
<1> QED BY <1>1, <1>2 DEF FilterRun

(* One more element is kept, or it is not. *)
FilterStep(s, x, S) ==
  /\ x \in S => Filter(Append(s, x), S) = Append(Filter(s, S), x)
  /\ x \notin S => Filter(Append(s, x), S) = Filter(s, S)

LEMMA FilterAppend ==
  ASSUME NEW U, NEW s \in Seq(U), NEW x \in U, NEW S
  PROVE  FilterStep(s, x, S) /\ Filter(s, S) \in Seq(U)
<1> DEFINE n == Len(s)
           r == Append(s, x)
<1>1. /\ n \in Nat /\ r \in Seq(U) /\ Len(r) = n + 1
      /\ r[n + 1] = x /\ \A i \in 1..n : r[i] = s[i]
  BY AppendProperties, LenProperties
<1> HIDE DEF n, r
<1>2. PICK k : FilterRun(k, U, s, S)
  BY FilterRounds, Zenon
<1>3. PICK m : FilterRun(m, U, r, S)
  BY <1>1, FilterRounds, Zenon
<1>4. /\ k \in [0..n -> Seq(U)] /\ k[0] = <<>> /\ Filter(s, S) = k[n]
      /\ m[0] = <<>> /\ Filter(r, S) = m[n + 1]
  BY <1>1, <1>2, <1>3 DEF FilterRun, n
<1>5. \A i \in 1..n : k[i] = IF s[i] \in S THEN Append(k[i - 1], s[i]) ELSE k[i - 1]
  BY <1>2 DEF FilterRun, n
<1>6. \A i \in 1..(n + 1) : m[i] = IF r[i] \in S THEN Append(m[i - 1], r[i]) ELSE m[i - 1]
  BY <1>1, <1>3 DEF FilterRun
<1> DEFINE T == {i \in Nat : i <= n => m[i] = k[i]}
<1>7. 0 \in T
  BY <1>4
<1>8. ASSUME NEW i \in Nat, i \in T PROVE i + 1 \in T
  <2> SUFFICES ASSUME i + 1 <= n PROVE m[i + 1] = k[i + 1]
    OBVIOUS
  <2>1. i + 1 \in 1..n /\ i + 1 \in 1..(n + 1) /\ (i + 1) - 1 = i /\ m[i] = k[i]
    BY <1>1, <1>8
  <2>2. r[i + 1] = s[i + 1]
    BY <1>1, <2>1
  <2> QED BY <1>5, <1>6, <2>1, <2>2
<1> HIDE DEF T
<1>9. n \in T
  BY <1>1, <1>7, <1>8, SetInduction
<1>10. m[n] = k[n]
  BY <1>1, <1>9 DEF T
<1>11. m[n + 1] = IF x \in S THEN Append(m[n], x) ELSE m[n]
  <2>1. n + 1 \in 1..(n + 1) /\ (n + 1) - 1 = n
    BY <1>1
  <2> QED BY <1>1, <1>6, <2>1
<1>12. Filter(s, S) \in Seq(U)
  BY <1>1, <1>4
<1> QED BY <1>4, <1>10, <1>11, <1>12 DEF r, FilterStep

LEMMA FilterType ==
  ASSUME NEW U, NEW s \in Seq(U), NEW S
  PROVE  Filter(s, S) \in Seq(U) /\ Filter(s, S) \in Seq(U \cap S)
<1> DEFINE T == {r \in Seq(U) : Filter(r, S) \in Seq(U \cap S)}
<1>1. <<>> \in T
  <2>1. <<>> \in Seq(U) /\ <<>> \in Seq(U \cap S)
    OBVIOUS
  <2> QED BY <2>1, FilterEmpty, Zenon
<1>2. ASSUME NEW r \in Seq(U), NEW x \in U, r \in T PROVE Append(r, x) \in T
  <2>1. Append(r, x) \in Seq(U)
    OBVIOUS
  <2>2. Filter(r, S) \in Seq(U \cap S)
    BY <1>2
  <2>3. x \in S => Append(Filter(r, S), x) \in Seq(U \cap S)
    BY <2>2, AppendProperties
  <2>4. FilterStep(r, x, S)
    BY FilterAppend, Zenon
  <2> QED BY <2>1, <2>2, <2>3, <2>4 DEF FilterStep
<1> HIDE DEF T
<1>3. s \in T
  BY <1>1, <1>2, SeqInduction
<1>4. Filter(s, S) \in Seq(U \cap S)
  BY <1>3 DEF T
<1>5. U \cap S \subseteq U
  OBVIOUS
<1> QED BY <1>4, <1>5, SeqMonotonic, Zenon

(* Only what stands in the sequence matters of the set. *)
LEMMA FilterAgrees ==
  ASSUME NEW U, NEW s \in Seq(U), NEW A, NEW B,
         \A i \in 1..Len(s) : s[i] \in A <=> s[i] \in B
  PROVE  Filter(s, A) = Filter(s, B)
<1> DEFINE Agree(r) == \A i \in 1..Len(r) : r[i] \in A <=> r[i] \in B
           T == {r \in Seq(U) : Agree(r) => Filter(r, A) = Filter(r, B)}
<1>1. <<>> \in T
  BY FilterEmpty
<1>2. ASSUME NEW r \in Seq(U), NEW x \in U, r \in T PROVE Append(r, x) \in T
  <2> DEFINE q == Append(r, x)
  <2>1. /\ q \in Seq(U) /\ Len(r) \in Nat /\ Len(q) = Len(r) + 1
        /\ q[Len(r) + 1] = x /\ \A i \in 1..Len(r) : q[i] = r[i]
    BY AppendProperties, LenProperties
  <2>2. FilterStep(r, x, A) /\ FilterStep(r, x, B)
    BY FilterAppend, Zenon
  <2> HIDE DEF q
  <2>3. ASSUME Agree(q) PROVE Filter(q, A) = Filter(q, B)
    <3>1. x \in A <=> x \in B
      BY <2>1, <2>3
    <3>2. Agree(r)
      BY <2>1, <2>3
    <3>3. Filter(r, A) = Filter(r, B)
      BY <1>2, <3>2
    <3> QED BY <2>2, <3>1, <3>3 DEF FilterStep, q
  <2> QED BY <2>1, <2>3 DEF q
<1> HIDE DEF T
<1>3. s \in T
  BY <1>1, <1>2, SeqInduction
<1> QED BY <1>3 DEF T

(* To filter twice is to keep what passes both tests. *)
LEMMA FilterTwice ==
  ASSUME NEW U, NEW s \in Seq(U), NEW A, NEW B
  PROVE  Filter(Filter(s, A), B) = Filter(s, A \cap B)
<1> DEFINE T == {r \in Seq(U) : Filter(Filter(r, A), B) = Filter(r, A \cap B)}
<1>1. <<>> \in T
  BY FilterEmpty
<1>2. ASSUME NEW r \in Seq(U), NEW x \in U, r \in T PROVE Append(r, x) \in T
  <2>1. Append(r, x) \in Seq(U) /\ Filter(r, A) \in Seq(U)
    BY FilterType, AppendProperties, Zenon
  <2>2. FilterStep(r, x, A) /\ FilterStep(r, x, A \cap B) /\ FilterStep(Filter(r, A), x, B)
    BY <2>1, FilterAppend, Zenon
  <2>5. Filter(Filter(r, A), B) = Filter(r, A \cap B)
    BY <1>2
  <2>6. Filter(Filter(Append(r, x), A), B) = Filter(Append(r, x), A \cap B)
    BY <2>2, <2>5, Zenon DEF FilterStep
  <2> QED BY <2>1, <2>6
<1> HIDE DEF T
<1>3. s \in T
  BY <1>1, <1>2, SeqInduction
<1> QED BY <1>3 DEF T

(* What every element passes leaves the sequence as it is. *)
LEMMA FilterAll ==
  ASSUME NEW U, NEW s \in Seq(U), NEW S, U \subseteq S
  PROVE  Filter(s, S) = s
<1> DEFINE T == {r \in Seq(U) : Filter(r, S) = r}
<1>1. <<>> \in T
  BY FilterEmpty
<1>2. ASSUME NEW r \in Seq(U), NEW x \in U, r \in T PROVE Append(r, x) \in T
  <2>1. Append(r, x) \in Seq(U)
    OBVIOUS
  <2>2. FilterStep(r, x, S)
    BY FilterAppend, Zenon
  <2> QED BY <1>2, <2>1, <2>2 DEF FilterStep
<1> HIDE DEF T
<1>3. s \in T
  BY <1>1, <1>2, SeqInduction
<1> QED BY <1>3 DEF T

(* An element in front. *)
LEMMA FilterCons ==
  ASSUME NEW U, NEW s \in Seq(U), NEW x \in U, NEW S
  PROVE  Filter(<<x>> \o s, S) = IF x \in S THEN <<x>> \o Filter(s, S) ELSE Filter(s, S)
<1> DEFINE front == IF x \in S THEN <<x>> ELSE <<>>
           T == {r \in Seq(U) : Filter(<<x>> \o r, S) = front \o Filter(r, S)}
<1>0. <<x>> \in Seq(U) /\ <<>> \in Seq(U) /\ front \in Seq(U)
  OBVIOUS
<1>1. <<>> \in T
  <2>1. <<x>> \o <<>> = Append(<<>>, x) /\ Append(<<>>, x) = <<x>> /\ front \o <<>> = front
    OBVIOUS
  <2>2. FilterStep(<<>>, x, S)
    BY <1>0, FilterAppend, Zenon
  <2>3. Filter(<<>>, S) = <<>>
    BY FilterEmpty
  <2>4. Filter(<<x>> \o <<>>, S) = front
    BY <2>1, <2>2, <2>3 DEF FilterStep
  <2> QED BY <1>0, <2>1, <2>3, <2>4
<1>2. ASSUME NEW r \in Seq(U), NEW y \in U, r \in T PROVE Append(r, y) \in T
  <2>1. /\ <<x>> \o Append(r, y) = Append(<<x>> \o r, y) /\ <<x>> \o r \in Seq(U)
        /\ Append(r, y) \in Seq(U)
    BY <1>0
  <2>2. FilterStep(r, y, S) /\ FilterStep(<<x>> \o r, y, S) /\ Filter(r, S) \in Seq(U)
    BY <2>1, FilterAppend, Zenon
  <2>4. Filter(<<x>> \o r, S) = front \o Filter(r, S)
    BY <1>2
  <2> HIDE DEF front
  <2>5. front \o Append(Filter(r, S), y) = Append(front \o Filter(r, S), y)
    BY <1>0, <2>2
  <2>6. Filter(<<x>> \o Append(r, y), S) = front \o Filter(Append(r, y), S)
    BY <2>1, <2>2, <2>4, <2>5, Zenon DEF FilterStep
  <2> QED BY <2>1, <2>6
<1> HIDE DEF T
<1>3. s \in T
  BY <1>1, <1>2, SeqInduction
<1>4. Filter(s, S) \in Seq(U)
  BY FilterType, Zenon
<1>5. Filter(<<x>> \o s, S) = front \o Filter(s, S)
  BY <1>3 DEF T
<1>6. <<>> \o Filter(s, S) = Filter(s, S)
  BY <1>4
<1> QED BY <1>5, <1>6
==============================================================================
