------------------------- MODULE NitroPayload_proofs -------------------------
(* Theorems about the payloads of Nitro, for every width of a word, every size *)
(* limit, every message and every payload that comes out of HotShot.           *)
EXTENDS NitroPayload, SequenceLemmas

------------------------------------------------------------------------------
(* FlattenSeq: what its loop has put together after each round. *)
Joins(f, W, c) ==
  /\ f \in [0..Len(c) -> Seq(W)]
  /\ f[0] = <<>>
  /\ \A i \in 1..Len(c) : f[i] = f[i - 1] \o c[i]
  /\ FlattenSeq(c) = f[Len(c)]

LEMMA FlattenRounds ==
  ASSUME NEW W, NEW c \in Seq(Seq(W))
  PROVE  \E f : Joins(f, W, c)
<1> DEFINE n == Len(c)
           Z == Seq(W)
           nil == <<>>
           Round(g, i) == IF i = 1 THEN c[i] ELSE g[i - 1] \o c[i]
           step == [i \in 1..n |-> [v \in Z |-> v \o c[i]]]
<1>1. n \in Nat /\ \A i \in 1..n : c[i] \in Z
  BY LenProperties, ElementOfSeq
<1>2. step \in [1..n -> [Z -> Z]]
  BY <1>1
<1>3. nil \in Z
  OBVIOUS
<1>4. PICK f : Rounds(f, Z, nil, n, step)
  <2> HIDE DEF n, step, Z, nil
  <2> QED BY <1>1, <1>2, <1>3, Iterates
<1>5. /\ f \in [0..n -> Z] /\ f[0] = <<>>
      /\ \A i \in 1..n : f[i] = step[i][f[i - 1]]
  BY <1>4 DEF Rounds
<1>6. ASSUME NEW i \in 1..n PROVE f[i] = f[i - 1] \o c[i]
  <2>1. i - 1 \in 0..n
    BY <1>1
  <2>2. f[i - 1] \in Z
    BY <1>5, <2>1
  <2> QED BY <1>5, <2>2
<1>7. CASE n = 0
  <2>1. c = <<>> /\ FlattenSeq(c) = c
    BY <1>7, EmptySeq DEF FlattenSeq
  <2> QED BY <1>5, <1>6, <1>7, <2>1 DEF Joins
<1>8. CASE n # 0
  <2> DEFINE h == [i \in 1..n |-> f[i]]
             g == CHOOSE w : w = [i \in 1..n |-> Round(w, i)]
  <2>1. ASSUME NEW i \in 1..n PROVE h[i] = Round(h, i)
    <3>1. CASE i = 1
      <4>a. f[i] = f[i - 1] \o c[i]
        BY <1>6
      <4>b. i - 1 = 0
        BY <3>1
      <4>c. c[i] \in Seq(W)
        BY <1>1
      <4>1. f[i] = f[0] \o c[i] /\ c[i] \in Seq(W)
        BY <4>a, <4>b, <4>c, Zenon
      <4>2. <<>> \o c[i] = c[i]
        BY <4>1
      <4> QED BY <1>5, <3>1, <4>1, <4>2
    <3>2. CASE i # 1
      <4>1. i - 1 \in 1..n
        BY <1>1, <3>2
      <4> QED BY <1>6, <3>2, <4>1
    <3> QED BY <3>1, <3>2
  <2>2. h = [i \in 1..n |-> Round(h, i)]
    <3> HIDE DEF n, Round
    <3> QED BY <2>1
  <2> HIDE DEF h
  <2>3. g = [i \in 1..n |-> Round(g, i)]
    <3> HIDE DEF Round
    <3> QED BY <2>2
  <2>4. FlattenSeq(c) = g[n]
    BY <1>8 DEF FlattenSeq
  <2> HIDE DEF g
  <2> DEFINE T == {i \in Nat : i \in 1..n => g[i] = f[i]}
  <2>5. 0 \in T
    OBVIOUS
  <2>6. ASSUME NEW i \in Nat, i \in T PROVE i + 1 \in T
    <3> SUFFICES ASSUME i + 1 \in 1..n PROVE g[i + 1] = f[i + 1]
      OBVIOUS
    <3>1. g[i + 1] = Round(g, i + 1) /\ f[i + 1] = h[i + 1] /\ h[i + 1] = Round(h, i + 1)
      <4>1. g[i + 1] = Round(g, i + 1)
        <5> HIDE DEF Round
        <5> QED BY <2>3
      <4>2. f[i + 1] = h[i + 1]
        BY DEF h
      <4> QED BY <2>1, <4>1, <4>2
    <3>2. CASE i = 0
      BY <3>1, <3>2
    <3>3. CASE i # 0
      <4>1. i \in 1..n /\ (i + 1) - 1 = i /\ i + 1 # 1
        BY <1>1, <3>3
      <4>2. g[i] = f[i] /\ f[i] = h[i]
        BY <2>6, <4>1 DEF h
      <4> QED BY <3>1, <4>1, <4>2
    <3> QED BY <3>2, <3>3
  <2> HIDE DEF T
  <2>7. \A i \in Nat : i \in T
    BY <2>5, <2>6, SetInduction
  <2>8. g[n] = f[n]
    BY <1>1, <1>8, <2>7 DEF T
  <2> QED BY <1>5, <1>6, <2>4, <2>8 DEF Joins
<1> QED BY <1>7, <1>8

LEMMA FlattenEmpty == FlattenSeq(<<>>) = <<>>
BY DEF FlattenSeq

(* One more sequence is put behind the others. *)
FlattenStep(c, x, W) ==
  FlattenSeq(c) \in Seq(W) /\ FlattenSeq(Append(c, x)) = FlattenSeq(c) \o x

LEMMA FlattenAppend ==
  ASSUME NEW W, NEW c \in Seq(Seq(W)), NEW x \in Seq(W)
  PROVE  FlattenStep(c, x, W)
<1> DEFINE n == Len(c)
           r == Append(c, x)
           Z == Seq(W)
<1>1. /\ n \in Nat /\ r \in Seq(Z) /\ Len(r) = n + 1
      /\ r[n + 1] = x /\ \A i \in 1..n : r[i] = c[i]
  <2>1. c \in Seq(Z) /\ x \in Z
    OBVIOUS
  <2> HIDE DEF Z
  <2> QED BY <2>1, AppendProperties, LenProperties
<1> HIDE DEF n, r
<1>2. PICK k : Joins(k, W, c)
  BY FlattenRounds, Zenon
<1>3. PICK m : Joins(m, W, r)
  BY <1>1, FlattenRounds, Zenon
<1>4. /\ k[0] = <<>> /\ FlattenSeq(c) = k[n] /\ m[0] = <<>> /\ FlattenSeq(r) = m[n + 1]
  BY <1>1, <1>2, <1>3 DEF Joins, n
<1>4a. k[n] \in Z
  <2>1. k \in [0..n -> Z]
    BY <1>2, Zenon DEF Joins, n
  <2>2. n \in 0..n
    BY <1>1
  <2> HIDE DEF Z
  <2> QED BY <2>1, <2>2
<1>5. \A i \in 1..n : k[i] = k[i - 1] \o c[i]
  BY <1>2 DEF Joins, n
<1>6. \A i \in 1..(n + 1) : m[i] = m[i - 1] \o r[i]
  BY <1>1, <1>3 DEF Joins
<1> DEFINE T == {i \in Nat : i <= n => m[i] = k[i]}
<1>7. 0 \in T
  BY <1>4
<1>8. ASSUME NEW i \in Nat, i \in T PROVE i + 1 \in T
  <2> SUFFICES ASSUME i + 1 <= n PROVE m[i + 1] = k[i + 1]
    OBVIOUS
  <2>1. i + 1 \in 1..n /\ i + 1 \in 1..(n + 1) /\ (i + 1) - 1 = i /\ i <= n
    BY <1>1
  <2>2. m[i] = k[i]
    BY <1>8, <2>1
  <2>3. r[i + 1] = c[i + 1]
    BY <1>1, <2>1
  <2> QED BY <1>5, <1>6, <2>1, <2>2, <2>3
<1> HIDE DEF T
<1>9. n \in T
  BY <1>1, <1>7, <1>8, SetInduction
<1>10. m[n] = k[n]
  BY <1>1, <1>9 DEF T
<1>11. m[n + 1] = m[n] \o x
  <2>1. n + 1 \in 1..(n + 1) /\ (n + 1) - 1 = n
    BY <1>1
  <2> QED BY <1>1, <1>6, <2>1
<1> QED BY <1>4, <1>4a, <1>10, <1>11 DEF r, FlattenStep

(* What precedes a sequence and what follows it. *)
Splits(c, k, W) ==
  \E rest \in Seq(W) :
    FlattenSeq(c) = (FlattenSeq(SubSeq(c, 1, k)) \o c[k + 1]) \o rest

LEMMA FlattenSplit ==
  ASSUME NEW W, NEW c \in Seq(Seq(W)), NEW k \in 0..(Len(c) - 1)
  PROVE  Splits(c, k, W)
<1> DEFINE Z == Seq(W)
           T == {s \in Seq(Z) : k < Len(s) => Splits(s, k, W)}
<1>1. <<>> \in T
  OBVIOUS
<1>2. ASSUME NEW s \in Seq(Z), NEW x \in Z, s \in T PROVE Append(s, x) \in T
  <2> DEFINE r == Append(s, x)
             p == SubSeq(r, 1, k)
  <2>1. /\ Len(s) \in Nat /\ k \in Nat /\ r \in Seq(Z) /\ Len(r) = Len(s) + 1
        /\ r[Len(s) + 1] = x /\ \A i \in 1..Len(s) : r[i] = s[i]
    BY AppendProperties, LenProperties
  <2>2. FlattenSeq(s) \in Seq(W) /\ FlattenSeq(r) = FlattenSeq(s) \o x
    BY FlattenAppend, Zenon DEF FlattenStep
  <2>3. ASSUME k < Len(r) PROVE Splits(r, k, W)
    <3>1. p = SubSeq(s, 1, k) /\ p \in Seq(Z)
      <4>1. \A i \in 1..k : r[i] \in Z /\ s[i] \in Z /\ r[i] = s[i]
        BY <2>1, <2>3, ElementOfSeq
      <4> HIDE DEF r, Z
      <4>2. IsSlice(p, Z, r, 1, k) /\ IsSlice(SubSeq(s, 1, k), Z, s, 1, k)
        <5>1. 1 \in Int /\ k \in Int /\ \A i \in 1..k : r[i] \in Z /\ s[i] \in Z
          BY <2>1, <4>1
        <5> QED BY <5>1, Slice, Zenon
      <4>3. /\ p \in Seq(Z) /\ SubSeq(s, 1, k) \in Seq(Z) /\ Len(p) = k
            /\ Len(SubSeq(s, 1, k)) = k
            /\ \A i \in 1..k : p[i] = r[i] /\ SubSeq(s, 1, k)[i] = s[i]
        BY <2>1, <4>2 DEF IsSlice
      <4> QED BY <4>1, <4>3, SeqEqual
    <3>2. CASE k = Len(s)
      <4>1. p = s /\ r[k + 1] = x
        BY <2>1, <3>1, <3>2, SubSeqFull
      <4>2. FlattenSeq(r) = (FlattenSeq(p) \o r[k + 1]) \o <<>>
        <5>1. FlattenSeq(s) \o x \in Seq(W)
          BY <2>2
        <5> HIDE DEF p, r
        <5> QED BY <2>2, <4>1, <5>1
      <4>3. <<>> \in Seq(W)
        OBVIOUS
      <4> QED BY <4>2, <4>3 DEF Splits
    <3>3. CASE k # Len(s)
      <4>1. Splits(s, k, W) /\ r[k + 1] = s[k + 1] /\ s[k + 1] \in Z
        BY <1>2, <2>1, <2>3, <3>3, ElementOfSeq
      <4>2. PICK rest \in Seq(W) :
              FlattenSeq(s) = (FlattenSeq(SubSeq(s, 1, k)) \o s[k + 1]) \o rest
        BY <4>1 DEF Splits
      <4>3. FlattenSeq(p) \in Seq(W)
        BY <3>1, FlattenAppend, Zenon DEF FlattenStep
      <4> DEFINE a == FlattenSeq(p)
                 b == s[k + 1]
      <4>4. a \in Seq(W) /\ b \in Seq(W) /\ x \in Seq(W)
        BY <4>1, <4>3
      <4>5. FlattenSeq(r) = ((a \o b) \o rest) \o x
        BY <2>2, <3>1, <4>2
      <4>6. FlattenSeq(r) = (a \o r[k + 1]) \o (rest \o x) /\ rest \o x \in Seq(W)
        <5> HIDE DEF a, b, r, p
        <5>1. a \o b \in Seq(W)
          BY <4>4
        <5>1a. ((a \o b) \o rest) \o x = (a \o b) \o (rest \o x)
          <6>1. Associates(a \o b, rest, x)
            BY <4>4, <5>1, Associate
          <6> QED BY <6>1 DEF Associates
        <5>2. r[k + 1] = b
          BY <4>1 DEF b
        <5> QED BY <4>4, <4>5, <5>1a, <5>2
      <4> QED BY <4>6 DEF Splits
    <3> QED BY <3>2, <3>3
  <2> QED BY <2>1, <2>3
<1> HIDE DEF T
<1>3. c \in T
  <2>1. c \in Seq(Z)
    OBVIOUS
  <2> HIDE DEF Z
  <2> QED BY <1>1, <1>2, <2>1, SeqInduction
<1>4. k < Len(c)
  BY LenProperties
<1> QED BY <1>3, <1>4 DEF T

------------------------------------------------------------------------------
(* The two encodings as one: a header of one or two cells, the last of which   *)
(* is the size of the body, and the body.                                      *)
Messages0 == {m \in [pos : Word, body : Seq(Word)] : Len(m.body) <= MaxWord}
Messages1 == {FeedEntry(text) : text \in DOMAIN FeedMessage}
Messages(v) == IF v = 0 THEN Messages0 ELSE Messages1

HeaderOf(m, v) == IF v = 0 THEN <<m.pos, Len(m.body)>> ELSE <<Len(m.body)>>
Code(m, v) == HeaderOf(m, v) \o m.body
Codes(ms, v) == [i \in DOMAIN ms |-> Code(ms[i], v)]
Encoded(ms, v) == FlattenSeq(Codes(ms, v))

LEMMA EncodedIs ==
  ASSUME NEW ms
  PROVE  /\ encodeV0MessageAndIndexes(ms) = Encoded(ms, 0)
         /\ encodeV1BroadcastFeedMessages(ms) = Encoded(ms, 1)
<1>1. \A m : encodeV0MessageAndIndex(m) = Code(m, 0)
  BY DEF encodeV0MessageAndIndex, Code, HeaderOf
<1>2. \A m : encodeEmbeddedJSON(m.body) = Code(m, 1)
  BY DEF encodeEmbeddedJSON, Code, HeaderOf
<1>3. [i \in DOMAIN ms |-> encodeV0MessageAndIndex(ms[i])] = Codes(ms, 0)
  BY <1>1 DEF Codes
<1>4. [i \in DOMAIN ms |-> encodeEmbeddedJSON(ms[i].body)] = Codes(ms, 1)
  BY <1>2 DEF Codes
<1> QED BY <1>3, <1>4 DEF Encoded, encodeV0MessageAndIndexes, encodeV1BroadcastFeedMessages

LEMMA FeedEntryFacts ==
  ASSUME NEW text
  PROVE  FeedEntry(text).body = text /\ FeedEntry(text).pos = FeedMessage[text].seq
BY DEF FeedEntry

LEMMA CodeFacts ==
  ASSUME NEW v \in {0, 1}, NEW m \in Messages(v)
  PROVE  /\ m.body \in Seq(Word) /\ Len(m.body) \in Word
         /\ HeaderOf(m, v) \in Seq(Word)
         /\ Len(HeaderOf(m, v)) = 2 - v /\ HeaderOf(m, v)[2 - v] = Len(m.body)
         /\ Code(m, v) \in Seq(Word)
<1>1. m.body \in Seq(Word) /\ Len(m.body) <= MaxWord
  <2>1. CASE v = 0
    BY <2>1 DEF Messages, Messages0
  <2>2. CASE v = 1
    <3>1. PICK text \in DOMAIN FeedMessage : m = FeedEntry(text)
      BY <2>2 DEF Messages, Messages1
    <3> QED BY <3>1, FeedEntryFacts, FormatAssumption
  <2> QED BY <2>1, <2>2
<1>2. Len(m.body) \in Word
  <2>1. Len(m.body) \in Nat
    BY <1>1
  <2> QED BY <1>1, <2>1, FormatAssumption DEF Word
<1>3. /\ HeaderOf(m, v) \in Seq(Word)
      /\ Len(HeaderOf(m, v)) = 2 - v /\ HeaderOf(m, v)[2 - v] = Len(m.body)
  <2>1. CASE v = 0
    <3>1. m.pos \in Word
      BY <2>1 DEF Messages, Messages0
    <3> QED BY <1>2, <2>1, <3>1 DEF HeaderOf
  <2>2. CASE v = 1
    BY <1>2, <2>2 DEF HeaderOf
  <2> QED BY <2>1, <2>2
<1> QED BY <1>1, <1>2, <1>3 DEF Code

LEMMA CodesType ==
  ASSUME NEW v \in {0, 1}, NEW ms \in Seq(Messages(v))
  PROVE  /\ Codes(ms, v) \in Seq(Seq(Word)) /\ Len(Codes(ms, v)) = Len(ms)
         /\ \A i \in 1..Len(ms) : Codes(ms, v)[i] = Code(ms[i], v)
<1>1. DOMAIN ms = 1..Len(ms) /\ Len(ms) \in Nat /\ \A i \in 1..Len(ms) : ms[i] \in Messages(v)
  BY LenProperties, ElementOfSeq
<1>2. \A i \in 1..Len(ms) : Code(ms[i], v) \in Seq(Word)
  BY <1>1, CodeFacts
<1> DEFINE c == [i \in 1..Len(ms) |-> Code(ms[i], v)]
           Z == Seq(Word)
<1>3. Codes(ms, v) = c
  BY <1>1 DEF Codes
<1>4. c \in [1..Len(ms) -> Z]
  BY <1>2
<1>5. c \in Seq(Z) /\ Len(c) = Len(ms)
  <2> HIDE DEF c, Z
  <2> QED BY <1>1, <1>4
<1> QED BY <1>3, <1>5

LEMMA EncodedEmpty == ASSUME NEW v PROVE Encoded(<<>>, v) = <<>>
<1>1. Codes(<<>>, v) = <<>>
  BY DEF Codes
<1> QED BY <1>1, FlattenEmpty DEF Encoded

LEMMA EncodedAppend ==
  ASSUME NEW v \in {0, 1}, NEW ms \in Seq(Messages(v)), NEW m \in Messages(v)
  PROVE  /\ Encoded(ms, v) \in Seq(Word)
         /\ Encoded(Append(ms, m), v) = Encoded(ms, v) \o Code(m, v)
<1> DEFINE c == Codes(ms, v)
           x == Code(m, v)
           r == Append(ms, m)
<1>1. /\ r \in Seq(Messages(v)) /\ Len(ms) \in Nat /\ Len(r) = Len(ms) + 1
      /\ r[Len(ms) + 1] = m /\ \A i \in 1..Len(ms) : r[i] = ms[i]
  BY AppendProperties, LenProperties
<1>2. /\ c \in Seq(Seq(Word)) /\ Len(c) = Len(ms) /\ x \in Seq(Word)
      /\ \A i \in 1..Len(ms) : c[i] = Code(ms[i], v)
  BY CodesType, CodeFacts
<1> HIDE DEF r
<1>3. /\ Codes(r, v) \in Seq(Seq(Word)) /\ Len(Codes(r, v)) = Len(r)
      /\ \A i \in 1..Len(r) : Codes(r, v)[i] = Code(r[i], v)
  BY <1>1, CodesType
<1>4. Codes(r, v) = Append(c, x)
  <2> DEFINE Z == Seq(Word)
             d == Codes(r, v)
  <2>1. /\ Append(c, x) \in Seq(Z) /\ Len(Append(c, x)) = Len(c) + 1
        /\ Append(c, x)[Len(c) + 1] = x
        /\ \A i \in 1..Len(c) : Append(c, x)[i] = c[i]
    <3>1. c \in Seq(Z) /\ x \in Z
      BY <1>2
    <3> HIDE DEF c, x, Z
    <3> QED BY <3>1, AppendProperties
  <2>2. d \in Seq(Z) /\ Len(d) = Len(Append(c, x))
    BY <1>1, <1>2, <1>3, <2>1
  <2>3. ASSUME NEW i \in 1..Len(d) PROVE d[i] = Append(c, x)[i]
    <3>0. d[i] = Code(r[i], v) /\ Len(d) = Len(ms) + 1
      BY <1>1, <1>3
    <3>1. CASE i = Len(ms) + 1
      BY <1>1, <1>2, <2>1, <3>0, <3>1
    <3>2. CASE i # Len(ms) + 1
      <4>1. i \in 1..Len(ms)
        BY <1>1, <3>0, <3>2
      <4> QED BY <1>1, <1>2, <2>1, <3>0, <4>1
    <3> QED BY <3>1, <3>2
  <2> HIDE DEF Z, d, c, x
  <2> QED BY <2>1, <2>2, <2>3, SeqEqual DEF d
<1>5. FlattenStep(c, x, Word)
  BY <1>2, FlattenAppend, Zenon
<1> QED BY <1>4, <1>5 DEF FlattenStep, Encoded, r

LEMMA EncodedSplit ==
  ASSUME NEW v \in {0, 1}, NEW ms \in Seq(Messages(v)), NEW k \in 0..(Len(ms) - 1)
  PROVE  \E rest \in Seq(Word) :
           Encoded(ms, v) = (Encoded(SubSeq(ms, 1, k), v) \o Code(ms[k + 1], v)) \o rest
<1> DEFINE c == Codes(ms, v)
           p == SubSeq(ms, 1, k)
<1>1. /\ c \in Seq(Seq(Word)) /\ Len(c) = Len(ms) /\ Len(ms) \in Nat
      /\ \A i \in 1..Len(ms) : c[i] = Code(ms[i], v)
  BY CodesType, LenProperties
<1>2. k + 1 \in 1..Len(ms) /\ k \in Nat
  BY <1>1
<1>3. p \in Seq(Messages(v)) /\ Len(p) = k /\ \A i \in 1..k : p[i] = ms[i]
  BY <1>1, <1>2
<1>4. /\ Codes(p, v) \in Seq(Seq(Word)) /\ Len(Codes(p, v)) = k
      /\ \A i \in 1..k : Codes(p, v)[i] = Code(p[i], v)
  <2> HIDE DEF p
  <2> QED BY <1>3, CodesType
<1>5. Codes(p, v) = SubSeq(c, 1, k)
  <2> DEFINE Z == Seq(Word)
             d == SubSeq(c, 1, k)
  <2>1. d \in Seq(Z) /\ Len(d) = k /\ \A i \in 1..k : d[i] = c[i]
    <3>1. c \in Seq(Z)
      BY <1>1
    <3> HIDE DEF c, Z
    <3> QED BY <1>1, <1>2, <3>1
  <2>2. \A i \in 1..k : Codes(p, v)[i] = d[i]
    <3> SUFFICES ASSUME NEW i \in 1..k PROVE Codes(p, v)[i] = d[i]
      OBVIOUS
    <3>1. i \in 1..Len(ms)
      BY <1>1, <1>2
    <3> HIDE DEF p, d, c
    <3> QED BY <1>1, <1>3, <1>4, <2>1, <3>1
  <2>3. Codes(p, v) \in Seq(Z) /\ Len(Codes(p, v)) = k
    BY <1>4
  <2> HIDE DEF Z, d, p
  <2> QED BY <2>1, <2>2, <2>3, SeqEqual DEF d
<1>6. Splits(c, k, Word)
  <2>1. k \in 0..(Len(c) - 1)
    BY <1>1, <1>2
  <2> HIDE DEF c
  <2> QED BY <1>1, <2>1, FlattenSplit, Zenon
<1>7. c[k + 1] = Code(ms[k + 1], v)
  BY <1>1, <1>2
<1> QED BY <1>5, <1>6, <1>7 DEF Splits, Encoded

(* What is found in a sequence where a header and a body were written. *)
Found(s, a, h, body) ==
  /\ Len(s) >= Len(a) + Len(h) + Len(body)
  /\ \A i \in 1..Len(h) : s[Len(a) + i] = h[i]
  /\ SubSeq(s, Len(a) + Len(h) + 1, Len(a) + Len(h) + Len(body)) = body
  /\ SubSeq(s, 1, Len(a)) = a

(* A sequence put together of two. *)
IsConcat(r, W, s1, s2) ==
  /\ r \in Seq(W) /\ Len(r) = Len(s1) + Len(s2)
  /\ \A i \in 1..(Len(s1) + Len(s2)) :
       r[i] = IF i <= Len(s1) THEN s1[i] ELSE s2[i - Len(s1)]

LEMMA Concat ==
  ASSUME NEW W, NEW s1 \in Seq(W), NEW s2 \in Seq(W)
  PROVE  IsConcat(s1 \o s2, W, s1, s2)
BY ConcatProperties DEF IsConcat

LEMMA WrittenIsFound ==
  ASSUME NEW W, NEW a \in Seq(W), NEW h \in Seq(W), NEW body \in Seq(W), NEW rest \in Seq(W)
  PROVE  Found((a \o (h \o body)) \o rest, a, h, body)
<1> DEFINE hb == h \o body
           ab == a \o hb
           s == ab \o rest
<1>0. Len(a) \in Nat /\ Len(h) \in Nat /\ Len(body) \in Nat /\ Len(rest) \in Nat
  BY LenProperties
<1>1. /\ hb \in Seq(W) /\ Len(hb) = Len(h) + Len(body)
      /\ \A i \in 1..(Len(h) + Len(body)) :
           hb[i] = IF i <= Len(h) THEN h[i] ELSE body[i - Len(h)]
  BY Concat DEF IsConcat
<1> HIDE DEF hb
<1>2. /\ ab \in Seq(W) /\ Len(ab) = Len(a) + Len(hb)
      /\ \A i \in 1..(Len(a) + Len(hb)) : ab[i] = IF i <= Len(a) THEN a[i] ELSE hb[i - Len(a)]
  <2>1. IsConcat(ab, W, a, hb)
    BY <1>1, Concat, Zenon
  <2> HIDE DEF ab
  <2> QED BY <2>1 DEF IsConcat
<1> HIDE DEF ab
<1>3. /\ s \in Seq(W) /\ Len(s) = Len(ab) + Len(rest)
      /\ \A i \in 1..(Len(ab) + Len(rest)) :
           s[i] = IF i <= Len(ab) THEN ab[i] ELSE rest[i - Len(ab)]
  <2>1. IsConcat(s, W, ab, rest)
    BY <1>2, Concat, Zenon
  <2> HIDE DEF s
  <2> QED BY <2>1 DEF IsConcat
<1> HIDE DEF s
<1>4. \A i \in 1..Len(a) : s[i] = a[i]
  BY <1>0, <1>1, <1>2, <1>3
<1>5. \A i \in 1..Len(h) : s[Len(a) + i] = h[i]
  <2> SUFFICES ASSUME NEW i \in 1..Len(h) PROVE s[Len(a) + i] = h[i]
    OBVIOUS
  <2>1. /\ Len(a) + i \in 1..Len(ab) /\ Len(a) + i \in 1..(Len(ab) + Len(rest))
        /\ i \in 1..(Len(h) + Len(body)) /\ (Len(a) + i) - Len(a) = i
    BY <1>0, <1>1, <1>2
  <2>2. s[Len(a) + i] = ab[Len(a) + i]
    BY <1>3, <2>1
  <2>3. ab[Len(a) + i] = hb[i]
    BY <1>0, <1>2, <2>1
  <2> QED BY <1>1, <2>1, <2>2, <2>3
<1>6. \A i \in 1..Len(body) : s[Len(a) + Len(h) + i] = body[i]
  <2> SUFFICES ASSUME NEW i \in 1..Len(body) PROVE s[Len(a) + Len(h) + i] = body[i]
    OBVIOUS
  <2> DEFINE j == Len(a) + Len(h) + i
  <2>1. /\ j \in 1..Len(ab) /\ j \in 1..(Len(ab) + Len(rest))
        /\ Len(h) + i \in 1..(Len(h) + Len(body)) /\ j - Len(a) = Len(h) + i
        /\ ~(Len(h) + i <= Len(h)) /\ (Len(h) + i) - Len(h) = i /\ ~(j <= Len(a))
    BY <1>0, <1>1, <1>2
  <2> HIDE DEF j
  <2>2. s[j] = ab[j]
    BY <1>3, <2>1
  <2>3. ab[j] = hb[Len(h) + i]
    BY <1>2, <2>1
  <2>4. hb[Len(h) + i] = body[i]
    BY <1>1, <2>1
  <2> QED BY <2>2, <2>3, <2>4 DEF j
<1>7. Len(s) >= Len(a) + Len(h) + Len(body)
  BY <1>0, <1>1, <1>2, <1>3
<1>8. SubSeq(s, Len(a) + Len(h) + 1, Len(a) + Len(h) + Len(body)) = body
  <2> DEFINE m == Len(a) + Len(h) + 1
             n == Len(a) + Len(h) + Len(body)
             t == SubSeq(s, m, n)
  <2>1. m \in Int /\ n \in Int /\ n - m + 1 = Len(body) /\ \A i \in m..n : s[i] \in W
    <3>1. \A i \in 1..Len(s) : s[i] \in W
      BY <1>3, ElementOfSeq
    <3> QED BY <1>0, <1>7, <3>1
  <2>2. IsSlice(t, W, s, m, n)
    <3> HIDE DEF m, n
    <3> QED BY <2>1, Slice, Zenon
  <2>3. t \in Seq(W) /\ Len(t) = Len(body) /\ \A i \in 1..Len(body) : t[i] = s[m + i - 1]
    <3> HIDE DEF t
    <3>1. m <= n \/ Len(body) = 0
      BY <1>0
    <3> QED BY <1>0, <2>1, <2>2, <3>1 DEF IsSlice
  <2>4. \A i \in 1..Len(body) : m + i - 1 = Len(a) + Len(h) + i
    BY <1>0
  <2> HIDE DEF t
  <2>5. \A i \in 1..Len(body) : t[i] = body[i]
    BY <1>6, <2>3, <2>4
  <2> QED BY <2>3, <2>5, SeqEqual DEF t
<1>9. SubSeq(s, 1, Len(a)) = a
  <2> DEFINE t == SubSeq(s, 1, Len(a))
  <2>1. \A i \in 1..Len(a) : s[i] \in W
    BY <1>4, ElementOfSeq
  <2>2. IsSlice(t, W, s, 1, Len(a))
    BY <1>0, <2>1, Slice
  <2>3. t \in Seq(W) /\ Len(t) = Len(a) /\ \A i \in 1..Len(a) : t[i] = s[i]
    <3> HIDE DEF t
    <3> QED BY <1>0, <2>2 DEF IsSlice
  <2> HIDE DEF t
  <2> QED BY <1>4, <2>3, SeqEqual DEF t
<1> QED BY <1>5, <1>7, <1>8, <1>9 DEF Found, s, ab, hb

------------------------------------------------------------------------------
(* A payload is read in one way only. *)

(* Where one message begins only one message can be read. *)
LEMMA SameFound ==
  ASSUME NEW v \in {0, 1}, NEW m \in Messages(v), NEW n \in Messages(v), NEW s, NEW a,
         Found(s, a, HeaderOf(m, v), m.body), Found(s, a, HeaderOf(n, v), n.body)
  PROVE  m = n
<1> DEFINE h == HeaderOf(m, v)
           g == HeaderOf(n, v)
<1>1. /\ Len(h) = 2 - v /\ h[2 - v] = Len(m.body)
      /\ Len(g) = 2 - v /\ g[2 - v] = Len(n.body)
  BY CodeFacts
<1>2. \A i \in 1..(2 - v) : h[i] = s[Len(a) + i] /\ g[i] = s[Len(a) + i]
  <2> HIDE DEF h, g
  <2> QED BY <1>1 DEF Found, h, g
<1>3. Len(m.body) = Len(n.body)
  BY <1>1, <1>2
<1>4. m.body = n.body
  BY <1>1, <1>3 DEF Found
<1>5. CASE v = 0
  <2>1. m.pos = n.pos
    BY <1>2, <1>5 DEF HeaderOf
  <2> QED BY <1>4, <1>5, <2>1 DEF Messages, Messages0
<1>6. CASE v = 1
  <2>1. PICK t \in DOMAIN FeedMessage : m = FeedEntry(t)
    BY <1>6 DEF Messages, Messages1
  <2>2. PICK u \in DOMAIN FeedMessage : n = FeedEntry(u)
    BY <1>6 DEF Messages, Messages1
  <2>3. t = u
    BY <1>4, <2>1, <2>2, FeedEntryFacts
  <2> QED BY <2>1, <2>2, <2>3
<1> QED BY <1>5, <1>6

LEMMA EncodedType ==
  ASSUME NEW v \in {0, 1}, NEW ms \in Seq(Messages(v))
  PROVE  Encoded(ms, v) \in Seq(Word)
<1>1. CASE ms = <<>>
  <2>1. Encoded(ms, v) = <<>>
    BY <1>1, EncodedEmpty, Zenon
  <2>2. <<>> \in Seq(Word)
    OBVIOUS
  <2> QED BY <2>1, <2>2
<1>2. CASE ms # <<>>
  <2>1. ms[1] \in Messages(v)
    BY <1>2, EmptySeq
  <2> QED BY <2>1, EncodedAppend
<1> QED BY <1>1, <1>2

(* After the first k messages, the next one is found. *)
LEMMA NextIsFound ==
  ASSUME NEW v \in {0, 1}, NEW ms \in Seq(Messages(v)), NEW k \in 0..(Len(ms) - 1)
  PROVE  /\ ms[k + 1] \in Messages(v)
         /\ Encoded(SubSeq(ms, 1, k), v) \in Seq(Word)
         /\ Found(Encoded(ms, v), Encoded(SubSeq(ms, 1, k), v),
                  HeaderOf(ms[k + 1], v), ms[k + 1].body)
<1> DEFINE a == Encoded(SubSeq(ms, 1, k), v)
           m == ms[k + 1]
           h == HeaderOf(m, v)
           body == m.body
<1>1. m \in Messages(v)
  <2>1. k + 1 \in 1..Len(ms)
    BY LenProperties
  <2> QED BY <2>1, ElementOfSeq
<1>2. SubSeq(ms, 1, k) \in Seq(Messages(v))
  BY LenProperties
<1>3. a \in Seq(Word)
  BY <1>2, EncodedType
<1>4. h \in Seq(Word) /\ body \in Seq(Word)
  BY <1>1, CodeFacts
<1>5. PICK rest \in Seq(Word) : Encoded(ms, v) = (a \o (h \o body)) \o rest
  BY EncodedSplit DEF Code
<1>6. Found((a \o (h \o body)) \o rest, a, h, body)
  <2> HIDE DEF a, h, body
  <2> QED BY <1>3, <1>4, WrittenIsFound, Zenon
<1> QED BY <1>1, <1>3, <1>5, <1>6

LEMMA Injective ==
  ASSUME NEW v \in {0, 1}, NEW a \in Seq(Messages(v)), NEW b \in Seq(Messages(v)),
         Encoded(a, v) = Encoded(b, v)
  PROVE  a = b
<1> DEFINE M == Messages(v)
           Same(x, y, k) == k <= Len(x) => k <= Len(y) /\ SubSeq(x, 1, k) = SubSeq(y, 1, k)
<1>1. ASSUME NEW x \in Seq(M), NEW y \in Seq(M), Encoded(x, v) = Encoded(y, v)
      PROVE  \A k \in Nat : Same(x, y, k)
  <2> DEFINE T == {k \in Nat : Same(x, y, k)}
  <2>0. Len(x) \in Nat /\ Len(y) \in Nat
    BY LenProperties
  <2>1. 0 \in T
    <3>1. SubSeq(x, 1, 0) = <<>> /\ SubSeq(y, 1, 0) = <<>>
      BY SubSeqEmpty
    <3> QED BY <2>0, <3>1
  <2>2. ASSUME NEW k \in Nat, k \in T PROVE k + 1 \in T
    <3> SUFFICES ASSUME k + 1 <= Len(x)
                 PROVE  k + 1 <= Len(y) /\ SubSeq(x, 1, k + 1) = SubSeq(y, 1, k + 1)
      OBVIOUS
    <3> DEFINE p == SubSeq(x, 1, k)
               c == Encoded(p, v)
               m == x[k + 1]
               s == Encoded(x, v)
    <3>1. k \in 0..(Len(x) - 1) /\ k <= Len(y) /\ p = SubSeq(y, 1, k)
      BY <2>0, <2>2
    <3>2. m \in M /\ c \in Seq(Word) /\ Found(s, c, HeaderOf(m, v), m.body)
      BY <3>1, NextIsFound
    <3>3. k # Len(y)
      <4> SUFFICES ASSUME k = Len(y) PROVE FALSE
        OBVIOUS
      <4>1. p = y
        BY <3>1, SubSeqFull
      <4>2. c = s
        BY <1>1, <4>1
      <4>3. Len(s) >= Len(c) + Len(HeaderOf(m, v)) + Len(m.body)
        BY <3>2 DEF Found
      <4>4. Len(HeaderOf(m, v)) = 2 - v /\ Len(m.body) \in Nat /\ Len(c) \in Nat
        <5>1. Len(HeaderOf(m, v)) = 2 - v /\ m.body \in Seq(Word)
          BY <3>2, CodeFacts
        <5> HIDE DEF c, s, m
        <5> QED BY <3>2, <5>1
      <4>5. Len(HeaderOf(m, v)) \in {1, 2}
        BY <4>4
      <4> HIDE DEF c, s, m
      <4>6. Len(c) = Len(s)
        BY <4>2
      <4>7. \A i, j \in Nat, l \in {1, 2} : ~(i >= i + l + j)
        OBVIOUS
      <4> QED BY <4>3, <4>4, <4>5, <4>6, <4>7
    <3>4. k \in 0..(Len(y) - 1)
      BY <2>0, <3>1, <3>3
    <3> DEFINE n == y[k + 1]
    <3>5. n \in M /\ Found(s, c, HeaderOf(n, v), n.body)
      BY <1>1, <3>1, <3>4, NextIsFound
    <3>6. m = n
      BY <3>2, <3>5, SameFound
    <3>7. SubSeq(x, 1, k + 1) = p \o <<m>> /\ SubSeq(y, 1, k + 1) = SubSeq(y, 1, k) \o <<n>>
      <4>1. 1 \in 1..Len(x) /\ k + 1 \in 1..Len(x) /\ 1 \in 1..Len(y) /\ k + 1 \in 1..Len(y)
            /\ (k + 1) - 1 = k
        BY <2>0, <3>4
      <4> QED BY <4>1, SubSeqRecursiveSecond
    <3>8. k + 1 <= Len(y)
      BY <2>0, <3>4
    <3> HIDE DEF p, m, n
    <3> QED BY <3>1, <3>6, <3>7, <3>8
  <2> HIDE DEF T
  <2>3. \A k \in Nat : k \in T
    BY <2>1, <2>2, SetInduction
  <2> QED BY <2>3 DEF T
<1>2. Len(a) \in Nat /\ Len(b) \in Nat
  BY LenProperties
<1>3. Same(a, b, Len(a)) /\ Same(b, a, Len(b))
  BY <1>1, <1>2
<1>4. Len(a) = Len(b) /\ SubSeq(a, 1, Len(a)) = SubSeq(b, 1, Len(b))
  BY <1>2, <1>3
<1> QED BY <1>4, SubSeqFull

------------------------------------------------------------------------------
(* Sums and differences that stay in the width are not wrapped. *)
LEMMA NoWrap == ASSUME NEW a \in Nat, a <= MaxWord PROVE a % (MaxWord + 1) = a
BY FormatAssumption

(* What the negation of CanSafelyReadElements guarantees: the read fits, and   *)
(* its end is the unwrapped sum.                                               *)
LEMMA ReadFits ==
  ASSUME NEW total \in Nat, total <= MaxWord, NEW pos \in 0..total, NEW n \in Word,
         ~CanSafelyReadElements(total, pos, n)
  PROVE  pos + n <= total /\ Add(pos, n) = pos + n
<1>1. Sub(total, pos) = total - pos
  <2>1. total - pos \in Nat /\ total - pos <= MaxWord
    BY FormatAssumption
  <2> QED BY <2>1, NoWrap DEF Sub
<1>2. pos + n <= total
  BY <1>1, FormatAssumption DEF CanSafelyReadElements, Word
<1>3. pos + n \in Nat /\ pos + n <= MaxWord
  BY <1>2, FormatAssumption DEF Word
<1> QED BY <1>2, <1>3, NoWrap DEF Add

LEMMA HeaderSizes == HeaderSize \in {1, 2} /\ INDEX_SIZE = 1 /\ LEN_SIZE = 1
BY DEF HeaderSize, INDEX_SIZE, LEN_SIZE

------------------------------------------------------------------------------
(* The invariant: the payload is one, the read position lies in it and does    *)
(* not move before parsing, and room is kept for the quote while one builds.   *)
Written == [pos : Word, body : Seq(Word)]

PayloadInv == payload \in Seq(Word) /\ Len(payload) <= MaxWord

OffsetInv ==
  /\ offset \in 0..Len(payload)
  /\ phase \in {"build", "sign", "sent", "parse"} => offset = 0

RoomInv ==
  /\ phase = "build" => built \in Seq(Written)
  /\ phase \in {"build", "sign"} =>
       payload = <<>> \/ Len(payload) + MAX_ATTESTATION_QUOTE_SIZE <= MaxSize

IInv == PayloadInv /\ OffsetInv /\ RoomInv /\ SignedFits

LEMMA InitInv == Init => IInv
<1> SUFFICES ASSUME Init PROVE IInv
  OBVIOUS
<1>1. PayloadInv
  <2>1. CASE payload = <<>>
    BY <2>1, FormatAssumption DEF PayloadInv
  <2>2. CASE payload \in Payloads
    BY <2>2, PayloadAssumption DEF PayloadInv
  <2>3. ASSUME NEW l \in FeedLists, built = [i \in DOMAIN l |-> FeedEntry(l[i])],
               payload = encodeV1HeaderAndBroadcastMessages(built)
        PROVE  PayloadInv
    <3> DEFINE texts == [i \in DOMAIN l |-> [body |-> l[i]]]
    <3>1. /\ encodeV1HeaderAndBroadcastMessages(texts) \in Seq(Word)
          /\ Len(encodeV1HeaderAndBroadcastMessages(texts)) <= MaxWord
      BY PayloadAssumption
    <3>2. encodeV1BroadcastFeedMessages(built) = encodeV1BroadcastFeedMessages(texts)
      <4>1. DOMAIN built = DOMAIN l /\ DOMAIN texts = DOMAIN l
        BY <2>3
      <4>2. \A i \in DOMAIN l : built[i].body = texts[i].body
        BY <2>3 DEF FeedEntry
      <4>3. [i \in DOMAIN built |-> encodeEmbeddedJSON(built[i].body)]
              = [i \in DOMAIN texts |-> encodeEmbeddedJSON(texts[i].body)]
        BY <4>1, <4>2
      <4> QED BY <4>3 DEF encodeV1BroadcastFeedMessages
    <3>3. encodeV1HeaderAndBroadcastMessages(built) = encodeV1HeaderAndBroadcastMessages(texts)
      BY <3>2 DEF encodeV1HeaderAndBroadcastMessages
    <3> QED BY <2>3, <3>1, <3>3 DEF PayloadInv
  <2> QED BY <2>1, <2>2, <2>3 DEF Init
<1>2. OffsetInv
  BY <1>1 DEF Init, OffsetInv, PayloadInv
<1>3. RoomInv
  <2>1. phase = "build" => built = <<>> /\ payload = <<>>
    BY DEF Init
  <2>2. phase # "sign"
    BY DEF Init
  <2>3. <<>> \in Seq(Written)
    OBVIOUS
  <2>4. phase = "build" => built \in Seq(Written)
    BY <2>1, <2>3
  <2>5. phase \in {"build", "sign"} => payload = <<>>
    BY <2>1, <2>2
  <2> QED BY <2>4, <2>5 DEF RoomInv
<1>4. SignedFits
  <2>1. signed.content = <<>>
    BY DEF Init, Unsigned
  <2> QED BY <2>1 DEF SignedFits
<1> QED BY <1>1, <1>2, <1>3, <1>4 DEF IInv

------------------------------------------------------------------------------
(* What is appended to the payload is one cell longer, twice, than the message. *)
LEMMA EncodedSize ==
  ASSUME NEW m \in Written, Len(m.body) <= MaxWord
  PROVE  /\ encodeV0MessageAndIndex(m) \in Seq(Word)
         /\ Len(encodeV0MessageAndIndex(m)) = 2 + Len(m.body)
<1>1. m.pos \in Word /\ m.body \in Seq(Word)
  BY DEF Written
<1>2. Len(m.body) \in Word
  <2>1. Len(m.body) \in Nat
    BY <1>1
  <2> QED BY <2>1, FormatAssumption DEF Word
<1>3. <<m.pos, Len(m.body)>> \in Seq(Word) /\ Len(<<m.pos, Len(m.body)>>) = 2
  BY <1>1, <1>2
<1> QED BY <1>1, <1>3 DEF encodeV0MessageAndIndex

(* The guard of the loop keeps the room for the quote. *)
LEMMA FitsKeepsRoom ==
  ASSUME NEW body \in Seq(Word), payload \in Seq(Word), Fits(body)
  PROVE  /\ Len(body) <= MaxWord
         /\ Len(payload) + 2 + Len(body) <= MaxWord
         /\ Len(payload) + 2 + Len(body) + MAX_ATTESTATION_QUOTE_SIZE <= MaxSize
<1>1. Len(body) \in Nat /\ Len(payload) \in Nat
  OBVIOUS
<1>2. /\ MaxWord \in Nat /\ MaxSize \in Nat /\ MaxSize + 1 <= MaxWord
      /\ MAX_ATTESTATION_QUOTE_SIZE \in Nat
  BY FormatAssumption, PayloadAssumption DEF LEN_SIZE
<1> QED BY <1>1, <1>2 DEF Fits, LEN_SIZE, INDEX_SIZE

LEMMA ConcatSize ==
  ASSUME NEW a \in Seq(Word), NEW b \in Seq(Word)
  PROVE  a \o b \in Seq(Word) /\ Len(a \o b) = Len(a) + Len(b)
OBVIOUS

LEMMA AppendFits ==
  ASSUME NEW code \in Seq(Word), NEW n \in Nat, Len(code) = 2 + n, PayloadInv,
         payload' = payload \o code
  PROVE  payload' \in Seq(Word) /\ Len(payload') = Len(payload) + 2 + n
<1>1. payload \in Seq(Word) /\ Len(payload) \in Nat
  BY DEF PayloadInv
<1>2. /\ payload \o code \in Seq(Word)
      /\ Len(payload \o code) = Len(payload) + Len(code)
  BY <1>1, ConcatSize
<1>3. Len(payload') = Len(payload) + (2 + n)
  BY <1>2
<1> QED BY <1>1, <1>2, <1>3

LEMMA AddOne ==
  ASSUME IInv, phase = "build", UNCHANGED <<phase, offset, signed>>,
         payload' \in Seq(Word), Len(payload') <= MaxWord,
         Len(payload') + MAX_ATTESTATION_QUOTE_SIZE <= MaxSize, built' \in Seq(Written)
  PROVE  IInv'
<1>1. PayloadInv' /\ RoomInv'
  BY DEF PayloadInv, RoomInv
<1>2. OffsetInv'
  <2>1. offset = 0 /\ 0 \in 0..Len(payload')
    BY DEF IInv, OffsetInv
  <2> QED BY <2>1 DEF OffsetInv
<1>3. SignedFits'
  BY DEF IInv, SignedFits
<1> QED BY <1>1, <1>2, <1>3 DEF IInv

LEMMA AddMessageInv == ASSUME IInv, AddMessage PROVE IInv'
<1>1. Len(built) \in Nat /\ Len(built) < Len(MsgPositions)
  BY DEF IInv, RoomInv, AddMessage
<1>2. Len(built) + 1 \in DOMAIN MsgPositions
  BY <1>1, PayloadAssumption
<1>3. PICK p \in Word : p = MsgPositions[Len(built) + 1] /\ MsgBytes[p] \in Seq(Word)
  BY <1>2, PayloadAssumption
<1>4. PICK m \in Written : m = [pos |-> p, body |-> MsgBytes[p]]
  BY <1>3 DEF Written
<1>5. /\ phase = "build" /\ Fits(m.body)
      /\ payload' = payload \o encodeV0MessageAndIndex(m) /\ built' = Append(built, m)
      /\ UNCHANGED <<phase, offset, signed>>
  BY <1>3, <1>4 DEF AddMessage, readVars
<1>6. m.body \in Seq(Word) /\ payload \in Seq(Word) /\ Len(m.body) \in Nat
  BY DEF Written, IInv, PayloadInv
<1>7. /\ Len(m.body) <= MaxWord /\ Len(payload) + 2 + Len(m.body) <= MaxWord
      /\ Len(payload) + 2 + Len(m.body) + MAX_ATTESTATION_QUOTE_SIZE <= MaxSize
  BY <1>5, <1>6, FitsKeepsRoom
<1>8. payload' \in Seq(Word) /\ Len(payload') = Len(payload) + 2 + Len(m.body)
  BY <1>5, <1>6, <1>7, EncodedSize, AppendFits DEF IInv
<1>9. built' \in Seq(Written)
  BY <1>5 DEF IInv, RoomInv
<1> QED BY <1>5, <1>7, <1>8, <1>9, AddOne

LEMMA SignInv ==
  ASSUME IInv, NEW quote \in Quotes, NEW key \in Keys, SignHotShotPayload(quote, key)
  PROVE  IInv'
<1>1. /\ payload' = <<Len(quote)>> \o quote \o payload
      /\ signed' = [quote |-> quote, content |-> payload, key |-> key]
      /\ phase' = "sent" /\ phase = "sign" /\ UNCHANGED <<offset, built>>
  BY DEF SignHotShotPayload, readVars
<1>2. /\ quote \in Seq(Word) /\ Len(quote) \in Nat
      /\ Len(quote) <= MAX_ATTESTATION_QUOTE_SIZE
      /\ MAX_ATTESTATION_QUOTE_SIZE \in Nat /\ MAX_ATTESTATION_QUOTE_SIZE + 1 <= MaxWord
      /\ MaxSize \in Nat /\ MaxSize + 1 <= MaxWord
  BY PayloadAssumption DEF LEN_SIZE
<1>3. payload \in Seq(Word) /\ Len(payload) \in Nat
      /\ (payload = <<>> \/ Len(payload) + MAX_ATTESTATION_QUOTE_SIZE <= MaxSize)
  BY <1>1 DEF IInv, PayloadInv, RoomInv
<1>4. <<Len(quote)>> \in Seq(Word) /\ Len(<<Len(quote)>>) = 1
  BY <1>2, FormatAssumption DEF Word
<1>5. payload' \in Seq(Word) /\ Len(payload') = 1 + Len(quote) + Len(payload)
  BY <1>1, <1>2, <1>3, <1>4
<1>6. PayloadInv'
  BY <1>2, <1>3, <1>5, FormatAssumption DEF PayloadInv
<1>7. OffsetInv'
  BY <1>1, <1>2, <1>3, <1>5 DEF IInv, OffsetInv
<1>8. SignedFits'
  BY <1>1, <1>2, <1>3 DEF SignedFits, LEN_SIZE
<1>9. RoomInv'
  BY <1>1 DEF RoomInv
<1> QED BY <1>6, <1>7, <1>8, <1>9 DEF IInv

LEMMA ArriveInv == ASSUME IInv, Arrive \/ ArriveAltered PROVE IInv'
<1>1. phase' = "parse" /\ UNCHANGED <<built, signed, offset>> /\ offset = 0
  BY DEF Arrive, ArriveAltered, writeVars, readVars, IInv, OffsetInv
<1>2. payload \in Seq(Word) /\ Len(payload) \in Nat /\ Len(payload) <= MaxWord
  BY DEF IInv, PayloadInv
<1>3. payload' \in Seq(Word) /\ Len(payload') <= Len(payload)
  <2>1. CASE Arrive
    BY <1>2, <2>1 DEF Arrive
  <2>2. ASSUME NEW n \in 0..(Len(payload) - 1), payload' = SubSeq(payload, 1, n)
        PROVE  payload' \in Seq(Word) /\ Len(payload') <= Len(payload)
    BY <1>2, <2>2
  <2>3. ASSUME NEW i \in 1..Len(payload), NEW w \in Garbage,
               payload' = [payload EXCEPT ![i] = w]
        PROVE  payload' \in Seq(Word) /\ Len(payload') <= Len(payload)
    <3>1. w \in Word
      BY PayloadAssumption
    <3> QED BY <1>2, <2>3, <3>1
  <2> QED BY <2>1, <2>2, <2>3 DEF ArriveAltered
<1>4. PayloadInv' /\ OffsetInv'
  BY <1>1, <1>2, <1>3, FormatAssumption DEF PayloadInv, OffsetInv
<1>5. RoomInv' /\ SignedFits'
  BY <1>1 DEF IInv, RoomInv, SignedFits
<1> QED BY <1>4, <1>5 DEF IInv

(* Steps of the reader that leave the read position, and those that move it.   *)
LEMMA ReaderInv ==
  ASSUME IInv, UNCHANGED <<payload, built, signed>>, offset' \in 0..Len(payload),
         phase' \in {"sign", "loop", "verify", "iterate", "end"} \/ UNCHANGED phase,
         offset' = offset \/ phase' = "loop",
         phase' = "sign" => phase = "build"
  PROVE  IInv'
<1>1. PayloadInv' /\ SignedFits'
  BY DEF IInv, PayloadInv, SignedFits
<1>2. OffsetInv'
  BY DEF IInv, OffsetInv, PayloadInv
<1>3. RoomInv'
  BY DEF IInv, RoomInv
<1> QED BY <1>1, <1>2, <1>3 DEF IInv

LEMMA HeaderFits ==
  ASSUME IInv, AtMessage, ~HeaderMissing
  PROVE  /\ Remaining \in Nat /\ Remaining <= MaxWord /\ Remaining = Len(payload) - offset
         /\ HeaderSize \in 0..Remaining
         /\ offset \in Nat /\ BodySize \in Word
<1>1. /\ payload \in Seq(Word) /\ Len(payload) \in Nat /\ Len(payload) <= MaxWord
      /\ offset \in 0..Len(payload)
  BY DEF IInv, PayloadInv, OffsetInv
<1>2. Remaining \in Nat /\ Remaining <= MaxWord /\ Remaining = Len(payload) - offset
  BY <1>1, FormatAssumption DEF Remaining
<1>3. HeaderSize \in Word
  BY HeaderSizes, FormatAssumption DEF Word, INDEX_SIZE, LEN_SIZE
<1>4. 0 + HeaderSize <= Remaining
  BY <1>2, <1>3, ReadFits DEF HeaderMissing
<1>5. offset + HeaderSize \in 1..Len(payload)
  BY <1>1, <1>2, <1>4, HeaderSizes
<1> QED BY <1>1, <1>2, <1>4, <1>5, HeaderSizes DEF BodySize

LEMMA BodyFits ==
  ASSUME IInv, HasBody
  PROVE  /\ BodyEnd \in HeaderSize..Remaining
         /\ offset + BodyEnd \in 0..Len(payload)
<1>1. /\ Remaining \in Nat /\ Remaining <= MaxWord /\ Remaining = Len(payload) - offset
      /\ HeaderSize \in 0..Remaining
      /\ offset \in Nat /\ BodySize \in Word
  BY HeaderFits DEF HasBody
<1>2. HeaderSize + BodySize <= Remaining /\ BodyEnd = HeaderSize + BodySize
  BY <1>1, ReadFits DEF HasBody, BodyMissing, BodyEnd
<1>3. Len(payload) \in Nat
  BY DEF IInv, PayloadInv
<1> QED BY <1>1, <1>2, <1>3 DEF Word

LEMMA SignatureFits ==
  ASSUME IInv, phase = "parse", IsV0, ~SignatureMissing
  PROVE  SignatureEnd \in LEN_SIZE..Len(payload)
<1>1. payload \in Seq(Word) /\ Len(payload) \in Nat /\ Len(payload) <= MaxWord
  BY DEF IInv, PayloadInv
<1>2. 1 <= Len(payload)
  BY DEF IsV0, IsPrefix
<1>3. payload[1] \in Word
  BY <1>1, <1>2
<1>4. LEN_SIZE \in 0..Len(payload)
  BY <1>1, <1>2 DEF LEN_SIZE
<1>5. LEN_SIZE + payload[1] <= Len(payload) /\ SignatureEnd = LEN_SIZE + payload[1]
  BY <1>1, <1>3, <1>4, ReadFits DEF SignatureMissing, SignatureEnd
<1> QED BY <1>1, <1>3, <1>4, <1>5 DEF Word

LEMMA ReadStep == ASSUME IInv, Read PROVE IInv'
<1> USE DEF writeVars, readVars
<1>0. offset \in 0..Len(payload) /\ Len(payload) \in Nat
  BY DEF IInv, OffsetInv, PayloadInv
<1>1. CASE RejectUnknown \/ RejectTruncated \/ RejectUndecodable
  BY <1>0, <1>1, ReaderInv DEF RejectUnknown, RejectTruncated, RejectUndecodable, Reject
<1>2. CASE ParseV1Header
  <2>1. Len(encodeEmbeddedJSON(V1Header)) = LEN_SIZE + Len(V1Header)
        /\ Len(V1Header) \in Nat
    BY FormatAssumption DEF encodeEmbeddedJSON, LEN_SIZE
  <2>2. LEN_SIZE + Len(V1Header) <= Len(payload)
    BY <1>2, <2>1 DEF ParseV1Header, IsV1, IsPrefix
  <2>3. LEN_SIZE + Len(V1Header) \in 0..Len(payload)
    BY <1>0, <2>1, <2>2 DEF LEN_SIZE
  <2> QED BY <1>2, <2>3, ReaderInv DEF ParseV1Header
<1>3. CASE ParseV0Signature
  <2>1. CASE Reject
    BY <1>0, <2>1, ReaderInv DEF Reject
  <2>2. CASE ~Reject
    <3>1. ~SignatureMissing /\ phase = "parse" /\ IsV0
          /\ offset' = SignatureEnd /\ phase' = "loop"
          /\ UNCHANGED <<payload, built, signed>>
      BY <1>3, <2>2 DEF ParseV0Signature
    <3>2. SignatureEnd \in 0..Len(payload)
      BY <1>0, <3>1, SignatureFits DEF LEN_SIZE
    <3> QED BY <3>1, <3>2, ReaderInv
  <2> QED BY <2>1, <2>2
<1>4. CASE SkipEmpty
  <2>1. version = 0 /\ offset' = offset + HeaderSize /\ UNCHANGED <<phase, payload, built, signed>>
        /\ phase = "loop" /\ AtMessage /\ ~HeaderMissing
    BY <1>4 DEF SkipEmpty, IsEmpty, AtMessage
  <2>2. offset + HeaderSize \in 0..Len(payload)
    BY <1>0, <2>1, HeaderFits
  <2> QED BY <2>1, <2>2, ReaderInv
<1>5. CASE ParseMessage
  <2>1. HasBody /\ offset' = offset + BodyEnd /\ UNCHANGED <<phase, payload, built, signed>>
        /\ phase = "loop"
    BY <1>5 DEF ParseMessage, HasBody, AtMessage
  <2>2. offset + BodyEnd \in 0..Len(payload)
    BY <2>1, BodyFits
  <2> QED BY <2>1, <2>2, ReaderInv
<1>6. CASE ParsedAll \/ VerifyV0 \/ VerifyV1 \/ NextMessage \/ NoMoreMessages
  BY <1>0, <1>6, ReaderInv
     DEF ParsedAll, VerifyV0, VerifyV1, NextMessage, NoMoreMessages, Reject
<1> QED BY <1>1, <1>2, <1>3, <1>4, <1>5, <1>6 DEF Read, Parse

LEMMA StepInv == IInv /\ [Next]_vars => IInv'
<1> SUFFICES ASSUME IInv, [Next]_vars PROVE IInv'
  OBVIOUS
<1>1. CASE StopBuilding \/ SignerFails
  BY <1>1, ReaderInv DEF StopBuilding, SignerFails, writeVars, readVars, IInv, OffsetInv
<1>2. CASE UNCHANGED vars
  BY <1>2 DEF vars, writeVars, readVars, IInv, PayloadInv, OffsetInv, RoomInv, SignedFits
<1> QED
  BY <1>1, <1>2, AddMessageInv, SignInv, ArriveInv, ReadStep DEF Next, Write

LEMMA InvCorrect == Spec => []IInv
BY InitInv, StepInv, PTL DEF Spec

(* No slice of the parser leaves the payload: whatever is written to the       *)
(* namespace, and whatever sizes it claims, the streamer's goroutine does not  *)
(* panic over it.                                                              *)
THEOREM SlicesCorrect == Spec => []SlicesInRange
<1>1. IInv => SlicesInRange
  BY SignatureFits, BodyFits DEF SlicesInRange
<1> QED BY <1>1, InvCorrect, PTL

(* The signed payload exceeds maxSize by the size field of the quote at most,  *)
(* for all messages and every quote of up to MAX_ATTESTATION_QUOTE_SIZE.       *)
THEOREM SizeCorrect == Spec => []SignedFits
<1>1. IInv => SignedFits
  BY DEF IInv
<1> QED BY <1>1, InvCorrect, PTL
------------------------------------------------------------------------------
(* What was written: first the signature or the header, then the messages. *)
WrittenVersion == IF signed = Unsigned THEN 1 ELSE 0

WrittenFront ==
  IF signed = Unsigned THEN encodeEmbeddedJSON(V1Header) ELSE <<Len(signed.quote)>> \o signed.quote

Whole ==
  /\ built \in Seq(Messages(WrittenVersion))
  /\ payload = WrittenFront \o Encoded(built, WrittenVersion)

(* What has been read, in the same form. *)
ReadFront == IF version = 0 THEN <<Len(signature)>> \o signature ELSE encodeEmbeddedJSON(V1Header)

(* The writer: it appends one message after the other, signs what it has, and  *)
(* what arrives intact is what was written.                                    *)
BuildInv ==
  phase \in {"build", "sign"} =>
    /\ built \in Seq(Messages0) /\ payload = Encoded(built, 0)
    /\ signed = Unsigned

SignedInv ==
  signed # Unsigned =>
    /\ built \in Seq(Messages0) /\ signed.content = Encoded(built, 0)
    /\ signed.quote \in Seq(Word) /\ Len(signed.quote) \in Word

WholeInv ==
  /\ intact => phase \in {"parse", "loop", "verify", "iterate", "end"}
  /\ (phase = "sent" \/ intact) => Whole

WriterInv == BuildInv /\ SignedInv /\ WholeInv

(* The reader: nothing is read or handed out before its time, the fields tile  *)
(* the payload up to the read position, the messages are those with data.      *)
StartInv ==
  /\ phase \in {"build", "sign", "sent", "parse"} => fields = <<>>
  /\ phase \in {"build", "sign", "sent", "parse"} => messages = <<>>
  /\ phase \notin {"iterate", "end"} => position = 0

CountInv ==
  /\ version \in {0, 1} /\ intact \in BOOLEAN
  /\ messages \in Seq(Messages(version)) /\ position \in 0..Len(messages)
  /\ phase \in {"build", "sign", "sent", "parse", "loop", "verify", "iterate", "end"}

TileInv ==
  phase \in {"loop", "verify", "iterate"} =>
    /\ fields \in Seq(Messages(version)) /\ ReadFront \in Seq(Word)
    /\ version = 0 => signature \in Seq(Word)
    /\ SubSeq(payload, 1, offset) = ReadFront \o Encoded(fields, version)
    /\ phase # "loop" => offset = Len(payload)

DataInv == phase \in {"loop", "verify"} => messages = WithData(fields)

(* What is handed out has been signed; what arrived intact is handed out.      *)
VouchedFeed(m) ==
  LET f == FeedMessage[m.body]
  IN  m.pos = f.seq /\ \E s \in SequencerSignatures : Vouches(s, f)

Vouched ==
  IF version = 0
    THEN signed.key \in ValidKeys /\ messages = WithData(built)
    ELSE \A i \in DOMAIN messages :
           VouchedFeed(messages[i])

VouchedInv == phase \in {"iterate", "end"} /\ messages # <<>> => Vouched

Expected ==
  signed # Unsigned =>
    /\ signed.key \in ValidKeys /\ Len(signed.quote) = SignatureSize
    /\ \A m \in Range(built) : m.body \in RLPBodies \cup {<<>>}

Settled ==
  IF signed = Unsigned THEN HonestOf(messages) = HonestOf(built) ELSE messages = WithData(built)

KeptInv ==
  intact /\ Expected =>
    /\ phase \in {"loop", "verify"} =>
         /\ version = WrittenVersion /\ ReadFront = WrittenFront
         /\ version = 0 => signature = signed.quote
         /\ Len(fields) <= Len(built) /\ fields = SubSeq(built, 1, Len(fields))
    /\ phase \in {"iterate", "end"} => Settled
    /\ phase = "end" => position = Len(messages)

------------------------------------------------------------------------------
(* The writer's invariant. *)
LEMMA UnsignedKey == Unsigned.key = Stranger
BY DEF Unsigned

LEMMA WriterInit == Init => WriterInv
<1> SUFFICES ASSUME Init PROVE WriterInv
  OBVIOUS
<1>1. signed = Unsigned /\ ~intact
  BY DEF Init
<1>2. BuildInv
  <2>1. phase # "sign" /\ (phase = "build" => built = <<>> /\ payload = <<>>)
    BY DEF Init
  <2>2. <<>> \in Seq(Messages0) /\ Encoded(<<>>, 0) = <<>>
    BY EncodedEmpty
  <2> QED BY <1>1, <2>1, <2>2 DEF BuildInv
<1>3. SignedInv
  BY <1>1 DEF SignedInv
<1>4. WholeInv
  <2> SUFFICES ASSUME phase = "sent" PROVE Whole
    BY <1>1 DEF WholeInv
  <2>1. /\ payload = encodeV1HeaderAndBroadcastMessages(built)
        /\ \E l \in FeedLists : built = [i \in DOMAIN l |-> FeedEntry(l[i])]
    BY DEF Init
  <2>2. PICK l \in FeedLists : built = [i \in DOMAIN l |-> FeedEntry(l[i])]
    BY <2>1
  <2>3. l \in Seq(DOMAIN FeedMessage)
    BY PayloadAssumption
  <2>4. Len(l) \in Nat /\ DOMAIN l = 1..Len(l) /\ \A i \in 1..Len(l) : l[i] \in DOMAIN FeedMessage
    BY <2>3, LenProperties, ElementOfSeq
  <2>5. built \in [1..Len(l) -> Messages1]
    BY <2>2, <2>4 DEF Messages1
  <2>6. built \in Seq(Messages1)
    BY <2>4, <2>5
  <2>7. payload = encodeEmbeddedJSON(V1Header) \o Encoded(built, 1)
    BY <2>1, EncodedIs DEF encodeV1HeaderAndBroadcastMessages
  <2>8. Messages(1) = Messages1
    BY DEF Messages
  <2> QED BY <1>1, <2>6, <2>7, <2>8 DEF Whole, WrittenVersion, WrittenFront
<1> QED BY <1>2, <1>3, <1>4 DEF WriterInv

LEMMA WriterAdds == ASSUME IInv, WriterInv, AddMessage PROVE WriterInv'
<1>0. /\ phase = "build" /\ built \in Seq(Messages0) /\ payload = Encoded(built, 0)
      /\ signed = Unsigned /\ ~intact /\ UNCHANGED <<phase, signed, intact>>
  BY DEF AddMessage, WriterInv, BuildInv, WholeInv
<1>1. Len(built) \in Nat /\ Len(built) < Len(MsgPositions)
  BY <1>0 DEF AddMessage
<1>2. Len(built) + 1 \in DOMAIN MsgPositions
  BY <1>1, PayloadAssumption
<1>3. PICK p \in Word : p = MsgPositions[Len(built) + 1] /\ MsgBytes[p] \in Seq(Word)
  BY <1>2, PayloadAssumption
<1>4. PICK m \in Written : m = [pos |-> p, body |-> MsgBytes[p]]
  BY <1>3 DEF Written
<1>5. /\ Fits(m.body) /\ payload' = payload \o encodeV0MessageAndIndex(m)
      /\ built' = Append(built, m)
  BY <1>3, <1>4 DEF AddMessage
<1>6. m \in Messages0
  <2>1. m.body \in Seq(Word) /\ payload \in Seq(Word)
    BY DEF Written, IInv, PayloadInv
  <2>2. Len(m.body) <= MaxWord
    BY <1>5, <2>1, FitsKeepsRoom
  <2> QED BY <2>2 DEF Written, Messages0
<1>7. Messages(0) = Messages0 /\ encodeV0MessageAndIndex(m) = Code(m, 0)
  BY DEF Messages, encodeV0MessageAndIndex, Code, HeaderOf
<1>8. payload' = Encoded(built', 0)
  BY <1>0, <1>5, <1>6, <1>7, EncodedAppend
<1>9. built' \in Seq(Messages0)
  BY <1>0, <1>5, <1>6
<1> QED BY <1>0, <1>8, <1>9 DEF WriterInv, BuildInv, SignedInv, WholeInv

LEMMA WriterSigns ==
  ASSUME IInv, WriterInv, NEW quote \in Quotes, NEW key \in Keys, SignHotShotPayload(quote, key)
  PROVE  WriterInv'
<1>0. /\ phase = "sign" /\ built \in Seq(Messages0) /\ payload = Encoded(built, 0)
      /\ ~intact /\ UNCHANGED <<built, intact>> /\ phase' = "sent"
      /\ payload' = (<<Len(quote)>> \o quote) \o payload
      /\ signed' = [quote |-> quote, content |-> payload, key |-> key]
  BY DEF SignHotShotPayload, WriterInv, BuildInv, WholeInv
<1>1. signed'.quote = quote /\ signed'.content = payload /\ signed'.key = key
  BY <1>0
<1>2. signed' # Unsigned
  BY <1>1, UnsignedKey, PayloadAssumption
<1>3. quote \in Seq(Word) /\ Len(quote) \in Word
  <2>1. quote \in Seq(Word) /\ Len(quote) <= MAX_ATTESTATION_QUOTE_SIZE
        /\ MAX_ATTESTATION_QUOTE_SIZE \in Nat /\ MAX_ATTESTATION_QUOTE_SIZE + 1 <= MaxWord
    BY PayloadAssumption DEF LEN_SIZE
  <2>2. Len(quote) \in Nat
    BY <2>1
  <2> QED BY <2>1, <2>2, FormatAssumption DEF Word
<1>4. SignedInv'
  BY <1>0, <1>1, <1>3 DEF SignedInv
<1>5. WholeInv'
  <2>1. Messages(0) = Messages0
    BY DEF Messages
  <2> QED BY <1>0, <1>1, <1>2, <2>1 DEF WholeInv, Whole, WrittenVersion, WrittenFront
<1>6. BuildInv'
  BY <1>0 DEF BuildInv
<1> QED BY <1>4, <1>5, <1>6 DEF WriterInv

(* What the reader's steps leave alone. *)
LEMMA ReadFrame ==
  ASSUME Read
  PROVE  /\ UNCHANGED <<payload, built, signed, intact>>
         /\ phase \in {"parse", "loop", "verify", "iterate"}
         /\ phase' \in {"loop", "verify", "iterate", "end"}
<1> USE DEF writeVars, readVars, Reject
<1>1. CASE RejectUnknown \/ RejectTruncated \/ RejectUndecodable
  BY <1>1 DEF RejectUnknown, RejectTruncated, RejectUndecodable, HasBody, AtMessage
<1>2. CASE ParseV1Header \/ ParseV0Signature
  BY <1>2 DEF ParseV1Header, ParseV0Signature
<1>3. CASE SkipEmpty \/ ParseMessage
  BY <1>3 DEF SkipEmpty, ParseMessage, HasBody, AtMessage
<1>4. CASE ParsedAll \/ VerifyV0 \/ VerifyV1 \/ NextMessage \/ NoMoreMessages
  BY <1>4 DEF ParsedAll, VerifyV0, VerifyV1, NextMessage, NoMoreMessages
<1> QED BY <1>1, <1>2, <1>3, <1>4 DEF Read, Parse

LEMMA WriterStep == ASSUME IInv, WriterInv, [Next]_vars PROVE WriterInv'
<1>1. CASE Read
  <2>1. UNCHANGED <<WrittenVersion, WrittenFront, Whole>>
    BY <1>1, ReadFrame DEF Whole, WrittenVersion, WrittenFront
  <2> QED BY <1>1, <2>1, ReadFrame DEF WriterInv, BuildInv, SignedInv, WholeInv
<1>2. CASE StopBuilding \/ SignerFails \/ Arrive \/ UNCHANGED vars
  <2>1. /\ UNCHANGED <<payload, built, signed>>
        /\ \/ phase = "build" /\ phase' = "sign" /\ UNCHANGED intact
           \/ phase = "sign" /\ phase' = "end" /\ UNCHANGED intact
           \/ phase = "sent" /\ phase' = "parse"
           \/ UNCHANGED <<phase, intact>>
    BY <1>2 DEF StopBuilding, SignerFails, Arrive, vars, writeVars, readVars
  <2>2. UNCHANGED <<WrittenVersion, WrittenFront, Whole>>
    BY <2>1 DEF Whole, WrittenVersion, WrittenFront
  <2> QED BY <2>1, <2>2 DEF WriterInv, BuildInv, SignedInv, WholeInv
<1>3. CASE ArriveAltered
  <2>1. phase = "sent" /\ phase' = "parse" /\ ~intact /\ UNCHANGED <<built, signed, intact>>
    BY <1>3 DEF ArriveAltered, writeVars, WriterInv, WholeInv
  <2> QED BY <2>1 DEF WriterInv, BuildInv, SignedInv, WholeInv
<1> QED BY <1>1, <1>2, <1>3, WriterAdds, WriterSigns DEF Next, Write

------------------------------------------------------------------------------
(* The reader's invariant. *)
LEMMA Cut ==
  ASSUME NEW s \in Seq(Word), NEW m \in 1..(Len(s) + 1), NEW n \in (m - 1)..Len(s)
  PROVE  /\ SubSeq(s, m, n) \in Seq(Word) /\ Len(SubSeq(s, m, n)) = n - m + 1
         /\ \A i \in 1..(n - m + 1) : SubSeq(s, m, n)[i] = s[m + i - 1]
<1>1. Len(s) \in Nat /\ \A i \in 1..Len(s) : s[i] \in Word
  BY LenProperties, ElementOfSeq
<1>2. m \in Int /\ n \in Int /\ \A i \in m..n : s[i] \in Word
  BY <1>1
<1>3. IsSlice(SubSeq(s, m, n), Word, s, m, n)
  BY <1>2, Slice, Zenon
<1>4. m <= n \/ n - m + 1 = 0
  BY <1>1
<1> QED BY <1>2, <1>3, <1>4 DEF IsSlice

(* The messages that have data, as one set for the filter. *)
Data(v) == {m \in Messages(v) : m.body # <<>>}

LEMMA WithDataIs ==
  ASSUME NEW v, NEW ms \in Seq(Messages(v))
  PROVE  WithData(ms) = Filter(ms, Data(v)) /\ WithData(ms) \in Seq(Messages(v))
<1> DEFINE A == {m \in Range(ms) : m.body # <<>>}
           B == Data(v)
<1>1. \A i \in 1..Len(ms) : ms[i] \in A <=> ms[i] \in B
  <2>1. DOMAIN ms = 1..Len(ms) /\ \A i \in 1..Len(ms) : ms[i] \in Messages(v)
    BY LenProperties, ElementOfSeq
  <2> QED BY <2>1 DEF Range, Data
<1>2. Filter(ms, A) = Filter(ms, B)
  <2> HIDE DEF A, B
  <2> QED BY <1>1, FilterAgrees
<1>3. Filter(ms, A) \in Seq(Messages(v))
  <2> HIDE DEF A
  <2> QED BY FilterType
<1> QED BY <1>2, <1>3 DEF WithData

LEMMA WithDataAppend ==
  ASSUME NEW v, NEW ms \in Seq(Messages(v)), NEW m \in Messages(v)
  PROVE  /\ m.body = <<>> => WithData(Append(ms, m)) = WithData(ms)
         /\ m.body # <<>> => WithData(Append(ms, m)) = Append(WithData(ms), m)
<1> DEFINE r == Append(ms, m)
           S == Data(v)
<1>1. r \in Seq(Messages(v))
  OBVIOUS
<1>2. WithData(r) = Filter(r, S) /\ WithData(ms) = Filter(ms, S)
  <2> HIDE DEF r
  <2> QED BY <1>1, WithDataIs
<1>3. m \in S <=> m.body # <<>>
  BY DEF Data
<1>4. FilterStep(ms, m, S)
  <2> HIDE DEF S
  <2> QED BY FilterAppend, Zenon
<1> QED BY <1>2, <1>3, <1>4 DEF FilterStep

LEMMA WithDataEmpty == WithData(<<>>) = <<>>
BY FilterEmpty DEF WithData

(* One message is cut out of the payload as it was put into it. *)
LEMMA ReadField ==
  ASSUME IInv, version \in {0, 1}, AtMessage, ~HeaderMissing,
         NEW n \in Nat, n = offset + HeaderSize + BodySize, n <= Len(payload),
         NEW body, body = SubSeq(payload, offset + HeaderSize + 1, n),
         version = 1 => body \in DOMAIN FeedMessage
  PROVE  /\ Entry(body) \in Messages(version) /\ Entry(body).body = body
         /\ Len(body) = BodySize
         /\ SubSeq(payload, offset + 1, n) = Code(Entry(body), version)
<1> DEFINE head == SubSeq(payload, offset + 1, offset + HeaderSize)
           e == Entry(body)
<1>1. /\ payload \in Seq(Word) /\ Len(payload) \in Nat /\ Len(payload) <= MaxWord
      /\ offset \in Nat /\ BodySize \in Nat /\ HeaderSize = 2 - version
      /\ offset + HeaderSize <= n /\ n <= Len(payload)
  <2>1. HeaderSize = 2 - version
    BY DEF HeaderSize, INDEX_SIZE, LEN_SIZE
  <2>2. BodySize \in Nat /\ offset \in Nat
    BY HeaderFits, FormatAssumption DEF Word
  <2> QED BY <2>1, <2>2 DEF IInv, PayloadInv
<1>2. body \in Seq(Word) /\ Len(body) = BodySize
  <2>1. offset + HeaderSize + 1 \in 1..(Len(payload) + 1)
    BY <1>1
  <2>2. n \in (offset + HeaderSize + 1 - 1)..Len(payload)
        /\ n - (offset + HeaderSize + 1) + 1 = BodySize
    BY <1>1
  <2> QED BY <1>1, <2>1, <2>2, Cut
<1>3. head \in Seq(Word) /\ Len(head) = HeaderSize
      /\ \A i \in 1..HeaderSize : head[i] = payload[offset + i]
  <2>1. offset + 1 \in 1..(Len(payload) + 1)
        /\ offset + HeaderSize \in (offset + 1 - 1)..Len(payload)
        /\ (offset + HeaderSize) - (offset + 1) + 1 = HeaderSize
        /\ \A i \in 1..HeaderSize : offset + 1 + i - 1 = offset + i
    BY <1>1
  <2> QED BY <1>1, <2>1, Cut
<1>4. SubSeq(payload, offset + 1, n) = head \o body
  <2>1. /\ offset + 1 \in 1..(Len(payload) + 1)
        /\ offset + HeaderSize \in (offset + 1 - 1)..Len(payload)
        /\ n \in (offset + HeaderSize)..Len(payload)
    BY <1>1
  <2> QED BY <1>1, <2>1, ConcatAdjacentSubSeq
<1>5. Len(body) <= MaxWord
  <2>1. MaxWord \in Nat
    BY FormatAssumption
  <2>2. BodySize <= MaxWord
    BY <1>1, <2>1
  <2> QED BY <1>2, <2>2
<1>6. e \in Messages(version) /\ e.body = body
  <2>1. CASE version = 0
    <3>1. payload[offset + 1] \in Word
      BY <1>1, <2>1
    <3>2. e = [pos |-> payload[offset + 1], body |-> body]
      BY <2>1 DEF Entry, INDEX_SIZE
    <3>3. Messages(version) = Messages0 /\ e.body = body
      BY <2>1, <3>2 DEF Messages
    <3>4. e \in Messages0
      <4> HIDE DEF e
      <4> QED BY <1>2, <1>5, <3>1, <3>2 DEF Messages0
    <3> QED BY <3>3, <3>4
  <2>2. CASE version = 1
    <3>1. e = FeedEntry(body) /\ body \in DOMAIN FeedMessage
      BY <2>2 DEF Entry
    <3>2. Messages(version) = Messages1
      BY <2>2 DEF Messages
    <3> HIDE DEF e
    <3> QED BY <3>1, <3>2, FeedEntryFacts, Zenon DEF Messages1
  <2> QED BY <2>1, <2>2
<1>7. head = HeaderOf(e, version)
  <2>0. head[HeaderSize] = Len(body)
    <3>1. HeaderSize \in 1..HeaderSize
      BY <1>1
    <3> QED BY <1>2, <1>3, <3>1 DEF BodySize
  <2>1. CASE version = 0
    <3>1. e.pos = payload[offset + 1]
      BY <2>1 DEF Entry, INDEX_SIZE
    <3>2. head[1] = e.pos /\ head[2] = Len(e.body) /\ Len(head) = 2
      BY <1>1, <1>3, <1>6, <2>0, <2>1, <3>1
    <3>3. head = <<e.pos, Len(e.body)>>
      <4> HIDE DEF head, e
      <4> QED BY <1>3, <3>2
    <3> QED BY <2>1, <3>3 DEF HeaderOf
  <2>2. CASE version = 1
    <3>1. head[1] = Len(e.body) /\ Len(head) = 1
      BY <1>1, <1>3, <1>6, <2>0, <2>2
    <3>2. head = <<Len(e.body)>>
      <4> HIDE DEF head, e
      <4> QED BY <1>3, <3>1
    <3> QED BY <2>2, <3>2 DEF HeaderOf
  <2> QED BY <2>1, <2>2
<1> QED BY <1>2, <1>4, <1>6, <1>7 DEF Code

ReadingInv == StartInv /\ CountInv /\ TileInv /\ DataInv

LEMMA ReadingInit == Init => ReadingInv
<1> SUFFICES ASSUME Init PROVE ReadingInv
  OBVIOUS
<1>1. /\ phase \in {"build", "sent", "parse"} /\ version = 0 /\ intact = FALSE
      /\ messages = <<>> /\ fields = <<>> /\ position = 0
  BY DEF Init
<1>2. <<>> \in Seq(Messages(0)) /\ 0 \in 0..Len(<<>>)
  OBVIOUS
<1>3. CountInv
  BY <1>1, <1>2 DEF CountInv
<1> QED BY <1>1, <1>3 DEF ReadingInv, StartInv, TileInv, DataInv

LEMMA RejectReading ==
  ASSUME ReadingInv, Reject, phase \in {"parse", "loop", "verify"}
  PROVE  ReadingInv'
<1>1. /\ phase' = "end" /\ messages' = <<>> /\ UNCHANGED <<version, position, intact>>
      /\ position = 0
  BY DEF Reject, ReadingInv, StartInv
<1>2. <<>> \in Seq(Messages(version)) /\ 0 \in 0..Len(<<>>)
  OBVIOUS
<1>3. CountInv'
  BY <1>1, <1>2 DEF ReadingInv, CountInv
<1> QED BY <1>1, <1>3 DEF ReadingInv, StartInv, TileInv, DataInv

(* Both versions begin with what is before the first message. *)
LEMMA StartReading ==
  ASSUME ReadingInv, phase = "parse", phase' = "loop", version' \in {0, 1},
         ReadFront' \in Seq(Word), SubSeq(payload, 1, offset') = ReadFront',
         version' = 0 => signature' \in Seq(Word),
         UNCHANGED <<payload, intact, messages, fields, position>>
  PROVE  ReadingInv'
<1>1. fields' = <<>> /\ messages' = <<>> /\ position' = 0 /\ intact' \in BOOLEAN
  BY DEF ReadingInv, StartInv, CountInv
<1>2. <<>> \in Seq(Messages(version')) /\ 0 \in 0..Len(<<>>)
  OBVIOUS
<1>3. Encoded(<<>>, version') = <<>>
  BY EncodedEmpty
<1>4. ReadFront' \o <<>> = ReadFront'
  OBVIOUS
<1>5. SubSeq(payload', 1, offset') = ReadFront' \o Encoded(fields', version')
  BY <1>1, <1>3, <1>4
<1>6. TileInv'
  BY <1>1, <1>2, <1>5 DEF TileInv
<1>7. CountInv'
  BY <1>1, <1>2 DEF CountInv
<1>8. DataInv'
  BY <1>1, WithDataEmpty DEF DataInv
<1> QED BY <1>1, <1>6, <1>7, <1>8 DEF ReadingInv, StartInv

LEMMA V1Front ==
  ASSUME IInv, IsV1
  PROVE  /\ encodeEmbeddedJSON(V1Header) \in Seq(Word)
         /\ SubSeq(payload, 1, LEN_SIZE + Len(V1Header)) = encodeEmbeddedJSON(V1Header)
<1> DEFINE h == encodeEmbeddedJSON(V1Header)
<1>1. h \in Seq(Word) /\ Len(h) = LEN_SIZE + Len(V1Header)
  BY FormatAssumption DEF encodeEmbeddedJSON, LEN_SIZE
<1>2. SubSeq(h, 1, Len(h)) = SubSeq(payload, 1, Len(h))
  BY DEF IsV1, IsPrefix
<1>3. SubSeq(h, 1, Len(h)) = h
  <2> HIDE DEF h
  <2> QED BY <1>1, SubSeqFull
<1> QED BY <1>1, <1>2, <1>3

LEMMA V1Start == ASSUME IInv, ReadingInv, ParseV1Header PROVE ReadingInv'
<1>1. /\ phase = "parse" /\ phase' = "loop" /\ IsV1 /\ version' = 1
      /\ offset' = LEN_SIZE + Len(V1Header)
      /\ UNCHANGED <<payload, intact, messages, fields, position>>
  BY DEF ParseV1Header
<1>2. ReadFront' = encodeEmbeddedJSON(V1Header)
  BY <1>1 DEF ReadFront
<1> QED BY <1>1, <1>2, V1Front, StartReading

LEMMA V0Start ==
  ASSUME IInv, ReadingInv, ParseV0Signature, ~Reject
  PROVE  ReadingInv'
<1>1. /\ phase = "parse" /\ phase' = "loop" /\ IsV0 /\ ~SignatureMissing /\ version' = 0
      /\ offset' = SignatureEnd /\ signature' = SubSeq(payload, 2, SignatureEnd)
      /\ UNCHANGED <<payload, intact, messages, fields, position>>
  BY DEF ParseV0Signature, LEN_SIZE
<1>2. payload \in Seq(Word) /\ Len(payload) \in Nat /\ Len(payload) <= MaxWord
  BY DEF IInv, PayloadInv
<1>3. 1 <= Len(payload)
  BY <1>1 DEF IsV0, IsPrefix
<1>4. SignatureEnd \in 1..Len(payload) /\ SignatureEnd = 1 + payload[1] /\ payload[1] \in Word
  <2>1. payload[1] \in Word
    BY <1>2, <1>3
  <2>2. 1 \in 0..Len(payload)
    BY <1>2, <1>3
  <2>3. 1 + payload[1] <= Len(payload) /\ SignatureEnd = 1 + payload[1]
    BY <1>1, <1>2, <2>1, <2>2, ReadFits DEF SignatureMissing, SignatureEnd, LEN_SIZE
  <2> QED BY <1>2, <2>1, <2>3, FormatAssumption DEF Word
<1>5. signature' \in Seq(Word) /\ Len(signature') = payload[1]
  <2>1. 2 \in 1..(Len(payload) + 1) /\ SignatureEnd \in (2 - 1)..Len(payload)
        /\ SignatureEnd - 2 + 1 = payload[1]
    BY <1>2, <1>3, <1>4 DEF Word
  <2> QED BY <1>1, <1>2, <2>1, Cut
<1>6. SubSeq(payload, 1, 1) = <<payload[1]>>
  <2> DEFINE t == SubSeq(payload, 1, 1)
  <2>1. 1 \in 1..(Len(payload) + 1) /\ 1 \in (1 - 1)..Len(payload)
    BY <1>2, <1>3
  <2>2. t \in Seq(Word) /\ Len(t) = 1 - 1 + 1 /\ \A i \in 1..(1 - 1 + 1) : t[i] = payload[1 + i - 1]
    BY <1>2, <2>1, Cut
  <2>3. Len(t) = 1 /\ t[1] = payload[1]
    BY <2>2
  <2>4. t = <<payload[1]>>
    <3> HIDE DEF t
    <3> QED BY <2>2, <2>3
  <2> QED BY <2>4
<1>7. SubSeq(payload, 1, SignatureEnd) = SubSeq(payload, 1, 1) \o signature'
  <2>1. 1 \in 1..(Len(payload) + 1) /\ 1 \in (1 - 1)..Len(payload)
        /\ SignatureEnd \in 1..Len(payload) /\ 1 + 1 = 2
    BY <1>2, <1>3, <1>4
  <2> QED BY <1>1, <1>2, <2>1, ConcatAdjacentSubSeq
<1>8. ReadFront' = <<payload[1]>> \o signature'
  BY <1>1, <1>5 DEF ReadFront
<1>9. ReadFront' \in Seq(Word)
  BY <1>4, <1>5, <1>8
<1> QED BY <1>1, <1>5, <1>6, <1>7, <1>8, <1>9, StartReading

(* One message more, with data or without. *)
LEMMA MessageReading ==
  ASSUME IInv, ReadingInv, phase = "loop", NEW e \in Messages(version),
         offset' \in offset..Len(payload),
         SubSeq(payload, offset + 1, offset') = Code(e, version),
         fields' = Append(fields, e),
         messages' = IF e.body = <<>> THEN messages ELSE Append(messages, e),
         UNCHANGED <<phase, payload, intact, version, signature, position>>
  PROVE  ReadingInv'
<1> DEFINE v == version
           f == ReadFront
           c == Encoded(fields, v)
           x == Code(e, v)
<1>1. /\ v \in {0, 1} /\ messages \in Seq(Messages(v)) /\ fields \in Seq(Messages(v))
      /\ f \in Seq(Word) /\ position = 0 /\ (v = 0 => signature \in Seq(Word))
      /\ SubSeq(payload, 1, offset) = f \o c /\ messages = WithData(fields)
  BY DEF ReadingInv, StartInv, CountInv, TileInv, DataInv
<1>2. /\ payload \in Seq(Word) /\ Len(payload) \in Nat /\ offset \in 0..Len(payload)
  BY DEF IInv, PayloadInv, OffsetInv
<1>3. c \in Seq(Word) /\ x \in Seq(Word) /\ Encoded(fields', v) = c \o x
  BY <1>1, EncodedAppend, CodeFacts
<1>4. SubSeq(payload, 1, offset') = f \o Encoded(fields', v)
  <2>1. 1 \in 1..(Len(payload) + 1) /\ offset \in (1 - 1)..Len(payload)
    BY <1>2
  <2>2. SubSeq(payload, 1, offset') = SubSeq(payload, 1, offset) \o SubSeq(payload, offset + 1, offset')
    BY <1>2, <2>1, ConcatAdjacentSubSeq
  <2>3. SubSeq(payload, 1, offset') = (f \o c) \o x
    BY <1>1, <2>2
  <2>4. (f \o c) \o x = f \o (c \o x)
    <3>1. f \in Seq(Word) /\ c \in Seq(Word) /\ x \in Seq(Word)
      BY <1>1, <1>3
    <3> HIDE DEF f, c, x
    <3>2. Associates(f, c, x)
      BY <3>1, Associate
    <3> QED BY <3>2 DEF Associates
  <2> QED BY <1>3, <2>3, <2>4
<1>5. UNCHANGED ReadFront
  BY DEF ReadFront
<1>6. fields' \in Seq(Messages(v)) /\ messages' \in Seq(Messages(v))
  BY <1>1
<1>7. TileInv'
  <2> HIDE DEF f
  <2> QED BY <1>1, <1>4, <1>5, <1>6 DEF TileInv, f
<1>8. CountInv'
  <2>1. 0 \in 0..Len(messages')
    BY <1>6
  <2> QED BY <1>1, <1>6, <2>1 DEF ReadingInv, CountInv
<1>9. DataInv'
  BY <1>1, WithDataAppend DEF DataInv
<1> QED BY <1>1, <1>7, <1>8, <1>9 DEF ReadingInv, StartInv

LEMMA SkipReading == ASSUME IInv, ReadingInv, SkipEmpty PROVE ReadingInv'
<1> DEFINE n == offset + HeaderSize
           e == Entry(<<>>)
<1>1. /\ AtMessage /\ ~HeaderMissing /\ version = 0 /\ BodySize = 0 /\ phase = "loop"
      /\ offset' = n /\ fields' = Append(fields, e)
      /\ UNCHANGED <<phase, payload, intact, version, signature, messages, position>>
  BY DEF SkipEmpty, IsEmpty, AtMessage, writeVars
<1>2. /\ Len(payload) \in Nat /\ offset \in Nat /\ HeaderSize \in Nat
      /\ HeaderSize <= Len(payload) - offset
  BY <1>1, HeaderFits, HeaderSizes DEF IInv, PayloadInv
<1>3. /\ n \in Nat /\ n = offset + HeaderSize + BodySize /\ n <= Len(payload)
      /\ n \in offset..Len(payload)
  BY <1>1, <1>2
<1>4. <<>> = SubSeq(payload, offset + HeaderSize + 1, n)
  BY <1>2, SubSeqEmpty
<1>5. /\ e \in Messages(version) /\ e.body = <<>>
      /\ SubSeq(payload, offset + 1, n) = Code(e, version)
  <2>1. PICK b : b = <<>>
    OBVIOUS
  <2>2. b = SubSeq(payload, offset + HeaderSize + 1, n)
    BY <1>4, <2>1, Zenon
  <2>2a. version \in {0, 1} /\ version # 1
    BY <1>1
  <2>3. /\ Entry(b) \in Messages(version) /\ Entry(b).body = b
        /\ SubSeq(payload, offset + 1, n) = Code(Entry(b), version)
    <3> HIDE DEF n, e
    <3> QED BY <1>1, <1>3, <2>2, <2>2a, ReadField
  <2> QED BY <2>1, <2>3, Zenon
<1> QED
  <2> HIDE DEF n, e
  <2> QED BY <1>1, <1>3, <1>5, MessageReading

LEMMA BodyEndIs ==
  ASSUME IInv, HasBody
  PROVE  /\ BodyEnd = HeaderSize + BodySize /\ offset \in Nat /\ HeaderSize \in Nat
         /\ BodySize \in Nat /\ HeaderSize + BodySize <= Remaining
<1>1. /\ Remaining \in Nat /\ Remaining <= MaxWord /\ HeaderSize \in 0..Remaining
      /\ offset \in Nat /\ BodySize \in Word
  BY HeaderFits DEF HasBody
<1>2. HeaderSize + BodySize <= Remaining /\ BodyEnd = HeaderSize + BodySize
  BY <1>1, ReadFits DEF HasBody, BodyMissing, BodyEnd
<1> QED BY <1>1, <1>2, FormatAssumption DEF Word

LEMMA ParseReading == ASSUME IInv, ReadingInv, ParseMessage PROVE ReadingInv'
<1> DEFINE n == offset + BodyEnd
           e == Entry(Body)
<1>0. version \in {0, 1}
  BY DEF ReadingInv, CountInv
<1>1. /\ HasBody /\ AtMessage /\ ~HeaderMissing /\ Decodes(Body) /\ phase = "loop"
      /\ offset' = n /\ fields' = Append(fields, e) /\ messages' = Append(messages, e)
      /\ UNCHANGED <<phase, payload, intact, version, signature, position>>
  BY DEF ParseMessage, HasBody, AtMessage, writeVars
<1>2. /\ BodyEnd = HeaderSize + BodySize /\ offset \in Nat /\ HeaderSize \in Nat
      /\ BodySize \in Nat /\ HeaderSize + BodySize <= Remaining
      /\ Len(payload) \in Nat /\ Remaining = Len(payload) - offset
  BY <1>1, BodyEndIs DEF IInv, PayloadInv, Remaining
<1>3. /\ n \in Nat /\ n = offset + HeaderSize + BodySize /\ n <= Len(payload)
      /\ n \in offset..Len(payload)
  BY <1>2
<1>4. Body = SubSeq(payload, offset + HeaderSize + 1, n)
  BY DEF Body
<1>5. version = 1 => Body \in DOMAIN FeedMessage
  BY <1>1 DEF Decodes
<1>6. /\ e \in Messages(version) /\ e.body = Body
      /\ SubSeq(payload, offset + 1, n) = Code(e, version)
  <2> HIDE DEF n, e
  <2> QED BY <1>0, <1>1, <1>3, <1>4, <1>5, ReadField DEF e
<1>7. Body # <<>>
  BY <1>0, <1>1, FormatAssumption DEF Decodes
<1> QED
  <2> HIDE DEF n, e
  <2> QED BY <1>1, <1>3, <1>6, <1>7, MessageReading

LEMMA ParsedReading == ASSUME IInv, ReadingInv, ParsedAll, ~Reject PROVE ReadingInv'
<1>1. /\ phase = "loop" /\ phase' = "verify" /\ offset >= Len(payload)
      /\ UNCHANGED <<payload, intact, version, offset, signature, messages, fields, position>>
  BY DEF ParsedAll, readVars
<1>2. offset = Len(payload)
  BY <1>1 DEF IInv, OffsetInv, PayloadInv
<1>3. UNCHANGED ReadFront
  BY <1>1 DEF ReadFront
<1> QED BY <1>1, <1>2, <1>3 DEF ReadingInv, StartInv, CountInv, TileInv, DataInv

LEMMA V1Filtered ==
  ASSUME VerifyV1, messages \in Seq(Messages(version))
  PROVE  messages' \in Seq(Messages(version))
<1> DEFINE S == {m \in Range(messages) : verifyV1Message(FeedMessage[m.body])}
           U == Messages(version)
<1>1. messages' = Filter(messages, S)
  BY DEF VerifyV1
<1>2. Filter(messages, S) \in Seq(U)
  <2> HIDE DEF S, U
  <2>1. messages \in Seq(U)
    BY DEF U
  <2> QED BY <2>1, FilterType
<1> QED BY <1>1, <1>2

LEMMA VerifyReading ==
  ASSUME ReadingInv, (VerifyV0 /\ ~Reject) \/ VerifyV1
  PROVE  ReadingInv'
<1>1. /\ phase = "verify" /\ phase' = "iterate" /\ position = 0
      /\ UNCHANGED <<payload, intact, version, offset, signature, fields, position>>
  BY DEF VerifyV0, VerifyV1, readVars, ReadingInv, StartInv
<1>2. messages' \in Seq(Messages(version))
  <2>1. CASE VerifyV1
    BY <2>1, V1Filtered DEF ReadingInv, CountInv
  <2>2. CASE VerifyV0 /\ ~Reject
    BY <2>2 DEF VerifyV0, readVars, ReadingInv, CountInv
  <2> QED BY <2>1, <2>2
<1>3. 0 \in 0..Len(messages')
  BY <1>2
<1>4. UNCHANGED ReadFront
  BY <1>1 DEF ReadFront
<1> QED BY <1>1, <1>2, <1>3, <1>4 DEF ReadingInv, StartInv, CountInv, TileInv, DataInv

LEMMA IterateReading == ASSUME ReadingInv, NextMessage \/ NoMoreMessages PROVE ReadingInv'
<1>1. /\ phase = "iterate" /\ phase' \in {"iterate", "end"}
      /\ UNCHANGED <<payload, intact, version, offset, signature, messages, fields>>
      /\ position' = position \/ (position < Len(messages) /\ position' = position + 1)
  BY DEF NextMessage, NoMoreMessages, readVars
<1>2. position' \in 0..Len(messages)
  BY <1>1 DEF ReadingInv, CountInv
<1>3. UNCHANGED ReadFront
  BY <1>1 DEF ReadFront
<1> QED BY <1>1, <1>2, <1>3 DEF ReadingInv, StartInv, CountInv, TileInv, DataInv

LEMMA ReadingRead == ASSUME IInv, ReadingInv, Read PROVE ReadingInv'
<1>1. CASE RejectUnknown \/ RejectTruncated \/ RejectUndecodable
  BY <1>1, RejectReading DEF RejectUnknown, RejectTruncated, RejectUndecodable, HasBody, AtMessage
<1>2. CASE ParseV1Header
  BY <1>2, V1Start
<1>3. CASE ParseV0Signature
  BY <1>3, V0Start, RejectReading DEF ParseV0Signature
<1>4. CASE SkipEmpty
  BY <1>4, SkipReading
<1>5. CASE ParseMessage
  BY <1>5, ParseReading
<1>6. CASE ParsedAll
  BY <1>6, ParsedReading, RejectReading DEF ParsedAll
<1>7. CASE VerifyV0 \/ VerifyV1
  BY <1>7, VerifyReading, RejectReading DEF VerifyV0
<1>8. CASE NextMessage \/ NoMoreMessages
  BY <1>8, IterateReading
<1> QED BY <1>1, <1>2, <1>3, <1>4, <1>5, <1>6, <1>7, <1>8 DEF Read, Parse

LEMMA ReadingStep == ASSUME IInv, ReadingInv, [Next]_vars PROVE ReadingInv'
<1>1. CASE Write
  <2>1. /\ UNCHANGED <<version, messages, fields, position>>
        /\ phase \in {"build", "sign", "sent"} /\ phase' \in {"build", "sign", "sent", "parse", "end"}
        /\ intact' \in BOOLEAN
    BY <1>1 DEF Write, AddMessage, StopBuilding, SignerFails, SignHotShotPayload, Arrive,
       ArriveAltered, readVars, ReadingInv, CountInv
  <2> QED BY <2>1 DEF ReadingInv, StartInv, CountInv, TileInv, DataInv
<1>2. CASE UNCHANGED vars
  <2>1. UNCHANGED ReadFront
    BY <1>2 DEF vars, readVars, ReadFront
  <2> QED BY <1>2, <2>1 DEF vars, readVars, ReadingInv, StartInv, CountInv, TileInv, DataInv
<1> QED BY <1>1, <1>2, ReadingRead DEF Next

LEMMA ReadingCorrect == Spec => [](IInv /\ WriterInv /\ ReadingInv)
<1>1. Init => IInv /\ WriterInv /\ ReadingInv
  BY InitInv, WriterInit, ReadingInit
<1>2. IInv /\ WriterInv /\ ReadingInv /\ [Next]_vars => (IInv /\ WriterInv /\ ReadingInv)'
  BY StepInv, WriterStep, ReadingStep
<1> QED BY <1>1, <1>2, PTL DEF Spec

(* The phases, the position in the payload and the iterator's position keep to *)
(* their ranges, whatever the payload is.                                      *)
THEOREM TypeCorrect == Spec => []TypeOK
<1>1. IInv /\ ReadingInv => TypeOK
  BY DEF IInv, PayloadInv, OffsetInv, ReadingInv, CountInv, TypeOK
<1> QED BY <1>1, ReadingCorrect, PTL

(* The parser cuts every payload it accepts into fields without gap or         *)
(* overlap: encoded again they give it back, whichever version it is in.       *)
THEOREM TilesCorrect == Spec => []FieldsTileInput
<1>1. ReadingInv => FieldsTileInput
  <2> SUFFICES ASSUME ReadingInv, phase \in {"loop", "verify", "iterate"}
               PROVE  /\ SubSeq(payload, 1, offset) =
                           IF version = 0 THEN encodeV0SignatureAndMessages(signature, fields)
                                          ELSE encodeV1HeaderAndBroadcastMessages(fields)
                      /\ phase # "loop" => offset = Len(payload)
    BY DEF FieldsTileInput
  <2>1. /\ version \in {0, 1} /\ SubSeq(payload, 1, offset) = ReadFront \o Encoded(fields, version)
        /\ phase # "loop" => offset = Len(payload)
    BY DEF ReadingInv, CountInv, TileInv
  <2>2. CASE version = 0
    BY <2>1, <2>2, EncodedIs DEF ReadFront, encodeV0SignatureAndMessages
  <2>3. CASE version = 1
    <3>1. ReadFront = encodeEmbeddedJSON(V1Header) /\ version # 0
      BY <2>3 DEF ReadFront
    <3>2. encodeV1HeaderAndBroadcastMessages(fields) = encodeEmbeddedJSON(V1Header) \o Encoded(fields, 1)
      BY EncodedIs, Zenon DEF encodeV1HeaderAndBroadcastMessages
    <3> QED BY <2>1, <2>3, <3>1, <3>2
  <2> QED BY <2>1, <2>2, <2>3
<1> QED BY <1>1, ReadingCorrect, PTL

------------------------------------------------------------------------------
(* What is handed out has been signed. *)
LEMMA CutBack ==
  ASSUME NEW a \in Seq(Word), NEW b \in Seq(Word)
  PROVE  SubSeq(a \o b, Len(a) + 1, Len(a \o b)) = b
<1> DEFINE s == a \o b
<1>1. Len(a) \in Nat /\ Len(b) \in Nat
  BY LenProperties
<1>2. /\ s \in Seq(Word) /\ Len(s) = Len(a) + Len(b)
      /\ \A i \in 1..(Len(a) + Len(b)) : s[i] = IF i <= Len(a) THEN a[i] ELSE b[i - Len(a)]
  BY Concat, Zenon DEF IsConcat
<1> HIDE DEF s
<1> DEFINE m == Len(a) + 1
           n == Len(s)
           t == SubSeq(s, m, n)
<1>3. m \in 1..(Len(s) + 1) /\ n \in (m - 1)..Len(s) /\ n - m + 1 = Len(b)
  BY <1>1, <1>2
<1>4. t \in Seq(Word) /\ Len(t) = Len(b) /\ \A i \in 1..Len(b) : t[i] = s[m + i - 1]
  <2> HIDE DEF m, n
  <2>1. t \in Seq(Word) /\ Len(t) = n - m + 1 /\ \A i \in 1..(n - m + 1) : t[i] = s[m + i - 1]
    BY <1>2, <1>3, Cut
  <2> HIDE DEF t
  <2> QED BY <1>3, <2>1
<1>5. ASSUME NEW i \in 1..Len(b) PROVE t[i] = b[i]
  <2>1. /\ m + i - 1 = Len(a) + i /\ Len(a) + i \in 1..(Len(a) + Len(b))
        /\ ~(Len(a) + i <= Len(a)) /\ (Len(a) + i) - Len(a) = i
    BY <1>1
  <2> HIDE DEF t, m
  <2> QED BY <1>2, <1>4, <2>1
<1>6. t = b
  <2> HIDE DEF t
  <2> QED BY <1>4, <1>5, SeqEqual
<1> QED BY <1>6 DEF s

(* At the end of the input the payload is the front and the fields. *)
LEMMA PayloadRead ==
  ASSUME IInv, ReadingInv, phase \in {"verify", "iterate"}
  PROVE  /\ version \in {0, 1} /\ fields \in Seq(Messages(version))
         /\ ReadFront \in Seq(Word) /\ Encoded(fields, version) \in Seq(Word)
         /\ payload = ReadFront \o Encoded(fields, version)
<1>1. /\ version \in {0, 1} /\ fields \in Seq(Messages(version)) /\ ReadFront \in Seq(Word)
      /\ SubSeq(payload, 1, Len(payload)) = ReadFront \o Encoded(fields, version)
  BY DEF ReadingInv, CountInv, TileInv
<1>2. SubSeq(payload, 1, Len(payload)) = payload
  BY SubSeqFull DEF IInv, PayloadInv
<1> QED BY <1>1, <1>2, EncodedType

LEMMA UserDataIs ==
  ASSUME IInv, ReadingInv, phase = "verify", version = 0
  PROVE  UserData = Encoded(fields, 0)
<1> DEFINE a == ReadFront
           b == Encoded(fields, 0)
<1>1. a \in Seq(Word) /\ b \in Seq(Word) /\ payload = a \o b
  BY PayloadRead
<1>2. Len(a) = LEN_SIZE + Len(signature)
  <2>1. signature \in Seq(Word)
    BY DEF ReadingInv, TileInv
  <2>2. a = <<Len(signature)>> \o signature
    BY DEF ReadFront
  <2>3. <<Len(signature)>> \in Seq(Nat) /\ signature \in Seq(Nat)
    <3>1. Word \subseteq Nat
      BY FormatAssumption DEF Word
    <3>2. signature \in Seq(Nat)
      BY <2>1, <3>1, SeqMonotonic
    <3>3. Len(signature) \in Nat
      BY <3>2
    <3> QED BY <3>2, <3>3
  <2> HIDE DEF a
  <2> QED BY <2>2, <2>3 DEF LEN_SIZE
<1> HIDE DEF a, b
<1>3. SubSeq(a \o b, Len(a) + 1, Len(a \o b)) = b
  BY <1>1, CutBack
<1>4. LEN_SIZE + Len(signature) + 1 = Len(a) + 1
  BY <1>2
<1> QED BY <1>1, <1>3, <1>4 DEF UserData, b

(* Version 0: the signature covers the messages and nothing else, and what it  *)
(* covers can be read in one way only.                                         *)
LEMMA V0Vouched ==
  ASSUME IInv, WriterInv, ReadingInv, phase = "verify", version = 0, V0Key \in ValidKeys
  PROVE  signed.key \in ValidKeys /\ fields = built /\ messages = WithData(built)
<1>1. signature = signed.quote /\ UserData = signed.content /\ signed.key \in ValidKeys
  BY FormatAssumption DEF V0Key
<1>2. signed # Unsigned
  BY <1>1, UnsignedKey, FormatAssumption
<1>3. built \in Seq(Messages0) /\ signed.content = Encoded(built, 0)
  BY <1>2 DEF WriterInv, SignedInv
<1>4. fields \in Seq(Messages(0)) /\ Messages(0) = Messages0
  BY PayloadRead DEF Messages
<1>5. Encoded(fields, 0) = Encoded(built, 0)
  BY <1>1, <1>3, UserDataIs
<1>6. fields = built
  BY <1>3, <1>4, <1>5, Injective
<1> QED BY <1>1, <1>6 DEF ReadingInv, DataInv

(* Texts that begin with two words, or with one, agree in these and in what    *)
(* follows.                                                                    *)
After1(a, p) == <<a>> \o p
After2(a, b, p) == <<a, b>> \o p

LEMMA TwoWords ==
  ASSUME NEW a \in Word, NEW b \in Word, NEW c \in Word, NEW d \in Word,
         NEW p \in Seq(Word), NEW q \in Seq(Word), After2(a, b, p) = After2(c, d, q)
  PROVE  a = c /\ b = d /\ p = q
<1> DEFINE x == <<a, b>>
           y == <<c, d>>
           v == x \o p
           w == y \o q
<1>1. x \in Seq(Word) /\ y \in Seq(Word) /\ Len(x) = 2 /\ Len(y) = 2
      /\ x[1] = a /\ x[2] = b /\ y[1] = c /\ y[2] = d
  OBVIOUS
<1>2. v = w
  BY DEF After2
<1> HIDE DEF x, y
<1>0. /\ Len(v) = 2 + Len(p) /\ Len(w) = 2 + Len(q) /\ Len(p) \in Nat /\ Len(q) \in Nat
      /\ \A i \in 1..(2 + Len(p)) : v[i] = IF i <= 2 THEN x[i] ELSE p[i - 2]
      /\ \A i \in 1..(2 + Len(q)) : w[i] = IF i <= 2 THEN y[i] ELSE q[i - 2]
  <2>1. /\ Len(v) = Len(x) + Len(p)
        /\ \A i \in 1..(Len(x) + Len(p)) : v[i] = IF i <= Len(x) THEN x[i] ELSE p[i - Len(x)]
    BY <1>1, ConcatProperties
  <2>2. /\ Len(w) = Len(y) + Len(q)
        /\ \A i \in 1..(Len(y) + Len(q)) : w[i] = IF i <= Len(y) THEN y[i] ELSE q[i - Len(y)]
    BY <1>1, ConcatProperties
  <2> QED BY <1>1, <2>1, <2>2
<1> HIDE DEF v, w
<1>3. v[1] = x[1] /\ v[2] = x[2] /\ w[1] = y[1] /\ w[2] = y[2]
  BY <1>0
<1>4. \A i \in 1..Len(p) : v[i + 2] = p[i]
  <2> TAKE i \in 1..Len(p)
  <2>1. i + 2 \in 1..(2 + Len(p)) /\ ~(i + 2 <= 2) /\ (i + 2) - 2 = i
    BY <1>0
  <2> QED BY <1>0, <2>1
<1>5. \A i \in 1..Len(q) : w[i + 2] = q[i]
  <2> TAKE i \in 1..Len(q)
  <2>1. i + 2 \in 1..(2 + Len(q)) /\ ~(i + 2 <= 2) /\ (i + 2) - 2 = i
    BY <1>0
  <2> QED BY <1>0, <2>1
<1>6. a = c /\ b = d
  BY <1>1, <1>2, <1>3
<1>7. Len(p) = Len(q)
  BY <1>0, <1>2
<1>8. p = q
  BY <1>2, <1>4, <1>5, <1>7
<1> QED BY <1>6, <1>8

LEMMA OneWord ==
  ASSUME NEW a \in Word, NEW b \in Word, NEW p \in Seq(Word), NEW q \in Seq(Word),
         After1(a, p) = After1(b, q)
  PROVE  a = b /\ p = q
<1> DEFINE v == <<a>> \o p
           w == <<b>> \o q
<1>1. v = w
  BY DEF After1
<1>2. Len(v) = 1 + Len(p) /\ Len(w) = 1 + Len(q) /\ v[1] = a /\ w[1] = b
  OBVIOUS
<1>3. \A i \in 1..Len(p) : v[i + 1] = p[i]
  OBVIOUS
<1>4. \A i \in 1..Len(q) : w[i + 1] = q[i]
  OBVIOUS
<1> HIDE DEF v, w
<1>5. Len(p) = Len(q)
  BY <1>1, <1>2
<1>6. p = q
  BY <1>1, <1>3, <1>4, <1>5
<1> QED BY <1>1, <1>2, <1>6

(* What a hash covers is a text. *)
LEMMA CoveredTexts ==
  ASSUME NEW m, IsFeedMessage(m), m.l1 \in DOMAIN RLPOf
  PROVE  CoveredByV1(m) \in Seq(Word) /\ CoveredByV2(m) \in Seq(Word)
<1>1. /\ RLPOf[m.l1] \in Seq(Word) /\ m.l1.header \in Seq(Word) /\ m.l1.requestId \in Seq(Word)
      /\ m.l1.baseFee \in Seq(Word) /\ m.l1.l2msg \in Seq(Word)
  BY FeedAssumption
<1>2. m.blockHash \in Seq(Word) /\ m.blockMetadata \in Seq(Word) /\ <<m.delayed>> \in Seq(Word)
  BY DEF IsFeedMessage
<1>3. CoveredByV1(m) \in Seq(Word)
  BY <1>1, <1>2, ConcatSize DEF CoveredByV1
<1>4. CoveredByV2(m) \in Seq(Word)
  BY <1>1, <1>2, ConcatSize DEF CoveredByV2
<1> QED BY <1>3, <1>4

(* A text of the first version holds the whole message. *)
LEMMA V1Whole ==
  ASSUME NEW m, NEW n, IsFeedMessage(m), IsFeedMessage(n),
         m.l1 \in DOMAIN RLPOf, n.l1 \in DOMAIN RLPOf, CoveredByV1(m) = CoveredByV1(n)
  PROVE  m.l1 = n.l1 /\ m.delayed = n.delayed
<1>1. RLPOf[m.l1] \in Seq(Word) /\ RLPOf[n.l1] \in Seq(Word)
  BY FeedAssumption
<1>2. m.delayed \in Word /\ n.delayed \in Word
  BY DEF IsFeedMessage
<1>3. m.delayed = n.delayed /\ RLPOf[m.l1] = RLPOf[n.l1]
  <2>1. After1(m.delayed, RLPOf[m.l1]) = After1(n.delayed, RLPOf[n.l1])
    BY DEF CoveredByV1, After1
  <2> QED BY <1>1, <1>2, <2>1, OneWord
<1> QED BY <1>3, FeedAssumption

(* Two hashes are equal only if the texts are: number and chain are the same,  *)
(* or exchanged if the versions differ, and so is what follows.                *)
LEMMA SameHash ==
  ASSUME NEW s, IsSignature(s), NEW f, IsFeedMessage(f), f.l1 \in DOMAIN RLPOf,
         NEW v2 \in BOOLEAN, FeedHash(v2, f, ChainID) = FeedHash(s.v2, s.over, s.chain)
  PROVE  Vouches(s, f)
<1> DEFINE g == s.over
           c == s.chain
<1>1. /\ g.seq \in Word /\ f.seq \in Word /\ c \in Word /\ ChainID \in Word
      /\ IsFeedMessage(g) /\ g.l1 \in DOMAIN RLPOf /\ s.v2 \in BOOLEAN
  <2>1. IsFeedMessage(g) /\ g.l1 \in DOMAIN RLPOf /\ s.v2 \in BOOLEAN /\ c \in Word
    BY DEF IsSignature
  <2>2. g.seq \in Word /\ f.seq \in Word
    BY <2>1 DEF IsFeedMessage
  <2> QED BY <2>1, <2>2, FeedAssumption
<1>2. /\ CoveredByV1(g) \in Seq(Word) /\ CoveredByV2(g) \in Seq(Word)
      /\ CoveredByV1(f) \in Seq(Word) /\ CoveredByV2(f) \in Seq(Word)
  BY <1>1, CoveredTexts
<1> HIDE DEF g, c
<1>3. CASE s.v2 = TRUE /\ v2 = TRUE
  <2>1. After2(ChainID, f.seq, CoveredByV2(f)) = After2(c, g.seq, CoveredByV2(g))
    BY <1>3 DEF FeedHash, ComputeBroadcastFeedMessageHashV2, After2, g, c
  <2>2. ChainID = c /\ f.seq = g.seq /\ CoveredByV2(f) = CoveredByV2(g)
    BY <1>1, <1>2, <2>1, TwoWords
  <2> QED BY <1>3, <2>2 DEF Vouches, g, c
<1>4. CASE s.v2 = FALSE /\ v2 = FALSE
  <2>1. After2(f.seq, ChainID, CoveredByV1(f)) = After2(g.seq, c, CoveredByV1(g))
    BY <1>4 DEF FeedHash, ComputeBroadcastFeedMessageHash, After2, g, c
  <2>2. ChainID = c /\ f.seq = g.seq /\ CoveredByV1(g) = CoveredByV1(f)
    BY <1>1, <1>2, <2>1, TwoWords
  <2>3. g.l1 = f.l1 /\ g.delayed = f.delayed
    BY <1>1, <2>2, V1Whole
  <2> QED BY <1>4, <2>2, <2>3 DEF Vouches, g, c
<1>5. CASE s.v2 = FALSE /\ v2 = TRUE
  <2>1. After2(ChainID, f.seq, CoveredByV2(f)) = After2(g.seq, c, CoveredByV1(g))
    BY <1>5 DEF FeedHash, ComputeBroadcastFeedMessageHash,
           ComputeBroadcastFeedMessageHashV2, After2, g, c
  <2>2. ChainID = g.seq /\ f.seq = c /\ CoveredByV2(f) = CoveredByV1(g)
    BY <1>1, <1>2, <2>1, TwoWords
  <2> QED BY <1>5, <2>2 DEF Vouches, g, c
<1>6. CASE s.v2 = TRUE /\ v2 = FALSE
  <2>1. After2(f.seq, ChainID, CoveredByV1(f)) = After2(c, g.seq, CoveredByV2(g))
    BY <1>6 DEF FeedHash, ComputeBroadcastFeedMessageHash,
           ComputeBroadcastFeedMessageHashV2, After2, g, c
  <2>2. ChainID = g.seq /\ f.seq = c /\ CoveredByV1(f) = CoveredByV2(g)
    BY <1>1, <1>2, <2>1, TwoWords
  <2> QED BY <1>6, <2>2 DEF Vouches, g, c
<1> QED BY <1>1, <1>3, <1>4, <1>5, <1>6

(* Version 1: a key is recovered only over the hash that was signed. *)
LEMMA V1Vouched ==
  ASSUME NEW t \in DOMAIN FeedMessage, verifyV1Message(FeedMessage[t])
  PROVE  \E s \in SequencerSignatures : Vouches(s, FeedMessage[t])
<1> DEFINE f == FeedMessage[t]
           sh == SequencerSignatureAndHasher(f)
           s == sh.signature
           h == FeedHash(sh.v2, f, ChainID)
<1>1. s # NoSignature /\ f.l1 # NoMessage /\ SigToPub(h, s) \in ValidKeys
  BY DEF verifyV1Message
<1>2. h = FeedHash(s.v2, s.over, s.chain) /\ s.key \in ValidKeys
  BY <1>1, FormatAssumption DEF SigToPub
<1>3. /\ s = f.signature \/ s = f.signatureV2
      /\ sh.v2 \in BOOLEAN
  BY DEF SequencerSignatureAndHasher
<1>4. IsFeedMessage(f) /\ f.l1 \in DOMAIN RLPOf /\ IsSignature(s)
  <2>1. /\ IsFeedMessage(f) /\ (f.l1 # NoMessage => f.l1 \in DOMAIN RLPOf)
        /\ (f.signature # NoSignature => IsSignature(f.signature))
        /\ (f.signatureV2 # NoSignature => IsSignature(f.signatureV2))
    BY FeedAssumption
  <2> HIDE DEF f, s
  <2> QED BY <1>1, <1>3, <2>1
<1>5. s \in SequencerSignatures
  <2>1. s \in (UNION {{FeedMessage[u].signature, FeedMessage[u].signatureV2} :
                       u \in DOMAIN FeedMessage}) \ {NoSignature}
    BY <1>1, <1>3
  <2> HIDE DEF s
  <2> QED BY <1>2, <2>1 DEF SequencerSignatures
<1> HIDE DEF f, s, sh
<1>6. Vouches(s, f)
  BY <1>2, <1>3, <1>4, SameHash
<1> QED BY <1>5, <1>6 DEF f

LEMMA V1AllVouched ==
  ASSUME ReadingInv, VerifyV1
  PROVE  \A i \in DOMAIN messages' :
           VouchedFeed(messages'[i])
<1> DEFINE S == {m \in Range(messages) : verifyV1Message(FeedMessage[m.body])}
           U == Messages(1)
<1>1. messages' = Filter(messages, S) /\ messages \in Seq(U)
  BY DEF VerifyV1, ReadingInv, CountInv
<1>2. messages' \in Seq(U \cap S)
  <2> HIDE DEF S, U
  <2> QED BY <1>1, FilterType
<1>3. ASSUME NEW i \in DOMAIN messages'
      PROVE  VouchedFeed(messages'[i])
  <2>1. messages'[i] \in U /\ messages'[i] \in S
    <3> HIDE DEF S, U
    <3> QED BY <1>2, LenProperties, ElementOfSeq
  <2>2. PICK t \in DOMAIN FeedMessage : messages'[i] = FeedEntry(t)
    BY <2>1 DEF Messages, Messages1
  <2>3. messages'[i].body = t /\ messages'[i].pos = FeedMessage[t].seq
    BY <2>2, FeedEntryFacts
  <2>4. verifyV1Message(FeedMessage[t])
    BY <2>1, <2>3
  <2>5. \E s \in SequencerSignatures : Vouches(s, FeedMessage[t])
    BY <2>4, V1Vouched
  <2> QED BY <2>3, <2>5 DEF VouchedFeed
<1> QED BY <1>3

LEMMA VouchedStep ==
  ASSUME IInv, WriterInv, ReadingInv, VouchedInv, [Next]_vars
  PROVE  VouchedInv'
<1> SUFFICES ASSUME phase' \in {"iterate", "end"}, messages' # <<>> PROVE Vouched'
  BY DEF VouchedInv
<1> USE DEF writeVars, readVars
<1>1. CASE Write
  <2>1. UNCHANGED messages /\ phase \in {"build", "sign", "sent"}
    BY <1>1 DEF Write, AddMessage, StopBuilding, SignerFails, SignHotShotPayload, Arrive,
       ArriveAltered
  <2> QED BY <2>1 DEF ReadingInv, StartInv
<1>2. CASE Parse
  <2>1. phase' \in {"loop", "verify"} \/ messages' = <<>>
    <3>1. CASE RejectUnknown \/ RejectTruncated \/ RejectUndecodable
      BY <3>1 DEF RejectUnknown, RejectTruncated, RejectUndecodable, Reject
    <3>2. CASE ParseV1Header \/ ParseV0Signature \/ SkipEmpty \/ ParseMessage \/ ParsedAll
      BY <3>2 DEF ParseV1Header, ParseV0Signature, SkipEmpty, ParseMessage, HasBody,
         AtMessage, ParsedAll, Reject
    <3> QED BY <1>2, <3>1, <3>2 DEF Parse
  <2> QED BY <2>1
<1>3. CASE VerifyV0
  <2>1. /\ phase = "verify" /\ version = 0 /\ V0Key \in ValidKeys
        /\ UNCHANGED <<version, signed, built, messages>>
    BY <1>3 DEF VerifyV0, Reject
  <2>2. signed.key \in ValidKeys /\ messages = WithData(built)
    BY <2>1, V0Vouched
  <2> QED BY <2>1, <2>2 DEF Vouched
<1>4. CASE VerifyV1
  <2>1. version = 1 /\ UNCHANGED version
    BY <1>4 DEF VerifyV1
  <2> QED BY <1>4, <2>1, V1AllVouched DEF Vouched
<1>5. CASE NextMessage \/ NoMoreMessages \/ UNCHANGED vars
  <2>1. UNCHANGED <<version, signed, built, messages>> /\ phase \in {"iterate", "end"}
    BY <1>5 DEF NextMessage, NoMoreMessages, vars
  <2> QED BY <2>1 DEF VouchedInv, Vouched
<1> QED BY <1>1, <1>2, <1>3, <1>4, <1>5 DEF Next, Read

(* Whatever is written to the namespace, the streamer is handed only messages  *)
(* that a valid key has signed: the batch poster's at the positions they were  *)
(* signed for, the feed's as far as the hash they were signed with goes.       *)
THEOREM SignedCorrect == Spec => []OnlySignedDelivered
<1>1. Init => VouchedInv
  BY DEF Init, VouchedInv
<1>2. IInv /\ WriterInv /\ ReadingInv /\ VouchedInv /\ [Next]_vars => VouchedInv'
  BY VouchedStep
<1>3. ReadingInv /\ VouchedInv => OnlySignedDelivered
  <2> SUFFICES ASSUME ReadingInv, VouchedInv, Delivered # <<>>
               PROVE  IF version = 0
                        THEN signed.key \in ValidKeys /\ IsPrefix(Delivered, WithData(built))
                        ELSE \A i \in DOMAIN Delivered :
                               VouchedFeed(Delivered[i])
    BY DEF OnlySignedDelivered, VouchedFeed
  <2> DEFINE M == Messages(version)
             d == Delivered
  <2>1. /\ messages \in Seq(M) /\ position \in 0..Len(messages) /\ Len(messages) \in Nat
        /\ version \in {0, 1}
    BY DEF ReadingInv, CountInv
  <2>2. position # 0
    <3> SUFFICES ASSUME position = 0 PROVE FALSE
      OBVIOUS
    <3>1. Delivered = <<>>
      BY SubSeqEmpty DEF Delivered
    <3> QED BY <3>1
  <2>3. phase \in {"iterate", "end"} /\ messages # <<>>
    BY <2>1, <2>2 DEF ReadingInv, StartInv, CountInv
  <2>4. Vouched
    BY <2>3 DEF VouchedInv
  <2>5. /\ d \in Seq(M) /\ Len(d) = position /\ \A i \in 1..position : d[i] = messages[i]
    <3> HIDE DEF M
    <3> QED BY <2>1, <2>2 DEF Delivered
  <2>6. CASE version = 0
    <3>1. signed.key \in ValidKeys /\ messages = WithData(built)
      BY <2>4, <2>6 DEF Vouched
    <3>2. Len(d) <= Len(messages) /\ SubSeq(d, 1, Len(d)) = d /\ d = SubSeq(messages, 1, Len(d))
      <4>1. SubSeq(d, 1, Len(d)) = d
        <5> HIDE DEF d, M
        <5> QED BY <2>5, SubSeqFull
      <4> QED BY <2>1, <2>5, <4>1 DEF Delivered
    <3>3. IsPrefix(d, messages)
      <4> HIDE DEF d
      <4> QED BY <3>2 DEF IsPrefix
    <3> QED BY <2>6, <3>1, <3>3
  <2>7. CASE version # 0
    <3>1. DOMAIN d = 1..position /\ DOMAIN messages = 1..Len(messages)
      <4> HIDE DEF d, M
      <4> QED BY <2>1, <2>5, LenProperties
    <3>2. ASSUME NEW i \in DOMAIN d
          PROVE  VouchedFeed(d[i])
      <4>1. i \in DOMAIN messages /\ d[i] = messages[i]
        BY <2>1, <2>5, <3>1
      <4> HIDE DEF d
      <4> QED BY <2>4, <2>7, <4>1 DEF Vouched
    <3> QED BY <2>7, <3>2
  <2> QED BY <2>6, <2>7
<1> QED BY <1>1, <1>2, <1>3, ReadingCorrect, PTL DEF Spec

------------------------------------------------------------------------------
(* What arrives intact is handed out: the parser reads back, message by        *)
(* message, what was written.                                                  *)
LEMMA PrefixOf ==
  ASSUME NEW a \in Seq(Word), NEW b \in Seq(Word)
  PROVE  Len(a) <= Len(a \o b) /\ SubSeq(a \o b, 1, Len(a)) = a
<1> DEFINE s == a \o b
           e == <<>>
<1>1. e \in Seq(Word) /\ Len(e) = 0 /\ e \o e = e
  OBVIOUS
<1>2. a \o (e \o e) = a
  <2>1. a \o e = a
    OBVIOUS
  <2> QED BY <1>1, <2>1
<1>3. Found((a \o (e \o e)) \o b, a, e, e)
  <2> HIDE DEF e
  <2> QED BY <1>1, WrittenIsFound, Zenon
<1>4. Found(s, a, e, e)
  BY <1>2, <1>3, Zenon
<1>5. Len(a) \in Nat
  BY LenProperties
<1> HIDE DEF e, s
<1>6. Len(s) >= Len(a) + Len(e) + Len(e) /\ SubSeq(s, 1, Len(a)) = a
  BY <1>4 DEF Found
<1>7. s \in Seq(Word) /\ Len(s) \in Nat
  BY DEF s
<1> QED BY <1>1, <1>5, <1>6, <1>7 DEF s

LEMMA WrittenFacts ==
  ASSUME WriterInv, phase = "sent" \/ intact
  PROVE  /\ WrittenVersion \in {0, 1} /\ built \in Seq(Messages(WrittenVersion))
         /\ WrittenFront \in Seq(Word) /\ Encoded(built, WrittenVersion) \in Seq(Word)
         /\ payload = WrittenFront \o Encoded(built, WrittenVersion)
         /\ WrittenFront = IF signed = Unsigned THEN <<Len(V1Header)>> \o V1Header
                                               ELSE <<Len(signed.quote)>> \o signed.quote
         /\ signed # Unsigned => signed.quote \in Seq(Word)
<1>1. Whole /\ (signed # Unsigned => signed.quote \in Seq(Word) /\ Len(signed.quote) \in Word)
  BY DEF WriterInv, WholeInv, SignedInv
<1>2. WrittenVersion \in {0, 1}
  BY DEF WrittenVersion
<1>3. built \in Seq(Messages(WrittenVersion)) /\ payload = WrittenFront \o Encoded(built, WrittenVersion)
  BY <1>1 DEF Whole
<1>4. Encoded(built, WrittenVersion) \in Seq(Word)
  BY <1>2, <1>3, EncodedType
<1>5. WrittenFront = IF signed = Unsigned THEN <<Len(V1Header)>> \o V1Header
                                         ELSE <<Len(signed.quote)>> \o signed.quote
  BY DEF WrittenFront, encodeEmbeddedJSON
<1>6. WrittenFront \in Seq(Word)
  <2>1. ASSUME NEW q \in Seq(Word), Len(q) \in Word PROVE <<Len(q)>> \o q \in Seq(Word)
    BY <2>1
  <2> QED BY <1>1, <1>5, <2>1, FormatAssumption
<1> QED BY <1>1, <1>2, <1>3, <1>4, <1>5, <1>6

(* The front of an intact payload, as a header cell and a body. *)
LEMMA FrontFound ==
  ASSUME NEW q \in Seq(Word), Len(q) \in Word, NEW c \in Seq(Word),
         payload = (<<Len(q)>> \o q) \o c
  PROVE  /\ Len(payload) \in Nat /\ 1 + Len(q) <= Len(payload)
         /\ payload[1] = Len(q) /\ SubSeq(payload, 2, 1 + Len(q)) = q
         /\ IsPrefix(<<Len(q)>>, payload) /\ IsPrefix(<<Len(q)>> \o q, payload)
<1> DEFINE e == <<>>
           h == <<Len(q)>>
           hq == h \o q
<1>1. /\ e \in Seq(Word) /\ h \in Seq(Word) /\ Len(e) = 0 /\ Len(h) = 1 /\ h[1] = Len(q)
      /\ hq \in Seq(Word) /\ Len(q) \in Nat
  OBVIOUS
<1>2. e \o hq = hq
  <2> HIDE DEF hq
  <2> QED BY <1>1
<1>3. Found((e \o (h \o q)) \o c, e, h, q)
  <2> HIDE DEF e, h, hq
  <2> QED BY <1>1, WrittenIsFound, Zenon
<1>4. Found(payload, e, h, q)
  BY <1>2, <1>3
<1>5. payload \in Seq(Word)
  <2> HIDE DEF hq
  <2>1. payload = hq \o c
    BY DEF hq
  <2> QED BY <1>1, <2>1
<1>6. Len(hq) <= Len(payload) /\ SubSeq(payload, 1, Len(hq)) = hq /\ SubSeq(hq, 1, Len(hq)) = hq
  <2>1. payload = hq \o c
    OBVIOUS
  <2> HIDE DEF hq
  <2> QED BY <1>1, <2>1, PrefixOf, SubSeqFull
<1>7. /\ Len(payload) \in Nat /\ Len(payload) >= 0 + 1 + Len(q)
      /\ payload[0 + 1] = Len(q) /\ SubSeq(payload, 0 + 1 + 1, 0 + 1 + Len(q)) = q
  <2>1. Len(payload) \in Nat
    BY <1>5
  <2>2. 1 \in 1..Len(h)
    BY <1>1
  <2> HIDE DEF e, h
  <2> QED BY <1>1, <1>4, <2>1, <2>2 DEF Found
<1>8. 1 <= Len(payload) /\ 0 + 1 + Len(q) = 1 + Len(q) /\ 0 + 1 = 1 /\ 0 + 1 + 1 = 2
  BY <1>1, <1>7
<1>9. SubSeq(payload, 1, 1) = h /\ SubSeq(h, 1, 1) = h
  <2> DEFINE t == SubSeq(payload, 1, 1)
             u == SubSeq(h, 1, 1)
  <2>1. 1 \in 1..(Len(payload) + 1) /\ 1 \in (1 - 1)..Len(payload)
    BY <1>7, <1>8
  <2>2. t \in Seq(Word) /\ Len(t) = 1 - 1 + 1 /\ \A i \in 1..(1 - 1 + 1) : t[i] = payload[1 + i - 1]
    BY <1>5, <2>1, Cut
  <2>3. Len(t) = 1 /\ t[1] = Len(q)
    <3> HIDE DEF t
    <3> QED BY <1>7, <2>2
  <2>4. t = h
    <3> HIDE DEF t
    <3> QED BY <2>2, <2>3
  <2>5. u = h
    <3> HIDE DEF h
    <3> QED BY <1>1, SubSeqFull
  <2> QED BY <2>4, <2>5
<1> QED
  <2> HIDE DEF h, hq
  <2>1. IsPrefix(h, payload) /\ IsPrefix(hq, payload)
    BY <1>1, <1>6, <1>8, <1>9 DEF IsPrefix
  <2> QED BY <1>7, <1>8, <2>1 DEF h, hq

(* The version is recognised. *)
LEMMA KnownFront ==
  ASSUME IInv, WriterInv, intact, Expected
  PROVE  /\ signed = Unsigned => IsV1
         /\ signed # Unsigned =>
              /\ IsV0 /\ ~SignatureMissing /\ SignatureEnd = 1 + Len(signed.quote)
              /\ SubSeq(payload, 2, SignatureEnd) = signed.quote
<1> DEFINE c == Encoded(built, WrittenVersion)
           h == encodeEmbeddedJSON(V1Header)
<1>1. c \in Seq(Word) /\ payload = WrittenFront \o c
  BY WrittenFacts
<1> HIDE DEF c
<1>2. CASE signed = Unsigned
  <2>1. payload = (<<Len(V1Header)>> \o V1Header) \o c
    BY <1>1, <1>2, WrittenFacts
  <2>2. IsPrefix(<<Len(V1Header)>> \o V1Header, payload)
    BY <1>1, <2>1, FrontFound, FormatAssumption
  <2> QED BY <1>2, <2>2 DEF IsV1, encodeEmbeddedJSON
<1>3. CASE signed # Unsigned
  <2> DEFINE q == signed.quote
  <2>1. q \in Seq(Word) /\ payload = (<<Len(q)>> \o q) \o c /\ Len(q) = SignatureSize
    BY <1>1, <1>3, WrittenFacts DEF Expected
  <2>2. Len(q) \in Word
    BY <2>1, FormatAssumption
  <2> HIDE DEF q
  <2>3. /\ Len(payload) \in Nat /\ 1 + Len(q) <= Len(payload)
        /\ payload[1] = Len(q) /\ SubSeq(payload, 2, 1 + Len(q)) = q
        /\ IsPrefix(<<Len(q)>>, payload)
    BY <1>1, <2>1, <2>2, FrontFound
  <2>4. ~IsV1
    <3> SUFFICES ASSUME IsV1 PROVE FALSE
      OBVIOUS
    <3>1. h \in Seq(Word) /\ Len(h) = 1 + Len(V1Header) /\ h[1] = Len(V1Header)
      BY FormatAssumption DEF encodeEmbeddedJSON
    <3>2. 1 \in 1..Len(h) /\ 1 + Len(V1Header) <= Len(payload)
      <4>1. Len(h) <= Len(payload) /\ Len(V1Header) \in Nat
        BY FormatAssumption DEF IsV1, IsPrefix
      <4> QED BY <3>1, <4>1
    <3>3. SubSeq(payload, 1, 1 + Len(V1Header)) = h
      BY V1Front DEF LEN_SIZE
    <3>4. SubSeq(payload, 1, 1 + Len(V1Header))[1] = payload[1]
      <4>1. 1 \in 1..(Len(payload) + 1) /\ 1 + Len(V1Header) \in (1 - 1)..Len(payload)
            /\ 1 \in 1..(1 + Len(V1Header) - 1 + 1) /\ 1 + 1 - 1 = 1
        BY <2>3, <3>2, FormatAssumption
      <4> QED BY <4>1, Cut DEF IInv, PayloadInv
    <3> QED BY <2>1, <2>3, <3>1, <3>3, <3>4, FormatAssumption
  <2>5. ~SignatureMissing /\ SignatureEnd = 1 + Len(q)
    <3>1. Len(payload) <= MaxWord /\ MaxWord \in Nat /\ Len(q) \in Nat
      BY <2>2, FormatAssumption DEF IInv, PayloadInv, Word
    <3>2. Sub(Len(payload), 1) = Len(payload) - 1 /\ Add(1, Len(q)) = 1 + Len(q)
      <4>1. Len(payload) - 1 \in Nat /\ Len(payload) - 1 <= MaxWord /\ 1 + Len(q) \in Nat
            /\ 1 + Len(q) <= MaxWord
        BY <2>3, <3>1
      <4> QED BY <4>1, NoWrap DEF Sub, Add
    <3>3. ~(Len(q) > Len(payload) - 1)
      BY <2>3, <3>1
    <3> QED BY <2>3, <3>2, <3>3 DEF SignatureMissing, SignatureEnd, CanSafelyReadElements, LEN_SIZE
  <2> QED BY <1>3, <2>1, <2>3, <2>4, <2>5 DEF IsV0, q
<1> QED BY <1>2, <1>3

(* While one reads an intact payload. *)
LEMMA KeptFacts ==
  ASSUME IInv, WriterInv, ReadingInv, KeptInv, intact, Expected, phase \in {"loop", "verify"}
  PROVE  /\ version \in {0, 1} /\ version = WrittenVersion /\ ReadFront = WrittenFront
         /\ version = 0 => signature = signed.quote
         /\ built \in Seq(Messages(version)) /\ fields \in Seq(Messages(version))
         /\ Len(fields) \in Nat /\ Len(built) \in Nat /\ Len(fields) <= Len(built)
         /\ fields = SubSeq(built, 1, Len(fields))
         /\ ReadFront \in Seq(Word) /\ Encoded(fields, version) \in Seq(Word)
         /\ payload = ReadFront \o Encoded(built, version)
         /\ SubSeq(payload, 1, offset) = ReadFront \o Encoded(fields, version)
<1>1. /\ version = WrittenVersion /\ ReadFront = WrittenFront
      /\ version = 0 => signature = signed.quote
      /\ Len(fields) <= Len(built) /\ fields = SubSeq(built, 1, Len(fields))
  BY DEF KeptInv
<1>2. /\ fields \in Seq(Messages(version)) /\ version \in {0, 1}
      /\ SubSeq(payload, 1, offset) = ReadFront \o Encoded(fields, version)
  BY DEF ReadingInv, TileInv, CountInv
<1>3. /\ built \in Seq(Messages(version)) /\ ReadFront \in Seq(Word)
      /\ payload = ReadFront \o Encoded(built, version)
  BY <1>1, WrittenFacts
<1>4. Len(fields) \in Nat /\ Len(built) \in Nat
  BY <1>2, <1>3, LenProperties
<1>5. Encoded(fields, version) \in Seq(Word)
  BY <1>2, EncodedType
<1> QED BY <1>1, <1>2, <1>3, <1>4, <1>5

LEMMA CancelLeft ==
  ASSUME NEW a \in Seq(Word), NEW b \in Seq(Word), NEW c \in Seq(Word), a \o b = a \o c
  PROVE  b = c
<1>1. SubSeq(a \o b, Len(a) + 1, Len(a \o b)) = b
  BY CutBack
<1>2. SubSeq(a \o c, Len(a) + 1, Len(a \o c)) = c
  BY CutBack
<1> QED BY <1>1, <1>2, Zenon

(* At the end of the payload everything that was written has been read. *)
LEMMA AllRead ==
  ASSUME IInv, WriterInv, ReadingInv, KeptInv, intact, Expected,
         phase \in {"loop", "verify"}, offset = Len(payload)
  PROVE  fields = built /\ messages = WithData(built)
<1>1. /\ version \in {0, 1} /\ built \in Seq(Messages(version)) /\ fields \in Seq(Messages(version))
      /\ ReadFront \in Seq(Word)
      /\ payload = ReadFront \o Encoded(built, version)
      /\ SubSeq(payload, 1, Len(payload)) = ReadFront \o Encoded(fields, version)
  BY KeptFacts
<1>2. SubSeq(payload, 1, Len(payload)) = payload
  BY SubSeqFull DEF IInv, PayloadInv
<1>3. Encoded(fields, version) \in Seq(Word) /\ Encoded(built, version) \in Seq(Word)
  BY <1>1, EncodedType
<1>4. Encoded(fields, version) = Encoded(built, version)
  <2>1. ReadFront \o Encoded(fields, version) = ReadFront \o Encoded(built, version)
    BY <1>1, <1>2
  <2> QED BY <1>1, <1>3, <2>1, CancelLeft
<1>5. fields = built
  BY <1>1, <1>4, Injective
<1> QED BY <1>5 DEF ReadingInv, DataInv

(* Before that, the next message that was written lies at the read position. *)
LEMMA NextWritten ==
  ASSUME IInv, WriterInv, ReadingInv, KeptInv, intact, Expected, AtMessage
  PROVE  /\ Len(fields) < Len(built) /\ built[Len(fields) + 1] \in Messages(version)
         /\ Found(payload, SubSeq(payload, 1, offset),
                  HeaderOf(built[Len(fields) + 1], version), built[Len(fields) + 1].body)
         /\ Len(SubSeq(payload, 1, offset)) = offset
<1> DEFINE v == version
           k == Len(fields)
           m == built[k + 1]
           f == ReadFront
           c == Encoded(fields, v)
           h == HeaderOf(m, v)
           body == m.body
           a == SubSeq(payload, 1, offset)
<1>1. phase = "loop" /\ offset < Len(payload)
  BY DEF AtMessage
<1>2. /\ v \in {0, 1} /\ built \in Seq(Messages(v)) /\ fields \in Seq(Messages(v))
      /\ k \in Nat /\ Len(built) \in Nat /\ k <= Len(built) /\ fields = SubSeq(built, 1, k)
      /\ f \in Seq(Word) /\ c \in Seq(Word) /\ payload = f \o Encoded(built, v) /\ a = f \o c
  BY <1>1, KeptFacts
<1>3. payload \in Seq(Word) /\ Len(payload) \in Nat /\ offset \in 0..Len(payload)
  BY DEF IInv, PayloadInv, OffsetInv
<1>4. Len(a) = offset /\ a \in Seq(Word)
  <2>1. 1 \in 1..(Len(payload) + 1) /\ offset \in (1 - 1)..Len(payload) /\ offset - 1 + 1 = offset
    BY <1>3
  <2> QED BY <1>3, <2>1, Cut
<1>5. k < Len(built)
  <2> SUFFICES ASSUME k = Len(built) PROVE FALSE
    BY <1>2
  <2>1. fields = built
    BY <1>2, SubSeqFull
  <2>2. payload = a
    BY <1>2, <2>1
  <2>3. Len(payload) = offset
    BY <1>4, <2>2, Zenon
  <2> QED BY <1>1, <1>3, <2>3
<1>6. k \in 0..(Len(built) - 1) /\ k + 1 \in 1..Len(built)
  BY <1>2, <1>5
<1>7. m \in Messages(v)
  BY <1>2, <1>6, ElementOfSeq
<1>8. h \in Seq(Word) /\ body \in Seq(Word) /\ Code(m, v) = h \o body
  BY <1>2, <1>7, CodeFacts DEF Code
<1>9. PICK rest \in Seq(Word) : Encoded(built, v) = (c \o (h \o body)) \o rest
  <2>1. \E rest \in Seq(Word) :
           Encoded(built, v) = (Encoded(SubSeq(built, 1, k), v) \o Code(built[k + 1], v)) \o rest
    BY <1>2, <1>6, EncodedSplit
  <2> QED BY <1>2, <1>8, <2>1
<1>10. payload = (a \o (h \o body)) \o rest
  <2> DEFINE x == h \o body
  <2>1. x \in Seq(Word)
    BY <1>8
  <2>2. payload = f \o ((c \o x) \o rest) /\ f \in Seq(Word) /\ c \in Seq(Word) /\ a = f \o c
    BY <1>2, <1>9
  <2> HIDE DEF x, f, c, a
  <2>3. c \o x \in Seq(Word)
    BY <2>1, <2>2
  <2>4. Associates(f, c \o x, rest) /\ Associates(f, c, x)
    BY <2>1, <2>2, <2>3, Associate
  <2>5. payload = (a \o x) \o rest
    BY <2>2, <2>4 DEF Associates
  <2> QED BY <2>5 DEF x
<1>11. Found((a \o (h \o body)) \o rest, a, h, body)
  <2> HIDE DEF a, h, body
  <2> QED BY <1>4, <1>8, WrittenIsFound, Zenon
<1> QED BY <1>4, <1>5, <1>7, <1>10, <1>11

(* So none of the parser's errors is raised, and that message is read. *)
LEMMA NextRead ==
  ASSUME IInv, WriterInv, ReadingInv, KeptInv, intact, Expected, AtMessage,
         NEW m, m = built[Len(fields) + 1]
  PROVE  /\ ~HeaderMissing /\ Entry(m.body) = m
         /\ IsEmpty => m.body = <<>>
         /\ ~IsEmpty => ~BodyMissing /\ Body = m.body /\ Decodes(m.body)
<1> DEFINE v == version
           h == HeaderOf(m, v)
           body == m.body
           a == SubSeq(payload, 1, offset)
<1>1. /\ m \in Messages(v) /\ Found(payload, a, h, body) /\ Len(a) = offset
      /\ Len(fields) < Len(built)
  BY NextWritten
<1>2. /\ v \in {0, 1} /\ v = WrittenVersion /\ built \in Seq(Messages(v)) /\ Len(fields) \in Nat
      /\ Len(built) \in Nat
  BY KeptFacts DEF AtMessage
<1>3. /\ body \in Seq(Word) /\ Len(body) \in Word /\ Len(h) = 2 - v /\ h[2 - v] = Len(body)
  BY <1>1, <1>2, CodeFacts
<1>4. HeaderSize = 2 - v /\ HeaderSize \in {1, 2}
  BY <1>2 DEF HeaderSize, INDEX_SIZE, LEN_SIZE
<1>5. payload \in Seq(Word) /\ Len(payload) \in Nat /\ offset \in 0..Len(payload)
      /\ Len(payload) <= MaxWord /\ MaxWord \in Nat /\ Len(body) \in Nat
  <2>1. payload \in Seq(Word) /\ Len(payload) \in Nat /\ offset \in 0..Len(payload)
        /\ Len(payload) <= MaxWord
    BY DEF IInv, PayloadInv, OffsetInv
  <2> QED BY <1>3, <2>1, FormatAssumption DEF Word
<1>6. /\ Len(payload) >= offset + HeaderSize + Len(body)
      /\ \A i \in 1..HeaderSize : payload[offset + i] = h[i]
      /\ SubSeq(payload, offset + HeaderSize + 1, offset + HeaderSize + Len(body)) = body
  <2> HIDE DEF a, h, body
  <2> QED BY <1>1, <1>3, <1>4 DEF Found
<1> HIDE DEF a, h, body
<1>7. BodySize = Len(body)
  <2>1. HeaderSize \in 1..HeaderSize
    BY <1>4
  <2>2. payload[offset + HeaderSize] = h[HeaderSize]
    BY <1>6, <2>1
  <2> QED BY <1>3, <1>4, <2>2 DEF BodySize
<1>8. /\ Remaining \in Nat /\ HeaderSize + Len(body) <= Remaining /\ Remaining <= MaxWord
  <2>1. /\ Len(payload) \in Nat /\ offset \in Nat /\ Len(body) \in Nat /\ HeaderSize \in Nat
        /\ Len(payload) <= MaxWord /\ MaxWord \in Nat
    BY <1>4, <1>5
  <2>2. Len(payload) >= offset + HeaderSize + Len(body)
    BY <1>6, Zenon
  <2> QED BY <2>1, <2>2 DEF Remaining
<1>9. /\ Sub(Remaining, 0) = Remaining /\ Sub(Remaining, HeaderSize) = Remaining - HeaderSize
      /\ Add(HeaderSize, Len(body)) = HeaderSize + Len(body)
  <2>1. /\ Remaining - 0 = Remaining /\ Remaining - HeaderSize \in Nat
        /\ Remaining - HeaderSize <= MaxWord
        /\ HeaderSize + Len(body) \in Nat /\ HeaderSize + Len(body) <= MaxWord
    BY <1>4, <1>5, <1>8
  <2> QED BY <1>8, <2>1, NoWrap DEF Sub, Add
<1>10. ~HeaderMissing
  <2>1. ~(HeaderSize > Remaining)
    BY <1>4, <1>5, <1>8
  <2> QED BY <1>9, <2>1 DEF HeaderMissing, CanSafelyReadElements
<1>11. ~BodyMissing
  <2>1. ~(Len(body) > Remaining - HeaderSize)
    BY <1>4, <1>5, <1>8
  <2> QED BY <1>7, <1>9, <2>1 DEF BodyMissing, CanSafelyReadElements
<1>12. Body = body
  <2>1. BodyEnd = HeaderSize + Len(body)
    BY <1>7, <1>9 DEF BodyEnd
  <2>2. offset + (HeaderSize + Len(body)) = offset + HeaderSize + Len(body)
    BY <1>4, <1>5
  <2> QED BY <1>6, <2>1, <2>2 DEF Body
<1>13. Entry(m.body) = m
  <2>1. CASE v = 0
    <3>1. 1 \in 1..HeaderSize
      BY <1>4
    <3>2. payload[offset + 1] = m.pos
      BY <1>6, <2>1, <3>1 DEF h, HeaderOf
    <3>3. Entry(m.body) = [pos |-> m.pos, body |-> m.body]
      BY <2>1, <3>2 DEF Entry, INDEX_SIZE
    <3>4. m \in [pos : Word, body : Seq(Word)]
      BY <1>1, <2>1 DEF Messages, Messages0
    <3> QED BY <3>3, <3>4
  <2>2. CASE v = 1
    <3>1. PICK t \in DOMAIN FeedMessage : m = FeedEntry(t)
      BY <1>1, <2>2 DEF Messages, Messages1
    <3> QED BY <2>2, <3>1, FeedEntryFacts DEF Entry
  <2> QED BY <1>2, <2>1, <2>2
<1>14. IsEmpty => body = <<>>
  BY <1>3, <1>7, EmptySeq DEF IsEmpty
<1>15. ~IsEmpty => Decodes(body)
  <2>1. CASE v = 0
    <3>1. signed # Unsigned
      BY <1>2, <2>1 DEF WrittenVersion
    <3>2. m \in Range(built)
      <4>1. Len(fields) + 1 \in DOMAIN built
        BY <1>1, <1>2, LenProperties
      <4> QED BY <4>1 DEF Range
    <3>3. body \in RLPBodies \cup {<<>>}
      BY <3>1, <3>2 DEF Expected, body
    <3>4. Len(<<>>) = 0
      OBVIOUS
    <3> QED BY <1>7, <2>1, <3>3, <3>4 DEF IsEmpty, Decodes
  <2>2. CASE v = 1
    <3>1. PICK t \in DOMAIN FeedMessage : m = FeedEntry(t)
      BY <1>1, <2>2 DEF Messages, Messages1
    <3> QED BY <2>2, <3>1, FeedEntryFacts DEF Decodes, body
  <2> QED BY <1>2, <2>1, <2>2
<1> QED BY <1>10, <1>11, <1>12, <1>13, <1>14, <1>15 DEF body

LEMMA TakeNext ==
  ASSUME NEW U, NEW s \in Seq(U), NEW k \in Nat, k < Len(s)
  PROVE  Append(SubSeq(s, 1, k), s[k + 1]) = SubSeq(s, 1, k + 1)
<1>1. 1 \in 1..Len(s) /\ k + 1 \in 1..Len(s) /\ (k + 1) - 1 = k /\ Len(s) \in Nat
  BY LenProperties
<1>2. SubSeq(s, 1, k + 1) = SubSeq(s, 1, k) \o <<s[k + 1]>>
  BY <1>1, SubSeqRecursiveSecond
<1>3. SubSeq(s, 1, k) \in Seq(U) /\ s[k + 1] \in U
  BY <1>1
<1> QED BY <1>2, <1>3, AppendIsConcat

(* A message whose signatures are in order is verified. *)
LEMMA HonestVerified ==
  ASSUME NEW t \in DOMAIN FeedMessage, NEW m, m.body = t, Honest(m)
  PROVE  verifyV1Message(FeedMessage[t])
<1> DEFINE f == FeedMessage[t]
           over == [seq |-> f.seq, delayed |-> f.delayed, l1 |-> f.l1,
                    blockHash |-> f.blockHash, blockMetadata |-> f.blockMetadata]
<1>1. f.l1 # NoMessage
  BY DEF Honest
<1>2. \A v2 \in BOOLEAN : FeedHash(v2, over, ChainID) = FeedHash(v2, f, ChainID)
  <2>1. /\ over.seq = f.seq /\ over.delayed = f.delayed /\ over.l1 = f.l1
        /\ over.blockHash = f.blockHash /\ over.blockMetadata = f.blockMetadata
    OBVIOUS
  <2> HIDE DEF f, over
  <2> QED BY <2>1 DEF FeedHash, ComputeBroadcastFeedMessageHash, CoveredByV1,
             ComputeBroadcastFeedMessageHashV2, CoveredByV2
<1>3. CASE f.signature # NoSignature
  <2> DEFINE s == f.signature
  <2>1. s.key \in ValidKeys /\ s.v2 = FALSE /\ s.chain = ChainID /\ s.over = over
    BY <1>3 DEF Honest
  <2>2. /\ SequencerSignatureAndHasher(f).signature = s
        /\ SequencerSignatureAndHasher(f).v2 = FALSE
    BY <1>3 DEF SequencerSignatureAndHasher
  <2> HIDE DEF s, f, over
  <2>3. SigToPub(FeedHash(FALSE, f, ChainID), s) \in ValidKeys
    BY <1>2, <2>1 DEF SigToPub
  <2> QED BY <1>1, <1>3, <2>2, <2>3 DEF verifyV1Message, s, f
<1>4. CASE f.signature = NoSignature
  <2> DEFINE s == f.signatureV2
  <2>1. /\ s # NoSignature /\ s.key \in ValidKeys /\ s.v2 = TRUE
        /\ s.chain = ChainID /\ s.over = over
    BY <1>4 DEF Honest
  <2>2. /\ SequencerSignatureAndHasher(f).signature = s
        /\ SequencerSignatureAndHasher(f).v2 = TRUE
    BY <1>4 DEF SequencerSignatureAndHasher
  <2> HIDE DEF s, f, over
  <2>3. SigToPub(FeedHash(TRUE, f, ChainID), s) \in ValidKeys
    BY <1>2, <2>1 DEF SigToPub
  <2> QED BY <1>1, <2>1, <2>2, <2>3 DEF verifyV1Message, f
<1> QED BY <1>3, <1>4

HonestMessages == {m \in Messages1 : Honest(m)}

LEMMA HonestOfIs ==
  ASSUME NEW ms \in Seq(Messages1)
  PROVE  HonestOf(ms) = Filter(ms, HonestMessages)
<1> DEFINE A == {m \in Range(ms) : Honest(m)}
           B == HonestMessages
<1>1. \A i \in 1..Len(ms) : ms[i] \in A <=> ms[i] \in B
  <2>1. DOMAIN ms = 1..Len(ms) /\ \A i \in 1..Len(ms) : ms[i] \in Messages1
    BY LenProperties, ElementOfSeq
  <2> QED BY <2>1 DEF Range, HonestMessages
<1>2. Filter(ms, A) = Filter(ms, B)
  <2> HIDE DEF A, B
  <2> QED BY <1>1, FilterAgrees
<1> QED BY <1>2 DEF HonestOf

(* Verification in version 1 leaves out no honest message. *)
LEMMA HonestKept ==
  ASSUME NEW ms \in Seq(Messages1), NEW S,
         S = {m \in Range(ms) : verifyV1Message(FeedMessage[m.body])}
  PROVE  HonestOf(Filter(ms, S)) = HonestOf(ms)
<1> DEFINE H == HonestMessages
           r == Filter(ms, S)
           B == S \cap H
<1>1. r \in Seq(Messages1)
  BY FilterType
<1>2. HonestOf(r) = Filter(r, H) /\ HonestOf(ms) = Filter(ms, H)
  <2> HIDE DEF r, H
  <2> QED BY <1>1, HonestOfIs DEF H
<1>3. Filter(r, H) = Filter(ms, B)
  <2> HIDE DEF H
  <2> QED BY FilterTwice
<1>4. ASSUME NEW i \in 1..Len(ms) PROVE ms[i] \in B <=> ms[i] \in H
  <2> SUFFICES ASSUME ms[i] \in H PROVE ms[i] \in S
    OBVIOUS
  <2>1. ms[i] \in Messages1 /\ Honest(ms[i]) /\ ms[i] \in Range(ms)
    <3>1. DOMAIN ms = 1..Len(ms)
      BY LenProperties
    <3> QED BY <3>1 DEF HonestMessages, Range
  <2>2. PICK t \in DOMAIN FeedMessage : ms[i] = FeedEntry(t)
    BY <2>1 DEF Messages1
  <2>3. ms[i].body = t
    BY <2>2, FeedEntryFacts
  <2>4. verifyV1Message(FeedMessage[t])
    BY <2>1, <2>3, HonestVerified
  <2> QED BY <2>1, <2>3, <2>4
<1>5. Filter(ms, B) = Filter(ms, H)
  <2> HIDE DEF B, H
  <2> QED BY <1>4, FilterAgrees
<1> QED BY <1>2, <1>3, <1>5

(* Every message of the feed has data. *)
LEMMA FeedHasData == ASSUME NEW ms \in Seq(Messages1) PROVE WithData(ms) = ms
<1>1. Messages(1) = Messages1 /\ ms \in Seq(Messages(1))
  BY DEF Messages
<1>2. WithData(ms) = Filter(ms, Data(1))
  BY <1>1, WithDataIs
<1>3. Messages1 \subseteq Data(1)
  <2> SUFFICES ASSUME NEW m \in Messages1 PROVE m.body # <<>>
    BY <1>1 DEF Data
  <2>1. PICK t \in DOMAIN FeedMessage : m = FeedEntry(t)
    BY DEF Messages1
  <2> QED BY <2>1, FeedEntryFacts, FormatAssumption
<1> QED BY <1>2, <1>3, FilterAll

Reading(f) ==
  /\ version = WrittenVersion /\ ReadFront = WrittenFront
  /\ version = 0 => signature = signed.quote
  /\ Len(f) <= Len(built) /\ f = SubSeq(built, 1, Len(f))

LEMMA KeptStarts ==
  ASSUME IInv, WriterInv, ReadingInv, intact, Expected, phase = "parse", Parse
  PROVE  phase' = "loop" /\ Reading(fields)'
<1>1. fields = <<>> /\ fields' = <<>> /\ Len(<<>>) <= Len(built) /\ <<>> = SubSeq(built, 1, Len(<<>>))
      /\ UNCHANGED <<payload, signed, built>>
  <2>1. fields = <<>>
    BY DEF ReadingInv, StartInv
  <2>2. UNCHANGED <<payload, signed, built, fields>>
    BY DEF Parse, RejectUnknown, ParseV1Header, ParseV0Signature, SkipEmpty, ParseMessage,
       RejectTruncated, RejectUndecodable, HasBody, AtMessage, ParsedAll, Reject, writeVars, readVars
  <2>3. Len(<<>>) = 0 /\ <<>> = SubSeq(built, 1, 0)
    BY SubSeqEmpty
  <2>4. Len(built) \in Nat
    BY WrittenFacts, LenProperties
  <2> QED BY <2>1, <2>2, <2>3, <2>4
<1>2. UNCHANGED <<WrittenVersion, WrittenFront>>
  BY <1>1 DEF WrittenVersion, WrittenFront
<1>3. CASE signed = Unsigned
  <2>1. IsV1
    BY <1>3, KnownFront
  <2>2. ParseV1Header
    BY <2>1 DEF Parse, RejectUnknown, ParseV0Signature, SkipEmpty, ParseMessage, IsV0,
       RejectTruncated, RejectUndecodable, HasBody, AtMessage, ParsedAll
  <2>3. phase' = "loop" /\ version' = 1
    BY <2>2 DEF ParseV1Header
  <2>4. WrittenVersion = 1 /\ WrittenFront = encodeEmbeddedJSON(V1Header)
        /\ ReadFront' = encodeEmbeddedJSON(V1Header)
    BY <1>3, <2>3 DEF WrittenVersion, WrittenFront, ReadFront
  <2> QED BY <1>1, <1>2, <2>3, <2>4 DEF Reading
<1>4. CASE signed # Unsigned
  <2>1. IsV0 /\ ~SignatureMissing /\ SubSeq(payload, 2, SignatureEnd) = signed.quote
    BY <1>4, KnownFront
  <2>2. ParseV0Signature
    BY <2>1 DEF Parse, RejectUnknown, ParseV1Header, SkipEmpty, ParseMessage, IsV0,
       RejectTruncated, RejectUndecodable, HasBody, AtMessage, ParsedAll
  <2>3. phase' = "loop" /\ version' = 0 /\ signature' = signed.quote
    <3>1. /\ phase' = "loop" /\ version' = 0
          /\ signature' = SubSeq(payload, LEN_SIZE + 1, SignatureEnd)
      BY <2>1, <2>2, Zenon DEF ParseV0Signature
    <3>2. LEN_SIZE + 1 = 2
      BY DEF LEN_SIZE
    <3> QED BY <2>1, <3>1, <3>2
  <2>4. WrittenVersion = 0 /\ WrittenFront = <<Len(signed.quote)>> \o signed.quote
        /\ ReadFront' = <<Len(signed.quote)>> \o signed.quote
    BY <1>4, <2>3 DEF WrittenVersion, WrittenFront, ReadFront
  <2> QED BY <1>1, <1>2, <2>3, <2>4 DEF Reading
<1> QED BY <1>3, <1>4

LEMMA KeptMessage ==
  ASSUME IInv, WriterInv, ReadingInv, KeptInv, intact, Expected, AtMessage, Parse
  PROVE  phase' = "loop" /\ Reading(fields)'
<1> DEFINE k == Len(fields)
           m == built[k + 1]
           r == Append(fields, m)
<1>0. phase = "loop" /\ offset < Len(payload) /\ offset \in Nat /\ Len(payload) \in Nat
  BY DEF AtMessage, IInv, OffsetInv, PayloadInv
<1>1. /\ ~HeaderMissing /\ Entry(m.body) = m
      /\ IsEmpty => m.body = <<>>
      /\ ~IsEmpty => ~BodyMissing /\ Body = m.body /\ Decodes(m.body)
  BY NextRead
<1>2. SkipEmpty \/ ParseMessage
  <2>1. ~RejectTruncated /\ ~RejectUndecodable
    BY <1>1 DEF RejectTruncated, RejectUndecodable, HasBody
  <2>2. ~RejectUnknown /\ ~ParseV1Header /\ ~ParseV0Signature
    <3>1. phase # "parse"
      BY <1>0
    <3> QED BY <3>1, Zenon DEF RejectUnknown, ParseV1Header, ParseV0Signature
  <2>3. ~ParsedAll
    <3>1. ~(offset >= Len(payload))
      BY <1>0
    <3> QED BY <3>1, Zenon DEF ParsedAll
  <2> QED BY <2>1, <2>2, <2>3 DEF Parse
<1>3. /\ phase' = "loop" /\ fields' = r
      /\ UNCHANGED <<version, signature, signed, built>>
  <2>1. CASE SkipEmpty
    BY <1>0, <1>1, <2>1 DEF SkipEmpty, writeVars
  <2>2. CASE ParseMessage
    BY <1>0, <1>1, <2>2 DEF ParseMessage, HasBody, writeVars
  <2> QED BY <1>2, <2>1, <2>2
<1>4. UNCHANGED <<WrittenVersion, WrittenFront, ReadFront>>
  BY <1>3 DEF WrittenVersion, WrittenFront, ReadFront
<1>5. /\ version = WrittenVersion /\ ReadFront = WrittenFront /\ built \in Seq(Messages(version))
      /\ version = 0 => signature = signed.quote
      /\ k \in Nat /\ fields = SubSeq(built, 1, k) /\ fields \in Seq(Messages(version))
  BY <1>0, KeptFacts
<1>6. k < Len(built) /\ m \in Messages(version)
  BY NextWritten
<1>7. r = SubSeq(built, 1, k + 1)
  <2>1. Append(SubSeq(built, 1, k), built[k + 1]) = SubSeq(built, 1, k + 1)
    BY <1>5, <1>6, TakeNext
  <2> QED BY <1>5, <2>1
<1>8. Len(r) = k + 1
  <2> HIDE DEF m
  <2> QED BY <1>5, <1>6
<1>9. Len(r) <= Len(built) /\ r = SubSeq(built, 1, Len(r))
  <2>1. Len(built) \in Nat
    BY <1>5, LenProperties
  <2>2. k + 1 <= Len(built)
    BY <1>5, <1>6, <2>1
  <2> HIDE DEF r
  <2> QED BY <1>7, <1>8, <2>2
<1> HIDE DEF r
<1> QED BY <1>3, <1>4, <1>5, <1>9 DEF Reading

LEMMA KeptParsed ==
  ASSUME IInv, WriterInv, ReadingInv, KeptInv, intact, Expected, ParsedAll
  PROVE  \/ phase' = "verify" /\ Reading(fields)'
         \/ phase' = "end" /\ Settled' /\ position' = Len(messages')
<1>1. phase = "loop" /\ offset = Len(payload)
  BY DEF ParsedAll, IInv, OffsetInv, PayloadInv
<1>2. CASE phase' = "verify"
  <2>1. UNCHANGED <<version, signature, signed, built, fields>>
    BY <1>2 DEF ParsedAll, Reject, writeVars, readVars
  <2>2. UNCHANGED <<WrittenVersion, WrittenFront, ReadFront>>
    BY <2>1 DEF WrittenVersion, WrittenFront, ReadFront
  <2>3. Reading(fields)
    BY <1>1 DEF KeptInv, Reading
  <2> QED BY <1>2, <2>1, <2>2, <2>3 DEF Reading
<1>3. CASE phase' # "verify"
  <2>1. /\ phase' = "end" /\ messages = <<>> /\ messages' = <<>> /\ UNCHANGED <<signed, built, position>>
    BY <1>3 DEF ParsedAll, Reject, writeVars
  <2>2. position' = Len(messages')
    <3>1. position = 0 /\ Len(<<>>) = 0
      BY <1>1 DEF ReadingInv, StartInv
    <3> QED BY <2>1, <3>1
  <2>3. WithData(built) = <<>>
    BY <1>1, <2>1, AllRead
  <2>4. CASE signed = Unsigned
    <3>1. built \in Seq(Messages1)
      BY <2>4, WrittenFacts DEF WrittenVersion, Messages
    <3>2. built = <<>>
      BY <2>3, <3>1, FeedHasData
    <3> QED BY <2>1, <2>2, <2>4, <3>2 DEF Settled
  <2>5. CASE signed # Unsigned
    BY <2>1, <2>2, <2>3, <2>5 DEF Settled
  <2> QED BY <2>4, <2>5
<1> QED BY <1>2, <1>3

LEMMA KeptVerified ==
  ASSUME IInv, WriterInv, ReadingInv, KeptInv, intact, Expected, VerifyV0 \/ VerifyV1
  PROVE  phase' = "iterate" /\ Settled'
<1>1. phase = "verify" /\ offset = Len(payload)
  BY DEF VerifyV0, VerifyV1, ReadingInv, TileInv
<1>2. fields = built /\ messages = WithData(built)
  BY <1>1, AllRead
<1>3. version = WrittenVersion /\ (version = 0 => signature = signed.quote)
      /\ built \in Seq(Messages(version))
  BY <1>1, KeptFacts
<1>4. CASE VerifyV0
  <2>1. version = 0 /\ signed # Unsigned
    BY <1>3, <1>4 DEF VerifyV0, WrittenVersion
  <2>2. UserData = signed.content
    BY <1>1, <1>2, <2>1, UserDataIs DEF WriterInv, SignedInv
  <2>3. V0Key \in ValidKeys
    BY <1>3, <2>1, <2>2 DEF V0Key, Expected
  <2>4. phase' = "iterate" /\ UNCHANGED <<messages, signed, built>>
    BY <1>4, <2>3 DEF VerifyV0, writeVars, readVars
  <2> QED BY <1>2, <2>1, <2>4 DEF Settled
<1>5. CASE VerifyV1
  <2> DEFINE S == {m \in Range(messages) : verifyV1Message(FeedMessage[m.body])}
  <2>1. /\ version = 1 /\ phase' = "iterate" /\ messages' = Filter(messages, S)
        /\ UNCHANGED <<signed, built>>
    BY <1>5 DEF VerifyV1, writeVars
  <2>2. signed = Unsigned /\ built \in Seq(Messages1)
    BY <1>3, <2>1 DEF WrittenVersion, Messages
  <2>3. messages = built
    BY <1>2, <2>2, FeedHasData
  <2>4. HonestOf(messages') = HonestOf(built)
    <3>1. S = {m \in Range(built) : verifyV1Message(FeedMessage[m.body])}
      BY <2>3
    <3> HIDE DEF S
    <3> QED BY <2>1, <2>2, <2>3, <3>1, HonestKept
  <2> QED BY <2>1, <2>2, <2>4 DEF Settled
<1> QED BY <1>4, <1>5

LEMMA KeptStep ==
  ASSUME IInv, WriterInv, ReadingInv, KeptInv, [Next]_vars
  PROVE  KeptInv'
<1> SUFFICES ASSUME intact', Expected' PROVE KeptInv'
  BY DEF KeptInv
<1> USE DEF writeVars, readVars
<1>1. CASE Write
  <2>1. phase' \in {"build", "sign", "sent", "parse"} \/ (phase = "sign" /\ UNCHANGED intact)
    BY <1>1 DEF Write, AddMessage, StopBuilding, SignerFails, SignHotShotPayload, Arrive,
       ArriveAltered
  <2>2. phase' \in {"build", "sign", "sent", "parse"}
    BY <2>1 DEF WriterInv, WholeInv
  <2> QED BY <2>2 DEF KeptInv
<1>2. CASE Read
  <2>0. UNCHANGED <<payload, built, signed, intact>>
    BY <1>2, ReadFrame
  <2>1. intact /\ Expected
    BY <2>0 DEF Expected
  <2>2. CASE Parse
    <3>1. \/ phase' \in {"loop", "verify"} /\ Reading(fields)'
          \/ phase' = "end" /\ Settled' /\ position' = Len(messages')
      <4>1. CASE ParsedAll
        BY <2>1, <4>1, KeptParsed
      <4>2. CASE phase = "parse"
        BY <2>1, <2>2, <4>2, KeptStarts
      <4>3. CASE AtMessage
        BY <2>1, <2>2, <4>3, KeptMessage
      <4>4. ParsedAll \/ phase = "parse" \/ AtMessage
        BY <2>2 DEF Parse, RejectUnknown, ParseV1Header, ParseV0Signature, SkipEmpty,
           ParseMessage, RejectTruncated, RejectUndecodable, HasBody
      <4> QED BY <4>1, <4>2, <4>3, <4>4
    <3> QED BY <3>1 DEF KeptInv, Reading
  <2>3. CASE VerifyV0 \/ VerifyV1
    <3>1. phase' = "iterate" /\ Settled'
      BY <2>1, <2>3, KeptVerified
    <3> QED BY <3>1 DEF KeptInv
  <2>4. CASE NextMessage \/ NoMoreMessages
    <3>1. /\ phase = "iterate" /\ UNCHANGED <<messages, built, signed>>
          /\ \/ phase' = "iterate"
             \/ phase' = "end" /\ position >= Len(messages) /\ UNCHANGED position
      BY <2>4 DEF NextMessage, NoMoreMessages
    <3>2. Settled'
      BY <2>1, <3>1 DEF KeptInv, Settled
    <3>3. phase' = "end" => position' = Len(messages')
      BY <3>1 DEF ReadingInv, CountInv
    <3> QED BY <3>1, <3>2, <3>3 DEF KeptInv
  <2> QED BY <1>2, <2>2, <2>3, <2>4 DEF Read
<1>3. CASE UNCHANGED vars
  <2>1. UNCHANGED <<WrittenVersion, WrittenFront, ReadFront, Settled, Expected>>
    BY <1>3 DEF vars, WrittenVersion, WrittenFront, ReadFront, Settled, Expected
  <2> QED BY <1>3, <2>1 DEF vars, KeptInv
<1> QED BY <1>1, <1>2, <1>3 DEF Next

(* What was written and comes out unaltered is handed out in full and in       *)
(* order, however long the list of messages is and whatever they hold.         *)
THEOREM NothingLostCorrect == Spec => []NothingLost
<1>1. Init => KeptInv
  BY DEF Init, KeptInv
<1>2. IInv /\ WriterInv /\ ReadingInv /\ KeptInv /\ [Next]_vars => KeptInv'
  BY KeptStep
<1>3. ReadingInv /\ KeptInv => NothingLost
  <2> SUFFICES ASSUME ReadingInv, KeptInv, phase = "end", intact
               PROVE  IF signed = Unsigned
                        THEN HonestOf(Delivered) = HonestOf(built)
                        ELSE (/\ signed.key \in ValidKeys /\ Len(signed.quote) = SignatureSize
                              /\ \A m \in Range(built) : m.body \in RLPBodies \cup {<<>>})
                               => Delivered = WithData(built)
    BY DEF NothingLost
  <2>1. Expected => Settled /\ Delivered = messages
    <3> SUFFICES ASSUME Expected PROVE Settled /\ Delivered = messages
      OBVIOUS
    <3>1. Settled /\ position = Len(messages) /\ messages \in Seq(Messages(version))
      BY DEF KeptInv, ReadingInv, CountInv
    <3>2. SubSeq(messages, 1, Len(messages)) = messages
      BY <3>1, SubSeqFull
    <3> QED BY <3>1, <3>2 DEF Delivered
  <2>2. CASE signed = Unsigned
    BY <2>1, <2>2 DEF Expected, Settled
  <2>3. CASE signed # Unsigned
    BY <2>1, <2>3 DEF Expected, Settled
  <2> QED BY <2>2, <2>3
<1> QED BY <1>1, <1>2, <1>3, ReadingCorrect, PTL DEF Spec

==============================================================================
