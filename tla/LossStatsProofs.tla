----------------------------- MODULE LossStatsProofs -----------------------------
(***************************************************************************)
(* Theorems about LossStats, for any number of ids, where the disorder is  *)
(* as small as LoopIds wants it: two datagrams received one after the      *)
(* other were sent less than a third of the ids apart.                     *)
(***************************************************************************)
EXTENDS LossStats, FiniteSetTheorems, TLAPS

SmallDisorder == -dimension < MinStep /\ MaxStep < dimension

(***************************************************************************)
(* Unfolding.  An index is the number of its datagram moved by an offset   *)
(* that no datagram changes: only the first one, and the first one after a *)
(* reset, set it.                                                          *)
(***************************************************************************)
Offset == idx - lastNumber

Unfolded ==
  /\ lastNumber \in 0..MaxNumber
  /\ \/ last = -1 /\ idx = 0 /\ got = {}
     \/ last = 0 /\ idx = 0 /\ got = {}
     \/ last = Id(lastNumber) /\ Offset <= dimension

(***************************************************************************)
(* The window.  Its ends are the indexes of the first and the last number  *)
(* counted.                                                                *)
(***************************************************************************)
Window ==
  /\ got \subseteq 0..MaxNumber
  /\ repeats \in Nat /\ count = Cardinality(got) + repeats
  /\ got = {} => maxIdx = 0 /\ minIdx = MaxInt /\ count = 0
  /\ got # {} => /\ last # -1
                 /\ last = Id(lastNumber)
                 /\ maxIdx - Offset \in got /\ minIdx - Offset \in got
                 /\ minIdx >= 0
                 /\ \A n \in got : minIdx <= n + Offset /\ n + Offset <= maxIdx

LossInv == TypeOK /\ Unfolded /\ Window

-----------------------------------------------------------------------------
(* Ids *)

LEMMA IdFacts ==
  /\ MaxId \in Nat /\ MaxId >= 3 /\ Modulus \in Nat \ {0} /\ MaxInt \in Nat
  /\ MaxNumber \in Nat /\ MaxInt > MaxNumber + 2 * MaxId
  /\ dimension \in Nat /\ 2 * dimension <= MaxId
  /\ MinStep \in Int /\ MaxStep \in Int
BY LossAssumption DEF Modulus, dimension

LEMMA Division ==
  ASSUME NEW a \in Int
  PROVE  /\ Id(a) \in 0..(Modulus - 1)
         /\ (a \div Modulus) \in Int /\ a = Modulus * (a \div Modulus) + Id(a)
BY IdFacts DEF Id

LEMMA OneRemainder ==
  ASSUME NEW m \in Nat \ {0}, NEW q \in Int, NEW p \in Int,
         NEW r \in 0..(m - 1), NEW t \in 0..(m - 1), m * q + r = m * p + t
  PROVE  r = t
<1>1. m * (q - p) = t - r
  OBVIOUS
<1>2. CASE q - p >= 1
  <2>1. m * (q - p) >= m
    BY <1>2
  <2>2. QED
    BY <1>1, <2>1
<1>3. CASE q - p <= -1
  <2>1. m * (q - p) <= -m
    BY <1>3
  <2>2. QED
    BY <1>1, <2>1
<1>4. CASE q - p = 0
  BY <1>1, <1>4
<1>5. QED
  BY <1>2, <1>3, <1>4

\* What one-byte arithmetic does to a small step.
LEMMA IdOfStep ==
  ASSUME NEW a \in Int, NEW d \in Int, -Modulus < d, d < Modulus
  PROVE  Id(a + d) = IF Id(a) + d < 0 THEN Id(a) + d + Modulus
                     ELSE IF Id(a) + d >= Modulus THEN Id(a) + d - Modulus
                     ELSE Id(a) + d
<1>1. Modulus \in Nat \ {0}
  BY IdFacts
<1>2. /\ Id(a) \in 0..(Modulus - 1) /\ Id(a + d) \in 0..(Modulus - 1)
      /\ (a \div Modulus) \in Int /\ ((a + d) \div Modulus) \in Int
      /\ a = Modulus * (a \div Modulus) + Id(a)
      /\ a + d = Modulus * ((a + d) \div Modulus) + Id(a + d)
  BY Division
<1>3. ASSUME NEW w \in Int, NEW e \in 0..(Modulus - 1), Id(a) + d = Modulus * w + e
      PROVE  Id(a + d) = e
  <2>1. Modulus * ((a \div Modulus) + w) = Modulus * (a \div Modulus) + Modulus * w
    BY <1>1, <1>2
  <2>2. Modulus * ((a + d) \div Modulus) + Id(a + d) = Modulus * ((a \div Modulus) + w) + e
    <3> DEFINE x == Modulus * (a \div Modulus)
               y == Modulus * ((a + d) \div Modulus)
               z == Modulus * w
               v == Modulus * ((a \div Modulus) + w)
    <3>1. x \in Int /\ y \in Int /\ z \in Int
      BY <1>1, <1>2
    <3>2. /\ a = x + Id(a) /\ a + d = y + Id(a + d) /\ Id(a) + d = z + e /\ v = x + z
      BY <1>2, <1>3, <2>1
    <3> HIDE DEF x, y, z, v
    <3>3. y + Id(a + d) = v + e
      BY <1>1, <1>2, <3>1, <3>2
    <3>4. QED
      BY <3>3 DEF y, v
  <2>3. (a \div Modulus) + w \in Int
    BY <1>2
  <2>4. QED
    BY <1>1, <1>2, <2>2, <2>3, OneRemainder
<1>4. CASE Id(a) + d < 0
  <2>1. Id(a) + d = Modulus * (-1) + (Id(a) + d + Modulus)
    BY <1>1, <1>2
  <2>2. Id(a) + d + Modulus \in 0..(Modulus - 1)
    BY <1>1, <1>2, <1>4
  <2>3. QED
    BY <1>3, <1>4, <2>1, <2>2
<1>5. CASE Id(a) + d >= Modulus
  <2>1. Id(a) + d = Modulus * 1 + (Id(a) + d - Modulus)
    BY <1>1, <1>2
  <2>2. Id(a) + d - Modulus \in 0..(Modulus - 1) /\ ~(Id(a) + d < 0)
    BY <1>1, <1>2, <1>5
  <2>3. QED
    BY <1>3, <1>5, <2>1, <2>2
<1>6. CASE Id(a) + d \in 0..(Modulus - 1)
  <2>1. Id(a) + d = Modulus * 0 + (Id(a) + d)
    BY <1>1, <1>2
  <2>2. ~(Id(a) + d < 0) /\ ~(Id(a) + d >= Modulus)
    BY <1>1, <1>6
  <2>3. QED
    BY <1>3, <1>6, <2>1, <2>2
<1>7. QED
  BY <1>1, <1>2, <1>4, <1>5, <1>6

\* LoopIds.delta finds every step shorter than a third of the ids, around the end
\* as well.
LEMMA DeltaOfStep ==
  ASSUME NEW a \in Int, NEW d \in Int, -dimension < d, d < dimension
  PROVE  Nearby(Id(a), Id(a + d)) /\ Delta(Id(a), Id(a + d)) = d
<1>1. /\ Modulus = MaxId + 1 /\ MaxId \in Nat /\ dimension \in Nat /\ 2 * dimension <= MaxId
      /\ Id(a) \in 0..(Modulus - 1) /\ Id(a + d) \in 0..(Modulus - 1)
  BY IdFacts, Division DEF Modulus
<1>2. Id(a + d) = IF Id(a) + d < 0 THEN Id(a) + d + Modulus
                  ELSE IF Id(a) + d >= Modulus THEN Id(a) + d - Modulus
                  ELSE Id(a) + d
  BY <1>1, IdOfStep
<1>3. CASE Id(a + d) = Id(a) + d
  <2>1. Gap(Id(a), Id(a + d)) < dimension /\ ~(Modulus - Gap(Id(a), Id(a + d)) < dimension)
    BY <1>1, <1>3 DEF Gap
  <2>2. Id(a + d) - Id(a) = d
    BY <1>1, <1>3
  <2>3. QED
    BY <2>1, <2>2 DEF Nearby, Delta
<1>4. CASE Id(a) + d < 0
  <2>1. /\ Gap(Id(a), Id(a + d)) = Modulus + d /\ ~(Id(a) > Id(a + d))
        /\ ~(Modulus + d < dimension) /\ Modulus - (Modulus + d) < dimension
    BY <1>1, <1>2, <1>4 DEF Gap
  <2>2. QED
    BY <1>1, <2>1 DEF Nearby, Delta
<1>5. CASE Id(a) + d >= Modulus
  <2>1. /\ Gap(Id(a), Id(a + d)) = Modulus - d /\ Id(a) > Id(a + d)
        /\ ~(Modulus - d < dimension) /\ Modulus - (Modulus - d) < dimension
    BY <1>1, <1>2, <1>5 DEF Gap
  <2>2. QED
    BY <1>1, <2>1 DEF Nearby, Delta
<1>6. QED
  BY <1>2, <1>3, <1>4, <1>5

\* However far the first datagram after a reset is from id 0, it does not move the
\* index up by more than a near one could.
LEMMA DeltaOfReset ==
  ASSUME NEW t \in 0..MaxId
  PROVE  Delta(0, t) \in Int /\ Delta(0, t) <= dimension
BY IdFacts DEF Delta, Gap, Smaller, Modulus
-----------------------------------------------------------------------------
LEMMA LossInit == Init => LossInv
<1> SUFFICES ASSUME Init PROVE LossInv
  OBVIOUS
<1>1. Cardinality({}) = 0
  BY FS_EmptySet
<1>2. QED
  BY <1>1, IdFacts DEF Init, LossInv, TypeOK, Unfolded, Window

\* The offset after a datagram, and what it was if one has been read since the last
\* reset.
LEMMA Expands ==
  ASSUME SmallDisorder, TypeOK, Unfolded, NEW number \in 0..MaxNumber, Receive(number)
  PROVE  /\ lastNumber' = number /\ last' = Id(number) /\ last' \in 0..MaxId
         /\ idx' \in Int /\ idx' = Expanded(Id(number)) /\ idx' <= number + dimension
         /\ last # -1 /\ last = Id(lastNumber) => Offset' = Offset
<1>1. lastNumber' = number /\ last' = Id(number) /\ idx' = Expanded(Id(number))
  BY DEF Receive
<1>2. /\ MaxId \in Nat /\ Modulus = MaxId + 1 /\ dimension \in Nat
      /\ MinStep \in Int /\ MaxStep \in Int /\ MaxNumber \in Nat
      /\ idx \in Int /\ last \in -1..MaxId /\ lastNumber \in 0..MaxNumber
  BY IdFacts DEF TypeOK, Unfolded, Modulus
<1>3. Id(number) \in 0..MaxId
  BY <1>2, Division
<1>4. ASSUME last # -1, last = Id(lastNumber) PROVE idx' = idx + (number - lastNumber)
  <2>1. number - lastNumber \in MinStep..MaxStep
    BY <1>2, <1>4 DEF Receive
  <2>2. /\ number - lastNumber \in Int /\ -dimension < number - lastNumber
        /\ number - lastNumber < dimension /\ lastNumber + (number - lastNumber) = number
    BY <1>2, <2>1 DEF SmallDisorder
  <2>3. Delta(Id(lastNumber), Id(lastNumber + (number - lastNumber))) = number - lastNumber
    BY <1>2, <2>2, DeltaOfStep
  <2>4. Delta(last, Id(number)) = number - lastNumber
    BY <1>4, <2>2, <2>3
  <2>5. QED
    BY <1>1, <1>2, <1>4, <2>4 DEF Expanded
<1>5. CASE last = -1
  <2>1. idx' = Id(number)
    BY <1>1, <1>5 DEF Expanded
  <2>2. Id(number) <= number
    <3>1. /\ (number \div Modulus) \in Int /\ number = Modulus * (number \div Modulus) + Id(number)
          /\ Modulus \in Nat \ {0} /\ number \in Nat
      BY <1>2, Division
    <3>2. (number \div Modulus) >= 0
      BY <3>1
    <3>3. Modulus * (number \div Modulus) >= 0
      BY <3>1, <3>2
    <3>4. QED
      BY <1>2, <1>3, <3>1, <3>3
  <2>3. QED
    BY <1>1, <1>2, <1>3, <1>5, <2>1, <2>2
<1>6. CASE last = 0 /\ idx = 0 /\ ~(last = Id(lastNumber))
  <2>1. Delta(0, Id(number)) \in Int /\ Delta(0, Id(number)) <= dimension
    BY <1>3, DeltaOfReset
  <2>2. idx' = Delta(0, Id(number))
    BY <1>1, <1>6, <2>1 DEF Expanded
  <2>3. QED
    BY <1>1, <1>2, <1>3, <1>6, <2>1, <2>2
<1>7. CASE last # -1 /\ last = Id(lastNumber)
  <2>1. idx' = idx + (number - lastNumber)
    BY <1>4, <1>7
  <2>2. Offset <= dimension
    BY <1>2, <1>7 DEF Unfolded, Offset
  <2>3. QED
    BY <1>1, <1>2, <1>3, <2>1, <2>2 DEF Offset
<1>8. QED
  BY <1>5, <1>6, <1>7 DEF Unfolded

LEMMA ReceiveStep ==
  ASSUME SmallDisorder, LossInv, NEW number \in 0..MaxNumber, Receive(number)
  PROVE  LossInv'
<1>1. /\ MaxId \in Nat /\ dimension \in Nat /\ 2 * dimension <= MaxId
      /\ MaxNumber \in Nat /\ MaxInt \in Nat /\ MaxInt > MaxNumber + 2 * MaxId
  BY IdFacts
<1>2. TypeOK /\ Unfolded /\ Window
  BY DEF LossInv
<1>3. /\ lastNumber' = number /\ last' = Id(number) /\ last' \in 0..MaxId
      /\ idx' \in Int /\ idx' = Expanded(Id(number)) /\ idx' <= number + dimension
      /\ last # -1 /\ last = Id(lastNumber) => Offset' = Offset
  BY <1>2, Expands
<1>4. /\ maxIdx \in 0..MaxInt /\ minIdx \in 0..MaxInt /\ count \in Nat /\ got \subseteq 0..MaxNumber
      /\ repeats \in Nat /\ Offset \in Int /\ Offset' \in Int /\ Offset' = idx' - number
  BY <1>1, <1>2, <1>3 DEF TypeOK, Window, Unfolded, Offset
<1>5. Unfolded'
  BY <1>1, <1>3, <1>4 DEF Unfolded
<1>6. IsFiniteSet(got) /\ Cardinality(got) \in Nat
  <2>1. IsFiniteSet(0..MaxNumber)
    BY <1>1, FS_Interval
  <2>2. IsFiniteSet(got)
    BY <1>4, <2>1, FS_Subset
  <2>3. QED
    BY <2>2, FS_CardinalityType
<1>7. got # {} => Offset' = Offset
  BY <1>2, <1>3 DEF Window
<1>8. CASE ~Counts(Id(number))
  <2>1. UNCHANGED <<maxIdx, minIdx, count, got, repeats>>
    BY <1>8 DEF Receive, windowVars
  <2>2. TypeOK'
    BY <1>1, <1>2, <1>3, <2>1 DEF TypeOK
  <2>3. Window'
    <3>1. got # {} => /\ last' # -1 /\ last' = Id(lastNumber')
      BY <1>1, <1>3
    <3>2. QED
      BY <1>2, <1>7, <2>1, <3>1 DEF Window
  <2>4. QED
    BY <1>5, <2>2, <2>3 DEF LossInv
<1>9. CASE Counts(Id(number))
  <2>1. /\ maxIdx' = IF idx' > maxIdx THEN idx' ELSE maxIdx
        /\ minIdx' = IF idx' < minIdx THEN idx' ELSE minIdx
        /\ count' = count + 1 /\ got' = got \cup {number}
        /\ repeats' = IF number \in got THEN repeats + 1 ELSE repeats
    BY <1>3, <1>9 DEF Receive, Index
  <2>2. 0 <= idx' /\ idx' < MaxInt
    BY <1>1, <1>3, <1>9 DEF Counts
  <2>3. Cardinality(got') = IF number \in got THEN Cardinality(got) ELSE Cardinality(got) + 1
    BY <1>6, <2>1, FS_AddElement
  <2>4. /\ repeats' \in Nat /\ count' = Cardinality(got') + repeats' /\ Cardinality(got') \in Nat
    BY <1>2, <1>4, <1>6, <2>1, <2>3 DEF Window
  <2>5. TypeOK'
    BY <1>1, <1>3, <1>4, <2>1, <2>2, <2>4 DEF TypeOK
  <2>6. got' \subseteq 0..MaxNumber /\ got' # {} /\ last' # -1 /\ last' = Id(lastNumber')
    BY <1>1, <1>3, <1>4, <2>1
  <2>7. /\ maxIdx' - Offset' \in got' /\ minIdx' - Offset' \in got' /\ minIdx' >= 0
        /\ \A n \in got' : minIdx' <= n + Offset' /\ n + Offset' <= maxIdx'
    <3>1. CASE got = {}
      <4>1. maxIdx' = idx' /\ minIdx' = idx' /\ got' = {number}
        BY <1>2, <2>1, <2>2, <1>1, <1>3, <3>1 DEF Window
      <4>2. QED
        BY <1>3, <1>4, <2>2, <4>1
    <3>2. CASE got # {}
      <4>1. Offset' = Offset /\ idx' = number + Offset
        BY <1>3, <1>4, <1>7, <3>2
      <4>2. /\ maxIdx - Offset \in got /\ minIdx - Offset \in got
            /\ \A n \in got : minIdx <= n + Offset /\ n + Offset <= maxIdx
        BY <1>2, <3>2 DEF Window
      <4>3. maxIdx' - Offset' \in got' /\ minIdx' - Offset' \in got' /\ minIdx' >= 0
        BY <1>3, <1>4, <2>1, <2>2, <4>1, <4>2
      <4>4. ASSUME NEW n \in got' PROVE minIdx' <= n + Offset' /\ n + Offset' <= maxIdx'
        <5>1. CASE n = number
          BY <1>3, <1>4, <2>1, <4>1, <5>1
        <5>2. CASE n \in got
          <6>1. n \in Int /\ minIdx <= n + Offset /\ n + Offset <= maxIdx
            BY <1>4, <4>2, <5>2
          <6>2. QED
            BY <1>3, <1>4, <2>1, <4>1, <6>1
        <5>3. QED
          BY <2>1, <4>4, <5>1, <5>2
      <4>5. QED
        BY <4>3, <4>4
    <3>3. QED
      BY <3>1, <3>2
  <2>8. Window'
    BY <2>4, <2>6, <2>7 DEF Window
  <2>9. QED
    BY <1>5, <2>5, <2>8 DEF LossInv
<1>10. QED
  BY <1>8, <1>9

LEMMA LossStep == ASSUME SmallDisorder, LossInv, [Next]_vars PROVE LossInv'
<1>1. TypeOK /\ Unfolded /\ Window
  BY DEF LossInv
<1>2. Cardinality({}) = 0
  BY FS_EmptySet
<1>3. ASSUME Clear PROVE Window'
  BY <1>2, <1>3 DEF Clear, Window
<1>4. CASE Query
  <2>1. Clear /\ UNCHANGED <<last, idx, lastNumber>>
    BY <1>4 DEF Query, loopVars
  <2>2. TypeOK' /\ Unfolded'
    BY <1>1, <2>1, IdFacts DEF Clear, TypeOK, Unfolded, Offset
  <2>3. QED
    BY <1>3, <2>1, <2>2 DEF LossInv
<1>5. CASE Reset
  <2>1. Clear /\ last' = 0 /\ idx' = 0 /\ lastNumber' = lastNumber
    BY <1>5 DEF Reset
  <2>2. TypeOK' /\ Unfolded'
    BY <1>1, <2>1, IdFacts DEF Clear, TypeOK, Unfolded
  <2>3. QED
    BY <1>3, <2>1, <2>2 DEF LossInv
<1>6. CASE UNCHANGED vars
  BY <1>1, <1>6 DEF vars, loopVars, windowVars, historyVars, LossInv, TypeOK, Unfolded,
                    Window, Offset
<1>7. QED
  BY <1>4, <1>5, <1>6, ReceiveStep DEF Next

LEMMA LossAlways == ASSUME SmallDisorder PROVE Spec => []LossInv
<1>1. Init => LossInv
  BY LossInit
<1>2. LossInv /\ [Next]_vars => LossInv'
  BY LossStep
<1>3. QED
  BY <1>1, <1>2, PTL DEF Spec

\* With small disorder, indexes that are counted stay between 0 and the value the
\* smallest one starts from: they never pass math.MaxInt unless the numbers
\* of the datagrams do (stats.go:220).
THEOREM LossTypeCorrect == ASSUME SmallDisorder PROVE Spec => []TypeOK
<1>1. LossInv => TypeOK
  BY DEF LossInv
<1>2. QED
  BY <1>1, LossAlways, PTL

\* With small disorder, the loss that a window reports is the loss there was, less the
\* datagrams that came twice, for any number of ids, wherever they wrap around and
\* whenever the statistics start over (stats.go:28).
THEOREM LossExactCorrect == ASSUME SmallDisorder PROVE Spec => []LossExact
<1>1. ASSUME LossInv, got # {} PROVE Lost = Cardinality(Missing) - repeats
  <2>1. TypeOK /\ Unfolded /\ Window
    BY <1>1 DEF LossInv
  <2>2. PICK o \in Int : o = Offset
    BY <2>1 DEF TypeOK, Unfolded, Offset
  <2>3. PICK lo, hi : lo = minIdx - o /\ hi = maxIdx - o
    OBVIOUS
  <2>4. /\ lo \in got /\ hi \in got /\ got \subseteq Int
        /\ maxIdx \in Int /\ minIdx \in Int /\ lo \in Int /\ hi \in Int
        /\ \A n \in got : lo <= n /\ n <= hi
    <3>1. maxIdx \in Int /\ minIdx \in Int /\ got \subseteq Int
      BY <2>1 DEF TypeOK
    <3>2. QED
      BY <1>1, <2>1, <2>2, <2>3, <3>1 DEF Window
  <2>5. Min(got) = lo
    <3>1. \A x \in got : (\A y \in got : x <= y) => x = lo
      BY <2>4
    <3>2. QED
      BY <2>4, <3>1 DEF Min
  <2>6. Max(got) = hi
    <3>1. \A x \in got : (\A y \in got : x >= y) => x = hi
      BY <2>4
    <3>2. QED
      BY <2>4, <3>1 DEF Max
  <2>7. IsFiniteSet(lo..hi) /\ Cardinality(lo..hi) = hi - lo + 1
    <3>1. ~(lo > hi)
      BY <2>4
    <3>2. QED
      BY <2>4, <3>1, FS_Interval
  <2>8. got \subseteq lo..hi
    BY <2>4
  <2>9. Cardinality(Missing) = (hi - lo + 1) - Cardinality(got)
    <3>1. Missing = (lo..hi) \ got
      BY <2>5, <2>6 DEF Missing
    <3>2. (lo..hi) \cap got = got
      BY <2>8
    <3>3. Cardinality((lo..hi) \ got) = Cardinality(lo..hi) - Cardinality((lo..hi) \cap got)
      BY <2>7, FS_Difference
    <3>4. QED
      BY <2>7, <3>1, <3>2, <3>3
  <2>10. Cardinality(got) \in Nat
    <3>1. IsFiniteSet(got)
      BY <2>7, <2>8, FS_Subset
    <3>2. QED
      BY <3>1, FS_CardinalityType
  <2>11. repeats \in Nat /\ count = Cardinality(got) + repeats
    BY <2>1 DEF Window
  <2>12. QED
    BY <2>2, <2>3, <2>4, <2>9, <2>10, <2>11 DEF Lost
<1>2. LossInv => LossExact
  BY <1>1 DEF LossExact
<1>3. QED
  BY <1>2, LossAlways, PTL
==================================================================================
