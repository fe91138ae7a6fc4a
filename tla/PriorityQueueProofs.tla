------------------------ MODULE PriorityQueueProofs ------------------------
(***************************************************************************)
(* The lemmas about the priority queue that the proofs of both lock        *)
(* protocols use: where Insert puts an element, that it adds that element  *)
(* and no other, and that it keeps a queue sorted.                         *)
(***************************************************************************)
EXTENDS PriorityQueue, SequenceTheorems, FiniteSetTheorems, TLAPS

\* The keys of a queue, compared by compareElems.
Key == [nodeId : Int, timestamp : Int]

\* Each element is before the next ones.
SortedQueue(q) == \A i, j \in 1..Len(q) : i < j => Before(q[i], q[j])

LEMMA PositionType ==
  ASSUME NEW S, NEW q \in Seq(S), NEW e \in S
  PROVE  Len(q) \in Nat /\ Position(q, e) \in 1..Len(q) + 1
<1>1. Len(q) \in Nat
  BY LenProperties
<1>2. IsFiniteSet(1..Len(q)) /\ Cardinality(1..Len(q)) = Len(q)
  BY <1>1, FS_Interval
<1>3. Scanned(q, e) \subseteq 1..Len(q)
  BY DEF Scanned
<1>4. Cardinality(Scanned(q, e)) \in Nat /\ Cardinality(Scanned(q, e)) <= Len(q)
  <2>1. IsFiniteSet(Scanned(q, e)) /\ Cardinality(Scanned(q, e)) <= Cardinality(1..Len(q))
    BY <1>2, <1>3, FS_Subset
  <2> QED
    BY <1>2, <2>1, FS_CardinalityType
<1> QED
  BY <1>1, <1>4 DEF Position

\* The scan stops at the first element that is not before the new one.
LEMMA PositionFirst ==
  ASSUME NEW S, NEW q \in Seq(S), NEW e \in S
  PROVE  /\ \A i \in 1..Len(q) : i < Position(q, e) => Before(q[i], e)
         /\ Position(q, e) <= Len(q) => ~ Before(q[Position(q, e)], e)
<1> DEFINE c == Cardinality(Scanned(q, e))
<1>1. Len(q) \in Nat /\ Position(q, e) = 1 + c
  BY LenProperties DEF Position
<1>2. Scanned(q, e) \subseteq 1..Len(q) /\ \A i \in Scanned(q, e) : 1..i \subseteq Scanned(q, e)
  BY <1>1 DEF Scanned
<1>3. IsFiniteSet(Scanned(q, e)) /\ c \in Nat
  <2>1. IsFiniteSet(1..Len(q))
    BY <1>1, FS_Interval
  <2>2. IsFiniteSet(Scanned(q, e))
    BY <1>2, <2>1, FS_Subset
  <2> QED
    BY <2>2, FS_CardinalityType
<1>4. ASSUME NEW i \in Scanned(q, e) PROVE i <= c
  <2>1. i \in Nat /\ IsFiniteSet(1..i) /\ Cardinality(1..i) = i
    BY <1>1, <1>2, FS_Interval
  <2>2. Cardinality(1..i) <= c
    BY <1>2, <1>3, FS_Subset
  <2> QED
    BY <2>1, <2>2
<1>5. Scanned(q, e) \subseteq 1..c
  BY <1>1, <1>2, <1>4
<1>6. IsFiniteSet(1..c) /\ Cardinality(1..c) = c
  BY <1>3, FS_Interval
<1>7. Scanned(q, e) = 1..c
  BY <1>5, <1>6, FS_Subset
<1> HIDE DEF c
<1>8. \A i \in 1..c : i \in 1..Len(q) /\ \A j \in 1..i : Before(q[j], e)
  BY <1>7 DEF Scanned
<1>9. ASSUME NEW i \in 1..Len(q), i < 1 + c PROVE Before(q[i], e)
  <2>1. i \in 1..c /\ i \in 1..i
    BY <1>1, <1>3, <1>9
  <2> QED
    BY <1>8, <2>1
<1>10. ASSUME 1 + c <= Len(q), Before(q[1 + c], e) PROVE FALSE
  <2>1. 1 + c \in 1..Len(q) /\ \A j \in 1..1 + c : j \in 1..Len(q) /\ (j = 1 + c \/ j < 1 + c)
    BY <1>1, <1>3, <1>10
  <2>2. \A j \in 1..1 + c : Before(q[j], e)
    BY <1>9, <1>10, <2>1
  <2>3. 1 + c \in Scanned(q, e)
    BY <2>1, <2>2 DEF Scanned
  <2> QED
    BY <1>3, <1>7, <2>3
<1> QED
  BY <1>1, <1>9, <1>10

\* A panic is about an element with the same key.
LEMMA PanicIsDuplicate ==
  ASSUME NEW S, NEW q \in Seq(S), NEW e \in S, InsertPanics(q, e)
  PROVE  \E i \in 1..Len(q) : q[i].nodeId = e.nodeId /\ q[i].timestamp = e.timestamp
<1>1. Position(q, e) \in 1..Len(q)
  BY PositionType DEF InsertPanics
<1> QED
  BY <1>1 DEF InsertPanics, SameKey

\* Where each element is after an Insert.
LEMMA InsertedAt ==
  ASSUME NEW S, NEW q \in Seq(S), NEW e \in S
  PROVE  /\ Insert(q, e) \in Seq(S)
         /\ Len(Insert(q, e)) = Len(q) + 1
         /\ \A i \in 1..Len(q) + 1 :
              Insert(q, e)[i] = IF i < Position(q, e) THEN q[i]
                                ELSE IF i = Position(q, e) THEN e ELSE q[i - 1]
<1> DEFINE p == Position(q, e)
           a == SubSeq(q, 1, p - 1)
           b == SubSeq(q, p, Len(q))
<1>1. Len(q) \in Nat /\ p \in 1..Len(q) + 1
  BY PositionType
<1> HIDE DEF p
<1>2. \A i \in 1..Len(q) : q[i] \in S
  BY ElementOfSeq
<1>3. a \in Seq(S) /\ Len(a) = p - 1 /\ \A i \in 1..p - 1 : a[i] = q[i]
  <2>1. p - 1 \in Nat /\ \A i \in 1..p - 1 : q[i] \in S
    BY <1>1, <1>2
  <2> QED
    BY <1>1, <2>1, SubSeqProperties
<1>4. b \in Seq(S) /\ Len(b) = Len(q) - p + 1 /\ \A i \in 1..Len(q) - p + 1 : b[i] = q[p + i - 1]
  <2>1. p \in Int /\ \A i \in p..Len(q) : q[i] \in S
    BY <1>1, <1>2
  <2> QED
    BY <1>1, <2>1, SubSeqProperties
<1> HIDE DEF a, b
<1>5. <<e>> \in Seq(S) /\ Len(<<e>>) = 1 /\ <<e>>[1] = e
  OBVIOUS
<1>6. /\ a \o <<e>> \in Seq(S) /\ Len(a \o <<e>>) = p
      /\ \A i \in 1..p : (a \o <<e>>)[i] = IF i <= p - 1 THEN a[i] ELSE e
  <2>1. \A i \in 1..p : ~(i <= p - 1) => i - (p - 1) = 1
    BY <1>1
  <2> QED
    BY <1>1, <1>3, <1>5, <2>1, ConcatProperties
<1>7. /\ (a \o <<e>>) \o b \in Seq(S) /\ Len((a \o <<e>>) \o b) = Len(q) + 1
      /\ \A i \in 1..Len(q) + 1 :
           ((a \o <<e>>) \o b)[i] = IF i <= p THEN (a \o <<e>>)[i] ELSE b[i - p]
  <2>1. p + (Len(q) - p + 1) = Len(q) + 1
    BY <1>1
  <2>2. /\ (a \o <<e>>) \o b \in Seq(S) /\ Len((a \o <<e>>) \o b) = Len(a \o <<e>>) + Len(b)
        /\ \A i \in 1..Len(a \o <<e>>) + Len(b) :
             ((a \o <<e>>) \o b)[i]
               = IF i <= Len(a \o <<e>>) THEN (a \o <<e>>)[i] ELSE b[i - Len(a \o <<e>>)]
    BY <1>4, <1>6, ConcatProperties
  <2>3. Len(a \o <<e>>) = p /\ Len(b) = Len(q) - p + 1
    BY <1>4, <1>6
  <2> QED
    BY <2>1, <2>2, <2>3
<1>8. Insert(q, e) = (a \o <<e>>) \o b
  BY DEF Insert, InsertAt, a, b, p
<1>9. ASSUME NEW i \in 1..Len(q) + 1
      PROVE  Insert(q, e)[i] = IF i < p THEN q[i] ELSE IF i = p THEN e ELSE q[i - 1]
  <2>1. CASE i < p
    <3>1. i \in 1..p - 1 /\ i <= p - 1 /\ i <= p /\ i \in 1..p
      BY <1>1, <2>1
    <3> QED
      BY <1>3, <1>6, <1>7, <1>8, <2>1, <3>1
  <2>2. CASE i = p
    <3>1. i <= p /\ ~(i <= p - 1) /\ i \in 1..p /\ ~(i < p)
      BY <1>1, <2>2
    <3> QED
      BY <1>6, <1>7, <1>8, <2>2, <3>1
  <2>3. CASE i > p
    <3>1. i - p \in 1..Len(q) - p + 1 /\ p + (i - p) - 1 = i - 1 /\ ~(i <= p) /\ ~(i < p) /\ i # p
      BY <1>1, <2>3
    <3> QED
      BY <1>4, <1>7, <1>8, <3>1
  <2> QED
    BY <1>1, <2>1, <2>2, <2>3
<1> QED
  BY <1>7, <1>8, <1>9 DEF p

\* Insert adds its element, and no other.
LEMMA Inserted ==
  ASSUME NEW S, NEW q \in Seq(S), NEW e \in S
  PROVE  /\ Insert(q, e) \in Seq(S)
         /\ Len(Insert(q, e)) = Len(q) + 1
         /\ \A i \in 1..Len(Insert(q, e)) :
              Insert(q, e)[i] = e \/ \E j \in 1..Len(q) : Insert(q, e)[i] = q[j]
         /\ \E i \in 1..Len(Insert(q, e)) : Insert(q, e)[i] = e
<1>1. Len(q) \in Nat /\ Position(q, e) \in 1..Len(q) + 1
  BY PositionType
<1>2. /\ Insert(q, e) \in Seq(S)
      /\ Len(Insert(q, e)) = Len(q) + 1
      /\ \A i \in 1..Len(q) + 1 :
           Insert(q, e)[i] = IF i < Position(q, e) THEN q[i]
                             ELSE IF i = Position(q, e) THEN e ELSE q[i - 1]
  BY InsertedAt
<1>3. ASSUME NEW i \in 1..Len(q) + 1
      PROVE  Insert(q, e)[i] = e \/ \E j \in 1..Len(q) : Insert(q, e)[i] = q[j]
  <2>1. CASE i < Position(q, e)
    <3>1. i \in 1..Len(q)
      BY <1>1, <2>1
    <3> QED
      BY <1>2, <2>1, <3>1
  <2>2. CASE i > Position(q, e)
    <3>1. i - 1 \in 1..Len(q) /\ ~(i < Position(q, e)) /\ i # Position(q, e)
      BY <1>1, <2>2
    <3> QED
      BY <1>2, <3>1
  <2>3. CASE i = Position(q, e)
    BY <1>1, <1>2, <2>3
  <2> QED
    BY <1>1, <2>1, <2>2, <2>3
<1>4. Insert(q, e)[Position(q, e)] = e
  BY <1>1, <1>2
<1> QED
  BY <1>1, <1>2, <1>3, <1>4

LEMMA InsertKeeps ==
  ASSUME NEW S, NEW q \in Seq(S), NEW e \in S, NEW j \in 1..Len(q)
  PROVE  \E i \in 1..Len(Insert(q, e)) : Insert(q, e)[i] = q[j]
<1>1. Len(q) \in Nat /\ Position(q, e) \in 1..Len(q) + 1
  BY PositionType
<1>2. /\ Len(Insert(q, e)) = Len(q) + 1
      /\ \A i \in 1..Len(q) + 1 :
           Insert(q, e)[i] = IF i < Position(q, e) THEN q[i]
                             ELSE IF i = Position(q, e) THEN e ELSE q[i - 1]
  BY InsertedAt
<1>3. CASE j < Position(q, e)
  <2>1. j \in 1..Len(q) + 1
    BY <1>1
  <2> QED
    BY <1>2, <1>3, <2>1
<1>4. CASE j >= Position(q, e)
  <2>1. /\ j + 1 \in 1..Len(q) + 1
        /\ ~(j + 1 < Position(q, e))
        /\ j + 1 # Position(q, e)
        /\ (j + 1) - 1 = j
    BY <1>1, <1>4
  <2> QED
    BY <1>2, <2>1
<1> QED
  BY <1>1, <1>3, <1>4

\* Insert keeps a queue sorted if its element is not a duplicate.
LEMMA InsertedSorted ==
  ASSUME NEW S, S \subseteq Key, NEW q \in Seq(S), NEW e \in S, SortedQueue(q),
         \A i \in 1..Len(q) : ~ SameKey(e, q[i])
  PROVE  SortedQueue(Insert(q, e))
<1> DEFINE p == Position(q, e)
           r == Insert(q, e)
<1>1. Len(q) \in Nat /\ p \in 1..Len(q) + 1
  BY PositionType
<1>2. /\ Len(r) = Len(q) + 1
      /\ \A i \in 1..Len(q) + 1 : r[i] = IF i < p THEN q[i] ELSE IF i = p THEN e ELSE q[i - 1]
  BY InsertedAt
<1>3. (\A i \in 1..Len(q) : i < p => Before(q[i], e)) /\ (p <= Len(q) => ~ Before(q[p], e))
  BY PositionFirst
<1> HIDE DEF p, r
<1>4. e \in Key /\ \A i \in 1..Len(q) : q[i] \in Key
  BY ElementOfSeq
<1>5. \A x, y \in Key : Before(x, y) \/ SameKey(x, y) \/ Before(y, x)
  BY DEF Key, Before, SameKey
<1>6. \A x, y, z \in Key : Before(x, y) /\ Before(y, z) => Before(x, z)
  BY DEF Key, Before
<1>7. \A i, j \in 1..Len(q) : i < j => Before(q[i], q[j])
  BY DEF SortedQueue
<1>8. ASSUME NEW j \in 1..Len(q), p <= j PROVE Before(e, q[j])
  <2>1. p \in 1..Len(q) /\ p <= Len(q)
    BY <1>1, <1>8
  <2>2. q[p] \in Key /\ ~ Before(q[p], e) /\ ~ SameKey(e, q[p])
    BY <1>3, <1>4, <2>1
  <2>3. Before(e, q[p])
    BY <1>4, <1>5, <2>2
  <2>4. CASE p = j
    BY <2>3, <2>4
  <2>5. CASE p < j
    <3>1. Before(q[p], q[j])
      BY <1>7, <2>1, <2>5
    <3> QED
      BY <1>4, <1>6, <2>2, <2>3, <3>1
  <2> QED
    BY <1>1, <1>8, <2>4, <2>5
<1>9. ASSUME NEW i \in 1..Len(q) + 1, NEW j \in 1..Len(q) + 1, i < j
      PROVE  Before(r[i], r[j])
  <2>1. CASE j < p
    <3>1. i \in 1..Len(q) /\ j \in 1..Len(q) /\ i < p
      BY <1>1, <1>9, <2>1
    <3>2. r[i] = q[i] /\ r[j] = q[j]
      BY <1>2, <1>9, <2>1, <3>1
    <3> QED
      BY <1>7, <1>9, <3>1, <3>2
  <2>2. CASE j = p
    <3>1. i \in 1..Len(q) /\ i < p
      BY <1>1, <1>9, <2>2
    <3>2. r[i] = q[i] /\ r[j] = e
      BY <1>1, <1>2, <1>9, <2>2, <3>1
    <3> QED
      BY <1>3, <3>1, <3>2
  <2>3. CASE j > p /\ i < p
    <3>1. i \in 1..Len(q) /\ j - 1 \in 1..Len(q) /\ i < j - 1 /\ ~(j < p) /\ j # p
      BY <1>1, <1>9, <2>3
    <3>2. r[i] = q[i] /\ r[j] = q[j - 1]
      BY <1>2, <1>9, <2>3, <3>1
    <3> QED
      BY <1>7, <3>1, <3>2
  <2>4. CASE j > p /\ i = p
    <3>1. j - 1 \in 1..Len(q) /\ p <= j - 1 /\ ~(j < p) /\ j # p /\ ~(i < p)
      BY <1>1, <1>9, <2>4
    <3>2. r[i] = e /\ r[j] = q[j - 1]
      BY <1>2, <1>9, <2>4, <3>1
    <3> QED
      BY <1>8, <3>1, <3>2
  <2>5. CASE j > p /\ i > p
    <3>1. /\ i - 1 \in 1..Len(q) /\ j - 1 \in 1..Len(q) /\ i - 1 < j - 1
          /\ ~(j < p) /\ j # p /\ ~(i < p) /\ i # p
      BY <1>1, <1>9, <2>5
    <3>2. r[i] = q[i - 1] /\ r[j] = q[j - 1]
      BY <1>2, <1>9, <3>1
    <3> QED
      BY <1>7, <3>1, <3>2
  <2> QED
    BY <1>1, <2>1, <2>2, <2>3, <2>4, <2>5
<1> QED
  BY <1>2, <1>9 DEF SortedQueue, r

\* An element that is later than all others becomes the last.
LEMMA InsertedLast ==
  ASSUME NEW S, NEW q \in Seq(S), NEW e \in S,
         \A i \in 1..Len(q) : q[i].timestamp < e.timestamp
  PROVE  Insert(q, e) = Append(q, e)
<1>1. Len(q) \in Nat
  BY LenProperties
<1>2. Scanned(q, e) = 1..Len(q)
  BY <1>1 DEF Scanned, Before
<1>3. Position(q, e) = Len(q) + 1
  BY <1>1, <1>2, FS_Interval, SMTT(30) DEF Position
<1>4. SubSeq(q, 1, Len(q)) = q /\ SubSeq(q, Len(q) + 1, Len(q)) = << >> /\ (Len(q) + 1) - 1 = Len(q)
  BY <1>1, SubSeqFull, SubSeqEmpty
<1>5. Insert(q, e) = (q \o <<e>>) \o << >>
  BY <1>1, <1>3, <1>4 DEF Insert, InsertAt
<1>6. q \o <<e>> \in Seq(S) /\ q \o <<e>> = Append(q, e)
  BY AppendIsConcat, ConcatProperties
<1> QED
  BY <1>5, <1>6, ConcatEmptySeq
=============================================================================
