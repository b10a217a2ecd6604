------------------------------ MODULE BoardProofs ------------------------------
(* Theorems about Board, for any tables, questions, readers and clocks.     *)
EXTENDS Board, FiniteSetTheorems, SequenceTheorems, TLAPS

-----------------------------------------------------------------------------
(* Days.                                                                    *)

LEMMA Midnight ==
  ASSUME NEW t \in Nat
  PROVE  /\ mskToday(t) \in Nat /\ mskToday(t) <= t /\ t < mskToday(t) + DAY
         /\ mskToday(t) % DAY = 0
BY DEF mskToday, DAY

(* Midnights are whole days apart. *)
LEMMA MidnightsApart ==
  ASSUME NEW a \in Nat, NEW b \in Nat, a % DAY = 0, b % DAY = 0, a < b + DAY
  PROVE  a <= b
BY DEF DAY

LEMMA LaterDay ==
  ASSUME NEW a \in Nat, NEW b \in Nat, NEW midnight \in Nat, midnight % DAY = 0, a < midnight, midnight <= b
  PROVE  mskToday(a) < mskToday(b)
BY DEF mskToday, DAY

LEMMA RowTypes ==
  ASSUME NEW r \in Rows
  PROVE  /\ r.store \in Stores /\ r.id \in Nat /\ r.start \in Nat
         /\ r.end \in Times /\ r.time \in (0..LastMinute) \union {NoTime}
         /\ Dates(r) => r.start % DAY = 0 /\ (r.end # NoTime => r.end % DAY = 0)
BY BoardAssumption DEF Row

(* The filter's band and the card's band of an event on the board are the   *)
(* same: the SQL of Running and Classify, written apart, agree              *)
(* (filter.go, models.go).                                                  *)
THEOREM BandsAgree ==
  ASSUME NEW r \in Rows, NEW now0 \in Nat, End(r) >= mskToday(now0)
  PROVE  Running(r, now0) <=> Classify(r, now0) = "running"
<1> DEFINE midnight == mskToday(now0)
<1>1. midnight \in Nat /\ midnight % DAY = 0
  BY Midnight
<1>2. /\ r.start \in Nat /\ (r.end \in Nat \/ r.end = NoTime)
      /\ r.time = NoTime \/ (r.time \in Nat /\ r.time < DAY)
      /\ Dates(r) => r.start % DAY = 0 /\ (r.end # NoTime => r.end % DAY = 0)
  <2>1. /\ r.start \in Nat /\ r.end \in Times /\ r.time \in (0..LastMinute) \union {NoTime}
        /\ Dates(r) => r.start % DAY = 0 /\ (r.end # NoTime => r.end % DAY = 0)
    BY RowTypes
  <2>2. r.time = NoTime \/ (r.time \in Nat /\ r.time < DAY)
    <3>1. r.time \in 0..LastMinute \/ r.time = NoTime
      BY <2>1
    <3>2. ASSUME NEW n \in 0..LastMinute
          PROVE  n \in Nat /\ n < DAY
      BY DEF LastMinute, DAY
    <3>3. CASE r.time \in 0..LastMinute
      BY <3>2, <3>3
    <3> QED
      BY <3>1, <3>3
  <2> QED
    BY <2>1, <2>2 DEF Times
<1>3. CASE ~Dates(r)
  <2>1. ActualStart(r, now0) = r.start /\ ClassifiedEnd(r, now0) = End(r) /\ ~OpenEnded(r)
    BY <1>3 DEF ActualStart, Shifted, CardStart, ClassifiedEnd, CardEnd, OpenEnded, End
  <2>2. End(r) \in Nat
    BY <1>2 DEF End, NoTime
  <2>3. r.start < midnight => mskToday(End(r)) > mskToday(r.start)
    BY <1>1, <1>2, <2>2, LaterDay, Midnight
  <2> QED
    BY <1>3, <2>1, <2>3 DEF Running, Classify, Multiday
<1>4. CASE Dates(r) /\ ~Several(r)
  <2>1. End(r) = r.start /\ ~OpenEnded(r)
    BY <1>4 DEF Several, End, OpenEnded
  <2>2. ~Running(r, now0)
    BY <1>1, <1>2, <2>1 DEF Running
  <2>3. ~Shifted(r, now0)
    BY <1>1, <1>2, <1>4 DEF Shifted, Several
  <2>4. ClassifiedEnd(r, now0) = ActualStart(r, now0)
    BY <1>4, <2>1 DEF ClassifiedEnd, CardEnd
  <2>5. ActualStart(r, now0) \in Nat
    BY <1>2, <1>4, <2>3 DEF ActualStart, CardStart, EffDate, EffTime, NoTime
  <2> QED
    BY <1>1, <2>1, <2>2, <2>4, <2>5 DEF Classify
<1>5. CASE Dates(r) /\ Several(r)
  <2>1. r.end \in Nat /\ End(r) = r.end
    BY <1>2, <1>5 DEF Several, End, NoTime
  <2>2. Running(r, now0) <=> r.start < midnight
    BY <1>5, <2>1 DEF Running
  <2>3. CASE r.start < midnight
    <3>1. Shifted(r, now0) /\ ActualStart(r, now0) = r.start
      BY <1>5, <2>1, <2>3 DEF Shifted, ActualStart, NoTime
    <3>2. CASE OpenEnded(r)
      <4>1. ClassifiedEnd(r, now0) >= midnight
        BY <1>1, <3>2 DEF ClassifiedEnd, DAY
      <4> QED
        BY <2>2, <2>3, <3>1, <3>2, <4>1 DEF Classify, Multiday
    <3>3. CASE ~OpenEnded(r)
      <4>1. ClassifiedEnd(r, now0) = r.end + LastMinute
        BY <1>5, <2>1, <3>3 DEF ClassifiedEnd, CardEnd, NoTime, LastMinute
      <4>2. r.start + DAY <= midnight
        BY <1>1, <1>2, <1>5, <2>3, MidnightsApart DEF DAY
      <4>3. r.end + LastMinute \in Nat /\ midnight <= r.end + LastMinute
        BY <1>1, <2>1 DEF LastMinute
      <4>4. mskToday(r.end + LastMinute) > mskToday(r.start)
        BY <1>1, <1>2, <2>3, <4>3, LaterDay, Midnight
      <4>5. r.end + LastMinute - r.start >= MultidayMinSpan
        BY <1>1, <1>2, <2>1, <4>2 DEF LastMinute, MultidayMinSpan, DAY
      <4>6. ClassifiedEnd(r, now0) - ActualStart(r, now0) >= MultidayMinSpan
        BY <1>2, <2>1, <3>1, <4>1, <4>3, <4>5 DEF LastMinute, MultidayMinSpan
      <4>7. mskToday(ClassifiedEnd(r, now0)) > mskToday(ActualStart(r, now0))
        BY <3>1, <4>1, <4>4
      <4>8. Multiday(r, now0)
        BY <4>6, <4>7 DEF Multiday
      <4> QED
        BY <2>2, <2>3, <3>1, <4>1, <4>3, <4>8 DEF Classify
    <3> QED
      BY <3>2, <3>3
  <2>4. CASE ~(r.start < midnight)
    <3>1. ~Shifted(r, now0)
      BY <2>4 DEF Shifted
    <3>2. ActualStart(r, now0) \in Nat /\ ActualStart(r, now0) >= midnight
      BY <1>1, <1>2, <1>5, <2>4, <3>1 DEF ActualStart, CardStart, EffDate, EffTime, NoTime
    <3> QED
      BY <1>1, <2>2, <2>4, <3>2 DEF Classify
  <2> QED
    BY <2>3, <2>4
<1> QED
  BY <1>3, <1>4, <1>5

(* The band of a card is the same all day. *)
LEMMA BandOfTheDay ==
  ASSUME NEW r \in Rows, NEW a \in Nat, NEW b \in Nat, mskToday(a) = mskToday(b)
  PROVE  Classify(r, a) = Classify(r, b)
BY DEF Classify, Multiday, ClassifiedEnd, ActualStart, CardStart, EffDate, EffTime, Shifted

-----------------------------------------------------------------------------
(* The merge.                                                               *)

CardType == [id : Nat, start : Int, end : Int, openEnded : BOOLEAN,
             kind : {"running", "timed"}, featured : BOOLEAN, position : Nat]

(* The card of a row is a card, with the row's identifier and band. *)
LEMMA CardIs ==
  ASSUME NEW r \in Rows, NEW at \in Nat, NEW p, \A i \in DOMAIN p : p[i] \in Nat
  PROVE  /\ Card(p, r, at) \in CardType
         /\ Card(p, r, at).id = r.id /\ Card(p, r, at).kind = Classify(r, at)
<1>1. /\ r.id \in Nat /\ r.start \in Int /\ r.end \in Int /\ r.time \in Int
      /\ mskToday(at) \in Int
  <2>1. r.id \in Nat /\ r.start \in Int /\ r.end \in Int
    BY RowTypes DEF Times, NoTime
  <2>2. r.time \in 0..LastMinute \/ r.time = NoTime
    BY RowTypes
  <2>3. ASSUME NEW n \in 0..LastMinute
        PROVE  n \in Int
    BY DEF LastMinute
  <2>4. r.time \in Int
    <3>1. CASE r.time \in 0..LastMinute
      BY <2>3, <3>1
    <3>2. CASE r.time = NoTime
      BY <3>2 DEF NoTime
    <3> QED
      BY <2>2, <3>1, <3>2
  <2>5. mskToday(at) \in Int
    BY Midnight
  <2> QED
    BY <2>1, <2>4, <2>5
<1>2. CardStart(r, at) \in Int
  BY <1>1 DEF CardStart, EffDate, EffTime
<1>3. CardEnd(r) \in Int
  BY <1>1 DEF CardEnd, LastMinute, NoTime
<1>4. OpenEnded(r) \in BOOLEAN
  BY DEF OpenEnded
<1>5. Classify(r, at) \in {"running", "timed"}
  BY DEF Classify
<1>6. /\ IsFeatured(p, r) \in BOOLEAN
      /\ (IF IsFeatured(p, r) THEN p[r.id] ELSE 0) \in Nat
  BY DEF IsFeatured
<1> QED
  BY <1>1, <1>2, <1>3, <1>4, <1>5, <1>6 DEF Card, CardType

LEMMA CardFields ==
  ASSUME NEW e \in CardType, NEW byEnd \in BOOLEAN
  PROVE  e.position \in Int /\ e.id \in Int /\ MergeKey(e, byEnd) \in Int
<1>1. e.position \in Int /\ e.id \in Int /\ e.start \in Int /\ e.end \in Int
  BY DEF CardType
<1>2. OpenEndedKey \in Nat
  BY QueriesAssumption, ZenonT(20)
<1> QED
  BY <1>1, <1>2 DEF MergeKey

(* Cards are in one order: the identifier has the last word. *)
LEMMA BeforeIs ==
  ASSUME NEW c \in CardType, NEW d \in CardType, NEW byEnd \in BOOLEAN
  PROVE  LET f(e) == IF e.featured THEN 0 ELSE 1 IN
         Before(c, d, byEnd) <=>
           \/ f(c) < f(d)
           \/ f(c) = f(d) /\ c.position < d.position
           \/ f(c) = f(d) /\ c.position = d.position /\ MergeKey(c, byEnd) < MergeKey(d, byEnd)
           \/ f(c) = f(d) /\ c.position = d.position /\ MergeKey(c, byEnd) = MergeKey(d, byEnd)
              /\ c.id < d.id
<1> DEFINE f(e) == IF e.featured THEN 0 ELSE 1
           x == CardKey(c, byEnd)
           y == CardKey(d, byEnd)
<1>1. /\ DOMAIN x = 1..4 /\ DOMAIN y = 1..4
      /\ x[1] = f(c) /\ x[2] = c.position /\ x[3] = MergeKey(c, byEnd) /\ x[4] = c.id
      /\ y[1] = f(d) /\ y[2] = d.position /\ y[3] = MergeKey(d, byEnd) /\ y[4] = d.id
  BY DEF CardKey
<1>2. Before(c, d, byEnd) <=> Less(x, y)
  BY DEF Before
<1> HIDE DEF x, y, f
<1>3. Less(x, y) <=> \E i \in 1..4 : x[i] < y[i] /\ \A j \in 1..i - 1 : x[j] = y[j]
  BY <1>1 DEF Less
<1>4. 1..1 - 1 = {} /\ 1..2 - 1 = {1} /\ 1..3 - 1 = {1, 2} /\ 1..4 - 1 = {1, 2, 3}
  OBVIOUS
<1>5. 1..4 = {1, 2, 3, 4}
  OBVIOUS
<1>6. Less(x, y) <=> \/ x[1] < y[1]
                     \/ x[2] < y[2] /\ x[1] = y[1]
                     \/ x[3] < y[3] /\ x[1] = y[1] /\ x[2] = y[2]
                     \/ x[4] < y[4] /\ x[1] = y[1] /\ x[2] = y[2] /\ x[3] = y[3]
  BY <1>3, <1>4, <1>5
<1>7. Less(x, y) <=> \/ f(c) < f(d)
                     \/ c.position < d.position /\ f(c) = f(d)
                     \/ /\ MergeKey(c, byEnd) < MergeKey(d, byEnd)
                        /\ f(c) = f(d) /\ c.position = d.position
                     \/ /\ c.id < d.id /\ f(c) = f(d) /\ c.position = d.position
                        /\ MergeKey(c, byEnd) = MergeKey(d, byEnd)
  BY <1>1, <1>6
<1> QED
  BY <1>2, <1>7 DEF f

LEMMA BeforeOrders ==
  ASSUME NEW byEnd \in BOOLEAN
  PROVE  /\ \A c \in CardType : ~Before(c, c, byEnd)
         /\ \A c, d, e \in CardType :
              Before(c, d, byEnd) /\ Before(d, e, byEnd) => Before(c, e, byEnd)
         /\ \A c, d \in CardType :
              c.id # d.id => Before(c, d, byEnd) \/ Before(d, c, byEnd)
<1>1. \A e \in CardType : /\ e.position \in Int /\ MergeKey(e, byEnd) \in Int /\ e.id \in Int
  BY CardFields
<1>2. \A c \in CardType : ~Before(c, c, byEnd)
  BY <1>1, BeforeIs
<1>3. \A c, d, e \in CardType :
        Before(c, d, byEnd) /\ Before(d, e, byEnd) => Before(c, e, byEnd)
  BY <1>1, BeforeIs
<1>4. \A c, d \in CardType : c.id # d.id => Before(c, d, byEnd) \/ Before(d, c, byEnd)
  BY <1>1, BeforeIs
<1> QED
  BY <1>2, <1>3, <1>4

(* How many cards of S are before c. *)
RankIn(S, c, byEnd) == Cardinality({e \in S : Before(e, c, byEnd)})

(* Every place of the merged sequence has one card, with as many cards      *)
(* before it as places.                                                     *)
LEMMA RanksAreTaken ==
  ASSUME NEW S \in SUBSET CardType, IsFiniteSet(S), \A c, d \in S : c.id = d.id => c = d,
         NEW byEnd \in BOOLEAN
  PROVE  /\ Cardinality(S) \in Nat
         /\ \A i \in 1..Cardinality(S) : \E c \in S : RankIn(S, c, byEnd) = i - 1
         /\ \A c, d \in S : RankIn(S, c, byEnd) < RankIn(S, d, byEnd) => Before(c, d, byEnd)
         /\ \A c, d \in S : RankIn(S, c, byEnd) = RankIn(S, d, byEnd) => c = d
         /\ \A c \in S : RankIn(S, c, byEnd) \in Nat /\ RankIn(S, c, byEnd) < Cardinality(S)
<1> DEFINE below(c) == {e \in S : Before(e, c, byEnd)}
           n == Cardinality(S)
           rank == [c \in S |-> Cardinality(below(c))]
<1>1. n \in Nat
  BY FS_CardinalityType
<1>2. \A c \in S : /\ IsFiniteSet(below(c)) /\ Cardinality(below(c)) \in Nat
                   /\ Cardinality(below(c)) <= n - 1
  <2> SUFFICES ASSUME NEW c \in S
               PROVE  /\ IsFiniteSet(below(c)) /\ Cardinality(below(c)) \in Nat
                      /\ Cardinality(below(c)) <= n - 1
    OBVIOUS
  <2>1. below(c) \in SUBSET (S \ {c})
    BY BeforeOrders
  <2>2. IsFiniteSet(S \ {c}) /\ Cardinality(S \ {c}) = n - 1
    BY FS_RemoveElement
  <2> HIDE DEF below
  <2>3. IsFiniteSet(below(c)) /\ Cardinality(below(c)) <= Cardinality(S \ {c})
    BY <2>1, <2>2, FS_Subset
  <2> QED
    BY <2>2, <2>3, FS_CardinalityType
<1>3. ASSUME NEW c \in S, NEW d \in S, Before(c, d, byEnd)
      PROVE  Cardinality(below(c)) < Cardinality(below(d))
  <2>1. below(c) \union {c} \in SUBSET below(d) /\ c \notin below(c)
    BY <1>3, BeforeOrders
  <2> HIDE DEF below
  <2>2. Cardinality(below(c) \union {c}) = Cardinality(below(c)) + 1
    BY <1>2, <2>1, FS_AddElement
  <2>3. Cardinality(below(c) \union {c}) <= Cardinality(below(d))
    BY <1>2, <2>1, FS_Subset
  <2> QED
    BY <1>2, <2>2, <2>3
<1>4. \A c, d \in S : c # d => Before(c, d, byEnd) \/ Before(d, c, byEnd)
  BY BeforeOrders
<1>5. ASSUME NEW c \in S, NEW d \in S, Cardinality(below(c)) < Cardinality(below(d))
      PROVE  Before(c, d, byEnd)
  <2> HIDE DEF below
  <2>1. c # d /\ ~Before(d, c, byEnd)
    BY <1>2, <1>3, <1>5
  <2> QED
    BY <1>4, <2>1
<1> HIDE DEF below
<1>6. rank \in [S -> 0..n - 1]
  BY <1>1, <1>2
<1>7. ASSUME NEW c \in S, NEW d \in S, rank[c] = rank[d]
      PROVE  c = d
  BY <1>2, <1>3, <1>4, <1>7
<1>8. rank \in Injection(S, 0..n - 1)
  <2> HIDE DEF rank
  <2> QED
    BY <1>6, <1>7 DEF Injection, IsInjective
<1>9. IsFiniteSet(0..n - 1) /\ Cardinality(0..n - 1) = n
  <2>1. 0 \in Int /\ n - 1 \in Int
    BY <1>1
  <2> HIDE DEF n
  <2>2. /\ IsFiniteSet(0..n - 1)
        /\ Cardinality(0..n - 1) = IF 0 > n - 1 THEN 0 ELSE n - 1 - 0 + 1
    BY <2>1, FS_Interval
  <2> QED
    BY <1>1, <2>2
<1>10. rank \in Surjection(S, 0..n - 1)
  BY <1>8, <1>9, FS_Injection
<1>11. \A k \in 0..n - 1 : \E c \in S : rank[c] = k
  BY <1>10 DEF Surjection
<1>12. \A i \in 1..n : \E c \in S : Cardinality(below(c)) = i - 1
  <2> SUFFICES ASSUME NEW i \in 1..n
               PROVE  \E c \in S : Cardinality(below(c)) = i - 1
    OBVIOUS
  <2>1. i - 1 \in 0..n - 1
    BY <1>1
  <2> QED
    BY <1>11, <2>1
<1>13. \A c, d \in S : Cardinality(below(c)) = Cardinality(below(d)) => c = d
  BY <1>7
<1>14. \A c \in S : Cardinality(below(c)) \in Nat /\ Cardinality(below(c)) < n
  BY <1>1, <1>2
<1> QED
  BY <1>1, <1>5, <1>12, <1>13, <1>14 DEF below, RankIn

(* The merged sequence has every place filled by a card of the stores, and  *)
(* runs in the order of the merge: no card is in it twice (merge.go).       *)
THEOREM MergeSorts ==
  ASSUME NEW S \in SUBSET CardType, IsFiniteSet(S), \A c, d \in S : c.id = d.id => c = d,
         NEW byEnd \in BOOLEAN
  PROVE  /\ Sorted(S, byEnd) \in [1..Cardinality(S) -> S]
         /\ \A i, j \in 1..Cardinality(S) :
              i < j => Before(Sorted(S, byEnd)[i], Sorted(S, byEnd)[j], byEnd)
<1> DEFINE n == Cardinality(S)
           rank(c) == RankIn(S, c, byEnd)
           at(i) == CHOOSE c \in S : rank(c) = i - 1
<1>1. /\ n \in Nat
      /\ \A i \in 1..n : \E c \in S : rank(c) = i - 1
      /\ \A c, d \in S : rank(c) < rank(d) => Before(c, d, byEnd)
  BY RanksAreTaken
<1>2. Sorted(S, byEnd) = [i \in 1..n |-> at(i)]
  BY DEF Sorted, RankIn
<1> HIDE DEF n, rank
<1>3. \A i \in 1..n : at(i) \in S /\ rank(at(i)) = i - 1
  BY <1>1
<1> HIDE DEF at
<1>4. Sorted(S, byEnd) \in [1..n -> S]
  BY <1>2, <1>3
<1>5. ASSUME NEW i \in 1..n, NEW j \in 1..n, i < j
      PROVE  Before(Sorted(S, byEnd)[i], Sorted(S, byEnd)[j], byEnd)
  <2>1. rank(at(i)) < rank(at(j))
    BY <1>1, <1>3, <1>5
  <2>2. Before(at(i), at(j), byEnd)
    BY <1>1, <1>3, <2>1
  <2> QED
    BY <1>2, <2>2
<1> QED
  BY <1>4, <1>5 DEF n

(* A page is cut out of it: only cards of the stores, and no more than the  *)
(* limit.                                                                   *)
LEMMA PageOfCards ==
  ASSUME NEW S \in SUBSET CardType, IsFiniteSet(S), \A c, d \in S : c.id = d.id => c = d,
         NEW byEnd \in BOOLEAN, NEW limit \in Nat, NEW offset \in Nat
  PROVE  /\ \A i \in DOMAIN MergePage(S, limit, offset, byEnd) :
              MergePage(S, limit, offset, byEnd)[i] \in S
         /\ Len(MergePage(S, limit, offset, byEnd)) \in Nat
         /\ Len(MergePage(S, limit, offset, byEnd)) <= limit
<1> DEFINE n == Cardinality(S)
           last == IF offset + limit < n THEN offset + limit ELSE n
           merged == Sorted(S, byEnd)
<1>1. n \in Nat /\ merged \in [1..n -> S]
  BY MergeSorts, FS_CardinalityType
<1>2. MergePage(S, limit, offset, byEnd) = SubSeq(merged, offset + 1, last)
  BY DEF MergePage
<1> HIDE DEF n, merged
<1>3. last \in Nat /\ last <= n /\ last <= offset + limit
  BY <1>1
<1> HIDE DEF last
<1>4. \A i \in offset + 1..last : merged[i] \in S
  BY <1>1, <1>3
<1>5. /\ SubSeq(merged, offset + 1, last) \in Seq(S)
      /\ Len(SubSeq(merged, offset + 1, last)) =
           IF offset + 1 <= last THEN last - (offset + 1) + 1 ELSE 0
  BY <1>3, <1>4, SubSeqProperties
<1>6. DOMAIN SubSeq(merged, offset + 1, last) = 1..Len(SubSeq(merged, offset + 1, last))
  BY <1>5
<1> QED
  BY <1>2, <1>3, <1>5, <1>6

-----------------------------------------------------------------------------
(* What a store hands over.                                                 *)

LEMMA MidnightsInOrder ==
  ASSUME NEW a \in Nat, NEW b \in Nat, a <= b
  PROVE  mskToday(a) <= mskToday(b)
<1>1. /\ mskToday(a) \in Nat /\ mskToday(b) \in Nat
      /\ mskToday(a) <= a /\ b < mskToday(b) + DAY
      /\ mskToday(a) % DAY = 0 /\ mskToday(b) % DAY = 0
  BY Midnight
<1>2. mskToday(a) < mskToday(b) + DAY
  BY <1>1 DEF DAY
<1> QED
  BY <1>1, <1>2, MidnightsApart

LEMMA OnTheBoard ==
  ASSUME NEW r \in Rows, NEW at \in Nat, Base(r, at)
  PROVE  End(r) >= mskToday(at)
<1>1. r.start \in Nat /\ r.end \in Times /\ mskToday(at) \in Nat /\ mskToday(at) <= at
  BY RowTypes, Midnight
<1>2. CASE Dates(r)
  BY <1>2 DEF Base
<1>3. CASE ~Dates(r)
  <2>1. NotEnded(r, at)
    BY <1>3 DEF Base
  <2>2. CASE r.end # NoTime /\ r.end > at
    <3>1. End(r) = r.end /\ r.end \in Nat
      BY <1>1, <2>2 DEF End, Times
    <3> QED
      BY <1>1, <2>2, <3>1
  <2>3. CASE r.end = NoTime /\ r.start >= mskToday(at)
    BY <2>3 DEF End
  <2> QED
    BY <2>1, <2>2, <2>3 DEF NotEnded
<1> QED
  BY <1>2, <1>3

(* A row that passes the condition on the band is in the band.              *)
LEMMA RowOfTheBand ==
  ASSUME NEW r \in Rows, NEW at \in Nat, NEW kind \in KindCodes \union {""},
         Base(r, at), KindCond(r, kind, at), kind # ""
  PROVE  Classify(r, at) = kind
<1>1. Running(r, at) <=> Classify(r, at) = "running"
  BY OnTheBoard, BandsAgree
<1>2. kind \in {"timed", "running"}
  BY DEF KindCodes
<1>3. Classify(r, at) \in {"running", "timed"}
  BY DEF Classify
<1> QED
  BY <1>1, <1>2, <1>3 DEF KindCond

LEMMA FirstsOfMatching ==
  ASSUME NEW p, NEW rows, NEW s, NEW f, NEW at, NEW n, NEW top \in Upcoming(p, rows, s, f, at, n)
  PROVE  top \subseteq Matching(rows, s, f, at)
BY DEF Upcoming, Firsts

(* A card that stands for a row of some stores, in the band of the day.     *)
Stands(c, q, stores) ==
  \E row \in Rows :
    /\ row.store \in stores /\ c.id = row.id /\ c.kind = Classify(row, q.at)
    /\ q.filter.kind # "" => c.kind = q.filter.kind

(* Cards read for a question so far: one for a row, of the stores visited.  *)
CardsFit(S, q, stores) ==
  /\ S \subseteq CardType /\ IsFiniteSet(S)
  /\ \A c \in S : Stands(c, q, stores)
  /\ \A c, d \in S : c.id = d.id => c = d

(* Cards in a reply: what BandsAreTodays asks of them.                      *)
BandsFit(cs, q) ==
  \A i \in DOMAIN cs :
    /\ \A row \in Rows : row.id = cs[i].id => cs[i].kind = Classify(row, q.at)
    /\ q.filter.kind # "" => cs[i].kind = q.filter.kind

QuestionType == [op : {"none", "list", "facets", "card"}, filter : Filter,
                 limit : Nat, offset : Nat, id : Nat, at : Nat]

LEMMA NoCardsFit ==
  ASSUME NEW q, NEW stores
  PROVE  CardsFit({}, q, stores)
BY FS_EmptySet DEF CardsFit

LEMMA MoreStores ==
  ASSUME NEW S, NEW q, NEW A, NEW B, A \subseteq B, CardsFit(S, q, A)
  PROVE  CardsFit(S, q, B)
BY DEF CardsFit, Stands

LEMMA StoreCards ==
  ASSUME NEW p, \A i \in DOMAIN p : p[i] \in Nat,
         NEW rows \in SUBSET Rows, NEW s, NEW q \in QuestionType, NEW n,
         NEW top \in Upcoming(p, rows, s, q.filter, q.at, n)
  PROVE  CardsFit(Cards(p, top, q.at), q, {s})
<1> DEFINE S == Cards(p, top, q.at)
<1>1. q.filter \in Filter /\ q.at \in Nat
  BY DEF QuestionType
<1>2. \A r \in top : /\ r \in Rows /\ r.store = s
                     /\ q.filter.kind # "" => Classify(r, q.at) = q.filter.kind
  <2> SUFFICES ASSUME NEW r \in top
               PROVE  /\ r \in Rows /\ r.store = s
                      /\ q.filter.kind # "" => Classify(r, q.at) = q.filter.kind
    OBVIOUS
  <2>1. r \in Matching(rows, s, q.filter, q.at)
    BY FirstsOfMatching
  <2>2. /\ r \in Rows /\ r.store = s
        /\ Base(r, q.at) /\ KindCond(r, q.filter.kind, q.at)
    BY <2>1 DEF Matching, Where
  <2>3. q.filter.kind \in KindCodes \union {""}
    BY <1>1 DEF Filter
  <2> QED
    BY <1>1, <2>2, <2>3, RowOfTheBand
<1>3. \A r \in top : /\ Card(p, r, q.at) \in CardType /\ Card(p, r, q.at).id = r.id
                     /\ Card(p, r, q.at).kind = Classify(r, q.at)
  BY <1>1, <1>2, CardIs
<1>4. S \subseteq CardType
  BY <1>3 DEF Cards
<1>5. IsFiniteSet(S)
  <2>1. IsFiniteSet(top)
    BY <1>2, FS_Subset, BoardAssumption
  <2> QED
    <3> DEFINE card == [r \in top |-> Card(p, r, q.at)]
    <3>1. card \in Surjection(top, S)
      BY DEF Cards, Surjection
    <3> QED
      BY <2>1, <3>1, FS_Surjection
<1>6. \A c \in S : Stands(c, q, {s})
  BY <1>2, <1>3 DEF Cards, Stands
<1>7. \A c, d \in S : c.id = d.id => c = d
  <2> SUFFICES ASSUME NEW c \in S, NEW d \in S, c.id = d.id
               PROVE  c = d
    OBVIOUS
  <2>1. PICK a \in top : c = Card(p, a, q.at)
    BY DEF Cards
  <2>2. PICK b \in top : d = Card(p, b, q.at)
    BY DEF Cards
  <2>3. a \in Rows /\ b \in Rows /\ a.id = b.id
    BY <1>2, <1>3, <2>1, <2>2
  <2>4. a = b
    BY <2>3, BoardAssumption
  <2> QED
    BY <2>1, <2>2, <2>4
<1> QED
  BY <1>4, <1>5, <1>6, <1>7 DEF CardsFit

(* The stores' cards are put together: no two of them share an identifier.  *)
LEMMA StoresTogether ==
  ASSUME NEW S, NEW T, NEW q, NEW A, NEW s, s \notin A,
         CardsFit(S, q, A), CardsFit(T, q, {s})
  PROVE  CardsFit(S \union T, q, A \union {s})
<1>1. S \union T \subseteq CardType /\ IsFiniteSet(S \union T)
  BY FS_Union DEF CardsFit
<1>2. \A c \in S \union T : Stands(c, q, A \union {s})
  BY DEF CardsFit, Stands
<1>3. ASSUME NEW c \in S, NEW d \in T
      PROVE  c.id # d.id
  <2>1. PICK a \in Rows : a.store \in A /\ c.id = a.id
    BY DEF CardsFit, Stands
  <2>2. PICK b \in Rows : b.store = s /\ d.id = b.id
    BY DEF CardsFit, Stands
  <2>3. a.id = b.id => a = b
    BY BoardAssumption
  <2> QED
    BY <2>1, <2>2, <2>3
<1>4. \A c, d \in S \union T : c.id = d.id => c = d
  BY <1>3 DEF CardsFit
<1> QED
  BY <1>1, <1>2, <1>4 DEF CardsFit

LEMMA PageFits ==
  ASSUME NEW q \in QuestionType, NEW S, CardsFit(S, q, Stores)
  PROVE  LET page == MergePage(S, q.limit, q.offset, q.filter.kind = "running") IN
         /\ BandsFit(page, q) /\ Len(page) \in Nat /\ Len(page) <= q.limit
<1> DEFINE page == MergePage(S, q.limit, q.offset, q.filter.kind = "running")
<1>1. q.limit \in Nat /\ q.offset \in Nat /\ (q.filter.kind = "running") \in BOOLEAN
  BY DEF QuestionType
<1>2. /\ \A i \in DOMAIN page : page[i] \in S
      /\ Len(page) \in Nat /\ Len(page) <= q.limit
  BY <1>1, PageOfCards DEF CardsFit
<1> HIDE DEF page
<1>3. BandsFit(page, q)
  <2> SUFFICES ASSUME NEW i \in DOMAIN page
               PROVE  /\ \A row \in Rows : row.id = page[i].id => page[i].kind = Classify(row, q.at)
                      /\ q.filter.kind # "" => page[i].kind = q.filter.kind
    BY DEF BandsFit
  <2>1. Stands(page[i], q, Stores)
    BY <1>2 DEF CardsFit
  <2>2. PICK own \in Rows : /\ page[i].id = own.id /\ page[i].kind = Classify(own, q.at)
                            /\ q.filter.kind # "" => page[i].kind = q.filter.kind
    BY <2>1 DEF Stands
  <2>3. \A row \in Rows : row.id = page[i].id => row = own
    BY <2>2, BoardAssumption
  <2> QED
    BY <2>2, <2>3
<1> QED
  BY <1>2, <1>3 DEF page

(* A page for the same day and filter. *)
LEMMA SameDayFits ==
  ASSUME NEW cs, NEW a \in QuestionType, NEW b \in QuestionType, BandsFit(cs, a),
         mskToday(a.at) = mskToday(b.at), a.filter = b.filter
  PROVE  BandsFit(cs, b)
<1>1. a.at \in Nat /\ b.at \in Nat
  BY DEF QuestionType
<1>2. \A row \in Rows : Classify(row, a.at) = Classify(row, b.at)
  BY <1>1, BandOfTheDay
<1> QED
  BY <1>2 DEF BandsFit

-----------------------------------------------------------------------------
(* The inductive invariant.                                                 *)

Stages == {"done", "lookup", "pins", "page", "count", "facets", "card", "answer"}

IsGot(g) ==
  g = [cards |-> g.cards, featured |-> g.featured, total |-> g.total, extra |-> g.extra,
       page |-> g.page, degraded |-> g.degraded, facets |-> g.facets, visitors |-> g.visitors]
IsReply(p) ==
  p = [ok |-> p.ok, cached |-> p.cached, cards |-> p.cards, featured |-> p.featured,
       total |-> p.total, degraded |-> p.degraded, facets |-> p.facets,
       visitors |-> p.visitors]
IsGhost(t) == t = [rows |-> t.rows, pins |-> t.pins, moved |-> t.moved, at |-> t.at]
IsEntry(e) ==
  /\ e = [key |-> e.key, at |-> e.at, reply |-> e.reply, ghost |-> e.ghost]
  /\ IsReply(e.reply) /\ IsGhost(e.ghost)

(* The stores whose cards a request has read, at a stage of its way.        *)
Visited(stage, s) ==
  IF stage = "answer" THEN Stores
  ELSE IF stage = "count"
  THEN IF s = "main" THEN {"main"} ELSE IF s = "webreg" THEN {"main", "webreg"} ELSE Stores
  ELSE IF s = "main" THEN {} ELSE IF s = "webreg" THEN {"main"} ELSE {"main", "webreg"}

Fitting(p, q) == BandsFit(p.cards, q) /\ Len(p.cards) \in Nat /\ Len(p.cards) <= q.limit

StageFits(stage, q) ==
  /\ stage \in {"pins", "page", "count"} => q.op = "list"
  /\ stage = "facets" => q.op = "facets"
  /\ stage = "card" => q.op = "card"
  /\ stage = "lookup" => q.op \in {"list", "card"}
  /\ q.op = "card" => q.filter = NoFilter /\ q.limit = 1 /\ q.id \in Ids

ReadFits(stage, s, q, g, t) ==
  /\ q.op = "list" => CardsFit(g.cards, q, Visited(stage, s))
  /\ q.op = "card" /\ stage = "answer" =>
       /\ \E c : g.cards = {c} /\ BandsFit(<<c>>, q)
       /\ ~t.moved => g.visitors = visitors[q.id]

ReplyFits(p, q) == Fitting(p, q) /\ (p.cached => p.degraded = {})

ReaderInv(r) ==
  /\ IsGot(got[r]) /\ IsGhost(ghost[r]) /\ question[r].at <= now
  /\ StageFits(pc[r], question[r])
  /\ ReadFits(pc[r], src[r], question[r], got[r], ghost[r])
  /\ ReplyFits(reply[r], question[r])

ReadersInv ==
  /\ pc \in [Readers -> Stages] /\ src \in [Readers -> Stores]
  /\ question \in [Readers -> QuestionType]
  /\ DOMAIN got = Readers /\ DOMAIN reply = Readers /\ DOMAIN ghost = Readers

TablesInv ==
  /\ now \in Nat /\ board \subseteq Rows
  /\ DOMAIN pins \subseteq Ids /\ \A i \in DOMAIN pins : pins[i] \in Positions
  /\ visitors \in [Ids -> Nat] /\ dropping \in [Ids -> Nat]

(* Entries were stored for a question of their key, without gaps.           *)
PageInv(e) ==
  /\ IsEntry(e) /\ e.reply.degraded = {}
  /\ \E q \in QuestionType : e.key = CacheKey(q) /\ Fitting(e.reply, q)
CardInv(e) ==
  /\ IsEntry(e) /\ e.reply.degraded = {}
  /\ \E q \in QuestionType :
       /\ e.key = eventCacheKey(q.id, q.at) /\ q.at <= now
       /\ q.filter = NoFilter /\ q.limit = 1 /\ Fitting(e.reply, q)

BoardInv ==
  /\ TablesInv /\ ReadersInv
  /\ \A r \in Readers : ReaderInv(r)
  /\ \A e \in pages : PageInv(e)
  /\ \A e \in cards : CardInv(e)
  /\ NewcomersAreCounted

LEMMA NoFilterIsFilter == NoFilter \in Filter
BY QueriesAssumption DEF NoFilter, Filter

LEMMA IdsAreNat == Ids \subseteq Nat
BY RowTypes DEF Ids

LEMMA EmptyFits ==
  ASSUME NEW q \in QuestionType
  PROVE  Fitting(NoReply, q) /\ NoReply.cached = FALSE
<1>1. NoReply.cards = <<>> /\ NoReply.cached = FALSE
  BY DEF NoReply
<1>2. q.limit \in Nat
  BY DEF QuestionType
<1> QED
  BY <1>1, <1>2 DEF Fitting, BandsFit

LEMMA NothingRead ==
  /\ IsGot(Nothing) /\ Nothing.cards = {}
  /\ IsGhost(NoTables) /\ \A at : IsGhost(Tables(at))
BY DEF IsGot, Nothing, IsGhost, NoTables, Tables

LEMMA Start ==
  ASSUME Init
  PROVE  BoardInv
<1>1. TablesInv
  <2>1. now \in Nat
    BY BoardAssumption DEF Init
  <2>2. PICK b \in Boards : board = b.rows /\ pins = b.pins
    BY DEF Init
  <2>3. /\ board \subseteq Rows /\ DOMAIN pins \subseteq Ids
        /\ \A i \in DOMAIN pins : pins[i] \in Positions
    BY <2>2, BoardAssumption
  <2> QED
    BY <2>1, <2>3 DEF Init, TablesInv
<1>2. NoQuestion \in QuestionType
  BY NoFilterIsFilter DEF NoQuestion, QuestionType
<1>3. ReadersInv
  BY <1>2 DEF Init, ReadersInv, Stages, Stores
<1>4. ASSUME NEW r \in Readers
      PROVE  ReaderInv(r)
  <2>1. /\ pc[r] = "done" /\ src[r] = "main" /\ question[r] = NoQuestion
        /\ got[r] = Nothing /\ reply[r] = NoReply /\ ghost[r] = NoTables
    BY DEF Init
  <2>2. NoQuestion.op = "none" /\ NoQuestion.at = 0
    BY DEF NoQuestion
  <2>3. ReplyFits(NoReply, NoQuestion)
    BY <1>2, EmptyFits DEF ReplyFits
  <2> QED
    BY <1>1, <2>1, <2>2, <2>3, NothingRead DEF ReaderInv, StageFits, ReadFits, TablesInv
<1>5. pages = {} /\ cards = {}
  BY DEF Init
<1> QED
  BY <1>1, <1>3, <1>4, <1>5 DEF BoardInv, NewcomersAreCounted

-----------------------------------------------------------------------------
(* Steps of a reader.                                                       *)

Same(x) ==
  /\ pc'[x] = pc[x] /\ src'[x] = src[x] /\ question'[x] = question[x]
  /\ got'[x] = got[x] /\ reply'[x] = reply[x] /\ ghost'[x] = ghost[x]

(* A step of one reader over tables that do not change. *)
LEMMA ReaderStep ==
  ASSUME BoardInv, NEW r \in Readers, UNCHANGED <<now, tables, dropping>>,
         ReadersInv', \A x \in Readers \ {r} : Same(x), ReaderInv(r)'
  PROVE  TablesInv' /\ ReadersInv' /\ \A x \in Readers : ReaderInv(x)'
<1>1. TablesInv'
  BY DEF BoardInv, TablesInv, tables
<1>2. ASSUME NEW x \in Readers, x # r
      PROVE  ReaderInv(x)'
  <2>1. ReaderInv(x) /\ Same(x)
    BY <1>2 DEF BoardInv
  <2> QED
    BY <2>1 DEF ReaderInv, ReadFits, Same, tables
<1> QED
  BY <1>1, <1>2

LEMMA CachesStay ==
  ASSUME BoardInv, UNCHANGED <<now, tables, dropping, pages, cards>>
  PROVE  /\ \A e \in pages' : PageInv(e)'
         /\ \A e \in cards' : CardInv(e)'
         /\ NewcomersAreCounted'
<1>1. \A e \in pages' : PageInv(e)'
  BY DEF BoardInv, PageInv
<1>2. \A e \in cards' : CardInv(e)'
  BY DEF BoardInv, CardInv
<1>3. NewcomersAreCounted'
  BY DEF BoardInv, NewcomersAreCounted, tables
<1> QED
  BY <1>1, <1>2, <1>3

(* A reader's step that leaves the caches alone. *)
LEMMA QuietStep ==
  ASSUME BoardInv, NEW r \in Readers, UNCHANGED <<now, tables, dropping, pages, cards>>,
         ReadersInv', \A x \in Readers \ {r} : Same(x), ReaderInv(r)'
  PROVE  BoardInv'
<1>1. UNCHANGED <<now, tables, dropping>>
  OBVIOUS
<1>2. TablesInv' /\ ReadersInv' /\ \A x \in Readers : ReaderInv(x)'
  BY <1>1, ReaderStep
<1>3. /\ \A e \in pages' : PageInv(e)'
      /\ \A e \in cards' : CardInv(e)'
      /\ NewcomersAreCounted'
  BY CachesStay
<1> QED
  BY <1>2, <1>3 DEF BoardInv

LEMMA Asking ==
  ASSUME BoardInv, NEW r \in Readers, NEW q \in QuestionType, Ask(r, q),
         q.op # "none", q.at = now, q.op = "card" => q.filter = NoFilter /\ q.limit = 1 /\ q.id \in Ids
  PROVE  BoardInv'
<1>1. ReadersInv
  BY DEF BoardInv
<1>2. /\ question' = [question EXCEPT ![r] = q]
      /\ pc' = [pc EXCEPT ![r] = IF q.op = "facets" THEN "facets" ELSE "lookup"]
      /\ src' = [src EXCEPT ![r] = "main"]
      /\ got' = [got EXCEPT ![r] = Nothing]
      /\ reply' = [reply EXCEPT ![r] = NoReply]
      /\ ghost' = [ghost EXCEPT ![r] = Tables(q.at)]
      /\ UNCHANGED <<now, tables, dropping, pages, cards>>
  BY DEF Ask
<1>3. ReadersInv'
  BY <1>1, <1>2 DEF ReadersInv, Stages, Stores
<1>4. \A x \in Readers \ {r} : Same(x)
  BY <1>1, <1>2 DEF ReadersInv, Same
<1>5. /\ question'[r] = q /\ pc'[r] = (IF q.op = "facets" THEN "facets" ELSE "lookup")
      /\ src'[r] = "main" /\ got'[r] = Nothing /\ reply'[r] = NoReply
      /\ ghost'[r] = Tables(q.at)
  BY <1>1, <1>2 DEF ReadersInv
<1>6. ReaderInv(r)'
  <2>1. IsGot(got'[r]) /\ IsGhost(ghost'[r]) /\ question'[r].at <= now'
    <3>1. now \in Nat
      BY DEF BoardInv, TablesInv
    <3> QED
      BY <1>2, <1>5, <3>1, NothingRead
  <2>2. StageFits(pc'[r], question'[r])
    <3>1. q.op \in {"list", "facets", "card"}
      BY DEF QuestionType
    <3> QED
      BY <1>5, <3>1 DEF StageFits
  <2>3. ReadFits(pc[r], src[r], question[r], got[r], ghost[r])'
    BY <1>5, NothingRead, NoCardsFit DEF ReadFits
  <2>4. ReplyFits(reply'[r], question'[r])
    BY <1>5, EmptyFits DEF ReplyFits
  <2> QED
    BY <2>1, <2>2, <2>3, <2>4 DEF ReaderInv
<1> QED
  BY <1>2, <1>3, <1>4, <1>6, QuietStep

LEMMA Asked ==
  ASSUME BoardInv, NEW r \in Readers, AskList(r) \/ AskFacets(r) \/ GetByID(r)
  PROVE  BoardInv'
<1>1. now \in Nat
  BY DEF BoardInv, TablesInv
<1>2. CASE AskList(r)
  <2>1. PICK f \in Questions, w \in Windows :
          Ask(r, [op |-> "list", filter |-> f, limit |-> w.limit, offset |-> w.offset,
                  id |-> 0, at |-> now])
    BY <1>2 DEF AskList
  <2> DEFINE q == [op |-> "list", filter |-> f, limit |-> w.limit, offset |-> w.offset,
                   id |-> 0, at |-> now]
  <2>2. f \in Filter /\ w.limit \in Nat /\ w.offset \in Nat
    BY BoardAssumption
  <2>3. q \in QuestionType /\ q.op = "list" /\ q.at = now
    BY <1>1, <2>2 DEF QuestionType
  <2> HIDE DEF q
  <2>4. Ask(r, q)
    BY <2>1 DEF q
  <2> QED
    BY <2>3, <2>4, Asking
<1>3. CASE AskFacets(r)
  <2>1. PICK f \in Questions :
          Ask(r, [op |-> "facets", filter |-> f, limit |-> 1, offset |-> 0, id |-> 0,
                  at |-> now])
    BY <1>3 DEF AskFacets
  <2> DEFINE q == [op |-> "facets", filter |-> f, limit |-> 1, offset |-> 0, id |-> 0,
                   at |-> now]
  <2>2. f \in Filter
    BY BoardAssumption
  <2>3. q \in QuestionType /\ q.op = "facets" /\ q.at = now
    BY <1>1, <2>2 DEF QuestionType
  <2> HIDE DEF q
  <2>4. Ask(r, q)
    BY <2>1 DEF q
  <2> QED
    BY <2>3, <2>4, Asking
<1>4. CASE GetByID(r)
  <2>1. PICK p \in board : Ask(r, [NoQuestion EXCEPT !.op = "card", !.id = p.id, !.at = now])
    BY <1>4 DEF GetByID
  <2> DEFINE q == [NoQuestion EXCEPT !.op = "card", !.id = p.id, !.at = now]
  <2>2. p.id \in Ids
    BY DEF BoardInv, TablesInv, Ids
  <2>3. NoQuestion \in QuestionType /\ NoQuestion.filter = NoFilter /\ NoQuestion.limit = 1
    BY NoFilterIsFilter DEF NoQuestion, QuestionType
  <2>4. Ask(r, q)
    BY <2>1
  <2>5. q \in QuestionType
    BY <1>1, <2>2, <2>3, IdsAreNat DEF QuestionType
  <2>6. q.op = "card" /\ q.at = now /\ q.filter = NoFilter /\ q.limit = 1 /\ q.id \in Ids
    BY <2>2, <2>3 DEF QuestionType
  <2> HIDE DEF q
  <2> QED
    BY <2>4, <2>5, <2>6, Asking
<1> QED
  BY <1>2, <1>3, <1>4

(* What is known of a reader. *)
LEMMA ReaderFacts ==
  ASSUME BoardInv, NEW r \in Readers
  PROVE  /\ ReadersInv /\ TablesInv /\ ReaderInv(r)
         /\ question[r] \in QuestionType /\ question[r].filter \in Filter
         /\ question[r].limit \in Nat /\ question[r].offset \in Nat
         /\ question[r].at \in Nat /\ pc[r] \in Stages /\ src[r] \in Stores
<1>1. ReadersInv /\ TablesInv /\ ReaderInv(r)
  BY DEF BoardInv
<1>2. question[r] \in QuestionType /\ pc[r] \in Stages /\ src[r] \in Stores
  BY <1>1 DEF ReadersInv
<1> QED
  BY <1>1, <1>2 DEF QuestionType

LEMMA FromPages ==
  ASSUME BoardInv, NEW r \in Readers, GetList(r)
  PROVE  BoardInv'
<1>1. /\ ReadersInv /\ ReaderInv(r) /\ question[r] \in QuestionType
      /\ pc[r] = "lookup" /\ question[r].op = "list"
      /\ UNCHANGED <<now, tables, dropping, pages, cards>>
  BY ReaderFacts DEF GetList
<1>2. PICK e \in pages : /\ e.key = CacheKey(question[r])
                         /\ reply' = [reply EXCEPT ![r] = [e.reply EXCEPT !.cached = TRUE]]
                         /\ ghost' = [ghost EXCEPT ![r] = e.ghost]
  BY DEF GetList
<1>3. pc' = [pc EXCEPT ![r] = "done"] /\ UNCHANGED <<src, question, got>>
  BY DEF GetList
<1>4. PageInv(e)
  BY DEF BoardInv
<1>5. PICK q \in QuestionType : e.key = CacheKey(q) /\ Fitting(e.reply, q)
  BY <1>4 DEF PageInv
<1>6. /\ mskToday(q.at) = mskToday(question[r].at)
      /\ q.limit = question[r].limit /\ q.filter = question[r].filter
  <2>1. \A a : CacheKey(a)[1] = mskToday(a.at) /\ CacheKey(a)[2] = a.limit
                /\ CacheKey(a)[4] = a.filter
    BY DEF CacheKey
  <2> QED
    BY <1>2, <1>5, <2>1
<1>7. Fitting(e.reply, question[r])
  BY <1>1, <1>5, <1>6, SameDayFits DEF Fitting
<1>8. ReadersInv'
  BY <1>1, <1>2, <1>3 DEF ReadersInv, Stages
<1>9. \A x \in Readers \ {r} : Same(x)
  BY <1>1, <1>2, <1>3 DEF ReadersInv, Same
<1>10. /\ reply'[r] = [e.reply EXCEPT !.cached = TRUE] /\ ghost'[r] = e.ghost
       /\ pc'[r] = "done" /\ src'[r] = src[r] /\ question'[r] = question[r] /\ got'[r] = got[r]
  BY <1>1, <1>2, <1>3 DEF ReadersInv
<1>11. ReaderInv(r)'
  <2>1. reply'[r].cards = e.reply.cards /\ reply'[r].degraded = {}
    BY <1>4, <1>10 DEF PageInv, IsEntry, IsReply
  <2>2. ReplyFits(reply'[r], question'[r])
    BY <1>7, <1>10, <2>1 DEF ReplyFits, Fitting
  <2>3. StageFits(pc'[r], question'[r])
    BY <1>1, <1>10 DEF StageFits
  <2>4. ReadFits(pc[r], src[r], question[r], got[r], ghost[r])'
    BY <1>1, <1>10 DEF ReaderInv, ReadFits, Visited
  <2> QED
    BY <1>1, <1>4, <1>10, <2>2, <2>3, <2>4 DEF ReaderInv, PageInv, IsEntry
<1> QED
  BY <1>1, <1>8, <1>9, <1>11, QuietStep

LEMMA FromCards ==
  ASSUME BoardInv, NEW r \in Readers, GetEvent(r)
  PROVE  BoardInv'
<1>1. /\ ReadersInv /\ ReaderInv(r) /\ question[r] \in QuestionType
      /\ pc[r] = "lookup" /\ question[r].op = "card"
      /\ UNCHANGED <<now, tables, dropping, pages, cards>>
  BY ReaderFacts DEF GetEvent
<1>2. PICK e \in cards : /\ e.key = eventCacheKey(question[r].id, question[r].at)
                         /\ reply' = [reply EXCEPT ![r] = [e.reply EXCEPT !.cached = TRUE]]
                         /\ ghost' = [ghost EXCEPT ![r] = e.ghost]
  BY DEF GetEvent
<1>3. pc' = [pc EXCEPT ![r] = "done"] /\ UNCHANGED <<src, question, got>>
  BY DEF GetEvent
<1>4. CardInv(e)
  BY DEF BoardInv
<1>5. PICK q \in QuestionType :
        /\ e.key = eventCacheKey(q.id, q.at) /\ q.at <= now
        /\ q.filter = NoFilter /\ q.limit = 1 /\ Fitting(e.reply, q)
  BY <1>4 DEF CardInv
<1>6. /\ mskToday(q.at) = mskToday(question[r].at)
      /\ q.limit = question[r].limit /\ q.filter = question[r].filter
  BY <1>1, <1>2, <1>5 DEF eventCacheKey, ReaderInv, StageFits
<1>7. Fitting(e.reply, question[r])
  BY <1>1, <1>5, <1>6, SameDayFits DEF Fitting
<1>8. ReadersInv'
  BY <1>1, <1>2, <1>3 DEF ReadersInv, Stages
<1>9. \A x \in Readers \ {r} : Same(x)
  BY <1>1, <1>2, <1>3 DEF ReadersInv, Same
<1>10. /\ reply'[r] = [e.reply EXCEPT !.cached = TRUE] /\ ghost'[r] = e.ghost
       /\ pc'[r] = "done" /\ src'[r] = src[r] /\ question'[r] = question[r] /\ got'[r] = got[r]
  BY <1>1, <1>2, <1>3 DEF ReadersInv
<1>11. ReaderInv(r)'
  <2>1. reply'[r].cards = e.reply.cards /\ reply'[r].degraded = {}
    BY <1>4, <1>10 DEF CardInv, IsEntry, IsReply
  <2>2. ReplyFits(reply'[r], question'[r])
    BY <1>7, <1>10, <2>1 DEF ReplyFits, Fitting
  <2>3. StageFits(pc'[r], question'[r])
    BY <1>1, <1>10 DEF ReaderInv, StageFits
  <2>4. ReadFits(pc[r], src[r], question[r], got[r], ghost[r])'
    BY <1>1, <1>10 DEF ReadFits
  <2> QED
    BY <1>1, <1>4, <1>10, <2>2, <2>3, <2>4 DEF ReaderInv, CardInv, IsEntry
<1> QED
  BY <1>1, <1>8, <1>9, <1>11, QuietStep

LEMMA Missed ==
  ASSUME BoardInv, NEW r \in Readers, Miss(r)
  PROVE  BoardInv'
<1>1. /\ ReadersInv /\ ReaderInv(r) /\ pc[r] = "lookup"
      /\ UNCHANGED <<now, tables, dropping, pages, cards>>
  BY ReaderFacts DEF Miss
<1>2. /\ pc' = [pc EXCEPT ![r] = IF question[r].op = "list" THEN "pins" ELSE "card"]
      /\ ghost' = [ghost EXCEPT ![r] = Tables(question[r].at)]
      /\ UNCHANGED <<src, question, got, reply>>
  BY DEF Miss
<1>3. ReadersInv'
  BY <1>1, <1>2 DEF ReadersInv, Stages
<1>4. \A x \in Readers \ {r} : Same(x)
  BY <1>1, <1>2 DEF ReadersInv, Same
<1>5. /\ pc'[r] = (IF question[r].op = "list" THEN "pins" ELSE "card")
      /\ ghost'[r] = Tables(question[r].at) /\ src'[r] = src[r]
      /\ question'[r] = question[r] /\ got'[r] = got[r] /\ reply'[r] = reply[r]
  BY <1>1, <1>2 DEF ReadersInv
<1>6. ReaderInv(r)'
  <2>1. StageFits(pc'[r], question'[r])
    BY <1>1, <1>5 DEF ReaderInv, StageFits
  <2>2. ReadFits(pc[r], src[r], question[r], got[r], ghost[r])'
    BY <1>1, <1>5 DEF ReaderInv, ReadFits, Visited
  <2> QED
    BY <1>1, <1>5, <2>1, <2>2, NothingRead DEF ReaderInv
<1> QED
  BY <1>1, <1>3, <1>4, <1>6, QuietStep

(* A statement of List: a reader adds to what it has got. *)
LEMMA ListStep ==
  ASSUME BoardInv, NEW r \in Readers, question[r].op = "list",
         UNCHANGED <<now, tables, dropping, pages, cards, question, reply, ghost>>,
         ReadersInv', \A x \in Readers \ {r} : Same(x),
         IsGot(got'[r]), pc'[r] \in {"page", "count", "answer"},
         CardsFit(got'[r].cards, question[r], Visited(pc'[r], src'[r]))
  PROVE  BoardInv'
<1>1. ReaderInv(r)
  BY ReaderFacts
<1>2. StageFits(pc'[r], question'[r])
  BY DEF StageFits
<1>3. ReadFits(pc[r], src[r], question[r], got[r], ghost[r])'
  BY DEF ReadFits
<1>4. ReaderInv(r)'
  BY <1>1, <1>2, <1>3 DEF ReaderInv
<1> QED
  BY <1>4, QuietStep

LEMMA OneReader ==
  ASSUME BoardInv, NEW r \in Readers, NEW stage \in Stages, NEW g,
         pc' = [pc EXCEPT ![r] = stage], got' = [got EXCEPT ![r] = g],
         UNCHANGED <<src, question, reply, ghost>>
  PROVE  /\ ReadersInv' /\ \A x \in Readers \ {r} : Same(x)
         /\ pc'[r] = stage /\ got'[r] = g
<1>1. ReadersInv
  BY ReaderFacts
<1>2. ReadersInv'
  BY <1>1 DEF ReadersInv
<1>3. \A x \in Readers \ {r} : Same(x)
  BY <1>1 DEF ReadersInv, Same
<1> QED
  BY <1>1, <1>2, <1>3 DEF ReadersInv

(* On to the next store. *)
LEMMA OneReaderOn ==
  ASSUME BoardInv, NEW r \in Readers, NEW g, NextStore(r), got' = [got EXCEPT ![r] = g],
         UNCHANGED <<question, reply, ghost>>
  PROVE  /\ ReadersInv' /\ \A x \in Readers \ {r} : Same(x)
         /\ got'[r] = g
         /\ src'[r] = IF src[r] = "main" THEN "webreg" ELSE "tg"
         /\ pc'[r] = IF src[r] = "tg" THEN "answer"
                     ELSE IF question[r].op = "list" THEN "page" ELSE "facets"
<1>1. ReadersInv
  BY ReaderFacts
<1>2. /\ pc' = [pc EXCEPT ![r] = IF src[r] = "tg" THEN "answer"
                                ELSE IF question[r].op = "list" THEN "page" ELSE "facets"]
      /\ src' = [src EXCEPT ![r] = IF src[r] = "main" THEN "webreg" ELSE "tg"]
  BY DEF NextStore
<1>3. ReadersInv'
  BY <1>1, <1>2 DEF ReadersInv, Stages, Stores
<1>4. \A x \in Readers \ {r} : Same(x)
  BY <1>1, <1>2 DEF ReadersInv, Same
<1> QED
  BY <1>1, <1>2, <1>3, <1>4 DEF ReadersInv

LEMMA StoresInTurn ==
  ASSUME NEW s \in Stores, NEW stage \in {"page", "count"}
  PROVE  /\ s \notin Visited("page", s)
         /\ Visited("count", s) = Visited("page", s) \union {s}
         /\ Visited(stage, s) \subseteq
              Visited(IF s = "tg" THEN "answer" ELSE "page",
                      IF s = "main" THEN "webreg" ELSE "tg")
BY DEF Stores, Visited

LEMMA GotKeepsItsShape ==
  ASSUME NEW g, IsGot(g), NEW a, NEW b
  PROVE  /\ IsGot([g EXCEPT !.degraded = a, !.total = b])
         /\ [g EXCEPT !.degraded = a, !.total = b].cards = g.cards
<1> DEFINE k1 == [g EXCEPT !.degraded = a]
           k2 == [k1 EXCEPT !.total = b]
<1>1. IsGot(k1) /\ k1.cards = g.cards
  BY DEF IsGot
<1>2. [g EXCEPT !.degraded = a, !.total = b] = k2
  OBVIOUS
<1> HIDE DEF k1
<1>3. IsGot(k2) /\ k2.cards = g.cards
  BY <1>1 DEF IsGot
<1> QED
  BY <1>2, <1>3

LEMMA PinsRead ==
  ASSUME BoardInv, NEW r \in Readers, ReadPins(r)
  PROVE  BoardInv'
<1>1. /\ ReaderInv(r) /\ pc[r] = "pins"
      /\ UNCHANGED <<now, tables, dropping, pages, cards, question, reply, ghost, src>>
  BY ReaderFacts DEF ReadPins
<1>2. PICK top : got' = [got EXCEPT ![r].featured = Cards(pins, top, question[r].at)]
  BY DEF ReadPins
<1> DEFINE g == [got[r] EXCEPT !.featured = Cards(pins, top, question[r].at)]
<1>3. pc' = [pc EXCEPT ![r] = "page"] /\ got' = [got EXCEPT ![r] = g]
  BY <1>2 DEF ReadPins
<1>4. IsGot(g) /\ g.cards = got[r].cards
  BY <1>1 DEF ReaderInv, IsGot
<1>5. question[r].op = "list" /\ CardsFit(got[r].cards, question[r], Visited("pins", src[r]))
  BY <1>1 DEF ReaderInv, StageFits, ReadFits
<1> HIDE DEF g
<1>6. /\ ReadersInv' /\ \A x \in Readers \ {r} : Same(x)
      /\ pc'[r] = "page" /\ got'[r] = g
  BY <1>1, <1>3, OneReader DEF Stages
<1>7. CardsFit(got'[r].cards, question[r], Visited(pc'[r], src'[r]))
  BY <1>1, <1>4, <1>5, <1>6 DEF Visited
<1> QED
  BY <1>1, <1>4, <1>5, <1>6, <1>7, ListStep

LEMMA PageRead ==
  ASSUME BoardInv, NEW r \in Readers, ReadPage(r)
  PROVE  BoardInv'
<1>1. /\ ReaderInv(r) /\ TablesInv /\ question[r] \in QuestionType /\ src[r] \in Stores
      /\ pc[r] = "page"
      /\ UNCHANGED <<now, tables, dropping, pages, cards, question, reply, ghost, src>>
  BY ReaderFacts DEF ReadPage
<1>2. PICK top \in Upcoming(pins, board, src[r], question[r].filter, question[r].at, Window(r)) :
        got' = [got EXCEPT
          ![r].cards = @ \union Cards(pins, top, question[r].at),
          ![r].page = Cardinality(top),
          ![r].extra = IF src[r] = "main" THEN @ ELSE @ + Cardinality(top)]
  BY DEF ReadPage
<1> DEFINE new == Cards(pins, top, question[r].at)
           old == got[r]
           all == old.cards \union new
           size == Cardinality(top)
           extra == IF src[r] = "main" THEN old.extra ELSE old.extra + size
           g == [old EXCEPT !.cards = all, !.page = size, !.extra = extra]
<1>3. pc' = [pc EXCEPT ![r] = "count"] /\ got' = [got EXCEPT ![r] = g]
  BY <1>2 DEF ReadPage
<1>4. IsGot(g) /\ g.cards = got[r].cards \union new
  <2>1. IsGot(old)
    BY <1>1 DEF ReaderInv
  <2> HIDE DEF old, all, size, extra
  <2> DEFINE h1 == [old EXCEPT !.cards = all]
             h2 == [h1 EXCEPT !.page = size]
             h3 == [h2 EXCEPT !.extra = extra]
  <2>2. g = h3
    OBVIOUS
  <2>3. IsGot(h1) /\ h1.cards = all
    BY <2>1 DEF IsGot
  <2> HIDE DEF h1
  <2>4. IsGot(h2) /\ h2.cards = all
    BY <2>3 DEF IsGot
  <2> HIDE DEF h2
  <2>5. IsGot(h3) /\ h3.cards = all
    BY <2>4 DEF IsGot
  <2> QED
    BY <2>2, <2>5 DEF all, old
<1>5. question[r].op = "list" /\ CardsFit(got[r].cards, question[r], Visited("page", src[r]))
  BY <1>1 DEF ReaderInv, StageFits, ReadFits
<1>6. CardsFit(new, question[r], {src[r]})
  <2>1. \A i \in DOMAIN pins : pins[i] \in Nat
    BY <1>1, BoardAssumption DEF TablesInv
  <2>2. board \in SUBSET Rows
    BY <1>1 DEF TablesInv
  <2> QED
    BY <1>1, <2>1, <2>2, StoreCards
<1> HIDE DEF g, new
<1>7. /\ ReadersInv' /\ \A x \in Readers \ {r} : Same(x)
      /\ pc'[r] = "count" /\ got'[r] = g
  BY <1>1, <1>3, OneReader DEF Stages
<1>8. CardsFit(got'[r].cards, question[r], Visited(pc'[r], src'[r]))
  <2>1. /\ src[r] \notin Visited("page", src[r])
        /\ Visited("count", src[r]) = Visited("page", src[r]) \union {src[r]}
    BY <1>1, StoresInTurn
  <2>2. CardsFit(got[r].cards \union new, question[r], Visited("page", src[r]) \union {src[r]})
    BY <1>5, <1>6, <2>1, StoresTogether
  <2> QED
    BY <1>1, <1>4, <1>7, <2>1, <2>2
<1> QED
  BY <1>1, <1>4, <1>5, <1>7, <1>8, ListStep

(* A number, or a failure: the reader goes on to the next store with the    *)
(* cards it had, or with none.                                              *)
LEMMA StorePassed ==
  ASSUME BoardInv, NEW r \in Readers, question[r].op = "list", pc[r] \in {"page", "count"},
         UNCHANGED <<now, tables, dropping, pages, cards, question, reply, ghost>>,
         NEW g, IsGot(g), g.cards = got[r].cards,
         NextStore(r), got' = [got EXCEPT ![r] = g]
  PROVE  BoardInv'
<1>1. ReaderInv(r) /\ src[r] \in Stores
  BY ReaderFacts
<1>2. /\ ReadersInv' /\ \A x \in Readers \ {r} : Same(x)
      /\ got'[r] = g
      /\ src'[r] = (IF src[r] = "main" THEN "webreg" ELSE "tg")
      /\ pc'[r] = (IF src[r] = "tg" THEN "answer" ELSE "page")
  BY OneReaderOn
<1>3. CardsFit(g.cards, question[r], Visited(pc[r], src[r]))
  BY <1>1 DEF ReaderInv, ReadFits
<1>4. CardsFit(got'[r].cards, question[r], Visited(pc'[r], src'[r]))
  <2>1. Visited(pc[r], src[r]) \subseteq Visited(pc'[r], src'[r])
    BY <1>1, <1>2, StoresInTurn
  <2> QED
    BY <1>2, <1>3, <2>1, MoreStores
<1> QED
  BY <1>2, <1>4, ListStep

LEMMA Counted ==
  ASSUME BoardInv, NEW r \in Readers, ReadCount(r) \/ FailPage(r) \/ FailCount(r)
  PROVE  BoardInv'
<1>1. /\ ReaderInv(r) /\ pc[r] \in {"page", "count"} /\ NextStore(r)
      /\ UNCHANGED <<now, tables, dropping, pages, cards, question, reply, ghost>>
  BY ReaderFacts DEF ReadCount, FailPage, FailCount
<1>2. question[r].op = "list" /\ IsGot(got[r])
  BY <1>1 DEF ReaderInv, StageFits
<1>3. CASE ReadCount(r)
  <2> DEFINE g == [got[r] EXCEPT !.total =
         @ + Cardinality(Matching(board, src[r], question[r].filter, question[r].at))]
  <2>1. got' = [got EXCEPT ![r] = g]
    BY <1>3 DEF ReadCount
  <2>2. IsGot(g) /\ g.cards = got[r].cards
    BY <1>2 DEF IsGot
  <2> HIDE DEF g
  <2> QED
    BY <1>1, <1>2, <2>1, <2>2, StorePassed
<1>4. CASE FailPage(r)
  <2> DEFINE g == [got[r] EXCEPT !.degraded = @ \union {<<src[r], "page">>}]
  <2>1. got' = [got EXCEPT ![r] = g]
    BY <1>4 DEF FailPage
  <2>2. IsGot(g) /\ g.cards = got[r].cards
    BY <1>2 DEF IsGot
  <2> HIDE DEF g
  <2> QED
    BY <1>1, <1>2, <2>1, <2>2, StorePassed
<1>5. CASE FailCount(r)
  <2> DEFINE old == got[r]
             gaps == old.degraded \union {<<src[r], "count">>}
             seen == old.total + old.page
             g == [old EXCEPT !.degraded = gaps, !.total = seen]
  <2>1. got' = [got EXCEPT ![r] = g]
    BY <1>5 DEF FailCount
  <2>2. IsGot(g) /\ g.cards = got[r].cards
    <3>1. IsGot(old)
      BY <1>2
    <3> HIDE DEF old, gaps, seen
    <3>2. IsGot(g) /\ g.cards = old.cards
      BY <3>1, GotKeepsItsShape
    <3> QED
      BY <3>2 DEF old
  <2> HIDE DEF g
  <2> QED
    BY <1>1, <1>2, <2>1, <2>2, StorePassed
<1> QED
  BY <1>3, <1>4, <1>5

LEMMA MainFailed ==
  ASSUME BoardInv, NEW r \in Readers, FailMain(r)
  PROVE  BoardInv'
<1> DEFINE g == [Nothing EXCEPT !.degraded = {<<"main", "page">>}]
<1>1. /\ ReaderInv(r) /\ pc[r] \in {"pins", "page", "count"} /\ src[r] = "main"
      /\ NextStore(r) /\ got' = [got EXCEPT ![r] = g]
      /\ UNCHANGED <<now, tables, dropping, pages, cards, question, reply, ghost>>
  BY ReaderFacts DEF FailMain
<1>2. question[r].op = "list"
  BY <1>1 DEF ReaderInv, StageFits
<1>3. IsGot(g) /\ g.cards = {}
  BY NothingRead DEF IsGot
<1> HIDE DEF g
<1>4. /\ ReadersInv' /\ \A x \in Readers \ {r} : Same(x)
      /\ got'[r] = g /\ pc'[r] = "page"
  BY <1>1, <1>2, OneReaderOn
<1>5. CardsFit(got'[r].cards, question[r], Visited(pc'[r], src'[r]))
  BY <1>3, <1>4, NoCardsFit
<1> QED
  BY <1>1, <1>2, <1>3, <1>4, <1>5, ListStep

(* The end of a request: nothing is kept of what was read. *)
LEMMA Answered ==
  ASSUME BoardInv, NEW r \in Readers, NEW p, ReplyFits(p, question[r]),
         reply' = [reply EXCEPT ![r] = p], pc' = [pc EXCEPT ![r] = "done"],
         got' = [got EXCEPT ![r] = Nothing],
         UNCHANGED <<now, tables, dropping, src, question, ghost>>
  PROVE  TablesInv' /\ ReadersInv' /\ \A x \in Readers : ReaderInv(x)'
<1>1. ReadersInv /\ ReaderInv(r)
  BY ReaderFacts
<1>2. ReadersInv'
  BY <1>1 DEF ReadersInv, Stages
<1>3. \A x \in Readers \ {r} : Same(x)
  BY <1>1 DEF ReadersInv, Same
<1>4. pc'[r] = "done" /\ reply'[r] = p /\ got'[r] = Nothing
  BY <1>1 DEF ReadersInv
<1>5. StageFits(pc'[r], question'[r])
  BY <1>1, <1>4 DEF ReaderInv, StageFits
<1>6. ReadFits(pc[r], src[r], question[r], got[r], ghost[r])'
  BY <1>4, NothingRead, NoCardsFit DEF ReadFits
<1>7. ReaderInv(r)'
  BY <1>1, <1>4, <1>5, <1>6, NothingRead DEF ReaderInv
<1> QED
  BY <1>2, <1>3, <1>7, ReaderStep

LEMMA AnOkReply ==
  /\ IsReply([NoReply EXCEPT !.ok = TRUE])
  /\ [NoReply EXCEPT !.ok = TRUE].cached = FALSE
  /\ [NoReply EXCEPT !.ok = TRUE].degraded = {}
<1> DEFINE old == NoReply
           yes == TRUE
           new == [old EXCEPT !.ok = yes]
<1>1. IsReply(old) /\ old.cached = FALSE /\ old.degraded = {}
  BY DEF NoReply, IsReply
<1> HIDE DEF old, yes
<1>2. IsReply(new)
  BY <1>1 DEF IsReply
<1>3. new.cached = old.cached /\ new.degraded = old.degraded
  BY <1>1 DEF IsReply
<1> QED
  BY <1>1, <1>2, <1>3 DEF old, yes

(* The fields of a list's reply. *)
LEMMA ListedFields ==
  ASSUME NEW r
  PROVE  LET q == question[r] IN
         /\ Listed(r).cards =
              MergePage(got[r].cards, q.limit, q.offset, q.filter.kind = "running")
         /\ Listed(r).total = got[r].total /\ Listed(r).cached = FALSE
         /\ Listed(r).degraded = got[r].degraded /\ IsReply(Listed(r))
<1> DEFINE q == question[r]
           page == MergePage(got[r].cards, q.limit, q.offset, q.filter.kind = "running")
           featured == IF IsEmpty(q.filter) THEN got[r].featured ELSE {}
           total == got[r].total
           gaps == got[r].degraded
           h1 == [NoReply EXCEPT !.ok = TRUE]
           h2 == [h1 EXCEPT !.cards = page]
           h3 == [h2 EXCEPT !.featured = featured]
           h4 == [h3 EXCEPT !.total = total]
           h5 == [h4 EXCEPT !.degraded = gaps]
<1>1. Listed(r) = h5
  BY DEF Listed
<1>2. IsReply(h1) /\ h1.cached = FALSE
  BY AnOkReply
<1> HIDE DEF h1, page, featured, total, gaps
<1>3. IsReply(h2) /\ h2.cached = FALSE /\ h2.cards = page
  BY <1>2 DEF IsReply
<1> HIDE DEF h2
<1>4. IsReply(h3) /\ h3.cached = FALSE /\ h3.cards = page
  BY <1>3 DEF IsReply
<1> HIDE DEF h3
<1>5. IsReply(h4) /\ h4.cached = FALSE /\ h4.cards = page /\ h4.total = total
  BY <1>4 DEF IsReply
<1> HIDE DEF h4
<1>6. /\ IsReply(h5) /\ h5.cached = FALSE /\ h5.cards = page /\ h5.total = total
      /\ h5.degraded = gaps
  BY <1>5 DEF IsReply
<1> QED
  BY <1>1, <1>6 DEF page, total, gaps

LEMMA ListAnswered ==
  ASSUME BoardInv, NEW r \in Readers, AnswerList(r)
  PROVE  BoardInv'
<1> DEFINE q == question[r]
           silent == <<"main", "page">> \in got[r].degraded /\ got[r].extra = 0
           none == [NoReply EXCEPT !.degraded = got[r].degraded]
           p == IF silent THEN none ELSE Listed(r)
           entry == [key |-> CacheKey(q), at |-> now, reply |-> Listed(r), ghost |-> ghost[r]]
<1>1. /\ pc[r] = "answer" /\ q.op = "list"
      /\ reply' = [reply EXCEPT ![r] = p] /\ pc' = [pc EXCEPT ![r] = "done"]
      /\ got' = [got EXCEPT ![r] = Nothing]
      /\ UNCHANGED <<now, tables, dropping, src, question, ghost, cards>>
  BY DEF AnswerList
<1>2. pages' = pages \/ (WorthKeeping(r) /\ pages' = Others(pages, CacheKey(q)) \union {entry})
  BY DEF AnswerList
<1>3. ReaderInv(r) /\ q \in QuestionType
  BY ReaderFacts
<1>4. /\ Listed(r).cards = MergePage(got[r].cards, q.limit, q.offset, q.filter.kind = "running")
      /\ Listed(r).cached = FALSE /\ Listed(r).degraded = got[r].degraded /\ IsReply(Listed(r))
  BY ListedFields
<1>5. CardsFit(got[r].cards, q, Stores)
  BY <1>1, <1>3 DEF ReaderInv, ReadFits, Visited
<1>6. Fitting(Listed(r), q)
  BY <1>3, <1>4, <1>5, PageFits DEF Fitting
<1>7. ReplyFits(none, q)
  <2>1. none.cards = NoReply.cards /\ none.cached = FALSE
    BY DEF NoReply
  <2> QED
    BY <1>3, <2>1, EmptyFits DEF ReplyFits, Fitting
<1>8. ReplyFits(Listed(r), q)
  BY <1>4, <1>6 DEF ReplyFits
<1>9. ReplyFits(p, q)
  BY <1>7, <1>8
<1> HIDE DEF none
<1>10. TablesInv' /\ ReadersInv' /\ \A x \in Readers : ReaderInv(x)'
  <2> HIDE DEF p
  <2> QED
    BY <1>1, <1>9, Answered
<1>11. WorthKeeping(r) => PageInv(entry)
  <2>1. entry.key = CacheKey(q) /\ entry.reply = Listed(r) /\ entry.ghost = ghost[r]
    OBVIOUS
  <2>2. IsEntry(entry)
    BY <1>3, <1>4 DEF IsEntry, ReaderInv
  <2> HIDE DEF entry
  <2> QED
    BY <1>3, <1>4, <1>6, <2>1, <2>2 DEF PageInv, WorthKeeping
<1> HIDE DEF entry
<1>12. \A e \in pages' : PageInv(e)
  BY <1>2, <1>11 DEF BoardInv, Others
<1>13. \A e \in pages' : PageInv(e)'
  BY <1>12 DEF PageInv
<1>14. (\A e \in cards' : CardInv(e)') /\ NewcomersAreCounted'
  BY <1>1 DEF BoardInv, CardInv, NewcomersAreCounted, tables
<1> QED
  BY <1>10, <1>13, <1>14 DEF BoardInv

LEMMA FacetsRead ==
  ASSUME BoardInv, NEW r \in Readers, ReadFacets(r) \/ FailFacets(r)
  PROVE  BoardInv'
<1>1. /\ ReaderInv(r) /\ pc[r] = "facets" /\ NextStore(r)
      /\ UNCHANGED <<now, tables, dropping, pages, cards, question, reply, ghost>>
  BY ReaderFacts DEF ReadFacets, FailFacets
<1>2. question[r].op = "facets" /\ IsGot(got[r])
  BY <1>1 DEF ReaderInv, StageFits
<1>3. PICK g : IsGot(g) /\ got' = [got EXCEPT ![r] = g]
  <2>1. CASE ReadFacets(r)
    <3> DEFINE g == [got[r] EXCEPT !.facets =
           Merge(@, CountFacets(board, src[r], question[r].filter, question[r].at))]
    <3>1. got' = [got EXCEPT ![r] = g]
      BY <2>1 DEF ReadFacets
    <3>2. IsGot(g)
      BY <1>2 DEF IsGot
    <3> QED
      BY <3>1, <3>2
  <2>2. CASE FailFacets(r)
    <3> DEFINE g == [got[r] EXCEPT !.degraded = @ \union {<<src[r], "facets">>}]
    <3>1. got' = [got EXCEPT ![r] = g]
      BY <2>2 DEF FailFacets
    <3>2. IsGot(g)
      BY <1>2 DEF IsGot
    <3> QED
      BY <3>1, <3>2
  <2> QED
    BY <2>1, <2>2
<1>4. /\ ReadersInv' /\ \A x \in Readers \ {r} : Same(x)
      /\ got'[r] = g /\ pc'[r] \in {"answer", "facets"}
  BY <1>1, <1>2, <1>3, OneReaderOn
<1>5. StageFits(pc'[r], question'[r])
  BY <1>1, <1>2, <1>4 DEF StageFits
<1>6. ReadFits(pc[r], src[r], question[r], got[r], ghost[r])'
  BY <1>1, <1>2 DEF ReadFits
<1>7. ReaderInv(r)'
  BY <1>1, <1>3, <1>4, <1>5, <1>6 DEF ReaderInv
<1> QED
  BY <1>1, <1>4, <1>7, QuietStep

LEMMA FacetsAnswered ==
  ASSUME BoardInv, NEW r \in Readers, AnswerFacets(r)
  PROVE  BoardInv'
<1> DEFINE p == [NoReply EXCEPT !.ok = Cardinality(got[r].degraded) < Cardinality(Stores),
                                !.degraded = got[r].degraded, !.facets = got[r].facets]
<1>1. /\ reply' = [reply EXCEPT ![r] = p] /\ pc' = [pc EXCEPT ![r] = "done"]
      /\ got' = [got EXCEPT ![r] = Nothing]
      /\ UNCHANGED <<now, tables, dropping, src, question, ghost, pages, cards>>
  BY DEF AnswerFacets
<1>2. question[r] \in QuestionType
  BY ReaderFacts
<1>3. ReplyFits(p, question[r])
  <2>1. p.cards = NoReply.cards /\ p.cached = FALSE
    BY DEF NoReply
  <2> QED
    BY <1>2, <2>1, EmptyFits DEF ReplyFits, Fitting
<1> HIDE DEF p
<1>4. TablesInv' /\ ReadersInv' /\ \A x \in Readers : ReaderInv(x)'
  BY <1>1, <1>3, Answered
<1>5. /\ \A e \in pages' : PageInv(e)'
      /\ \A e \in cards' : CardInv(e)'
      /\ NewcomersAreCounted'
  BY <1>1, CachesStay
<1> QED
  BY <1>4, <1>5 DEF BoardInv

LEMMA CardRead ==
  ASSUME BoardInv, NEW r \in Readers, ReadCard(r)
  PROVE  BoardInv'
<1> DEFINE q == question[r]
<1>1. /\ ReadersInv /\ ReaderInv(r) /\ TablesInv /\ q \in QuestionType /\ q.at \in Nat
      /\ pc[r] = "card"
      /\ UNCHANGED <<now, tables, dropping, pages, cards, src, question, reply>>
  BY ReaderFacts DEF ReadCard
<1>2. PICK row \in Linked(q.id) :
        got' = [got EXCEPT ![r].cards = {Card(pins, row, q.at)},
                           ![r].visitors = visitors[row.id]]
  BY DEF ReadCard
<1> DEFINE c == Card(pins, row, q.at)
           old == got[r]
           one == {c}
           number == visitors[row.id]
           h1 == [old EXCEPT !.cards = one]
           g == [h1 EXCEPT !.visitors = number]
<1>3. got' = [got EXCEPT ![r] = g]
  BY <1>2
<1>4. IsGot(old) /\ q.op = "card" /\ q.filter = NoFilter
  BY <1>1 DEF ReaderInv, StageFits
<1>5. row \in Rows /\ row.id = q.id
  BY <1>1 DEF Linked, TablesInv
<1>6. c.id = row.id /\ c.kind = Classify(row, q.at)
  <2>1. \A i \in DOMAIN pins : pins[i] \in Nat
    BY <1>1, BoardAssumption DEF TablesInv
  <2> QED
    BY <1>1, <1>5, <2>1, CardIs
<1>7. BandsFit(<<c>>, q)
  <2> DEFINE d == c
  <2>1. \A other \in Rows : other.id = d.id => d.kind = Classify(other, q.at)
    BY <1>5, <1>6, BoardAssumption
  <2>2. q.filter.kind = ""
    <3>1. NoFilter.kind = ""
      BY DEF NoFilter
    <3> QED
      BY <1>4, <3>1
  <2> HIDE DEF d, q
  <2>3. BandsFit(<<d>>, q)
    <3>1. DOMAIN <<d>> = {1} /\ <<d>>[1] = d
      OBVIOUS
    <3> QED
      BY <2>1, <2>2, <3>1 DEF BandsFit
  <2> QED
    BY <2>3 DEF d
<1>8. IsGot(g) /\ g.cards = {c} /\ g.visitors = visitors[q.id]
  <2> HIDE DEF old, one, number
  <2>1. IsGot(h1) /\ h1.cards = one
    BY <1>4 DEF IsGot
  <2> HIDE DEF h1
  <2>2. IsGot(g) /\ g.cards = one /\ g.visitors = number
    BY <2>1 DEF IsGot
  <2> QED
    BY <1>5, <2>2 DEF one, number
<1> HIDE DEF g, c
<1>9. /\ pc' = [pc EXCEPT ![r] = "answer"]
      /\ ghost' = [ghost EXCEPT ![r] = Tables(q.at)]
  BY DEF ReadCard
<1>10. ReadersInv'
  BY <1>1, <1>3, <1>9 DEF ReadersInv, Stages
<1>11. \A x \in Readers \ {r} : Same(x)
  BY <1>1, <1>3, <1>9 DEF ReadersInv, Same
<1>12. /\ pc'[r] = "answer" /\ got'[r] = g /\ ghost'[r] = Tables(q.at)
       /\ question'[r] = q /\ reply'[r] = reply[r] /\ visitors' = visitors /\ now' = now
  BY <1>1, <1>3, <1>9 DEF ReadersInv, tables
<1>13. StageFits(pc'[r], question'[r])
  BY <1>1, <1>4, <1>12 DEF ReaderInv, StageFits
<1>14. ReadFits(pc[r], src[r], question[r], got[r], ghost[r])'
  BY <1>4, <1>7, <1>8, <1>12 DEF ReadFits
<1>15. ReaderInv(r)'
  BY <1>1, <1>8, <1>12, <1>13, <1>14, NothingRead DEF ReaderInv
<1> QED
  BY <1>1, <1>10, <1>11, <1>15, QuietStep

LEMMA CardMissing ==
  ASSUME BoardInv, NEW r \in Readers, NoCard(r)
  PROVE  BoardInv'
<1>1. /\ ReadersInv /\ ReaderInv(r) /\ pc[r] = "card"
      /\ pc' = [pc EXCEPT ![r] = "done"]
      /\ UNCHANGED <<now, tables, dropping, pages, cards, src, question, got, reply, ghost>>
  BY ReaderFacts DEF NoCard
<1>2. ReadersInv'
  BY <1>1 DEF ReadersInv, Stages
<1>3. (\A x \in Readers \ {r} : Same(x)) /\ pc'[r] = "done"
  BY <1>1 DEF ReadersInv, Same
<1>4. StageFits(pc'[r], question'[r])
  BY <1>1, <1>3 DEF ReaderInv, StageFits
<1>5. ReadFits(pc[r], src[r], question[r], got[r], ghost[r])'
  BY <1>1, <1>3 DEF ReaderInv, StageFits, ReadFits
<1>6. ReaderInv(r)'
  BY <1>1, <1>4, <1>5 DEF ReaderInv
<1> QED
  BY <1>1, <1>2, <1>3, <1>6, QuietStep

LEMMA CardAnswered ==
  ASSUME BoardInv, NEW r \in Readers, AnswerCard(r)
  PROVE  BoardInv'
<1> DEFINE q == question[r]
           key == eventCacheKey(q.id, q.at)
           first == <<CHOOSE c \in got[r].cards : TRUE>>
           p == [NoReply EXCEPT !.ok = TRUE, !.cards = first, !.visitors = got[r].visitors]
           entry == [key |-> key, at |-> now, reply |-> p, ghost |-> ghost[r]]
<1>1. /\ pc[r] = "answer" /\ q.op = "card"
      /\ reply' = [reply EXCEPT ![r] = p] /\ pc' = [pc EXCEPT ![r] = "done"]
      /\ got' = [got EXCEPT ![r] = Nothing]
      /\ cards' = Others(cards, key) \union {entry}
      /\ UNCHANGED <<now, tables, dropping, src, question, ghost, pages>>
  BY DEF AnswerCard
<1>2. ReaderInv(r) /\ q \in QuestionType /\ q.id \in Ids /\ q.at <= now
      /\ q.filter = NoFilter /\ q.limit = 1
  BY <1>1, ReaderFacts DEF ReaderInv, StageFits
<1>3. /\ \E c : got[r].cards = {c} /\ BandsFit(<<c>>, q)
      /\ ~ghost[r].moved => got[r].visitors = visitors[q.id]
  BY <1>1, <1>2 DEF ReaderInv, ReadFits
<1>4. /\ p.cards = first /\ p.cached = FALSE /\ p.degraded = {}
      /\ p.visitors = got[r].visitors /\ IsReply(p)
  <2> DEFINE number == got[r].visitors
             h1 == [NoReply EXCEPT !.ok = TRUE]
             h2 == [h1 EXCEPT !.cards = first]
             h3 == [h2 EXCEPT !.visitors = number]
  <2>1. p = h3
    OBVIOUS
  <2>2. IsReply(h1) /\ h1.cached = FALSE /\ h1.degraded = {}
    BY AnOkReply
  <2> HIDE DEF first, number, h1
  <2>3. IsReply(h2) /\ h2.cached = FALSE /\ h2.degraded = {} /\ h2.cards = first
    BY <2>2 DEF IsReply
  <2> HIDE DEF h2
  <2>4. /\ IsReply(h3) /\ h3.cached = FALSE /\ h3.degraded = {} /\ h3.cards = first
        /\ h3.visitors = number
    BY <2>3 DEF IsReply
  <2> QED
    BY <2>1, <2>4 DEF number
<1>5. PICK c : got[r].cards = {c} /\ BandsFit(<<c>>, q)
  BY <1>3
<1>6. first = <<c>>
  BY <1>5
<1> HIDE DEF p, first
<1>7. Fitting(p, q)
  BY <1>2, <1>4, <1>5, <1>6 DEF Fitting
<1>8. TablesInv' /\ ReadersInv' /\ \A x \in Readers : ReaderInv(x)'
  <2>1. ReplyFits(p, q)
    BY <1>4, <1>7 DEF ReplyFits
  <2> QED
    BY <1>1, <2>1, Answered
<1>9. /\ entry.key = key /\ entry.reply = p /\ entry.ghost = ghost[r]
      /\ entry = [key |-> key, at |-> entry.at, reply |-> p, ghost |-> ghost[r]]
  OBVIOUS
<1> HIDE DEF entry
<1>10. CardInv(entry)
  <2>1. IsEntry(entry)
    BY <1>2, <1>4, <1>9 DEF IsEntry, ReaderInv
  <2> QED
    BY <1>2, <1>4, <1>7, <1>9, <2>1 DEF CardInv
<1>11. \A e \in cards' : CardInv(e)
  BY <1>1, <1>10 DEF BoardInv, Others
<1>12. \A e \in cards' : CardInv(e)'
  BY <1>1, <1>11 DEF CardInv
<1>13. \A e \in pages' : PageInv(e)'
  BY <1>1 DEF BoardInv, PageInv
<1>14. NewcomersAreCounted'
  <2> SUFFICES ASSUME NEW e \in cards', NEW i \in Ids, e.key = eventCacheKey(i, now),
                      dropping[i] = 0, ~e.ghost.moved
               PROVE  e.reply.visitors = visitors[i]
    BY <1>1 DEF NewcomersAreCounted, tables
  <2>1. CASE e = entry
    <3>1. q.id = i
      BY <1>9, <2>1 DEF eventCacheKey
    <3> QED
      BY <1>3, <1>4, <1>9, <2>1, <3>1
  <2>2. CASE e \in cards
    BY <2>2 DEF BoardInv, NewcomersAreCounted
  <2> QED
    BY <1>1, <2>1, <2>2 DEF Others
<1> QED
  BY <1>8, <1>12, <1>13, <1>14 DEF BoardInv

-----------------------------------------------------------------------------
(* Steps of everybody else.                                                 *)

(* A change of the tables: requests in progress know that they are overtaken. *)
LEMMA Edited ==
  ASSUME BoardInv, Edit, TablesInv', NewcomersAreCounted'
  PROVE  BoardInv'
<1>1. /\ ghost' = Moved
      /\ UNCHANGED <<now, pages, cards, pc, src, question, got, reply>>
  BY DEF Edit
<1>2. ReadersInv
  BY DEF BoardInv
<1>3. ReadersInv'
  BY <1>1, <1>2 DEF ReadersInv, Moved
<1>4. ASSUME NEW x \in Readers
      PROVE  ReaderInv(x)'
  <2> DEFINE old == ghost[x]
             moved == old.moved \/ pc[x] # "done"
             new == [old EXCEPT !.moved = moved]
  <2>1. ghost'[x] = new
    BY <1>1 DEF Moved
  <2>2. ReaderInv(x)
    BY DEF BoardInv
  <2>3. IsGhost(old)
    BY <2>2 DEF ReaderInv
  <2>4. pc[x] # "done" => moved
    OBVIOUS
  <2> HIDE DEF old, moved
  <2>5. IsGhost(new) /\ new.moved = moved
    BY <2>3 DEF IsGhost
  <2>6. pc[x] # "done" => new.moved
    BY <2>4, <2>5
  <2> HIDE DEF new
  <2>7. ReadFits(pc[x], src[x], question[x], got[x], ghost[x])'
    BY <1>1, <2>1, <2>2, <2>6 DEF ReaderInv, ReadFits
  <2> QED
    BY <1>1, <2>1, <2>2, <2>5, <2>7 DEF ReaderInv
<1>5. \A e \in pages' : PageInv(e)'
  BY <1>1 DEF BoardInv, PageInv
<1>6. \A e \in cards' : CardInv(e)'
  BY <1>1 DEF BoardInv, CardInv
<1> QED
  BY <1>3, <1>4, <1>5, <1>6 DEF BoardInv

(* A change that nobody's registration is part of. *)
LEMMA RowsEdited ==
  ASSUME BoardInv, Edit, TablesInv', UNCHANGED <<visitors, dropping>>
  PROVE  BoardInv'
<1>1. NewcomersAreCounted'
  BY DEF BoardInv, NewcomersAreCounted, Edit
<1> QED
  BY <1>1, Edited

LEMMA Registered ==
  ASSUME BoardInv, NEW i \in Ids, RegisterPublic(i)
  PROVE  BoardInv'
<1>1. /\ Edit /\ UNCHANGED <<board, pins, now, cards>>
      /\ visitors' = [visitors EXCEPT ![i] = @ + 1]
      /\ dropping' = [dropping EXCEPT ![i] = @ + 1]
  BY DEF RegisterPublic, Edit
<1>2. TablesInv
  BY DEF BoardInv
<1>3. TablesInv'
  BY <1>1, <1>2 DEF TablesInv
<1>4. NewcomersAreCounted'
  <2> SUFFICES ASSUME NEW e \in cards, NEW j \in Ids, e.key = eventCacheKey(j, now),
                      dropping'[j] = 0, ~e.ghost.moved
               PROVE  e.reply.visitors = visitors'[j]
    BY <1>1 DEF NewcomersAreCounted
  <2>1. dropping[i] \in Nat /\ dropping[i] + 1 # 0
    BY <1>2 DEF TablesInv
  <2>2. j # i
    BY <1>1, <1>2, <2>1 DEF TablesInv
  <2>3. dropping[j] = 0 /\ visitors'[j] = visitors[j]
    BY <1>1, <1>2, <2>2 DEF TablesInv
  <2> QED
    BY <2>3 DEF BoardInv, NewcomersAreCounted
<1> QED
  BY <1>1, <1>3, <1>4, Edited

LEMMA Invalidated ==
  ASSUME BoardInv, NEW i \in Ids, InvalidateEvent(i)
  PROVE  BoardInv'
<1> DEFINE key == droppedKey(i)
           Mark(e) == [e EXCEPT !.ghost.moved = TRUE]
<1>1. /\ dropping[i] > 0 /\ dropping' = [dropping EXCEPT ![i] = @ - 1]
      /\ UNCHANGED <<now, tables, pages, local>>
      /\ \/ cards' = Others(cards, key)
         \/ cards' = {IF e.key = key THEN Mark(e) ELSE e : e \in cards}
  BY DEF InvalidateEvent
<1>2. /\ TablesInv /\ ReadersInv /\ \A r \in Readers : ReaderInv(r)
      /\ \A e \in cards : CardInv(e)
  BY DEF BoardInv
<1>3. TablesInv'
  BY <1>1, <1>2 DEF TablesInv, tables
<1>4. ReadersInv' /\ \A r \in Readers : ReaderInv(r)'
  BY <1>1, <1>2 DEF ReadersInv, ReaderInv, ReadFits, tables, local
<1>5. \A e \in pages' : PageInv(e)'
  BY <1>1 DEF BoardInv, PageInv
<1>6. ASSUME NEW e \in cards
      PROVE  /\ Mark(e).key = e.key /\ Mark(e).reply = e.reply
             /\ IsEntry(Mark(e)) /\ Mark(e).ghost.moved
  <2> DEFINE yes == TRUE
             t == e.ghost
             u == [t EXCEPT !.moved = yes]
             new == [e EXCEPT !.ghost = u]
  <2>1. IsEntry(e) /\ IsGhost(t)
    BY <1>2 DEF CardInv, IsEntry
  <2>2. Mark(e) = new
    OBVIOUS
  <2> HIDE DEF yes, t
  <2>3. IsGhost(u) /\ u.moved = yes
    BY <2>1 DEF IsGhost
  <2> HIDE DEF u
  <2>4. /\ new.key = e.key /\ new.at = e.at /\ new.reply = e.reply /\ new.ghost = u
        /\ new = [key |-> new.key, at |-> new.at, reply |-> new.reply, ghost |-> new.ghost]
    BY <2>1 DEF IsEntry
  <2>5. IsEntry(new)
    BY <2>1, <2>3, <2>4 DEF IsEntry
  <2> QED
    BY <2>2, <2>3, <2>4, <2>5 DEF yes
<1> HIDE DEF Mark
<1>7. \A e \in cards : CardInv(Mark(e))
  BY <1>2, <1>6 DEF CardInv
<1>8. \A e \in cards' : \/ e \in cards /\ e.key # key
                        \/ CardInv(e) /\ e.key = key /\ e.ghost.moved
  BY <1>1, <1>6, <1>7 DEF Others
<1>9. \A e \in cards' : CardInv(e)'
  BY <1>1, <1>2, <1>8 DEF CardInv
<1>10. NewcomersAreCounted'
  <2> SUFFICES ASSUME NEW e \in cards', NEW j \in Ids, e.key = eventCacheKey(j, now),
                      dropping'[j] = 0, ~e.ghost.moved
               PROVE  e.reply.visitors = visitors[j]
    BY <1>1 DEF NewcomersAreCounted, tables
  <2>1. e \in cards /\ e.key # key
    BY <1>8
  <2>2. j # i
    BY <2>1 DEF droppedKey
  <2>3. dropping[j] = 0
    BY <1>1, <1>2, <2>2 DEF TablesInv
  <2> QED
    BY <2>1, <2>3 DEF BoardInv, NewcomersAreCounted
<1> QED
  BY <1>3, <1>4, <1>5, <1>9, <1>10 DEF BoardInv

LEMMA PinsEdited ==
  ASSUME BoardInv, NEW i \in Ids, Unfeature(i) \/ \E pos \in Positions : Feature(i, pos)
  PROVE  BoardInv'
<1>1. TablesInv
  BY DEF BoardInv
<1>2. Edit /\ UNCHANGED <<now, board, visitors, dropping>>
  BY DEF Edit, Feature, Unfeature
<1>3. DOMAIN pins' \subseteq Ids /\ \A j \in DOMAIN pins' : pins'[j] \in Positions
  BY <1>1 DEF TablesInv, Feature, Unfeature
<1>4. TablesInv'
  BY <1>1, <1>2, <1>3 DEF TablesInv
<1> QED
  BY <1>2, <1>4, RowsEdited

LEMMA RowsMoved ==
  ASSUME BoardInv, NEW row \in Rows, Publish(row) \/ Withdraw(row)
  PROVE  BoardInv'
<1>1. TablesInv
  BY DEF BoardInv
<1>2. Edit /\ UNCHANGED <<now, pins, visitors, dropping>> /\ board' \subseteq board \union {row}
  BY DEF Edit, Publish, Withdraw
<1>3. TablesInv'
  BY <1>1, <1>2 DEF TablesInv
<1> QED
  BY <1>2, <1>3, RowsEdited

LEMMA Ticked ==
  ASSUME BoardInv, Tick
  PROVE  BoardInv'
<1>1. PICK m \in Strides : now' = now + m
  BY DEF Tick
<1>2. /\ pages' \subseteq pages /\ cards' \subseteq cards
      /\ UNCHANGED <<tables, dropping, local>>
  BY DEF Tick
<1>3. /\ TablesInv /\ ReadersInv /\ \A r \in Readers : ReaderInv(r)
      /\ \A e \in pages : PageInv(e)
      /\ \A e \in cards : CardInv(e)
  BY DEF BoardInv
<1>4. now \in Nat /\ now' \in Nat /\ now <= now'
  <2>1. m \in Nat
    BY BoardAssumption
  <2> QED
    BY <1>1, <1>3, <2>1 DEF TablesInv
<1>5. TablesInv'
  BY <1>2, <1>3, <1>4 DEF TablesInv, tables
<1>6. ReadersInv'
  BY <1>2, <1>3 DEF ReadersInv, local
<1>7. ASSUME NEW r \in Readers
      PROVE  ReaderInv(r)'
  <2>1. question[r].at \in Nat
    BY <1>3 DEF ReadersInv, QuestionType
  <2>2. question[r].at <= now'
    BY <1>3, <1>4, <2>1 DEF ReaderInv
  <2> QED
    BY <1>2, <1>3, <2>2 DEF ReaderInv, ReadFits, tables, local
<1>8. \A e \in pages' : PageInv(e)'
  BY <1>2, <1>3 DEF PageInv
<1>9. ASSUME NEW e \in cards
      PROVE  /\ CardInv(e)'
             /\ \A i \in Ids : e.key = eventCacheKey(i, now') => e.key = eventCacheKey(i, now)
  <2>1. PICK q \in QuestionType :
          /\ e.key = eventCacheKey(q.id, q.at) /\ q.at <= now
          /\ q.filter = NoFilter /\ q.limit = 1 /\ Fitting(e.reply, q)
    BY <1>3 DEF CardInv
  <2>2. q.at \in Nat /\ q.at <= now'
    BY <1>4, <2>1 DEF QuestionType
  <2>3. CardInv(e)'
    BY <1>3, <2>1, <2>2 DEF CardInv
  <2>4. mskToday(q.at) <= mskToday(now) /\ mskToday(now) <= mskToday(now')
    BY <1>4, <2>1, <2>2, MidnightsInOrder
  <2>5. /\ mskToday(q.at) \in Nat /\ mskToday(now) \in Nat /\ mskToday(now') \in Nat
    BY <1>4, <2>2, Midnight
  <2>6. \A i \in Ids : e.key = eventCacheKey(i, now') =>
                         q.id = i /\ mskToday(q.at) = mskToday(now')
    BY <2>1 DEF eventCacheKey
  <2>7. mskToday(q.at) = mskToday(now') => mskToday(q.at) = mskToday(now)
    BY <2>4, <2>5
  <2>8. \A i \in Ids : e.key = eventCacheKey(i, now') => e.key = eventCacheKey(i, now)
    BY <2>1, <2>6, <2>7 DEF eventCacheKey
  <2> QED
    BY <2>3, <2>8
<1>10. NewcomersAreCounted'
  BY <1>2, <1>9 DEF BoardInv, NewcomersAreCounted, tables
<1> QED
  BY <1>2, <1>5, <1>6, <1>7, <1>8, <1>9, <1>10 DEF BoardInv

-----------------------------------------------------------------------------
LEMMA Stuttered ==
  ASSUME BoardInv, UNCHANGED vars
  PROVE  BoardInv'
<1>1. UNCHANGED <<now, tables, dropping, pages, cards>> /\ UNCHANGED local
  BY DEF vars
<1>2. TablesInv' /\ ReadersInv' /\ \A r \in Readers : ReaderInv(r)'
  BY <1>1 DEF BoardInv, TablesInv, ReadersInv, ReaderInv, ReadFits, tables, local
<1> QED
  BY <1>1, <1>2, CachesStay DEF BoardInv

LEMMA Inductive == BoardInv /\ [Next]_vars => BoardInv'
<1> SUFFICES ASSUME BoardInv, [Next]_vars
             PROVE  BoardInv'
  OBVIOUS
<1>1. ASSUME NEW r \in Readers, Handle(r)
      PROVE  BoardInv'
  BY <1>1, Asked, FromPages, FromCards, Missed, PinsRead, PageRead, Counted, MainFailed,
     ListAnswered, FacetsRead, FacetsAnswered, CardRead, CardMissing, CardAnswered DEF Handle
<1>2. ASSUME NEW i \in Ids, RegisterPublic(i) \/ InvalidateEvent(i) \/ Unfeature(i)
      PROVE  BoardInv'
  BY <1>2, Registered, Invalidated, PinsEdited
<1>3. ASSUME NEW i \in Ids, NEW pos \in Positions, Feature(i, pos)
      PROVE  BoardInv'
  BY <1>3, PinsEdited
<1>4. ASSUME NEW row \in Rows, Publish(row) \/ Withdraw(row)
      PROVE  BoardInv'
  BY <1>4, RowsMoved
<1>5. CASE Tick
  BY <1>5, Ticked
<1>6. CASE UNCHANGED vars
  BY <1>6, Stuttered
<1> QED
  BY <1>1, <1>2, <1>3, <1>4, <1>5, <1>6 DEF Next

LEMMA Invariance == Spec => []BoardInv
<1>1. Init => BoardInv
  BY Start
<1> QED
  BY <1>1, Inductive, PTL DEF Spec

(* The variables keep their ranges, and no page is longer than was asked.   *)
THEOREM Typing == Spec => []TypeOK
<1>1. BoardInv => TypeOK
  <2> SUFFICES ASSUME BoardInv
               PROVE  TypeOK
    OBVIOUS
  <2>1. TablesInv /\ pc \in [Readers -> Stages] /\ src \in [Readers -> Stores]
    BY DEF BoardInv, ReadersInv
  <2>2. ASSUME NEW r \in Readers
        PROVE  /\ question[r].op \in {"none", "list", "facets", "card"}
               /\ question[r].filter \in Filter /\ question[r].at \in Nat
               /\ Len(reply[r].cards) <= question[r].limit
    BY ReaderFacts DEF ReaderInv, ReplyFits, Fitting, QuestionType
  <2> QED
    BY <2>1, <2>2 DEF TypeOK, TablesInv, Stages
<1> QED
  BY <1>1, Invariance, PTL

(* A page out of the cache has no gaps: a store that failed for a moment is *)
(* not missing for the minute a page is kept (handler.go:238-242).          *)
THEOREM GapsAreNotServedAgain == Spec => []HiccupsAreNotFrozen
<1>1. BoardInv => HiccupsAreNotFrozen
  BY DEF BoardInv, ReaderInv, ReplyFits, HiccupsAreNotFrozen
<1> QED
  BY <1>1, Invariance, PTL

(* What is answered is in the bands of the day of the request, wherever the *)
(* answer comes from and whatever happened since (filter.go:220-227,        *)
(* cache.go:51-56).                                                         *)
THEOREM AnswersAreInTodaysBands == Spec => []BandsAreTodays
<1>1. BoardInv => BandsAreTodays
  BY DEF BoardInv, ReaderInv, ReplyFits, Fitting, BandsFit, BandsAreTodays
<1> QED
  BY <1>1, Invariance, PTL

(* Today's card in the cache counts everyone whose signup has been answered *)
(* (cache.go:58-61).                                                        *)
THEOREM CardsCountNewcomers == Spec => []NewcomersAreCounted
<1>1. BoardInv => NewcomersAreCounted
  BY DEF BoardInv
<1> QED
  BY <1>1, Invariance, PTL

-----------------------------------------------------------------------------
(* Pages and counters against the whole board: the questions.               *)

LEMMA DaysOfMinutes ==
  ASSUME NEW t \in Nat
  PROVE  /\ Day(t) \in Nat /\ mskToday(t) = Day(t) * DAY
         /\ \A d \in Int : /\ t < (d + 1) * DAY <=> Day(t) <= d
                           /\ t >= d * DAY <=> Day(t) >= d
<1>1. Day(t) \in Nat /\ t = Day(t) * DAY + (t % DAY) /\ t % DAY \in 0..DAY - 1
  BY DEF Day, DAY
<1>2. mskToday(t) = Day(t) * DAY
  BY <1>1 DEF mskToday, DAY
<1>3. ASSUME NEW d \in Int
      PROVE  /\ t < (d + 1) * DAY <=> Day(t) <= d
             /\ t >= d * DAY <=> Day(t) >= d
  <2> DEFINE k == Day(t)
             m == t % DAY
  <2>1. k \in Nat /\ t = k * 1440 + m /\ m \in 0..1439
    BY <1>1 DEF DAY
  <2> HIDE DEF k, m
  <2>2. /\ t < (d + 1) * 1440 <=> k <= d
        /\ t >= d * 1440 <=> k >= d
    BY <2>1
  <2> QED
    BY <2>2 DEF k, DAY
<1> QED
  BY <1>1, <1>2, <1>3

(* The Saturday of the code and the Saturday of the calendar.               *)
LEMMA TheSaturday ==
  ASSUME NEW at \in Nat
  PROVE  LET saturday == CHOOSE d \in Day(at) - 1..Day(at) + 5 : d % 7 = 5 IN
         saturday \in Int /\ Saturday(at) = saturday * DAY
<1> DEFINE today == Day(at)
           saturday == CHOOSE d \in today - 1..today + 5 : d % 7 = 5
           s == today + (5 - (today % 7))
<1>1. today \in Nat /\ mskToday(at) = today * DAY
  BY DaysOfMinutes
<1>2. Weekday(at) = today % 7
  BY DEF Weekday, Day
<1> HIDE DEF today
<1>3. s \in today - 1..today + 5 /\ s % 7 = 5
  BY <1>1
<1>4. \A d \in today - 1..today + 5 : d % 7 = 5 => d = s
  BY <1>1
<1>5. saturday = s
  BY <1>3, <1>4
<1>6. Saturday(at) = s * DAY
  <2>1. Saturday(at) = today * 1440 + (5 - (today % 7)) * 1440
    BY <1>1, <1>2 DEF Saturday, DAY
  <2> QED
    BY <1>1, <2>1 DEF DAY
<1> QED
  BY <1>1, <1>3, <1>5, <1>6 DEF today

LEMMA EndOfRow ==
  ASSUME NEW r \in Rows
  PROVE  End(r) \in Nat /\ (Dates(r) => End(r) % DAY = 0)
<1>1. /\ r.start \in Nat /\ r.end \in Times
      /\ Dates(r) => r.start % DAY = 0 /\ (r.end # NoTime => r.end % DAY = 0)
  BY RowTypes
<1> QED
  BY <1>1 DEF End, Times

(* The condition on the ends of the interval, for a range of whole days. *)
LEMMA WhenByDays ==
  ASSUME NEW r \in Rows, NEW code \in WhenCodes, NEW at \in Nat, NEW d \in Int, NEW e \in Int,
         whenRange(code, at).from = d * DAY, whenRange(code, at).to = (e + 1) * DAY
  PROVE  WhenCond(r, code, at) <=> Day(r.start) <= e /\ Day(End(r)) >= d
<1> DEFINE first == Day(r.start)
           last == Day(End(r))
           from == whenRange(code, at).from
           to == whenRange(code, at).to
<1>1. r.start \in Nat /\ End(r) \in Nat /\ (Dates(r) => r.start % DAY = 0)
  BY RowTypes, EndOfRow
<1>2. /\ r.start < (e + 1) * DAY <=> first <= e
      /\ End(r) >= d * DAY <=> last >= d
      /\ r.start >= e * DAY <=> first >= e
  BY <1>1, DaysOfMinutes
<1>3. Dates(r) => (r.start <= e * DAY <=> r.start < e * DAY + DAY)
  BY <1>1 DEF DAY
<1>4. (e + 1) * DAY = e * DAY + DAY /\ (e + 1) * DAY - DAY = e * DAY
  BY DEF DAY
<1>5. /\ from = d * DAY /\ to = e * DAY + DAY /\ to - DAY = e * DAY
      /\ r.start < to <=> first <= e
      /\ End(r) >= from <=> last >= d
      /\ Dates(r) => (r.start <= to - DAY <=> first <= e)
  BY <1>2, <1>3, <1>4
<1>6. WhenCond(r, code, at) <=>
        (IF Dates(r) THEN r.start <= to - DAY ELSE r.start < to) /\ End(r) >= from
  BY DEF WhenCond, WhenCodes
<1> HIDE DEF from, to
<1>7. CASE Dates(r)
  BY <1>5, <1>6, <1>7
<1>8. CASE ~Dates(r)
  BY <1>5, <1>6, <1>8
<1> QED
  BY <1>7, <1>8

(* A weekend from day d is asked for by its two days, one end of the event's *)
(* interval for each.                                                       *)
AsksWeekend(r, at, d) ==
  /\ AskedDays("weekend", at) = {d, d + 1}
  /\ WhenCond(r, "weekend", at) <=> Day(r.start) <= d + 1 /\ Day(End(r)) >= d

LEMMA WeekendByDays ==
  ASSUME NEW r \in Rows, NEW at \in Nat
  PROVE  \E d \in Int : AsksWeekend(r, at, d)
<1> DEFINE saturday == CHOOSE d \in Day(at) - 1..Day(at) + 5 : d % 7 = 5
<1>1. saturday \in Int /\ Saturday(at) = saturday * DAY
  BY TheSaturday
<1>2. AskedDays("weekend", at) = {saturday, saturday + 1}
  BY DEF AskedDays
<1> HIDE DEF saturday
<1>3. whenRange("weekend", at) = [from |-> saturday * DAY, to |-> (saturday + 1 + 1) * DAY]
  BY <1>1 DEF whenRange, DAY
<1>4. /\ whenRange("weekend", at).from = saturday * DAY
      /\ whenRange("weekend", at).to = (saturday + 1 + 1) * DAY
      /\ "weekend" \in WhenCodes /\ saturday + 1 \in Int
  BY <1>1, <1>3 DEF WhenCodes
<1>5. WhenCond(r, "weekend", at) <=> Day(r.start) <= saturday + 1 /\ Day(End(r)) >= saturday
  BY <1>1, <1>4, WhenByDays
<1> QED
  BY <1>1, <1>2, <1>5 DEF AsksWeekend

(* The days of the filter are the days of the event: the interval in SQL    *)
(* and the calendar agree (filter.go:430-461).                              *)
THEOREM DaysAgree ==
  ASSUME NEW r \in Rows, NEW code \in WhenCodes, NEW at \in Nat, code = "weekend" => Upright(r)
  PROVE  WhenCond(r, code, at) <=> EventDays(r) \intersect AskedDays(code, at) # {}
<1> DEFINE first == Day(r.start)
           last == Day(End(r))
           today == Day(at)
<1>1. r.start \in Nat /\ End(r) \in Nat /\ (Dates(r) => r.start % DAY = 0)
  BY RowTypes, EndOfRow
<1>2. /\ first \in Nat /\ last \in Nat /\ today \in Nat /\ mskToday(at) = today * DAY
      /\ \A d \in Int : r.start < (d + 1) * DAY <=> first <= d
      /\ \A d \in Int : End(r) >= d * DAY <=> last >= d
  BY <1>1, DaysOfMinutes
<1>3. today + 1 \in Int
  BY <1>2
<1> HIDE DEF first, last, today
<1>4. CASE code = "today"
  <2>1. whenRange(code, at) = [from |-> today * DAY, to |-> (today + 1) * DAY]
    BY <1>2, <1>4 DEF whenRange, DAY
  <2>2. WhenCond(r, code, at) <=> first <= today /\ last >= today
    <3>1. /\ whenRange(code, at).from = today * DAY
          /\ whenRange(code, at).to = (today + 1) * DAY
      BY <2>1
    <3> QED
      BY <1>2, <1>3, <3>1, WhenByDays DEF first, last
  <2>3. AskedDays(code, at) = {today}
    BY <1>4 DEF AskedDays, today
  <2>4. EventDays(r) = first..last
    BY DEF EventDays, first, last
  <2> QED
    BY <1>2, <2>2, <2>3, <2>4
<1>5. CASE code = "tomorrow"
  <2>1. whenRange(code, at) = [from |-> (today + 1) * DAY, to |-> (today + 1 + 1) * DAY]
    BY <1>2, <1>5 DEF whenRange, DAY
  <2>2. WhenCond(r, code, at) <=> first <= today + 1 /\ last >= today + 1
    <3>1. /\ whenRange(code, at).from = (today + 1) * DAY
          /\ whenRange(code, at).to = (today + 1 + 1) * DAY
      BY <2>1
    <3> QED
      BY <1>2, <1>3, <3>1, WhenByDays DEF first, last
  <2>3. AskedDays(code, at) = {today + 1}
    BY <1>5 DEF AskedDays, today
  <2>4. EventDays(r) = first..last
    BY DEF EventDays, first, last
  <2> QED
    BY <1>2, <2>2, <2>3, <2>4
<1>6. CASE code = "weekend"
  <2>0. PICK d \in Int : AsksWeekend(r, at, d)
    BY WeekendByDays
  <2>1. /\ AskedDays("weekend", at) = {d, d + 1}
        /\ WhenCond(r, "weekend", at) <=> first <= d + 1 /\ last >= d
    BY <2>0 DEF AsksWeekend, first, last
  <2>2. first <= last
    BY <1>6 DEF Upright, first, last
  <2>3. EventDays(r) = first..last
    BY DEF EventDays, first, last
  <2>4. d \in first..last \/ d + 1 \in first..last <=> first <= d + 1 /\ last >= d
    BY <1>2, <2>1, <2>2
  <2>5. EventDays(r) \intersect AskedDays(code, at) # {} <=> first <= d + 1 /\ last >= d
    BY <1>6, <2>1, <2>3, <2>4
  <2> QED
    BY <1>6, <2>1, <2>5
<1> QED
  BY <1>4, <1>5, <1>6 DEF WhenCodes

(* Without that condition they do not: an event whose last day is before    *)
(* its first is of no day, and a weekend with both lists it, although "date *)
(* <= D <= COALESCE(date_end, date)" is to be true of a day (filter.go:432-  *)
(* 433).                                                                    *)
THEOREM WeekendListsUpsideDown ==
  ASSUME NEW r \in Rows, ~Upright(r), NEW at \in Nat,
         Day(r.start) \in AskedDays("weekend", at), Day(End(r)) \in AskedDays("weekend", at)
  PROVE  WhenCond(r, "weekend", at) /\ EventDays(r) = {}
<1>1. Day(r.start) \in Nat /\ Day(End(r)) \in Nat /\ Day(End(r)) < Day(r.start)
  BY RowTypes, EndOfRow, DaysOfMinutes DEF Upright
<1>2. PICK d \in Int : AsksWeekend(r, at, d)
  BY WeekendByDays
<1>3. EventDays(r) = {}
  BY <1>1 DEF EventDays
<1> QED
  BY <1>1, <1>2, <1>3 DEF AsksWeekend

(* What the SQL selects of a store is what the board should answer from it. *)
THEOREM MatchingIsReference ==
  ASSUME NEW t, t.rows \subseteq Rows, t.at \in Nat, NEW f \in Filter,
         f.when = "weekend" => \A r \in t.rows : Upright(r)
  PROVE  /\ \A r \in t.rows :
              Answers(r, f, t.at) <=> Base(r, t.at) /\ Where(f, r, t.at)
         /\ \A s : Matching(t.rows, s, f, t.at) = {r \in Reference(t, f, t.at) : r.store = s}
<1>1. /\ f.category \in FeedCategories \union {""} /\ f.when \in WhenCodes \union {""}
      /\ f.kind \in KindCodes \union {""} /\ f.free \in BOOLEAN
  BY DEF Filter
<1>2. ASSUME NEW r \in t.rows, Base(r, t.at)
      PROVE  Answers(r, f, t.at) <=> Where(f, r, t.at)
  <2>1. r \in Rows
    OBVIOUS
  <2>2. (IF r.store = "webreg" \/ r.city = "" THEN DefaultCity ELSE r.city) = f.city
          <=> CityCond(f, r)
    BY DEF CityCond, CityExpr, HasCity
  <2>3. (f.category # "" => r.store # "webreg" /\ CategoryExpr(r) = f.category)
          <=> CategoryCond(f, r)
    BY DEF CategoryCond, HasCategory
  <2>4. (f.free => r.store = "webreg" \/ r.free) <=> FreeCond(f, r)
    BY DEF FreeCond, FreeExpr
  <2>5. (f.when # "" => EventDays(r) \intersect AskedDays(f.when, t.at) # {})
          <=> WhenCond(r, f.when, t.at)
    <3>1. CASE f.when = ""
      BY <3>1 DEF WhenCond
    <3>2. CASE f.when # ""
      BY <1>1, <2>1, <3>2, DaysAgree
    <3> QED
      BY <3>1, <3>2
  <2>6. (f.kind # "" => Classify(r, t.at) = f.kind) <=> KindCond(r, f.kind, t.at)
    <3>1. Running(r, t.at) <=> Classify(r, t.at) = "running"
      BY <1>2, <2>1, OnTheBoard, BandsAgree
    <3>2. Classify(r, t.at) \in {"running", "timed"}
      BY DEF Classify
    <3>3. f.kind \in {"timed", "running", ""}
      BY <1>1 DEF KindCodes
    <3> QED
      BY <3>1, <3>2, <3>3 DEF KindCond
  <2> QED
    BY <1>2, <2>2, <2>3, <2>4, <2>5, <2>6 DEF Answers, Where
<1>3. \A r \in t.rows : Answers(r, f, t.at) <=> Base(r, t.at) /\ Where(f, r, t.at)
  BY <1>2 DEF Answers
<1> QED
  BY <1>3 DEF Matching, Reference

-----------------------------------------------------------------------------
(* The page of the firsts is the page of the whole.                         *)

(* What is left out of a first part has all of that part before it.         *)
LEMMA FirstPartOfSorted ==
  ASSUME NEW A \in SUBSET CardType, IsFiniteSet(A), \A c, d \in A : c.id = d.id => c = d,
         NEW B \in SUBSET A, NEW byEnd \in BOOLEAN, NEW n \in Nat,
         \A c \in A \ B : \E D \in SUBSET B : Cardinality(D) = n /\ \A d \in D : Before(d, c, byEnd)
  PROVE  /\ \A i \in 1..Cardinality(A) : i <= n =>
              i <= Cardinality(B) /\ Sorted(A, byEnd)[i] = Sorted(B, byEnd)[i]
         /\ Cardinality(B) <= Cardinality(A)
         /\ Cardinality(B) < Cardinality(A) => n <= Cardinality(B)
<1> DEFINE below(S, c) == {e \in S : Before(e, c, byEnd)}
           rank(S, c) == RankIn(S, c, byEnd)
           na == Cardinality(A)
           nb == Cardinality(B)
           atA(i) == CHOOSE c \in A : rank(A, c) = i - 1
           atB(i) == CHOOSE c \in B : rank(B, c) = i - 1
<1>0. \A S, c : rank(S, c) = Cardinality(below(S, c))
  BY DEF RankIn
<1>1. /\ B \in SUBSET CardType /\ IsFiniteSet(B) /\ \A c, d \in B : c.id = d.id => c = d
      /\ nb <= na
  BY FS_Subset
<1>2. /\ na \in Nat /\ \A i \in 1..na : \E c \in A : rank(A, c) = i - 1
      /\ \A c, d \in A : rank(A, c) = rank(A, d) => c = d
      /\ \A c \in A : rank(A, c) \in Nat /\ rank(A, c) < na
  BY RanksAreTaken
<1>3. /\ nb \in Nat /\ \A i \in 1..nb : \E c \in B : rank(B, c) = i - 1
      /\ \A c, d \in B : rank(B, c) = rank(B, d) => c = d
      /\ \A c \in B : rank(B, c) \in Nat /\ rank(B, c) < nb
  BY <1>1, RanksAreTaken
<1>4. ASSUME NEW c \in A, NEW D \in SUBSET B, Cardinality(D) = n,
             \A d \in D : Before(d, c, byEnd)
      PROVE  n <= rank(A, c)
  <2>1. D \in SUBSET below(A, c) /\ below(A, c) \in SUBSET A
    BY <1>4
  <2> HIDE DEF below
  <2>2. IsFiniteSet(below(A, c))
    BY <2>1, FS_Subset
  <2> QED
    BY <1>4, <1>0, <2>1, <2>2, FS_Subset
<1>5. ASSUME NEW c \in A, rank(A, c) < n
      PROVE  c \in B /\ rank(B, c) = rank(A, c)
  <2>1. ASSUME NEW e \in A \ B, e = c \/ Before(e, c, byEnd)
        PROVE  FALSE
    <3>1. PICK D \in SUBSET B : Cardinality(D) = n /\ \A d \in D : Before(d, e, byEnd)
      OBVIOUS
    <3>2. \A d \in D : Before(d, c, byEnd)
      <4>1. \A d \in D : d \in CardType /\ e \in CardType /\ c \in CardType
        OBVIOUS
      <4> QED
        BY <2>1, <3>1, <4>1, BeforeOrders
    <3>3. n <= rank(A, c)
      BY <1>4, <3>1, <3>2
    <3> HIDE DEF rank
    <3> QED
      BY <1>2, <1>5, <3>3
  <2>2. c \in B
    BY <2>1
  <2>3. below(A, c) = below(B, c)
    BY <2>1
  <2> QED
    BY <1>0, <2>2, <2>3
<1>6. Sorted(A, byEnd) = [i \in 1..na |-> atA(i)] /\ Sorted(B, byEnd) = [i \in 1..nb |-> atB(i)]
  BY DEF Sorted, RankIn
<1> HIDE DEF na, nb, rank
<1>7. ASSUME NEW i \in 1..na, i <= n
      PROVE  i <= nb /\ atA(i) = atB(i)
  <2>1. atA(i) \in A /\ rank(A, atA(i)) = i - 1
    BY <1>2
  <2> HIDE DEF atA
  <2>2. atA(i) \in B /\ rank(B, atA(i)) = i - 1
    BY <1>2, <1>5, <1>7, <2>1
  <2>3. i <= nb
    BY <1>2, <1>3, <2>2
  <2>4. atB(i) \in B /\ rank(B, atB(i)) = i - 1
    BY <2>2
  <2> HIDE DEF atB
  <2> QED
    BY <1>3, <2>2, <2>3, <2>4
<1>8. ASSUME nb < na
      PROVE  n <= nb
  <2>1. CASE na <= n
    BY <1>2, <1>3, <1>7, <1>8, <2>1
  <2>2. CASE n < na /\ n > 0
    BY <1>2, <1>3, <1>7, <2>2
  <2>3. CASE n = 0
    BY <1>3, <2>3
  <2> QED
    BY <1>2, <2>1, <2>2, <2>3
<1> HIDE DEF atA, atB
<1>9. ASSUME NEW i \in 1..na, i <= n
      PROVE  i <= nb /\ Sorted(A, byEnd)[i] = Sorted(B, byEnd)[i]
  <2>1. i <= nb /\ atA(i) = atB(i)
    BY <1>7, <1>9
  <2>2. i \in 1..nb
    BY <1>2, <1>3, <2>1
  <2> QED
    BY <1>6, <2>1, <2>2
<1> QED
  BY <1>1, <1>8, <1>9 DEF na, nb

LEMMA SamePage ==
  ASSUME NEW A \in SUBSET CardType, IsFiniteSet(A), \A c, d \in A : c.id = d.id => c = d,
         NEW B \in SUBSET A, NEW byEnd \in BOOLEAN, NEW limit \in Nat, NEW offset \in Nat,
         \A c \in A \ B : \E D \in SUBSET B :
           Cardinality(D) = offset + limit /\ \A d \in D : Before(d, c, byEnd)
  PROVE  MergePage(B, limit, offset, byEnd) = MergePage(A, limit, offset, byEnd)
<1> DEFINE n == offset + limit
           na == Cardinality(A)
           nb == Cardinality(B)
           x == Sorted(A, byEnd)
           y == Sorted(B, byEnd)
           last == IF n < na THEN n ELSE na
           m == offset + 1
<1>1. n \in Nat
  OBVIOUS
<1>2. /\ \A i \in 1..na : i <= n => i <= nb /\ x[i] = y[i]
      /\ nb <= na /\ (nb < na => n <= nb)
  <2> HIDE DEF n
  <2>1. \A c \in A \ B : \E D \in SUBSET B :
          Cardinality(D) = n /\ \A d \in D : Before(d, c, byEnd)
    BY DEF n
  <2> QED
    BY <1>1, <2>1, FirstPartOfSorted
<1>3. IsFiniteSet(B) /\ (\A c, d \in B : c.id = d.id => c = d) /\ B \in SUBSET CardType
  BY FS_Subset
<1>4. na \in Nat /\ nb \in Nat /\ x \in [1..na -> A] /\ y \in [1..nb -> B]
  BY <1>3, MergeSorts, FS_CardinalityType
<1>5. /\ MergePage(A, limit, offset, byEnd) = SubSeq(x, m, last)
      /\ MergePage(B, limit, offset, byEnd) = SubSeq(y, m, IF n < nb THEN n ELSE nb)
  BY DEF MergePage
<1> HIDE DEF na, nb, x, y
<1>6. (IF n < nb THEN n ELSE nb) = last /\ last \in Nat /\ last <= na /\ last <= n
  BY <1>1, <1>2, <1>4
<1> HIDE DEF last
<1>7. ASSUME NEW i \in m..last
      PROVE  x[i] \in A /\ y[i] = x[i]
  <2>1. i \in 1..na /\ i <= n
    BY <1>1, <1>4, <1>6
  <2> QED
    BY <1>2, <1>4, <2>1
<1>8. \A i \in m..last : y[i] \in A
  BY <1>7
<1>9. m \in Int /\ last \in Int
  BY <1>6
<1> DEFINE u == SubSeq(x, m, last)
           v == SubSeq(y, m, last)
           size == IF m <= last THEN last - m + 1 ELSE 0
<1>10. /\ u \in Seq(A) /\ Len(u) = size /\ \A i \in 1..last - m + 1 : u[i] = x[m + i - 1]
  BY <1>7, <1>9, SubSeqProperties
<1>11. /\ v \in Seq(A) /\ Len(v) = size /\ \A i \in 1..last - m + 1 : v[i] = y[m + i - 1]
  BY <1>8, <1>9, SubSeqProperties
<1> HIDE DEF u, v
<1>12. \A i \in 1..size : u[i] = v[i]
  <2> SUFFICES ASSUME NEW i \in 1..size
               PROVE  u[i] = v[i]
    OBVIOUS
  <2>1. i \in 1..last - m + 1 /\ m + i - 1 \in m..last
    BY <1>9
  <2> QED
    BY <1>7, <1>10, <1>11, <2>1
<1>13. u = v
  <2> HIDE DEF size
  <2>1. DOMAIN u = 1..size /\ DOMAIN v = 1..size
    BY <1>10, <1>11
  <2> QED
    BY <1>10, <1>11, <1>12, <2>1, SeqEqual
<1> QED
  BY <1>5, <1>6, <1>13 DEF u, v

LEMMA FewRows ==
  ASSUME NEW T, T \subseteq Rows
  PROVE  IsFiniteSet(T) /\ Cardinality(T) \in Nat
BY FS_Subset, FS_CardinalityType, BoardAssumption

LEMMA CardsOfRows ==
  ASSUME NEW p, \A i \in DOMAIN p : p[i] \in Nat, NEW at \in Nat, NEW T, T \subseteq Rows
  PROVE  /\ Cards(p, T, at) \in SUBSET CardType /\ IsFiniteSet(Cards(p, T, at))
         /\ Cardinality(Cards(p, T, at)) = Cardinality(T)
         /\ \A c, d \in Cards(p, T, at) : c.id = d.id => c = d
         /\ \A a, b \in T : Card(p, a, at) = Card(p, b, at) => a = b
<1>1. \A r \in T : Card(p, r, at) \in CardType /\ Card(p, r, at).id = r.id
  BY CardIs
<1>2. \A a, b \in T : a.id = b.id => a = b
  BY BoardAssumption
<1>3. \A a, b \in T : Card(p, a, at) = Card(p, b, at) => a = b
  BY <1>1, <1>2
<1> DEFINE card == [r \in T |-> Card(p, r, at)]
           S == Cards(p, T, at)
<1>4. S \in SUBSET CardType /\ card \in Bijection(T, S)
  <2>1. card \in Surjection(T, S)
    BY DEF Cards, Surjection
  <2>2. card \in Injection(T, S)
    BY <1>3, <2>1 DEF Surjection, Injection, IsInjective
  <2> QED
    BY <1>1, <2>1, <2>2 DEF Cards, Bijection
<1>5. IsFiniteSet(S) /\ Cardinality(S) = Cardinality(T)
  <2> HIDE DEF card, S
  <2> QED
    BY <1>4, FewRows, FS_Bijection DEF ExistsBijection
<1>6. \A c, d \in S : c.id = d.id => c = d
  <2> SUFFICES ASSUME NEW c \in S, NEW d \in S, c.id = d.id
               PROVE  c = d
    OBVIOUS
  <2>1. PICK a \in T : c = Card(p, a, at)
    BY DEF Cards
  <2>2. PICK b \in T : d = Card(p, b, at)
    BY DEF Cards
  <2> QED
    BY <1>1, <1>2, <2>1, <2>2
<1> QED
  BY <1>3, <1>4, <1>5, <1>6

(* Rows of one store that its first n leave out come after all n in the     *)
(* order of the merge, when the store's order agrees with it.               *)
LEMMA LeftOut ==
  ASSUME NEW t, t.rows \subseteq Rows, t.at \in Nat, \A i \in DOMAIN t.pins : t.pins[i] \in Nat,
         NEW f \in Filter, Comparable(t, f), NEW s, NEW n \in Nat,
         NEW top \in Upcoming(t.pins, t.rows, s, f, t.at, n),
         NEW r \in Matching(t.rows, s, f, t.at) \ top
  PROVE  /\ Cardinality(top) = n
         /\ \A q \in top : Before(Card(t.pins, q, t.at), Card(t.pins, r, t.at), f.kind = "running")
<1> DEFINE byEnd == f.kind = "running"
           all == Matching(t.rows, s, f, t.at)
           card(q) == Card(t.pins, q, t.at)
<1>1. /\ top \subseteq all
      /\ Cardinality(top) = IF Cardinality(all) < n THEN Cardinality(all) ELSE n
      /\ \A q \in top, p \in all \ top :
           ~Less(OrderBy(t.pins, p, byEnd, t.at), OrderBy(t.pins, q, byEnd, t.at))
  BY DEF Upcoming, Firsts
<1>2. all \subseteq Rows /\ r \in Rows /\ top \subseteq Rows /\ \A q \in all : q.store = s
  BY <1>1 DEF Matching
<1>3. IsFiniteSet(all) /\ Cardinality(all) \in Nat /\ IsFiniteSet(top)
  BY <1>2, FewRows
<1>4. Cardinality(top) = n
  <2>1. top # all
    OBVIOUS
  <2> HIDE DEF all
  <2>2. Cardinality(top) # Cardinality(all)
    BY <1>1, <1>3, <2>1, FS_Subset
  <2> QED
    BY <1>1, <2>2
<1>5. all = {q \in Reference(t, f, t.at) : q.store = s}
  BY MatchingIsReference DEF Comparable
<1>6. ASSUME NEW q \in top
      PROVE  Before(card(q), card(r), byEnd)
  <2>1. q \in Rows /\ r \in Rows /\ q.id # r.id
    <3>1. q # r /\ q \in Rows /\ r \in Rows
      BY <1>2
    <3> QED
      BY <3>1, BoardAssumption
  <2>2. /\ card(q) \in CardType /\ card(q).id = q.id
        /\ card(r) \in CardType /\ card(r).id = r.id
    BY <2>1, CardIs
  <2>3. Before(card(q), card(r), byEnd) \/ Before(card(r), card(q), byEnd)
    <3> HIDE DEF card, byEnd
    <3>1. byEnd \in BOOLEAN
      BY DEF byEnd
    <3> QED
      BY <2>1, <2>2, <3>1, BeforeOrders
  <2>4. ~Before(card(r), card(q), byEnd)
    <3>1. r \in Reference(t, f, t.at) /\ q \in Reference(t, f, t.at) /\ r.store = q.store
      BY <1>1, <1>5
    <3>2. ~Less(OrderBy(t.pins, r, byEnd, t.at), OrderBy(t.pins, q, byEnd, t.at))
      BY <1>1
    <3>3. OrdersAgree(t, f, t.at)
      BY DEF Comparable
    <3> QED
      BY <3>1, <3>2, <3>3 DEF OrdersAgree
  <2> QED
    BY <2>3, <2>4
<1> QED
  BY <1>4, <1>6

(* The first n rows a store has for the filter, of every store. *)
FirstOfEach(R, t, f, n) ==
  \A s \in Stores : {r \in R : r.store = s} \in Upcoming(t.pins, t.rows, s, f, t.at, n)

(* The first rows of each store make the page of the whole board: the window *)
(* offset + limit asked of every store is enough, however the events are     *)
(* spread over the stores (merge.go, handler.go:144-152).                    *)
THEOREM FirstsMakeThePage ==
  ASSUME NEW t, t.rows \subseteq Rows, t.at \in Nat, \A i \in DOMAIN t.pins : t.pins[i] \in Nat,
         NEW f \in Filter, Comparable(t, f), NEW limit \in Nat, NEW offset \in Nat,
         NEW R, R \subseteq t.rows, FirstOfEach(R, t, f, offset + limit)
  PROVE  MergePage(Cards(t.pins, R, t.at), limit, offset, f.kind = "running") =
         MergePage(Cards(t.pins, Reference(t, f, t.at), t.at), limit, offset, f.kind = "running")
<1> DEFINE byEnd == f.kind = "running"
           n == offset + limit
           whole == Reference(t, f, t.at)
           A == Cards(t.pins, whole, t.at)
           B == Cards(t.pins, R, t.at)
           top(s) == {r \in R : r.store = s}
<1>1. \A s : Matching(t.rows, s, f, t.at) = {r \in whole : r.store = s}
  BY MatchingIsReference DEF Comparable
<1>2. whole \subseteq Rows /\ R \subseteq Rows /\ \A r \in Rows : r.store \in Stores
  BY RowTypes DEF Reference
<1>3. R \subseteq whole
  <2> SUFFICES ASSUME NEW r \in R
               PROVE  r \in whole
    OBVIOUS
  <2>1. r.store \in Stores /\ r \in top(r.store)
    BY <1>2
  <2>2. top(r.store) \in Upcoming(t.pins, t.rows, r.store, f, t.at, n)
    BY <2>1 DEF FirstOfEach
  <2>3. top(r.store) \subseteq Matching(t.rows, r.store, f, t.at)
    BY <2>2, FirstsOfMatching
  <2> QED
    BY <1>1, <2>1, <2>3
<1>4. B \in SUBSET A
  BY <1>3 DEF Cards
<1>5. /\ A \in SUBSET CardType /\ IsFiniteSet(A) /\ \A c, d \in A : c.id = d.id => c = d
      /\ \A a, b \in whole : Card(t.pins, a, t.at) = Card(t.pins, b, t.at) => a = b
  BY <1>2, CardsOfRows
<1>6. ASSUME NEW c \in A \ B
      PROVE  \E D \in SUBSET B : Cardinality(D) = n /\ \A d \in D : Before(d, c, byEnd)
  <2>1. PICK r \in whole : c = Card(t.pins, r, t.at)
    BY DEF Cards
  <2> DEFINE s == r.store
             D == Cards(t.pins, top(s), t.at)
  <2>2. s \in Stores /\ r \notin R /\ r \in Matching(t.rows, s, f, t.at) \ top(s)
    BY <1>1, <1>2, <2>1 DEF Cards
  <2>3. top(s) \in Upcoming(t.pins, t.rows, s, f, t.at, n)
    BY <2>2 DEF FirstOfEach
  <2>4. n \in Nat
    OBVIOUS
  <2> HIDE DEF n
  <2>5. /\ Cardinality(top(s)) = n
        /\ \A q \in top(s) : Before(Card(t.pins, q, t.at), Card(t.pins, r, t.at), byEnd)
    BY <2>2, <2>3, <2>4, LeftOut
  <2>6. top(s) \subseteq Rows /\ top(s) \subseteq R
    BY <1>2
  <2>7. Cardinality(D) = n
    BY <2>5, <2>6, CardsOfRows
  <2>8. D \in SUBSET B /\ \A d \in D : Before(d, c, byEnd)
    BY <2>1, <2>5, <2>6 DEF Cards
  <2> QED
    BY <2>7, <2>8
<1>7. byEnd \in BOOLEAN
  OBVIOUS
<1> HIDE DEF A, B, byEnd, n
<1>8. \A c \in A \ B : \E D \in SUBSET B :
        Cardinality(D) = offset + limit /\ \A d \in D : Before(d, c, byEnd)
  BY <1>6 DEF n
<1>9. MergePage(B, limit, offset, byEnd) = MergePage(A, limit, offset, byEnd)
  BY <1>4, <1>5, <1>7, <1>8, SamePage
<1> QED
  BY <1>9 DEF A, B, byEnd

-----------------------------------------------------------------------------
(* Numbers over several stores.                                             *)

Total(t, f, stores) ==
  Cardinality({r \in t.rows : r.store \in stores /\ Base(r, t.at) /\ Where(f, r, t.at)})

LEMMA NoStore ==
  ASSUME NEW t, NEW f
  PROVE  Total(t, f, {}) = 0
<1>1. {r \in t.rows : r.store \in {} /\ Base(r, t.at) /\ Where(f, r, t.at)} = {}
  OBVIOUS
<1> QED
  BY <1>1, FS_EmptySet DEF Total

LEMMA OneMoreStore ==
  ASSUME NEW t, t.rows \subseteq Rows, NEW f, NEW stores, NEW s, s \notin stores
  PROVE  /\ Total(t, f, stores) \in Nat
         /\ Cardinality(Matching(t.rows, s, f, t.at)) \in Nat
         /\ Total(t, f, stores \union {s}) =
              Total(t, f, stores) + Cardinality(Matching(t.rows, s, f, t.at))
<1> DEFINE A == {r \in t.rows : r.store \in stores /\ Base(r, t.at) /\ Where(f, r, t.at)}
           B == Matching(t.rows, s, f, t.at)
           C == {r \in t.rows : r.store \in stores \union {s} /\ Base(r, t.at) /\ Where(f, r, t.at)}
<1>1. C = A \union B /\ A \intersect B = {} /\ A \subseteq Rows /\ B \subseteq Rows
  BY DEF Matching
<1>2. Total(t, f, stores) = Cardinality(A) /\ Total(t, f, stores \union {s}) = Cardinality(C)
  BY DEF Total
<1> HIDE DEF A, B, C
<1>3. /\ IsFiniteSet(A) /\ Cardinality(A) \in Nat
      /\ IsFiniteSet(B) /\ Cardinality(B) \in Nat
  BY <1>1, FewRows
<1>4. Cardinality(A \union B) = Cardinality(A) + Cardinality(B) - Cardinality({})
  BY <1>1, <1>3, FS_Union
<1>5. Cardinality(C) = Cardinality(A) + Cardinality(B)
  BY <1>1, <1>3, <1>4, FS_EmptySet
<1> QED
  BY <1>2, <1>3, <1>5 DEF B

LEMMA EveryStore ==
  ASSUME NEW t, t.rows \subseteq Rows, NEW f
  PROVE  Total(t, f, Stores) = ListTotal(t, f, t.at)
<1>1. \A r \in t.rows : r.store \in Stores
  BY RowTypes
<1>2. {r \in t.rows : r.store \in Stores /\ Base(r, t.at) /\ Where(f, r, t.at)} =
        UNION {Matching(t.rows, s, f, t.at) : s \in Stores}
  BY <1>1 DEF Matching
<1> QED
  BY <1>2 DEF Total, ListTotal

LEMMA OtherDimensions ==
  ASSUME NEW f \in Filter, NEW c
  PROVE  /\ LET g == [f EXCEPT !.free = TRUE] IN
            /\ g.free = TRUE /\ g.city = f.city /\ g.category = f.category
            /\ g.when = f.when /\ g.kind = f.kind
         /\ LET g == [f EXCEPT !.when = c] IN
            /\ g.when = c /\ g.city = f.city /\ g.category = f.category
            /\ g.free = f.free /\ g.kind = f.kind
         /\ LET g == [f EXCEPT !.kind = c] IN
            /\ g.kind = c /\ g.city = f.city /\ g.category = f.category
            /\ g.free = f.free /\ g.when = f.when
         /\ LET g == [f EXCEPT !.category = c] IN
            /\ g.category = c /\ g.city = f.city /\ g.when = f.when
            /\ g.free = f.free /\ g.kind = f.kind
         /\ LET g == [f EXCEPT !.city = c] IN
            /\ g.city = c /\ g.category = f.category /\ g.when = f.when
            /\ g.free = f.free /\ g.kind = f.kind
BY DEF Filter

(* Each number of a store counts what the store's list has under the filter *)
(* with that dimension replaced: the counters of SQL and its WHERE, written *)
(* apart (filter.go:515-523, 588-640).                                      *)
LEMMA CountersMatch ==
  ASSUME NEW f \in Filter, NEW rows, NEW s, NEW at
  PROVE  LET n == CountFacets(rows, s, f, at)
             Matches(g) == Cardinality(Matching(rows, s, g, at))
         IN
         /\ n.total = Matches(f)
         /\ n.free = Matches([f EXCEPT !.free = TRUE])
         /\ \A code \in WhenCodes : n.when[code] = Matches([f EXCEPT !.when = code])
         /\ \A code \in KindCodes : n.kind[code] = Matches([f EXCEPT !.kind = code])
         /\ \A code \in FeedCategories : n.categories[code] = Matches([f EXCEPT !.category = code])
         /\ \A slug \in Cities : n.cities[slug] = Matches([f EXCEPT !.city = slug])
<1> DEFINE n == CountFacets(rows, s, f, at)
           base == {r \in rows : r.store = s /\ Base(r, at)}
           city == {r \in base : CityCond(f, r)}
           Cat(r) == CategoryCond(f, r)
           When(r) == WhenCond(r, f.when, at)
           Free(r) == FreeCond(f, r)
           Kind(r) == KindCond(r, f.kind, at)
<1>1. n.total = Cardinality({r \in city : Cat(r) /\ When(r) /\ Kind(r) /\ Free(r)})
  BY DEF CountFacets, Count
<1>2. n.free = Cardinality({r \in city : Cat(r) /\ When(r) /\ Kind(r) /\ FreeExpr(r)})
  BY DEF CountFacets, Count
<1>3. \A code \in WhenCodes : n.when[code] =
        Cardinality({r \in city : Cat(r) /\ Free(r) /\ Kind(r) /\ WhenCond(r, code, at)})
  BY DEF CountFacets, Count
<1>4. \A code \in KindCodes : n.kind[code] =
        Cardinality({r \in city : Cat(r) /\ Free(r) /\ When(r) /\ KindCond(r, code, at)})
  BY DEF CountFacets, Count
<1>5. \A code \in FeedCategories : n.categories[code] =
        Cardinality({r \in city : HasCategory(r) /\ When(r) /\ Free(r) /\ Kind(r)
                                  /\ CategoryExpr(r) = code})
  BY DEF CountFacets, Count
<1>6. \A slug \in Cities : n.cities[slug] =
        Cardinality({r \in base : Cat(r) /\ When(r) /\ Free(r) /\ Kind(r) /\ CityExpr(r) = slug})
  BY DEF CountFacets, Count
<1> HIDE DEF n
<1>7. {r \in city : Cat(r) /\ When(r) /\ Kind(r) /\ Free(r)} = Matching(rows, s, f, at)
  BY DEF Matching, Where
<1>8. {r \in city : Cat(r) /\ When(r) /\ Kind(r) /\ FreeExpr(r)} =
        Matching(rows, s, [f EXCEPT !.free = TRUE], at)
  <2> DEFINE g == [f EXCEPT !.free = TRUE]
  <2>1. /\ g.free = TRUE /\ g.city = f.city /\ g.category = f.category
        /\ g.when = f.when /\ g.kind = f.kind
    BY OtherDimensions
  <2> HIDE DEF g
  <2>2. {r \in city : Cat(r) /\ When(r) /\ Kind(r) /\ FreeExpr(r)} = Matching(rows, s, g, at)
    BY <2>1 DEF Matching, Where, FreeCond, CityCond, CategoryCond
  <2> QED
    BY <2>2 DEF g
<1>9. ASSUME NEW code
      PROVE  {r \in city : Cat(r) /\ Free(r) /\ Kind(r) /\ WhenCond(r, code, at)} =
               Matching(rows, s, [f EXCEPT !.when = code], at)
  <2> DEFINE g == [f EXCEPT !.when = code]
  <2>1. /\ g.when = code /\ g.city = f.city /\ g.category = f.category
        /\ g.free = f.free /\ g.kind = f.kind
    BY OtherDimensions
  <2> HIDE DEF g
  <2>2. {r \in city : Cat(r) /\ Free(r) /\ Kind(r) /\ WhenCond(r, code, at)} =
          Matching(rows, s, g, at)
    BY <2>1 DEF Matching, Where, FreeCond, CityCond, CategoryCond
  <2> QED
    BY <2>2 DEF g
<1>10. ASSUME NEW code
       PROVE  {r \in city : Cat(r) /\ Free(r) /\ When(r) /\ KindCond(r, code, at)} =
                Matching(rows, s, [f EXCEPT !.kind = code], at)
  <2> DEFINE g == [f EXCEPT !.kind = code]
  <2>1. /\ g.kind = code /\ g.city = f.city /\ g.category = f.category
        /\ g.free = f.free /\ g.when = f.when
    BY OtherDimensions
  <2> HIDE DEF g
  <2>2. {r \in city : Cat(r) /\ Free(r) /\ When(r) /\ KindCond(r, code, at)} =
          Matching(rows, s, g, at)
    BY <2>1 DEF Matching, Where, FreeCond, CityCond, CategoryCond
  <2> QED
    BY <2>2 DEF g
<1>11. ASSUME NEW code \in FeedCategories
       PROVE  {r \in city : HasCategory(r) /\ When(r) /\ Free(r) /\ Kind(r)
                            /\ CategoryExpr(r) = code} =
                Matching(rows, s, [f EXCEPT !.category = code], at)
  <2> DEFINE g == [f EXCEPT !.category = code]
  <2>1. /\ g.category = code /\ g.city = f.city /\ g.when = f.when
        /\ g.free = f.free /\ g.kind = f.kind
    BY OtherDimensions
  <2>2. code # ""
    BY QueriesAssumption
  <2> HIDE DEF g
  <2>3. {r \in city : HasCategory(r) /\ When(r) /\ Free(r) /\ Kind(r) /\ CategoryExpr(r) = code} =
          Matching(rows, s, g, at)
    BY <2>1, <2>2 DEF Matching, Where, FreeCond, CityCond, CategoryCond
  <2> QED
    BY <2>3 DEF g
<1>12. ASSUME NEW slug
       PROVE  {r \in base : Cat(r) /\ When(r) /\ Free(r) /\ Kind(r) /\ CityExpr(r) = slug} =
                Matching(rows, s, [f EXCEPT !.city = slug], at)
  <2> DEFINE g == [f EXCEPT !.city = slug]
  <2>1. /\ g.city = slug /\ g.category = f.category /\ g.when = f.when
        /\ g.free = f.free /\ g.kind = f.kind
    BY OtherDimensions
  <2> HIDE DEF g
  <2>2. {r \in base : Cat(r) /\ When(r) /\ Free(r) /\ Kind(r) /\ CityExpr(r) = slug} =
          Matching(rows, s, g, at)
    BY <2>1 DEF Matching, Where, FreeCond, CityCond, CategoryCond
  <2> QED
    BY <2>2 DEF g
<1> QED
  BY <1>1, <1>2, <1>3, <1>4, <1>5, <1>6, <1>7, <1>8, <1>9, <1>10, <1>11, <1>12 DEF n

(* The counters of some stores, each against their lists.                   *)
FacetsAre(n, t, f, stores) ==
  /\ n.total = Total(t, f, stores)
  /\ n.free = Total(t, [f EXCEPT !.free = TRUE], stores)
  /\ \A code \in WhenCodes : n.when[code] = Total(t, [f EXCEPT !.when = code], stores)
  /\ \A code \in KindCodes : n.kind[code] = Total(t, [f EXCEPT !.kind = code], stores)
  /\ \A code \in FeedCategories :
       n.categories[code] = Total(t, [f EXCEPT !.category = code], stores)
  /\ \A slug \in Cities : n.cities[slug] = Total(t, [f EXCEPT !.city = slug], stores)

LEMMA FacetsOfNoStore ==
  ASSUME NEW t, NEW f
  PROVE  FacetsAre(NewFacets, t, f, {})
BY NoStore DEF FacetsAre, NewFacets

LEMMA FacetsOfOneMore ==
  ASSUME NEW n, NEW t, t.rows \subseteq Rows, NEW f \in Filter, NEW stores, NEW s, s \notin stores,
         FacetsAre(n, t, f, stores)
  PROVE  FacetsAre(Merge(n, CountFacets(t.rows, s, f, t.at)), t, f, stores \union {s})
<1> DEFINE one == CountFacets(t.rows, s, f, t.at)
           sum == Merge(n, one)
           Matches(g) == Cardinality(Matching(t.rows, s, g, t.at))
           Old(g) == Total(t, g, stores)
           New(g) == Total(t, g, stores \union {s})
           free == [f EXCEPT !.free = TRUE]
           When(code) == [f EXCEPT !.when = code]
           Kind(code) == [f EXCEPT !.kind = code]
           Category(code) == [f EXCEPT !.category = code]
           City(slug) == [f EXCEPT !.city = slug]
<1>1. /\ one.total = Matches(f) /\ one.free = Matches(free)
      /\ \A code \in WhenCodes : one.when[code] = Matches(When(code))
      /\ \A code \in KindCodes : one.kind[code] = Matches(Kind(code))
      /\ \A code \in FeedCategories : one.categories[code] = Matches(Category(code))
      /\ \A slug \in Cities : one.cities[slug] = Matches(City(slug))
  BY CountersMatch
<1>2. \A g : New(g) = Old(g) + Matches(g)
  BY OneMoreStore
<1>3. /\ n.total = Old(f) /\ n.free = Old(free)
      /\ \A code \in WhenCodes : n.when[code] = Old(When(code))
      /\ \A code \in KindCodes : n.kind[code] = Old(Kind(code))
      /\ \A code \in FeedCategories : n.categories[code] = Old(Category(code))
      /\ \A slug \in Cities : n.cities[slug] = Old(City(slug))
  BY DEF FacetsAre
<1> HIDE DEF one, Matches, Old, New, free, When, Kind, Category, City
<1>4. /\ sum.total = n.total + one.total /\ sum.free = n.free + one.free
      /\ \A code \in WhenCodes : sum.when[code] = n.when[code] + one.when[code]
      /\ \A code \in KindCodes : sum.kind[code] = n.kind[code] + one.kind[code]
      /\ \A code \in FeedCategories :
           sum.categories[code] = n.categories[code] + one.categories[code]
      /\ \A slug \in Cities : sum.cities[slug] = n.cities[slug] + one.cities[slug]
  BY DEF Merge
<1> HIDE DEF sum
<1>5. /\ sum.total = New(f) /\ sum.free = New(free)
      /\ \A code \in WhenCodes : sum.when[code] = New(When(code))
      /\ \A code \in KindCodes : sum.kind[code] = New(Kind(code))
      /\ \A code \in FeedCategories : sum.categories[code] = New(Category(code))
      /\ \A slug \in Cities : sum.cities[slug] = New(City(slug))
  BY <1>1, <1>2, <1>3, <1>4
<1> QED
  BY <1>5 DEF FacetsAre, sum, one, New, free, When, Kind, Category, City

-----------------------------------------------------------------------------
(* Why the answers are honest: what a request has gathered, as long as the  *)
(* tables have not moved under it, is what the stores visited so far have.  *)

(* The stores whose number a request has added up.                          *)
Numbered(stage, s) == Visited(IF stage = "count" THEN "page" ELSE stage, s)

(* Cards of the first rows of some stores. *)
Collected(cs, t, q, stores) ==
  \E R \in SUBSET t.rows :
    /\ \A r \in R : r.store \in stores
    /\ \A s \in stores : {r \in R : r.store = s}
                           \in Upcoming(t.pins, t.rows, s, q.filter, t.at, q.offset + q.limit)
    /\ cs = Cards(t.pins, R, t.at)

ListGathered(stage, s, q, g, t) ==
  /\ Collected(g.cards, t, q, Visited(stage, s))
  /\ g.total = Total(t, q.filter, Numbered(stage, s))

Gathered(stage, s, q, g, t) ==
  q.op \in {"list", "facets"} =>
    /\ t.rows = board /\ t.pins = pins /\ t.at = q.at
    /\ g.degraded = {} /\ q.op = "list" => ListGathered(stage, s, q, g, t)
    /\ g.degraded = {} /\ q.op = "facets" => FacetsAre(g.facets, t, q.filter, Numbered(stage, s))

(* What PagesAreHonest and FacetsKeepTheirWord say of one reply.            *)
PageHonest(t, q, p) ==
  LET all == Reference(t, q.filter, t.at) IN
  Comparable(t, q.filter) =>
    /\ p.cards = MergePage(Cards(t.pins, all, t.at), q.limit, q.offset, q.filter.kind = "running")
    /\ p.total = Cardinality(all)

FacetsHonest(t, q, p) ==
  LET n == p.facets
      f == q.filter
      Opens(g) == ListTotal(t, g, q.at)
  IN
  /\ n.total = Opens(f)
  /\ n.free = Opens([f EXCEPT !.free = TRUE])
  /\ \A code \in WhenCodes : n.when[code] = Opens([f EXCEPT !.when = code])
  /\ \A code \in KindCodes : n.kind[code] = Opens([f EXCEPT !.kind = code])
  /\ \A code \in FeedCategories : n.categories[code] = Opens([f EXCEPT !.category = code])
  /\ \A slug \in Cities : n.cities[slug] = Opens([f EXCEPT !.city = slug])

AnswerHonest(t, q, p) ==
  p.ok /\ p.degraded = {} =>
    /\ q.op = "list" => PageHonest(t, q, p)
    /\ q.op = "facets" => FacetsHonest(t, q, p)

ReaderHonest(r) ==
  /\ pc[r] = "lookup" => src[r] = "main" /\ got[r] = Nothing
  /\ ~ghost[r].moved =>
       IF pc[r] = "done" THEN AnswerHonest(ghost[r], question[r], reply[r])
       ELSE Gathered(pc[r], src[r], question[r], got[r], ghost[r])

(* A page is kept for every question of its key. *)
EntryHonest(e) ==
  ~e.ghost.moved =>
    \A q \in QuestionType : e.key = CacheKey(q) => PageHonest(e.ghost, q, e.reply)

HonestInv ==
  /\ \A r \in Readers : ReaderHonest(r)
  /\ \A e \in pages : EntryHonest(e)

LEMMA NothingCollected ==
  ASSUME NEW t, NEW q
  PROVE  Collected({}, t, q, {})
<1>1. {} = Cards(t.pins, {}, t.at)
  BY DEF Cards
<1> QED
  BY <1>1 DEF Collected

LEMMA OneMoreCollected ==
  ASSUME NEW cs, NEW t, NEW q, NEW stores, NEW s, s \notin stores, Collected(cs, t, q, stores),
         NEW top \in Upcoming(t.pins, t.rows, s, q.filter, t.at, q.offset + q.limit)
  PROVE  Collected(cs \union Cards(t.pins, top, t.at), t, q, stores \union {s})
<1>1. PICK R \in SUBSET t.rows :
        /\ \A r \in R : r.store \in stores
        /\ \A v \in stores : {r \in R : r.store = v}
                               \in Upcoming(t.pins, t.rows, v, q.filter, t.at, q.offset + q.limit)
        /\ cs = Cards(t.pins, R, t.at)
  BY DEF Collected
<1> DEFINE R2 == R \union top
<1>2. top \subseteq t.rows /\ \A r \in top : r.store = s
  BY FirstsOfMatching DEF Matching
<1>3. R2 \in SUBSET t.rows /\ \A r \in R2 : r.store \in stores \union {s}
  BY <1>1, <1>2
<1>4. ASSUME NEW v \in stores \union {s}
      PROVE  {r \in R2 : r.store = v}
               \in Upcoming(t.pins, t.rows, v, q.filter, t.at, q.offset + q.limit)
  <2>1. CASE v = s
    <3>1. {r \in R2 : r.store = v} = top
      BY <1>1, <1>2, <2>1
    <3> QED
      BY <2>1, <3>1
  <2>2. CASE v \in stores
    <3>1. {r \in R2 : r.store = v} = {r \in R : r.store = v}
      BY <1>2, <2>2
    <3> QED
      BY <1>1, <2>2, <3>1
  <2> QED
    BY <2>1, <2>2
<1>5. cs \union Cards(t.pins, top, t.at) = Cards(t.pins, R2, t.at)
  BY <1>1 DEF Cards
<1> HIDE DEF R2
<1> QED
  BY <1>3, <1>4, <1>5 DEF Collected

(* What has been gathered from all the stores makes an honest answer.       *)
LEMMA AllGathered ==
  ASSUME TablesInv, NEW t, NEW q \in QuestionType, t.rows = board, t.pins = pins, t.at = q.at,
         NEW g, NEW s, ListGathered("answer", s, q, g, t), Comparable(t, q.filter)
  PROVE  /\ MergePage(g.cards, q.limit, q.offset, q.filter.kind = "running") =
              MergePage(Cards(t.pins, Reference(t, q.filter, t.at), t.at),
                        q.limit, q.offset, q.filter.kind = "running")
         /\ g.total = Cardinality(Reference(t, q.filter, t.at))
<1>1. /\ t.rows \subseteq Rows /\ t.at \in Nat /\ \A i \in DOMAIN t.pins : t.pins[i] \in Nat
      /\ q.filter \in Filter /\ q.limit \in Nat /\ q.offset \in Nat
  <2>1. board \subseteq Rows /\ \A i \in DOMAIN pins : pins[i] \in Nat
    BY BoardAssumption DEF TablesInv
  <2> QED
    BY <2>1 DEF QuestionType
<1>2. Collected(g.cards, t, q, Stores) /\ g.total = Total(t, q.filter, Stores)
  BY DEF ListGathered, Numbered, Visited
<1>3. PICK R \in SUBSET t.rows :
        /\ FirstOfEach(R, t, q.filter, q.offset + q.limit)
        /\ g.cards = Cards(t.pins, R, t.at)
  BY <1>2 DEF Collected, FirstOfEach
<1>4. MergePage(g.cards, q.limit, q.offset, q.filter.kind = "running") =
        MergePage(Cards(t.pins, Reference(t, q.filter, t.at), t.at),
                  q.limit, q.offset, q.filter.kind = "running")
  <2> DEFINE f == q.filter
             limit == q.limit
             offset == q.offset
  <2>1. f \in Filter /\ limit \in Nat /\ offset \in Nat /\ Comparable(t, f) /\ R \subseteq t.rows
    BY <1>1
  <2>2. FirstOfEach(R, t, f, offset + limit)
    BY <1>3
  <2> HIDE DEF f, limit, offset
  <2>3. MergePage(Cards(t.pins, R, t.at), limit, offset, f.kind = "running") =
        MergePage(Cards(t.pins, Reference(t, f, t.at), t.at), limit, offset, f.kind = "running")
    <3>1. /\ t.rows \subseteq Rows /\ t.at \in Nat /\ \A i \in DOMAIN t.pins : t.pins[i] \in Nat
      BY <1>1
    <3> QED
      BY <2>1, <2>2, <3>1, FirstsMakeThePage
  <2> QED
    BY <1>3, <2>3 DEF f, limit, offset
<1>5. {r \in t.rows : r.store \in Stores /\ Base(r, t.at) /\ Where(q.filter, r, t.at)} =
        Reference(t, q.filter, t.at)
  <2>1. \A r \in t.rows : Answers(r, q.filter, t.at) <=> Base(r, t.at) /\ Where(q.filter, r, t.at)
    BY <1>1, MatchingIsReference DEF Comparable
  <2>2. \A r \in t.rows : r.store \in Stores
    BY <1>1, RowTypes
  <2> QED
    BY <2>1, <2>2 DEF Reference
<1> QED
  BY <1>2, <1>4, <1>5 DEF Total

(* A reader's step is about itself: nobody else's progress and no table.    *)
LEMMA OnlyItself ==
  ASSUME ReadersInv, NEW r \in Readers, Handle(r)
  PROVE  UNCHANGED tables /\ \A x \in Readers \ {r} : Same(x)
<1>1. ASSUME NEW q, Ask(r, q)
      PROVE  UNCHANGED tables /\ \A x \in Readers \ {r} : Same(x)
  BY <1>1 DEF Ask, ReadersInv, Same
<1>2. CASE AskList(r) \/ AskFacets(r) \/ GetByID(r)
  BY <1>1, <1>2 DEF AskList, AskFacets, GetByID
<1>3. CASE GetList(r) \/ GetEvent(r) \/ Miss(r)
  BY <1>3 DEF GetList, GetEvent, Miss, ReadersInv, Same
<1>4. CASE ReadPins(r) \/ ReadPage(r)
  BY <1>4 DEF ReadPins, ReadPage, ReadersInv, Same
<1>5. CASE ReadCount(r) \/ FailMain(r) \/ FailPage(r) \/ FailCount(r)
  BY <1>5 DEF ReadCount, FailMain, FailPage, FailCount, NextStore, ReadersInv, Same
<1>6. CASE ReadFacets(r) \/ FailFacets(r)
  BY <1>6 DEF ReadFacets, FailFacets, NextStore, ReadersInv, Same
<1>7. CASE AnswerList(r) \/ AnswerFacets(r) \/ AnswerCard(r)
  BY <1>7 DEF AnswerList, AnswerFacets, AnswerCard, ReadersInv, Same
<1>8. CASE ReadCard(r) \/ NoCard(r)
  BY <1>8 DEF ReadCard, NoCard, ReadersInv, Same
<1> QED
  BY <1>2, <1>3, <1>4, <1>5, <1>6, <1>7, <1>8 DEF Handle

LEMMA HonestStep ==
  ASSUME BoardInv, HonestInv, NEW r \in Readers, Handle(r), ReaderHonest(r)',
         \A e \in pages' : EntryHonest(e)
  PROVE  HonestInv'
<1>1. UNCHANGED <<board, pins>> /\ \A x \in Readers \ {r} : Same(x)
  BY OnlyItself DEF BoardInv, tables
<1>2. ASSUME NEW x \in Readers, x # r
      PROVE  ReaderHonest(x)'
  <2>1. ReaderHonest(x) /\ Same(x)
    BY <1>1, <1>2 DEF HonestInv
  <2> QED
    BY <1>1, <2>1 DEF ReaderHonest, Gathered, Same
<1>3. \A e \in pages' : EntryHonest(e)'
  BY DEF EntryHonest
<1> QED
  BY <1>2, <1>3 DEF HonestInv

(* A request that is about to begin has nothing, of no store.               *)
LEMMA NothingGathered ==
  ASSUME NEW q, NEW stage \in {"lookup", "pins", "facets", "card"}
  PROVE  Gathered(stage, "main", q, Nothing, Tables(q.at))
<1>1. /\ Tables(q.at).rows = board /\ Tables(q.at).pins = pins /\ Tables(q.at).at = q.at
      /\ Nothing.cards = {} /\ Nothing.total = 0 /\ Nothing.facets = NewFacets
  BY DEF Tables, Nothing
<1>2. Visited(stage, "main") = {} /\ Numbered(stage, "main") = {}
  BY DEF Visited, Numbered
<1>3. ListGathered(stage, "main", q, Nothing, Tables(q.at))
  BY <1>1, <1>2, NothingCollected, NoStore DEF ListGathered
<1>4. FacetsAre(Nothing.facets, Tables(q.at), q.filter, Numbered(stage, "main"))
  BY <1>1, <1>2, FacetsOfNoStore
<1> QED
  BY <1>1, <1>3, <1>4 DEF Gathered

LEMMA HonestAsk ==
  ASSUME BoardInv, NEW r \in Readers, AskList(r) \/ AskFacets(r) \/ GetByID(r)
  PROVE  ReaderHonest(r)' /\ pages' = pages
<1>1. PICK q : Ask(r, q)
  BY DEF AskList, AskFacets, GetByID
<1>2. ReadersInv
  BY DEF BoardInv
<1>3. /\ question'[r] = q /\ pc'[r] \in {"facets", "lookup"} /\ src'[r] = "main"
      /\ got'[r] = Nothing /\ ghost'[r] = Tables(q.at)
      /\ pages' = pages /\ board' = board /\ pins' = pins
  BY <1>1, <1>2 DEF Ask, ReadersInv, tables
<1>4. Gathered(pc'[r], "main", q, Nothing, Tables(q.at))
  BY <1>3, NothingGathered
<1>5. Gathered(pc'[r], "main", q, Nothing, Tables(q.at)) =>
        Gathered(pc[r], src[r], question[r], got[r], ghost[r])'
  BY <1>3 DEF Gathered
<1> QED
  BY <1>3, <1>4, <1>5 DEF ReaderHonest

LEMMA HonestMiss ==
  ASSUME BoardInv, HonestInv, NEW r \in Readers, Miss(r)
  PROVE  ReaderHonest(r)' /\ pages' = pages
<1>1. ReadersInv /\ ReaderHonest(r)
  BY DEF BoardInv, HonestInv
<1> DEFINE q == question[r]
<1>2. /\ pc[r] = "lookup" /\ pc'[r] \in {"pins", "card"} /\ src'[r] = src[r]
      /\ question'[r] = q /\ got'[r] = got[r] /\ ghost'[r] = Tables(q.at)
      /\ pages' = pages /\ board' = board /\ pins' = pins
  BY <1>1 DEF Miss, ReadersInv, tables
<1>3. src'[r] = "main" /\ got'[r] = Nothing
  BY <1>1, <1>2 DEF ReaderHonest
<1> HIDE DEF q
<1>4. Gathered(pc'[r], "main", q, Nothing, Tables(q.at))
  BY <1>2, NothingGathered
<1>5. Gathered(pc'[r], "main", q, Nothing, Tables(q.at)) =>
        Gathered(pc[r], src[r], question[r], got[r], ghost[r])'
  BY <1>2, <1>3 DEF Gathered
<1> QED
  BY <1>2, <1>3, <1>4, <1>5 DEF ReaderHonest

(* A page and a total are all that is asked of a list. *)
LEMMA SameAnswer ==
  ASSUME NEW t, NEW q, NEW k, NEW p, NEW o, PageHonest(t, q, p),
         q.filter = k.filter, q.limit = k.limit, q.offset = k.offset,
         p.cards = o.cards, p.total = o.total
  PROVE  PageHonest(t, k, o)
BY DEF PageHonest

LEMMA HonestFromPages ==
  ASSUME BoardInv, HonestInv, NEW r \in Readers, GetList(r)
  PROVE  ReaderHonest(r)' /\ pages' = pages
<1>1. ReadersInv /\ question[r] \in QuestionType
  BY ReaderFacts
<1>2. PICK e \in pages : /\ e.key = CacheKey(question[r])
                         /\ reply' = [reply EXCEPT ![r] = [e.reply EXCEPT !.cached = TRUE]]
                         /\ ghost' = [ghost EXCEPT ![r] = e.ghost]
  BY DEF GetList
<1>3. /\ reply'[r] = [e.reply EXCEPT !.cached = TRUE] /\ ghost'[r] = e.ghost
      /\ pc'[r] = "done" /\ question'[r] = question[r] /\ question[r].op = "list"
      /\ pages' = pages
  BY <1>1, <1>2 DEF GetList, ReadersInv
<1>4. reply'[r].cards = e.reply.cards /\ reply'[r].total = e.reply.total
  BY <1>3 DEF BoardInv, PageInv, IsEntry, IsReply
<1>5. ASSUME ~e.ghost.moved
      PROVE  PageHonest(e.ghost, question[r], reply'[r])
  <2>1. PageHonest(e.ghost, question[r], e.reply)
    BY <1>1, <1>2, <1>5 DEF HonestInv, EntryHonest
  <2> QED
    BY <1>4, <2>1, SameAnswer
<1> QED
  BY <1>3, <1>5 DEF ReaderHonest, AnswerHonest

(* What a card says is not at issue here. *)
LEMMA HonestCards ==
  ASSUME BoardInv, NEW r \in Readers, GetEvent(r) \/ ReadCard(r) \/ NoCard(r) \/ AnswerCard(r)
  PROVE  ReaderHonest(r)' /\ pages' = pages
<1>1. ReadersInv /\ ReaderInv(r)
  BY ReaderFacts
<1>2. question'[r] = question[r] /\ pages' = pages /\ pc'[r] \in {"done", "answer"}
  BY <1>1 DEF GetEvent, ReadCard, NoCard, AnswerCard, ReadersInv
<1>3. question[r].op = "card"
  BY <1>1 DEF GetEvent, ReadCard, NoCard, AnswerCard, ReaderInv, StageFits
<1> QED
  BY <1>2, <1>3 DEF ReaderHonest, Gathered, AnswerHonest

(* A step of gathering: the tables the answer is of stay where they are.    *)
LEMMA GatheringStep ==
  ASSUME BoardInv, HonestInv, NEW r \in Readers, pc[r] \notin {"done", "lookup"},
         pc'[r] \notin {"done", "lookup"},
         UNCHANGED <<tables, question, ghost>>,
         ~ghost[r].moved /\ got'[r].degraded = {} /\ question[r].op = "list" =>
           ListGathered(pc'[r], src'[r], question[r], got'[r], ghost[r]),
         ~ghost[r].moved /\ got'[r].degraded = {} /\ question[r].op = "facets" =>
           FacetsAre(got'[r].facets, ghost[r], question[r].filter, Numbered(pc'[r], src'[r]))
  PROVE  ReaderHonest(r)'
<1>1. ReaderHonest(r) /\ board' = board /\ pins' = pins
  BY DEF HonestInv, tables
<1>2. ~ghost[r].moved => Gathered(pc[r], src[r], question[r], got[r], ghost[r])
  BY <1>1 DEF ReaderHonest
<1>3. ~ghost[r].moved => Gathered(pc[r], src[r], question[r], got[r], ghost[r])'
  BY <1>1, <1>2 DEF Gathered
<1> QED
  BY <1>3 DEF ReaderHonest

(* What a request in progress has, when nothing failed and nothing moved.   *)
LEMMA SoFar ==
  ASSUME BoardInv, HonestInv, NEW r \in Readers, pc[r] # "done", ~ghost[r].moved,
         question[r].op \in {"list", "facets"}
  PROVE  /\ ghost[r].rows = board /\ ghost[r].pins = pins /\ ghost[r].at = question[r].at
         /\ board \subseteq Rows /\ question[r] \in QuestionType
         /\ got[r].degraded = {} /\ question[r].op = "list" =>
              ListGathered(pc[r], src[r], question[r], got[r], ghost[r])
         /\ got[r].degraded = {} /\ question[r].op = "facets" =>
              FacetsAre(got[r].facets, ghost[r], question[r].filter, Numbered(pc[r], src[r]))
<1>1. ReaderHonest(r) /\ TablesInv /\ question[r] \in QuestionType
  BY ReaderFacts DEF HonestInv
<1>2. Gathered(pc[r], src[r], question[r], got[r], ghost[r])
  BY <1>1 DEF ReaderHonest
<1> QED
  BY <1>1, <1>2 DEF Gathered, TablesInv

LEMMA HonestPins ==
  ASSUME BoardInv, HonestInv, NEW r \in Readers, ReadPins(r)
  PROVE  ReaderHonest(r)' /\ pages' = pages
<1>1. /\ ReadersInv /\ ReaderInv(r) /\ pc[r] = "pins"
      /\ UNCHANGED <<tables, question, ghost, pages, src>>
  BY ReaderFacts DEF ReadPins
<1>2. PICK top : got' = [got EXCEPT ![r].featured = Cards(pins, top, question[r].at)]
  BY DEF ReadPins
<1>3. pc'[r] = "page" /\ got'[r] = [got[r] EXCEPT !.featured = Cards(pins, top, question[r].at)]
  BY <1>1, <1>2 DEF ReadPins, ReadersInv
<1>4. /\ got'[r].cards = got[r].cards /\ got'[r].total = got[r].total
      /\ got'[r].degraded = got[r].degraded
  BY <1>1, <1>3 DEF ReaderInv, IsGot
<1>5. question[r].op = "list"
  BY <1>1 DEF ReaderInv, StageFits
<1>6. \A s : Visited("page", s) = Visited("pins", s) /\ Numbered("page", s) = Numbered("pins", s)
  BY DEF Visited, Numbered
<1>7. ~ghost[r].moved /\ got'[r].degraded = {} =>
        ListGathered(pc'[r], src'[r], question[r], got'[r], ghost[r])
  BY <1>1, <1>3, <1>4, <1>5, <1>6, SoFar DEF ListGathered
<1> QED
  BY <1>1, <1>3, <1>5, <1>7, GatheringStep

LEMMA StoresNumbered ==
  ASSUME NEW s \in Stores
  PROVE  LET on == IF s = "tg" THEN "answer" ELSE "page"
             next == IF s = "main" THEN "webreg" ELSE "tg"
         IN
         /\ s \notin Numbered("count", s) /\ Numbered("count", s) = Visited("page", s)
         /\ Numbered("page", s) = Visited("page", s)
         /\ Visited(on, next) = Visited("count", s)
         /\ Numbered(on, next) = Numbered("count", s) \union {s}
         /\ s \notin Numbered("facets", s)
         /\ Numbered(IF s = "tg" THEN "answer" ELSE "facets", next) =
              Numbered("facets", s) \union {s}
BY DEF Stores, Visited, Numbered

LEMMA HonestPage ==
  ASSUME BoardInv, HonestInv, NEW r \in Readers, ReadPage(r)
  PROVE  ReaderHonest(r)' /\ pages' = pages
<1> DEFINE q == question[r]
           t == ghost[r]
           s == src[r]
<1>1. /\ ReadersInv /\ ReaderInv(r) /\ pc[r] = "page" /\ s \in Stores
      /\ UNCHANGED <<tables, question, ghost, pages, src>>
  BY ReaderFacts DEF ReadPage
<1>2. PICK top \in Upcoming(pins, board, s, q.filter, q.at, Window(r)) :
        got' = [got EXCEPT
          ![r].cards = @ \union Cards(pins, top, q.at),
          ![r].page = Cardinality(top),
          ![r].extra = IF src[r] = "main" THEN @ ELSE @ + Cardinality(top)]
  BY DEF ReadPage
<1>3. pc'[r] = "count" /\ q.op = "list"
  BY <1>1 DEF ReadPage, ReadersInv, ReaderInv, StageFits
<1>4. /\ got'[r].cards = got[r].cards \union Cards(pins, top, q.at)
      /\ got'[r].total = got[r].total /\ got'[r].degraded = got[r].degraded
  <2> DEFINE old == got[r]
             all == old.cards \union Cards(pins, top, q.at)
             size == Cardinality(top)
             extra == IF src[r] = "main" THEN old.extra ELSE old.extra + size
             h1 == [old EXCEPT !.cards = all]
             h2 == [h1 EXCEPT !.page = size]
             h3 == [h2 EXCEPT !.extra = extra]
  <2>1. got'[r] = h3
    BY <1>1, <1>2 DEF ReadersInv
  <2>2. IsGot(old)
    BY <1>1 DEF ReaderInv
  <2> HIDE DEF old, all, size, extra
  <2>3. IsGot(h1) /\ h1.cards = all /\ h1.total = old.total /\ h1.degraded = old.degraded
    BY <2>2 DEF IsGot
  <2> HIDE DEF h1
  <2>4. IsGot(h2) /\ h2.cards = all /\ h2.total = old.total /\ h2.degraded = old.degraded
    BY <2>3 DEF IsGot
  <2> HIDE DEF h2
  <2>5. h3.cards = all /\ h3.total = old.total /\ h3.degraded = old.degraded
    BY <2>4 DEF IsGot
  <2> QED
    BY <2>1, <2>5 DEF all, old
<1>5. ASSUME ~t.moved, got'[r].degraded = {}
      PROVE  ListGathered("count", s, q, got'[r], t)
  <2>1. t.rows = board /\ t.pins = pins /\ t.at = q.at /\ ListGathered("page", s, q, got[r], t)
    BY <1>1, <1>3, <1>4, <1>5, SoFar
  <2>2. top \in Upcoming(t.pins, t.rows, s, q.filter, t.at, q.offset + q.limit)
    BY <1>2, <2>1 DEF Window
  <2>3. Collected(got[r].cards, t, q, Visited("page", s)) /\ s \notin Visited("page", s)
        /\ Visited("count", s) = Visited("page", s) \union {s}
    BY <1>1, <2>1, StoresInTurn DEF ListGathered
  <2> HIDE DEF q, t, s
  <2>4. Collected(got[r].cards \union Cards(t.pins, top, t.at), t, q, Visited("page", s) \union {s})
    BY <2>2, <2>3, OneMoreCollected
  <2>5. Collected(got'[r].cards, t, q, Visited("count", s))
    BY <1>4, <2>1, <2>3, <2>4
  <2>6. Numbered("count", s) = Numbered("page", s)
    BY <1>1, StoresNumbered
  <2> QED
    BY <1>4, <2>1, <2>5, <2>6 DEF ListGathered
<1> QED
  BY <1>1, <1>3, <1>5, GatheringStep

LEMMA HonestCount ==
  ASSUME BoardInv, HonestInv, NEW r \in Readers, ReadCount(r)
  PROVE  ReaderHonest(r)' /\ pages' = pages
<1> DEFINE q == question[r]
           t == ghost[r]
           s == src[r]
           number == Cardinality(Matching(board, s, q.filter, q.at))
           g == [got[r] EXCEPT !.total = @ + number]
<1>1. /\ ReadersInv /\ ReaderInv(r) /\ pc[r] = "count" /\ s \in Stores /\ NextStore(r)
      /\ UNCHANGED <<tables, question, ghost, reply, pages>> /\ got' = [got EXCEPT ![r] = g]
  BY ReaderFacts DEF ReadCount
<1>2. q.op = "list" /\ IsGot(got[r])
  BY <1>1 DEF ReaderInv, StageFits
<1>3. g.cards = got[r].cards /\ g.total = got[r].total + number /\ g.degraded = got[r].degraded
  BY <1>2 DEF IsGot
<1> HIDE DEF g
<1>4. /\ got'[r] = g
      /\ src'[r] = (IF s = "main" THEN "webreg" ELSE "tg")
      /\ pc'[r] = (IF s = "tg" THEN "answer" ELSE "page")
  BY <1>1, <1>2, OneReaderOn
<1>5. ASSUME ~t.moved, g.degraded = {}
      PROVE  ListGathered(pc'[r], src'[r], q, g, t)
  <2>1. /\ t.rows = board /\ t.pins = pins /\ t.at = q.at /\ t.rows \subseteq Rows
        /\ ListGathered("count", s, q, got[r], t)
    BY <1>1, <1>2, <1>3, <1>5, SoFar
  <2>2. /\ s \notin Numbered("count", s) /\ Visited(pc'[r], src'[r]) = Visited("count", s)
        /\ Numbered(pc'[r], src'[r]) = Numbered("count", s) \union {s}
    BY <1>1, <1>4, StoresNumbered
  <2> HIDE DEF q, t, s
  <2>3. Total(t, q.filter, Numbered("count", s) \union {s}) =
          Total(t, q.filter, Numbered("count", s))
            + Cardinality(Matching(t.rows, s, q.filter, t.at))
    BY <2>1, <2>2, OneMoreStore
  <2>4. g.total = Total(t, q.filter, Numbered(pc'[r], src'[r]))
    BY <1>3, <2>1, <2>2, <2>3 DEF ListGathered
  <2>5. Collected(g.cards, t, q, Visited(pc'[r], src'[r]))
    BY <1>3, <2>1, <2>2 DEF ListGathered
  <2> QED
    BY <2>4, <2>5 DEF ListGathered
<1>6. pc'[r] \notin {"done", "lookup"}
  BY <1>4
<1> QED
  BY <1>1, <1>2, <1>4, <1>5, <1>6, GatheringStep

(* After a failure nothing is promised. *)
LEMMA HonestFailure ==
  ASSUME BoardInv, HonestInv, NEW r \in Readers,
         FailMain(r) \/ FailPage(r) \/ FailCount(r) \/ FailFacets(r)
  PROVE  ReaderHonest(r)' /\ pages' = pages
<1>1. /\ ReadersInv /\ ReaderInv(r) /\ pc[r] \in {"pins", "page", "count", "facets"}
      /\ NextStore(r) /\ UNCHANGED <<tables, question, ghost, pages>>
  BY ReaderFacts DEF FailMain, FailPage, FailCount, FailFacets
<1>2. pc'[r] \notin {"done", "lookup"}
  BY <1>1 DEF NextStore, ReadersInv
<1>3. got'[r].degraded # {}
  <2>1. IsGot(got[r])
    BY <1>1 DEF ReaderInv
  <2>2. CASE FailMain(r)
    <3>1. got'[r] = [Nothing EXCEPT !.degraded = {<<"main", "page">>}]
      BY <1>1, <2>2 DEF FailMain, ReadersInv
    <3> QED
      BY <3>1, NothingRead DEF IsGot
  <2>3. CASE FailPage(r)
    <3>1. got'[r] = [got[r] EXCEPT !.degraded = got[r].degraded \union {<<src[r], "page">>}]
      BY <1>1, <2>3 DEF FailPage, ReadersInv
    <3> QED
      BY <2>1, <3>1 DEF IsGot
  <2>4. CASE FailCount(r)
    <3> DEFINE old == got[r]
               gaps == old.degraded \union {<<src[r], "count">>}
               seen == old.total + old.page
               h1 == [old EXCEPT !.degraded = gaps]
               h2 == [h1 EXCEPT !.total = seen]
    <3>1. got'[r] = h2 /\ gaps # {}
      BY <1>1, <2>4 DEF FailCount, ReadersInv
    <3> HIDE DEF gaps, seen
    <3>2. IsGot(h1) /\ h1.degraded = gaps
      BY <2>1 DEF IsGot
    <3> HIDE DEF h1
    <3>3. h2.degraded = gaps
      BY <3>2 DEF IsGot
    <3> QED
      BY <3>1, <3>3
  <2>5. CASE FailFacets(r)
    <3>1. got'[r] = [got[r] EXCEPT !.degraded = got[r].degraded \union {<<src[r], "facets">>}]
      BY <1>1, <2>5 DEF FailFacets, ReadersInv
    <3> QED
      BY <2>1, <3>1 DEF IsGot
  <2> QED
    BY <2>2, <2>3, <2>4, <2>5
<1> QED
  BY <1>1, <1>2, <1>3, GatheringStep

LEMMA HonestList ==
  ASSUME BoardInv, HonestInv, NEW r \in Readers, AnswerList(r)
  PROVE  ReaderHonest(r)' /\ \A e \in pages' : EntryHonest(e)
<1> DEFINE q == question[r]
           t == ghost[r]
           silent == <<"main", "page">> \in got[r].degraded /\ got[r].extra = 0
           none == [NoReply EXCEPT !.degraded = got[r].degraded]
           entry == [key |-> CacheKey(q), at |-> now, reply |-> Listed(r), ghost |-> t]
<1>1. /\ ReadersInv /\ q \in QuestionType /\ TablesInv
      /\ pc[r] = "answer" /\ q.op = "list" /\ question' = question /\ ghost' = ghost
      /\ pc'[r] = "done" /\ reply'[r] = IF silent THEN none ELSE Listed(r)
  BY ReaderFacts DEF AnswerList, ReadersInv
<1>2. pages' = pages \/ (WorthKeeping(r) /\ pages' = Others(pages, CacheKey(q)) \union {entry})
  BY DEF AnswerList
<1>3. ASSUME ~t.moved, got[r].degraded = {}
      PROVE  PageHonest(t, q, Listed(r))
  <2>1. t.rows = board /\ t.pins = pins /\ t.at = q.at /\ ListGathered("answer", src[r], q, got[r], t)
    BY <1>1, <1>3, SoFar
  <2>2. /\ Listed(r).cards = MergePage(got[r].cards, q.limit, q.offset, q.filter.kind = "running")
        /\ Listed(r).total = got[r].total
    BY ListedFields
  <2> HIDE DEF q, t
  <2>3. ASSUME Comparable(t, q.filter)
        PROVE  /\ MergePage(got[r].cards, q.limit, q.offset, q.filter.kind = "running") =
                    MergePage(Cards(t.pins, Reference(t, q.filter, t.at), t.at),
                              q.limit, q.offset, q.filter.kind = "running")
               /\ got[r].total = Cardinality(Reference(t, q.filter, t.at))
    BY <1>1, <2>1, <2>3, AllGathered
  <2> QED
    BY <2>2, <2>3 DEF PageHonest
<1>4. ReaderHonest(r)'
  <2>1. none.degraded = got[r].degraded /\ Listed(r).degraded = got[r].degraded
    BY ListedFields DEF NoReply
  <2>2. reply'[r].degraded = {} => got[r].degraded = {} /\ reply'[r] = Listed(r)
    BY <1>1, <2>1
  <2> HIDE DEF none, silent
  <2> QED
    BY <1>1, <1>3, <2>2 DEF ReaderHonest, AnswerHonest
<1>5. ASSUME WorthKeeping(r)
      PROVE  EntryHonest(entry)
  <2>1. entry.key = CacheKey(q) /\ entry.reply = Listed(r) /\ entry.ghost = t
    OBVIOUS
  <2> HIDE DEF entry
  <2> SUFFICES ASSUME ~t.moved, NEW k \in QuestionType, CacheKey(q) = CacheKey(k)
               PROVE  PageHonest(t, k, Listed(r))
    BY <2>1 DEF EntryHonest
  <2>2. PageHonest(t, q, Listed(r))
    BY <1>3, <1>5 DEF WorthKeeping
  <2>3. q.filter = k.filter /\ q.limit = k.limit /\ q.offset = k.offset
    <3>1. \A a : /\ CacheKey(a)[2] = a.limit /\ CacheKey(a)[3] = a.offset
                 /\ CacheKey(a)[4] = a.filter
      BY DEF CacheKey
    <3> QED
      BY <3>1
  <2> QED
    BY <2>2, <2>3, SameAnswer
<1> HIDE DEF entry
<1>6. \A e \in pages' : EntryHonest(e)
  BY <1>2, <1>5 DEF HonestInv, Others
<1> QED
  BY <1>4, <1>6

LEMMA HonestFacetsRead ==
  ASSUME BoardInv, HonestInv, NEW r \in Readers, ReadFacets(r)
  PROVE  ReaderHonest(r)' /\ pages' = pages
<1> DEFINE q == question[r]
           t == ghost[r]
           s == src[r]
           sum == Merge(got[r].facets, CountFacets(board, s, q.filter, q.at))
           g == [got[r] EXCEPT !.facets = sum]
<1>1. /\ ReadersInv /\ ReaderInv(r) /\ pc[r] = "facets" /\ s \in Stores /\ NextStore(r)
      /\ UNCHANGED <<tables, question, ghost, reply, pages>> /\ got' = [got EXCEPT ![r] = g]
  BY ReaderFacts DEF ReadFacets
<1>2. q.op = "facets" /\ IsGot(got[r])
  BY <1>1 DEF ReaderInv, StageFits
<1>3. g.facets = sum /\ g.degraded = got[r].degraded
  BY <1>2 DEF IsGot
<1> HIDE DEF g
<1>4. /\ got'[r] = g
      /\ src'[r] = (IF s = "main" THEN "webreg" ELSE "tg")
      /\ pc'[r] = (IF s = "tg" THEN "answer" ELSE "facets")
  BY <1>1, <1>2, OneReaderOn
<1>5. ASSUME ~t.moved, g.degraded = {}
      PROVE  FacetsAre(g.facets, t, q.filter, Numbered(pc'[r], src'[r]))
  <2>1. /\ t.rows = board /\ t.at = q.at /\ t.rows \subseteq Rows /\ q.filter \in Filter
        /\ FacetsAre(got[r].facets, t, q.filter, Numbered("facets", s))
    BY <1>1, <1>2, <1>3, <1>5, SoFar DEF QuestionType
  <2>2. /\ s \notin Numbered("facets", s)
        /\ Numbered(pc'[r], src'[r]) = Numbered("facets", s) \union {s}
    BY <1>1, <1>4, StoresNumbered
  <2> DEFINE f == q.filter
  <2> HIDE DEF t, s, f
  <2>3. FacetsAre(Merge(got[r].facets, CountFacets(t.rows, s, f, t.at)), t, f,
                  Numbered("facets", s) \union {s})
    BY <2>1, <2>2, FacetsOfOneMore DEF f
  <2> QED
    BY <1>3, <2>1, <2>2, <2>3 DEF f
<1>6. pc'[r] \notin {"done", "lookup"}
  BY <1>4
<1> QED
  BY <1>1, <1>2, <1>4, <1>5, <1>6, GatheringStep

LEMMA HonestFacetsAnswered ==
  ASSUME BoardInv, HonestInv, NEW r \in Readers, AnswerFacets(r)
  PROVE  ReaderHonest(r)' /\ pages' = pages
<1> DEFINE q == question[r]
           t == ghost[r]
           ok == Cardinality(got[r].degraded) < Cardinality(Stores)
           gaps == got[r].degraded
           sums == got[r].facets
           h1 == [NoReply EXCEPT !.ok = ok]
           h2 == [h1 EXCEPT !.degraded = gaps]
           p == [h2 EXCEPT !.facets = sums]
<1>1. /\ ReadersInv /\ TablesInv /\ pc[r] = "answer" /\ q.op = "facets"
      /\ question' = question /\ ghost' = ghost /\ pages' = pages
      /\ pc'[r] = "done" /\ reply'[r] = p
  BY ReaderFacts DEF AnswerFacets, ReadersInv
<1>2. p.degraded = gaps /\ p.facets = sums
  BY DEF NoReply
<1> HIDE DEF p
<1>3. ASSUME ~t.moved, p.degraded = {}
      PROVE  FacetsHonest(t, q, p)
  <2>1. /\ t.rows = board /\ t.at = q.at /\ t.rows \subseteq Rows
        /\ FacetsAre(sums, t, q.filter, Numbered("answer", src[r]))
    BY <1>1, <1>2, <1>3, SoFar
  <2>2. Numbered("answer", src[r]) = Stores
    BY DEF Numbered, Visited
  <2>3. \A f : Total(t, f, Stores) = ListTotal(t, f, q.at)
    BY <2>1, EveryStore
  <2> DEFINE f == q.filter
             at == q.at
  <2>4. FacetsAre(p.facets, t, f, Stores) /\ \A k : Total(t, k, Stores) = ListTotal(t, k, at)
    BY <1>2, <2>1, <2>2, <2>3
  <2> HIDE DEF f, at
  <2>5. /\ p.facets.total = ListTotal(t, f, at)
        /\ p.facets.free = ListTotal(t, [f EXCEPT !.free = TRUE], at)
        /\ \A code \in WhenCodes : p.facets.when[code] = ListTotal(t, [f EXCEPT !.when = code], at)
        /\ \A code \in KindCodes : p.facets.kind[code] = ListTotal(t, [f EXCEPT !.kind = code], at)
        /\ \A code \in FeedCategories :
             p.facets.categories[code] = ListTotal(t, [f EXCEPT !.category = code], at)
        /\ \A slug \in Cities : p.facets.cities[slug] = ListTotal(t, [f EXCEPT !.city = slug], at)
    BY <2>4 DEF FacetsAre
  <2> QED
    BY <2>5 DEF FacetsHonest, f, at
<1> QED
  BY <1>1, <1>3 DEF ReaderHonest, AnswerHonest

LEMMA SameTables ==
  ASSUME NEW t, NEW u, t.rows = u.rows, t.pins = u.pins, t.at = u.at,
         NEW q, NEW p, AnswerHonest(t, q, p)
  PROVE  AnswerHonest(u, q, p)
<1>1. \A f, a : Reference(t, f, a) = Reference(u, f, a)
  BY DEF Reference
<1>2. \A f : Comparable(u, f) => Comparable(t, f)
  BY <1>1 DEF Comparable, OrdersAgree
<1>3. \A f, a : ListTotal(t, f, a) = ListTotal(u, f, a)
  BY DEF ListTotal
<1>4. PageHonest(t, q, p) => PageHonest(u, q, p)
  BY <1>1, <1>2 DEF PageHonest
<1>5. FacetsHonest(t, q, p) => FacetsHonest(u, q, p)
  <2> DEFINE f == q.filter
             free == [f EXCEPT !.free = TRUE]
             When(code) == [f EXCEPT !.when = code]
             Kind(code) == [f EXCEPT !.kind = code]
             Category(code) == [f EXCEPT !.category = code]
             City(slug) == [f EXCEPT !.city = slug]
             Says(v) ==
               /\ p.facets.total = ListTotal(v, f, q.at)
               /\ p.facets.free = ListTotal(v, free, q.at)
               /\ \A code \in WhenCodes : p.facets.when[code] = ListTotal(v, When(code), q.at)
               /\ \A code \in KindCodes : p.facets.kind[code] = ListTotal(v, Kind(code), q.at)
               /\ \A code \in FeedCategories :
                    p.facets.categories[code] = ListTotal(v, Category(code), q.at)
               /\ \A slug \in Cities : p.facets.cities[slug] = ListTotal(v, City(slug), q.at)
  <2>1. FacetsHonest(t, q, p) <=> Says(t)
    BY DEF FacetsHonest
  <2>2. FacetsHonest(u, q, p) <=> Says(u)
    BY DEF FacetsHonest
  <2> HIDE DEF f, free, When, Kind, Category, City
  <2>3. Says(t) => Says(u)
    BY <1>3
  <2> HIDE DEF Says
  <2> QED
    BY <2>1, <2>2, <2>3
<1> QED
  BY <1>4, <1>5 DEF AnswerHonest

(* A change of the tables spares what is answered, and what is not answered *)
(* yet is marked.                                                           *)
LEMMA HonestEdit ==
  ASSUME BoardInv, HonestInv, Edit
  PROVE  HonestInv'
<1>1. ghost' = Moved /\ UNCHANGED <<pages, pc, src, question, got, reply>>
  BY DEF Edit
<1>2. ASSUME NEW x \in Readers
      PROVE  ReaderHonest(x)'
  <2> DEFINE old == ghost[x]
             moved == old.moved \/ pc[x] # "done"
             new == [old EXCEPT !.moved = moved]
  <2>1. ReaderHonest(x) /\ IsGhost(old) /\ ghost'[x] = new
    BY <1>1 DEF HonestInv, BoardInv, ReaderInv, Moved
  <2>2. ~moved => ~old.moved /\ pc[x] = "done"
    OBVIOUS
  <2> HIDE DEF old, moved
  <2>3. new.moved = moved /\ new.rows = old.rows /\ new.pins = old.pins /\ new.at = old.at
    BY <2>1 DEF IsGhost
  <2> HIDE DEF new
  <2>4. ~new.moved => AnswerHonest(old, question[x], reply[x]) /\ pc[x] = "done"
    BY <2>1, <2>2, <2>3 DEF ReaderHonest, old
  <2>5. ~new.moved => AnswerHonest(new, question[x], reply[x]) /\ pc[x] = "done"
    BY <2>3, <2>4, SameTables
  <2> QED
    BY <1>1, <2>1, <2>5 DEF ReaderHonest
<1>3. \A e \in pages' : EntryHonest(e)'
  BY <1>1 DEF HonestInv, EntryHonest
<1> QED
  BY <1>2, <1>3 DEF HonestInv

LEMMA HonestElsewhere ==
  ASSUME HonestInv, UNCHANGED <<tables, local>>, pages' \subseteq pages
  PROVE  HonestInv'
<1>1. \A x \in Readers : ReaderHonest(x)'
  BY DEF HonestInv, ReaderHonest, Gathered, tables, local
<1>2. \A e \in pages' : EntryHonest(e)'
  BY DEF HonestInv, EntryHonest
<1> QED
  BY <1>1, <1>2 DEF HonestInv

LEMMA HonestFromTheStart ==
  ASSUME Init
  PROVE  HonestInv
<1>1. ASSUME NEW r \in Readers
      PROVE  ReaderHonest(r)
  <2>1. pc[r] = "done" /\ reply[r].ok = FALSE
    BY DEF Init, NoReply
  <2> QED
    BY <2>1 DEF ReaderHonest, AnswerHonest
<1> QED
  BY <1>1 DEF Init, HonestInv

LEMMA HonestInductive == BoardInv /\ HonestInv /\ [Next]_vars => HonestInv'
<1> SUFFICES ASSUME BoardInv, HonestInv, [Next]_vars
             PROVE  HonestInv'
  OBVIOUS
<1>1. ASSUME NEW r \in Readers, Handle(r)
      PROVE  HonestInv'
  <2>1. ReaderHonest(r)' /\ (pages' = pages \/ \A e \in pages' : EntryHonest(e))
    BY <1>1, HonestAsk, HonestFromPages, HonestCards, HonestMiss, HonestPins, HonestPage,
       HonestCount, HonestFailure, HonestList, HonestFacetsRead, HonestFacetsAnswered DEF Handle
  <2>2. \A e \in pages' : EntryHonest(e)
    BY <2>1 DEF HonestInv
  <2> QED
    BY <1>1, <2>1, <2>2, HonestStep
<1>2. ASSUME NEW i \in Ids, RegisterPublic(i) \/ Unfeature(i) \/ \E pos \in Positions : Feature(i, pos)
      PROVE  HonestInv'
  BY <1>2, HonestEdit DEF RegisterPublic, Unfeature, Feature
<1>3. ASSUME NEW i \in Ids, InvalidateEvent(i)
      PROVE  HonestInv'
  BY <1>3, HonestElsewhere DEF InvalidateEvent
<1>4. ASSUME NEW row \in Rows, Publish(row) \/ Withdraw(row)
      PROVE  HonestInv'
  BY <1>4, HonestEdit DEF Publish, Withdraw
<1>5. CASE Tick
  <2>1. UNCHANGED <<tables, local>> /\ pages' \subseteq pages
    BY <1>5 DEF Tick
  <2> QED
    BY <2>1, HonestElsewhere
<1>6. CASE UNCHANGED vars
  <2>1. UNCHANGED <<tables, local>> /\ pages' = pages
    BY <1>6 DEF vars
  <2> QED
    BY <2>1, HonestElsewhere
<1> QED
  BY <1>1, <1>2, <1>3, <1>4, <1>5, <1>6 DEF Next

LEMMA HonestInvariance == Spec => [](BoardInv /\ HonestInv)
<1>1. Init => BoardInv /\ HonestInv
  BY Start, HonestFromTheStart
<1>2. BoardInv /\ HonestInv /\ [Next]_vars => (BoardInv /\ HonestInv)'
  BY Inductive, HonestInductive
<1> QED
  BY <1>1, <1>2, PTL DEF Spec

(* A page without gaps is exactly its part of the whole board and its total *)
(* is the whole, from the stores or from the cache, for every filter and    *)
(* every window, wherever the tables can be compared                        *)
(* (merge.go:31-35, filter.go:213-219).                                     *)
THEOREM PagesAreCutFromTheWhole == Spec => []PagesAreHonest
<1>1. HonestInv => PagesAreHonest
  BY DEF HonestInv, ReaderHonest, AnswerHonest, PageHonest, PagesAreHonest, Whole, Fits
<1> QED
  BY <1>1, HonestInvariance, PTL

(* Every number of the facets is the number of events that opening it lists *)
(* (handler.go:252-256).                                                    *)
THEOREM CountersCountTheList == Spec => []FacetsKeepTheirWord
<1>1. HonestInv => FacetsKeepTheirWord
  BY DEF HonestInv, ReaderHonest, AnswerHonest, FacetsHonest, FacetsKeepTheirWord, Whole
<1> QED
  BY <1>1, HonestInvariance, PTL
=============================================================================
