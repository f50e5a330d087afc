--------------------------- MODULE SeriesRing_proofs ---------------------------
(***************************************************************************)
(* Proofs about SeriesRing, for every length of the ring and of the late   *)
(* window, all sample values and every order samples arrive in.            *)
(***************************************************************************)
EXTENDS SeriesRing, TLAPS

-------------------------------------------------------------------------------
(* Remainders: the slots of buckets.                                       *)

LEMMA Division ==
  ASSUME NEW n \in Nat \ {0}, NEW x \in Int
  PROVE  /\ x % n \in 0 .. n - 1 /\ x \div n \in Int
         /\ x = n * (x \div n) + (x % n)
OBVIOUS

\* Buckets less than n apart have different slots in a ring of n.
LEMMA SlotsDiffer ==
  ASSUME NEW n \in Nat \ {0}, NEW x \in Int, NEW y \in Int, x < y, y < x + n
  PROVE  x % n # y % n
<1> SUFFICES ASSUME x % n = y % n PROVE FALSE
  OBVIOUS
<1> DEFINE p == x \div n
           q == y \div n
<1>1. /\ p \in Int /\ q \in Int /\ x % n \in Int
      /\ x = n * p + (x % n) /\ y = n * q + (x % n)
  BY Division
<1> HIDE DEF p, q
<1>2. y - x = n * (q - p)
  BY <1>1
<1>3. CASE q - p >= 1
  <2>1. n * (q - p) >= n
    BY <1>1, <1>3
  <2> QED
    BY <1>1, <1>2, <2>1
<1>4. CASE q - p <= 0
  <2>1. n * (q - p) <= 0
    BY <1>1, <1>4
  <2> QED
    BY <1>1, <1>2, <2>1
<1> QED
  BY <1>1, <1>3, <1>4

\* n buckets in a row have all the slots of a ring of n.
LEMMA SlotsCovered ==
  ASSUME NEW n \in Nat \ {0}, NEW r \in 0 .. n - 1, NEW a \in Int
  PROVE  \E x \in a .. a + n - 1 : x % n = r
<1> DEFINE k == (r - a) % n
           q == (r - a) \div n
           x == a + k
<1>1. k \in 0 .. n - 1 /\ q \in Int /\ r - a = n * q + k
  <2>1. r - a \in Int
    OBVIOUS
  <2> QED
    BY <2>1, Division
<1> HIDE DEF k, q
<1>2. x \in a .. a + n - 1 /\ x \in Int /\ x = r - n * q
  BY <1>1
<1> HIDE DEF x
<1>3. x % n = r
  <2> DEFINE p == x \div n
             s == x % n
  <2>1. p \in Int /\ s \in 0 .. n - 1 /\ x = n * p + s
    BY <1>2, Division
  <2> HIDE DEF p, s
  <2>2. r - s = n * (p + q)
    BY <1>1, <1>2, <2>1
  <2>3. p + q = 0
    <3>1. CASE p + q >= 1
      <4>1. n * (p + q) >= n
        BY <1>1, <2>1, <3>1
      <4> QED
        BY <2>1, <2>2, <4>1
    <3>2. CASE p + q <= -1
      <4>1. n * (p + q) <= -n
        BY <1>1, <2>1, <3>2
      <4> QED
        BY <2>1, <2>2, <4>1
    <3> QED
      BY <1>1, <2>1, <3>1, <3>2
  <2>4. r = s
    BY <2>1, <2>2, <2>3
  <2> QED
    BY <2>4 DEF s
<1> QED
  BY <1>2, <1>3

LEMMA Sizes ==
  /\ Capacity \in Nat \ {0} /\ LateWin \in Nat \ {0} /\ LateWin < Capacity
  /\ \A v \in Values : v \in Int
  /\ MaxB \in Nat /\ Buckets \subseteq Nat
  /\ NoHead \in Int /\ NoHead \notin Buckets /\ NoHead < -Capacity
BY RingAssumption DEF Buckets, NoHead

LEMMA Slots ==
  \A x \in Int : x % Capacity \in 0 .. Capacity - 1 /\ x % LateWin \in 0 .. LateWin - 1
BY Sizes, Division

-------------------------------------------------------------------------------
(* Types.                                                                  *)

LEMMA FractionTypes ==
  /\ NaN \in Fractions /\ NaN.of = 0
  /\ \A s \in Int, n \in Nat : /\ Fraction(s, n) \in Fractions
                               /\ Fraction(s, n).sum = s /\ Fraction(s, n).of = n
  /\ Gap \in Fractions /\ Gap.of \in {0, 1}
BY DEF NaN, Fraction, Fractions, Gap

LEMMA WeightedTypes ==
  ASSUME NEW old \in Fractions, NEW k \in Nat, NEW v \in Int
  PROVE  Weighted(old, k, v) \in Fractions
<1>1. old.sum \in Int /\ old.of \in Nat
  BY DEF Fractions
<1>2. old.sum + v \in Int /\ k + 1 \in Nat
  BY <1>1
<1>3. old.sum * k + v * old.of \in Int /\ old.of * (k + 1) \in Nat
  BY <1>1
<1> QED
  BY <1>2, <1>3, FractionTypes DEF Weighted

LEMMA GivenTypes ==
  ASSUME TypeOK, NEW b \in Buckets, NEW v \in Values, Given(b, v)
  PROVE  /\ total' \in [Buckets -> Int] /\ number' \in [Buckets -> Nat]
         /\ \A c \in Buckets : /\ number'[c] = IF c = b THEN number[c] + 1 ELSE number[c]
                               /\ total'[c] = IF c = b THEN total[c] + v ELSE total[c]
<1>1. v \in Int /\ total \in [Buckets -> Int] /\ number \in [Buckets -> Nat]
  BY Sizes DEF TypeOK
<1>2. /\ total' = [total EXCEPT ![b] = @ + v]
      /\ number' = [number EXCEPT ![b] = @ + 1]
  BY DEF Given
<1>3. total[b] + v \in Int /\ number[b] + 1 \in Nat
  BY <1>1
<1> QED
  BY <1>1, <1>2, <1>3

LEMMA CloseTypes ==
  ASSUME TypeOK, NEW b \in Buckets, Close(b)
  PROVE  /\ vals' \in [0 .. Capacity - 1 -> Fractions]
         /\ late' \in [0 .. LateWin - 1 -> Nat] /\ head' \in Int
<1>1. Final \in Fractions
  BY FractionTypes DEF TypeOK, Final
<1>2. head' \in Int
  BY Sizes DEF Close
<1>3. vals' \in [0 .. Capacity - 1 -> Fractions]
  BY <1>1, FractionTypes DEF TypeOK, Close
<1>4. late' \in [0 .. LateWin - 1 -> Nat]
  BY DEF TypeOK, Close, LateAfter
<1> QED
  BY <1>2, <1>3, <1>4

LEMMA InitType == Init => TypeOK
<1> SUFFICES ASSUME Init PROVE TypeOK
  OBVIOUS
<1> QED
  BY FractionTypes, Sizes DEF Init, TypeOK

LEMMA NextType == TypeOK /\ [Next]_vars => TypeOK'
<1> SUFFICES ASSUME TypeOK, [Next]_vars PROVE TypeOK'
  OBVIOUS
<1>1. ASSUME NEW b \in Buckets, Advance(b) PROVE TypeOK'
  <2>1. /\ vals' \in [0 .. Capacity - 1 -> Fractions]
        /\ late' \in [0 .. LateWin - 1 -> Nat] /\ head' \in Int
    BY <1>1, CloseTypes DEF Advance
  <2> QED
    BY <1>1, <2>1 DEF Advance, TypeOK
<1>2. ASSUME NEW b \in Buckets, NEW v \in Values, Add(b, v) PROVE TypeOK'
  <2>1. v \in Int /\ b \in Int /\ head \in Int
    BY Sizes DEF TypeOK
  <2>2. b % Capacity \in 0 .. Capacity - 1 /\ b % LateWin \in 0 .. LateWin - 1
    BY <2>1, Slots
  <2>3. \A x \in Fractions : SetSlot(b, x) => vals' \in [0 .. Capacity - 1 -> Fractions]
    BY <2>2 DEF TypeOK, SetSlot
  <2>4. \A n \in Nat : SetLate(b, n) => late' \in [0 .. LateWin - 1 -> Nat]
    BY <2>2 DEF TypeOK, SetLate
  <2>5. vals[b % Capacity] \in Fractions /\ vals[b % Capacity].sum \in Int
    BY <2>2 DEF TypeOK, Fractions
  <2>6. Given(b, v) => total' \in [Buckets -> Int] /\ number' \in [Buckets -> Nat]
    BY GivenTypes
  <2>7. CASE AddFirst(b, v) \/ AddOpen(b, v)
    BY <2>1, <2>6, <2>7, SMTT(40) DEF AddFirst, AddOpen, TypeOK
  <2>8. CASE AddNewer(b, v)
    <3>1. /\ vals' \in [0 .. Capacity - 1 -> Fractions]
          /\ late' \in [0 .. LateWin - 1 -> Nat] /\ head' \in Int
      BY <2>8, CloseTypes DEF AddNewer
    <3> QED
      BY <2>1, <2>6, <2>8, <3>1 DEF AddNewer, TypeOK
  <2>9. CASE AddToGap(b, v)
    <3>1. vals' \in [0 .. Capacity - 1 -> Fractions]
      BY <2>1, <2>3, <2>9, FractionTypes DEF AddToGap
    <3>2. late' \in [0 .. LateWin - 1 -> Nat]
      BY <2>4, <2>9 DEF AddToGap, TypeOK
    <3> QED
      BY <2>6, <2>9, <3>1, <3>2 DEF AddToGap, TypeOK
  <2>10. CASE AddToSum(b, v)
    <3>1. vals' \in [0 .. Capacity - 1 -> Fractions]
      BY <2>1, <2>3, <2>5, <2>10, FractionTypes DEF AddToSum
    <3> QED
      BY <2>6, <2>10, <3>1 DEF AddToSum, TypeOK
  <2>11. CASE AddToMean(b, v)
    <3>1. Count(b) \in Nat
      BY <2>2 DEF Count, TypeOK
    <3>2. vals' \in [0 .. Capacity - 1 -> Fractions]
      BY <2>1, <2>3, <2>5, <2>11, <3>1, WeightedTypes DEF AddToMean
    <3>3. late' \in [0 .. LateWin - 1 -> Nat]
      BY <2>4, <2>11, <3>1 DEF AddToMean
    <3> QED
      BY <2>6, <2>11, <3>2, <3>3 DEF AddToMean, TypeOK
  <2>12. CASE AddTooLate(b)
    BY <2>12 DEF AddTooLate, TypeOK, vars
  <2> QED
    BY <1>2, <2>7, <2>8, <2>9, <2>10, <2>11, <2>12 DEF Add
<1>3. CASE UNCHANGED vars
  BY <1>3 DEF TypeOK, vars
<1> QED
  BY <1>1, <1>2, <1>3 DEF Next

-------------------------------------------------------------------------------
(* The inductive invariant.                                                *)

\* Before the first sample the ring is empty.
Unopened ==
  head = NoHead => /\ first = NoHead /\ \A i \in 0 .. Capacity - 1 : vals[i] = NaN
                   /\ \A i \in 0 .. LateWin - 1 : late[i] = 0
                   /\ \A b \in Buckets : number[b] = 0

\* The open bucket is the newest that took samples, and holds all of its own.
OpenBucket ==
  head # NoHead =>
    /\ head \in Buckets /\ first \in Buckets /\ first <= head /\ number[first] > 0
    /\ acc = total[head] /\ cnt = number[head]
    /\ \A b \in Buckets : b > head => number[b] = 0

\* A bucket without samples has no sum, and a sum is not divided.
Sums == /\ \A b \in Buckets : number[b] = 0 => total[b] = 0
        /\ agg = "Sum" => \A i \in 0 .. Capacity - 1 : vals[i].of \in {0, 1}

IInv == TypeOK /\ Unopened /\ OpenBucket /\ Sums /\ ValueIsExact /\ CountsKept

\* What ValueIsExact says of a bucket with the value x.
Exact(x, b) ==
  IF number[b] = 0
  THEN x = IF first # NoHead /\ b > first THEN Gap ELSE NaN
  ELSE /\ x.of > 0
       /\ x.sum * (IF agg = "Sum" THEN 1 ELSE number[b]) = total[b] * x.of

LEMMA ExactValues ==
  /\ ValueIsExact <=> \A b \in Buckets : InRing(b) => Exact(vals[b % Capacity], b)
  /\ ValueIsExact' <=> \A b \in Buckets : InRing(b)' => Exact(vals[b % Capacity], b)'
BY DEF ValueIsExact, Exact, At

LEMMA StateTypes ==
  ASSUME TypeOK
  PROVE  /\ agg \in {"Mean", "Sum"} /\ vals \in [0 .. Capacity - 1 -> Fractions]
         /\ head \in Int /\ first \in Int /\ acc \in Int /\ cnt \in Nat
         /\ late \in [0 .. LateWin - 1 -> Nat]
         /\ \A b \in Buckets : total[b] \in Int /\ number[b] \in Nat /\ b \in Int
         /\ \A i \in 0 .. Capacity - 1 : /\ vals[i] \in Fractions
                                         /\ vals[i].sum \in Int /\ vals[i].of \in Nat
BY Sizes DEF TypeOK, Fractions

LEMMA InitInv == Init => IInv
<1> SUFFICES ASSUME Init PROVE IInv
  OBVIOUS
<1>1. TypeOK
  BY InitType
<1>2. Unopened /\ OpenBucket
  BY DEF Init, Unopened, OpenBucket
<1>3. Sums
  BY FractionTypes DEF Init, Sums
<1>4. ValueIsExact /\ CountsKept
  BY DEF Init, ValueIsExact, CountsKept, InRing
<1> QED
  BY <1>1, <1>2, <1>3, <1>4 DEF IInv

\* The value of the open bucket is right when it closes.
LEMMA FinalExact ==
  ASSUME IInv, head # NoHead
  PROVE  Exact(Final, head) /\ (agg = "Sum" => Final.of = 1)
<1>1. /\ TypeOK /\ head \in Buckets /\ first \in Buckets /\ first <= head
      /\ number[first] > 0 /\ acc = total[head] /\ cnt = number[head]
      /\ number[head] = 0 => total[head] = 0
  BY DEF IInv, OpenBucket, Sums
<1>2. /\ agg \in {"Mean", "Sum"} /\ acc \in Int /\ cnt \in Nat
      /\ head \in Int /\ first \in Int /\ first # NoHead
  BY <1>1, StateTypes, Sizes
<1>3. CASE agg = "Sum"
  <2>1. Final = Fraction(acc, 1) /\ Final.sum = acc /\ Final.of = 1
    BY <1>2, <1>3, FractionTypes DEF Final
  <2>2. CASE number[head] = 0
    <3>1. head > first
      BY <1>1, <1>2, <2>2
    <3> QED
      BY <1>1, <1>2, <1>3, <2>1, <2>2, <3>1 DEF Exact, Gap
  <2>3. CASE number[head] # 0
    BY <1>1, <1>2, <1>3, <2>1, <2>3 DEF Exact
  <2> QED
    BY <2>1, <2>2, <2>3
<1>4. CASE agg = "Mean"
  <2>1. Final = Fraction(acc, cnt) /\ Final.sum = acc /\ Final.of = cnt
    BY <1>2, <1>4, FractionTypes DEF Final
  <2>2. CASE number[head] = 0
    <3>1. head > first
      BY <1>1, <1>2, <2>2
    <3> QED
      BY <1>1, <1>2, <1>4, <2>1, <2>2, <3>1 DEF Exact, Gap, NaN, Fraction
  <2>3. CASE number[head] # 0
    BY <1>1, <1>2, <1>4, <2>1, <2>3 DEF Exact
  <2> QED
    BY <1>4, <2>2, <2>3
<1> QED
  BY <1>2, <1>3, <1>4

\* Closing buckets up to b - 1 leaves each bucket that is in the ring then with
\* its own value and count.
LEMMA ClosedRing ==
  ASSUME IInv, NEW b \in Buckets, Moves(b), Close(b),
         NEW c \in Buckets, c < b, c > b - Capacity
  PROVE  vals'[c % Capacity] = IF c > head THEN Gap
                               ELSE IF c = head THEN Final ELSE vals[c % Capacity]
<1>1. /\ TypeOK /\ head # NoHead /\ head \in Buckets /\ b > head
      /\ head \in Int /\ b \in Int /\ c \in Int
  <2>1. TypeOK /\ head # NoHead /\ b > head /\ OpenBucket
    BY DEF IInv, Moves
  <2>2. head \in Buckets
    BY <2>1 DEF OpenBucket
  <2> QED
    BY <2>1, <2>2, Sizes
<1>2. c % Capacity \in 0 .. Capacity - 1
  BY <1>1, Slots
<1>3. vals'[c % Capacity] = IF c % Capacity \in GapSlots(b) THEN Gap
                            ELSE IF c % Capacity = head % Capacity THEN Final
                            ELSE vals[c % Capacity]
  BY <1>2 DEF Close
<1>4. CASE c > head
  <2>1. c % Capacity \in GapSlots(b)
    <3>1. CASE c <= head + Capacity
      BY <1>1, <1>4, <3>1, Sizes DEF GapSlots
    <3>2. CASE c > head + Capacity
      <4>1. PICK x \in head + 1 .. head + 1 + Capacity - 1 : x % Capacity = c % Capacity
        <5>1. head + 1 \in Int
          BY <1>1
        <5> QED
          BY <1>2, <5>1, Sizes, SlotsCovered
      <4>2. x \in head + 1 .. b - 1 /\ x <= head + Capacity
        BY <1>1, <3>2, Sizes
      <4> QED
        BY <4>1, <4>2 DEF GapSlots
    <3> QED
      BY <1>1, <3>1, <3>2, Sizes
  <2> QED
    BY <1>3, <1>4, <2>1
<1>5. CASE c <= head
  <2>1. c % Capacity \notin GapSlots(b)
    <3> SUFFICES ASSUME NEW y \in head + 1 .. b - 1 PROVE y % Capacity # c % Capacity
      BY DEF GapSlots
    <3>1. y \in Int /\ c < y /\ y < c + Capacity
      BY <1>1, <1>5, Sizes
    <3> QED
      BY <1>1, <3>1, Sizes, SlotsDiffer
  <2>2. c < head => c % Capacity # head % Capacity
    <3>1. head < c + Capacity
      BY <1>1, Sizes
    <3> QED
      BY <1>1, <3>1, Sizes, SlotsDiffer
  <2> QED
    BY <1>1, <1>3, <1>5, <2>1, <2>2
<1> QED
  BY <1>1, <1>4, <1>5

LEMMA ClosedCounts ==
  ASSUME IInv, NEW b \in Buckets, Moves(b), Close(b),
         NEW c \in Buckets, c < b, c >= b - LateWin
  PROVE  late'[c % LateWin] = IF c > head THEN 0
                              ELSE IF c = head THEN cnt ELSE late[c % LateWin]
<1>1. /\ TypeOK /\ head # NoHead /\ head \in Buckets /\ b > head
      /\ head \in Int /\ b \in Int /\ c \in Int
  <2>1. TypeOK /\ head # NoHead /\ b > head /\ OpenBucket
    BY DEF IInv, Moves
  <2>2. head \in Buckets
    BY <2>1 DEF OpenBucket
  <2> QED
    BY <2>1, <2>2, Sizes
<1>2. c % LateWin \in 0 .. LateWin - 1
  BY <1>1, Slots
<1> DEFINE skipped == \E x \in head + 1 .. b - 1 :
                        x >= b - LateWin /\ x % LateWin = c % LateWin
<1>3. late'[c % LateWin] = IF skipped THEN 0
                           ELSE IF c % LateWin = head % LateWin THEN cnt
                           ELSE late[c % LateWin]
  BY <1>2 DEF Close, LateAfter
<1>4. c > head => skipped
  BY <1>1
<1>5. CASE c <= head
  <2>1. ~skipped
    <3> SUFFICES ASSUME NEW x \in head + 1 .. b - 1 PROVE x % LateWin # c % LateWin
      OBVIOUS
    <3>1. x \in Int /\ c < x /\ x < c + LateWin
      BY <1>1, <1>5, Sizes
    <3> QED
      BY <1>1, <3>1, Sizes, SlotsDiffer
  <2>2. c < head => c % LateWin # head % LateWin
    <3>1. head < c + LateWin
      BY <1>1, Sizes
    <3> QED
      BY <1>1, <3>1, Sizes, SlotsDiffer
  <2> HIDE DEF skipped
  <2> QED
    BY <1>1, <1>3, <1>5, <2>1, <2>2
<1> HIDE DEF skipped
<1> QED
  BY <1>1, <1>3, <1>4, <1>5

\* A step that closes buckets, and adds at most to the new open one.
LEMMA CloseInv ==
  ASSUME IInv, NEW b \in Buckets, Moves(b), Close(b), TypeOK', UNCHANGED <<agg, first>>,
         \A c \in Buckets : c < b => number'[c] = number[c] /\ total'[c] = total[c]
  PROVE  /\ ValueIsExact' /\ CountsKept'
         /\ agg' = "Sum" => \A i \in 0 .. Capacity - 1 : vals'[i].of \in {0, 1}
<1>1. /\ TypeOK /\ head # NoHead /\ head' = b /\ b > head /\ head \in Int /\ b \in Int
      /\ OpenBucket /\ Sums /\ ValueIsExact /\ CountsKept /\ first \in Int
      /\ \A c \in Buckets : c \in Int
  BY Sizes, StateTypes DEF IInv, Moves, Close
<1>2. /\ head \in Buckets /\ first \in Buckets /\ first # NoHead /\ first <= head
      /\ cnt = number[head] /\ \A c \in Buckets : c > head => number[c] = 0
  BY <1>1, Sizes DEF OpenBucket
<1>3. Exact(Final, head) /\ (agg = "Sum" => Final.of = 1)
  BY <1>1, FinalExact
<1>4. ASSUME NEW c \in Buckets, InRing(c)'
      PROVE  Exact(vals[c % Capacity], c)'
  <2>1. c < b /\ c > b - Capacity /\ c \in Int
    BY <1>1, <1>4 DEF InRing
  <2>2. vals'[c % Capacity] = IF c > head THEN Gap
                              ELSE IF c = head THEN Final ELSE vals[c % Capacity]
    BY <1>1, <2>1, ClosedRing
  <2>3. \A x : Exact(x, c) => (IF number'[c] = 0
                               THEN x = IF first' # NoHead /\ c > first' THEN Gap' ELSE NaN
                               ELSE /\ x.of > 0
                                    /\ x.sum * (IF agg' = "Sum" THEN 1 ELSE number'[c])
                                         = total'[c] * x.of)
    BY <2>1 DEF Exact, Gap
  <2>4. Exact(vals'[c % Capacity], c)
    <3>1. CASE c > head
      <4>1. number[c] = 0 /\ c > first
        BY <1>1, <1>2, <2>1, <3>1
      <4>2. vals'[c % Capacity] = Gap
        BY <2>2, <3>1
      <4>3. \A y : y = Gap => Exact(y, c)
        BY <1>2, <4>1 DEF Exact
      <4> QED
        BY <4>2, <4>3
    <3>2. CASE c = head
      BY <1>1, <1>3, <2>2, <3>2
    <3>3. CASE c < head
      <4>1. InRing(c)
        BY <1>1, <2>1, <3>3, Sizes DEF InRing
      <4>2. Exact(vals[c % Capacity], c)
        BY <1>1, <4>1, ExactValues
      <4>3. vals'[c % Capacity] = vals[c % Capacity]
        BY <1>1, <2>1, <2>2, <3>3
      <4> QED
        BY <4>2, <4>3
    <3> QED
      BY <1>1, <2>1, <3>1, <3>2, <3>3
  <2> QED
    BY <2>3, <2>4 DEF Exact
<1>5. ValueIsExact'
  BY <1>4, ExactValues
<1>6. CountsKept'
  <2> SUFFICES ASSUME agg = "Mean", NEW c \in Buckets, InRing(c)', Recent(c)'
               PROVE  late'[c % LateWin] = number'[c]
    BY DEF CountsKept
  <2>1. c < b /\ c >= b - LateWin /\ c > b - Capacity /\ c \in Int
    BY <1>1 DEF InRing, Recent
  <2>2. late'[c % LateWin] = IF c > head THEN 0
                             ELSE IF c = head THEN cnt ELSE late[c % LateWin]
    BY <1>1, <2>1, ClosedCounts
  <2>3. c < head => InRing(c) /\ Recent(c)
    BY <1>1, <2>1, Sizes DEF InRing, Recent
  <2>4. number'[c] = number[c]
    BY <2>1
  <2> QED
    BY <1>1, <1>2, <2>1, <2>2, <2>3, <2>4 DEF CountsKept
<1>7. ASSUME agg' = "Sum", NEW i \in 0 .. Capacity - 1 PROVE vals'[i].of \in {0, 1}
  <2>1. Gap.of \in {0, 1} /\ Final.of \in {0, 1} /\ vals[i].of \in {0, 1}
    BY <1>1, <1>3, <1>7, FractionTypes DEF Sums
  <2> QED
    BY <2>1 DEF Close
<1> QED
  BY <1>5, <1>6, <1>7

LEMMA AdvanceInv ==
  ASSUME IInv, NEW b \in Buckets, Advance(b)
  PROVE  IInv'
<1>1. /\ TypeOK /\ TypeOK' /\ Moves(b) /\ Close(b) /\ head' = b /\ b > head /\ head # NoHead
      /\ acc' = 0 /\ cnt' = 0 /\ agg' = agg /\ first' = first
      /\ total' = total /\ number' = number /\ OpenBucket /\ Sums
  BY NextType DEF IInv, Next, Advance, Moves, Close
<1>2. /\ head \in Buckets /\ first \in Buckets /\ first <= head /\ number[first] > 0
      /\ \A c \in Buckets : c > head => number[c] = 0
  BY <1>1 DEF OpenBucket
<1>3. head \in Int /\ b \in Int /\ first \in Int /\ b # NoHead /\ \A c \in Buckets : c \in Int
  BY <1>2, Sizes
<1>4. /\ ValueIsExact' /\ CountsKept'
      /\ agg' = "Sum" => \A i \in 0 .. Capacity - 1 : vals'[i].of \in {0, 1}
  BY <1>1, CloseInv
<1>5. Unopened' /\ Sums'
  BY <1>1, <1>3, <1>4 DEF Unopened, Sums
<1>6. number[b] = 0 /\ total[b] = 0
  BY <1>1, <1>2, <1>3 DEF Sums
<1>7. OpenBucket'
  BY <1>1, <1>2, <1>3, <1>6 DEF OpenBucket
<1> QED
  BY <1>1, <1>4, <1>5, <1>7 DEF IInv

LEMMA AddFirstInv ==
  ASSUME IInv, NEW b \in Buckets, NEW v \in Values, AddFirst(b, v)
  PROVE  IInv'
<1>1. /\ TypeOK /\ TypeOK' /\ head = NoHead /\ head' = b /\ acc' = v /\ cnt' = 1
      /\ first' = b /\ agg' = agg /\ vals' = vals /\ late' = late /\ Given(b, v)
      /\ Unopened /\ Sums
  <2>1. TypeOK /\ TypeOK' /\ Unopened /\ Sums
    BY NextType DEF IInv, Next, Add
  <2> QED
    BY <2>1 DEF AddFirst
<1>2. /\ \A i \in 0 .. Capacity - 1 : vals[i] = NaN
      /\ \A c \in Buckets : number[c] = 0 /\ total[c] = 0
  BY <1>1 DEF Unopened, Sums
<1>3. \A c \in Buckets : /\ number'[c] = IF c = b THEN 1 ELSE 0
                         /\ total'[c] = IF c = b THEN v ELSE 0
  BY <1>1, <1>2, GivenTypes, Sizes
<1>4. b \in Int /\ b # NoHead /\ v \in Int /\ \A c \in Buckets : c \in Int
  BY Sizes
<1>5. Unopened' /\ Sums' /\ OpenBucket'
  BY <1>1, <1>3, <1>4 DEF Unopened, Sums, OpenBucket
<1>6. ValueIsExact'
  <2> SUFFICES ASSUME NEW c \in Buckets, InRing(c)' PROVE Exact(vals[c % Capacity], c)'
    BY ExactValues
  <2>1. c < b /\ c \in Int /\ number'[c] = 0 /\ ~(c > first')
    BY <1>1, <1>3, <1>4 DEF InRing
  <2>2. vals'[c % Capacity] = NaN
    BY <1>1, <1>2, <2>1, Slots
  <2> QED
    BY <2>1, <2>2 DEF Exact
<1>7. CountsKept'
  <2> SUFFICES ASSUME NEW c \in Buckets, InRing(c)' PROVE late[c % LateWin] = number'[c]
    BY <1>1 DEF CountsKept
  <2>1. c < b /\ number'[c] = 0 /\ c % LateWin \in 0 .. LateWin - 1
    BY <1>1, <1>3, <1>4, Slots DEF InRing
  <2> QED
    BY <1>1, <2>1 DEF IInv, Unopened
<1> QED
  BY <1>1, <1>5, <1>6, <1>7 DEF IInv

LEMMA AddOpenInv ==
  ASSUME IInv, NEW b \in Buckets, NEW v \in Values, AddOpen(b, v)
  PROVE  IInv'
<1>1. /\ TypeOK /\ TypeOK' /\ head # NoHead /\ b = head /\ acc' = acc + v /\ cnt' = cnt + 1
      /\ first' = first /\ agg' = agg /\ vals' = vals /\ late' = late /\ head' = head
      /\ Given(b, v) /\ OpenBucket /\ Sums /\ ValueIsExact /\ CountsKept
  <2>1. TypeOK /\ TypeOK' /\ OpenBucket /\ Sums /\ ValueIsExact /\ CountsKept
    BY NextType DEF IInv, Next, Add
  <2> QED
    BY <2>1 DEF AddOpen
<1>2. \A c \in Buckets : /\ number'[c] = IF c = b THEN number[c] + 1 ELSE number[c]
                         /\ total'[c] = IF c = b THEN total[c] + v ELSE total[c]
                         /\ number[c] \in Nat /\ total[c] \in Int /\ c \in Int
  BY <1>1, GivenTypes, StateTypes
<1>3. Unopened' /\ Sums'
  BY <1>1, <1>2 DEF Unopened, Sums
<1>4. OpenBucket'
  <2>1. /\ head \in Buckets /\ first \in Buckets /\ first <= head /\ number[first] > 0
        /\ acc = total[head] /\ cnt = number[head]
        /\ \A c \in Buckets : c > head => number[c] = 0
    BY <1>1 DEF OpenBucket
  <2> QED
    BY <1>1, <1>2, <2>1 DEF OpenBucket
<1>5. \A c \in Buckets : InRing(c)' => InRing(c) /\ number'[c] = number[c]
                                       /\ total'[c] = total[c]
  BY <1>1, <1>2 DEF InRing
<1>6. ValueIsExact'
  BY <1>1, <1>5 DEF ValueIsExact, At, Gap
<1>7. CountsKept'
  BY <1>1, <1>5 DEF CountsKept, Recent
<1> QED
  BY <1>1, <1>3, <1>4, <1>6, <1>7 DEF IInv

LEMMA AddNewerInv ==
  ASSUME IInv, NEW b \in Buckets, NEW v \in Values, AddNewer(b, v)
  PROVE  IInv'
<1>1. /\ TypeOK /\ TypeOK' /\ OpenBucket /\ Sums
      /\ Moves(b) /\ Close(b) /\ head' = b /\ b > head /\ head # NoHead
      /\ acc' = v /\ cnt' = 1 /\ agg' = agg /\ first' = first /\ Given(b, v)
  <2>1. TypeOK /\ TypeOK' /\ OpenBucket /\ Sums
    BY NextType DEF IInv, Next, Add
  <2> QED
    BY <2>1 DEF AddNewer, Moves, Close
<1>2. /\ head \in Buckets /\ first \in Buckets /\ first <= head /\ number[first] > 0
      /\ \A c \in Buckets : c > head => number[c] = 0
  BY <1>1 DEF OpenBucket
<1>3. \A c \in Buckets : /\ number'[c] = IF c = b THEN number[c] + 1 ELSE number[c]
                         /\ total'[c] = IF c = b THEN total[c] + v ELSE total[c]
                         /\ number[c] \in Nat /\ total[c] \in Int /\ c \in Int
  BY <1>1, GivenTypes, StateTypes
<1>4. head \in Int /\ b \in Int /\ first \in Int /\ b # NoHead /\ v \in Int
  BY <1>2, Sizes
<1>5. /\ ValueIsExact' /\ CountsKept'
      /\ agg' = "Sum" => \A i \in 0 .. Capacity - 1 : vals'[i].of \in {0, 1}
  <2>1. \A c \in Buckets : c < b => number'[c] = number[c] /\ total'[c] = total[c]
    BY <1>3, <1>4
  <2> QED
    BY <1>1, <2>1, CloseInv
<1>6. Unopened' /\ Sums'
  BY <1>1, <1>3, <1>4, <1>5 DEF Unopened, Sums
<1>7. number[b] = 0 /\ total[b] = 0
  BY <1>1, <1>2, <1>4 DEF Sums
<1>8. OpenBucket'
  BY <1>1, <1>2, <1>3, <1>4, <1>7 DEF OpenBucket
<1> QED
  BY <1>1, <1>5, <1>6, <1>8 DEF IInv
-------------------------------------------------------------------------------
(* Late samples.                                                           *)

\* A closed bucket takes a sample: its slot gets the value x, exact with the
\* sample, and if its count is still kept it is set to the new one.
LEMMA LateInv ==
  ASSUME IInv, TypeOK', NEW b \in Buckets, NEW v \in Values, NEW x \in Fractions,
         InRing(b), SetSlot(b, x), Given(b, v), Exact(x, b)',
         UNCHANGED <<agg, first, head, acc, cnt>>,
         agg = "Sum" => x.of \in {0, 1},
         agg = "Mean" => IF Recent(b) THEN SetLate(b, number[b] + 1) ELSE UNCHANGED late
  PROVE  IInv'
<1>1. /\ TypeOK /\ OpenBucket /\ Sums /\ ValueIsExact /\ CountsKept
      /\ agg' = agg /\ first' = first /\ head' = head /\ acc' = acc /\ cnt' = cnt
      /\ head # NoHead /\ b < head /\ b > head - Capacity /\ head \in Int
      /\ vals \in [0 .. Capacity - 1 -> Fractions]
      /\ late \in [0 .. LateWin - 1 -> Nat]
  BY StateTypes DEF IInv, InRing
<1>2. \A c \in Buckets : /\ number'[c] = IF c = b THEN number[c] + 1 ELSE number[c]
                         /\ total'[c] = IF c = b THEN total[c] + v ELSE total[c]
                         /\ number[c] \in Nat /\ total[c] \in Int /\ c \in Int
  BY <1>1, GivenTypes, StateTypes
<1>3. \A c \in Buckets : /\ c % Capacity \in 0 .. Capacity - 1
                         /\ c % LateWin \in 0 .. LateWin - 1
  BY <1>2, Slots
<1>4. Unopened'
  BY <1>1 DEF Unopened
<1>5. OpenBucket'
  <2>1. /\ head \in Buckets /\ first \in Buckets /\ first <= head /\ number[first] > 0
        /\ acc = total[head] /\ cnt = number[head]
        /\ \A c \in Buckets : c > head => number[c] = 0
    BY <1>1 DEF OpenBucket
  <2> QED
    BY <1>1, <1>2, <2>1 DEF OpenBucket
<1>6. Sums'
  <2>1. \A c \in Buckets : number'[c] = 0 => total'[c] = 0
    BY <1>1, <1>2 DEF Sums
  <2>2. \A i \in 0 .. Capacity - 1 : vals'[i] = IF i = b % Capacity THEN x ELSE vals[i]
    BY <1>1, <1>3 DEF SetSlot
  <2> QED
    BY <1>1, <2>1, <2>2 DEF Sums
<1>7. \A c \in Buckets : (InRing(c)' <=> InRing(c)) /\ (Recent(c)' <=> Recent(c))
  BY <1>1 DEF InRing, Recent
<1>8. ValueIsExact'
  <2> SUFFICES ASSUME NEW c \in Buckets, InRing(c) PROVE Exact(vals[c % Capacity], c)'
    BY <1>7, ExactValues
  <2>1. CASE c = b
    <3>1. vals'[b % Capacity] = x
      BY <1>1, <1>3 DEF SetSlot
    <3> QED
      BY <2>1, <3>1 DEF Exact
  <2>2. CASE c # b
    <3>1. c % Capacity # b % Capacity
      <4>1. /\ c \in Int /\ b \in Int /\ Capacity \in Int
            /\ c < head /\ c > head - Capacity
        BY <1>2, Sizes DEF InRing
      <4>2. (c < b /\ b < c + Capacity) \/ (b < c /\ c < b + Capacity)
        BY <1>1, <2>2, <4>1
      <4> QED
        BY <4>1, <4>2, Sizes, SlotsDiffer
    <3>2. vals'[c % Capacity] = vals[c % Capacity]
      BY <1>1, <1>3, <3>1 DEF SetSlot
    <3>3. Exact(vals[c % Capacity], c)
      BY <1>1, ExactValues
    <3>4. number'[c] = number[c] /\ total'[c] = total[c]
      BY <1>2, <2>2
    <3> QED
      BY <1>1, <3>2, <3>3, <3>4 DEF Exact, Gap
  <2> QED
    BY <2>1, <2>2
<1>9. CountsKept'
  <2> SUFFICES ASSUME agg = "Mean", NEW c \in Buckets, InRing(c), Recent(c)
               PROVE  late'[c % LateWin] = number'[c]
    BY <1>1, <1>7 DEF CountsKept
  <2>1. late[c % LateWin] = number[c]
    BY <1>1 DEF CountsKept
  <2>2. CASE c = b
    BY <1>1, <1>2, <1>3, <2>2 DEF SetLate
  <2>3. CASE c # b
    <3>1. Recent(b) => c % LateWin # b % LateWin
      <4> SUFFICES ASSUME Recent(b) PROVE c % LateWin # b % LateWin
        OBVIOUS
      <4>1. /\ c \in Int /\ b \in Int /\ LateWin \in Int
            /\ c < head /\ c >= head - LateWin /\ b >= head - LateWin
        BY <1>2, Sizes DEF InRing, Recent
      <4>2. (c < b /\ b < c + LateWin) \/ (b < c /\ c < b + LateWin)
        BY <1>1, <2>3, <4>1
      <4> QED
        BY <4>1, <4>2, Sizes, SlotsDiffer
    <3>2. late'[c % LateWin] = late[c % LateWin]
      BY <1>1, <1>3, <3>1 DEF SetLate
    <3> QED
      BY <1>2, <2>1, <2>3, <3>2
  <2> QED
    BY <2>2, <2>3
<1> QED
  BY <1>1, <1>4, <1>5, <1>6, <1>8, <1>9 DEF IInv

\* What a late sample finds in the slot of its bucket.
LEMMA LateFacts ==
  ASSUME IInv, NEW b \in Buckets, NEW v \in Values, InRing(b), Given(b, v)
  PROVE  /\ TypeOK /\ agg \in {"Mean", "Sum"}
         /\ v \in Int /\ number[b] \in Nat /\ total[b] \in Int
         /\ number'[b] = number[b] + 1 /\ total'[b] = total[b] + v
         /\ vals[b % Capacity] \in Fractions
         /\ vals[b % Capacity].sum \in Int /\ vals[b % Capacity].of \in Nat
         /\ Exact(vals[b % Capacity], b)
         /\ number[b] = 0 => total[b] = 0
         /\ agg = "Sum" => vals[b % Capacity].of \in {0, 1}
         /\ agg = "Mean" /\ Recent(b) => late[b % LateWin] = number[b]
<1>1. TypeOK /\ Sums /\ ValueIsExact /\ CountsKept
  BY DEF IInv
<1>2. b % Capacity \in 0 .. Capacity - 1 /\ v \in Int
  BY Sizes, Slots
<1>3. /\ number'[b] = number[b] + 1 /\ total'[b] = total[b] + v
  BY <1>1, GivenTypes
<1>4. /\ agg \in {"Mean", "Sum"} /\ number[b] \in Nat /\ total[b] \in Int
      /\ vals[b % Capacity] \in Fractions
      /\ vals[b % Capacity].sum \in Int /\ vals[b % Capacity].of \in Nat
  BY <1>1, <1>2, StateTypes
<1>5. Exact(vals[b % Capacity], b)
  BY <1>1, ExactValues
<1>6. /\ number[b] = 0 => total[b] = 0
      /\ agg = "Sum" => vals[b % Capacity].of \in {0, 1}
      /\ agg = "Mean" /\ Recent(b) => late[b % LateWin] = number[b]
  BY <1>1, <1>2 DEF Sums, CountsKept
<1> QED
  BY <1>1, <1>2, <1>3, <1>4, <1>5, <1>6

LEMMA AddToGapInv ==
  ASSUME IInv, NEW b \in Buckets, NEW v \in Values, AddToGap(b, v)
  PROVE  IInv'
<1>1. /\ InRing(b) /\ vals[b % Capacity] = NaN /\ Given(b, v) /\ agg' = agg
      /\ SetSlot(b, Fraction(v, 1)) /\ UNCHANGED <<agg, first, head, acc, cnt>>
      /\ IF Recent(b) THEN SetLate(b, 1) ELSE UNCHANGED late
  BY DEF AddToGap
<1>2. TypeOK'
  BY NextType DEF IInv, Next, Add
<1>3. /\ TypeOK /\ agg \in {"Mean", "Sum"}
      /\ v \in Int /\ number[b] \in Nat /\ total[b] \in Int
      /\ number'[b] = number[b] + 1 /\ total'[b] = total[b] + v
      /\ Exact(vals[b % Capacity], b) /\ (number[b] = 0 => total[b] = 0)
  BY <1>1, LateFacts
<1>4. number[b] = 0 /\ total[b] = 0
  BY <1>1, <1>3, FractionTypes DEF Exact
<1>5. /\ Fraction(v, 1) \in Fractions /\ Fraction(v, 1).sum = v /\ Fraction(v, 1).of = 1
  BY <1>3, FractionTypes
<1>6. \A y : y.of = 1 /\ y.sum = v => Exact(y, b)'
  <2>1. number'[b] = 1 /\ total'[b] = v
    BY <1>3, <1>4
  <2> QED
    BY <1>1, <1>3, <2>1 DEF Exact
<1>7. IF Recent(b) THEN SetLate(b, number[b] + 1) ELSE UNCHANGED late
  BY <1>1, <1>4
<1> HIDE DEF IInv
<1> QED
  BY <1>1, <1>2, <1>5, <1>6, <1>7, LateInv

LEMMA AddToSumInv ==
  ASSUME IInv, NEW b \in Buckets, NEW v \in Values, AddToSum(b, v)
  PROVE  IInv'
<1> DEFINE old == vals[b % Capacity]
           x == Fraction(old.sum + v, 1)
<1>1. /\ InRing(b) /\ old # NaN /\ agg = "Sum" /\ Given(b, v) /\ agg' = agg
      /\ SetSlot(b, x) /\ UNCHANGED <<agg, first, head, acc, cnt>>
      /\ first' = first
  BY DEF AddToSum
<1>2. TypeOK'
  BY NextType DEF IInv, Next, Add
<1>3. /\ v \in Int /\ number[b] \in Nat /\ total[b] \in Int
      /\ number'[b] = number[b] + 1 /\ total'[b] = total[b] + v
      /\ old.sum \in Int /\ old.of \in {0, 1}
      /\ Exact(old, b) /\ (number[b] = 0 => total[b] = 0)
  BY <1>1, LateFacts
<1>4. old.sum = total[b]
  <2>1. CASE number[b] = 0
    <3>1. old = Fraction(0, 1)
      BY <1>1, <1>3, <2>1 DEF Exact, Gap
    <3> QED
      BY <1>3, <2>1, <3>1, FractionTypes
  <2>2. CASE number[b] # 0
    <3>1. old.of > 0 /\ old.sum * 1 = total[b] * old.of
      BY <1>1, <1>3, <2>2 DEF Exact
    <3>2. old.of = 1
      BY <1>3, <3>1
    <3> QED
      BY <1>3, <3>1, <3>2
  <2> QED
    BY <2>1, <2>2
<1>5. x \in Fractions /\ x.sum = old.sum + v /\ x.of = 1
  <2>1. old.sum + v \in Int
    BY <1>3
  <2> QED
    BY <2>1, FractionTypes
<1> HIDE DEF x, old
<1>6. \A y : y.of = 1 /\ y.sum = total[b] + v => Exact(y, b)'
  <2>1. number'[b] # 0
    BY <1>3
  <2> QED
    BY <1>1, <1>3, <2>1 DEF Exact
<1> QED
  BY <1>1, <1>2, <1>3, <1>4, <1>5, <1>6, LateInv
\* Adding a sample to the mean of k others.
LEMMA Averaged ==
  ASSUME NEW s \in Int, NEW n \in Nat, NEW k \in Nat \ {0}, NEW t \in Int, NEW v \in Int,
         s * k = t * n
  PROVE  /\ (s * k + v * n) * (k + 1) = (t + v) * (n * (k + 1))
         /\ n = k => (s + v) * (k + 1) = (t + v) * (k + 1)
<1>1. (s * k + v * n) * (k + 1) = (t + v) * (n * (k + 1))
  <2>1. (t * n + v * n) * (k + 1) = (t + v) * (n * (k + 1))
    OBVIOUS
  <2> QED
    BY <2>1
<1>2. ASSUME n = k PROVE s = t
  <2>1. (s - t) * k = 0
    BY <1>2
  <2> DEFINE d == s - t
  <2>2. d \in Int /\ d * k = 0 /\ k >= 1
    BY <2>1
  <2>3. d = 0
    <3> HIDE DEF d
    <3>1. CASE d >= 1
      <4>1. d * k >= k
        BY <2>2, <3>1
      <4> QED
        BY <2>2, <4>1
    <3>2. CASE d <= -1
      <4>1. d * k <= -k
        BY <2>2, <3>2
      <4> QED
        BY <2>2, <4>1
    <3> QED
      BY <2>2, <3>1, <3>2
  <2> QED
    BY <2>3
<1> QED
  BY <1>1, <1>2

LEMMA AddToMeanInv ==
  ASSUME IInv, NEW b \in Buckets, NEW v \in Values, AddToMean(b, v)
  PROVE  IInv'
<1> DEFINE old == vals[b % Capacity]
           k == number[b]
           x == Weighted(old, k, v)
<1>1. /\ InRing(b) /\ old # NaN /\ agg = "Mean" /\ Recent(b) /\ Given(b, v)
      /\ agg' = agg /\ UNCHANGED <<agg, first, head, acc, cnt>>
      /\ SetSlot(b, Weighted(old, Count(b), v)) /\ SetLate(b, Count(b) + 1)
  BY DEF AddToMean
<1>2. TypeOK'
  BY NextType DEF IInv, Next, Add
<1>3. /\ v \in Int /\ k \in Nat /\ total[b] \in Int
      /\ number'[b] = k + 1 /\ total'[b] = total[b] + v
      /\ old \in Fractions /\ old.sum \in Int /\ old.of \in Nat
      /\ Exact(old, b) /\ late[b % LateWin] = k
  BY <1>1, LateFacts
<1>4. k # 0 /\ old.of > 0 /\ old.sum * k = total[b] * old.of
  BY <1>1, <1>3 DEF Exact, Gap
<1>5. Count(b) = k
  BY <1>3, <1>4 DEF Count
<1>6. SetSlot(b, x) /\ SetLate(b, k + 1)
  BY <1>1, <1>5
<1>7. x \in Fractions
  BY <1>3, WeightedTypes
<1>8. x.of > 0 /\ x.sum * (k + 1) = (total[b] + v) * x.of
  <2>1. /\ (old.sum * k + v * old.of) * (k + 1) = (total[b] + v) * (old.of * (k + 1))
        /\ old.of = k => (old.sum + v) * (k + 1) = (total[b] + v) * (k + 1)
    <3>1. /\ k \in Nat \ {0} /\ old.sum \in Int /\ old.of \in Nat
          /\ total[b] \in Int /\ v \in Int /\ old.sum * k = total[b] * old.of
      BY <1>3, <1>4
    <3> DEFINE s == old.sum
               n == old.of
               t == total[b]
    <3>2. /\ k \in Nat \ {0} /\ s \in Int /\ n \in Nat /\ t \in Int /\ v \in Int
          /\ s * k = t * n
      BY <3>1
    <3> HIDE DEF s, n, t, k
    <3>3. /\ (s * k + v * n) * (k + 1) = (t + v) * (n * (k + 1))
          /\ n = k => (s + v) * (k + 1) = (t + v) * (k + 1)
      BY <3>2, Averaged
    <3> QED
      BY <3>3 DEF s, n, t, k
  <2>2. CASE old.of = k
    <3>1. x = Fraction(old.sum + v, k + 1)
      BY <2>2 DEF Weighted
    <3>2. x.sum = old.sum + v /\ x.of = k + 1
      <4>1. old.sum + v \in Int /\ k + 1 \in Nat
        BY <1>3
      <4> QED
        BY <3>1, <4>1, FractionTypes
    <3> QED
      BY <1>3, <2>1, <2>2, <3>2
  <2>3. CASE old.of # k
    <3>1. x = Fraction(old.sum * k + v * old.of, old.of * (k + 1))
      BY <2>3 DEF Weighted
    <3>2. /\ old.sum * k + v * old.of \in Int /\ old.of * (k + 1) \in Nat
          /\ old.of * (k + 1) > 0
      <4> HIDE DEF old, k
      <4>1. old.of * (k + 1) >= old.of
        BY <1>3, <1>4
      <4> QED
        BY <1>3, <1>4, <4>1
    <3>3. x.sum = old.sum * k + v * old.of /\ x.of = old.of * (k + 1)
      BY <3>1, <3>2, FractionTypes
    <3> QED
      BY <2>1, <3>2, <3>3
  <2> QED
    BY <2>2, <2>3
<1> HIDE DEF x
<1>9. \A y : y.of > 0 /\ y.sum * (k + 1) = (total[b] + v) * y.of => Exact(y, b)'
  <2>1. number'[b] # 0
    BY <1>3
  <2> QED
    BY <1>1, <1>3, <2>1 DEF Exact
<1> QED
  BY <1>1, <1>2, <1>3, <1>6, <1>7, <1>8, <1>9, LateInv

-------------------------------------------------------------------------------
(* The theorems.                                                           *)

LEMMA NextInv == IInv /\ [Next]_vars => IInv'
<1> SUFFICES ASSUME IInv, [Next]_vars PROVE IInv'
  OBVIOUS
<1>1. ASSUME UNCHANGED vars PROVE IInv'
  <2>1. TypeOK'
    BY <1>1, NextType DEF IInv
  <2>2. Unopened' /\ OpenBucket' /\ Sums' /\ ValueIsExact' /\ CountsKept'
    BY <1>1 DEF IInv, vars, Unopened, OpenBucket, Sums, ValueIsExact, CountsKept,
                At, InRing, Recent, Gap
  <2> QED
    BY <2>1, <2>2 DEF IInv
<1>2. ASSUME NEW b \in Buckets, NEW v \in Values, Add(b, v) PROVE IInv'
  BY <1>1, <1>2, AddFirstInv, AddOpenInv, AddNewerInv, AddToGapInv, AddToSumInv,
     AddToMeanInv DEF Add, AddTooLate
<1>3. ASSUME NEW b \in Buckets, Advance(b) PROVE IInv'
  BY <1>3, AdvanceInv
<1> QED
  BY <1>1, <1>2, <1>3 DEF Next

LEMMA Invariant == Spec => []IInv
BY InitInv, NextInv, PTL DEF Spec

(***************************************************************************)
(* Whatever the order of samples, gaps, late samples and closes by the     *)
(* clock, and whatever the length of the ring, every value in the ring is  *)
(* the mean (or the sum) of exactly the samples its bucket took            *)
(* (store.go:54-148).                                                      *)
(***************************************************************************)
THEOREM RingIsExact == Spec => []ValueIsExact
<1>1. IInv => ValueIsExact
  BY DEF IInv
<1> QED
  BY <1>1, Invariant, PTL

(***************************************************************************)
(* The sample count kept for a bucket closed within the late window is the *)
(* number of samples in its mean: closing resets the counts of skipped     *)
(* buckets before their slots are used again (store.go:64-77, 103-127).    *)
(***************************************************************************)
THEOREM LateCountsKept == Spec => []CountsKept
<1>1. IInv => CountsKept
  BY DEF IInv
<1> QED
  BY <1>1, Invariant, PTL

===============================================================================
