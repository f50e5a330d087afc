------------------------------ MODULE SeriesRing ------------------------------
(***************************************************************************)
(* One series of internal/series/store.go: a ring of closed buckets, an    *)
(* open bucket and the sample counts of the buckets closed last.  Samples  *)
(* arrive late and out of order (remote-write shards, backfill), and the   *)
(* evaluator closes buckets by the data clock before every sample is in.   *)
(*                                                                         *)
(* A bucket value is a fraction, kept as a sum over a count; float32       *)
(* rounding is left out.  NaN is the fraction 0/0.                         *)
(***************************************************************************)
EXTENDS Integers, Functions

CONSTANTS
  Capacity,    \* length of the ring
  LateWin,     \* lateWin, 8 in the code
  Values,      \* sample values
  MaxB,        \* bound: newest bucket
  MaxSamples   \* bound: samples that count, in all buckets

ASSUME RingAssumption == /\ Capacity \in Nat /\ LateWin \in Nat
                         /\ 0 < LateWin /\ LateWin < Capacity
                         /\ Values \subseteq Int
                         /\ MaxB \in Nat /\ MaxSamples \in Nat

Buckets == 0 .. MaxB
NoHead  == -1 - Capacity   \* math.MinInt64: below every bucket a ring holds

VARIABLES
  agg,    \* "Mean" (metrics) or "Sum" (logs), set when the series is created
  vals,   \* closed buckets, bucket b at b % Capacity
  head,   \* open bucket
  acc,    \* sum and count of the open bucket
  cnt,
  late,   \* sample counts of the last LateWin closed buckets, at b % LateWin
  first,  \* history: the bucket that was open first
  total,  \* history: the sum and the number of the samples that bucket b was
  number  \* given and took

vars == <<agg, vals, head, acc, cnt, late, first, total, number>>

NaN == [sum |-> 0, of |-> 0]
Fraction(s, n) == [sum |-> s, of |-> n]

-------------------------------------------------------------------------------

\* The value of the open bucket when it closes.
Final == IF agg = "Sum" THEN Fraction(acc, 1) ELSE Fraction(acc, cnt)

Gap == IF agg = "Sum" THEN Fraction(0, 1) ELSE NaN

\* Buckets h+1 .. b-1 fill the ring with gaps, at most once around.
GapSlots(b) == {x % Capacity : x \in {y \in head + 1 .. b - 1 : y <= head + Capacity}}

\* Mutant: the counts of skipped buckets are left over from older ones.
LateAfterForgetful(b) == [late EXCEPT ![head % LateWin] = cnt]

\* The counts after closing buckets up to b-1.
LateAfter(b) ==
  [i \in 0 .. LateWin - 1 |->
     IF \E x \in head + 1 .. b - 1 : x >= b - LateWin /\ x % LateWin = i THEN 0
     ELSE IF i = head % LateWin THEN cnt ELSE late[i]]

\* Close buckets up to b-1, for b beyond the head.
Close(b) ==
  /\ vals' = [i \in 0 .. Capacity - 1 |->
                IF i \in GapSlots(b) THEN Gap
                ELSE IF i = head % Capacity THEN Final ELSE vals[i]]
  /\ late' = LateAfter(b)
  /\ head' = b

Moves(b) == head # NoHead /\ b > head

Advance(b) ==
  /\ Moves(b)
  /\ Close(b)
  /\ acc' = 0 /\ cnt' = 0
  /\ UNCHANGED <<agg, first, total, number>>

\* The bucket takes the sample: it counts towards the value.
Given(b, v) == /\ FoldFunction(+, 0, number) < MaxSamples
               /\ total' = [total EXCEPT ![b] = @ + v]
               /\ number' = [number EXCEPT ![b] = @ + 1]

AddFirst(b, v) ==
  /\ head = NoHead
  /\ head' = b /\ acc' = v /\ cnt' = 1
  /\ first' = b
  /\ Given(b, v)
  /\ UNCHANGED <<agg, vals, late>>

AddOpen(b, v) ==
  /\ head # NoHead /\ b = head
  /\ acc' = acc + v /\ cnt' = cnt + 1
  /\ Given(b, v)
  /\ UNCHANGED <<agg, first, vals, head, late>>

AddNewer(b, v) ==
  /\ Moves(b)
  /\ Close(b)
  /\ acc' = v /\ cnt' = 1
  /\ Given(b, v)
  /\ UNCHANGED <<agg, first>>

\* A closed bucket still in the ring, and one whose count is still kept.
InRing(b) == head # NoHead /\ b < head /\ b > head - Capacity
Recent(b) == b >= head - LateWin

SetSlot(b, x) == vals' = [vals EXCEPT ![b % Capacity] = x]
SetLate(b, n) == late' = [late EXCEPT ![b % LateWin] = n]

AddToGap(b, v) ==
  /\ InRing(b) /\ vals[b % Capacity] = NaN
  /\ SetSlot(b, Fraction(v, 1))
  /\ IF Recent(b) THEN SetLate(b, 1) ELSE UNCHANGED late
  /\ Given(b, v)
  /\ UNCHANGED <<agg, first, head, acc, cnt>>

AddToSum(b, v) ==
  /\ InRing(b) /\ vals[b % Capacity] # NaN /\ agg = "Sum"
  /\ SetSlot(b, Fraction(vals[b % Capacity].sum + v, 1))
  /\ Given(b, v)
  /\ UNCHANGED <<agg, first, head, acc, cnt, late>>

\* Mutant: the late sample weighs as much as the mean before it.
WeightedEvenly(old, k, v) == Fraction(old.sum + v * old.of, 2 * old.of)

\* (old * k + v) / (k + 1), where old = sum/of; k is the count of the bucket,
\* and then the fraction needs no larger denominator.
Weighted(old, k, v) ==
  IF old.of = k THEN Fraction(old.sum + v, k + 1)
                ELSE Fraction(old.sum * k + v * old.of, old.of * (k + 1))

Count(b) == IF late[b % LateWin] >= 1 THEN late[b % LateWin] ELSE 1

AddToMean(b, v) ==
  /\ InRing(b) /\ vals[b % Capacity] # NaN /\ agg = "Mean" /\ Recent(b)
  /\ SetSlot(b, Weighted(vals[b % Capacity], Count(b), v))
  /\ SetLate(b, Count(b) + 1)
  /\ Given(b, v)
  /\ UNCHANGED <<agg, first, head, acc, cnt>>

\* Too old for the ring, or an older mean whose count is gone: the value stays.
AddTooLate(b) ==
  /\ head # NoHead /\ b < head
  /\ InRing(b) => /\ vals[b % Capacity] # NaN /\ agg = "Mean" /\ ~Recent(b)
  /\ UNCHANGED vars

Add(b, v) ==
  \/ AddFirst(b, v) \/ AddOpen(b, v) \/ AddNewer(b, v)
  \/ AddToGap(b, v) \/ AddToSum(b, v) \/ AddToMean(b, v) \/ AddTooLate(b)

\* At: the final value of a closed bucket in the ring.
At(b) == IF InRing(b) THEN vals[b % Capacity] ELSE NaN

Init ==
  /\ agg \in {"Mean", "Sum"}
  /\ vals = [i \in 0 .. Capacity - 1 |-> NaN]
  /\ head = NoHead /\ first = NoHead
  /\ acc = 0 /\ cnt = 0
  /\ late = [i \in 0 .. LateWin - 1 |-> 0]
  /\ total = [b \in Buckets |-> 0]
  /\ number = [b \in Buckets |-> 0]

Next ==
  \E b \in Buckets :
    \/ Advance(b)
    \/ \E v \in Values : Add(b, v)

Spec == Init /\ [][Next]_vars

-------------------------------------------------------------------------------
(* Correctness.                                                            *)

Fractions == [sum : Int, of : Nat]

TypeOK ==
  /\ agg \in {"Mean", "Sum"}
  /\ vals \in [0 .. Capacity - 1 -> Fractions]
  /\ head \in Int /\ first \in Int /\ acc \in Int /\ cnt \in Nat
  /\ late \in [0 .. LateWin - 1 -> Nat]
  /\ total \in [Buckets -> Int] /\ number \in [Buckets -> Nat]

(***************************************************************************)
(* Whatever order samples arrive in, the value of every bucket in the ring *)
(* is the mean (or the sum) of exactly the samples it took: the slots of   *)
(* the ring never mix buckets, gaps and jumps longer than the ring         *)
(* included, a late sample joins a closed mean with the right weight, and  *)
(* a bucket without samples is unknown, or 0 lines for a log series that   *)
(* existed by then (store.go:54-56, 85-148).                               *)
(***************************************************************************)
ValueIsExact ==
  \A b \in Buckets :
    InRing(b) =>
      IF number[b] = 0
      THEN At(b) = IF first # NoHead /\ b > first THEN Gap ELSE NaN
      ELSE /\ At(b).of > 0
           /\ At(b).sum * (IF agg = "Sum" THEN 1 ELSE number[b])
                = total[b] * At(b).of

(***************************************************************************)
(* The count kept for a bucket that closed within the last LateWin buckets *)
(* is the number of samples in its mean, so the code's fallback for an     *)
(* unknown count (store.go:118-121) never weighs a late sample wrongly.    *)
(***************************************************************************)
CountsKept ==
  agg = "Mean" =>
    \A b \in Buckets : InRing(b) /\ Recent(b) => late[b % LateWin] = number[b]

===============================================================================
