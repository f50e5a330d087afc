--------------------------- MODULE Evaluation_proofs ---------------------------
(***************************************************************************)
(* Proofs about Evaluation, its refinement of Alarms and the history of    *)
(* verdicts, for every set of series and writers and every value of the    *)
(* settings the assumptions allow.                                         *)
(***************************************************************************)
EXTENDS EvaluationAlarms, EvaluationHistory, FiniteSetTheorems, TLAPS

-------------------------------------------------------------------------------
(* Constants and the operators on one series record.                       *)

LEMMA ConstantTypes ==
  /\ Grace \in Nat /\ MaxCatchUp \in Nat /\ MaxCatchUp >= 3 /\ MaxB \in Nat
  /\ First \in Nat /\ First >= 4 /\ NoHead \in Int /\ NoHead < 0
  /\ PromRing \in Nat /\ PromRing >= 4 /\ LogRing \in Nat /\ LogSeason \in Nat
  /\ Buckets \subseteq Nat /\ BucketOrNone \subseteq Nat
  /\ \A b \in Buckets : b \in BucketOrNone /\ b >= First
BY SettingsAssumption, RingAssumption DEF First, NoHead, Buckets, BucketOrNone

LEMMA LargerType ==
  \A a, b \in Int : /\ Larger(a, b) \in {a, b}
                    /\ Larger(a, b) >= a /\ Larger(a, b) >= b
BY DEF Larger

LEMMA LargerBucket ==
  \A a, b \in BucketOrNone : Larger(a, b) \in BucketOrNone
BY DEF Larger

LEMMA NewSeriesType == NewSeries \in SeriesRecord
BY ConstantTypes DEF NewSeries, SeriesRecord, BucketOrNone

LEMMA RecordTypes ==
  ASSUME NEW r \in SeriesRecord
  PROVE  /\ r.head \in Int /\ r.have \in SUBSET Int /\ r.lastEval \in Int
         /\ r.pending \in Nat /\ r.normal \in Nat /\ r.missing \in Nat
         /\ r.firing \in BOOLEAN /\ r.absent \in {"none", "firing", "expired"}
         /\ r.absentRun \in Nat /\ r.absentSince \in Int
         /\ r.undefData \in BucketOrNone /\ r.lastData \in BucketOrNone
         /\ r.lastData \in Nat
<1>1. r.lastData \in BucketOrNone
  BY DEF SeriesRecord
<1>2. r.lastData \in Nat
  BY <1>1, ConstantTypes
<1> QED
  BY <1>1, <1>2 DEF SeriesRecord

\* The detector state of a series, which storing a sample leaves alone.
SameDetector(q, r) ==
  /\ q.lastEval = r.lastEval /\ q.firing = r.firing /\ q.absent = r.absent
  /\ q.missing = r.missing

LEMMA WithDataFields ==
  ASSUME NEW r \in SeriesRecord, NEW h \in Int, NEW v \in SUBSET Int,
         NEW l \in BucketOrNone
  PROVE  /\ WithData(r, h, v, l) \in SeriesRecord
         /\ SameDetector(WithData(r, h, v, l), r)
         /\ WithData(r, h, v, l).head = h
         /\ WithData(r, h, v, l).have = v
         /\ WithData(r, h, v, l).lastData = l
<1> DEFINE q == WithData(r, h, v, l)
<1>1. q \in SeriesRecord
  BY DEF SeriesRecord, WithData
<1>2. SameDetector(q, r)
  BY DEF SeriesRecord, SameDetector, WithData
<1>3. q.head = h /\ q.have = v /\ q.lastData = l
  BY DEF SeriesRecord, WithData
<1> QED
  BY <1>1, <1>2, <1>3

\* Advance only moves the head, to b or past it, and fills gaps of log series.
LEMMA AdvanceKeeps ==
  ASSUME NEW s \in Series, NEW r \in SeriesRecord, NEW b \in Int
  PROVE  /\ Advance(s, r, b) \in SeriesRecord
         /\ SameDetector(Advance(s, r, b), r)
         /\ Advance(s, r, b).lastData = r.lastData
         /\ Advance(s, r, b).head = NoHead \/ Advance(s, r, b).head >= b
         /\ Advance(s, r, b).head >= r.head
         /\ s \in MetricSeries => Advance(s, r, b).have = r.have
<1> DEFINE v == IF s \in LogSeries THEN r.have \cup (r.head .. b) ELSE r.have
<1>1. CASE r.head = NoHead \/ b <= r.head
  BY <1>1, RecordTypes DEF Advance, SameDetector
<1>2. CASE ~(r.head = NoHead \/ b <= r.head)
  <2>1. v \in SUBSET Int
    BY RecordTypes
  <2>2. Advance(s, r, b) = WithData(r, b, v, r.lastData)
    BY <1>2 DEF Advance
  <2>3. s \in MetricSeries => v = r.have
    BY SeriesAssumption
  <2> HIDE DEF v
  <2>4. /\ Advance(s, r, b) \in SeriesRecord /\ SameDetector(Advance(s, r, b), r)
        /\ Advance(s, r, b).head = b /\ Advance(s, r, b).have = v
        /\ Advance(s, r, b).lastData = r.lastData
    BY <2>1, <2>2, RecordTypes, WithDataFields
  <2> QED
    BY <1>2, <2>3, <2>4, RecordTypes
<1> QED
  BY <1>1, <1>2

\* A sample of bucket b moves head and lastData up and adds at most b.
LEMMA AddKeeps ==
  ASSUME NEW s \in Series, NEW r \in SeriesRecord, NEW b \in Buckets
  PROVE  /\ Add(s, r, b) \in SeriesRecord
         /\ SameDetector(Add(s, r, b), r)
         /\ Add(s, r, b).lastData >= r.lastData
         /\ Add(s, r, b).lastData >= b
         /\ Add(s, r, b).head # NoHead /\ Add(s, r, b).head >= r.head
         /\ s \in MetricSeries => Add(s, r, b).have \subseteq r.have \cup {b}
<1> DEFINE a == Advance(s, r, b)
           hv == IF b > a.head - Ring(s) THEN a.have \cup {b} ELSE a.have
           hd == Larger(a.head, b)
           ld == Larger(a.lastData, b)
<1>1. b \in Nat /\ b \in Int /\ b \in BucketOrNone /\ NoHead < 0 /\ NoHead \in Int
  BY ConstantTypes
<1>2. /\ a \in SeriesRecord /\ SameDetector(a, r) /\ a.lastData = r.lastData
      /\ a.head >= r.head
      /\ s \in MetricSeries => a.have = r.have
  BY <1>1, AdvanceKeeps
<1>3. Add(s, r, b) = WithData(a, hd, hv, ld)
  BY DEF Add
<1> HIDE DEF a
<1>4. a.head \in Int /\ a.have \in SUBSET Int /\ a.lastData \in BucketOrNone
      /\ a.lastData \in Nat /\ r.head \in Int
  BY <1>2, RecordTypes
<1>5. hv \in SUBSET Int /\ hv \subseteq a.have \cup {b}
  BY <1>1, <1>4
<1>6. /\ hd \in Int /\ hd >= b /\ hd >= a.head
      /\ ld \in BucketOrNone /\ ld >= b /\ ld >= a.lastData
  BY <1>1, <1>4, LargerType, LargerBucket
<1>7. hd # NoHead /\ hd >= r.head
  BY <1>1, <1>2, <1>4, <1>6
<1> HIDE DEF hv, hd, ld
<1>8. /\ Add(s, r, b) \in SeriesRecord /\ SameDetector(Add(s, r, b), a)
      /\ Add(s, r, b).have = hv /\ Add(s, r, b).lastData = ld
      /\ Add(s, r, b).head = hd
  BY <1>2, <1>3, <1>4, <1>5, <1>6, WithDataFields
<1>9. SameDetector(Add(s, r, b), r)
  BY <1>2, <1>8 DEF SameDetector
<1> QED
  BY <1>2, <1>5, <1>6, <1>7, <1>8, <1>9

\* What one verdict does to the counters and flags of a series.
Counted(r, m, p, n, f) ==
  [r EXCEPT !.missing = m, !.pending = p, !.normal = n, !.firing = f]
Expecting(r, e) == [r EXCEPT !.expects = e]

\* A verdict leaves the data, the bucket and the absence state alone.
SameData(q, r) ==
  /\ q.head = r.head /\ q.have = r.have /\ q.lastData = r.lastData
  /\ q.lastEval = r.lastEval /\ q.absent = r.absent

LEMMA CountedFields ==
  ASSUME NEW r \in SeriesRecord, NEW m \in Nat, NEW p \in Nat, NEW n \in Nat,
         NEW f \in BOOLEAN
  PROVE  /\ Counted(r, m, p, n, f) \in SeriesRecord
         /\ SameData(Counted(r, m, p, n, f), r)
         /\ Counted(r, m, p, n, f).missing = m
         /\ Counted(r, m, p, n, f).firing = f
<1>1. Counted(r, m, p, n, f) \in SeriesRecord
  BY DEF Counted, SeriesRecord
<1>2. SameData(Counted(r, m, p, n, f), r)
  BY DEF Counted, SeriesRecord, SameData
<1>3. Counted(r, m, p, n, f).missing = m
  BY DEF Counted, SeriesRecord
<1>4. Counted(r, m, p, n, f).firing = f
  BY DEF Counted, SeriesRecord
<1> QED
  BY <1>1, <1>2, <1>3, <1>4

LEMMA ExpectingFields ==
  ASSUME NEW r \in SeriesRecord, NEW e \in BOOLEAN
  PROVE  /\ Expecting(r, e) \in SeriesRecord
         /\ SameData(Expecting(r, e), r)
         /\ Expecting(r, e).missing = r.missing
         /\ Expecting(r, e).firing = r.firing
<1>1. Expecting(r, e) \in SeriesRecord
  BY DEF Expecting, SeriesRecord
<1>2. SameData(Expecting(r, e), r)
  BY DEF Expecting, SeriesRecord, SameData
<1>3. Expecting(r, e).missing = r.missing
  BY DEF Expecting, SeriesRecord
<1>4. Expecting(r, e).firing = r.firing
  BY DEF Expecting, SeriesRecord
<1> QED
  BY <1>1, <1>2, <1>3, <1>4

LEMMA AfterMissingFields ==
  ASSUME NEW r \in SeriesRecord
  PROVE  /\ AfterMissing(r) \in SeriesRecord
         /\ SameData(AfterMissing(r), r)
         /\ AfterMissing(r).missing = r.missing + 1
         /\ AfterMissing(r).firing = (r.firing /\ ~ResolvesMissing(r))
<1> DEFINE m == r.missing + 1
           p == 0
           n == IF ResolvesMissing(r) THEN 0 ELSE r.normal
           f == (r.firing /\ ~ResolvesMissing(r))
           q == Counted(r, m, p, n, f)
<1>1. f \in BOOLEAN /\ p \in Nat /\ n \in Nat /\ m \in Nat
  BY RecordTypes DEF ResolvesMissing
<1>2. AfterMissing(r) = q
  BY DEF AfterMissing, Counted
<1> HIDE DEF m, p, n, f, q
<1>3. /\ q \in SeriesRecord /\ SameData(q, r)
      /\ q.missing = m /\ q.firing = f
  BY <1>1, CountedFields DEF q
<1> QED
  BY <1>2, <1>3 DEF m, f

LEMMA AfterAnomalyFields ==
  ASSUME NEW r \in SeriesRecord, NEW e \in BOOLEAN
  PROVE  /\ AfterAnomaly(r, e) \in SeriesRecord
         /\ SameData(AfterAnomaly(r, e), r)
         /\ AfterAnomaly(r, e).missing = 0
         /\ AfterAnomaly(r, e).firing = (r.firing \/ Fires(r))
<1> DEFINE p == r.pending + 1
           n == 0
           f == (r.firing \/ Fires(r))
           q == Counted(r, 0, p, n, f)
<1>1. f \in BOOLEAN /\ p \in Nat /\ n \in Nat /\ 0 \in Nat
  BY RecordTypes DEF Fires
<1>2. AfterAnomaly(r, e) = Expecting(q, e)
  BY DEF AfterAnomaly, Counted, Expecting
<1> HIDE DEF p, n, f, q
<1>3. /\ q \in SeriesRecord /\ SameData(q, r)
      /\ q.missing = 0 /\ q.firing = f
  BY <1>1, CountedFields DEF q
<1>4. /\ Expecting(q, e) \in SeriesRecord /\ SameData(Expecting(q, e), q)
      /\ Expecting(q, e).missing = q.missing
      /\ Expecting(q, e).firing = q.firing
  BY <1>3, ExpectingFields
<1>5. SameData(AfterAnomaly(r, e), r)
  BY <1>2, <1>3, <1>4 DEF SameData
<1> QED
  BY <1>2, <1>3, <1>4, <1>5 DEF f

LEMMA AfterNormalFields ==
  ASSUME NEW r \in SeriesRecord, NEW e \in BOOLEAN
  PROVE  /\ AfterNormal(r, e) \in SeriesRecord
         /\ SameData(AfterNormal(r, e), r)
         /\ AfterNormal(r, e).missing = 0
         /\ AfterNormal(r, e).firing = (r.firing /\ ~Recovers(r))
<1> DEFINE p == 0
           n == r.normal + 1
           f == (r.firing /\ ~Recovers(r))
           q == Counted(r, 0, p, n, f)
<1>1. f \in BOOLEAN /\ p \in Nat /\ n \in Nat /\ 0 \in Nat
  BY RecordTypes DEF Recovers
<1>2. AfterNormal(r, e) = Expecting(q, e)
  BY DEF AfterNormal, Counted, Expecting
<1> HIDE DEF p, n, f, q
<1>3. /\ q \in SeriesRecord /\ SameData(q, r)
      /\ q.missing = 0 /\ q.firing = f
  BY <1>1, CountedFields DEF q
<1>4. /\ Expecting(q, e) \in SeriesRecord /\ SameData(Expecting(q, e), q)
      /\ Expecting(q, e).missing = q.missing
      /\ Expecting(q, e).firing = q.firing
  BY <1>3, ExpectingFields
<1>5. SameData(AfterNormal(r, e), r)
  BY <1>2, <1>3, <1>4 DEF SameData
<1> QED
  BY <1>2, <1>3, <1>4, <1>5 DEF f

\* The absence steps change only the absence fields.
SameScore(q, r) ==
  /\ q.head = r.head /\ q.have = r.have /\ q.lastData = r.lastData
  /\ q.lastEval = r.lastEval /\ q.missing = r.missing /\ q.firing = r.firing

LEMMA AbsenceFields ==
  ASSUME NEW r \in SeriesRecord
  PROVE  /\ AfterData(r) \in SeriesRecord /\ SameScore(AfterData(r), r)
         /\ AfterData(r).absent = "none"
         /\ AfterExpiry(r) \in SeriesRecord /\ SameScore(AfterExpiry(r), r)
         /\ AfterExpiry(r).absent = "expired"
         /\ AfterMiss(r) \in SeriesRecord /\ SameScore(AfterMiss(r), r)
         /\ AfterMiss(r).absent = IF Vanished(r) THEN "firing" ELSE r.absent
<1>1. /\ AfterData(r) \in SeriesRecord /\ SameScore(AfterData(r), r)
      /\ AfterData(r).absent = "none"
  BY DEF AfterData, SeriesRecord, SameScore
<1>2. /\ AfterExpiry(r) \in SeriesRecord /\ SameScore(AfterExpiry(r), r)
      /\ AfterExpiry(r).absent = "expired"
  BY DEF AfterExpiry, SeriesRecord, SameScore
<1>3. AfterMiss(r) \in SeriesRecord
  <2> DEFINE run == r.absentRun + 1
             since == IF r.absentRun = 0 THEN r.lastEval ELSE r.absentSince
             flag == IF Vanished(r) THEN "firing" ELSE r.absent
  <2>1. run \in Nat /\ since \in Int /\ flag \in {"none", "firing", "expired"}
    BY RecordTypes
  <2>2. AfterMiss(r) = [r EXCEPT !.absentRun = run,
                                 !.absentSince = since, !.absent = flag]
    BY DEF AfterMiss
  <2> HIDE DEF run, since, flag
  <2> QED
    BY <2>1, <2>2 DEF SeriesRecord
<1>4. SameScore(AfterMiss(r), r)
  BY DEF AfterMiss, SeriesRecord, SameScore
<1>5. AfterMiss(r).absent = IF Vanished(r) THEN "firing" ELSE r.absent
  BY DEF AfterMiss, SeriesRecord
<1> QED
  BY <1>1, <1>2, <1>3, <1>4, <1>5

\* Turning to bucket b, or the next bucket.
At(r, b) == [r EXCEPT !.lastEval = b]

LEMMA AtFields ==
  ASSUME NEW r \in SeriesRecord, NEW b \in Int
  PROVE  /\ At(r, b) \in SeriesRecord /\ At(r, b).lastEval = b
         /\ At(r, b).head = r.head /\ At(r, b).have = r.have
         /\ At(r, b).lastData = r.lastData /\ At(r, b).missing = r.missing
         /\ At(r, b).firing = r.firing /\ At(r, b).absent = r.absent
         /\ [r EXCEPT !.lastEval = @ + 1] = At(r, r.lastEval + 1)
BY DEF At, SeriesRecord

-------------------------------------------------------------------------------
(* Type correctness.                                                       *)

LEMMA MarkSeenType ==
  ASSUME TypeOK, NEW b \in Buckets, MarkSeen(b)
  PROVE  promSeen' \in [0 .. SeenLen - 1 -> BucketOrNone]
<1>1. b \in BucketOrNone /\ b % SeenLen \in 0 .. SeenLen - 1
  BY ConstantTypes, SettingsAssumption
<1>2. promSeen[b % SeenLen] \in BucketOrNone
  BY <1>1 DEF TypeOK
<1>3. Larger(promSeen[b % SeenLen], b) \in BucketOrNone
  BY <1>1, <1>2, LargerBucket
<1> QED
  BY <1>1, <1>3 DEF MarkSeen, TypeOK

LEMMA NewestType ==
  ASSUME TypeOK, NEW w \in Writers, NEW b \in Buckets
  PROVE  /\ [newest EXCEPT ![w] = Larger(@, b)] \in [Writers -> BucketOrNone]
         /\ [newest EXCEPT ![w] = 0] \in [Writers -> BucketOrNone]
<1>1. b \in BucketOrNone /\ 0 \in BucketOrNone /\ newest[w] \in BucketOrNone
  BY ConstantTypes DEF TypeOK, BucketOrNone
<1>2. Larger(newest[w], b) \in BucketOrNone
  BY <1>1, LargerBucket
<1> QED
  BY <1>1, <1>2 DEF TypeOK

\* One series is replaced by a record of the right type.
LEMMA UpdateType ==
  ASSUME TypeOK, NEW s \in Series, NEW r \in SeriesRecord, Update(s, r)
  PROVE  stored' \subseteq Series /\ sr' \in [Series -> SeriesRecord]
BY DEF TypeOK, Update

LEMMA SampleType ==
  ASSUME TypeOK, NEW s \in Series, NEW b \in Buckets
  PROVE  /\ Add(s, sr[s], b) \in SeriesRecord
         /\ [Add(s, sr[s], b) EXCEPT !.written = TRUE] \in SeriesRecord
         /\ [sr[s] EXCEPT !.undefData = Larger(@, b)] \in SeriesRecord
<1> DEFINE a == Add(s, sr[s], b)
           u == Larger(sr[s].undefData, b)
<1>1. sr[s] \in SeriesRecord
  BY DEF TypeOK
<1>2. a \in SeriesRecord
  BY <1>1, AddKeeps
<1>3. u \in BucketOrNone
  BY <1>1, RecordTypes, ConstantTypes, LargerBucket
<1> HIDE DEF a, u
<1>4. [a EXCEPT !.written = TRUE] \in SeriesRecord
  BY <1>2 DEF SeriesRecord
<1>5. [sr[s] EXCEPT !.undefData = u] \in SeriesRecord
  BY <1>1, <1>3 DEF SeriesRecord
<1> QED
  BY <1>2, <1>4, <1>5 DEF a, u

LEMMA FeedType ==
  ASSUME TypeOK, Feed
  PROVE  TypeOK'
<1>1. MetricSeries \subseteq Series /\ LogSeries \subseteq Series
  BY DEF Series
<1>2. ASSUME NEW w \in Writers, NEW s \in MetricSeries, NEW b \in Buckets,
             WriteSample(w, s, b)
      PROVE  TypeOK'
  BY <1>1, <1>2, MarkSeenType, NewestType, UpdateType, SampleType
  DEF WriteSample, TypeOK, evaluator
<1>3. ASSUME NEW w \in Writers, NEW b \in Buckets, WriteOther(w, b)
      PROVE  TypeOK'
  BY <1>3, MarkSeenType, NewestType DEF WriteOther, TypeOK, evaluator
<1>4. ASSUME NEW w \in Writers, WriteDone(w)
      PROVE  TypeOK'
  <2>1. promClock' \in BucketOrNone
    BY <1>4, LargerBucket DEF WriteDone, TypeOK
  <2>2. newest' \in [Writers -> BucketOrNone]
    BY <1>4 DEF WriteDone, TypeOK, BucketOrNone
  <2> QED
    BY <1>4, <2>1, <2>2 DEF WriteDone, TypeOK, evaluator
<1>5. ASSUME NEW w \in Writers, WriteFail(w)
      PROVE  TypeOK'
  <2>1. newest' \in [Writers -> BucketOrNone]
    BY <1>5 DEF WriteFail, TypeOK, BucketOrNone
  <2> QED
    BY <1>5, <2>1 DEF WriteFail, TypeOK, evaluator
<1>6. ASSUME NEW s \in MetricSeries, NEW b \in Buckets, WriteUndef(s, b)
      PROVE  TypeOK'
  BY <1>1, <1>6, UpdateType, SampleType
  DEF WriteUndef, TypeOK, feed, evaluator
<1>7. ASSUME NEW s \in MetricSeries, NEW b \in Buckets, Backfill(s, b)
      PROVE  TypeOK'
  BY <1>1, <1>7, UpdateType, SampleType DEF Backfill, TypeOK, feed, evaluator
<1>8. ASSUME NEW s \in MetricSeries, WriteStale(s)
      PROVE  TypeOK'
  BY <1>1, <1>8, UpdateType DEF WriteStale, TypeOK, feed, evaluator
<1>9. ASSUME NEW s \in LogSeries, NEW b \in Buckets, LogPush(s, b)
      PROVE  TypeOK'
  BY <1>1, <1>9, UpdateType, SampleType DEF LogPush, TypeOK, feed, evaluator
<1>10. CASE Tick
  BY <1>10 DEF Tick, TypeOK, evaluator
<1> QED
  BY <1>2, <1>3, <1>4, <1>5, <1>6, <1>7, <1>8, <1>9, <1>10 DEF Feed, RemoteWrite

LEMMA OpenType ==
  ASSUME TypeOK
  PROVE  /\ Open \in Int /\ Last \in Int /\ Last = Open - 1
         /\ \A r \in SeriesRecord :
              /\ Start(r) \in Int /\ Start(r) > r.lastEval
              /\ Start(r) > Last - MaxCatchUp
<1>1. Open \in Int /\ Last \in Int /\ Last = Open - 1
  BY DEF TypeOK, Open, Last
<1>2. ASSUME NEW r \in SeriesRecord
      PROVE  /\ Start(r) \in Int /\ Start(r) > r.lastEval
             /\ Start(r) > Last - MaxCatchUp
  <2> DEFINE x == r.lastEval + 1
             y == Last - MaxCatchUp + 1
  <2>1. x \in Int /\ y \in Int /\ x > r.lastEval /\ y > Last - MaxCatchUp
        /\ r.lastEval \in Int /\ MaxCatchUp \in Int
    BY <1>1, RecordTypes, ConstantTypes
  <2>2. Start(r) = Larger(x, y)
    BY DEF Start
  <2> HIDE DEF x, y
  <2> QED
    BY <1>1, <2>1, <2>2 DEF Larger
<1> QED
  BY <1>1, <1>2

LEMMA EmitType ==
  ASSUME TypeOK, NEW s \in Series, NEW typ \in {"fire", "resolve"},
         NEW kind \in Kinds, Emit(s, typ, kind)
  PROVE  events' \in [Series -> Seq(Event)]
<1> DEFINE e == [typ |-> typ, kind |-> kind]
<1>1. e \in Event
  BY DEF Event
<1> HIDE DEF e
<1>2. events[s] \in Seq(Event)
  BY DEF TypeOK
<1>3. Append(events[s], e) \in Seq(Event)
  BY <1>1, <1>2
<1>4. events' = [events EXCEPT ![s] = Append(events[s], e)]
  BY DEF Emit, e
<1> QED
  BY <1>3, <1>4 DEF TypeOK

LEMMA EvalSeriesType ==
  ASSUME TypeOK, NEW s \in Series, EvalSeries(s)
  PROVE  TypeOK'
<1> DEFINE r == Advance(s, sr[s], Open)
<1>1. r \in SeriesRecord
  BY AdvanceKeeps, OpenType DEF TypeOK
<1>2. [r EXCEPT !.lastEval = Start(r)] \in SeriesRecord
  BY <1>1, AtFields, OpenType DEF At
<1> HIDE DEF r
<1>3. /\ sr' \in [Series -> SeriesRecord] /\ todo' \subseteq Series
      /\ step' \in [Series -> {"free", "absent", "score"}]
  BY <1>1, <1>2 DEF EvalSeries, TypeOK, r
<1> QED
  BY <1>3 DEF EvalSeries, TypeOK, feed

LEMMA TrackAbsentType ==
  ASSUME TypeOK, NEW s \in Series, TrackAbsent(s)
  PROVE  TypeOK'
<1>1. sr[s] \in SeriesRecord
  BY DEF TypeOK
<1>2. step' \in [Series -> {"free", "absent", "score"}]
  BY DEF TypeOK, ToScore, TrackAbsent, NotTracked, DataReturned, StillAbsent,
         CountAbsent, IgnoreAbsent
<1>3. sr' \in [Series -> SeriesRecord]
  BY <1>1, AbsenceFields
  DEF TypeOK, TrackAbsent, NotTracked, DataReturned, StillAbsent,
      CountAbsent, IgnoreAbsent
<1>4. events' \in [Series -> Seq(Event)]
  BY EmitType
  DEF TypeOK, TrackAbsent, NotTracked, DataReturned, StillAbsent,
      CountAbsent, IgnoreAbsent, Kinds
<1>5. UNCHANGED <<stored, feed, phase, promOpen, logOpen, todo, active>>
  BY DEF ToScore, TrackAbsent, NotTracked, DataReturned, StillAbsent,
         CountAbsent, IgnoreAbsent
<1> QED
  BY <1>2, <1>3, <1>4, <1>5 DEF TypeOK, feed

LEMMA ScoredType ==
  ASSUME TypeOK, NEW s \in Series, NEW r \in SeriesRecord, Scored(s, r)
  PROVE  /\ sr' \in [Series -> SeriesRecord] /\ todo' \subseteq Series
         /\ step' \in [Series -> {"free", "absent", "score"}]
<1>1. [r EXCEPT !.lastEval = @ + 1] \in SeriesRecord
  BY AtFields, RecordTypes
<1> QED
  BY <1>1 DEF TypeOK, Scored

LEMMA ScoreType ==
  ASSUME TypeOK, NEW s \in Series, Score(s)
  PROVE  TypeOK'
<1>1. sr[s] \in SeriesRecord
  BY DEF TypeOK
<1>2. PICK r \in SeriesRecord : Scored(s, r)
  <2>1. CASE ScoreMissing(s)
    BY <1>1, <2>1, AfterMissingFields DEF ScoreMissing
  <2>2. ASSUME NEW e \in Expectations(s), ScoreAnomalous(s, e)
        PROVE  Scored(s, AfterAnomaly(sr[s], e)) /\ e \in BOOLEAN
    BY <2>2 DEF ScoreAnomalous, Expectations
  <2>3. ASSUME NEW e \in Expectations(s), ScoreNormal(s, e)
        PROVE  Scored(s, AfterNormal(sr[s], e)) /\ e \in BOOLEAN
    BY <2>3 DEF ScoreNormal, Expectations
  <2> QED
    BY <1>1, <2>1, <2>2, <2>3, AfterAnomalyFields, AfterNormalFields DEF Score
<1>3. events' \in [Series -> Seq(Event)]
  BY EmitType
  DEF TypeOK, Score, ScoreMissing, ScoreAnomalous, ScoreNormal, Kinds
<1> QED
  BY <1>2, <1>3, ScoredType DEF Scored, TypeOK, feed

LEMMA EvaluateType ==
  ASSUME TypeOK, Evaluate
  PROVE  TypeOK'
<1>1. CASE EvalBegin
  BY <1>1, ConstantTypes DEF EvalBegin, TypeOK, feed
<1>2. CASE EvalMetrics
  BY <1>2 DEF EvalMetrics, TypeOK, feed, Series
<1>3. CASE EvalLogs
  BY <1>3 DEF EvalLogs, TypeOK, feed, Series
<1>4. CASE Apply
  BY <1>4 DEF Apply, TypeOK, feed
<1>5. CASE EvalEnd
  BY <1>5 DEF EvalEnd, TypeOK, feed
<1>6. ASSUME NEW s \in Series, EvalNoSeries(s)
      PROVE  TypeOK'
  BY <1>6 DEF EvalNoSeries, TypeOK, feed
<1>7. ASSUME NEW s \in Series, GcSeries(s)
      PROVE  TypeOK'
  BY <1>7, NewSeriesType DEF GcSeries, TypeOK, feed
<1> QED
  BY <1>1, <1>2, <1>3, <1>4, <1>5, <1>6, <1>7,
     EvalSeriesType, TrackAbsentType, ScoreType DEF Evaluate

LEMMA InitType == Init => TypeOK
<1> SUFFICES ASSUME Init PROVE TypeOK
  OBVIOUS
<1>1. 0 \in BucketOrNone /\ First \in Int /\ Grace \in Int
  BY ConstantTypes DEF BucketOrNone
<1>2. \A s \in Series : <<>> \in Seq(Event)
  OBVIOUS
<1> QED
  BY <1>1, <1>2, NewSeriesType DEF Init, TypeOK

(***************************************************************************)
(* Every variable keeps its type: every bucket is one a sample can have,   *)
(* no counter goes below 0, and absence and events stay within their       *)
(* states (eval.go:68-93, ingest.go:41-62).                                *)
(***************************************************************************)
THEOREM TypeCorrect == Spec => []TypeOK
<1>1. TypeOK /\ [Next]_vars => TypeOK'
  <2> SUFFICES ASSUME TypeOK, [Next]_vars PROVE TypeOK'
    OBVIOUS
  <2>1. CASE UNCHANGED vars
    BY <2>1 DEF vars, feed, evaluator, TypeOK
  <2> QED
    BY <2>1, FeedType, EvaluateType DEF Next
<1> QED
  BY InitType, <1>1, PTL DEF Spec

-------------------------------------------------------------------------------
(* The inductive invariant.                                                *)

\* The evaluator holds a shard lock only in a pass over the stores, on a
\* bucket that the pass closed.
Locking(s) ==
  Locked(s) => /\ phase \in {"metrics", "logs"} /\ s \in todo /\ s \in stored
               /\ sr[s].lastEval <= Last
               /\ sr[s].head = NoHead \/ Open <= sr[s].head

Flags(s) == /\ s \notin stored => ~sr[s].firing
            /\ s \notin TwoWay => sr[s].absent = "none"

\* lastData is the newest bucket of a metric series.
Dated(s) == s \in MetricSeries => \A x \in sr[s].have : x <= sr[s].lastData

\* The newest bucket of s with a verdict.
Passed(s) == IF Locked(s) THEN sr[s].lastEval - 1 ELSE sr[s].lastEval

\* A firing metric series has had data so recently that missing counts every
\* bucket since, or else every bucket of the pass under way.
Counting(s) ==
  s \in MetricSeries /\ sr[s].firing =>
    /\ sr[s].missing <= 2
    /\ \/ Passed(s) - sr[s].lastData <= sr[s].missing
       \/ Locked(s) /\ Passed(s) - (Last - MaxCatchUp) <= sr[s].missing

\* The pass over the metrics scored every firing series up to its last bucket.
Walked(s) ==
  (/\ s \in MetricSeries /\ sr[s].firing
   /\ phase \in {"logs", "gc"} \/ (phase = "metrics" /\ s \notin todo))
  => promOpen <= 0 \/ promOpen - 1 <= sr[s].lastEval

Matching(s) ==
  /\ Outcome(events[s], "anomaly", <<s, "anomaly">> \in active) <=> sr[s].firing
  /\ Outcome(events[s], "absent", <<s, "absent">> \in active)
       <=> sr[s].absent = "firing"

SeriesInv(s) == /\ Locking(s) /\ Flags(s) /\ Dated(s)
                /\ Counting(s) /\ Walked(s) /\ Matching(s)

\* The clocks never fall behind the open buckets read from them.
Clocks == promOpen <= promClock - Grace /\ logOpen <= now - Grace

Passes == /\ phase = "metrics" => todo \subseteq MetricSeries
          /\ phase = "logs" => todo \subseteq LogSeries

\* Events wait only between a pass and Apply.
Quiet == phase \in {"idle", "loaded", "gc"} => \A s \in Series : events[s] = <<>>

IInv == TypeOK /\ Clocks /\ Passes /\ Quiet /\ \A s \in Series : SeriesInv(s)

-------------------------------------------------------------------------------
(* What the queued events make of a key.                                   *)

LEMMA OutcomeEmpty ==
  ASSUME NEW k, NEW before \in BOOLEAN
  PROVE  Outcome(<<>>, k, before) <=> before
BY DEF Outcome

\* The last event of a kind decides.
LEMMA OutcomeAppend ==
  ASSUME NEW es \in Seq(Event), NEW e \in Event, NEW k \in Kinds,
         NEW before \in BOOLEAN
  PROVE  Outcome(Append(es, e), k, before)
           <=> IF e.kind = k THEN e.typ = "fire" ELSE Outcome(es, k, before)
<1> DEFINE fs == Append(es, e)
           n == Len(es) + 1
           old == {i \in DOMAIN es : es[i].kind = k}
           new == {i \in DOMAIN fs : fs[i].kind = k}
<1>1. /\ n \in Nat /\ n >= 1 /\ DOMAIN es = 1 .. n - 1 /\ DOMAIN fs = 1 .. n
      /\ fs[n] = e /\ \A i \in 1 .. n - 1 : fs[i] = es[i]
  OBVIOUS
<1> HIDE DEF fs, n
<1>2. CASE e.kind = k
  <2>1. n \in new
    BY <1>1, <1>2
  <2>2. \A i \in new : i <= n /\ i \in Nat
    BY <1>1
  <2> HIDE DEF new
  <2>3. \A i \in new : (\A j \in new : j <= i) <=> i = n
    BY <1>1, <2>1, <2>2
  <2>4. new # {}
    BY <2>1
  <2>5. (\E i \in new : fs[i].typ = "fire" /\ \A j \in new : j <= i)
          <=> e.typ = "fire"
    BY <1>1, <2>1, <2>3
  <2> QED
    BY <1>2, <2>4, <2>5 DEF Outcome, fs, new
<1>3. CASE e.kind # k
  <2>1. new = old /\ \A i \in old : fs[i] = es[i]
    BY <1>1, <1>3
  <2> HIDE DEF new, old
  <2>2. (\E i \in new : fs[i].typ = "fire" /\ \A j \in new : j <= i)
          <=> (\E i \in old : es[i].typ = "fire" /\ \A j \in old : j <= i)
    BY <2>1
  <2> QED
    BY <1>3, <2>1, <2>2 DEF Outcome, fs, new, old
<1> QED
  BY <1>2, <1>3

-------------------------------------------------------------------------------
(* Every step keeps the inductive invariant.                               *)

\* A step of the evaluator on s leaves the other series as they are.
OnlySeries(s) ==
  /\ \A t \in Series \ {s} :
       /\ sr'[t] = sr[t] /\ step'[t] = step[t] /\ events'[t] = events[t]
       /\ t \in stored' <=> t \in stored
       /\ t \in todo' <=> t \in todo
  /\ UNCHANGED <<phase, promOpen, logOpen, active>>

LEMMA OthersKeep ==
  ASSUME NEW s \in Series, NEW t \in Series, t # s, OnlySeries(s), SeriesInv(t)
  PROVE  SeriesInv(t)'
BY DEF OnlySeries, SeriesInv, Locking, Locked, Flags, Dated, Counting, Passed,
       Walked, Matching, Open, Last

\* What is left to show of a step of the evaluator on s.
LEMMA OneSeriesStep ==
  ASSUME IInv, TypeOK', NEW s \in Series, OnlySeries(s), SeriesInv(s)',
         todo' \subseteq todo, feed' = feed,
         phase \in {"idle", "loaded", "gc"} => events' = events
  PROVE  IInv'
<1>1. Clocks' /\ Passes' /\ Quiet'
  BY DEF IInv, Clocks, Passes, Quiet, OnlySeries, feed
<1>2. \A t \in Series : SeriesInv(t)'
  BY OthersKeep DEF IInv
<1> QED
  BY <1>1, <1>2 DEF IInv

LEMMA EvalSeriesInv ==
  ASSUME IInv, NEW s \in Series, EvalSeries(s)
  PROVE  IInv'
<1> DEFINE r == Advance(s, sr[s], Open)
<1>1. TypeOK /\ TypeOK'
  BY EvalSeriesType DEF IInv
<1>2. OnlySeries(s) /\ todo' \subseteq todo
  BY <1>1 DEF EvalSeries, OnlySeries, TypeOK
<1>3. /\ r \in SeriesRecord /\ SameDetector(r, sr[s])
      /\ r.lastData = sr[s].lastData
      /\ r.head = NoHead \/ r.head >= Open
      /\ s \in MetricSeries => r.have = sr[s].have
  BY <1>1, AdvanceKeeps, OpenType, ZenonT(40) DEF TypeOK
<1>4. /\ Open \in Int /\ Last \in Int /\ Last = Open - 1 /\ MaxCatchUp \in Nat
      /\ Start(r) \in Int /\ Open' = Open /\ Last' = Last
      /\ MaxCatchUp >= 3 /\ r.missing \in Nat /\ r.lastEval \in Int
  BY <1>1, <1>2, <1>3, OpenType, ConstantTypes, RecordTypes
  DEF OnlySeries, Open, Last
<1>5. Start(r) = r.lastEval + 1 \/ Start(r) = Last - MaxCatchUp + 1
  BY DEF Start, Larger
<1>6. Start(r) >= r.lastEval + 1
  BY <1>1, <1>3, <1>4, OpenType
<1>7. SeriesInv(s) /\ ~Locked(s) /\ s \in stored
      /\ phase \in {"metrics", "logs"} /\ phase' = phase
  BY DEF IInv, EvalSeries
<1>8. phase = "logs" => s \notin MetricSeries
  BY SeriesAssumption DEF IInv, Passes, EvalSeries
<1>9. CASE Start(r) <= Last
  <2> DEFINE q == At(r, Start(r))
  <2>1. /\ q.lastEval = Start(r) /\ q.head = r.head /\ q.have = r.have
        /\ q.lastData = r.lastData /\ q.missing = r.missing
        /\ q.firing = r.firing /\ q.absent = r.absent
    BY <1>3, <1>4, AtFields
  <2>2. /\ sr'[s] = q /\ step'[s] = "absent" /\ Locked(s)' /\ s \in todo'
        /\ stored' = stored /\ events' = events /\ active' = active
    BY <1>1, <1>9 DEF EvalSeries, TypeOK, Locked, At
  <2> HIDE DEF q, r
  <2>3. Locking(s)' /\ Flags(s)' /\ Dated(s)' /\ Walked(s)' /\ Matching(s)'
    BY <1>3, <1>4, <1>7, <1>8, <1>9, <2>1, <2>2
    DEF SeriesInv, Locking, Flags, Dated, Walked, Matching, SameDetector
  <2>4. Counting(s)'
    BY <1>3, <1>4, <1>5, <1>7, <2>1, <2>2
    DEF SeriesInv, Counting, Passed, SameDetector
  <2> QED
    BY <1>1, <1>2, <2>2, <2>3, <2>4, OneSeriesStep DEF EvalSeries, SeriesInv
<1>10. CASE ~(Start(r) <= Last)
  <2>1. /\ sr'[s] = r /\ ~Locked(s)' /\ s \notin todo'
        /\ stored' = stored /\ events' = events /\ active' = active
    BY <1>1, <1>7, <1>10 DEF EvalSeries, TypeOK, Locked
  <2> HIDE DEF r
  <2>2. r.lastEval >= Last
    BY <1>4, <1>5, <1>10
  <2>3. Locking(s)' /\ Flags(s)' /\ Dated(s)' /\ Counting(s)' /\ Matching(s)'
    BY <1>3, <1>7, <2>1
    DEF SeriesInv, Locking, Flags, Dated, Counting, Passed, Matching, SameDetector
  <2>4. Walked(s)'
    BY <1>2, <1>4, <1>7, <1>8, <2>1, <2>2 DEF Walked, OnlySeries, Open
  <2> QED
    BY <1>1, <1>2, <2>1, <2>3, <2>4, OneSeriesStep DEF EvalSeries, SeriesInv
<1> QED
  BY <1>9, <1>10

LEMMA EvalNoSeriesInv ==
  ASSUME IInv, NEW s \in Series, EvalNoSeries(s)
  PROVE  IInv'
<1>1. TypeOK /\ TypeOK' /\ SeriesInv(s)
  BY EvaluateType DEF IInv, Evaluate
<1>2. /\ OnlySeries(s) /\ todo' \subseteq todo /\ sr' = sr /\ step' = step
      /\ stored' = stored /\ s \notin stored /\ events' = events
  BY <1>1 DEF EvalNoSeries, OnlySeries
<1>3. ~sr[s].firing /\ ~Locked(s)
  BY <1>1, <1>2 DEF SeriesInv, Flags, Locking
<1>4. SeriesInv(s)'
  BY <1>1, <1>2, <1>3
  DEF SeriesInv, Locking, Locked, Flags, Dated, Counting, Walked, Matching,
      OnlySeries
<1> QED
  BY <1>1, <1>2, <1>4, OneSeriesStep DEF EvalNoSeries

\* The events of one step, and what they make of the keys of s.
LEMMA EmitOutcome ==
  ASSUME TypeOK, NEW s \in Series, NEW typ \in {"fire", "resolve"},
         NEW kind \in Kinds, Emit(s, typ, kind), NEW k \in Kinds,
         NEW before \in BOOLEAN
  PROVE  Outcome(events'[s], k, before)
           <=> IF kind = k THEN typ = "fire" ELSE Outcome(events[s], k, before)
<1> DEFINE e == [typ |-> typ, kind |-> kind]
<1>1. e \in Event /\ e.kind = kind /\ e.typ = typ
  BY DEF Event
<1>2. events[s] \in Seq(Event)
  BY DEF TypeOK
<1>3. events'[s] = Append(events[s], e)
  BY DEF Emit, TypeOK
<1> HIDE DEF e
<1> QED
  BY <1>1, <1>2, <1>3, OutcomeAppend

LEMMA TrackAbsentInv ==
  ASSUME IInv, NEW s \in Series, TrackAbsent(s)
  PROVE  IInv'
<1>1. TypeOK /\ TypeOK' /\ SeriesInv(s) /\ sr[s] \in SeriesRecord
  BY TrackAbsentType DEF IInv, TypeOK
<1>2. /\ \A t \in Series \ {s} : step'[t] = step[t]
      /\ step[s] = "absent" /\ step'[s] = "score"
      /\ UNCHANGED <<stored, feed, phase, promOpen, logOpen, todo, active>>
  BY <1>1 DEF TypeOK, ToScore, TrackAbsent, NotTracked, DataReturned, StillAbsent,
              CountAbsent, IgnoreAbsent
<1>3. \A t \in Series \ {s} : sr'[t] = sr[t] /\ events'[t] = events[t]
  BY <1>1 DEF TypeOK, Emit, TrackAbsent, NotTracked, DataReturned, StillAbsent,
              CountAbsent, IgnoreAbsent
<1>4. OnlySeries(s)
  BY <1>2, <1>3 DEF OnlySeries
<1>5. Locked(s) /\ Locked(s)' /\ phase \in {"metrics", "logs"}
  BY <1>1, <1>2 DEF Locked, SeriesInv, Locking
<1>6. SameScore(sr'[s], sr[s])
  BY <1>1, AbsenceFields
  DEF TypeOK, SameScore, TrackAbsent, NotTracked, DataReturned, StillAbsent,
      CountAbsent, IgnoreAbsent
<1>7. Locking(s)' /\ Dated(s)' /\ Counting(s)' /\ Walked(s)'
  BY <1>1, <1>2, <1>5, <1>6
  DEF SeriesInv, Locking, Dated, Counting, Passed, Walked, SameScore, Open, Last
<1>8. s \notin TwoWay => sr' = sr
  BY DEF TrackAbsent, Tracked, NotTracked, DataReturned, StillAbsent,
         CountAbsent, IgnoreAbsent
<1>9. Flags(s)'
  BY <1>1, <1>2, <1>6, <1>8 DEF SeriesInv, Flags, SameScore
<1>10. Matching(s)'
  <2> DEFINE a == <<s, "anomaly">> \in active
             b == <<s, "absent">> \in active
  <2>1. /\ "anomaly" \in Kinds /\ "absent" \in Kinds /\ "anomaly" # "absent"
        /\ a \in BOOLEAN /\ b \in BOOLEAN
    BY DEF Kinds
  <2>2. /\ Outcome(events[s], "anomaly", a) <=> sr[s].firing
        /\ Outcome(events[s], "absent", b) <=> sr[s].absent = "firing"
    BY <1>1 DEF SeriesInv, Matching
  <2>3. /\ a' = a /\ b' = b /\ sr'[s].firing = sr[s].firing
    BY <1>2, <1>6 DEF SameScore
  <2> HIDE DEF a, b
  <2>4. CASE sr'[s].absent = sr[s].absent /\ events' = events
    BY <2>2, <2>3, <2>4 DEF Matching, a, b
  <2>5. CASE sr[s].absent # "firing" /\ sr'[s].absent # "firing" /\ events' = events
    BY <2>2, <2>3, <2>5 DEF Matching, a, b
  <2>6. CASE sr'[s].absent # "firing" /\ Emit(s, "resolve", "absent")
    <3>1. /\ Outcome(events'[s], "anomaly", a) <=> Outcome(events[s], "anomaly", a)
          /\ ~Outcome(events'[s], "absent", b)
      BY <1>1, <2>1, <2>6, EmitOutcome
    <3> QED
      BY <2>2, <2>3, <2>6, <3>1 DEF Matching, a, b
  <2>7. CASE sr'[s].absent = "firing" /\ Emit(s, "fire", "absent")
    <3>1. /\ Outcome(events'[s], "anomaly", a) <=> Outcome(events[s], "anomaly", a)
          /\ Outcome(events'[s], "absent", b)
      BY <1>1, <2>1, <2>7, EmitOutcome
    <3> QED
      BY <2>2, <2>3, <2>7, <3>1 DEF Matching, a, b
  <2>8. CASE NotTracked(s) \/ IgnoreAbsent(s)
    BY <2>4, <2>8 DEF NotTracked, IgnoreAbsent
  <2>9. CASE DataReturned(s)
    BY <1>1, <2>5, <2>6, <2>9, AbsenceFields DEF DataReturned, TypeOK
  <2>10. CASE StillAbsent(s)
    BY <1>1, <2>4, <2>6, <2>10, AbsenceFields DEF StillAbsent, TypeOK
  <2>11. CASE CountAbsent(s)
    BY <1>1, <2>4, <2>7, <2>11, AbsenceFields DEF CountAbsent, TypeOK
  <2> QED
    BY <2>8, <2>9, <2>10, <2>11 DEF TrackAbsent
<1> QED
  BY <1>1, <1>2, <1>4, <1>5, <1>7, <1>9, <1>10, OneSeriesStep DEF SeriesInv

\* The counters of q are right for the bucket just scored.
Counts(s, q) ==
  s \in MetricSeries /\ q.firing =>
    /\ q.missing <= 2
    /\ \/ q.lastEval - q.lastData <= q.missing
       \/ q.lastEval - (Last - MaxCatchUp) <= q.missing

\* The events of s make its keys what the flags of q say.
Tells(s, q) ==
  /\ Outcome(events'[s], "anomaly", <<s, "anomaly">> \in active) <=> q.firing
  /\ Outcome(events'[s], "absent", <<s, "absent">> \in active)
       <=> q.absent = "firing"

LEMMA ScoredInv ==
  ASSUME IInv, NEW s \in Series, Locked(s), NEW q \in SeriesRecord,
         SameData(q, sr[s]), Counts(s, q), Tells(s, q), Scored(s, q), TypeOK',
         \A t \in Series \ {s} : events'[t] = events[t]
  PROVE  IInv'
<1>1. /\ TypeOK /\ SeriesInv(s) /\ s \in stored /\ s \in todo
      /\ phase \in {"metrics", "logs"}
  BY DEF IInv, SeriesInv, Locking
<1>2. OnlySeries(s) /\ todo' \subseteq todo
  BY <1>1 DEF Scored, OnlySeries, TypeOK
<1>3. /\ Open \in Int /\ Last \in Int /\ Last = Open - 1 /\ MaxCatchUp \in Nat
      /\ Open' = Open /\ Last' = Last /\ MaxCatchUp >= 3
      /\ q.missing \in Nat /\ q.lastEval \in Int /\ q.lastData \in Nat
  BY <1>1, <1>2, OpenType, ConstantTypes, RecordTypes DEF OnlySeries, Open, Last
<1>4. phase = "logs" => s \notin MetricSeries
  BY <1>1, SeriesAssumption DEF IInv, Passes
<1>5. CASE q.lastEval < Last
  <2> DEFINE n == At(q, q.lastEval + 1)
  <2>1. /\ n.lastEval = q.lastEval + 1 /\ n.head = q.head /\ n.have = q.have
        /\ n.lastData = q.lastData /\ n.missing = q.missing
        /\ n.firing = q.firing /\ n.absent = q.absent
        /\ [q EXCEPT !.lastEval = @ + 1] = n
    BY <1>3, AtFields
  <2> HIDE DEF n
  <2>2. /\ sr'[s] = n /\ step'[s] = "absent" /\ Locked(s)' /\ s \in todo'
        /\ stored' = stored /\ active' = active
    BY <1>1, <1>5, <2>1 DEF Scored, TypeOK, Locked
  <2>3. Locking(s)' /\ Flags(s)' /\ Dated(s)'
    BY <1>1, <1>2, <1>3, <1>5, <2>1, <2>2
    DEF SeriesInv, Locking, Flags, Dated, SameData, OnlySeries
  <2>4. Counting(s)'
    BY <1>3, <2>1, <2>2 DEF Counting, Passed, Counts
  <2>5. Walked(s)' /\ Matching(s)'
    BY <1>1, <1>2, <1>4, <2>1, <2>2
    DEF Walked, Matching, Tells, OnlySeries
  <2> QED
    BY <1>1, <1>2, <2>3, <2>4, <2>5, OneSeriesStep DEF Scored, SeriesInv
<1>6. CASE ~(q.lastEval < Last)
  <2>1. /\ sr'[s] = q /\ ~Locked(s)' /\ s \notin todo'
        /\ stored' = stored /\ active' = active
    BY <1>1, <1>6 DEF Scored, TypeOK, Locked
  <2>2. q.lastEval = Last
    BY <1>1, <1>3, <1>6 DEF SeriesInv, Locking, SameData
  <2>3. Locking(s)' /\ Flags(s)' /\ Dated(s)'
    BY <1>1, <2>1 DEF SeriesInv, Locking, Flags, Dated, SameData
  <2>4. Counting(s)'
    BY <1>3, <2>1, <2>2 DEF Counting, Passed, Counts
  <2>5. Walked(s)' /\ Matching(s)'
    BY <1>1, <1>2, <1>3, <1>4, <2>1, <2>2
    DEF Walked, Matching, Tells, OnlySeries, Open
  <2> QED
    BY <1>1, <1>2, <2>1, <2>3, <2>4, <2>5, OneSeriesStep DEF Scored, SeriesInv
<1> QED
  BY <1>5, <1>6

\* An anomaly event, or none, is what the change of the firing flag asks for.
LEMMA EmitTells ==
  ASSUME TypeOK, NEW s \in Series, Matching(s), NEW q \in SeriesRecord,
         q.absent = sr[s].absent,
         \/ q.firing /\ Emit(s, "fire", "anomaly")
         \/ ~q.firing /\ Emit(s, "resolve", "anomaly")
         \/ q.firing = sr[s].firing /\ events' = events
  PROVE  Tells(s, q)
<1> DEFINE a == <<s, "anomaly">> \in active
           b == <<s, "absent">> \in active
<1>1. /\ "anomaly" \in Kinds /\ "absent" \in Kinds /\ "anomaly" # "absent"
      /\ a \in BOOLEAN /\ b \in BOOLEAN
  BY DEF Kinds
<1>2. /\ Outcome(events[s], "anomaly", a) <=> sr[s].firing
      /\ Outcome(events[s], "absent", b) <=> sr[s].absent = "firing"
  BY DEF Matching
<1> HIDE DEF a, b
<1>3. CASE q.firing /\ Emit(s, "fire", "anomaly")
  <2>1. /\ Outcome(events'[s], "anomaly", a)
        /\ Outcome(events'[s], "absent", b) <=> Outcome(events[s], "absent", b)
    BY <1>1, <1>3, EmitOutcome
  <2> QED
    BY <1>2, <1>3, <2>1 DEF Tells, a, b
<1>4. CASE ~q.firing /\ Emit(s, "resolve", "anomaly")
  <2>1. /\ ~Outcome(events'[s], "anomaly", a)
        /\ Outcome(events'[s], "absent", b) <=> Outcome(events[s], "absent", b)
    BY <1>1, <1>4, EmitOutcome
  <2> QED
    BY <1>2, <1>4, <2>1 DEF Tells, a, b
<1>5. CASE q.firing = sr[s].firing /\ events' = events
  BY <1>2, <1>5 DEF Tells, a, b
<1> QED
  BY <1>3, <1>4, <1>5

LEMMA ScoreInv ==
  ASSUME IInv, NEW s \in Series, Score(s)
  PROVE  IInv'
<1> DEFINE r == sr[s]
<1>1. TypeOK /\ TypeOK' /\ SeriesInv(s) /\ r \in SeriesRecord /\ Matching(s)
  BY ScoreType DEF IInv, TypeOK, SeriesInv
<1>2. step[s] = "score" /\ Locked(s)
  BY DEF Score, ScoreMissing, ScoreAnomalous, ScoreNormal, Locked
<1>3. \A t \in Series \ {s} : events'[t] = events[t]
  BY <1>1 DEF TypeOK, Emit, Score, ScoreMissing, ScoreAnomalous, ScoreNormal
<1>4. /\ Last \in Int /\ MaxCatchUp \in Nat
      /\ r.missing \in Nat /\ r.lastEval \in Int /\ r.lastData \in Nat
  BY <1>1, OpenType, ConstantTypes, RecordTypes
<1>5. Has(s, r, r.lastEval) /\ s \in MetricSeries => r.lastEval <= r.lastData
  BY <1>1 DEF Has, SeriesInv, Dated
<1>6. CASE ScoreMissing(s)
  <2> DEFINE q == AfterMissing(r)
  <2>1. /\ q \in SeriesRecord /\ SameData(q, r) /\ q.missing = r.missing + 1
        /\ q.firing = (r.firing /\ ~ResolvesMissing(r))
    BY <1>1, AfterMissingFields
  <2>2. Scored(s, q)
    BY <1>6 DEF ScoreMissing
  <2>3. \/ ~q.firing /\ Emit(s, "resolve", "anomaly")
        \/ q.firing = r.firing /\ events' = events
    <3>1. r.firing \in BOOLEAN
      BY <1>1, RecordTypes
    <3> QED
      BY <1>6, <2>1, <3>1 DEF ScoreMissing
  <2> HIDE DEF q, r
  <2>4. Counts(s, q)
    <3>1. q.firing => r.firing /\ r.missing + 1 < 3
      <4>1. q.firing => r.firing /\ ~ResolvesMissing(r)
        BY <2>1
      <4>2. r.firing /\ ~ResolvesMissing(r) => r.missing + 1 < 3
        BY <1>4 DEF ResolvesMissing
      <4> QED
        BY <4>1, <4>2
    <3>2. Passed(s) = r.lastEval - 1
      BY <1>2 DEF Passed, r
    <3>3. s \in MetricSeries /\ r.firing =>
            \/ r.lastEval - 1 - r.lastData <= r.missing
            \/ r.lastEval - 1 - (Last - MaxCatchUp) <= r.missing
      BY <1>1, <3>2 DEF SeriesInv, Counting, r
    <3>4. q.lastEval = r.lastEval /\ q.lastData = r.lastData
      BY <2>1 DEF SameData
    <3> QED
      BY <1>4, <2>1, <3>1, <3>3, <3>4 DEF Counts
  <2>5. Tells(s, q)
    BY <1>1, <2>1, <2>3, EmitTells DEF SameData, r
  <2> QED
    BY <1>1, <1>2, <1>3, <2>1, <2>2, <2>4, <2>5, ScoredInv DEF r
<1>7. ASSUME NEW e \in Expectations(s), ScoreAnomalous(s, e)
      PROVE  IInv'
  <2> DEFINE q == AfterAnomaly(r, e)
  <2>1. /\ q \in SeriesRecord /\ SameData(q, r) /\ q.missing = 0
        /\ q.firing = (r.firing \/ Fires(r))
    BY <1>1, AfterAnomalyFields DEF Expectations
  <2>2. Scored(s, q) /\ Has(s, r, r.lastEval)
    BY <1>7 DEF ScoreAnomalous
  <2>3. \/ q.firing /\ Emit(s, "fire", "anomaly")
        \/ q.firing = r.firing /\ events' = events
    <3>1. r.firing \in BOOLEAN
      BY <1>1, RecordTypes
    <3> QED
      BY <1>7, <2>1, <3>1 DEF ScoreAnomalous
  <2> HIDE DEF q, r
  <2>4. Counts(s, q)
    BY <1>4, <1>5, <2>1, <2>2 DEF Counts, SameData
  <2>5. Tells(s, q)
    BY <1>1, <2>1, <2>3, EmitTells DEF SameData, r
  <2> QED
    BY <1>1, <1>2, <1>3, <2>1, <2>2, <2>4, <2>5, ScoredInv DEF r
<1>8. ASSUME NEW e \in Expectations(s), ScoreNormal(s, e)
      PROVE  IInv'
  <2> DEFINE q == AfterNormal(r, e)
  <2>1. /\ q \in SeriesRecord /\ SameData(q, r) /\ q.missing = 0
        /\ q.firing = (r.firing /\ ~Recovers(r))
    BY <1>1, AfterNormalFields DEF Expectations
  <2>2. Scored(s, q) /\ Has(s, r, r.lastEval)
    BY <1>8 DEF ScoreNormal
  <2>3. \/ ~q.firing /\ Emit(s, "resolve", "anomaly")
        \/ q.firing = r.firing /\ events' = events
    <3>1. r.firing \in BOOLEAN
      BY <1>1, RecordTypes
    <3> QED
      BY <1>8, <2>1, <3>1 DEF ScoreNormal
  <2> HIDE DEF q, r
  <2>4. Counts(s, q)
    BY <1>4, <1>5, <2>1, <2>2 DEF Counts, SameData
  <2>5. Tells(s, q)
    BY <1>1, <2>1, <2>3, EmitTells DEF SameData, r
  <2> QED
    BY <1>1, <1>2, <1>3, <2>1, <2>2, <2>4, <2>5, ScoredInv DEF r
<1> QED
  BY <1>6, <1>7, <1>8 DEF Score

\* gc finds no finding on a series it deletes: a firing metric series had data
\* in one of its last three buckets, and a ring is longer than that.
LEMMA DeadIsQuiet ==
  ASSUME IInv, NEW s \in Series, phase = "gc", Dead(s)
  PROVE  ~sr[s].firing /\ sr[s].absent # "firing"
<1> DEFINE r == sr[s]
<1>1. /\ TypeOK /\ SeriesInv(s) /\ r \in SeriesRecord /\ r.missing \in Nat
      /\ r.lastEval \in Int /\ r.lastData \in Nat /\ promOpen \in Int
      /\ PromRing \in Nat /\ PromRing >= 4
  BY RecordTypes, ConstantTypes DEF IInv, TypeOK
<1>2. ~Locked(s)
  BY <1>1 DEF SeriesInv, Locking
<1>3. CASE s \in MetricSeries
  <2>1. r.lastData < promOpen - PromRing /\ r.absent # "firing"
    BY <1>3 DEF Dead
  <2>2. ASSUME r.firing PROVE FALSE
    <3>1. promOpen <= 0 \/ promOpen - 1 <= r.lastEval
      BY <1>1, <1>3, <2>2 DEF SeriesInv, Walked
    <3>2. r.missing <= 2 /\ r.lastEval - r.lastData <= r.missing
      BY <1>1, <1>2, <1>3, <2>2 DEF SeriesInv, Counting, Passed
    <3> QED
      BY <1>1, <2>1, <3>1, <3>2
  <2> QED
    BY <2>1, <2>2
<1>4. CASE s \notin MetricSeries
  BY <1>1, <1>4, SeriesAssumption DEF Dead, SeriesInv, Flags
<1> QED
  BY <1>3, <1>4

LEMMA GcSeriesInv ==
  ASSUME IInv, NEW s \in Series, GcSeries(s)
  PROVE  IInv'
<1>1. /\ TypeOK /\ TypeOK' /\ SeriesInv(s) /\ ~Locked(s) /\ phase = "gc"
  BY EvaluateType DEF IInv, Evaluate, GcSeries, SeriesInv, Locking
<1>2. /\ OnlySeries(s) /\ todo' \subseteq todo /\ ~Locked(s)'
      /\ events' = events /\ active' = active /\ phase' = phase
  BY <1>1 DEF GcSeries, OnlySeries, TypeOK, Locked
<1>3. CASE s \in stored /\ Dead(s)
  <2>1. sr'[s] = NewSeries /\ s \notin stored'
    BY <1>1, <1>3 DEF GcSeries, TypeOK
  <2>2. /\ ~NewSeries.firing /\ NewSeries.absent = "none"
        /\ NewSeries.have = {}
    BY DEF NewSeries
  <2>3. ~sr[s].firing /\ sr[s].absent # "firing"
    BY <1>1, <1>3, DeadIsQuiet
  <2>4. SeriesInv(s)'
    BY <1>1, <1>2, <2>1, <2>2, <2>3
    DEF SeriesInv, Locking, Flags, Dated, Counting, Walked, Matching
  <2> QED
    BY <1>1, <1>2, <2>4, OneSeriesStep DEF GcSeries
<1>4. CASE ~(s \in stored /\ Dead(s))
  <2>1. stored' = stored /\ sr' = sr
    BY <1>4 DEF GcSeries
  <2>2. SeriesInv(s)'
    BY <1>1, <1>2, <2>1
    DEF SeriesInv, Locking, Flags, Dated, Counting, Passed, Walked, Matching,
        OnlySeries
  <2> QED
    BY <1>1, <1>2, <2>2, OneSeriesStep DEF GcSeries
<1> QED
  BY <1>3, <1>4

\* Between the passes no shard lock is held.
LEMMA NoneLocked ==
  ASSUME IInv, phase \in {"idle", "loaded", "gc"} \/ todo = {}
  PROVE  \A s \in Series : ~Locked(s)
BY DEF IInv, SeriesInv, Locking

LEMMA PhaseStepInv ==
  ASSUME IInv, EvalBegin \/ EvalMetrics \/ EvalLogs \/ Apply \/ EvalEnd
  PROVE  IInv'
<1>1. TypeOK /\ TypeOK' /\ \A s \in Series : SeriesInv(s)
  BY EvaluateType DEF IInv, Evaluate
<1>2. stored' = stored /\ sr' = sr /\ feed' = feed /\ step' = step
  BY DEF EvalBegin, EvalMetrics, EvalLogs, Apply, EvalEnd
<1>3. \A s \in Series : ~Locked(s) /\ ~Locked(s)'
  BY <1>2, NoneLocked DEF EvalBegin, EvalMetrics, EvalLogs, Apply, EvalEnd, Locked
<1>4. \A s \in Series : Locking(s)' /\ Flags(s)' /\ Dated(s)' /\ Counting(s)'
  BY <1>1, <1>2, <1>3 DEF SeriesInv, Locking, Flags, Dated, Counting, Passed
<1>5. promClock \in Nat /\ now \in Int /\ Grace \in Nat
      /\ promOpen \in Int /\ logOpen \in Int
  BY <1>1, ConstantTypes DEF TypeOK
<1>6. CASE EvalBegin \/ EvalMetrics \/ EvalLogs \/ EvalEnd
  <2>1. active' = active /\ events' = events
    BY <1>6 DEF EvalBegin, EvalMetrics, EvalLogs, EvalEnd
  <2>2. Clocks'
    BY <1>2, <1>5, <1>6
    DEF IInv, Clocks, feed, EvalBegin, EvalMetrics, EvalLogs, EvalEnd
  <2>3. Passes' /\ Quiet'
    BY <1>6, <2>1 DEF IInv, Passes, Quiet, EvalBegin, EvalMetrics, EvalLogs, EvalEnd
  <2>4. \A s \in Series : Matching(s)'
    BY <1>1, <1>2, <2>1 DEF SeriesInv, Matching
  <2>5. \A s \in Series : Walked(s)'
    BY <1>1, <1>2, <1>5, <1>6
    DEF IInv, Clocks, SeriesInv, Walked, EvalBegin, EvalMetrics, EvalLogs, EvalEnd
  <2> QED
    BY <1>1, <1>4, <2>2, <2>3, <2>4, <2>5 DEF IInv, SeriesInv
<1>7. CASE Apply
  <2>1. Clocks' /\ Passes' /\ Quiet'
    BY <1>7, <1>2 DEF IInv, Clocks, Passes, Quiet, Apply, feed
  <2>2. \A s \in Series : Walked(s)'
    BY <1>1, <1>2, <1>7 DEF SeriesInv, Walked, Apply
  <2>3. ASSUME NEW s \in Series, NEW k \in Kinds
        PROVE  Outcome(events'[s], k, (<<s, k>> \in active)')
                 <=> Outcome(events[s], k, <<s, k>> \in active)
    <3>1. events'[s] = <<>>
      BY <1>7 DEF Apply
    <3>2. <<s, k>> \in active' <=> Outcome(events[s], k, <<s, k>> \in active)
      BY <1>7 DEF Apply
    <3>3. (<<s, k>> \in active') \in BOOLEAN
      OBVIOUS
    <3> QED
      BY <3>1, <3>2, <3>3, OutcomeEmpty
  <2>4. \A s \in Series : Matching(s)'
    BY <1>1, <1>2, <2>3 DEF SeriesInv, Matching, Kinds
  <2> QED
    BY <1>1, <1>4, <2>1, <2>2, <2>4 DEF IInv, SeriesInv
<1> QED
  BY <1>6, <1>7

\* Samples and clocks only add: they reach no locked series and touch neither
\* the detector state nor the evaluator.
Grown(q, r) == /\ SameDetector(q, r) /\ q.lastData >= r.lastData
               /\ \A x \in q.have : x \in r.have \/ x <= q.lastData

LEMMA GrownSample ==
  ASSUME NEW s \in MetricSeries, NEW r \in SeriesRecord, NEW b \in Buckets
  PROVE  /\ Grown(Add(s, r, b), r)
         /\ Grown([Add(s, r, b) EXCEPT !.written = TRUE], r)
         /\ Grown([r EXCEPT !.undefData = Larger(@, b)], r)
         /\ Grown(r, r)
<1> DEFINE a == Add(s, r, b)
           u == Larger(r.undefData, b)
<1>1. s \in Series
  BY DEF Series
<1>2. a \in SeriesRecord /\ Grown(a, r)
  BY <1>1, AddKeeps DEF Grown
<1> HIDE DEF a, u
<1>3. Grown([a EXCEPT !.written = TRUE], r)
  BY <1>2 DEF Grown, SameDetector, SeriesRecord
<1>4. Grown([r EXCEPT !.undefData = u], r)
  BY RecordTypes DEF Grown, SameDetector, SeriesRecord
<1>5. Grown(r, r)
  BY RecordTypes DEF Grown, SameDetector
<1> QED
  BY <1>2, <1>3, <1>4, <1>5 DEF a, u

Feeding ==
  /\ stored \subseteq stored'
  /\ \A s \in Series :
       \/ sr'[s] = sr[s]
       \/ /\ ~Locked(s)
          /\ SameDetector(sr'[s], sr[s]) /\ sr'[s].lastData >= sr[s].lastData
          /\ s \in MetricSeries => Grown(sr'[s], sr[s])
  /\ promClock' >= promClock /\ now' >= now
  /\ UNCHANGED <<evaluator, events, active>>

LEMMA UpdateFeeds ==
  ASSUME TypeOK, NEW s \in Series, NEW r \in SeriesRecord, Update(s, r),
         SameDetector(r, sr[s]), r.lastData >= sr[s].lastData,
         s \in MetricSeries => Grown(r, sr[s]),
         promClock' = promClock, now' = now, UNCHANGED <<evaluator, events, active>>
  PROVE  Feeding
<1>1. promClock \in Nat /\ now \in Int
  BY ConstantTypes DEF TypeOK
<1>2. sr'[s] = r /\ \A t \in Series \ {s} : sr'[t] = sr[t]
  BY DEF Update, TypeOK
<1> QED
  BY <1>1, <1>2 DEF Feeding, Update

LEMMA FeedFeeds ==
  ASSUME TypeOK, Feed
  PROVE  Feeding
<1>1. /\ \A s \in Series : sr[s] \in SeriesRecord
      /\ promClock \in Nat /\ now \in Int
      /\ MetricSeries \subseteq Series /\ LogSeries \subseteq Series
  BY ConstantTypes DEF TypeOK, Series
<1>2. ASSUME NEW w \in Writers, NEW s \in MetricSeries, NEW b \in Buckets,
             WriteSample(w, s, b)
      PROVE  Feeding
  BY <1>1, <1>2, SampleType, GrownSample, UpdateFeeds DEF WriteSample, Grown
<1>3. ASSUME NEW w \in Writers, NEW b \in Buckets, WriteOther(w, b)
      PROVE  Feeding
  BY <1>1, <1>3 DEF WriteOther, Feeding
<1>4. ASSUME NEW w \in Writers, WriteDone(w)
      PROVE  Feeding
  <2>1. newest[w] \in Nat
    BY ConstantTypes DEF TypeOK
  <2>2. promClock' >= promClock
    BY <1>1, <1>4, <2>1, LargerType DEF WriteDone
  <2> QED
    BY <1>1, <1>4, <2>2 DEF WriteDone, Feeding
<1>5. ASSUME NEW w \in Writers, WriteFail(w)
      PROVE  Feeding
  BY <1>1, <1>5 DEF WriteFail, Feeding
<1>6. ASSUME NEW s \in MetricSeries, NEW b \in Buckets, WriteUndef(s, b)
      PROVE  Feeding
  BY <1>1, <1>6, SampleType, GrownSample, UpdateFeeds
  DEF WriteUndef, Grown, feed
<1>7. ASSUME NEW s \in MetricSeries, NEW b \in Buckets, Backfill(s, b)
      PROVE  Feeding
  BY <1>1, <1>7, SampleType, GrownSample, UpdateFeeds DEF Backfill, Grown, feed
<1>8. ASSUME NEW s \in MetricSeries, WriteStale(s)
      PROVE  Feeding
  <2>1. SameDetector(sr[s], sr[s]) /\ sr[s].lastData >= sr[s].lastData
        /\ \A x \in sr[s].have : x \in sr[s].have
    BY <1>1, RecordTypes DEF SameDetector
  <2> QED
    BY <1>1, <1>8, <2>1, UpdateFeeds DEF WriteStale, Grown, feed
<1>9. ASSUME NEW s \in LogSeries, NEW b \in Buckets, LogPush(s, b)
      PROVE  Feeding
  BY <1>1, <1>9, SampleType, AddKeeps, UpdateFeeds, SeriesAssumption
  DEF LogPush, feed
<1>10. CASE Tick
  BY <1>1, <1>10 DEF Tick, Feeding
<1> QED
  BY <1>2, <1>3, <1>4, <1>5, <1>6, <1>7, <1>8, <1>9, <1>10 DEF Feed, RemoteWrite

LEMMA FeedInv ==
  ASSUME IInv, Feed
  PROVE  IInv'
<1>1. TypeOK /\ TypeOK' /\ Feeding
  BY FeedType, FeedFeeds DEF IInv
<1>2. /\ phase' = phase /\ promOpen' = promOpen /\ logOpen' = logOpen
      /\ todo' = todo /\ step' = step /\ events' = events /\ active' = active
      /\ stored \subseteq stored' /\ promClock' >= promClock /\ now' >= now
  BY <1>1 DEF Feeding, evaluator
<1>3. Clocks'
  <2>1. promClock \in Int /\ promClock' \in Int /\ now \in Int /\ now' \in Int
        /\ Grace \in Int /\ promOpen \in Int /\ logOpen \in Int
    BY <1>1, ConstantTypes DEF TypeOK
  <2>2. promOpen <= promClock - Grace /\ logOpen <= now - Grace
    BY DEF IInv, Clocks
  <2>3. \A x, y, z, g \in Int : x <= y - g /\ z >= y => x <= z - g
    OBVIOUS
  <2>4. promOpen <= promClock' - Grace /\ logOpen <= now' - Grace
    BY <1>2, <2>1, <2>2, <2>3, Zenon
  <2> QED
    BY <1>2, <2>4 DEF Clocks
<1>4. Passes' /\ Quiet'
  BY <1>2 DEF IInv, Passes, Quiet
<1>5. ASSUME NEW s \in Series PROVE SeriesInv(s)'
  <2>1. SeriesInv(s)
    BY DEF IInv
  <2>2. sr[s] \in SeriesRecord /\ sr'[s] \in SeriesRecord
    BY <1>1 DEF TypeOK
  <2>3. CASE sr'[s] = sr[s]
    BY <1>2, <2>1, <2>3
    DEF SeriesInv, Locking, Locked, Flags, Dated, Counting, Passed, Walked,
        Matching, Open, Last
  <2>4. CASE /\ ~Locked(s)
             /\ SameDetector(sr'[s], sr[s]) /\ sr'[s].lastData >= sr[s].lastData
             /\ s \in MetricSeries => Grown(sr'[s], sr[s])
    <3>1. ~Locked(s)'
      BY <1>2, <2>4 DEF Locked
    <3>2. Locking(s)' /\ Flags(s)' /\ Walked(s)' /\ Matching(s)'
      BY <1>2, <2>1, <2>4, <3>1
      DEF SeriesInv, Locking, Flags, Walked, Matching, SameDetector
    <3>3. Dated(s)'
      <4>1. sr[s].lastData \in Nat /\ sr'[s].lastData \in Nat
            /\ sr[s].have \subseteq Int
        BY <2>2, RecordTypes
      <4> QED
        BY <2>1, <2>4, <4>1 DEF SeriesInv, Dated, Grown
    <3>4. Counting(s)'
      <4>1. sr[s].lastData \in Nat /\ sr'[s].lastData \in Nat
            /\ sr[s].lastEval \in Int /\ sr[s].missing \in Nat
        BY <2>2, RecordTypes
      <4> QED
        BY <2>1, <2>4, <3>1, <4>1 DEF SeriesInv, Counting, Passed, SameDetector
    <3> QED
      BY <3>2, <3>3, <3>4 DEF SeriesInv
  <2> QED
    BY <1>1, <2>3, <2>4 DEF Feeding
<1> QED
  BY <1>1, <1>3, <1>4, <1>5 DEF IInv

LEMMA InitInv == Init => IInv
<1> SUFFICES ASSUME Init PROVE IInv
  OBVIOUS
<1>1. TypeOK
  BY InitType
<1>2. /\ phase = "idle" /\ active = {} /\ promClock = 0 /\ now = First
      /\ promOpen = 0 - Grace /\ logOpen = First - Grace
      /\ \A s \in Series : /\ sr[s] = NewSeries /\ step[s] = "free"
                           /\ events[s] = <<>>
  BY DEF Init
<1>3. Clocks /\ Passes /\ Quiet
  BY <1>2, ConstantTypes DEF Clocks, Passes, Quiet
<1>4. ASSUME NEW s \in Series PROVE SeriesInv(s)
  <2>1. /\ ~NewSeries.firing /\ NewSeries.absent = "none"
        /\ NewSeries.have = {}
    BY DEF NewSeries
  <2>2. Matching(s)
    <3>1. /\ (<<s, "anomaly">> \in active) \in BOOLEAN
          /\ (<<s, "absent">> \in active) \in BOOLEAN
      OBVIOUS
    <3>2. /\ <<s, "anomaly">> \notin active /\ <<s, "absent">> \notin active
          /\ sr[s] = NewSeries /\ events[s] = <<>>
      BY <1>2
    <3> QED
      BY <2>1, <3>1, <3>2, OutcomeEmpty DEF Matching
  <2> QED
    BY <1>2, <2>1, <2>2
    DEF SeriesInv, Locking, Locked, Flags, Dated, Counting, Walked
<1> QED
  BY <1>1, <1>3, <1>4 DEF IInv

LEMMA NextInv == IInv /\ [Next]_vars => IInv'
<1> SUFFICES ASSUME IInv, [Next]_vars PROVE IInv'
  OBVIOUS
<1>1. CASE UNCHANGED vars
  BY <1>1
  DEF vars, feed, evaluator, IInv, TypeOK, Clocks, Passes, Quiet, SeriesInv,
      Locking, Locked, Flags, Dated, Counting, Passed, Walked, Matching, Open, Last
<1>2. CASE Feed
  BY <1>2, FeedInv
<1>3. CASE Evaluate
  BY <1>3, PhaseStepInv, EvalSeriesInv, EvalNoSeriesInv, TrackAbsentInv, ScoreInv,
     GcSeriesInv DEF Evaluate
<1> QED
  BY <1>1, <1>2, <1>3 DEF Next

LEMMA Invariance == Spec => []IInv
BY InitInv, NextInv, PTL DEF Spec

-------------------------------------------------------------------------------
(* Theorems.                                                               *)

(***************************************************************************)
(* The findings, once the queued events are applied, are exactly the       *)
(* series that believe they fire: whatever the settings, gc never deletes  *)
(* a series that still has a finding (eval.go:151-194, 243-265, 511-519).  *)
(***************************************************************************)
THEOREM FindingsCorrect == Spec => []FindingsMatchSeries
<1>1. IInv => FindingsMatchSeries
  BY DEF IInv, SeriesInv, Matching, FindingsMatchSeries
<1> QED
  BY Invariance, <1>1, PTL

(***************************************************************************)
(* Between evaluations an active metric finding belongs to a series that   *)
(* had data in one of the last three buckets it scored (eval.go:157-162,   *)
(* README.md:212).                                                         *)
(***************************************************************************)
THEOREM SilenceResolves == Spec => []SilentSeriesResolved
<1>1. IInv => SilentSeriesResolved
  <2> SUFFICES ASSUME IInv, phase = "idle", NEW s \in MetricSeries,
                      <<s, "anomaly">> \in active
               PROVE  sr[s].lastEval - sr[s].lastData < 3
    BY DEF SilentSeriesResolved
  <2>1. /\ s \in Series /\ TypeOK /\ SeriesInv(s) /\ ~Locked(s)
        /\ events[s] = <<>>
    BY NoneLocked DEF IInv, Quiet, Series
  <2>2. sr[s].firing
    <3>1. (<<s, "anomaly">> \in active) \in BOOLEAN
      OBVIOUS
    <3> QED
      BY <2>1, <3>1, OutcomeEmpty DEF SeriesInv, Matching
  <2>3. sr[s].missing \in Nat /\ sr[s].lastEval \in Int /\ sr[s].lastData \in Nat
    BY <2>1, RecordTypes DEF TypeOK
  <2>4. sr[s].missing <= 2 /\ sr[s].lastEval - sr[s].lastData <= sr[s].missing
    BY <2>1, <2>2 DEF SeriesInv, Counting, Passed
  <2> QED
    BY <2>3, <2>4
<1> QED
  BY Invariance, <1>1, PTL

(***************************************************************************)
(* The bucket a series scores is over by the clock of its kind, grace      *)
(* included, and behind the head of the series (eval.go:101-105, 115-125). *)
(***************************************************************************)
THEOREM ClosedBuckets == Spec => []OnlyClosedBucketsScored
<1>1. IInv => OnlyClosedBucketsScored
  <2> SUFFICES ASSUME IInv, NEW s \in Series, Locked(s)
               PROVE  /\ sr[s].lastEval + Grace
                           < (IF s \in MetricSeries THEN promClock ELSE now)
                      /\ sr[s].head = NoHead \/ sr[s].lastEval < sr[s].head
    BY DEF OnlyClosedBucketsScored
  <2>1. /\ TypeOK /\ SeriesInv(s) /\ Locking(s) /\ Clocks /\ Passes
    BY DEF IInv, SeriesInv
  <2>2. /\ promClock \in Int /\ now \in Int /\ Grace \in Int
        /\ promOpen \in Int /\ logOpen \in Int
        /\ sr[s].lastEval \in Int /\ sr[s].head \in Int
        /\ Open \in Int /\ Last = Open - 1
    BY <2>1, RecordTypes, ConstantTypes, OpenType DEF TypeOK
  <2>3. /\ phase \in {"metrics", "logs"} /\ s \in todo
        /\ sr[s].lastEval <= Open - 1
        /\ sr[s].head = NoHead \/ Open <= sr[s].head
    BY <2>1, <2>2 DEF Locking
  <2>4. Open = IF s \in MetricSeries THEN promOpen ELSE logOpen
    BY <2>1, <2>3, SeriesAssumption DEF Passes, Open
  <2>5. promOpen <= promClock - Grace /\ logOpen <= now - Grace
    BY <2>1 DEF Clocks
  <2> QED
    BY <2>2, <2>3, <2>4, <2>5
<1> QED
  BY Invariance, <1>1, PTL

(***************************************************************************)
(* No bucket of a series is scored twice (eval.go:145-150).                *)
(***************************************************************************)
THEOREM OnceScored == Spec => ScoredOnce
<1> DEFINE Forward(s) ==
             /\ sr'[s].lastEval >= sr[s].lastEval
             /\ step[s] # "absent" /\ step'[s] = "absent"
                  => sr'[s].lastEval > sr[s].lastEval
<1>1. ASSUME TypeOK, [Next]_vars
      PROVE  [\A s \in stored \cap stored' : Forward(s)]_vars
  <2> SUFFICES ASSUME NEW t \in stored \cap stored', ~UNCHANGED vars
               PROVE  Forward(t)
    OBVIOUS
  <2>1. t \in Series /\ sr[t] \in SeriesRecord /\ sr[t].lastEval \in Int
    BY <1>1, RecordTypes DEF TypeOK
  <2>2. CASE sr'[t].lastEval = sr[t].lastEval /\ (step'[t] = step[t] \/ step'[t] # "absent")
    BY <2>1, <2>2
  <2>3. CASE Feed
    BY <1>1, <2>1, <2>2, <2>3, FeedFeeds DEF Feeding, SameDetector, evaluator
  <2>4. CASE EvalBegin \/ EvalMetrics \/ EvalLogs \/ Apply \/ EvalEnd
    BY <2>2, <2>4 DEF EvalBegin, EvalMetrics, EvalLogs, Apply, EvalEnd
  <2>5. ASSUME NEW s \in Series, EvalNoSeries(s)
        PROVE  Forward(t)
    BY <2>2, <2>5 DEF EvalNoSeries
  <2>6. ASSUME NEW s \in Series, EvalSeries(s)
        PROVE  Forward(t)
    <3>1. CASE t # s
      BY <1>1, <2>1, <2>2, <2>6, <3>1 DEF EvalSeries, TypeOK
    <3>2. CASE t = s
      <4> DEFINE r == Advance(s, sr[s], Open)
      <4>1. r \in SeriesRecord /\ r.lastEval = sr[s].lastEval
        BY <1>1, <2>1, <3>2, AdvanceKeeps, OpenType, ZenonT(40) DEF SameDetector
      <4>2. /\ Start(r) \in Int /\ Start(r) > sr[s].lastEval
            /\ At(r, Start(r)).lastEval = Start(r)
        BY <1>1, <4>1, OpenType, AtFields
      <4>3. \/ sr'[s] = At(r, Start(r))
            \/ sr'[s] = r /\ step' = step
        BY <1>1, <2>6 DEF EvalSeries, TypeOK, At
      <4> HIDE DEF r
      <4> QED
        BY <2>1, <2>2, <3>2, <4>1, <4>2, <4>3
    <3> QED
      BY <3>1, <3>2
  <2>7. ASSUME NEW s \in Series, TrackAbsent(s)
        PROVE  Forward(t)
    <3>1. step' = [step EXCEPT ![s] = "score"]
      BY <2>7 DEF ToScore, TrackAbsent, NotTracked, DataReturned, StillAbsent,
                  CountAbsent, IgnoreAbsent
    <3>2. PICK q \in SeriesRecord :
            /\ sr' = sr \/ sr' = [sr EXCEPT ![s] = q]
            /\ q.lastEval = sr[s].lastEval
      <4>1. sr[s] \in SeriesRecord
        BY <1>1 DEF TypeOK
      <4> QED
        BY <2>7, <4>1, AbsenceFields
        DEF SameScore, TrackAbsent, NotTracked, DataReturned, StillAbsent,
            CountAbsent, IgnoreAbsent
    <3>3. sr'[t].lastEval = sr[t].lastEval
      BY <1>1, <2>1, <3>2 DEF TypeOK
    <3> QED
      BY <1>1, <2>1, <2>2, <3>1, <3>3 DEF TypeOK
  <2>8. ASSUME NEW s \in Series, Score(s)
        PROVE  Forward(t)
    <3>1. sr[s] \in SeriesRecord
      BY <1>1 DEF TypeOK
    <3>2. PICK r \in SeriesRecord : Scored(s, r) /\ r.lastEval = sr[s].lastEval
      <4>1. CASE ScoreMissing(s)
        BY <3>1, <4>1, AfterMissingFields DEF ScoreMissing, SameData
      <4>2. ASSUME NEW e \in Expectations(s), ScoreAnomalous(s, e)
            PROVE  Scored(s, AfterAnomaly(sr[s], e)) /\ e \in BOOLEAN
        BY <4>2 DEF ScoreAnomalous, Expectations
      <4>3. ASSUME NEW e \in Expectations(s), ScoreNormal(s, e)
            PROVE  Scored(s, AfterNormal(sr[s], e)) /\ e \in BOOLEAN
        BY <4>3 DEF ScoreNormal, Expectations
      <4> QED
        BY <2>8, <3>1, <4>1, <4>2, <4>3, AfterAnomalyFields, AfterNormalFields
        DEF Score, SameData
    <3>3. CASE t # s
      BY <1>1, <2>1, <2>2, <3>2, <3>3 DEF Scored, TypeOK
    <3>4. CASE t = s
      <4>1. /\ At(r, r.lastEval + 1).lastEval = r.lastEval + 1
            /\ [r EXCEPT !.lastEval = @ + 1] = At(r, r.lastEval + 1)
        BY AtFields, RecordTypes
      <4>2. \/ sr'[s] = At(r, r.lastEval + 1)
            \/ sr'[s] = r /\ step'[s] = "free"
        BY <1>1, <3>2, <4>1 DEF Scored, TypeOK
      <4> QED
        BY <2>1, <2>2, <3>2, <3>4, <4>1, <4>2
    <3> QED
      BY <3>3, <3>4
  <2>9. ASSUME NEW s \in Series, GcSeries(s)
        PROVE  Forward(t)
    BY <1>1, <2>1, <2>2, <2>9 DEF GcSeries, TypeOK
  <2> QED
    BY <1>1, <2>3, <2>4, <2>5, <2>6, <2>7, <2>8, <2>9 DEF Next, Evaluate
<1> QED
  BY <1>1, TypeCorrect, PTL DEF Spec, ScoredOnce

-------------------------------------------------------------------------------
(* Evaluation implements Alarms.                                           *)

AlarmStep == [Alarm!Next]_<<RaisedConditions, active, phase \in {"metrics", "logs"}>>

InRound == phase \in {"metrics", "logs"}

\* A step that leaves every flag and finding alone stutters.
LEMMA FlagsStutter ==
  ASSUME \A s \in Series : /\ sr'[s].firing <=> sr[s].firing
                           /\ sr'[s].absent = sr[s].absent,
         active' = active, InRound' <=> InRound
  PROVE  AlarmStep
<1>1. RaisedConditions' = RaisedConditions
  BY DEF RaisedConditions, Raised
<1>2. (phase \in {"metrics", "logs"})' = (phase \in {"metrics", "logs"})
  BY DEF InRound
<1> QED
  BY <1>1, <1>2 DEF AlarmStep

\* A step in a round that changes one flag raises or clears one condition.
LEMMA OneFlag ==
  ASSUME NEW s \in Series, NEW k \in Kinds, InRound, InRound', active' = active,
         \A t \in Series, j \in Kinds :
           <<t, j>> # <<s, k>> => (Raised(t, j)' <=> Raised(t, j))
  PROVE  AlarmStep
<1> DEFINE c == <<s, k>>
<1>1. c \in Series \X Kinds
  OBVIOUS
<1>2. \A d \in Series \X Kinds :
        d # c => (d \in RaisedConditions' <=> d \in RaisedConditions)
  BY DEF RaisedConditions
<1>3. /\ RaisedConditions \subseteq Series \X Kinds
      /\ RaisedConditions' \subseteq Series \X Kinds
  BY DEF RaisedConditions
<1>4. (phase \in {"metrics", "logs"})' = (phase \in {"metrics", "logs"})
  BY DEF InRound
<1> HIDE DEF c
<1>5. CASE c \in RaisedConditions /\ c \notin RaisedConditions'
  <2>1. RaisedConditions' = RaisedConditions \ {c}
    BY <1>2, <1>3, <1>5
  <2>2. Alarm!Clear(c)
    BY <1>4, <1>5, <2>1 DEF Alarm!Clear, InRound
  <2> QED
    BY <1>1, <2>2 DEF AlarmStep, Alarm!Next
<1>6. CASE c \notin RaisedConditions /\ c \in RaisedConditions'
  <2>1. RaisedConditions' = RaisedConditions \cup {c}
    BY <1>2, <1>3, <1>6
  <2>2. Alarm!Raise(c)
    BY <1>4, <1>6, <2>1 DEF Alarm!Raise, InRound
  <2> QED
    BY <1>1, <2>2 DEF AlarmStep, Alarm!Next
<1>7. CASE c \in RaisedConditions <=> c \in RaisedConditions'
  <2>1. RaisedConditions' = RaisedConditions
    BY <1>2, <1>3, <1>7
  <2> QED
    BY <1>4, <2>1 DEF AlarmStep
<1> QED
  BY <1>5, <1>6, <1>7

\* Storing samples touches no flag.
LEMMA FeedStutters ==
  ASSUME IInv, Feed
  PROVE  AlarmStep
<1>1. Feeding
  BY FeedFeeds DEF IInv
<1>2. \A s \in Series : /\ sr'[s].firing <=> sr[s].firing
                        /\ sr'[s].absent = sr[s].absent
  BY <1>1 DEF Feeding, SameDetector
<1>3. active' = active /\ (InRound' <=> InRound)
  BY <1>1 DEF Feeding, evaluator, InRound
<1> QED
  BY <1>2, <1>3, FlagsStutter

\* Opening a walk over the buckets of a series touches no flag.
LEMMA EvalSeriesStutters ==
  ASSUME IInv, NEW s \in Series, EvalSeries(s)
  PROVE  AlarmStep
<1> DEFINE r == Advance(s, sr[s], Open)
<1>1. TypeOK /\ r \in SeriesRecord /\ SameDetector(r, sr[s])
  BY AdvanceKeeps, OpenType DEF IInv, TypeOK
<1>2. Start(r) \in Int
  BY <1>1, OpenType
<1> HIDE DEF r
<1>3. \/ sr' = [sr EXCEPT ![s] = At(r, Start(r))]
      \/ sr' = [sr EXCEPT ![s] = r]
  BY DEF EvalSeries, At, r
<1>4. At(r, Start(r)).firing = r.firing /\ At(r, Start(r)).absent = r.absent
  BY <1>1, <1>2, AtFields
<1>5. \A t \in Series : /\ sr'[t].firing <=> sr[t].firing
                        /\ sr'[t].absent = sr[t].absent
  BY <1>1, <1>3, <1>4 DEF SameDetector, TypeOK
<1>6. active' = active /\ (InRound' <=> InRound)
  BY DEF EvalSeries, InRound
<1> QED
  BY <1>5, <1>6, FlagsStutter

\* trackAbsent changes at most the absence of its series.
LEMMA TrackAbsentSteps ==
  ASSUME IInv, NEW s \in Series, TrackAbsent(s)
  PROVE  AlarmStep
<1>1. TypeOK /\ Locking(s) /\ sr[s] \in SeriesRecord
  BY DEF IInv, TypeOK, SeriesInv
<1>2. step[s] = "absent" /\ active' = active /\ phase' = phase
  BY DEF ToScore, TrackAbsent, NotTracked, DataReturned, StillAbsent,
         CountAbsent, IgnoreAbsent
<1>3. InRound /\ InRound'
  BY <1>1, <1>2 DEF Locking, Locked, InRound
<1>4. \A t \in Series \ {s} : sr'[t] = sr[t]
  BY <1>1 DEF TypeOK, TrackAbsent, NotTracked, DataReturned, StillAbsent,
              CountAbsent, IgnoreAbsent
<1>5. SameScore(sr'[s], sr[s])
  BY <1>1, AbsenceFields
  DEF TypeOK, SameScore, TrackAbsent, NotTracked, DataReturned, StillAbsent,
      CountAbsent, IgnoreAbsent
<1>6. \A t \in Series, j \in Kinds :
        <<t, j>> # <<s, "absent">> => (Raised(t, j)' <=> Raised(t, j))
  BY <1>4, <1>5 DEF Raised, Kinds, SameScore
<1> QED
  BY <1>2, <1>3, <1>6, OneFlag DEF Kinds

\* Scoring a bucket changes at most the firing flag of its series.
LEMMA ScoreSteps ==
  ASSUME IInv, NEW s \in Series, Score(s)
  PROVE  AlarmStep
<1>1. TypeOK /\ Locking(s) /\ sr[s] \in SeriesRecord
  BY DEF IInv, TypeOK, SeriesInv
<1>2. PICK q \in SeriesRecord : Scored(s, q) /\ SameData(q, sr[s])
  <2>1. CASE ScoreMissing(s)
    BY <1>1, <2>1, AfterMissingFields DEF ScoreMissing
  <2>2. ASSUME NEW e \in Expectations(s), ScoreAnomalous(s, e)
        PROVE  \E q \in SeriesRecord : Scored(s, q) /\ SameData(q, sr[s])
    BY <1>1, <2>2, AfterAnomalyFields DEF ScoreAnomalous, Expectations
  <2>3. ASSUME NEW e \in Expectations(s), ScoreNormal(s, e)
        PROVE  \E q \in SeriesRecord : Scored(s, q) /\ SameData(q, sr[s])
    BY <1>1, <2>3, AfterNormalFields DEF ScoreNormal, Expectations
  <2> QED
    BY <2>1, <2>2, <2>3 DEF Score
<1>3. step[s] = "score" /\ active' = active /\ phase' = phase
  BY <1>2 DEF Score, ScoreMissing, ScoreAnomalous, ScoreNormal, Scored
<1>4. InRound /\ InRound'
  BY <1>1, <1>3 DEF Locking, Locked, InRound
<1>5. q.lastEval \in Int /\ q.lastEval + 1 \in Int
  BY RecordTypes
<1>6. At(q, q.lastEval + 1).absent = q.absent
      /\ [q EXCEPT !.lastEval = @ + 1] = At(q, q.lastEval + 1)
  BY <1>5, AtFields
<1>7. (\A t \in Series \ {s} : sr'[t] = sr[t]) /\ sr'[s].absent = sr[s].absent
  BY <1>1, <1>2, <1>6 DEF Scored, SameData, TypeOK
<1>8. \A t \in Series, j \in Kinds :
        <<t, j>> # <<s, "anomaly">> => (Raised(t, j)' <=> Raised(t, j))
  BY <1>7 DEF Raised, Kinds
<1> QED
  BY <1>3, <1>4, <1>8, OneFlag DEF Kinds

\* gc deletes no series with a flag set.
LEMMA GcSeriesStutters ==
  ASSUME IInv, NEW s \in Series, GcSeries(s)
  PROVE  AlarmStep
<1>1. TypeOK /\ phase = "gc" /\ phase' = phase /\ active' = active
  BY DEF IInv, GcSeries
<1>2. CASE s \in stored /\ Dead(s)
  <2>1. ~sr[s].firing /\ sr[s].absent # "firing"
    BY <1>1, <1>2, DeadIsQuiet
  <2>2. sr'[s] = NewSeries /\ \A t \in Series \ {s} : sr'[t] = sr[t]
    BY <1>1, <1>2 DEF GcSeries, TypeOK
  <2>3. ~NewSeries.firing /\ NewSeries.absent # "firing"
    BY DEF NewSeries
  <2>4. \A t \in Series, j \in Kinds : Raised(t, j)' <=> Raised(t, j)
    BY <2>1, <2>2, <2>3 DEF Raised
  <2>5. RaisedConditions' = RaisedConditions
    BY <2>4 DEF RaisedConditions
  <2> QED
    BY <1>1, <2>5 DEF AlarmStep
<1>3. CASE ~(s \in stored /\ Dead(s))
  BY <1>1, <1>3, FlagsStutter DEF GcSeries, InRound
<1> QED
  BY <1>2, <1>3

\* The steps between the passes begin a round, publish, or stutter.
LEMMA PhaseSteps ==
  ASSUME IInv, EvalBegin \/ EvalMetrics \/ EvalLogs \/ Apply \/ EvalEnd
  PROVE  AlarmStep
<1>1. sr' = sr
  BY DEF EvalBegin, EvalMetrics, EvalLogs, Apply, EvalEnd
<1>2. RaisedConditions' = RaisedConditions
  BY <1>1 DEF RaisedConditions, Raised
<1>3. CASE EvalBegin \/ EvalLogs \/ EvalEnd
  BY <1>1, <1>3, FlagsStutter DEF EvalBegin, EvalLogs, EvalEnd, InRound
<1>4. CASE EvalMetrics
  <2>1. Alarm!Begin
    BY <1>2, <1>4 DEF EvalMetrics, Alarm!Begin
  <2> QED
    BY <2>1 DEF AlarmStep, Alarm!Next
<1>5. CASE Apply
  <2>1. \A s \in Series : /\ Outcome(events[s], "anomaly", <<s, "anomaly">> \in active)
                               <=> Raised(s, "anomaly")
                          /\ Outcome(events[s], "absent", <<s, "absent">> \in active)
                               <=> Raised(s, "absent")
    BY DEF IInv, SeriesInv, Matching, Raised
  <2>2. \A s \in Series, k \in Kinds :
          Outcome(events[s], k, <<s, k>> \in active) <=> Raised(s, k)
    BY <2>1 DEF Kinds
  <2>3. active' = {k \in Series \X Kinds :
                     Outcome(events[k[1]], k[2], k \in active)}
    BY <1>5 DEF Apply
  <2>4. \A k \in Series \X Kinds :
          Outcome(events[k[1]], k[2], k \in active) <=> Raised(k[1], k[2])
    <3> TAKE k \in Series \X Kinds
    <3>1. /\ k[1] \in Series /\ k[2] \in Kinds /\ <<k[1], k[2]>> = k
      OBVIOUS
    <3> QED
      BY <2>2, <3>1
  <2>5. active' = RaisedConditions
    BY <2>3, <2>4 DEF RaisedConditions
  <2>6. Alarm!Publish
    BY <1>2, <1>5, <2>5 DEF Apply, Alarm!Publish
  <2> QED
    BY <2>6 DEF AlarmStep, Alarm!Next
<1> QED
  BY <1>3, <1>4, <1>5

LEMMA InitAlarms == Init => Alarm!Init
<1> SUFFICES ASSUME Init PROVE Alarm!Init
  OBVIOUS
<1>1. ~NewSeries.firing /\ NewSeries.absent # "firing"
  BY DEF NewSeries
<1>2. RaisedConditions = {}
  BY <1>1 DEF Init, RaisedConditions, Raised
<1> QED
  BY <1>2 DEF Init, Alarm!Init

LEMMA NextAlarms == IInv /\ [Next]_vars => AlarmStep
<1> SUFFICES ASSUME IInv, [Next]_vars PROVE AlarmStep
  OBVIOUS
<1>1. CASE UNCHANGED vars
  BY <1>1, FlagsStutter DEF vars, evaluator, InRound
<1>2. CASE Feed
  BY <1>2, FeedStutters
<1>3. ASSUME NEW s \in Series, EvalNoSeries(s)
      PROVE  AlarmStep
  BY <1>3, FlagsStutter DEF EvalNoSeries, InRound
<1>4. CASE Evaluate
  BY <1>3, <1>4, PhaseSteps, EvalSeriesStutters, TrackAbsentSteps, ScoreSteps,
     GcSeriesStutters DEF Evaluate
<1> QED
  BY <1>1, <1>2, <1>4 DEF Next

(***************************************************************************)
(* The evaluator implements Alarms for every set of series and every       *)
(* setting: apply publishes exactly the raised flags, one condition        *)
(* changes at a time, and gc changes none (eval.go:145-265, 485-520).      *)
(***************************************************************************)
THEOREM AlarmsImplemented == Spec => ImplementsAlarms
<1>1. Init => Alarm!Init
  BY InitAlarms
<1>2. IInv /\ [Next]_vars => [Alarm!Next]_Alarm!avars
  BY NextAlarms DEF AlarmStep, Alarm!avars
<1> QED
  BY <1>1, <1>2, Invariance, PTL DEF Spec, Alarm!Spec, ImplementsAlarms

-------------------------------------------------------------------------------
(* What the counters mean: the history of verdicts of EvaluationHistory,   *)
(* for clocks that move at most MaxCatchUp buckets between two evaluations *)
(* (run eval_skip shows what happens beyond).                              *)

(* The inductive invariant.                                                *)

\* The hypothesis on the clocks.
Steadily == MaxJump <= MaxCatchUp

Unscorable == {"gap", "undef", "unscored"}
OpenOf(s)  == IF s \in MetricSeries THEN promOpen ELSE logOpen

\* The newest bucket of s whose absence step is done.
Looked(s) == IF step[s] = "absent" THEN sr[s].lastEval - 1 ELSE sr[s].lastEval

HTypes == /\ hist \in [Series -> [NoHead .. MaxB -> Verdicts]]
          /\ reached \subseteq Buckets
          /\ \A b \in Buckets : Seen(b) => b \in reached

\* The clocks are at most MaxJump buckets ahead of the evaluation that read them.
Steady == /\ promOpen > 0 => promClock > 0 /\ promClock - Grace - promOpen <= MaxJump
          /\ now - Grace - logOpen <= MaxJump
          /\ now <= MaxB \/ now = First

InRange(s) ==
  /\ NoHead <= sr[s].lastEval /\ sr[s].lastEval < OpenOf(s)
  /\ Locked(s) => NoHead < sr[s].lastEval
  /\ s \in stored /\ s \in LogSeries => First <= MaxB

\* No bucket before the first one holds a value.
Stock(r) == /\ r.head = NoHead \/ First <= r.head
            /\ \A x \in r.have : First <= x

\* There is no verdict yet on the buckets to come.
Unjudged(s) == \A b \in NoHead .. MaxB : b > Passed(s) => hist[s][b] = "-"

\* The counters count buckets in a row.
Pends(s) == Run(hist[s], Passed(s), sr[s].pending, {"anom"})
Misses(s) == sr[s].firing => Run(hist[s], Passed(s), sr[s].missing, Unscorable)
NormalSince(h, b) == \E x \in First .. b : /\ h[x] = "norm"
                                           /\ \A y \in x .. b : h[y] # "anom"
Recovered(s) == sr[s].normal > 0 => s \in stored /\ NormalSince(hist[s], Passed(s))

\* Other series reached the missed buckets, and nothing of s arrived in them.
Missing(s) == sr[s].absent = "none" /\ sr[s].absentRun > 0
MissedSince(s, since) ==
  /\ 0 < since /\ since <= Looked(s)
  /\ Cardinality(reached \cap (since .. Looked(s))) >= sr[s].absentRun
  /\ \A b \in since .. Passed(s) : hist[s][b] = "gap"
  /\ step[s] = "score" => ~Arrives(s, sr[s], sr[s].lastEval)
Absences(s) == /\ ~Tracked(s) => sr[s].absentRun = 0
               /\ Missing(s) => MissedSince(s, sr[s].absentSince)

\* The current evaluation, or the last one, has walked s.
Visited(s) ==
  \/ phase = "idle"
  \/ /\ s \in MetricSeries
     /\ phase \in {"logs", "gc"} \/ (phase = "metrics" /\ s \notin todo)
  \/ s \in LogSeries /\ (phase = "gc" \/ (phase = "logs" /\ s \notin todo))

\* A series that counts anything is never left behind by more than a jump.
Busy(s) == sr[s].pending > 0 \/ sr[s].firing \/ Missing(s)
Kept(s) ==
  Busy(s) => /\ s \in stored /\ Looked(s) > 0
             /\ ~Locked(s) => /\ sr[s].lastEval >= OpenOf(s) - 1 - MaxJump
                              /\ Visited(s) => sr[s].lastEval >= OpenOf(s) - 1

HistInv(s) == /\ InRange(s) /\ Stock(sr[s]) /\ Unjudged(s) /\ Pends(s) /\ Misses(s)
              /\ Recovered(s) /\ Absences(s) /\ Kept(s)

HIInv == IInv /\ HTypes /\ Steady /\ \A s \in Series : HistInv(s)

-------------------------------------------------------------------------------
(* Records: what each operator on a series leaves alone.                   *)

SameCounters(q, r) ==
  /\ q.pending = r.pending /\ q.normal = r.normal
  /\ q.absentRun = r.absentRun /\ q.absentSince = r.absentSince

LEMMA WithDataCounters ==
  ASSUME NEW r \in SeriesRecord, NEW h, NEW v, NEW l
  PROVE  SameCounters(WithData(r, h, v, l), r)
BY DEF SameCounters, WithData, SeriesRecord

LEMMA AdvanceStock ==
  ASSUME NEW s \in Series, NEW r \in SeriesRecord, NEW b \in Int, Stock(r)
  PROVE  Stock(Advance(s, r, b)) /\ SameCounters(Advance(s, r, b), r)
<1> DEFINE v == IF s \in LogSeries THEN r.have \cup (r.head .. b) ELSE r.have
<1>1. r.head \in Int /\ r.have \in SUBSET Int /\ First \in Int /\ r.lastData \in BucketOrNone
  BY RecordTypes, ConstantTypes
<1>2. CASE r.head = NoHead \/ b <= r.head
  BY <1>2 DEF Advance, SameCounters
<1>3. CASE ~(r.head = NoHead \/ b <= r.head)
  <2>1. v \in SUBSET Int /\ First <= b /\ \A x \in v : First <= x
    BY <1>1, <1>3 DEF Stock
  <2>2. Advance(s, r, b) = WithData(r, b, v, r.lastData)
    BY <1>3 DEF Advance
  <2> HIDE DEF v
  <2>3. /\ Advance(s, r, b).head = b /\ Advance(s, r, b).have = v
    BY <1>1, <2>1, <2>2, WithDataFields
  <2> QED
    BY <2>1, <2>2, <2>3, WithDataCounters DEF Stock
<1> QED
  BY <1>2, <1>3

LEMMA AddStock ==
  ASSUME NEW s \in Series, NEW r \in SeriesRecord, NEW b \in Buckets, Stock(r)
  PROVE  Stock(Add(s, r, b)) /\ SameCounters(Add(s, r, b), r)
<1> DEFINE a == Advance(s, r, b)
           v == IF b > a.head - Ring(s) THEN a.have \cup {b} ELSE a.have
<1>1. b \in Int /\ First <= b /\ First \in Int
  BY ConstantTypes
<1>2. a \in SeriesRecord /\ Stock(a) /\ SameCounters(a, r)
  BY <1>1, AdvanceKeeps, AdvanceStock
<1>3. Add(s, r, b) = WithData(a, Larger(a.head, b), v, Larger(a.lastData, b))
  BY DEF Add
<1> HIDE DEF a
<1>4. a.head \in Int /\ a.have \in SUBSET Int /\ a.lastData \in BucketOrNone
  BY <1>2, RecordTypes
<1>5. /\ v \in SUBSET Int /\ \A x \in v : First <= x
      /\ Larger(a.head, b) \in Int /\ First <= Larger(a.head, b)
      /\ Larger(a.lastData, b) \in BucketOrNone
  <2>1. Larger(a.head, b) \in Int /\ First <= Larger(a.head, b)
    BY <1>1, <1>4, LargerType
  <2>2. v \in SUBSET Int /\ \A x \in v : First <= x
    BY <1>1, <1>2, <1>4 DEF Stock
  <2>3. b \in BucketOrNone
    BY ConstantTypes
  <2> QED
    BY <1>4, <2>1, <2>2, <2>3, LargerBucket
<1> HIDE DEF v
<1>6. Add(s, r, b).head = Larger(a.head, b) /\ Add(s, r, b).have = v
  BY <1>2, <1>3, <1>5, WithDataFields
<1>7. SameCounters(Add(s, r, b), a)
  BY <1>2, <1>3, WithDataCounters
<1> QED
  BY <1>2, <1>5, <1>6, <1>7 DEF Stock, SameCounters

LEMMA SampleStock ==
  ASSUME NEW s \in Series, NEW r \in SeriesRecord, NEW b \in Buckets, Stock(r)
  PROVE  /\ Stock([Add(s, r, b) EXCEPT !.written = TRUE])
         /\ SameCounters([Add(s, r, b) EXCEPT !.written = TRUE], r)
         /\ Stock([r EXCEPT !.undefData = Larger(@, b)])
         /\ SameCounters([r EXCEPT !.undefData = Larger(@, b)], r)
<1> DEFINE a == Add(s, r, b)
           u == Larger(r.undefData, b)
<1>1. a \in SeriesRecord /\ Stock(a) /\ SameCounters(a, r)
  BY AddKeeps, AddStock
<1> HIDE DEF a, u
<1>2. /\ Stock([a EXCEPT !.written = TRUE])
      /\ SameCounters([a EXCEPT !.written = TRUE], r)
  BY <1>1 DEF Stock, SameCounters, SeriesRecord
<1>3. Stock([r EXCEPT !.undefData = u]) /\ SameCounters([r EXCEPT !.undefData = u], r)
  BY DEF Stock, SameCounters, SeriesRecord
<1> QED
  BY <1>2, <1>3 DEF a, u

LEMMA AtCounters ==
  ASSUME NEW r \in SeriesRecord, NEW b \in Int
  PROVE  SameCounters(At(r, b), r) /\ (Stock(At(r, b)) <=> Stock(r))
BY DEF SameCounters, Stock, At, SeriesRecord

\* What a verdict leaves alone, and what it makes of the counters.
SameAbsence(q, r) == /\ q.absent = r.absent /\ q.absentRun = r.absentRun
                     /\ q.absentSince = r.absentSince

LEMMA VerdictCounters ==
  ASSUME NEW r \in SeriesRecord, NEW e \in BOOLEAN
  PROVE  /\ /\ SameAbsence(AfterMissing(r), r) /\ AfterMissing(r).pending = 0
            /\ AfterMissing(r).normal = IF ResolvesMissing(r) THEN 0 ELSE r.normal
         /\ /\ SameAbsence(AfterAnomaly(r, e), r)
            /\ AfterAnomaly(r, e).pending = r.pending + 1 /\ AfterAnomaly(r, e).normal = 0
         /\ /\ SameAbsence(AfterNormal(r, e), r) /\ AfterNormal(r, e).pending = 0
            /\ AfterNormal(r, e).normal = r.normal + 1
<1>1. /\ SameAbsence(AfterMissing(r), r) /\ AfterMissing(r).pending = 0
      /\ AfterMissing(r).normal = IF ResolvesMissing(r) THEN 0 ELSE r.normal
  BY DEF AfterMissing, SameAbsence, SeriesRecord
<1>2. /\ SameAbsence(AfterAnomaly(r, e), r)
      /\ AfterAnomaly(r, e).pending = r.pending + 1 /\ AfterAnomaly(r, e).normal = 0
  BY DEF AfterAnomaly, SameAbsence, SeriesRecord
<1>3. /\ SameAbsence(AfterNormal(r, e), r) /\ AfterNormal(r, e).pending = 0
      /\ AfterNormal(r, e).normal = r.normal + 1
  BY DEF AfterNormal, SameAbsence, SeriesRecord
<1> QED
  BY <1>1, <1>2, <1>3

\* What an absence step leaves alone, and what it makes of the run.
SameJudgement(q, r) == /\ q.pending = r.pending /\ q.normal = r.normal
                       /\ q.undefData = r.undefData

LEMMA AbsenceCounters ==
  ASSUME NEW r \in SeriesRecord
  PROVE  /\ SameJudgement(AfterData(r), r) /\ AfterData(r).absentRun = 0
         /\ SameJudgement(AfterExpiry(r), r) /\ AfterExpiry(r).absentRun = r.absentRun
         /\ SameJudgement(AfterMiss(r), r) /\ AfterMiss(r).absentRun = r.absentRun + 1
         /\ AfterMiss(r).absentSince = IF r.absentRun = 0 THEN r.lastEval ELSE r.absentSince
<1>1. SameJudgement(AfterData(r), r) /\ AfterData(r).absentRun = 0
  BY DEF AfterData, SameJudgement, SeriesRecord
<1>2. SameJudgement(AfterExpiry(r), r) /\ AfterExpiry(r).absentRun = r.absentRun
  BY DEF AfterExpiry, SameJudgement, SeriesRecord
<1>3. /\ SameJudgement(AfterMiss(r), r) /\ AfterMiss(r).absentRun = r.absentRun + 1
      /\ AfterMiss(r).absentSince = IF r.absentRun = 0 THEN r.lastEval ELSE r.absentSince
  BY DEF AfterMiss, SameJudgement, SeriesRecord
<1> QED
  BY <1>1, <1>2, <1>3

-------------------------------------------------------------------------------
(* Runs of verdicts.                                                       *)

Histories == [NoHead .. MaxB -> Verdicts]

LEMMA RunEmpty ==
  ASSUME NEW h, NEW b, NEW V
  PROVE  Run(h, b, 0, V)
BY DEF Run

LEMMA RunGrows ==
  ASSUME NEW h \in Histories, NEW b \in NoHead .. MaxB, NEW n \in Nat, NEW V,
         NEW v \in V, Run(h, b - 1, n, V)
  PROVE  Run([h EXCEPT ![b] = v], b, n + 1, V)
<1> DEFINE g == [h EXCEPT ![b] = v]
<1>1. DOMAIN g = NoHead .. MaxB /\ DOMAIN h = NoHead .. MaxB /\ NoHead \in Int /\ MaxB \in Int
      /\ b \in Int
  BY ConstantTypes DEF Histories
<1> SUFFICES ASSUME NEW i \in 0 .. n PROVE b - i \in DOMAIN g /\ g[b - i] \in V
  BY <1>1 DEF Run
<1>2. CASE i = 0
  BY <1>1, <1>2 DEF Histories
<1>3. CASE i # 0
  <2>1. i - 1 \in 0 .. n - 1 /\ (b - 1) - (i - 1) = b - i /\ b - i # b
    BY <1>1, <1>3
  <2>2. b - i \in DOMAIN h /\ h[b - i] \in V
    BY <2>1 DEF Run
  <2> QED
    BY <1>1, <2>1, <2>2
<1> QED
  BY <1>2, <1>3

LEMMA RunPart ==
  ASSUME NEW h, NEW b \in Int, NEW n \in Nat, NEW m \in Nat, m <= n, NEW V, Run(h, b, n, V)
  PROVE  Run(h, b, m, V)
BY DEF Run

-------------------------------------------------------------------------------
(* The buckets the ring of seen buckets has held.                          *)

LEMMA ReachedMore ==
  ASSUME NEW S, NEW T, S \subseteq T, NEW i \in Int, NEW j \in Int, NEW k \in Int, j <= k
  PROVE  /\ Cardinality(S \cap (i .. j)) \in Nat /\ Cardinality(T \cap (i .. k)) \in Nat
         /\ Cardinality(S \cap (i .. j)) <= Cardinality(T \cap (i .. k))
<1>1. IsFiniteSet(i .. k)
  BY FS_Interval
<1>2. IsFiniteSet(T \cap (i .. k)) /\ S \cap (i .. j) \subseteq T \cap (i .. k)
  BY <1>1, FS_Subset
<1>3. IsFiniteSet(S \cap (i .. j))
  BY <1>2, FS_Subset
<1> QED
  BY <1>2, <1>3, FS_Subset, FS_CardinalityType

LEMMA ReachedNext ==
  ASSUME NEW S, NEW b \in S, b \in Int, NEW i \in Int, i <= b
  PROVE  /\ Cardinality(S \cap (i .. b - 1)) \in Nat
         /\ Cardinality(S \cap (i .. b)) = Cardinality(S \cap (i .. b - 1)) + 1
<1> DEFINE R == S \cap (i .. b - 1)
<1>1. IsFiniteSet(i .. b - 1)
  BY FS_Interval
<1>2. IsFiniteSet(R)
  BY <1>1, FS_Subset
<1>3. S \cap (i .. b) = R \cup {b} /\ b \notin R
  OBVIOUS
<1> HIDE DEF R
<1>4. Cardinality(R) \in Nat /\ Cardinality(R \cup {b}) = Cardinality(R) + 1
  BY <1>2, <1>3, FS_AddElement, FS_CardinalityType
<1> QED
  BY <1>3, <1>4 DEF R

\* A bucket the ring holds is one that can have samples.
LEMMA SeenBucket ==
  ASSUME HIInv, NEW b \in Int, Seen(b)
  PROVE  b \in Buckets /\ b \in reached /\ b > 0
<1>1. SeenLen \in Nat /\ SeenLen > 0
  BY SettingsAssumption
<1>2. b % SeenLen \in 0 .. SeenLen - 1
  BY <1>1
<1>3. promSeen[b % SeenLen] \in BucketOrNone /\ b > 0 /\ promSeen[b % SeenLen] = b
  BY <1>2 DEF HIInv, IInv, TypeOK, Seen
<1>4. b \in Buckets
  BY <1>3 DEF BucketOrNone
<1> QED
  BY <1>3, <1>4 DEF HIInv, HTypes

\* No step of the evaluator changes what it has seen.
LEMMA ReachedStays ==
  ASSUME HIInv, promSeen' = promSeen,
         reached' = reached \cup {b \in Buckets : Seen(b)'}
  PROVE  reached' = reached
<1>1. \A b \in Buckets : Seen(b)' => b \in reached
  BY DEF HIInv, HTypes, Seen
<1> QED
  BY <1>1

\* A stored series has only open buckets that the clocks can reach.
LEMMA OpenInRange ==
  ASSUME HIInv, NEW s \in stored
  PROVE  OpenOf(s) \in Int /\ OpenOf(s) <= MaxB
<1>1. /\ s \in Series /\ promOpen \in Int /\ logOpen \in Int /\ now \in Int
      /\ promClock \in BucketOrNone
  BY DEF HIInv, IInv, TypeOK
<1>2. promClock \in Nat /\ promClock <= MaxB /\ MaxB \in Nat /\ Grace \in Nat
      /\ First \in Nat
  BY <1>1, ConstantTypes DEF BucketOrNone, Buckets
<1>3. promOpen <= promClock - Grace /\ logOpen <= now - Grace
  BY DEF HIInv, IInv, Clocks
<1>4. CASE s \in MetricSeries
  BY <1>1, <1>2, <1>3, <1>4 DEF OpenOf
<1>5. CASE s \notin MetricSeries
  <2>1. First <= MaxB
    BY <1>1, <1>5 DEF HIInv, HistInv, InRange, Series
  <2>2. now <= MaxB
    BY <2>1 DEF HIInv, Steady
  <2> QED
    BY <1>1, <1>2, <1>3, <1>5, <2>2 DEF OpenOf
<1> QED
  BY <1>4, <1>5

-------------------------------------------------------------------------------
(* Steps of the evaluator on one series.                                   *)

LEMMA HInitInv == HInit => HIInv
<1> SUFFICES ASSUME HInit PROVE HIInv
  OBVIOUS
<1>1. /\ IInv /\ reached = {} /\ stored = {} /\ promClock = 0 /\ now = First
      /\ promOpen = 0 - Grace /\ logOpen = First - Grace
      /\ promSeen = [i \in 0 .. SeenLen - 1 |-> 0]
      /\ \A s \in Series : /\ sr[s] = NewSeries /\ step[s] = "free"
                           /\ hist[s] = NoVerdicts
      /\ hist = [s \in Series |-> NoVerdicts]
  BY InitInv DEF HInit, Init
<1>2. NoVerdicts \in [NoHead .. MaxB -> Verdicts]
  BY DEF NoVerdicts, Verdicts
<1>3. SeenLen \in Nat /\ SeenLen > 0 /\ MaxJump \in Nat
  BY SettingsAssumption
<1>4. HTypes
  <2>1. ASSUME NEW b \in Buckets, Seen(b) PROVE FALSE
    <3>1. b \in Int /\ b > 0
      BY ConstantTypes, <2>1 DEF Seen
    <3>2. b % SeenLen \in 0 .. SeenLen - 1
      BY <1>3, <3>1
    <3> QED
      BY <1>1, <2>1, <3>1, <3>2 DEF Seen
  <2> QED
    BY <1>1, <1>2, <2>1 DEF HTypes
<1>5. Steady
  BY <1>1, <1>3, ConstantTypes DEF Steady
<1>6. ASSUME NEW s \in Series PROVE HistInv(s)
  <2>1. /\ sr[s].head = NoHead /\ sr[s].have = {} /\ sr[s].lastEval = NoHead
        /\ sr[s].pending = 0 /\ sr[s].normal = 0 /\ ~sr[s].firing
        /\ sr[s].absentRun = 0 /\ ~Locked(s)
    BY <1>1 DEF NewSeries, Locked
  <2>2. NoHead < OpenOf(s) /\ NoHead \in Int
    BY <1>1, ConstantTypes DEF OpenOf, First, NoHead
  <2>3. InRange(s) /\ Stock(sr[s]) /\ Unjudged(s)
    BY <1>1, <2>1, <2>2 DEF InRange, Stock, Unjudged, NoVerdicts
  <2>4. Pends(s) /\ Misses(s) /\ Recovered(s) /\ Absences(s) /\ Kept(s)
    BY <2>1, RunEmpty DEF Pends, Misses, Recovered, Absences, Missing, Kept, Busy
  <2> QED
    BY <2>3, <2>4 DEF HistInv
<1> QED
  BY <1>1, <1>4, <1>5, <1>6 DEF HIInv

LEMMA HOthersKeep ==
  ASSUME NEW s \in Series, NEW t \in Series, t # s, OnlySeries(s), HistInv(t),
         hist'[t] = hist[t], reached' = reached
  PROVE  HistInv(t)'
<1>1. /\ sr'[t] = sr[t] /\ step'[t] = step[t] /\ (t \in stored' <=> t \in stored)
      /\ (t \in todo' <=> t \in todo)
      /\ phase' = phase /\ promOpen' = promOpen /\ logOpen' = logOpen
  BY DEF OnlySeries
<1>2. InRange(t)' /\ Stock(sr[t])' /\ Unjudged(t)'
  BY <1>1 DEF HistInv, InRange, Stock, Unjudged, Passed, Locked, OpenOf
<1>3. Pends(t)' /\ Misses(t)' /\ Recovered(t)'
  BY <1>1 DEF HistInv, Pends, Misses, Recovered, NormalSince, Run, Passed, Locked
<1>4. Absences(t)'
  BY <1>1 DEF HistInv, Absences, Missing, MissedSince, Looked, Passed, Locked, Tracked,
              Arrives, Has
<1>5. Kept(t)'
  BY <1>1 DEF HistInv, Kept, Busy, Missing, Looked, Locked, OpenOf, Visited
<1> QED
  BY <1>2, <1>3, <1>4, <1>5 DEF HistInv

\* What is left to show of a step of the evaluator on s.
LEMMA HOneSeriesStep ==
  ASSUME HIInv, IInv', NEW s \in Series, OnlySeries(s), HistInv(s)',
         feed' = feed, reached' = reached, hist' \in [Series -> Histories],
         \A t \in Series \ {s} : hist'[t] = hist[t]
  PROVE  HIInv'
<1>1. /\ promSeen' = promSeen /\ promClock' = promClock /\ now' = now
      /\ promOpen' = promOpen /\ logOpen' = logOpen
  BY DEF feed, OnlySeries
<1>2. HTypes'
  BY <1>1 DEF HIInv, HTypes, Histories, Seen
<1>3. Steady'
  BY <1>1 DEF HIInv, Steady
<1>4. \A t \in Series : HistInv(t)'
  BY HOthersKeep DEF HIInv
<1> QED
  BY <1>2, <1>3, <1>4 DEF HIInv

\* The bucket of a locked series is one that has no verdict yet.
LEMMA Judging ==
  ASSUME HIInv, NEW s \in Series, Locked(s)
  PROVE  /\ s \in stored /\ s \in todo /\ phase \in {"metrics", "logs"}
         /\ sr[s].lastEval \in NoHead .. MaxB /\ sr[s].lastEval - 1 \in NoHead .. MaxB
         /\ sr[s].lastEval \in Int /\ sr[s].lastEval <= Last
         /\ Open = OpenOf(s) /\ Last = OpenOf(s) - 1 /\ OpenOf(s) \in Int
         /\ Passed(s) = sr[s].lastEval - 1
<1>1. /\ TypeOK /\ s \in stored /\ s \in todo /\ phase \in {"metrics", "logs"}
      /\ sr[s].lastEval <= Last /\ NoHead < sr[s].lastEval
      /\ Passed(s) = sr[s].lastEval - 1
  BY DEF HIInv, IInv, SeriesInv, Locking, HistInv, InRange, Passed
<1>2. sr[s].lastEval \in Int /\ NoHead \in Int /\ MaxB \in Int
  BY <1>1, RecordTypes, ConstantTypes DEF TypeOK
<1>3. OpenOf(s) \in Int /\ OpenOf(s) <= MaxB
  BY <1>1, OpenInRange
<1>4. Open = OpenOf(s)
  BY <1>1, SeriesAssumption DEF HIInv, IInv, Passes, Open, OpenOf
<1>5. Last = OpenOf(s) - 1
  BY <1>4 DEF Last
<1> QED
  BY <1>1, <1>2, <1>3, <1>4, <1>5

-------------------------------------------------------------------------------
(* The phases of an evaluation.                                            *)

LEMMA HPhaseStepInv ==
  ASSUME HIInv, EvalBegin \/ EvalMetrics \/ EvalLogs \/ Apply \/ EvalEnd,
         UNCHANGED hist, reached' = reached
  PROVE  HIInv'
<1>1. /\ sr' = sr /\ stored' = stored /\ step' = step /\ hist' = hist
      /\ promSeen' = promSeen /\ promClock' = promClock /\ now' = now
  BY DEF EvalBegin, EvalMetrics, EvalLogs, Apply, EvalEnd, feed
<1>2. IInv'
  BY PhaseStepInv DEF HIInv
<1>3. \A s \in Series : ~Locked(s)
  BY NoneLocked DEF HIInv, EvalBegin, EvalMetrics, EvalLogs, Apply, EvalEnd
<1>4. HTypes'
  BY <1>1 DEF HIInv, HTypes, Seen
<1>5. /\ promClock \in Int /\ now \in Int /\ promOpen \in Int /\ logOpen \in Int
      /\ Grace \in Nat /\ MaxJump \in Nat
      /\ promOpen <= promClock - Grace /\ logOpen <= now - Grace
  BY ConstantTypes, SettingsAssumption DEF HIInv, IInv, TypeOK, Clocks
<1>6. \/ EvalBegin /\ promOpen' = promClock - Grace /\ logOpen' = now - Grace
      \/ /\ EvalMetrics \/ EvalLogs \/ Apply \/ EvalEnd
         /\ promOpen' = promOpen /\ logOpen' = logOpen
  BY DEF EvalBegin, EvalMetrics, EvalLogs, Apply, EvalEnd
<1>7. Steady'
  <2>1. CASE promOpen' = promClock - Grace /\ logOpen' = now - Grace
    BY <1>1, <1>5, <2>1 DEF HIInv, Steady
  <2>2. CASE promOpen' = promOpen /\ logOpen' = logOpen
    BY <1>1, <2>2 DEF HIInv, Steady
  <2> QED
    BY <1>6, <2>1, <2>2
<1>8. ASSUME NEW s \in Series PROVE HistInv(s)'
  <2> DEFINE e == sr[s].lastEval
             o == OpenOf(s)
             n == OpenOf(s)'
  <2>1. HistInv(s) /\ ~Locked(s) /\ ~Locked(s)' /\ e \in Int /\ Looked(s) = e
    BY <1>1, <1>3, RecordTypes DEF HIInv, IInv, TypeOK, Locked, Looked
  <2>2. o \in Int /\ n \in Int /\ o <= n
    BY <1>5, <1>6 DEF OpenOf
  <2>3. NoHead <= e /\ e < o /\ NoHead \in Int
    BY <2>1, ConstantTypes DEF HistInv, InRange
  <2>4. InRange(s)'
    <3>1. e < n
      BY <2>1, <2>2, <2>3
    <3> QED
      BY <1>1, <2>1, <2>3, <3>1 DEF HistInv, InRange
  <2>5. Stock(sr[s])' /\ Unjudged(s)' /\ Pends(s)' /\ Misses(s)' /\ Recovered(s)'
    BY <1>1, <2>1 DEF HistInv, Stock, Unjudged, Pends, Misses, Recovered, NormalSince,
                      Run, Passed, Locked
  <2>6. Absences(s)'
    BY <1>1, <2>1 DEF HistInv, Absences, Missing, MissedSince, Looked, Passed, Locked,
                      Tracked, Arrives, Has
  <2>7. Kept(s)'
    <3> SUFFICES ASSUME Busy(s)
                 PROVE  /\ s \in stored /\ e > 0
                        /\ e >= n - 1 - MaxJump
                        /\ Visited(s)' => e >= n - 1
      BY <1>1, <2>1 DEF Kept, Busy, Missing, Looked, Locked
    <3>1. /\ s \in stored /\ e > 0 /\ e >= o - 1 - MaxJump
          /\ Visited(s) => e >= o - 1
      BY <2>1 DEF HistInv, Kept
    <3>2. CASE EvalBegin
      <4>1. Visited(s) /\ ~Visited(s)'
        BY <3>2 DEF EvalBegin, Visited
      <4>2. e >= o - 1 /\ o > 0
        BY <2>1, <2>2, <2>3, <3>1, <4>1
      <4>3. n - o <= MaxJump
        BY <1>5, <1>6, <3>2, <4>2 DEF HIInv, Steady, OpenOf, EvalBegin,
           EvalMetrics, EvalLogs, Apply, EvalEnd
      <4> QED
        BY <1>5, <2>1, <2>2, <3>1, <4>1, <4>2, <4>3
    <3>3. CASE EvalMetrics \/ EvalLogs \/ Apply \/ EvalEnd
      <4>1. n = o
        BY <1>6, <3>3 DEF OpenOf, EvalMetrics, EvalLogs, Apply, EvalEnd
      <4>2. s \in MetricSeries => promClock > 0
        BY <1>5, <2>1, <2>3, <3>1 DEF HIInv, Steady, OpenOf
      <4>3. s \in MetricSeries <=> s \notin LogSeries
        BY SeriesAssumption DEF Series
      <4>4. Visited(s)' => Visited(s)
        BY <3>3, <4>2, <4>3 DEF Visited, EvalMetrics, EvalLogs, Apply, EvalEnd
      <4> QED
        BY <3>1, <4>1, <4>4
    <3> QED
      BY <1>6, <3>2, <3>3
  <2> QED
    BY <2>4, <2>5, <2>6, <2>7 DEF HistInv
<1> QED
  BY <1>2, <1>4, <1>7, <1>8 DEF HIInv

LEMMA HEvalNoSeriesInv ==
  ASSUME HIInv, NEW s \in Series, EvalNoSeries(s), UNCHANGED hist, reached' = reached
  PROVE  HIInv'
<1>1. IInv' /\ TypeOK /\ HistInv(s)
  BY EvalNoSeriesInv DEF HIInv, IInv
<1>2. /\ OnlySeries(s) /\ sr' = sr /\ step' = step /\ feed' = feed /\ hist' = hist
      /\ stored' = stored /\ s \notin stored
      /\ promOpen' = promOpen /\ logOpen' = logOpen
  BY <1>1 DEF EvalNoSeries, OnlySeries
<1>3. ~Busy(s) /\ ~Busy(s)'
  BY <1>1, <1>2 DEF HistInv, Kept, Busy, Missing
<1>4. InRange(s)' /\ Stock(sr[s])' /\ Unjudged(s)'
  BY <1>1, <1>2 DEF HistInv, InRange, Stock, Unjudged, Passed, Locked, OpenOf
<1>5. Pends(s)' /\ Misses(s)' /\ Recovered(s)'
  BY <1>1, <1>2 DEF HistInv, Pends, Misses, Recovered, NormalSince, Run, Passed, Locked
<1>6. Absences(s)'
  BY <1>1, <1>2 DEF HistInv, Absences, Missing, MissedSince, Looked, Passed, Locked,
                    Tracked, Arrives, Has
<1>7. HistInv(s)'
  BY <1>3, <1>4, <1>5, <1>6 DEF HistInv, Kept
<1>8. hist' \in [Series -> Histories] /\ \A t \in Series \ {s} : hist'[t] = hist[t]
  BY <1>2 DEF HIInv, HTypes, Histories
<1> QED
  BY <1>1, <1>2, <1>7, <1>8, HOneSeriesStep

\* The walk over a series starts where it stopped, unless nothing is counted.
LEMMA HEvalSeriesInv ==
  ASSUME HIInv, Steadily, NEW s \in Series, EvalSeries(s), UNCHANGED hist,
         reached' = reached
  PROVE  HIInv'
<1> DEFINE e == sr[s].lastEval
           r == Advance(s, sr[s], Open)
           b == Start(r)
           n == IF b <= Last THEN b ELSE e
           p == IF b <= Last THEN b - 1 ELSE e
<1>1. /\ TypeOK /\ IInv' /\ HistInv(s) /\ sr[s] \in SeriesRecord /\ e \in Int
      /\ feed' = feed /\ hist' = hist /\ stored' = stored
      /\ s \in stored /\ ~Locked(s) /\ phase \in {"metrics", "logs"} /\ phase' = phase
  BY EvalSeriesInv, RecordTypes DEF HIInv, IInv, TypeOK, EvalSeries
<1>2. OnlySeries(s) /\ todo' \subseteq todo
  BY <1>1 DEF EvalSeries, OnlySeries, TypeOK
<1>3. Open \in Int /\ Last = Open - 1 /\ Last \in Int /\ MaxCatchUp \in Nat
      /\ MaxJump \in Nat /\ MaxJump <= MaxCatchUp /\ MaxCatchUp >= 3
  BY <1>1, OpenType, SettingsAssumption DEF Steadily
<1>4. Open = OpenOf(s) /\ OpenOf(s)' = OpenOf(s)
  BY <1>1, <1>2, SeriesAssumption
  DEF HIInv, IInv, Passes, Open, OpenOf, EvalSeries, OnlySeries
<1>5. OpenOf(s) <= MaxB /\ MaxB \in Int /\ NoHead \in Int
  BY <1>1, OpenInRange, ConstantTypes
<1>6. /\ r \in SeriesRecord /\ SameDetector(r, sr[s])
      /\ Stock(r) /\ SameCounters(r, sr[s])
  <2>1. Stock(sr[s])
    BY <1>1 DEF HistInv
  <2> QED
    BY <1>1, <1>3, <2>1, AdvanceKeeps, AdvanceStock
<1>7. /\ r.lastEval = e /\ r.lastEval \in Int
      /\ b \in Int /\ b >= e + 1
      /\ b = e + 1 \/ b = Last - MaxCatchUp + 1
  BY <1>1, <1>3, <1>6, OpenType, RecordTypes DEF SameDetector, Start, Larger
<1> HIDE DEF r
<1>8. /\ sr'[s].lastEval = n /\ SameCounters(sr'[s], sr[s]) /\ Stock(sr'[s])
      /\ sr'[s].firing = sr[s].firing /\ sr'[s].missing = sr[s].missing
      /\ sr'[s].absent = sr[s].absent
  <2>1. /\ At(r, b).lastEval = b /\ SameCounters(At(r, b), r) /\ Stock(At(r, b))
        /\ At(r, b).firing = r.firing /\ At(r, b).missing = r.missing
        /\ At(r, b).absent = r.absent
    BY <1>6, <1>7, AtFields, AtCounters
  <2>2. sr'[s] = IF b <= Last THEN At(r, b) ELSE r
    BY <1>1 DEF EvalSeries, TypeOK, At, r
  <2> QED
    BY <1>6, <1>7, <2>1, <2>2 DEF SameCounters, SameDetector
<1>9. /\ step[s] = "free" /\ step'[s] = IF b <= Last THEN "absent" ELSE "free"
      /\ b > Last => s \notin todo'
  BY <1>1, <1>3, <1>7 DEF EvalSeries, TypeOK, Locked, r
<1>10. /\ Passed(s) = e /\ Looked(s) = e
       /\ Passed(s)' = p /\ Looked(s)' = p
  BY <1>8, <1>9 DEF Passed, Looked, Locked
<1>11. Busy(s) => p = e
  <2>1. Busy(s) => e >= Open - 1 - MaxJump
    BY <1>1, <1>4 DEF HistInv, Kept
  <2> QED
    BY <1>1, <1>3, <1>7, <2>1
<1>12. p \in Int /\ n \in Int /\ e <= p /\ p <= n /\ e <= n /\ n < OpenOf(s) /\ NoHead <= e
       /\ (p # e => p <= MaxB) /\ (b <= Last => e < n)
  <2>1. NoHead <= e /\ e < OpenOf(s)
    BY <1>1 DEF HistInv, InRange
  <2> QED
    BY <1>1, <1>3, <1>4, <1>5, <1>7, <2>1
<1> HIDE DEF b, n, p
<1>13. Busy(s)' <=> Busy(s)
  BY <1>8 DEF Busy, Missing, SameCounters
<1>14. InRange(s)' /\ Stock(sr[s])' /\ Unjudged(s)'
  <2>1. InRange(s)'
    BY <1>1, <1>4, <1>5, <1>8, <1>9, <1>12 DEF HistInv, InRange, Locked
  <2>2. Unjudged(s)'
    <3>1. \A x \in NoHead .. MaxB : x > p => x > e
      BY <1>1, <1>5, <1>12
    <3> QED
      BY <1>1, <1>10, <3>1 DEF HistInv, Unjudged
  <2> QED
    BY <1>8, <2>1, <2>2
<1>15. Pends(s)' /\ Misses(s)'
  <2>1. CASE Busy(s)
    BY <1>1, <1>8, <1>10, <1>11, <2>1 DEF HistInv, Pends, Misses, SameCounters
  <2>2. CASE ~Busy(s)
    <3>1. sr'[s].pending = 0 /\ ~sr'[s].firing
      BY <1>1, <1>8, <2>2, RecordTypes DEF Busy, SameCounters
    <3> QED
      BY <3>1, RunEmpty DEF Pends, Misses
  <2> QED
    BY <2>1, <2>2
<1>16. Recovered(s)'
  <2> SUFFICES ASSUME sr[s].normal > 0 PROVE NormalSince(hist[s], p)
    BY <1>1, <1>8, <1>10 DEF Recovered, NormalSince, SameCounters
  <2>1. PICK x \in First .. e : /\ hist[s][x] = "norm"
                                /\ \A y \in x .. e : hist[s][y] # "anom"
    BY <1>1, <1>10 DEF HistInv, Recovered, NormalSince
  <2>2. x \in Int /\ First \in Int /\ NoHead < 0
    BY <2>1, ConstantTypes
  <2>3. ASSUME NEW y \in x .. p PROVE hist[s][y] # "anom"
    <3>1. CASE y <= e
      BY <1>1, <2>1, <2>2, <3>1
    <3>2. CASE y > e
      <4>1. y \in NoHead .. MaxB
        BY <1>1, <1>5, <1>12, <2>2, <3>2
      <4>2. hist[s][y] = "-"
        BY <1>1, <1>10, <3>2, <4>1 DEF HistInv, Unjudged
      <4> QED
        BY <4>2
    <3> QED
      BY <1>1, <2>2, <3>1, <3>2
  <2>4. x \in First .. p
    BY <1>1, <1>12, <2>1, <2>2
  <2> QED
    BY <2>1, <2>3, <2>4 DEF NormalSince
<1>17. Absences(s)'
  <2>1. ~Tracked(s)' => sr'[s].absentRun = 0
    BY <1>1, <1>8 DEF HistInv, Absences, Tracked, SameCounters
  <2>2. Missing(s)' => Missing(s) /\ p = e
    BY <1>8, <1>11 DEF Missing, Busy, SameCounters
  <2>3. Missing(s) /\ p = e => MissedSince(s, sr[s].absentSince)'
    BY <1>1, <1>8, <1>9, <1>10 DEF HistInv, Absences, MissedSince, SameCounters
  <2>4. sr'[s].absentSince = sr[s].absentSince
    BY <1>8 DEF SameCounters
  <2> QED
    BY <2>1, <2>2, <2>3, <2>4 DEF Absences
<1>18. Kept(s)'
  <2> SUFFICES ASSUME Busy(s)
               PROVE  /\ s \in stored /\ p > 0
                      /\ step'[s] = "free" =>
                           /\ n >= Open - 1 - MaxJump
                           /\ n >= Open - 1
    BY <1>1, <1>4, <1>8, <1>10, <1>13 DEF Kept, Locked
  <2>1. e > 0
    BY <1>1, <1>10 DEF HistInv, Kept
  <2>2. step'[s] = "free" => b > Last
    BY <1>3, <1>7, <1>9 DEF b
  <2>3. b > Last => n = e /\ e >= Last
    BY <1>1, <1>3, <1>7 DEF b, n
  <2> QED
    BY <1>1, <1>3, <1>11, <2>1, <2>2, <2>3
<1>19. HistInv(s)'
  BY <1>14, <1>15, <1>16, <1>17, <1>18 DEF HistInv
<1>20. hist' \in [Series -> Histories] /\ \A t \in Series \ {s} : hist'[t] = hist[t]
  BY <1>1 DEF HIInv, HTypes, Histories
<1> QED
  BY <1>1, <1>2, <1>19, <1>20, HOneSeriesStep

\* A missed bucket that other series reached is one more in the run.
LEMMA MissCounted ==
  ASSUME HIInv, NEW s \in Series, CountAbsent(s)
  PROVE  LET q == AfterMiss(sr[s])
             b == sr[s].lastEval
         IN  /\ 0 < q.absentSince /\ q.absentSince <= b /\ q.absentSince \in Int
             /\ Cardinality(reached \cap (q.absentSince .. b)) >= q.absentRun
             /\ q.absentRun = sr[s].absentRun + 1
             /\ \A x \in q.absentSince .. b - 1 : hist[s][x] = "gap"
<1> DEFINE r == sr[s]
           q == AfterMiss(r)
           b == r.lastEval
<1>1. /\ r \in SeriesRecord /\ b \in Int /\ r.absentRun \in Nat /\ r.absentSince \in Int
      /\ HistInv(s) /\ r.absent = "none" /\ step[s] = "absent" /\ Seen(b)
  BY RecordTypes DEF HIInv, IInv, TypeOK, CountAbsent
<1>2. /\ q.absentRun = r.absentRun + 1
      /\ q.absentSince = IF r.absentRun = 0 THEN b ELSE r.absentSince
  BY <1>1, AbsenceCounters
<1>3. b \in reached /\ b > 0
  BY <1>1, SeenBucket
<1>4. Looked(s) = b - 1 /\ Passed(s) = b - 1
  BY <1>1 DEF Looked, Passed, Locked
<1> HIDE DEF q
<1>5. CASE r.absentRun = 0
  <2>1. /\ Cardinality(reached \cap (b .. b - 1)) \in Nat
        /\ Cardinality(reached \cap (b .. b)) = Cardinality(reached \cap (b .. b - 1)) + 1
    <3> HIDE DEF b
    <3>1. b <= b
      BY <1>1
    <3> QED
      BY <1>1, <1>3, <3>1, ReachedNext
  <2>2. Cardinality(reached \cap (b .. b)) >= 1
    BY <2>1
  <2> HIDE DEF r, b
  <2> QED
    BY <1>1, <1>2, <1>3, <1>5, <2>2 DEF q, r, b
<1>6. CASE r.absentRun > 0
  <2> DEFINE since == r.absentSince
  <2>1. MissedSince(s, since) /\ q.absentSince = since /\ since \in Int
    BY <1>1, <1>2, <1>6 DEF HistInv, Absences, Missing
  <2>2. /\ 0 < since /\ since <= b - 1
        /\ Cardinality(reached \cap (since .. b - 1)) >= r.absentRun
        /\ \A x \in since .. b - 1 : hist[s][x] = "gap"
    BY <1>4, <2>1 DEF MissedSince
  <2> HIDE DEF since
  <2>3. since <= b
    BY <1>1, <2>1, <2>2
  <2>4. /\ Cardinality(reached \cap (since .. b - 1)) \in Nat
        /\ Cardinality(reached \cap (since .. b))
             = Cardinality(reached \cap (since .. b - 1)) + 1
    <3> HIDE DEF b
    <3> QED
      BY <1>1, <1>3, <2>1, <2>3, ReachedNext, SMTT(40)
  <2>5. Cardinality(reached \cap (since .. b)) >= r.absentRun + 1
    BY <1>1, <2>2, <2>4
  <2> QED
    BY <1>1, <1>2, <2>1, <2>2, <2>3, <2>5 DEF q
<1> QED
  BY <1>1, <1>5, <1>6

LEMMA HTrackAbsentInv ==
  ASSUME HIInv, NEW s \in Series, TrackAbsent(s), UNCHANGED hist, reached' = reached
  PROVE  HIInv'
<1> DEFINE r == sr[s]
           q == sr'[s]
           b == r.lastEval
<1>1. /\ TypeOK /\ IInv' /\ HistInv(s) /\ r \in SeriesRecord /\ b \in Int
  BY TrackAbsentInv, RecordTypes DEF HIInv, IInv, TypeOK
<1>2. /\ \A t \in Series \ {s} : step'[t] = step[t]
      /\ step[s] = "absent" /\ step'[s] = "score"
      /\ UNCHANGED <<stored, feed, phase, promOpen, logOpen, todo, active, hist>>
  BY <1>1 DEF TypeOK, ToScore, TrackAbsent, NotTracked, DataReturned, StillAbsent,
              CountAbsent, IgnoreAbsent
<1>3. \A t \in Series \ {s} : sr'[t] = sr[t] /\ events'[t] = events[t]
  BY <1>1 DEF TypeOK, Emit, TrackAbsent, NotTracked, DataReturned, StillAbsent,
              CountAbsent, IgnoreAbsent
<1>4. OnlySeries(s)
  BY <1>2, <1>3 DEF OnlySeries
<1>5. SameScore(q, r) /\ SameJudgement(q, r)
  <2>1. SameScore(r, r) /\ SameJudgement(r, r)
    BY DEF SameScore, SameJudgement
  <2>2. q \in {r, AfterData(r), AfterExpiry(r), AfterMiss(r)}
    BY <1>1 DEF TypeOK, TrackAbsent, NotTracked, DataReturned, StillAbsent,
                CountAbsent, IgnoreAbsent
  <2> QED
    BY <1>1, <2>1, <2>2, AbsenceFields, AbsenceCounters
<1>6. /\ Locked(s) /\ Locked(s)' /\ s \in stored /\ q.lastEval = b
      /\ Passed(s) = b - 1 /\ Passed(s)' = b - 1 /\ Looked(s) = b - 1 /\ Looked(s)' = b
  <2>1. Locked(s) /\ Locked(s)' /\ q.lastEval = b
    BY <1>2, <1>5 DEF Locked, SameScore
  <2>2. s \in stored
    BY <2>1, Judging
  <2> QED
    BY <1>2, <2>1, <2>2 DEF Passed, Looked
<1>7. InRange(s)' /\ Stock(q) /\ Unjudged(s)' /\ Pends(s)' /\ Misses(s)' /\ Recovered(s)'
  <2>1. InRange(s)' /\ Stock(q)
    BY <1>1, <1>2, <1>5, <1>6 DEF HistInv, InRange, Stock, OpenOf, SameScore
  <2>2. Unjudged(s)' /\ Pends(s)' /\ Misses(s)' /\ Recovered(s)'
    BY <1>1, <1>2, <1>5, <1>6
    DEF HistInv, Unjudged, Pends, Misses, Recovered, SameScore, SameJudgement
  <2> QED
    BY <2>1, <2>2
<1>8. (~Tracked(s) => q.absentRun = 0) /\ (Missing(s)' => MissedSince(s, sr[s].absentSince)')
  <2>1. CASE NotTracked(s)
    <3>1. q.absentRun = 0
      BY <1>1, <2>1 DEF NotTracked, HistInv, Absences
    <3> QED
      BY <3>1 DEF Missing
  <2>2. CASE DataReturned(s)
    <3>1. q = AfterData(r)
      BY <1>1, <2>2 DEF DataReturned, TypeOK
    <3>2. q.absentRun = 0
      BY <1>1, <3>1, AbsenceCounters
    <3> QED
      BY <3>2 DEF Missing
  <2>3. CASE StillAbsent(s)
    <3>1. q = r \/ q = AfterExpiry(r)
      BY <1>1, <2>3 DEF StillAbsent, TypeOK
    <3>2. q.absent # "none"
      BY <1>1, <2>3, <3>1, AbsenceFields DEF StillAbsent
    <3> QED
      BY <2>3, <3>2 DEF StillAbsent, Missing
  <2>4. CASE CountAbsent(s)
    <3>1. q = AfterMiss(r) /\ Tracked(s) /\ ~Arrives(s, r, b)
      BY <1>1, <2>4 DEF CountAbsent, TypeOK
    <3>2. /\ 0 < q.absentSince /\ q.absentSince <= b
          /\ Cardinality(reached \cap (q.absentSince .. b)) >= q.absentRun
          /\ \A x \in q.absentSince .. b - 1 : hist[s][x] = "gap"
      BY <2>4, <3>1, MissCounted
    <3>3. ~Arrives(s, q, q.lastEval)
      BY <1>5, <3>1 DEF Arrives, Has, SameScore, SameJudgement
    <3>4. MissedSince(s, sr[s].absentSince)'
      BY <1>2, <1>6, <3>2, <3>3 DEF MissedSince, Arrives, Has
    <3> QED
      BY <3>1, <3>4
  <2>5. CASE IgnoreAbsent(s)
    <3>1. q = r /\ Tracked(s) /\ ~Arrives(s, r, b)
      BY <2>5 DEF IgnoreAbsent
    <3>2. ASSUME Missing(s)' PROVE MissedSince(s, sr[s].absentSince)'
      <4> DEFINE since == r.absentSince
      <4>1. Missing(s) /\ since \in Int /\ r.absentRun \in Nat
        BY <1>1, <3>1, <3>2, RecordTypes DEF Missing
      <4>2. /\ 0 < since /\ since <= b - 1
            /\ Cardinality(reached \cap (since .. b - 1)) >= r.absentRun
            /\ \A x \in since .. b - 1 : hist[s][x] = "gap"
        BY <1>1, <1>6, <4>1 DEF HistInv, Absences, MissedSince
      <4> HIDE DEF since
      <4>3. /\ Cardinality(reached \cap (since .. b - 1)) \in Nat
            /\ Cardinality(reached \cap (since .. b)) \in Nat
            /\ Cardinality(reached \cap (since .. b - 1))
                 <= Cardinality(reached \cap (since .. b))
        <5> HIDE DEF b
        <5>1. b - 1 \in Int /\ b - 1 <= b
          BY <1>1
        <5> QED
          BY <1>1, <4>1, <5>1, ReachedMore
      <4>4. since <= b /\ Cardinality(reached \cap (since .. b)) >= r.absentRun
        BY <1>1, <4>1, <4>2, <4>3
      <4> QED
        BY <1>2, <1>6, <3>1, <4>2, <4>4 DEF MissedSince, Arrives, Has, since
    <3> QED
      BY <3>1, <3>2
  <2> QED
    BY <2>1, <2>2, <2>3, <2>4, <2>5 DEF TrackAbsent
<1>9. Absences(s)'
  BY <1>8 DEF Absences, Tracked
<1>10. Kept(s)'
  <2>1. CASE Busy(s)
    <3>1. b > 0
      BY <1>1, <1>6, <2>1 DEF HistInv, Kept
    <3> QED
      BY <1>2, <1>6, <3>1 DEF Kept
  <2>2. CASE ~Busy(s) /\ Busy(s)'
    <3>1. Missing(s)'
      BY <1>5, <2>2 DEF Busy, SameScore, SameJudgement
    <3>2. 0 < q.absentSince /\ q.absentSince <= b
      BY <1>6, <1>8, <3>1 DEF MissedSince
    <3>3. q.absentSince \in Int
      <4>1. q \in SeriesRecord
        BY <1>1 DEF IInv, TypeOK
      <4> QED
        BY <4>1, RecordTypes
    <3>4. b > 0
      BY <1>1, <3>2, <3>3
    <3> QED
      BY <1>2, <1>6, <3>4 DEF Kept
  <2> QED
    BY <2>1, <2>2 DEF Kept
<1>11. HistInv(s)'
  BY <1>7, <1>9, <1>10 DEF HistInv
<1>12. hist' \in [Series -> Histories] /\ \A t \in Series \ {s} : hist'[t] = hist[t]
  BY <1>2 DEF HIInv, HTypes, Histories
<1> QED
  BY <1>1, <1>2, <1>4, <1>11, <1>12, HOneSeriesStep

-------------------------------------------------------------------------------
(* A verdict on the bucket of s keeps the counters and the history in step. *)

Noted(s, v) == [hist[s] EXCEPT ![sr[s].lastEval] = v]

Judged(s, q, v) ==
  LET b == sr[s].lastEval
      h == Noted(s, v)
  IN  /\ v \in Verdicts /\ q \in SeriesRecord /\ SameData(q, sr[s]) /\ SameAbsence(q, sr[s])
      /\ Run(h, b, q.pending, {"anom"})
      /\ q.firing \/ sr[s].firing => Run(h, b, q.missing, Unscorable)
      /\ q.normal > 0 => NormalSince(h, b)
      /\ Missing(s) => v = "gap"
      /\ q.pending > 0 \/ q.firing => Busy(s) \/ b > 0

\* What each verdict relies on.
LEMMA Unjudging ==
  ASSUME HIInv, NEW s \in Series, step[s] = "score"
  PROVE  /\ Locked(s) /\ sr[s] \in SeriesRecord /\ hist[s] \in Histories
         /\ sr[s].pending \in Nat /\ sr[s].missing \in Nat /\ sr[s].normal \in Nat
         /\ Run(hist[s], sr[s].lastEval - 1, sr[s].pending, {"anom"})
         /\ sr[s].firing => Run(hist[s], sr[s].lastEval - 1, sr[s].missing, Unscorable)
         /\ sr[s].normal > 0 => NormalSince(hist[s], sr[s].lastEval - 1)
         /\ Missing(s) => ~Arrives(s, sr[s], sr[s].lastEval)
<1>1. Locked(s) /\ HistInv(s) /\ sr[s] \in SeriesRecord /\ hist[s] \in Histories
  BY DEF HIInv, IInv, TypeOK, HTypes, Histories, Locked
<1>2. Passed(s) = sr[s].lastEval - 1
  BY <1>1 DEF Passed
<1>3. sr[s].pending \in Nat /\ sr[s].missing \in Nat /\ sr[s].normal \in Nat
  BY <1>1, RecordTypes
<1> QED
  BY <1>1, <1>2, <1>3 DEF HistInv, Pends, Misses, Recovered, Absences, MissedSince

\* A run of normal buckets without an anomalous one goes on past bucket b.
LEMMA NormalGrows ==
  ASSUME NEW h \in Histories, NEW b \in NoHead .. MaxB, NEW v \in Verdicts, v # "anom",
         NormalSince(h, b - 1)
  PROVE  /\ NormalSince([h EXCEPT ![b] = v], b)
         /\ \E x \in First .. b - 1 :
              /\ [h EXCEPT ![b] = v][x] = "norm"
              /\ \A y \in x .. b : [h EXCEPT ![b] = v][y] # "anom"
<1> DEFINE g == [h EXCEPT ![b] = v]
<1>1. DOMAIN h = NoHead .. MaxB /\ NoHead \in Int /\ MaxB \in Int /\ First \in Int
      /\ b \in Int
  BY ConstantTypes DEF Histories
<1>2. PICK x \in First .. b - 1 : h[x] = "norm" /\ \A y \in x .. b - 1 : h[y] # "anom"
  BY DEF NormalSince
<1>3. g[b] = v /\ \A y \in Int : y # b => g[y] = h[y]
  BY <1>1
<1> HIDE DEF g
<1>4. g[x] = "norm" /\ x \in First .. b
  BY <1>1, <1>2, <1>3
<1>5. \A y \in x .. b : g[y] # "anom"
  BY <1>1, <1>2, <1>3
<1> QED
  BY <1>2, <1>4, <1>5 DEF NormalSince, g

LEMMA JudgedMissing ==
  ASSUME HIInv, NEW s \in Series, ScoreMissing(s)
  PROVE  Judged(s, AfterMissing(sr[s]), Unscored(s)) /\ Unscored(s) \in Unscorable
<1> DEFINE r == sr[s]
           q == AfterMissing(r)
           b == r.lastEval
           v == Unscored(s)
           h == Noted(s, v)
<1>1. /\ Locked(s) /\ r \in SeriesRecord /\ hist[s] \in Histories
      /\ r.pending \in Nat /\ r.missing \in Nat /\ r.normal \in Nat
      /\ r.firing => Run(hist[s], b - 1, r.missing, Unscorable)
      /\ r.normal > 0 => NormalSince(hist[s], b - 1)
      /\ Missing(s) => ~Arrives(s, r, b)
  BY Unjudging DEF ScoreMissing
<1>2. b \in NoHead .. MaxB
  BY <1>1, Judging
<1>3. /\ q \in SeriesRecord /\ SameData(q, r) /\ q.missing = r.missing + 1
      /\ q.firing = (r.firing /\ ~ResolvesMissing(r))
  BY <1>1, AfterMissingFields
<1>4. /\ SameAbsence(q, r) /\ q.pending = 0
      /\ q.normal = IF ResolvesMissing(r) THEN 0 ELSE r.normal
  BY <1>1, VerdictCounters
<1>5. v \in Unscorable /\ v \in Verdicts /\ v # "anom"
  BY DEF Unscored, Unscorable, Verdicts
<1>6. Missing(s) => v = "gap"
  BY <1>1 DEF Arrives, Unscored
<1> HIDE DEF q, r, b, v
<1>7. Run(h, b, q.pending, {"anom"})
  BY <1>4, RunEmpty
<1>8. q.firing \/ r.firing => Run(h, b, q.missing, Unscorable)
  BY <1>1, <1>2, <1>3, <1>5, RunGrows DEF Noted, r, b
<1>9. q.normal > 0 => NormalSince(h, b)
  BY <1>1, <1>2, <1>4, <1>5, NormalGrows DEF Noted, r, b
<1>10. q.pending > 0 \/ q.firing => Busy(s)
  <2>1. ~(q.pending > 0)
    BY <1>4
  <2>2. q.firing => r.firing
    BY <1>3
  <2> QED
    BY <2>1, <2>2 DEF Busy, r
<1> QED
  BY <1>3, <1>4, <1>5, <1>6, <1>7, <1>8, <1>9, <1>10 DEF Judged, q, r, b, v

LEMMA JudgedAnomalous ==
  ASSUME HIInv, NEW s \in Series, NEW e \in Expectations(s), ScoreAnomalous(s, e)
  PROVE  Judged(s, AfterAnomaly(sr[s], e), "anom")
<1> DEFINE r == sr[s]
           q == AfterAnomaly(r, e)
           b == r.lastEval
           h == Noted(s, "anom")
<1>1. /\ Locked(s) /\ r \in SeriesRecord /\ hist[s] \in Histories /\ r.pending \in Nat
      /\ Run(hist[s], b - 1, r.pending, {"anom"})
      /\ Missing(s) => ~Arrives(s, r, b)
  BY Unjudging DEF ScoreAnomalous
<1>2. b \in NoHead .. MaxB /\ b \in Int
  BY <1>1, Judging
<1>3. /\ q \in SeriesRecord /\ SameData(q, r) /\ q.missing = 0
  BY <1>1, AfterAnomalyFields DEF Expectations
<1>4. SameAbsence(q, r) /\ q.pending = r.pending + 1 /\ q.normal = 0
  BY <1>1, VerdictCounters DEF Expectations
<1>5. Has(s, r, b)
  BY DEF ScoreAnomalous
<1>6. ~Missing(s)
  BY <1>1, <1>5 DEF Arrives
<1>7. b > 0
  <2>1. b \in r.have /\ Stock(r)
    BY <1>5 DEF Has, HIInv, HistInv
  <2>2. First <= b /\ First \in Nat /\ First >= 4
    BY <2>1, ConstantTypes DEF Stock
  <2> QED
    BY <1>2, <2>2
<1> HIDE DEF q, r, b
<1>8. Run(h, b, q.pending, {"anom"})
  BY <1>1, <1>2, <1>4, RunGrows DEF Noted, r, b
<1>9. Run(h, b, q.missing, Unscorable) /\ ~(q.normal > 0)
  BY <1>3, <1>4, RunEmpty
<1>10. "anom" \in Verdicts
  BY DEF Verdicts
<1> QED
  BY <1>3, <1>4, <1>6, <1>7, <1>8, <1>9, <1>10 DEF Judged, q, r, b

LEMMA JudgedNormal ==
  ASSUME HIInv, NEW s \in Series, NEW e \in Expectations(s), ScoreNormal(s, e)
  PROVE  Judged(s, AfterNormal(sr[s], e), "norm")
<1> DEFINE r == sr[s]
           q == AfterNormal(r, e)
           b == r.lastEval
           h == Noted(s, "norm")
<1>1. /\ Locked(s) /\ r \in SeriesRecord /\ hist[s] \in Histories
      /\ Missing(s) => ~Arrives(s, r, b)
  BY Unjudging DEF ScoreNormal
<1>2. b \in NoHead .. MaxB /\ b \in Int
  BY <1>1, Judging
<1>3. /\ q \in SeriesRecord /\ SameData(q, r) /\ q.missing = 0
      /\ q.firing => r.firing
  BY <1>1, AfterNormalFields DEF Expectations
<1>4. SameAbsence(q, r) /\ q.pending = 0
  BY <1>1, VerdictCounters DEF Expectations
<1>5. Has(s, r, b)
  BY DEF ScoreNormal
<1>6. ~Missing(s)
  BY <1>1, <1>5 DEF Arrives
<1>7. First <= b /\ First \in Int
  BY <1>5, ConstantTypes DEF Has, HIInv, HistInv, Stock
<1>8. h[b] = "norm"
  BY <1>1, <1>2 DEF Histories, Noted
<1> HIDE DEF q, r, b, h
<1>9. Run(h, b, q.pending, {"anom"}) /\ Run(h, b, q.missing, Unscorable)
  BY <1>3, <1>4, RunEmpty
<1>10. NormalSince(h, b)
  <2>1. b \in First .. b /\ \A y \in b .. b : y = b
    BY <1>2, <1>7
  <2> QED
    BY <1>8, <2>1 DEF NormalSince
<1>11. "norm" \in Verdicts /\ (q.firing => Busy(s))
  BY <1>3 DEF Verdicts, Busy, r
<1> QED
  BY <1>3, <1>4, <1>6, <1>9, <1>10, <1>11 DEF Judged, q, r, b, h

LEMMA VerdictInv ==
  ASSUME HIInv, NEW s \in Series, step[s] = "score", NEW q, NEW v, Judged(s, q, v),
         Scored(s, q), Record(s, v), IInv', reached' = reached,
         \A t \in Series \ {s} : events'[t] = events[t]
  PROVE  HIInv' /\ hist'[s] = Noted(s, v)
<1> DEFINE r == sr[s]
           b == r.lastEval
           h == Noted(s, v)
           n == IF b < Last THEN b + 1 ELSE b
<1>1. /\ TypeOK /\ HistInv(s) /\ r \in SeriesRecord /\ hist[s] \in Histories
      /\ hist \in [Series -> Histories]
  BY DEF HIInv, IInv, TypeOK, HTypes, Histories
<1>2. /\ s \in stored /\ s \in todo /\ phase \in {"metrics", "logs"}
      /\ b \in NoHead .. MaxB /\ b \in Int /\ b <= Last /\ Locked(s)
      /\ Open = OpenOf(s) /\ Last = OpenOf(s) - 1 /\ OpenOf(s) \in Int
      /\ Passed(s) = b - 1
  <2>1. Locked(s)
    BY DEF Locked
  <2> QED
    BY <2>1, Judging
<1>3. /\ v \in Verdicts /\ q \in SeriesRecord /\ SameData(q, r) /\ SameAbsence(q, r)
      /\ Run(h, b, q.pending, {"anom"})
      /\ q.firing \/ r.firing => Run(h, b, q.missing, Unscorable)
      /\ q.normal > 0 => NormalSince(h, b)
      /\ Missing(s) => v = "gap"
      /\ q.pending > 0 \/ q.firing => Busy(s) \/ b > 0
  BY DEF Judged
<1>4. OnlySeries(s) /\ feed' = feed /\ stored' = stored
  BY <1>1 DEF Scored, OnlySeries, TypeOK
<1>5. /\ h \in Histories /\ hist'[s] = h
      /\ hist' \in [Series -> Histories] /\ \A t \in Series \ {s} : hist'[t] = hist[t]
  BY <1>1, <1>2, <1>3 DEF Record, Histories, Noted
<1>6. \A y \in NoHead .. MaxB : h[y] = IF y = b THEN v ELSE hist[s][y]
  BY <1>1, <1>2 DEF Histories, Noted
<1> HIDE DEF h
<1>7. /\ sr'[s].lastEval = n /\ SameCounters(sr'[s], q)
      /\ sr'[s].head = q.head /\ sr'[s].have = q.have
      /\ sr'[s].firing = q.firing /\ sr'[s].missing = q.missing
      /\ sr'[s].absent = q.absent
      /\ step'[s] = IF b < Last THEN "absent" ELSE "free"
      /\ s \notin todo' => ~(b < Last)
  <2>1. q.lastEval = b
    BY <1>3 DEF SameData
  <2>2. CASE b < Last
    <3>1. sr'[s] = At(q, b + 1) /\ step'[s] = "absent" /\ todo' = todo
      <4>1. [q EXCEPT !.lastEval = @ + 1] = At(q, b + 1)
        BY <1>3, <2>1 DEF At, SeriesRecord
      <4> HIDE DEF b
      <4> QED
        BY <1>1, <2>1, <2>2, <4>1 DEF Scored, TypeOK
    <3>2. b + 1 \in Int
      BY <1>2
    <3>3. /\ At(q, b + 1).lastEval = b + 1 /\ SameCounters(At(q, b + 1), q)
          /\ At(q, b + 1).head = q.head /\ At(q, b + 1).have = q.have
          /\ At(q, b + 1).firing = q.firing /\ At(q, b + 1).missing = q.missing
          /\ At(q, b + 1).absent = q.absent
      BY <1>3, <3>2, AtFields, AtCounters
    <3> QED
      BY <1>2, <2>2, <3>1, <3>3
  <2>3. CASE ~(b < Last)
    <3>1. sr'[s] = q /\ step'[s] = "free"
      BY <1>1, <2>1, <2>3 DEF Scored, TypeOK
    <3> QED
      BY <2>1, <2>3, <3>1 DEF SameCounters
  <2> QED
    BY <2>2, <2>3
<1>8. /\ Passed(s)' = b /\ Looked(s)' = b /\ Looked(s) = b /\ OpenOf(s)' = OpenOf(s)
      /\ Locked(s)' <=> b < Last
  BY <1>2, <1>4, <1>7 DEF Passed, Looked, Locked, OpenOf, OnlySeries
<1>9. /\ n \in Int /\ b <= n /\ n < OpenOf(s) /\ NoHead < b /\ NoHead \in Int
      /\ ~(b < Last) => n >= OpenOf(s) - 1
  <2>1. NoHead < b
    BY <1>1, <1>2 DEF HistInv, InRange
  <2> QED
    BY <1>2, <2>1, ConstantTypes
<1> HIDE DEF n
<1>10. InRange(s)' /\ Stock(sr[s])' /\ Unjudged(s)'
  <2>1. InRange(s)'
    BY <1>1, <1>2, <1>4, <1>7, <1>8, <1>9 DEF HistInv, InRange
  <2>2. Stock(sr[s])'
    BY <1>1, <1>3, <1>7 DEF HistInv, Stock, SameData
  <2>3. Unjudged(s)'
    <3>1. \A x \in NoHead .. MaxB : x > b => x > b - 1 /\ x # b
      BY <1>2, ConstantTypes
    <3> QED
      BY <1>1, <1>2, <1>5, <1>6, <1>8, <3>1 DEF HistInv, Unjudged
  <2> QED
    BY <2>1, <2>2, <2>3
<1>11. Pends(s)' /\ Misses(s)' /\ Recovered(s)'
  BY <1>2, <1>3, <1>4, <1>5, <1>7, <1>8 DEF Pends, Misses, Recovered, SameCounters
<1>12. Missing(s)' <=> Missing(s)
  BY <1>3, <1>7 DEF Missing, SameCounters, SameAbsence
<1>13. Absences(s)'
  <2>1. ~Tracked(s)' => sr'[s].absentRun = 0
    BY <1>1, <1>3, <1>7 DEF HistInv, Absences, Tracked, SameCounters, SameAbsence
  <2>2. ASSUME Missing(s) PROVE MissedSince(s, sr[s].absentSince)'
    <3> DEFINE since == r.absentSince
    <3>1. /\ MissedSince(s, since) /\ since \in Int /\ sr'[s].absentSince = since
          /\ sr'[s].absentRun = r.absentRun /\ v = "gap"
      BY <1>1, <1>3, <1>7, <2>2, RecordTypes
      DEF HistInv, Absences, SameCounters, SameAbsence
    <3>2. \A x \in since .. b : h[x] = "gap"
      <4>1. 0 < since
        BY <3>1 DEF MissedSince
      <4>2. \A x \in since .. b - 1 : hist[s][x] = "gap"
        BY <1>2, <3>1 DEF MissedSince
      <4> SUFFICES ASSUME NEW x \in since .. b PROVE h[x] = "gap"
        OBVIOUS
      <4>3. x \in NoHead .. MaxB
        BY <1>2, <3>1, <4>1, ConstantTypes
      <4>4. x = b \/ x \in since .. b - 1
        BY <1>2, <3>1
      <4> QED
        BY <1>6, <3>1, <4>2, <4>3, <4>4
    <3> HIDE DEF since
    <3> QED
      BY <1>5, <1>7, <1>8, <3>1, <3>2 DEF MissedSince
  <2> QED
    BY <1>12, <2>1, <2>2 DEF Absences
<1>14. Kept(s)'
  <2>1. Busy(s) => b > 0
    BY <1>1, <1>8 DEF HistInv, Kept
  <2>2. Busy(s)' => Busy(s) \/ b > 0
    BY <1>3, <1>7, <1>12 DEF Busy, SameCounters
  <2>3. MaxJump \in Nat
    BY SettingsAssumption
  <2>4. ~Locked(s)' => n >= OpenOf(s) - 1 /\ n >= OpenOf(s) - 1 - MaxJump
    BY <1>2, <1>8, <1>9, <2>3
  <2> QED
    BY <1>2, <1>4, <1>7, <1>8, <2>1, <2>2, <2>4 DEF Kept
<1>15. HistInv(s)'
  BY <1>10, <1>11, <1>13, <1>14 DEF HistInv
<1> QED
  BY <1>4, <1>5, <1>15, HOneSeriesStep DEF h

LEMMA HScoreInv ==
  ASSUME HIInv, NEW s \in Series, HScore(s), reached' = reached
  PROVE  HIInv'
<1>1. Score(s)
  BY DEF HScore, Score
<1>2. IInv' /\ TypeOK
  BY <1>1, ScoreInv DEF HIInv, IInv
<1>3. step[s] = "score" /\ \A t \in Series \ {s} : events'[t] = events[t]
  BY <1>1, <1>2
  DEF TypeOK, Emit, Score, ScoreMissing, ScoreAnomalous, ScoreNormal
<1>4. CASE ScoreMissing(s) /\ Record(s, Unscored(s))
  <2>1. Judged(s, AfterMissing(sr[s]), Unscored(s)) /\ Scored(s, AfterMissing(sr[s]))
    BY <1>4, JudgedMissing DEF ScoreMissing
  <2> QED
    BY <1>2, <1>3, <1>4, <2>1, VerdictInv
<1>5. ASSUME NEW e \in Expectations(s), ScoreAnomalous(s, e), Record(s, "anom")
      PROVE  HIInv'
  <2>1. Judged(s, AfterAnomaly(sr[s], e), "anom") /\ Scored(s, AfterAnomaly(sr[s], e))
    BY <1>5, JudgedAnomalous DEF ScoreAnomalous
  <2> QED
    BY <1>2, <1>3, <1>5, <2>1, VerdictInv
<1>6. ASSUME NEW e \in Expectations(s), ScoreNormal(s, e), Record(s, "norm")
      PROVE  HIInv'
  <2>1. Judged(s, AfterNormal(sr[s], e), "norm") /\ Scored(s, AfterNormal(sr[s], e))
    BY <1>6, JudgedNormal DEF ScoreNormal
  <2> QED
    BY <1>2, <1>3, <1>6, <2>1, VerdictInv
<1> QED
  BY <1>4, <1>5, <1>6 DEF HScore

\* A deleted series starts over.
LEMMA HGcSeriesInv ==
  ASSUME HIInv, NEW s \in Series, HGcSeries(s), reached' = reached
  PROVE  HIInv'
<1>1. /\ TypeOK /\ IInv' /\ HistInv(s) /\ phase = "gc" /\ ~Locked(s)
      /\ hist \in [Series -> Histories] /\ NoVerdicts \in Histories
  <2>1. NoVerdicts \in Histories
    BY DEF NoVerdicts, Histories, Verdicts
  <2> QED
    BY <2>1, GcSeriesInv, NoneLocked
    DEF HGcSeries, GcSeries, HIInv, IInv, HTypes, Histories
<1>2. /\ OnlySeries(s) /\ feed' = feed /\ ~Locked(s)' /\ OpenOf(s)' = OpenOf(s)
      /\ step' = step
  BY <1>1 DEF HGcSeries, GcSeries, OnlySeries, TypeOK, Locked, OpenOf
<1>3. /\ hist' \in [Series -> Histories] /\ \A t \in Series \ {s} : hist'[t] = hist[t]
      /\ hist'[s] = IF s \in stored' THEN hist[s] ELSE NoVerdicts
  BY <1>1 DEF HGcSeries
<1>4. CASE s \in stored /\ s \in stored'
  <2>1. sr' = sr /\ stored' = stored
    BY <1>1, <1>4 DEF HGcSeries, GcSeries, TypeOK
  <2>2. InRange(s)' /\ Stock(sr[s])' /\ Unjudged(s)'
    BY <1>1, <1>2, <1>3, <1>4, <2>1 DEF HistInv, InRange, Stock, Unjudged, Passed, Locked
  <2>3. Pends(s)' /\ Misses(s)' /\ Recovered(s)'
    BY <1>1, <1>2, <1>3, <1>4, <2>1
    DEF HistInv, Pends, Misses, Recovered, NormalSince, Run, Passed, Locked
  <2>4. Absences(s)'
    BY <1>1, <1>2, <1>3, <1>4, <2>1
    DEF HistInv, Absences, Missing, MissedSince, Looked, Passed, Locked, Tracked,
        Arrives, Has
  <2>5. Kept(s)'
    <3>1. Visited(s)' => Visited(s)
      BY <1>1, <1>2, SeriesAssumption DEF OnlySeries, Visited, Series
    <3> QED
      BY <1>1, <1>2, <1>4, <2>1, <3>1
      DEF HistInv, Kept, Busy, Missing, Looked, Locked
  <2>6. HistInv(s)'
    BY <2>2, <2>3, <2>4, <2>5 DEF HistInv
  <2> QED
    BY <1>1, <1>2, <1>3, <2>6, HOneSeriesStep
<1>5. CASE ~(s \in stored /\ s \in stored')
  <2>1. /\ s \notin stored' /\ hist'[s] = NoVerdicts
        /\ sr'[s] = NewSeries \/ (sr'[s] = sr[s] /\ s \notin stored)
    BY <1>1, <1>3, <1>5 DEF HGcSeries, GcSeries, TypeOK
  <2>2. /\ NewSeries.head = NoHead /\ NewSeries.have = {} /\ NewSeries.lastEval = NoHead
        /\ NewSeries.pending = 0 /\ NewSeries.normal = 0 /\ ~NewSeries.firing
        /\ NewSeries.absentRun = 0
    BY DEF NewSeries
  <2>3. /\ sr[s].pending \in Nat /\ sr[s].normal \in Nat /\ sr[s].lastEval \in Int
        /\ NoHead \in Int /\ OpenOf(s) \in Int
    BY <1>1, RecordTypes, ConstantTypes DEF TypeOK, OpenOf
  <2>4. NoHead <= sr[s].lastEval /\ sr[s].lastEval < OpenOf(s) /\ Stock(sr[s])
    BY <1>1 DEF HistInv, InRange
  <2>5. s \notin stored => ~Busy(s) /\ ~(sr[s].normal > 0)
    BY <1>1 DEF HistInv, Kept, Recovered
  <2>6. ~Busy(s)' /\ sr'[s].pending = 0 /\ ~(sr'[s].normal > 0)
    BY <2>1, <2>2, <2>3, <2>5 DEF Busy, Missing
  <2>7. InRange(s)' /\ Stock(sr[s])'
    <3>1. NoHead <= sr'[s].lastEval /\ sr'[s].lastEval < OpenOf(s)
      BY <2>1, <2>2, <2>3, <2>4
    <3> QED
      BY <1>2, <2>1, <2>2, <2>4, <3>1 DEF InRange, Stock
  <2>8. Unjudged(s)'
    BY <2>1 DEF Unjudged, NoVerdicts
  <2>9. Pends(s)' /\ Misses(s)' /\ Recovered(s)' /\ Kept(s)'
    BY <2>6, RunEmpty DEF Pends, Misses, Recovered, Kept, Busy
  <2>10. Absences(s)'
    <3>1. ~Tracked(s) => sr'[s].absentRun = 0
      BY <1>1, <2>1, <2>2 DEF HistInv, Absences
    <3> QED
      BY <2>6, <3>1 DEF Absences, Busy, Tracked
  <2>11. HistInv(s)'
    BY <2>7, <2>8, <2>9, <2>10 DEF HistInv
  <2> QED
    BY <1>1, <1>2, <1>3, <2>11, HOneSeriesStep
<1> QED
  BY <1>4, <1>5

-------------------------------------------------------------------------------
(* Samples and clocks.                                                     *)

\* A sample leaves the counters alone and adds no bucket before the first.
Fed(s) ==
  /\ Stock(sr'[s]) /\ SameCounters(sr'[s], sr[s])
  /\ s \in stored' /\ s \in LogSeries => s \in stored \/ First <= MaxB

LEMMA UpdateFed ==
  ASSUME TypeOK, \A t \in Series : Stock(sr[t]), NEW s \in Series, NEW r, Update(s, r),
         Stock(r), SameCounters(r, sr[s]), s \in LogSeries => First <= MaxB
  PROVE  \A t \in Series : Fed(t)
<1>1. sr'[s] = r /\ stored' = stored \cup {s} /\ \A t \in Series \ {s} : sr'[t] = sr[t]
  BY DEF Update, TypeOK
<1> QED
  BY <1>1 DEF Fed, SameCounters

LEMMA FeedRecords ==
  ASSUME HIInv, Feed
  PROVE  \A t \in Series : Fed(t)
<1>1. /\ TypeOK /\ \A t \in Series : Stock(sr[t]) /\ sr[t] \in SeriesRecord
      /\ MetricSeries \subseteq Series /\ LogSeries \subseteq Series
      /\ \A t \in MetricSeries : t \notin LogSeries
  BY SeriesAssumption DEF HIInv, IInv, HistInv, TypeOK, Series
<1>2. CASE sr' = sr /\ stored' = stored
  BY <1>1, <1>2 DEF Fed, SameCounters
<1>3. ASSUME NEW w \in Writers, NEW s \in MetricSeries, NEW b \in Buckets,
             WriteSample(w, s, b)
      PROVE  \A t \in Series : Fed(t)
  BY <1>1, <1>3, SampleStock, UpdateFed DEF WriteSample
<1>4. ASSUME NEW s \in MetricSeries, NEW b \in Buckets, WriteUndef(s, b)
      PROVE  \A t \in Series : Fed(t)
  BY <1>1, <1>4, SampleStock, UpdateFed DEF WriteUndef
<1>5. ASSUME NEW s \in MetricSeries, NEW b \in Buckets, Backfill(s, b)
      PROVE  \A t \in Series : Fed(t)
  BY <1>1, <1>5, AddStock, UpdateFed DEF Backfill
<1>6. ASSUME NEW s \in MetricSeries, WriteStale(s)
      PROVE  \A t \in Series : Fed(t)
  <2>1. SameCounters(sr[s], sr[s])
    BY DEF SameCounters
  <2> QED
    BY <1>1, <1>6, <2>1, UpdateFed DEF WriteStale
<1>7. ASSUME NEW s \in LogSeries, NEW b \in Buckets, LogPush(s, b)
      PROVE  \A t \in Series : Fed(t)
  <2>1. First <= MaxB
    BY ConstantTypes DEF Buckets
  <2> QED
    BY <1>1, <1>7, <2>1, AddStock, UpdateFed DEF LogPush
<1> QED
  BY <1>2, <1>3, <1>4, <1>5, <1>6, <1>7
  DEF Feed, RemoteWrite, WriteOther, WriteDone, WriteFail, Tick

\* A clock moves at most MaxJump buckets ahead of the evaluation.
LEMMA FeedSteady ==
  ASSUME HIInv, Feed
  PROVE  Steady'
<1>1. /\ TypeOK /\ Steady /\ promOpen \in Int /\ promClock \in Nat /\ MaxJump \in Nat
      /\ Grace \in Nat /\ now \in Int /\ logOpen \in Int /\ MaxB \in Nat
      /\ promOpen' = promOpen /\ logOpen' = logOpen
  BY ConstantTypes, SettingsAssumption, FeedFeeds
  DEF HIInv, IInv, TypeOK, Feeding, evaluator
<1>2. \/ promClock' = promClock /\ now' = now
      \/ Tick /\ promClock' = promClock
      \/ /\ now' = now
         /\ \E w \in Writers : newest[w] > 0 /\ KeepsUp(newest[w], promOpen)
                               /\ promClock' = Larger(promClock, newest[w])
  BY DEF Feed, RemoteWrite, WriteSample, WriteOther, WriteDone, WriteFail, WriteUndef,
         Backfill, WriteStale, LogPush, Tick, feed
<1>3. CASE promClock' = promClock /\ now' = now
  BY <1>1, <1>3 DEF Steady
<1>4. CASE Tick /\ promClock' = promClock
  BY <1>1, <1>4 DEF Steady, Tick
<1>5. ASSUME now' = now,
             NEW w \in Writers, newest[w] > 0, KeepsUp(newest[w], promOpen),
             promClock' = Larger(promClock, newest[w])
      PROVE  Steady'
  <2>1. newest[w] \in Nat /\ promClock' \in {promClock, newest[w]}
        /\ promClock' >= promClock
    <3>1. newest[w] \in Nat
      BY <1>1, ConstantTypes DEF TypeOK
    <3> QED
      BY <1>1, <1>5, <3>1, LargerType
  <2>2. promOpen > 0 => /\ promClock' > 0
                        /\ promClock' - Grace - promOpen <= MaxJump
    BY <1>1, <1>5, <2>1 DEF Steady, KeepsUp
  <2> QED
    BY <1>1, <1>5, <2>2 DEF Steady
<1> QED
  BY <1>2, <1>3, <1>4, <1>5

LEMMA HFeedInv ==
  ASSUME HIInv, Feed, UNCHANGED hist, reached' = reached \cup {b \in Buckets : Seen(b)'}
  PROVE  HIInv'
<1>1. /\ TypeOK /\ IInv' /\ Feeding /\ Steady' /\ \A t \in Series : Fed(t)
      /\ hist' = hist /\ reached \subseteq reached'
  BY FeedInv, FeedFeeds, FeedRecords, FeedSteady DEF HIInv, IInv
<1>2. /\ phase' = phase /\ promOpen' = promOpen /\ logOpen' = logOpen
      /\ todo' = todo /\ step' = step /\ stored \subseteq stored'
  BY <1>1 DEF Feeding, evaluator
<1>3. HTypes'
  BY <1>1 DEF HIInv, HTypes
<1>4. ASSUME NEW s \in Series PROVE HistInv(s)'
  <2>1. /\ HistInv(s) /\ Fed(s) /\ sr[s] \in SeriesRecord
        /\ sr[s].lastEval \in Int /\ sr[s].absentSince \in Int /\ sr[s].absentRun \in Nat
    BY <1>1, RecordTypes DEF HIInv, IInv, TypeOK
  <2>2. SameDetector(sr'[s], sr[s]) /\ (Locked(s) => sr'[s] = sr[s])
    BY <1>1 DEF Feeding, SameDetector
  <2>3. /\ sr'[s].lastEval = sr[s].lastEval /\ sr'[s].firing = sr[s].firing
        /\ sr'[s].absent = sr[s].absent /\ sr'[s].missing = sr[s].missing
        /\ sr'[s].pending = sr[s].pending /\ sr'[s].normal = sr[s].normal
        /\ sr'[s].absentRun = sr[s].absentRun /\ sr'[s].absentSince = sr[s].absentSince
    BY <2>1, <2>2 DEF SameDetector, SameCounters, Fed
  <2>4. /\ Passed(s)' = Passed(s) /\ Looked(s)' = Looked(s) /\ (Locked(s)' <=> Locked(s))
        /\ OpenOf(s)' = OpenOf(s) /\ (Visited(s)' <=> Visited(s))
        /\ (Missing(s)' <=> Missing(s)) /\ (Busy(s)' <=> Busy(s))
    BY <1>2, <2>3 DEF Passed, Looked, Locked, OpenOf, Visited, Missing, Busy
  <2>5. InRange(s)' /\ Stock(sr[s])' /\ Unjudged(s)'
    BY <1>1, <2>1, <2>3, <2>4 DEF HistInv, InRange, Unjudged, Fed
  <2>6. Pends(s)' /\ Misses(s)' /\ Recovered(s)'
    BY <1>1, <1>2, <2>1, <2>3, <2>4 DEF HistInv, Pends, Misses, Recovered
  <2>7. Absences(s)'
    <3> DEFINE since == sr[s].absentSince
               l == Looked(s)
    <3>1. l \in Int /\ since \in Int /\ l <= l
      BY <2>1 DEF Looked
    <3>2. ~Tracked(s)' => sr'[s].absentRun = 0
      BY <2>1, <2>3 DEF HistInv, Absences, Tracked
    <3>3. ASSUME Missing(s) PROVE MissedSince(s, sr[s].absentSince)'
      <4>1. MissedSince(s, since)
        BY <2>1, <3>3 DEF HistInv, Absences
      <4>2. /\ Cardinality(reached \cap (since .. l)) \in Nat
            /\ Cardinality(reached' \cap (since .. l)) \in Nat
            /\ Cardinality(reached \cap (since .. l))
                 <= Cardinality(reached' \cap (since .. l))
        <5> HIDE DEF l, since
        <5> QED
          BY <1>1, <3>1, ReachedMore
      <4>3. Cardinality(reached' \cap (since .. l)) >= sr[s].absentRun
        BY <2>1, <4>1, <4>2 DEF MissedSince
      <4>4. step[s] = "score" => /\ Locked(s) /\ sr'[s] = sr[s]
                                 /\ ~Arrives(s, sr[s], sr[s].lastEval)
        BY <2>2, <4>1 DEF MissedSince, Locked
      <4>5. step'[s] = "score" => ~Arrives(s, sr'[s], sr'[s].lastEval)
        BY <1>2, <4>4
      <4> QED
        BY <1>1, <1>2, <2>3, <2>4, <4>1, <4>3, <4>5 DEF MissedSince, Arrives, Has
    <3> QED
      BY <2>4, <3>2, <3>3 DEF Absences
  <2>8. Kept(s)'
    BY <1>2, <2>1, <2>3, <2>4 DEF HistInv, Kept
  <2> QED
    BY <2>5, <2>6, <2>7, <2>8 DEF HistInv
<1> QED
  BY <1>1, <1>3, <1>4 DEF HIInv

LEMMA HNextInv ==
  ASSUME Steadily, HIInv, [HNext]_hvars
  PROVE  HIInv'
<1>1. CASE UNCHANGED hvars
  <2>1. IInv'
    BY <1>1, NextInv DEF HIInv, hvars
  <2>2. HTypes' /\ Steady'
    BY <1>1 DEF HIInv, HTypes, Steady, Seen, hvars, vars, feed, evaluator
  <2>3. ASSUME NEW s \in Series PROVE HistInv(s)'
    <3>1. HistInv(s)
      BY DEF HIInv
    <3>2. InRange(s)' /\ Stock(sr[s])' /\ Unjudged(s)'
      BY <1>1, <3>1 DEF HistInv, InRange, Stock, Unjudged, Passed, Locked, OpenOf,
                        hvars, vars, evaluator
    <3>3. Pends(s)' /\ Misses(s)' /\ Recovered(s)'
      BY <1>1, <3>1 DEF HistInv, Pends, Misses, Recovered, NormalSince, Run, Passed,
                        Locked, hvars, vars, evaluator
    <3>4. Absences(s)'
      BY <1>1, <3>1 DEF HistInv, Absences, Missing, MissedSince, Looked, Passed, Locked,
                        Tracked, Arrives, Has, hvars, vars, evaluator
    <3>5. Kept(s)'
      BY <1>1, <3>1 DEF HistInv, Kept, Busy, Missing, Looked, Locked, OpenOf, Visited,
                        hvars, vars, evaluator
    <3> QED
      BY <3>2, <3>3, <3>4, <3>5 DEF HistInv
  <2> QED
    BY <2>1, <2>2, <2>3 DEF HIInv
<1>2. CASE Feed /\ UNCHANGED hist /\ reached' = reached \cup {b \in Buckets : Seen(b)'}
  BY <1>2, HFeedInv
<1>3. CASE HEvaluate /\ reached' = reached \cup {b \in Buckets : Seen(b)'}
  <2>1. promSeen' = promSeen
    BY <1>3
    DEF HEvaluate, EvalBegin, EvalMetrics, EvalLogs, Apply, EvalEnd, EvalSeries,
        EvalNoSeries, TrackAbsent, NotTracked, DataReturned, StillAbsent, CountAbsent,
        IgnoreAbsent, ToScore, HScore, ScoreMissing, ScoreAnomalous, ScoreNormal, Scored,
        HGcSeries, GcSeries, feed
  <2>2. reached' = reached
    BY <1>3, <2>1, ReachedStays
  <2> QED
    BY <1>3, <2>2, HPhaseStepInv, HEvalSeriesInv, HEvalNoSeriesInv, HTrackAbsentInv,
       HScoreInv, HGcSeriesInv DEF HEvaluate
<1> QED
  BY <1>1, <1>2, <1>3 DEF HNext

LEMMA HInvariance ==
  ASSUME Steadily
  PROVE  HSpec => []HIInv
<1>1. HIInv /\ [HNext]_hvars => HIInv'
  BY HNextInv
<1> QED
  BY HInitInv, <1>1, PTL DEF HSpec

-------------------------------------------------------------------------------
(* Theorems.                                                               *)

\* Only a verdict, or the end of the series, changes the firing flag.
LEMMA FlagKept ==
  ASSUME HIInv, [HNext]_hvars, NEW s \in Series, s \in stored',
         sr'[s].firing # sr[s].firing
  PROVE  HScore(s)
<1>1. TypeOK /\ sr[s] \in SeriesRecord
  BY DEF HIInv, IInv, TypeOK
<1>2. CASE UNCHANGED hvars
  BY <1>2 DEF hvars, vars
<1>3. CASE Feed
  <2>1. SameDetector(sr'[s], sr[s])
    BY <1>1, <1>3, FeedFeeds DEF Feeding, SameDetector
  <2> QED
    BY <2>1 DEF SameDetector
<1>4. CASE HEvaluate
  <2>1. CASE EvalBegin \/ EvalMetrics \/ EvalLogs \/ Apply \/ EvalEnd
    BY <2>1 DEF EvalBegin, EvalMetrics, EvalLogs, Apply, EvalEnd
  <2>2. ASSUME NEW t \in Series, EvalSeries(t) PROVE sr'[s].firing = sr[s].firing
    <3> DEFINE r == Advance(t, sr[t], Open)
    <3>1. r \in SeriesRecord /\ SameDetector(r, sr[t])
      BY <1>1, AdvanceKeeps, OpenType DEF TypeOK
    <3>2. At(r, Start(r)).firing = r.firing
      BY <3>1, <1>1, OpenType, AtFields
    <3>3. sr'[t] = IF Start(r) <= Last THEN At(r, Start(r)) ELSE r
      BY <1>1, <2>2 DEF EvalSeries, TypeOK, At
    <3> HIDE DEF r
    <3>4. sr'[t].firing = sr[t].firing
      BY <3>1, <3>2, <3>3 DEF SameDetector
    <3>5. s # t => sr'[s] = sr[s]
      BY <1>1, <2>2 DEF EvalSeries, TypeOK
    <3> QED
      BY <3>4, <3>5
  <2>3. ASSUME NEW t \in Series, EvalNoSeries(t) PROVE sr'[s].firing = sr[s].firing
    BY <2>3 DEF EvalNoSeries
  <2>4. ASSUME NEW t \in Series, TrackAbsent(t) PROVE sr'[s].firing = sr[s].firing
    <3>1. sr'[t] \in {sr[t], AfterData(sr[t]), AfterExpiry(sr[t]), AfterMiss(sr[t])}
          /\ (s # t => sr'[s] = sr[s])
      BY <1>1, <2>4 DEF TypeOK, TrackAbsent, NotTracked, DataReturned, StillAbsent,
                        CountAbsent, IgnoreAbsent
    <3>2. sr[t] \in SeriesRecord
      BY <1>1 DEF TypeOK
    <3> QED
      BY <3>1, <3>2, AbsenceFields DEF SameScore
  <2>5. ASSUME NEW t \in Series, HScore(t), t # s PROVE sr'[s].firing = sr[s].firing
    BY <1>1, <2>5 DEF HScore, ScoreMissing, ScoreAnomalous, ScoreNormal, Scored, TypeOK
  <2>6. ASSUME NEW t \in Series, HGcSeries(t) PROVE sr'[s].firing = sr[s].firing
    BY <1>1, <2>6 DEF HGcSeries, GcSeries, TypeOK
  <2> QED
    BY <1>4, <2>1, <2>2, <2>3, <2>4, <2>5, <2>6 DEF HEvaluate
<1> QED
  BY <1>2, <1>3, <1>4 DEF HNext

\* The flag of s after a verdict.
LEMMA ScoredFiring ==
  ASSUME HIInv, NEW s \in Series, NEW q \in SeriesRecord, Scored(s, q)
  PROVE  sr'[s].firing = q.firing
<1>1. TypeOK /\ q.lastEval \in Int
  BY RecordTypes DEF HIInv, IInv
<1>2. [q EXCEPT !.lastEval = @ + 1].firing = q.firing
  BY DEF SeriesRecord
<1> QED
  BY <1>1, <1>2 DEF Scored, TypeOK

(***************************************************************************)
(* A finding fires only after ForBuckets anomalous buckets in a row: the   *)
(* pending counter counts neighbouring buckets, whatever else happens      *)
(* between two evaluations (eval.go:166-179, README.md:204), provided no   *)
(* clock jumps past a bucket the evaluator has not scored.                 *)
(***************************************************************************)
THEOREM FiresInARow ==
  ASSUME Steadily
  PROVE  HSpec => FiresAfterConsecutive
<1> DEFINE Fine == \A s \in Series :
                     ~sr[s].firing /\ sr'[s].firing
                       => Run(hist'[s], sr[s].lastEval, ForBuckets, {"anom"})
<1>1. ASSUME HIInv, HIInv', [HNext]_hvars
      PROVE  [Fine]_hvars
  <2> SUFFICES ASSUME NEW s \in Series, ~sr[s].firing, sr'[s].firing
               PROVE  Run(hist'[s], sr[s].lastEval, ForBuckets, {"anom"})
    OBVIOUS
  <2>1. sr[s] \in SeriesRecord /\ TypeOK /\ hist \in [Series -> Histories]
    BY <1>1 DEF HIInv, IInv, TypeOK, HTypes, Histories
  <2>2. s \in stored'
    BY <1>1 DEF HIInv, IInv, SeriesInv, Flags
  <2>3. HScore(s)
    BY <1>1, <2>2, FlagKept
  <2>4. PICK e \in Expectations(s) : ScoreAnomalous(s, e) /\ Record(s, "anom")
    <3>1. CASE ScoreMissing(s)
      <4>1. ~AfterMissing(sr[s]).firing /\ AfterMissing(sr[s]) \in SeriesRecord
        BY <2>1, AfterMissingFields
      <4> QED
        BY <1>1, <3>1, <4>1, ScoredFiring DEF ScoreMissing
    <3>2. ASSUME NEW e \in Expectations(s), ScoreNormal(s, e) PROVE FALSE
      <4>1. ~AfterNormal(sr[s], e).firing /\ AfterNormal(sr[s], e) \in SeriesRecord
        BY <2>1, AfterNormalFields DEF Expectations
      <4> QED
        BY <1>1, <3>2, <4>1, ScoredFiring DEF ScoreNormal
    <3> QED
      BY <2>3, <3>1, <3>2 DEF HScore
  <2> DEFINE q == AfterAnomaly(sr[s], e)
  <2>5. /\ q \in SeriesRecord /\ q.firing = (sr[s].firing \/ Fires(sr[s]))
        /\ q.pending = sr[s].pending + 1
    <3>1. e \in BOOLEAN
      BY DEF Expectations
    <3>2. q \in SeriesRecord /\ q.firing = (sr[s].firing \/ Fires(sr[s]))
      BY <2>1, <3>1, AfterAnomalyFields
    <3>3. q.pending = sr[s].pending + 1
      BY <2>1, <3>1, VerdictCounters
    <3> QED
      BY <3>2, <3>3
  <2>6. Scored(s, q)
    BY <2>4 DEF ScoreAnomalous
  <2>7. Fires(sr[s])
    BY <1>1, <2>5, <2>6, ScoredFiring
  <2>8. Judged(s, q, "anom")
    BY <1>1, <2>4, JudgedAnomalous
  <2>9. hist'[s] = Noted(s, "anom")
    BY <2>1, <2>4 DEF Record, Noted, Histories
  <2>10. /\ ForBuckets \in Nat /\ ForBuckets <= q.pending /\ q.pending \in Nat
         /\ sr[s].lastEval \in Int
    BY <2>1, <2>5, <2>7, RecordTypes, SettingsAssumption DEF Fires
  <2> HIDE DEF q
  <2>11. Run(hist'[s], sr[s].lastEval, q.pending, {"anom"})
    BY <2>8, <2>9 DEF Judged
  <2> QED
    BY <2>10, <2>11, RunPart
<1>2. HSpec => []HIInv
  BY HInvariance
<1> QED
  BY <1>1, <1>2, PTL DEF HSpec, FiresAfterConsecutive

(***************************************************************************)
(* A finding resolves only after two normal buckets with no anomalous one  *)
(* since, or after three buckets in a row without a score: no other mix of *)
(* verdicts, and no sample or clock between two evaluations, resolves it   *)
(* (eval.go:157-164, 180-193; README.md:205, 212).                         *)
(***************************************************************************)
THEOREM ResolvesInARow ==
  ASSUME Steadily
  PROVE  HSpec => ResolvesAfterConsecutive
<1> DEFINE Fine(s) ==
             LET b == sr[s].lastEval
             IN  \/ /\ hist'[s][b] = "norm"
                    /\ \E x \in First .. b - 1 :
                         /\ hist'[s][x] = "norm"
                         /\ \A y \in x .. b : hist'[s][y] # "anom"
                 \/ Run(hist'[s], b, 3, {"gap", "undef", "unscored"})
<1>1. ASSUME HIInv, [HNext]_hvars
      PROVE  [\A s \in stored' : sr[s].firing /\ ~sr'[s].firing => Fine(s)]_hvars
  <2> SUFFICES ASSUME ~UNCHANGED hvars, NEW s \in stored', sr[s].firing, ~sr'[s].firing
               PROVE  Fine(s)
    OBVIOUS
  <2>1. s \in Series /\ sr[s] \in SeriesRecord /\ hist \in [Series -> Histories]
    <3>1. IInv'
      BY <1>1, HNextInv DEF HIInv
    <3>2. s \in Series
      BY <3>1 DEF IInv, TypeOK
    <3> QED
      BY <1>1, <3>2 DEF HIInv, IInv, TypeOK, HTypes, Histories
  <2>2. HScore(s)
    BY <1>1, <2>1, FlagKept
  <2> DEFINE r == sr[s]
             b == r.lastEval
  <2>3. CASE ScoreMissing(s) /\ Record(s, Unscored(s))
    <3> DEFINE q == AfterMissing(r)
    <3>1. /\ q \in SeriesRecord /\ q.missing = r.missing + 1
          /\ q.firing = (r.firing /\ ~ResolvesMissing(r)) /\ Scored(s, q)
      BY <2>1, <2>3, AfterMissingFields DEF ScoreMissing
    <3>2. ResolvesMissing(r)
      BY <1>1, <2>1, <3>1, ScoredFiring
    <3>3. Judged(s, q, Unscored(s))
      BY <1>1, <2>1, <2>3, JudgedMissing
    <3>4. hist'[s] = Noted(s, Unscored(s))
      BY <2>1, <2>3 DEF Record, Noted, Histories
    <3>5. 3 <= q.missing /\ q.missing \in Nat /\ b \in Int
      BY <2>1, <3>1, <3>2, RecordTypes DEF ResolvesMissing
    <3> HIDE DEF q
    <3>6. Run(hist'[s], b, q.missing, Unscorable)
      BY <3>3, <3>4 DEF Judged
    <3>7. Run(hist'[s], b, 3, Unscorable)
      BY <3>5, <3>6, RunPart
    <3> QED
      BY <3>7 DEF Unscorable
  <2>4. ASSUME NEW e \in Expectations(s), ScoreAnomalous(s, e) PROVE FALSE
    <3>1. AfterAnomaly(r, e).firing /\ AfterAnomaly(r, e) \in SeriesRecord
      BY <2>1, AfterAnomalyFields DEF Expectations
    <3>2. Scored(s, AfterAnomaly(r, e))
      BY <2>4 DEF ScoreAnomalous
    <3> QED
      BY <1>1, <2>1, <3>1, <3>2, ScoredFiring
  <2>5. ASSUME NEW e \in Expectations(s), ScoreNormal(s, e), Record(s, "norm")
        PROVE  Fine(s)
    <3>1. /\ AfterNormal(r, e) \in SeriesRecord
          /\ AfterNormal(r, e).firing = (r.firing /\ ~Recovers(r))
      BY <2>1, AfterNormalFields DEF Expectations
    <3>2. Scored(s, AfterNormal(r, e)) /\ step[s] = "score"
      BY <2>5 DEF ScoreNormal
    <3>3. Recovers(r)
      BY <1>1, <2>1, <3>1, <3>2, ScoredFiring
    <3>4. r.normal > 0
      BY <2>1, <3>3, RecordTypes DEF Recovers
    <3>5. /\ Locked(s) /\ hist[s] \in Histories
          /\ NormalSince(hist[s], b - 1)
      BY <1>1, <2>1, <3>2, <3>4, Unjudging
    <3>6. b \in NoHead .. MaxB
      BY <1>1, <2>1, <3>5, Judging
    <3>7. "norm" \in Verdicts /\ "norm" # "anom"
      BY DEF Verdicts
    <3>8. hist'[s] = [hist[s] EXCEPT ![b] = "norm"]
      BY <2>1, <2>5 DEF Record, Histories
    <3>9. hist'[s][b] = "norm"
      BY <3>5, <3>6, <3>8 DEF Histories
    <3> HIDE DEF b
    <3>10. \E x \in First .. b - 1 :
             /\ hist'[s][x] = "norm"
             /\ \A y \in x .. b : hist'[s][y] # "anom"
      BY <3>5, <3>6, <3>7, <3>8, NormalGrows
    <3> QED
      BY <3>9, <3>10 DEF b
  <2> QED
    BY <2>2, <2>3, <2>4, <2>5 DEF HScore
<1>2. HSpec => []HIInv
  BY HInvariance
<1> QED
  BY <1>1, <1>2, PTL DEF HSpec, ResolvesAfterConsecutive

(***************************************************************************)
(* Absence fires only after AbsentBuckets buckets that other series        *)
(* reached and in which nothing of the series arrived, whatever the ring   *)
(* of seen buckets has forgotten by then (eval.go:198-203).                *)
(***************************************************************************)
THEOREM AbsentInARow ==
  ASSUME Steadily
  PROVE  HSpec => AbsentAfterConsecutive
<1> DEFINE Fine(s) ==
             LET since == sr'[s].absentSince
             IN  /\ Cardinality(reached \cap (since .. sr[s].lastEval)) >= AbsentBuckets
                 /\ \A b \in since .. sr[s].lastEval - 1 : hist[s][b] = "gap"
<1>1. ASSUME HIInv, [HNext]_hvars
      PROVE  [\A s \in Series :
                sr[s].absent # "firing" /\ sr'[s].absent = "firing" => Fine(s)]_hvars
  <2> SUFFICES ASSUME NEW s \in Series, sr[s].absent # "firing", sr'[s].absent = "firing"
               PROVE  Fine(s)
    OBVIOUS
  <2>1. TypeOK /\ \A t \in Series : sr[t] \in SeriesRecord
    BY <1>1 DEF HIInv, IInv, TypeOK
  <2>2. CountAbsent(s)
    <3>1. CASE UNCHANGED hvars
      BY <3>1 DEF hvars, vars
    <3>2. CASE Feed
      <4>1. sr'[s] = sr[s] \/ SameDetector(sr'[s], sr[s])
        BY <2>1, <3>2, FeedFeeds DEF Feeding
      <4> QED
        BY <4>1 DEF SameDetector
    <3>3. CASE EvalBegin \/ EvalMetrics \/ EvalLogs \/ Apply \/ EvalEnd
      BY <3>3 DEF EvalBegin, EvalMetrics, EvalLogs, Apply, EvalEnd
    <3>4. ASSUME NEW t \in Series, EvalSeries(t) PROVE FALSE
      <4> DEFINE r == Advance(t, sr[t], Open)
      <4>1. r \in SeriesRecord /\ SameDetector(r, sr[t])
        BY <2>1, AdvanceKeeps, OpenType
      <4>2. At(r, Start(r)).absent = r.absent
        BY <2>1, <4>1, OpenType, AtFields
      <4>3. /\ sr'[t] = IF Start(r) <= Last THEN At(r, Start(r)) ELSE r
            /\ s # t => sr'[s] = sr[s]
        BY <2>1, <3>4 DEF EvalSeries, TypeOK, At
      <4> HIDE DEF r
      <4> QED
        BY <4>1, <4>2, <4>3 DEF SameDetector
    <3>5. ASSUME NEW t \in Series, EvalNoSeries(t) PROVE FALSE
      BY <3>5 DEF EvalNoSeries
    <3>6. ASSUME NEW t \in Series, TrackAbsent(t) PROVE CountAbsent(s)
      <4>1. CASE CountAbsent(t)
        BY <2>1, <4>1 DEF CountAbsent, TypeOK
      <4>2. CASE ~CountAbsent(t)
        <5>1. /\ sr'[t] \in {sr[t], AfterData(sr[t]), AfterExpiry(sr[t])}
              /\ s # t => sr'[s] = sr[s]
          BY <2>1, <3>6, <4>2
          DEF TypeOK, TrackAbsent, NotTracked, DataReturned, StillAbsent, IgnoreAbsent
        <5> QED
          BY <2>1, <5>1, AbsenceFields
      <4> QED
        BY <4>1, <4>2
    <3>7. ASSUME NEW t \in Series, HScore(t) PROVE FALSE
      <4>1. PICK q \in SeriesRecord : q.absent = sr[t].absent /\ Scored(t, q)
        <5>1. CASE ScoreMissing(t)
          BY <2>1, <5>1, AfterMissingFields DEF ScoreMissing, SameData
        <5>2. ASSUME NEW e \in Expectations(t), ScoreAnomalous(t, e)
              PROVE  Scored(t, AfterAnomaly(sr[t], e)) /\ e \in BOOLEAN
          BY <5>2 DEF ScoreAnomalous, Expectations
        <5>3. ASSUME NEW e \in Expectations(t), ScoreNormal(t, e)
              PROVE  Scored(t, AfterNormal(sr[t], e)) /\ e \in BOOLEAN
          BY <5>3 DEF ScoreNormal, Expectations
        <5> QED
          BY <2>1, <3>7, <5>1, <5>2, <5>3, AfterAnomalyFields, AfterNormalFields
          DEF HScore, SameData
      <4>2. [q EXCEPT !.lastEval = @ + 1].absent = q.absent
        BY DEF SeriesRecord
      <4> QED
        BY <2>1, <4>1, <4>2 DEF Scored, TypeOK
    <3>8. ASSUME NEW t \in Series, HGcSeries(t) PROVE FALSE
      <4>1. NewSeries.absent = "none"
        BY DEF NewSeries
      <4> QED
        BY <2>1, <3>8, <4>1 DEF HGcSeries, GcSeries, TypeOK
    <3> QED
      BY <1>1, <3>1, <3>2, <3>3, <3>4, <3>5, <3>6, <3>7, <3>8 DEF HNext, HEvaluate
  <2> DEFINE q == AfterMiss(sr[s])
             b == sr[s].lastEval
  <2>3. /\ sr'[s] = q /\ q \in SeriesRecord
        /\ q.absent = IF Vanished(sr[s]) THEN "firing" ELSE sr[s].absent
    BY <2>1, <2>2, AbsenceFields DEF CountAbsent, TypeOK
  <2>4. Vanished(sr[s])
    BY <2>3
  <2>5. /\ Cardinality(reached \cap (q.absentSince .. b)) >= q.absentRun
        /\ q.absentSince \in Int /\ q.absentRun = sr[s].absentRun + 1
        /\ \A x \in q.absentSince .. b - 1 : hist[s][x] = "gap"
    BY <1>1, <2>2, MissCounted
  <2>6. q.absentRun >= AbsentBuckets /\ AbsentBuckets \in Nat /\ q.absentRun \in Nat
        /\ b \in Int
    BY <2>1, <2>4, <2>5, RecordTypes, SettingsAssumption DEF Vanished
  <2> HIDE DEF q, b
  <2>7. Cardinality(reached \cap (q.absentSince .. b)) \in Nat
    <3>1. b <= b /\ reached \subseteq reached
      BY <2>6
    <3> QED
      BY <2>5, <2>6, <3>1, ReachedMore
  <2>8. Cardinality(reached \cap (q.absentSince .. b)) >= AbsentBuckets
    BY <2>5, <2>6, <2>7
  <2> QED
    BY <2>3, <2>5, <2>8 DEF b
<1>2. HSpec => []HIInv
  BY HInvariance
<1> QED
  BY <1>1, <1>2, PTL DEF HSpec, AbsentAfterConsecutive

===============================================================================
