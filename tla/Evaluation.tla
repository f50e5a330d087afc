------------------------------ MODULE Evaluation ------------------------------
(***************************************************************************)
(* How samples become findings: remote write, backfill and log pushes put  *)
(* samples into series (internal/server/ingest.go), and the evaluation     *)
(* loop (internal/server/eval.go) scores every closed bucket once, keeps   *)
(* the per-series counters, collects events, applies them to the active    *)
(* findings and deletes dead series.                                       *)
(*                                                                         *)
(* Atomicity follows the locks.  A handler works on one series under its   *)
(* shard lock, so one sample is one step; it moves the metric data clock   *)
(* only when the whole request is decoded, which is a step of its own.     *)
(* The evaluator holds the shard lock while it walks the buckets of a      *)
(* series: each bucket takes an "absent" step and a "score" step, during   *)
(* which no sample reaches that series, but other series, the clock and    *)
(* the ring of seen buckets move on.  Events wait in a list that Apply     *)
(* replays later, after every series was walked.                           *)
(*                                                                         *)
(* Time is counted in buckets of --step (the grace period is a whole       *)
(* number of buckets), a series keeps which buckets hold a value rather    *)
(* than the values (module SeriesRing has those), and the score of a       *)
(* bucket that holds a value is any of: none, normal, anomalous.           *)
(***************************************************************************)
EXTENDS Integers, Sequences, FiniteSets

CONSTANTS
  MetricSeries,   \* series fed by remote write (aggregation Mean)
  LogSeries,      \* template and volume series (aggregation Sum)
  TwoWay,         \* metric series whose drop matters: seriesInfo.dir = 0
  Writers,        \* concurrent remote-write requests
  ForBuckets,     \* --for
  AbsentBuckets,  \* --absent-buckets, 0 = off
  AbsentTTL,      \* --absent-ttl in buckets, 0 = only when data returns
  MaxCatchUp,     \* eval.go maxCatchUp, 3 in the code
  Grace,          \* --grace in buckets
  PromRing,       \* capacity of a metric ring
  LogRing,        \* capacity of a log ring
  LogSeason,      \* --log-season in buckets
  SeenLen,        \* len(promSeen)
  MaxB,           \* bound: newest bucket the environment sends
  MaxJump,        \* bound: buckets a clock moves between two evaluations
  Ahead,          \* bound: buckets a sample may lie ahead of the data clock
  Late,           \* bound: buckets a sample may lie behind it
  Sends,          \* bound: kinds of input the environment sends
  Scores          \* bound: what detect.Score may return

Series == MetricSeries \cup LogSeries

ASSUME SeriesAssumption == /\ MetricSeries \cap LogSeries = {}
                           /\ TwoWay \subseteq MetricSeries
ASSUME SettingsAssumption == /\ ForBuckets \in Nat \ {0}
                             /\ AbsentBuckets \in Nat
                             /\ AbsentTTL \in Nat
                             /\ MaxCatchUp \in Nat /\ MaxCatchUp >= 3
                             /\ Grace \in Nat
                             /\ SeenLen \in Nat \ {0}
                             /\ MaxB \in Nat /\ MaxJump \in Nat
                             /\ Ahead \in Nat /\ Late \in Nat
\* A ring holds at least two seasons and two buckets (server.go New).
ASSUME RingAssumption == /\ PromRing \in Nat /\ PromRing >= 4
                         /\ LogRing \in Nat /\ LogRing >= 4
                         /\ LogSeason \in Nat \ {0}

\* Real buckets are counted from 1970, so they lie far above every constant.
First   == Grace + MaxCatchUp + 1
Buckets == First .. MaxB
\* math.MinInt64: below every bucket the evaluator can reach.
NoHead  == 0 - First

Kinds    == {"anomaly", "absent"}

VARIABLES
  stored,    \* series present in the stores
  sr,        \* sr[s]: the series and its seriesInfo
  promSeen,  \* ring of bucket numbers some remote-write series reached
  newest,    \* newest[w]: newest sample of request w, 0 when w holds none
  promClock, \* metric data clock, 0 before the first remote write
  now,       \* server clock
  phase,     \* where Evaluate stands
  promOpen, logOpen,  \* open buckets Evaluate read at its start
  todo,      \* series the current phase has not visited yet
  step,      \* step[s]: "absent" or "score" while s's shard lock is held
  events,    \* events[s]: events of s not yet applied
  active     \* keys of the active findings

feed == <<promSeen, newest, promClock, now>>
evaluator == <<phase, promOpen, logOpen, todo, step>>
vars == <<stored, sr, feed, evaluator, events, active>>

-------------------------------------------------------------------------------
(* One series: ring contents and counters.                                 *)

Larger(a, b) == IF a >= b THEN a ELSE b
Ring(s) == IF s \in MetricSeries THEN PromRing ELSE LogRing

NewSeries ==
  [head |-> NoHead, have |-> {}, lastEval |-> NoHead,
   pending |-> 0, normal |-> 0, missing |-> 0, firing |-> FALSE,
   absent |-> "none", absentRun |-> 0, absentSince |-> 0, undefData |-> 0,
   lastData |-> 0, written |-> FALSE, expects |-> FALSE]

\* The data of a series: open bucket, buckets with a value, newest sample.
WithData(r, h, v, l) == [r EXCEPT !.head = h, !.have = v, !.lastData = l]

\* Advance: a gap in a log series counts as 0 lines, in a metric as no value.
Advance(s, r, b) ==
  IF r.head = NoHead \/ b <= r.head THEN r
  ELSE WithData(r, b,
                IF s \in LogSeries THEN r.have \cup (r.head .. b) ELSE r.have,
                r.lastData)

Add(s, r, b) ==
  LET a == Advance(s, r, b)
  IN  WithData(a, Larger(a.head, b),
               IF b > a.head - Ring(s) THEN a.have \cup {b} ELSE a.have,
               Larger(a.lastData, b))

\* At returns a value: the bucket is closed, in the ring, and not NaN.
Has(s, r, b) == b \in r.have /\ b < r.head /\ b > r.head - Ring(s)

Seen(b) == b > 0 /\ promSeen[b % SeenLen] = b

Locked(s) == step[s] # "free"

Update(s, r) == /\ ~Locked(s)
                /\ stored' = stored \cup {s}
                /\ sr' = [sr EXCEPT ![s] = r]

-------------------------------------------------------------------------------
(* The environment: remote-write requests, backfill, log pushes, clocks.   *)

\* The environment dates a sample b within these bounds of the clock c.
Near(b, c) == /\ b <= (IF c = 0 THEN First ELSE c + Ahead)
              /\ b >= c - Late

MarkSeen(b) ==
  promSeen' = [promSeen EXCEPT ![b % SeenLen] = Larger(@, b)]

\* A request stores one finite sample of a modelled series.
WriteSample(w, s, b) ==
  /\ Near(b, promClock)
  /\ Update(s, [Add(s, sr[s], b) EXCEPT !.written = TRUE])
  /\ newest' = [newest EXCEPT ![w] = Larger(@, b)]
  /\ MarkSeen(b)
  /\ UNCHANGED <<promClock, now, evaluator, events, active>>

\* A request stores one finite sample of a series that is not modelled.
WriteOther(w, b) ==
  /\ "other" \in Sends /\ Near(b, promClock)
  /\ newest' = [newest EXCEPT ![w] = Larger(@, b)]
  /\ MarkSeen(b)
  /\ UNCHANGED <<stored, sr, promClock, now, evaluator, events, active>>

\* A NaN or Inf sample that is not a staleness marker: it only shows that the
\* series still arrives.
WriteUndef(s, b) ==
  /\ "undef" \in Sends /\ Near(b, promClock)
  /\ Update(s, [sr[s] EXCEPT !.undefData = Larger(@, b)])
  /\ UNCHANGED <<feed, evaluator, events, active>>

\* A staleness marker creates the series but stores nothing in it.
WriteStale(s) ==
  /\ "stale" \in Sends
  /\ Update(s, sr[s])
  /\ UNCHANGED <<feed, evaluator, events, active>>

KeepsUp(clock, open) == promClock = 0 \/ clock - Grace - open <= MaxJump

\* Mutant: the last request to finish sets the clock.
WriteDoneLastWins(w) ==
  /\ newest[w] > 0
  /\ KeepsUp(newest[w], promOpen)
  /\ promClock' = newest[w]
  /\ newest' = [newest EXCEPT ![w] = 0]
  /\ UNCHANGED <<stored, sr, promSeen, now, evaluator, events, active>>

\* The request is decoded: the data clock moves to its newest sample.
WriteDone(w) ==
  /\ newest[w] > 0
  /\ KeepsUp(newest[w], promOpen)
  /\ promClock' = Larger(promClock, newest[w])
  /\ newest' = [newest EXCEPT ![w] = 0]
  /\ UNCHANGED <<stored, sr, promSeen, now, evaluator, events, active>>

\* The rest of the request is malformed: its samples stay, the clock does not
\* move.
WriteFail(w) ==
  /\ "malformed" \in Sends
  /\ newest[w] > 0
  /\ newest' = [newest EXCEPT ![w] = 0]
  /\ UNCHANGED <<stored, sr, promSeen, promClock, now, evaluator, events,
                 active>>

\* Backfill stores history without touching clock, promSeen or written.
Backfill(s, b) ==
  /\ "backfill" \in Sends /\ Near(b, promClock)
  /\ Update(s, Add(s, sr[s], b))
  /\ UNCHANGED <<feed, evaluator, events, active>>

\* addLog, one of the two series of a pushed count.
LogPush(s, b) ==
  /\ Near(b, now)
  /\ Update(s, Add(s, sr[s], b))
  /\ UNCHANGED <<feed, evaluator, events, active>>

\* Bound: without log series the server clock stands still, as none reads it.
Tick ==
  /\ now < MaxB /\ LogSeries # {}
  /\ now + 1 - Grace - logOpen <= MaxJump
  /\ now' = now + 1
  /\ UNCHANGED <<stored, sr, promSeen, newest, promClock, evaluator, events,
                 active>>

-------------------------------------------------------------------------------
(* Evaluate.                                                               *)

EvalBegin ==
  /\ phase = "idle"
  /\ phase' = "loaded"
  /\ promOpen' = promClock - Grace
  /\ logOpen' = now - Grace
  /\ UNCHANGED <<stored, sr, feed, todo, step, events, active>>

\* promClock is read a second time: no metric evaluation before the first
\* remote write.
EvalMetrics ==
  /\ phase = "loaded"
  /\ phase' = "metrics"
  /\ todo' = IF promClock > 0 THEN MetricSeries ELSE {}
  /\ UNCHANGED <<stored, sr, feed, promOpen, logOpen, step, events, active>>

EvalLogs ==
  /\ phase = "metrics" /\ todo = {}
  /\ phase' = "logs"
  /\ todo' = LogSeries
  /\ UNCHANGED <<stored, sr, feed, promOpen, logOpen, step, events, active>>

Open == IF phase = "metrics" THEN promOpen ELSE logOpen
Last == Open - 1

\* Mutant: the last scored bucket is forgotten.
StartForgets(r) == Last - MaxCatchUp + 1

Start(r) == Larger(r.lastEval + 1, Last - MaxCatchUp + 1)

\* Take the shard lock, advance the head, find the first bucket to score.
EvalSeries(s) ==
  /\ phase \in {"metrics", "logs"} /\ s \in todo /\ ~Locked(s) /\ s \in stored
  /\ LET r == Advance(s, sr[s], Open)
     IN  IF Start(r) <= Last
         THEN /\ sr' = [sr EXCEPT ![s] = [r EXCEPT !.lastEval = Start(r)]]
              /\ step' = [step EXCEPT ![s] = "absent"]
              /\ UNCHANGED todo
         ELSE /\ sr' = [sr EXCEPT ![s] = r]
              /\ todo' = todo \ {s}
              /\ UNCHANGED step
  /\ UNCHANGED <<stored, feed, phase, promOpen, logOpen, events, active>>

\* The shard is visited before the series exists.
EvalNoSeries(s) ==
  /\ phase \in {"metrics", "logs"} /\ s \in todo /\ s \notin stored
  /\ todo' = todo \ {s}
  /\ UNCHANGED <<stored, sr, feed, phase, promOpen, logOpen, step, events,
                 active>>

Emit(s, typ, kind) ==
  events' = [events EXCEPT ![s] = Append(@, [typ |-> typ, kind |-> kind])]

\* The series has data in the bucket, or at least an undefined sample.
Arrives(s, r, b) == Has(s, r, b) \/ r.undefData >= b

Tracked(s) == s \in TwoWay /\ AbsentBuckets > 0

ToScore(s) == /\ step' = [step EXCEPT ![s] = "score"]
              /\ UNCHANGED <<stored, feed, phase, promOpen, logOpen, todo,
                             active>>

NotTracked(s) ==
  /\ step[s] = "absent" /\ ~Tracked(s)
  /\ ToScore(s)
  /\ UNCHANGED <<sr, events>>

\* Mutant: the run of missed buckets survives.
AfterDataKeepsRun(r) == [r EXCEPT !.absent = "none"]

AfterData(r) == [r EXCEPT !.absent = "none", !.absentRun = 0]

\* Mutant: no resolve event is sent.
DataReturnedSilent(s) ==
  /\ step[s] = "absent" /\ Tracked(s) /\ Arrives(s, sr[s], sr[s].lastEval)
  /\ sr' = [sr EXCEPT ![s] = AfterData(@)]
  /\ UNCHANGED events
  /\ ToScore(s)

DataReturned(s) ==
  LET r == sr[s]
  IN  /\ step[s] = "absent" /\ Tracked(s) /\ Arrives(s, r, r.lastEval)
      /\ sr' = [sr EXCEPT ![s] = AfterData(r)]
      /\ IF r.absent = "firing" THEN Emit(s, "resolve", "absent")
                                ELSE UNCHANGED events
      /\ ToScore(s)

Expired(r) == AbsentTTL > 0 /\ r.lastEval - r.absentSince >= AbsentTTL
AfterExpiry(r) == [r EXCEPT !.absent = "expired"]

StillAbsent(s) ==
  LET r == sr[s]
  IN  /\ step[s] = "absent" /\ Tracked(s) /\ ~Arrives(s, r, r.lastEval)
      /\ r.absent = "firing"
      /\ IF Expired(r)
         THEN /\ sr' = [sr EXCEPT ![s] = AfterExpiry(r)]
              /\ Emit(s, "resolve", "absent")
         ELSE UNCHANGED <<sr, events>>
      /\ ToScore(s)

\* Absence fires; AfterMiss counts one more missed bucket.
Vanished(r) == /\ r.absentRun + 1 >= AbsentBuckets
               /\ r.written /\ r.expects
AfterMiss(r) ==
  [r EXCEPT !.absentRun = @ + 1,
            !.absentSince = IF r.absentRun = 0 THEN r.lastEval ELSE @,
            !.absent = IF Vanished(r) THEN "firing" ELSE @]

\* Missed a bucket that other series reached.
CountAbsent(s) ==
  LET r == sr[s]
  IN  /\ step[s] = "absent" /\ Tracked(s) /\ ~Arrives(s, r, r.lastEval)
      /\ r.absent = "none" /\ Seen(r.lastEval)
      /\ sr' = [sr EXCEPT ![s] = AfterMiss(r)]
      /\ IF Vanished(r) THEN Emit(s, "fire", "absent") ELSE UNCHANGED events
      /\ ToScore(s)

\* Expired, or a bucket no series reached: nothing changes.
IgnoreAbsent(s) ==
  LET r == sr[s]
  IN  /\ step[s] = "absent" /\ Tracked(s) /\ ~Arrives(s, r, r.lastEval)
      /\ \/ r.absent = "expired"
         \/ r.absent = "none" /\ ~Seen(r.lastEval)
      /\ ToScore(s)
      /\ UNCHANGED <<sr, events>>

TrackAbsent(s) == \/ NotTracked(s) \/ DataReturned(s) \/ StillAbsent(s)
                  \/ CountAbsent(s) \/ IgnoreAbsent(s)

\* Store the scored series r and go on to the next bucket, or unlock.
Scored(s, r) ==
  /\ IF r.lastEval < Last
     THEN /\ sr' = [sr EXCEPT ![s] = [r EXCEPT !.lastEval = @ + 1]]
          /\ step' = [step EXCEPT ![s] = "absent"]
          /\ UNCHANGED todo
     ELSE /\ sr' = [sr EXCEPT ![s] = r]
          /\ step' = [step EXCEPT ![s] = "free"]
          /\ todo' = todo \ {s}
  /\ UNCHANGED <<stored, feed, phase, promOpen, logOpen, active>>

\* Mutant: a finding resolves after four missing buckets.
ResolvesMissingLate(r) == r.firing /\ r.missing + 1 > 3

ResolvesMissing(r) == r.firing /\ r.missing + 1 >= 3

\* Mutant: a missing bucket takes one from the run of anomalous buckets.
AfterMissingCountsDown(r) ==
  [r EXCEPT !.missing = @ + 1, !.pending = @ - 1,
            !.firing = @ /\ ~ResolvesMissing(r)]

AfterMissing(r) ==
  [r EXCEPT !.missing = @ + 1, !.pending = 0,
            !.normal = IF ResolvesMissing(r) THEN 0 ELSE @,
            !.firing = @ /\ ~ResolvesMissing(r)]

\* detect.Score found nothing to score.
ScoreMissing(s) ==
  LET r == sr[s]
  IN  /\ step[s] = "score" /\ (Has(s, r, r.lastEval) => "none" \in Scores)
      /\ IF ResolvesMissing(r) THEN Emit(s, "resolve", "anomaly")
                               ELSE UNCHANGED events
      /\ Scored(s, AfterMissing(r))

Fires(r) == ~r.firing /\ r.pending + 1 >= ForBuckets

\* Mutant: an anomalous bucket does not break the run of normal ones.
AfterAnomalyKeepsNormal(r, expects) ==
  [r EXCEPT !.missing = 0, !.pending = @ + 1,
            !.firing = @ \/ Fires(r), !.expects = expects]

AfterAnomaly(r, expects) ==
  [r EXCEPT !.missing = 0, !.pending = @ + 1, !.normal = 0,
            !.firing = @ \/ Fires(r), !.expects = expects]

ScoreAnomalous(s, expects) ==
  LET r == sr[s]
  IN  /\ "anom" \in Scores
      /\ step[s] = "score" /\ Has(s, r, r.lastEval)
      /\ IF Fires(r) THEN Emit(s, "fire", "anomaly") ELSE UNCHANGED events
      /\ Scored(s, AfterAnomaly(r, expects))

Recovers(r) == r.firing /\ r.normal + 1 >= 2

\* Mutant: a normal bucket does not break the run of anomalous ones.
AfterNormalKeepsPending(r, expects) ==
  [r EXCEPT !.missing = 0, !.normal = @ + 1,
            !.firing = @ /\ ~Recovers(r), !.expects = expects]

AfterNormal(r, expects) ==
  [r EXCEPT !.missing = 0, !.pending = 0, !.normal = @ + 1,
            !.firing = @ /\ ~Recovers(r), !.expects = expects]

ScoreNormal(s, expects) ==
  LET r == sr[s]
  IN  /\ "norm" \in Scores
      /\ step[s] = "score" /\ Has(s, r, r.lastEval)
      /\ IF Recovers(r) THEN Emit(s, "resolve", "anomaly") ELSE UNCHANGED events
      /\ Scored(s, AfterNormal(r, expects))

\* Whether the expected value is above --abs-floor: only absence reads it.
Expectations(s) == IF Tracked(s) /\ "floor" \in Scores THEN BOOLEAN ELSE {TRUE}

Score(s) == \/ ScoreMissing(s)
            \/ \E e \in Expectations(s) : ScoreAnomalous(s, e)
            \/ \E e \in Expectations(s) : ScoreNormal(s, e)

\* Mutant: the order of the events is lost, a fire always wins.
OutcomeUnordered(es, k, before) ==
  LET mine == {i \in DOMAIN es : es[i].kind = k}
  IN  IF mine = {} THEN before ELSE \E i \in mine : es[i].typ = "fire"

\* Whether key <<s, k>> is active once the events es are applied.
Outcome(es, k, before) ==
  LET mine == {i \in DOMAIN es : es[i].kind = k}
  IN  IF mine = {} THEN before
      ELSE \E i \in mine : es[i].typ = "fire" /\ \A j \in mine : j <= i

Apply ==
  /\ phase = "logs" /\ todo = {}
  /\ phase' = "gc"
  /\ active' = {k \in Series \X Kinds :
                  Outcome(events[k[1]], k[2], k \in active)}
  /\ events' = [s \in Series |-> <<>>]
  /\ todo' = Series
  /\ UNCHANGED <<stored, sr, feed, promOpen, logOpen, step>>

\* gc: a full ring (metrics) or a full season (logs) without data.
Dead(s) ==
  IF s \in MetricSeries
  THEN sr[s].lastData < promOpen - PromRing /\ sr[s].absent # "firing"
  ELSE sr[s].lastData < logOpen - LogSeason /\ ~sr[s].firing

GcSeries(s) ==
  /\ phase = "gc" /\ s \in todo
  /\ todo' = todo \ {s}
  /\ IF s \in stored /\ Dead(s)
     THEN /\ stored' = stored \ {s}
          /\ sr' = [sr EXCEPT ![s] = NewSeries]
     ELSE UNCHANGED <<stored, sr>>
  /\ UNCHANGED <<feed, phase, promOpen, logOpen, step, events, active>>

EvalEnd ==
  /\ phase = "gc" /\ todo = {}
  /\ phase' = "idle"
  /\ UNCHANGED <<stored, sr, feed, promOpen, logOpen, todo, step, events,
                 active>>

-------------------------------------------------------------------------------

Init ==
  /\ stored = {}
  /\ sr = [s \in Series |-> NewSeries]
  /\ promSeen = [i \in 0 .. SeenLen - 1 |-> 0]
  /\ newest = [w \in Writers |-> 0]
  /\ promClock = 0
  /\ now = First
  /\ phase = "idle"
  /\ promOpen = 0 - Grace
  /\ logOpen = First - Grace
  /\ todo = {}
  /\ step = [s \in Series |-> "free"]
  /\ events = [s \in Series |-> <<>>]
  /\ active = {}

RemoteWrite(w) ==
  \/ \E s \in MetricSeries, b \in Buckets : WriteSample(w, s, b)
  \/ \E b \in Buckets : WriteOther(w, b)
  \/ WriteDone(w)
  \/ WriteFail(w)

Feed ==
  \/ \E w \in Writers : RemoteWrite(w)
  \/ \E s \in MetricSeries, b \in Buckets : WriteUndef(s, b) \/ Backfill(s, b)
  \/ \E s \in MetricSeries : WriteStale(s)
  \/ \E s \in LogSeries, b \in Buckets : LogPush(s, b)
  \/ Tick

Evaluate ==
  \/ EvalBegin \/ EvalMetrics \/ EvalLogs \/ Apply \/ EvalEnd
  \/ \E s \in Series : \/ EvalSeries(s) \/ EvalNoSeries(s)
                       \/ TrackAbsent(s) \/ Score(s) \/ GcSeries(s)

Next == Feed \/ Evaluate

Spec == Init /\ [][Next]_vars

\* Run's ticker calls Evaluate again and again, and a call runs to its end.
FairSpec == Spec /\ WF_vars(Evaluate)

-------------------------------------------------------------------------------
(* Correctness.                                                            *)

BucketOrNone == Buckets \cup {0}
Event == [typ : {"fire", "resolve"}, kind : Kinds]

SeriesRecord ==
  [head : Int, have : SUBSET Int, lastEval : Int,
   pending : Nat, normal : Nat, missing : Nat, firing : BOOLEAN,
   absent : {"none", "firing", "expired"}, absentRun : Nat,
   absentSince : Int, undefData : BucketOrNone, lastData : BucketOrNone,
   written : BOOLEAN, expects : BOOLEAN]

TypeOK ==
  /\ stored \subseteq Series
  /\ sr \in [Series -> SeriesRecord]
  /\ promSeen \in [0 .. SeenLen - 1 -> BucketOrNone]
  /\ newest \in [Writers -> BucketOrNone]
  /\ promClock \in BucketOrNone
  /\ now \in Int
  /\ phase \in {"idle", "loaded", "metrics", "logs", "gc"}
  /\ promOpen \in Int /\ logOpen \in Int
  /\ todo \subseteq Series
  /\ step \in [Series -> {"free", "absent", "score"}]
  /\ events \in [Series -> Seq(Event)]
  /\ active \subseteq Series \X Kinds

(***************************************************************************)
(* The active findings, once the events still queued are applied, are      *)
(* exactly the series whose firing flags are set: no finding outlives the  *)
(* series that would resolve it (gc deletes metric series without looking  *)
(* at firing), and no series believes it fires without a finding           *)
(* (eval.go:151-194, 204-228, 243-265, 511-519).                           *)
(***************************************************************************)
FindingsMatchSeries ==
  \A s \in Series :
    /\ Outcome(events[s], "anomaly", <<s, "anomaly">> \in active)
         <=> sr[s].firing
    /\ Outcome(events[s], "absent", <<s, "absent">> \in active)
         <=> sr[s].absent = "firing"

(***************************************************************************)
(* Between evaluations no finding is active for a metric series that has   *)
(* had no data in the last three scored buckets: it was resolved           *)
(* (README.md:212: a metric finding also resolves after 3 missing          *)
(* buckets; eval.go:159).                                                  *)
(***************************************************************************)
SilentSeriesResolved ==
  phase = "idle" =>
    \A s \in MetricSeries :
      <<s, "anomaly">> \in active => sr[s].lastEval - sr[s].lastData < 3

(***************************************************************************)
(* A series scores a bucket only when it is final by the clock of its      *)
(* kind: the data clock (metrics) or the wall clock (logs) has passed its  *)
(* end by the grace period, and the series' own head is past it, although  *)
(* the clocks and heads move while Evaluate runs and requests finish in    *)
(* any order (eval.go:101-105, 115-125; ingest.go:170-175).                *)
(***************************************************************************)
OnlyClosedBucketsScored ==
  \A s \in Series :
    Locked(s) =>
      /\ sr[s].lastEval + Grace < (IF s \in MetricSeries THEN promClock ELSE now)
      /\ sr[s].head = NoHead \/ sr[s].lastEval < sr[s].head

(***************************************************************************)
(* No bucket of a series is scored twice, whatever arrives late or is      *)
(* replayed: each bucket the evaluator turns to is newer than every bucket *)
(* it scored for that series before (eval.go:145-150).  A series that gc   *)
(* deleted and that comes back starts anew and may score a bucket again.   *)
(***************************************************************************)
ScoredOnce ==
  [][\A s \in stored \cap stored' :
       /\ sr'[s].lastEval >= sr[s].lastEval
       /\ step[s] # "absent" /\ step'[s] = "absent"
            => sr'[s].lastEval > sr[s].lastEval]_vars

(***************************************************************************)
(* An absent finding whose series delivered a bucket that the data clock   *)
(* has closed since is eventually resolved (README.md:256: it resolves     *)
(* when data returns), be it to fire again in the same evaluation.  That   *)
(* needs MaxJump <= MaxCatchUp and a ring that outlasts such a jump: a     *)
(* skipped bucket (eval.go:147) does not resolve, and the finding waits    *)
(* for later data or --absent-ttl.                                         *)
(***************************************************************************)
Returned(s) == \E b \in sr[s].have : sr[s].lastEval < b /\ b < promClock - Grace
ResolveQueued(s) ==
  \E i \in DOMAIN events[s] : events[s][i] = [typ |-> "resolve", kind |-> "absent"]
AbsentResolvesOnData ==
  \A s \in TwoWay :
    <<s, "absent">> \in active /\ Returned(s)
      ~> <<s, "absent">> \notin active \/ ResolveQueued(s)

(***************************************************************************)
(* A metric finding whose series stopped three closed buckets ago is       *)
(* eventually resolved, or the series comes back, as long as Evaluate      *)
(* keeps being called (README.md:212).                                     *)
(***************************************************************************)
Stopped(s) == promClock - Grace - 1 - sr[s].lastData >= 3
StoppedSeriesResolves ==
  \A s \in MetricSeries :
    <<s, "anomaly">> \in active /\ Stopped(s)
      ~> <<s, "anomaly">> \notin active \/ ~Stopped(s)

===============================================================================
