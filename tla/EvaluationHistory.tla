--------------------------- MODULE EvaluationHistory ---------------------------
(***************************************************************************)
(* Evaluation with history variables: the verdict on every bucket of every *)
(* series, recorded as the evaluator scores it, and the buckets that the   *)
(* ring of seen buckets ever held.  The code keeps only counters (pending, *)
(* normal, missing, absentRun) and a short ring; the history says what "in *)
(* a row" means without them, so it can tell whether the counters do.      *)
(***************************************************************************)
EXTENDS Evaluation

VARIABLES
  hist,    \* hist[s][b]: the verdict on bucket b, "-" if it has none
  reached  \* the buckets that promSeen has held

hvars == <<vars, hist, reached>>

Verdicts == {"-", "gap", "undef", "unscored", "norm", "anom"}
NoVerdicts == [b \in NoHead .. MaxB |-> "-"]

Record(s, verdict) == hist' = [hist EXCEPT ![s][sr[s].lastEval] = verdict]

\* A bucket without a score holds a value, an undefined sample, or nothing.
Unscored(s) ==
  LET b == sr[s].lastEval
  IN  IF Has(s, sr[s], b) THEN "unscored"
      ELSE IF sr[s].undefData >= b THEN "undef" ELSE "gap"

HInit == Init /\ hist = [s \in Series |-> NoVerdicts] /\ reached = {}

HScore(s) ==
  \/ ScoreMissing(s) /\ Record(s, Unscored(s))
  \/ \E e \in Expectations(s) : ScoreAnomalous(s, e) /\ Record(s, "anom")
  \/ \E e \in Expectations(s) : ScoreNormal(s, e) /\ Record(s, "norm")

\* A deleted series takes its verdicts with it.
HGcSeries(s) ==
  /\ GcSeries(s)
  /\ hist' = IF s \in stored' THEN hist ELSE [hist EXCEPT ![s] = NoVerdicts]

HEvaluate ==
  \/ /\ \/ EvalBegin \/ EvalMetrics \/ EvalLogs \/ Apply \/ EvalEnd
        \/ \E s \in Series : EvalSeries(s) \/ EvalNoSeries(s) \/ TrackAbsent(s)
     /\ UNCHANGED hist
  \/ \E s \in Series : HScore(s) \/ HGcSeries(s)

HNext == /\ (Feed /\ UNCHANGED hist) \/ HEvaluate
         /\ reached' = reached \cup {b \in Buckets : Seen(b)'}

HSpec == HInit /\ [][HNext]_hvars

\* As FairSpec: a call of Evaluate runs to its end, and others follow.
HFairSpec == HSpec /\ WF_vars(Evaluate)

-------------------------------------------------------------------------------

\* The last n buckets up to b all have a verdict in V.
Run(h, b, n, V) == \A i \in 0 .. n - 1 : b - i \in DOMAIN h /\ h[b - i] \in V

(***************************************************************************)
(* A finding fires only when the last ForBuckets buckets, one after the    *)
(* other, were scored anomalous (server.go:28, README.md:204).             *)
(***************************************************************************)
FiresAfterConsecutive ==
  [][\A s \in Series :
       ~sr[s].firing /\ sr'[s].firing
         => Run(hist'[s], sr[s].lastEval, ForBuckets, {"anom"})]_hvars

(***************************************************************************)
(* A finding resolves only when the last two buckets that have a score are *)
(* normal (buckets without a score may lie between them), or after three   *)
(* buckets in a row without a score (README.md:205, 212; eval.go:158-193). *)
(***************************************************************************)
ResolvesAfterConsecutive ==
  [][\A s \in stored' :
       sr[s].firing /\ ~sr'[s].firing
         => LET b == sr[s].lastEval
            IN  \/ /\ hist'[s][b] = "norm"
                   /\ \E x \in First .. b - 1 :
                        /\ hist'[s][x] = "norm"
                        /\ \A y \in x .. b : hist'[s][y] # "anom"
                \/ Run(hist'[s], b, 3, {"gap", "undef", "unscored"})]_hvars

(***************************************************************************)
(* When AnomalydSeriesAbsent fires, the series delivered nothing from its  *)
(* first missed bucket on, and at least AbsentBuckets of those buckets     *)
(* were reached by other series, although the ring of seen buckets may     *)
(* have forgotten them since (eval.go:198-203, README.md:240-243).         *)
(***************************************************************************)
AbsentAfterConsecutive ==
  [][\A s \in Series :
       sr[s].absent # "firing" /\ sr'[s].absent = "firing"
         => LET since == sr'[s].absentSince
            IN  /\ Cardinality(reached \cap (since .. sr[s].lastEval)) >= AbsentBuckets
                /\ \A b \in since .. sr[s].lastEval - 1 : hist[s][b] = "gap"]_hvars

===============================================================================
