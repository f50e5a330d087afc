----------------------------- MODULE MCEvaluation -----------------------------
(***************************************************************************)
(* Instances of Evaluation for TLC.  EvalMetric.cfg: one metric series     *)
(* that comes and goes while others keep coming; the data clock may jump   *)
(* over many buckets, so rings run empty and gc deletes, and each          *)
(* evaluation runs to its end.  EvalBoth.cfg: a metric and a log series    *)
(* side by side, with every kind of input that reaches them.               *)
(***************************************************************************)
EXTENDS EvaluationAlarms

===============================================================================
