-------------------------- MODULE MCEvaluationHistory --------------------------
(***************************************************************************)
(* Instances of EvaluationHistory for TLC.  EvalHistory.cfg: every score   *)
(* outcome of one series that keeps up with the data clock.                *)
(* EvalSkip.cfg: a data clock that jumps further than maxCatchUp.          *)
(***************************************************************************)
EXTENDS EvaluationHistory

===============================================================================
