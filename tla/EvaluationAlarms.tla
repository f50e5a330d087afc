--------------------------- MODULE EvaluationAlarms ---------------------------
(***************************************************************************)
(* Evaluation implements Alarms.  A condition is raised when evalSeries    *)
(* sets a flag of seriesInfo (firing, absent); a round lasts from the      *)
(* first pass over a store to apply, which publishes from the queued       *)
(* events alone.                                                           *)
(***************************************************************************)
EXTENDS Evaluation

Raised(s, kind) == IF kind = "anomaly" THEN sr[s].firing
                                       ELSE sr[s].absent = "firing"

RaisedConditions == {k \in Series \X Kinds : Raised(k[1], k[2])}

Alarm == INSTANCE Alarms WITH Conditions <- Series \X Kinds,
                              raised <- RaisedConditions,
                              published <- active,
                              judging <- phase \in {"metrics", "logs"}

(***************************************************************************)
(* Replaying the queued events (apply, eval.go:243-265) publishes exactly  *)
(* the flags of the series, although apply never looks at a series; and    *)
(* no other step, gc's deletions included, raises, clears or publishes     *)
(* outside a round or more than one condition at a time.                   *)
(***************************************************************************)
ImplementsAlarms == Alarm!Spec

===============================================================================
