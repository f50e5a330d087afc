----------------------------- MODULE MCTemplates -----------------------------
(***************************************************************************)
(* Instances of Templates for TLC.                                         *)
(***************************************************************************)
EXTENDS Templates

\* Two spellings of one shape, and one other shape.
MCShapeOf == [t \in {"a", "A", "b"} |-> IF t = "A" THEN "a" ELSE t]

===============================================================================
