-------------------------------- MODULE Alarms --------------------------------
(***************************************************************************)
(* What the evaluator promises a reader of /api/v1/findings: in rounds,    *)
(* conditions are raised and cleared one at a time as buckets are judged,  *)
(* and the end of a round publishes exactly the conditions that hold then. *)
(* Between rounds nothing is raised, cleared or published: a published     *)
(* finding never loses its condition, nor a condition its finding.         *)
(***************************************************************************)
CONSTANT Conditions

VARIABLES raised,     \* conditions that hold by the buckets judged so far
          published,  \* findings a reader sees
          judging     \* a round is under way

avars == <<raised, published, judging>>

Init == raised = {} /\ published = {} /\ judging = FALSE

Begin == /\ ~judging
         /\ judging' = TRUE
         /\ UNCHANGED <<raised, published>>

Raise(c) == /\ judging /\ c \notin raised
            /\ raised' = raised \cup {c}
            /\ UNCHANGED <<published, judging>>

Clear(c) == /\ judging /\ c \in raised
            /\ raised' = raised \ {c}
            /\ UNCHANGED <<published, judging>>

Publish == /\ judging
           /\ judging' = FALSE
           /\ published' = raised
           /\ UNCHANGED raised

Next == Begin \/ Publish \/ \E c \in Conditions : Raise(c) \/ Clear(c)

Spec == Init /\ [][Next]_avars

===============================================================================
