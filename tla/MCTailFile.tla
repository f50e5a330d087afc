------------------------------ MODULE MCTailFile ------------------------------
(***************************************************************************)
(* Instances of TailFile for TLC.  TailFile.cfg: two streams, reads of two *)
(* pieces, and files that are rotated, truncated and removed in any order. *)
(***************************************************************************)
EXTENDS TailFile

===============================================================================
