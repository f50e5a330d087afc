----------------------------- MODULE MCSnapshots -----------------------------
(***************************************************************************)
(* Instances of Snapshots for TLC.  Snapshots.cfg: two series, evaluated   *)
(* and saved at the same time, with crashes and restarts at every step.    *)
(***************************************************************************)
EXTENDS Snapshots

===============================================================================
