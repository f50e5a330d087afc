----------------------------- MODULE MCSeriesRing -----------------------------
(***************************************************************************)
(* Instances of SeriesRing for TLC.  SeriesRing.cfg: a ring that is filled *)
(* around and jumped over, with a late window shorter than the ring.       *)
(***************************************************************************)
EXTENDS SeriesRing

===============================================================================
