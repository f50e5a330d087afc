---------------------------- MODULE MCSeriesStore -----------------------------
(***************************************************************************)
(* Instances of SeriesStore for TLC: four keys in two shards, three        *)
(* handlers and two workers around a store of two series.                  *)
(***************************************************************************)
EXTENDS SeriesStore, TLC

CONSTANTS k1, k2, k3, k4

TwoShards == (k1 :> 1) @@ (k2 :> 1) @@ (k3 :> 2) @@ (k4 :> 2)

===============================================================================
