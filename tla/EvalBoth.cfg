SPECIFICATION Spec
CONSTANTS
  MetricSeries = {"m1"}
  LogSeries = {"l1"}
  TwoWay = {}
  Writers = {1}
  ForBuckets = 1
  AbsentBuckets = 2
  AbsentTTL = 2
  MaxCatchUp = 3
  Grace = 0
  PromRing = 4
  LogRing = 4
  LogSeason = 1
  SeenLen = 1
  MaxB = 6
  MaxJump = 3
  Ahead = 1
  Late = 0
  Sends = {"malformed", "backfill", "undef", "stale"}
  Scores = {"anom"}
INVARIANTS
  TypeOK
