SPECIFICATION FairSpec
CONSTANTS
  MetricSeries = {"m1"}
  LogSeries = {}
  TwoWay = {"m1"}
  Writers = {1}
  ForBuckets = 1
  AbsentBuckets = 2
  AbsentTTL = 2
  MaxCatchUp = 3
  Grace = 0
  PromRing = 4
  LogRing = 4
  LogSeason = 2
  SeenLen = 12
  MaxB = 9
  MaxJump = 5
  Ahead = 1
  Late = 1
  Sends = {"other", "malformed"}
  Scores = {"anom", "norm"}
INVARIANTS
  SilentSeriesResolved
  FindingsMatchSeries
  OnlyClosedBucketsScored
PROPERTIES
  ScoredOnce
  StoppedSeriesResolves
  ImplementsAlarms
