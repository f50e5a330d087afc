SPECIFICATION HSpec
CONSTANTS
  MetricSeries = {"m1"}
  LogSeries = {}
  TwoWay = {}
  Writers = {1}
  ForBuckets = 2
  AbsentBuckets = 2
  AbsentTTL = 2
  MaxCatchUp = 3
  Grace = 0
  PromRing = 4
  LogRing = 4
  LogSeason = 2
  SeenLen = 1
  MaxB = 10
  MaxJump = 5
  Ahead = 5
  Late = 0
  Sends = {}
  Scores = {"none", "norm", "anom"}
PROPERTIES
  FiresAfterConsecutive
