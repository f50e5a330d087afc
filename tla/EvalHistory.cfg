SPECIFICATION HFairSpec
CONSTANTS
  MetricSeries = {"m1"}
  LogSeries = {}
  TwoWay = {"m1"}
  Writers = {1}
  ForBuckets = 2
  AbsentBuckets = 2
  AbsentTTL = 0
  MaxCatchUp = 3
  Grace = 0
  PromRing = 8
  LogRing = 4
  LogSeason = 2
  SeenLen = 5
  MaxB = 9
  MaxJump = 3
  Ahead = 1
  Late = 0
  Sends = {"other"}
  Scores = {"none", "norm", "anom"}
PROPERTIES
  FiresAfterConsecutive
  ResolvesAfterConsecutive
  AbsentAfterConsecutive
  AbsentResolvesOnData
