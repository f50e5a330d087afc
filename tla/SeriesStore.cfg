SPECIFICATION FairSpec
CONSTANTS
  k1 = k1
  k2 = k2
  k3 = k3
  k4 = k4
  Keys = {k1, k2, k3, k4}
  Handlers = {h1, h2, h3}
  Workers = {w1, w2}
  Shards = 2
  ShardOf <- TwoShards
  MaxSeries = 2
  MaxDropped = 1
INVARIANTS
  CountIsExact
  NearCap
PROPERTIES
  FreedSlotsAreUsed
