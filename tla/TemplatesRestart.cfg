SPECIFICATION Spec
CONSTANTS
  Texts = {"a", "A", "b"}
  ShapeOf <- MCShapeOf
  Handlers = {1}
  MaxClusters = 1
  AliasCap = 2
  Shards = 2
  NoveltyMin = 1
  MaxBody = 2
  MaxId = 2
  MaxStarts = 2
CHECK_DEADLOCK FALSE
PROPERTIES
  NewFindingsSurvive
