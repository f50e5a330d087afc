SPECIFICATION Spec
CONSTANTS
  Capacity = 4
  LateWin = 2
  Values = {0, 1}
  MaxB = 6
  MaxSamples = 5
INVARIANTS
  ValueIsExact
  CountsKept
