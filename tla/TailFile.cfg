SPECIFICATION FairSpec
CONSTANTS
  Streams = {"out", "err"}
  Limit = 2
  MaxPieces = 3
  MaxGens = 3
INVARIANTS
  TypeOK
  WholeMessages
  CountedOnce
PROPERTIES
  EverythingCounted
  HandleClosed
