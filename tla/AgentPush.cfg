SPECIFICATION FairSpec
CONSTANTS
  Keys = {"k", "blank"}
  Blank = {"blank"}
  Buckets = {0, 1}
  MaxBacklog = 1
  Slots = {1, 2}
  MaxLines = 1
  MaxTrouble = 2
CHECK_DEADLOCK FALSE
INVARIANTS
  TypeOK
  AtLeastOnce
  OnceWhileAnswered
PROPERTIES
  Delivered
