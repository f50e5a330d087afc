SPECIFICATION FairSpec
CONSTANTS
  Series = {"s1", "s2"}
  MaxRound = 2
INVARIANTS
  TypeOK
  RestoredFindingsCanResolve
PROPERTIES
  RestartKeepsFindings
  SnapshotsMoveOn
  StopEnds
