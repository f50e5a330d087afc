SPECIFICATION FairSpec
CONSTANTS
  Findings = {"f"}
  Signature = "sig"
  Hold = 4
  Cap = 2
  SigEvery = 4
  TTL = 1
  MaxFlips = 2
INVARIANTS
  TypeOK
  OpenIsOwed
  ClosesInTime
  OpenAfterTwoPosts
PROPERTIES
  SignatureOnce
  ActiveIsShown
