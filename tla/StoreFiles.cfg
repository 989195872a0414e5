CONSTANTS
  Ids = {i1, i2}
  MaxRev = 1
  Requests <- MCRequests
  Readers = {r1}
  Torn = Torn
  None = None
SPECIFICATION FairSpec
INVARIANTS
  ConfigMeansWhole
  FailedCreateRestores
  PromiseSurvives
PROPERTIES
  LockIsReleased
