\* The services of supervised runs, one run after the other.
SPECIFICATION FairSpec
CONSTANTS
  MaxSize = 2
  MaxBackups = 2
  BufferSize = 2
  PipeSize = 2
  None = None
  QMPStaleAfter = 1
  MaxTime = 2
  RunStates = {"running", "paused"}
  Agent = TRUE
  Scenarios <- MCScenarios
INVARIANTS
  LogKeepsNewest
  HealthIsCurrent
PROPERTIES
  TeardownEnds
