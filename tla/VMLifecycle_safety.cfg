\* Two runs reused without bound, one command of every kind at a time, and a supervisor
\* killed at any moment.
SPECIFICATION Spec
CONSTANTS
  Runs = {r1, r2}
  Clients = {c1}
  Ops = {"status", "stop", "force", "restart", "delete"}
  MaxCrashes = 1
  None = None
SYMMETRY Symmetry
INVARIANTS
  TypeOK
  LockProvesOffline
  HolderListens
  FilesOutliveGuest
  FailedStartLetsGo
  FailureIsRemembered
PROPERTIES
  StopConfirmsOffline
CHECK_DEADLOCK FALSE
