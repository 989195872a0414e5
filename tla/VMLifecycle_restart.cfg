\* One restart, no crash: its start meets the lock of the run it has just stopped.
SPECIFICATION Spec
CONSTANTS
  Runs = {r1, r2}
  Clients = {c1}
  Ops = {"restart"}
  MaxCrashes = 0
  None = None
INVARIANT
  RestartFindsItStopped
CHECK_DEADLOCK FALSE
