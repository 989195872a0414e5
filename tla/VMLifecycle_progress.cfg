\* One run and one command at a time, of every kind, and a supervisor killed at any
\* moment.
SPECIFICATION FairSpec
CONSTANTS
  Runs = {r1}
  Clients = {c1}
  Ops = {"status", "stop", "force", "restart", "delete"}
  MaxCrashes = 1
  None = None
PROPERTIES
  StartEnds
  CommandEnds
CHECK_DEADLOCK FALSE
