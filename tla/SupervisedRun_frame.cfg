\* One control connection is enough to lose the answer to a stop.
SPECIFICATION Spec
CONSTANTS
  Conns = {c1}
  Main = Main
  Attempts = {a1, a2}
  LiveStates = {"running"}
  None = None
INVARIANT
  StopGetsTerminalFrame
CHECK_DEADLOCK FALSE
