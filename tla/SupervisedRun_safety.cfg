\* Two control connections; every kind of request on each, reused without bound.
SPECIFICATION Spec
CONSTANTS
  Conns = {c1, c2}
  Main = Main
  Attempts = {a1, a2, a3}
  LiveStates = {"running", "paused"}
  None = None
SYMMETRY Symmetry
INVARIANTS
  TypeOK
  OneRequestInFlight
  HandoffSafe
  SuccessMeansExited
  StoppingSticks
  QuietAtFinalize
  CleanExitEarned
CHECK_DEADLOCK FALSE
