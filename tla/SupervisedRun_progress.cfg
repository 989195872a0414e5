\* One control connection, reused without bound, beside the signals.
SPECIFICATION FairSpec
CONSTANTS
  Conns = {c1}
  Main = Main
  Attempts = {a1, a2}
  LiveStates = {"running", "paused"}
  None = None
PROPERTIES
  ImplementsContract
  ExitIsRecorded
  SignalEndsRun
  StopIsAnswered
CHECK_DEADLOCK FALSE
