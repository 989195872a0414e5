CONSTANTS
  Observers    <- MCObservers
  CreateFlags  <- MCCreateFlags
  SetFlags     <- MCSetFlags
  Replacements <- MCReplacements
  None = None
  MaxCommands = 1
  MaxRequests = 2
  MaxEvents = 1
SPECIFICATION FairSpec
INVARIANTS
  StoredConfigFits
  StartLeavesNothing
  AcceptedMeansAsked
  SyncDiscardsStale
  CountersCoverStatus
PROPERTIES
  CallsEnd
