\* Two contents of a plist. A transaction may have any number of failing steps, be killed,
\* cancelled, or meet a login; boots, edits and removed files come in any number.
SPECIFICATION Spec
CONSTANTS
  Versions = {v1, v2}
  None = None
SYMMETRY Symmetry
INVARIANTS
  TypeOK
  NoVMUnderOperation
  DeletedLeavesNothing
  JobsFollowScope
  FailedDisableRestores
  EnableTakesEffect
  StartLoadsCurrent
