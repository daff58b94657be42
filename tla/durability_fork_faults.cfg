SPECIFICATION Spec
CONSTANTS
  Names = {a}
  ForkSnapshot = TRUE
  Retain = 1
  MaxLsn = 4
  MaxFail = 1
  MaxSnap = 2
  MaxCrash = 1
INVARIANTS NoEventTwice SnapshotsAdvance
