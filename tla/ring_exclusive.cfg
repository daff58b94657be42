SPECIFICATION Spec
CONSTANTS
  NBuf = 2
  Cap = 2
  Lens = {1, 2}
  SinkLsns = {3}
  SnapLsns = {1, 2, 3, 4}
  MaxLsn = 4
  MaxFail = 1
CONSTRAINT KeptApart
CHECK_DEADLOCK FALSE
INVARIANTS SyncedUnlessFailed ShutdownKeepsAll FileOrdered
