SPECIFICATION Spec
CONSTANTS
  NBuf = 2
  Cap = 2
  Lens = {1, 2}
  SinkLsns = {}
  SnapLsns = {1, 2, 3, 4}
  MaxLsn = 4
  MaxFail = 0
CHECK_DEADLOCK FALSE
INVARIANT SyncedReadable
