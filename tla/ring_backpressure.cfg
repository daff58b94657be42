SPECIFICATION FairSpec
CONSTANTS
  NBuf = 2
  Cap = 2
  Lens = {1, 2}
  SinkLsns = {}
  SnapLsns = {}
  MaxLsn = 4
  MaxFail = 0
CHECK_DEADLOCK FALSE
INVARIANTS TypeOK WatermarkOrder
PROPERTY AppendReturns
