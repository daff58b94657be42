SPECIFICATION BenchSpec
CONSTANTS
  NWorkers = 2
  MaxConn = 2
  MaxReq = 3
  Kinds = {"req", "bad"}
  ReadCap = 2
  WriteCap = 3
  NewCap = 1
  BatchSize = 2
  SockCap = 1
  SlotWrap = 8
  HalfClose = TRUE
  Stopping = TRUE
  MaxLsn = 2
  Legacy = 1
  MaxAttempts = 2
  MaxRestarts = 1
CHECK_DEADLOCK FALSE
INVARIANTS AnswersInOrder NoStuckBytes
PROPERTIES SteadyAnswered KeepsPromise WaitEnds
