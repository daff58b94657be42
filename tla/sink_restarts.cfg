SPECIFICATION FairSpec
CONSTANTS
  SegRecs = 2
  FsyncRecs = 2
  Modes = {"Periodic", "PerEvent"}
  Gaps = {0, 1}
  MaxInbox = 1
  MaxLsn = 3
  MaxFail = 1
  MaxRestart = 2
  TornWrites = TRUE
INVARIANTS TypeOK SegmentsPartitionLsns StrictAcksSurvive DurableIsSynced
PROPERTIES CleanShutdownKeepsLoose ImplementsAckedLog StrictCallersAnswered
