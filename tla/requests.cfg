SPECIFICATION Spec
CONSTANTS
  DKeys = {k, l}
  DedupeWindow = 2
  AggWindow = 1
  Protos = {"tcp", "http"}
  Inputs = {"push", "query", "admin"}
  TestMode = TRUE
  MaxTime = 3
  MaxEvents = 3
  MaxBoots = 2
SYMMETRY KeySymmetry
VIEW WithoutWording
INVARIANTS RetriesAbsorbed AckedOnceAndVisible
PROPERTIES ErrorsInstallNothing
