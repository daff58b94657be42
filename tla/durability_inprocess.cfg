SPECIFICATION Spec
CONSTANTS
  Names = {a, b}
  ForkSnapshot = FALSE
  Retain = 1
  MaxLsn = 4
  MaxFail = 0
  MaxSnap = 2
  MaxCrash = 2
INVARIANTS TypeOK RegistryRecovered TablesRecovered StreamsOrdered
SYMMETRY NameSymmetry
