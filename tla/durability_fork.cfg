SPECIFICATION Spec
CONSTANTS
  Names = {a, b}
  ForkSnapshot = TRUE
  Retain = 2
  MaxLsn = 4
  MaxFail = 0
  MaxSnap = 2
  MaxCrash = 2
INVARIANTS TablesRecovered
SYMMETRY NameSymmetry
