SPECIFICATION Spec
CONSTANTS
  NPaths = 4
  Above <- NestedAbove
  Content = {a, b, c}
  Absent = Absent
  Dir = Dir
  Torn = Torn
  Pairs <- AnyPair
  Modes = {"push", "sync"}
  MaxRuns = 2
  MaxFaults = 1
SYMMETRY Contents
INVARIANTS
  TypeOK
  DeliveredUnlessStale
  SecondRunMends
  LossIsReported
  ErrorsOnlyWhereBlocked
PROPERTIES
  FetchedOnlyIfMissing
CHECK_DEADLOCK FALSE
