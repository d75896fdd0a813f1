SPECIFICATION Spec
CONSTANTS
  NPaths = 4
  Above <- TwoDeep
  Content = {u, v}
  Old = u
  Absent = Absent
  Dir = Dir
  Torn = Torn
  Starts <- AnyTrees
  Modes = {"oneWay", "newest", "sourceWins", "destinationWins", "error"}
  Options <- SomeOptions
  MaxRuns = 2
  MaxFaults = 1
INVARIANTS
  TypeOK
  SyncedUnlessBlocked
  WinnerKept
  NothingLostSilently
  ErrorsOnlyWhereClash
CHECK_DEADLOCK FALSE
