SPECIFICATION Spec
CONSTANTS
  NPaths = 4
  Above <- OneDeep
  Content = {u, v, w}
  Usual = u
  Longer = w
  Size <- Lengths
  Dates = {3, 5}
  FirstDate = 3
  FirstTrees <- Trees
  FirstSaved <- Saves
  Root = Root
  Elsewhere = Elsewhere
  None = None
  Absent = Absent
  Dir = Dir
  Torn = Torn
  Edited = {1, 2}
  MaxRuns = 2
  MaxEdits = 2
  MaxFaults = 1
INVARIANTS
  RowsFormTree
  CacheTrue
  SnapshotTrue
  OldOrNew
CHECK_DEADLOCK FALSE
