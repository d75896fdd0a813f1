SPECIFICATION Spec
CONSTANTS
  NPaths = 4
  Above <- TwoDeep
  Content = {u, v, none, big}
  Usual = u
  EmptyFiles = {none}
  BigFiles = {big}
  Absent = Absent
  Dir = Dir
  Torn = Torn
  Starts <- AnyTrees
  MaxCommands = 5
  MaxFaults = 2
INVARIANTS
  NothingForeign
  AppliedMeansTransformed
  RevertRestores
  RefusedRevertIsHarmless
  OpenedPatchIsWhole
CHECK_DEADLOCK FALSE
