SPECIFICATION Spec
CONSTANTS
  NPaths = 4
  Above <- NestedAbove
  Content = {a, b}
  Absent = Absent
  Dir = Dir
  Torn = Torn
  NSessions = 1
  Client = {c}
  Owner <- OneClient
  Modes = {"push", "pull"}
  Majors = {1, 2}
  Scenarios <- FlatOrNested
  Window = 1
  MaxFaults = 1
SYMMETRY Contents
INVARIANTS
  TypeOK
  InStep
  SuccessMeansApplied
  MirrorUnlessOvertaken
  MatchingKept
  OneHoleAtMost
