SPECIFICATION RunSpec
CONSTANTS
  NPaths = 4
  Above <- FlatAbove
  Content = {a, b, c}
  Absent = Absent
  Dir = Dir
  Torn = Torn
SYMMETRY Contents
INVARIANTS
  MirroredUnlessOvertaken
  CyclesResolved
  TransfersOnlyNewContent
  TempsGone
  SharedFilesStay
CHECK_DEADLOCK FALSE
