SPECIFICATION FairSpec
CONSTANTS
  NPaths = 2
  Above <- FlatAbove
  Content = {a, b}
  Absent = Absent
  Dir = Dir
  Torn = Torn
  NSessions = 1
  Client = {c}
  Owner <- OneClient
  Modes = {"push", "pull"}
  Majors = {1, 2}
  Scenarios <- AllFlat
  Window = 1
  MaxFaults = 1
PROPERTIES
  EveryCommandEnds
