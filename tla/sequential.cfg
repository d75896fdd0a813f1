SPECIFICATION Spec
CONSTANTS
  NPaths = 3
  Above <- FlatAbove
  Content = {a, b}
  Absent = Absent
  Dir = Dir
  Torn = Torn
  NSessions = 1
  Client = {c}
  Owner <- OneClient
  Modes = {"push", "pull"}
  Majors = {2}
  Scenarios <- AllTrees
  Window = 2
  MaxFaults = 1
SYMMETRY Contents
PROPERTIES
  ImplementsSequential
