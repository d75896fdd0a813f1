SPECIFICATION Spec
CONSTANTS
  NPaths = 3
  Above <- FlatAbove
  Content = {a, b}
  Absent = Absent
  Dir = Dir
  Torn = Torn
  NSessions = 2
  Client = {1, 2}
  Owner <- AllClients
  Modes = {"push"}
  Majors = {2}
  Scenarios <- ChangesApart
  Window = 1
  MaxFaults = 0
SYMMETRY Contents
INVARIANTS
  DisjointPushesMirror
