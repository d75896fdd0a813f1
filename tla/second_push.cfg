SPECIFICATION Spec
CONSTANTS
  NPaths = 4
  Above <- PairedAbove
  Content = {a, b}
  Absent = Absent
  Dir = Dir
  Torn = Torn
  NSessions = 3
  Client = {c}
  Owner <- OneClient
  Modes = {"push"}
  Majors = {2}
  Scenarios <- AllTight
  Window = 2
  MaxFaults = 0
SYMMETRY Contents
INVARIANTS
  RetrySucceeds
