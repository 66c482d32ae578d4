SPECIFICATION Spec
CONSTANTS
  RotationMaxSize = 1
  RotationMaxBackups = 1
  RotationMaxAge = 2
  Absent = Absent
  Lengths = {1}
  MaxLines = 4
  MaxOther = 0
  MaxTime = 2
PROPERTIES
  Retained
