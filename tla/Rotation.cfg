SPECIFICATION Spec
CONSTANTS
  RotationMaxSize = 3
  RotationMaxBackups = 1
  RotationMaxAge = 1
  Absent = Absent
  Lengths = {1, 2, 4}
  MaxLines = 2
  MaxOther = 1
  MaxTime = 1
INVARIANTS
  TypeOK
  SizeLimit
  LinesKept
  LinesInOrder
  MillFollows
