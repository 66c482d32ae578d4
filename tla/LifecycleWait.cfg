SPECIFICATION Spec
CONSTANTS
  Procs = {p1}
  MaxRequests = 1
PROPERTIES
  GoroutinesAwaited
