SPECIFICATION Spec
CONSTANTS
  Accounts = {a, b}
  Colon = {}
  Fickle = TRUE
  Handlers = {h1, h2}
  Jobs <- Both
  MaxLogins = 3
  Spare = 1
  None = None
  Torn = Torn
  Absent = Absent
  Empty = Empty
  Garbled = Garbled
CONSTRAINT AtMostTwo
SYMMETRY Symmetry
INVARIANTS
  TypeOK
  ReadyComplete
  Coherent
  FileExplained
  MessageOfOneLogin
  IInv
PROPERTIES
  NeverAbandoned
