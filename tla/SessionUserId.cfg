SPECIFICATION Spec
CONSTANTS
  Accounts = {a, b}
  Colon = {}
  Fickle = TRUE
  Handlers = {h1}
  Jobs <- Collect
  MaxLogins = 2
  Spare = 0
  None = None
  Torn = Torn
  Absent = Absent
  Empty = Empty
  Garbled = Garbled
INVARIANTS
  UserIdMatchesLogin
