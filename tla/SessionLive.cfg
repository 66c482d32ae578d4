SPECIFICATION FairSpec
CONSTANTS
  Accounts = {a, b, c}
  Colon = {c}
  Fickle = TRUE
  Handlers = {h1}
  Jobs <- Collect
  MaxLogins = 6
  Spare = 4
  None = None
  Torn = Torn
  Absent = Absent
  Empty = Empty
  Garbled = Garbled
PROPERTIES
  Recovers
