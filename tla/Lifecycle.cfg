SPECIFICATION FairSpec
CONSTANTS
  Procs = {p1, p2}
  MaxRequests = 2
INVARIANTS
  TypeOK
  Alone
  WaitIsExact
  IInv
PROPERTIES
  OnlyTheseBlock
