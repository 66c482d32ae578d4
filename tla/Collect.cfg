SPECIFICATION FairSpec
CONSTANTS
  Files <- MCFiles
  Name <- MCName
  Contents <- MCContents
  MaxFileSize <- MCMaxFileSize
  ToLower <- MCToLower
  Absent = Absent
  NoFile = NoFile
INVARIANTS
  TypeOK
  NoLoss
  InOrder
  OnlyExported
  RepeatsExplained
  IInv
PROPERTIES
  DeliverySpec
  LocksRespected
  Drained
