SPECIFICATION FairSpec
CONSTANTS
  Procs = {p1, p2, p3}
  Uuids = {u1, u2}
  Absent = Absent
  Cut = Cut
INVARIANTS
  TypeOK
  MutualExclusion
  UuidStable
  CutExplained
PROPERTIES
  OneInstanceSpec
  SomebodyRuns
