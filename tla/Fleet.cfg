SPECIFICATION FairSpec
CONSTANTS
  t1 = t1
  t2 = t2
  None = None
  Targets <- TwoTargets
INVARIANTS
  TypeOK
  NoOrphans
  SomebodyDeclares
PROPERTIES
  StatusFinal
  Settles
  ShutdownCompletes
