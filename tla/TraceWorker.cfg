SPECIFICATION FairSpec
CONSTANTS
  vm1 = vm1
  vm2 = vm2
  None = None
  Targets <- MCTargets
  Cap = 2
  MaxOpens = 2
  MaxCuts = 2
  MaxLines = 3
INVARIANTS
  TypeOK
  CaptureInOrder
  AliveMeansConnected
  StreamsNeverFork
  NeverGivenUp
PROPERTIES
  CaptureKept
  StaysSubscribed
CHECK_DEADLOCK FALSE
