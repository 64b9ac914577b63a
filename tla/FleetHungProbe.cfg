SPECIFICATION HungProbeSpec
CONSTANTS
  t1 = t1
  t2 = t2
  None = None
  Targets <- TwoTargets
PROPERTY ShutdownCompletes
