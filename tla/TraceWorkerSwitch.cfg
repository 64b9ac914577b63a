SPECIFICATION Spec
CONSTANTS
  vm1 = vm1
  vm2 = vm2
  None = None
  Targets <- MCTargets
  Cap = 2
  MaxOpens = 2
  MaxCuts = 0
  MaxLines = 0
INVARIANT OneSubscription
CHECK_DEADLOCK FALSE
