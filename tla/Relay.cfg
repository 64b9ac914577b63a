SPECIFICATION FairSpec
CONSTANTS
  Keys = {k}
  Sizes = {s1, s2}
  Output = {a, b}
  Other = other
  Buffer = 1
  MaxSent = 2
INVARIANT TypeOK
INVARIANT Released
INVARIANT ShutdownFrees
PROPERTY PassesFrames
PROPERTY WindowFollows
PROPERTY Teardown
PROPERTY NoOrphan
