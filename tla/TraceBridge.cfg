SPECIFICATION FairSpec
CONSTANTS
  QueueSize <- MCQueueSize
  MaxLines <- MCMaxLines
INVARIANTS
  TypeOK
  Conservation
  InOrder
  GapReported
PROPERTIES
  ImplementsFeed
  Teardown
  TailNeverStalls
