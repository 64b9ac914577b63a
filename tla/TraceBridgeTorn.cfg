SPECIFICATION Spec
CONSTANTS
  QueueSize <- MCQueueSize
  MaxLines <- MCMaxLines
INVARIANT WholeLines
